---------------------------- MODULE MCBrowserUse ----------------------------
(* Model checking of the resource lock and the browser pool together.      *)
EXTENDS BrowserUse, TLC

Interchangeable == Permutations(Caller)
=============================================================================
