------------------------------ MODULE MCPools ------------------------------
(***************************************************************************)
(* What callers wait for in line, side by side: a user's lock and the      *)
(* browsers of a process (BrowserUse), and the gate of a job board         *)
(* (PoliteFetch). They share no state, so a behaviour is one of either;    *)
(* `pool` says which.                                                      *)
(***************************************************************************)
EXTENDS BrowserUse, PoliteFetch, TLC

VARIABLE pool

\* Three listed jobs; the first and the last are one posting.
MCPageOf == <<1, 2, 1>>

PoolsInit == UseInit /\ FetchInit /\ pool \in {"browsers", "pages"}

PoolsNext ==
    /\ UNCHANGED pool
    /\ \/ pool = "browsers" /\ UseNext /\ UNCHANGED netVars
       \/ pool = "pages" /\ FetchNext /\ UNCHANGED useVars

\* No action that is to be fair is enabled in the initial state of its
\* module, so the pool that is not chosen owes nothing.
PoolsSpec ==
    /\ PoolsInit /\ [][PoolsNext]_<<useVars, netVars, pool>>
    /\ UseFairness /\ FetchFairness
=============================================================================
