------------------------------- MODULE MCRuns -------------------------------
(***************************************************************************)
(* The two kinds of runs a runner executes, side by side: a hunt's         *)
(* discovery and a playground run. They share BullMQ and no state, so a    *)
(* behaviour is one of either; `kind` says which.                          *)
(***************************************************************************)
EXTENDS DiscoveryRuns, Playground, TLC

VARIABLE kind

RunsInit == DiscoveryInit /\ PlaygroundInit /\ kind \in {"discovery", "playground"}

RunsNext ==
    /\ UNCHANGED kind
    /\ \/ kind = "discovery" /\ DiscoveryNext /\ UNCHANGED pgVars
       \/ kind = "playground" /\ PlaygroundNext /\ UNCHANGED vars

\* No action that is to be fair is enabled in the initial state of its
\* module, so the kind that is not chosen owes nothing.
RunsSpec ==
    /\ RunsInit /\ [][RunsNext]_<<vars, pgVars, kind>>
    /\ DiscoveryFairness /\ PlaygroundFairness
=============================================================================
