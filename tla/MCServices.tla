----------------------------- MODULE MCServices -----------------------------
(***************************************************************************)
(* The services around the application queue, side by side: outreach, the  *)
(* questions of an attempt, the daily allowance, the choices made in       *)
(* turns, the browser of a user on its host, the reasoning loop, and the   *)
(* gate of a job board. They share no state, so a behaviour is one of a    *)
(* single service; `part` says which.                                      *)
(***************************************************************************)
EXTENDS Outreach, LiveQuestions, Allowance, TenantBrowser, AgentLoop, PoliteFetch,
        JobChoices, TLC

CONSTANTS p1, p2,        \* prospects
          c1, c2, c3, c4, c5, \* jobs
          lever, ashby, greenhouse

VARIABLE part

allVars == <<part, choiceVars, orVars, lqVars, alVars, tbVars, agVars, netVars>>

MCDraft == {<<p1, "invite">>, <<p2, "invite">>, <<p2, "ask">>}

MCPortal == [c \in {c1, c2, c3, c4, c5} |->
    CASE c = c4 -> ashby [] c = c5 -> greenhouse [] OTHER -> lever]

MCPortalCap == [p \in {lever, ashby, greenhouse} |-> IF p = lever THEN 2 ELSE 1]

MCPosting == [fingerprint : 1..2, posted : 1..2]

\* Three listed jobs; the first and the last are one posting.
MCPageOf == <<1, 2, 1>>

ServicesInit ==
    /\ part \in {"outreach", "questions", "allowance", "choices", "tenant", "agent", "pages"}
    /\ ChoicesInit
    /\ OutreachInit /\ LiveInit /\ AllowanceInit /\ TenantInit
    /\ AgentInit /\ FetchInit

\* What every service but one leaves alone.
ButOutreach == <<choiceVars, lqVars, alVars, tbVars, agVars, netVars>>
ButQuestions == <<choiceVars, orVars, alVars, tbVars, agVars, netVars>>
ButAllowance == <<choiceVars, orVars, lqVars, tbVars, agVars, netVars>>
ButChoices == <<orVars, lqVars, alVars, tbVars, agVars, netVars>>
ButTenant == <<choiceVars, orVars, lqVars, alVars, agVars, netVars>>
ButAgent == <<choiceVars, orVars, lqVars, alVars, tbVars, netVars>>
ButPages == <<choiceVars, orVars, lqVars, alVars, tbVars, agVars>>

ServicesNext ==
    /\ UNCHANGED part
    /\ \/ part = "outreach" /\ OutreachNext /\ UNCHANGED ButOutreach
       \/ part = "questions" /\ LiveNext /\ UNCHANGED ButQuestions
       \/ part = "allowance" /\ AllowanceNext /\ UNCHANGED ButAllowance
       \/ part = "choices" /\ batch = <<>> /\ kept = <<>> /\ ChoicesNext /\ UNCHANGED ButChoices
       \/ part = "tenant" /\ TenantNext /\ UNCHANGED ButTenant
       \/ part = "agent" /\ AgentNext /\ UNCHANGED ButAgent
       \/ part = "pages" /\ FetchNext /\ UNCHANGED ButPages

ServicesSpec == ServicesInit /\ [][ServicesNext]_allVars

MCSymmetry == Permutations(Sender) \cup Permutations(Question) \cup Permutations(Request)
=============================================================================
