------------------------------ MODULE RunSpec -------------------------------
(***************************************************************************)
(* What a run promises of its actions, without clients, tasks or retries:  *)
(* an action starts once its dependencies in the graph have succeeded, it  *)
(* is skipped only below an action that did not succeed or after the run   *)
(* is cancelled, and what it ends as does not change.                      *)
(***************************************************************************)
CONSTANTS Action, Dep
VARIABLES outcome, cancelled

specVars == <<outcome, cancelled>>

Outcomes == {"waiting", "running", "succeeded", "failed", "skipped"}
Deps(a) == Dep[a] \cap Action

SpecInit ==
    /\ outcome = [a \in Action |-> "waiting"]
    /\ cancelled = FALSE

MayStart(a) == \A d \in Deps(a) : outcome[d] = "succeeded"
MaySkip(a)  == cancelled \/ \E d \in Deps(a) : outcome[d] \in {"failed", "skipped"}

\* Any number of actions start or are skipped at once; one that has nothing
\* to do succeeds on the spot.
Dispatch ==
    /\ outcome' \in [Action -> Outcomes]
    /\ \A a \in Action :
        \/ outcome'[a] = outcome[a]
        \/ outcome[a] = "waiting" /\ outcome'[a] \in {"running", "succeeded"} /\ MayStart(a)
        \/ outcome[a] = "waiting" /\ outcome'[a] = "skipped" /\ MaySkip(a)
    /\ UNCHANGED cancelled

End(a) ==
    /\ outcome[a] = "running"
    /\ \E o \in {"succeeded", "failed"} : outcome' = [outcome EXCEPT ![a] = o]
    /\ UNCHANGED cancelled

\* The run is cancelled; a later run that resumes it is not.
SetCancelled ==
    /\ cancelled' \in BOOLEAN
    /\ UNCHANGED outcome

SpecNext == Dispatch \/ (\E a \in Action : End(a)) \/ SetCancelled
Spec     == SpecInit /\ [][SpecNext]_specVars
=============================================================================
