------------------------------- MODULE DagRun --------------------------------
(***************************************************************************)
(* What a workflow run promises of its jobs (internal/ci/scheduler.go,     *)
(* "walk executes jobs in dependency order"), without passes, positions    *)
(* and declaration order: a job runs once, alone, after every job it needs *)
(* has succeeded and before any job has failed, and the run ends only on a *)
(* failure or when no job that is left can ever start.                     *)
(***************************************************************************)

CONSTANT Ids   \* job ids

VARIABLES
    need,   \* the jobs each declared job needs, of those declared or not
    state,  \* of each declared job
    over    \* nothing starts any more

dagVars == <<need, state, over>>

Jobs     == DOMAIN need
Is(s)    == {j \in Jobs : state[j] = s}
Begins(j) == state[j] = "pending" /\ need[j] \subseteq Is("success")

Init ==
    /\ \E J \in SUBSET Ids : need \in [J -> SUBSET Ids]
    /\ state = [j \in Jobs |-> "pending"]
    /\ over = FALSE

Start(j) ==
    /\ ~over
    /\ Is("running") = {} /\ Is("failure") = {}
    /\ Begins(j)
    /\ state' = [state EXCEPT ![j] = "running"]
    /\ UNCHANGED <<need, over>>

Finish(j) ==
    /\ state[j] = "running"
    /\ \E s \in {"success", "failure"} :
         /\ state' = [state EXCEPT ![j] = s]
         /\ over' = (s = "failure")
    /\ UNCHANGED need

End ==
    /\ ~over
    /\ Is("running") = {}
    /\ Is("failure") # {} \/ \A j \in Jobs : ~Begins(j)
    /\ over' = TRUE
    /\ UNCHANGED <<need, state>>

Next == (\E j \in Jobs : Start(j) \/ Finish(j)) \/ End

Spec == Init /\ [][Next]_dagVars
=============================================================================
