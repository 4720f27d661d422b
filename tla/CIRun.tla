-------------------------------- MODULE CIRun --------------------------------
(***************************************************************************)
(* One run of a workflow (internal/ci): the goroutine that runAsync starts *)
(* walks the job DAG in passes over the declaration order, records the     *)
(* states of the run and of its job instances, and closes the jobs' log    *)
(* streams, while CancelRun requests come in.  Each critical section of    *)
(* Run.mu (ci.go) is one action; what the goroutine computes between two   *)
(* of them is part of the action that follows.                             *)
(*                                                                         *)
(* The workflow is any sequence of at most MaxJobs jobs over the job ids   *)
(* Ids, as ParseWorkflowFile and CreateWorkflow accept it: needs may be    *)
(* cyclic or name no job, and an id may be declared twice.                 *)
(***************************************************************************)
EXTENDS Integers, Sequences, FiniteSets

CONSTANTS
    Ids,         \* job ids
    MaxJobs,     \* bound: jobs of a workflow
    MaxCancels   \* bound: CancelRun requests

ASSUME CIAssumption == MaxJobs \in Nat /\ MaxCancels \in Nat

VARIABLES
    wf,        \* the jobs of the workflow, in declaration order
    run,       \* Run.State
    jobs,      \* Run.Jobs: the state of each job instance
    done,      \* walk: ids of the jobs that have succeeded
    pos,       \* walk: position in the current pass; log closer: next instance
    progress,  \* walk: the current pass has run a job
    pc,        \* where the goroutine is
    logs,      \* the state a job's log stream was closed with, or Open
    cancels    \* CancelRun requests left

vars == <<wf, run, jobs, done, pos, progress, pc, logs, cancels>>

Terminal  == {"success", "failure", "cancelled"}
State     == {"pending", "running"} \cup Terminal
Open      == ""
Job       == [id : Ids, needs : SUBSET Ids]
Workflows == UNION {[1..n -> Job] : n \in 0..MaxJobs}

TypeOK ==
    /\ wf \in Workflows
    /\ run \in State
    /\ jobs \in [1..Len(wf) -> State]
    /\ done \subseteq Ids
    /\ pos \in 1..Len(wf) + 1
    /\ progress \in BOOLEAN
    /\ pc \in {"start", "pass", "exec", "failed", "succeeded", "close", "end"}
    /\ logs \in [1..Len(wf) -> State \cup {Open}]
    /\ cancels \in 0..MaxCancels

\* Everything is pending.
NewRun == run = "pending" /\ jobs = [i \in 1..Len(wf) |-> "pending"]

\* TriggerRun of any workflow: the run is stored before its goroutine starts.
Init ==
    /\ wf \in Workflows
    /\ NewRun
    /\ done = {}
    /\ pos = 1
    /\ progress = FALSE
    /\ pc = "start"
    /\ logs = [i \in 1..Len(wf) |-> Open]
    /\ cancels = MaxCancels

-----------------------------------------------------------------------------
\* byDef keeps the last job declared with an id; SetJobState changes the
\* first instance of it.
Declared(id) == {i \in 1..Len(wf) : wf[i].id = id}
LastJob(id)  == CHOOSE i \in Declared(id) : \A k \in Declared(id) : k <= i
Instance(id) == CHOOSE i \in Declared(id) : \A k \in Declared(id) : i <= k

AllDoneIgnored(needs)  == TRUE
AllDone(needs)         == needs \subseteq done

Ready(i) == wf[i].id \notin done /\ AllDone(wf[LastJob(wf[i].id)].needs)

\* The jobs the current pass skips: "continue".
RestOfPass == {i \in pos..Len(wf) : Ready(i)}
NextJob    == CHOOSE i \in RestOfPass : \A k \in RestOfPass : i <= k

SetState(s)        == run' = s
SetJobState(id, s) == jobs' = [jobs EXCEPT ![Instance(id)] = s]

-----------------------------------------------------------------------------
\* Run begins; a workflow without jobs is resolved at once.
Start ==
    /\ pc = "start"
    /\ SetState("running")
    /\ pc' = IF Len(wf) = 0 THEN "succeeded" ELSE "pass"
    /\ UNCHANGED <<wf, jobs, done, pos, progress, logs, cancels>>

\* The next ready job of the pass starts.
StartJob ==
    /\ pc = "pass" /\ RestOfPass # {}
    /\ SetJobState(wf[NextJob].id, "running")
    /\ pos' = NextJob
    /\ pc' = "exec"
    /\ UNCHANGED <<wf, run, done, progress, logs, cancels>>

JobSucceeds ==
    /\ pc = "exec"
    /\ SetJobState(wf[pos].id, "success")
    /\ done' = done \cup {wf[pos].id}
    /\ progress' = TRUE
    /\ pos' = pos + 1
    /\ pc' = "pass"
    /\ UNCHANGED <<wf, run, logs, cancels>>

\* The backend reports an error or a result other than "ok": walk returns.
ContinueOnError == "pass"
AfterFailure    == "failed"

JobFails ==
    /\ pc = "exec"
    /\ SetJobState(wf[pos].id, "failure")
    /\ pc' = AfterFailure
    /\ UNCHANGED <<wf, run, done, pos, progress, logs, cancels>>

\* A pass is over.  No progress: the needs are cyclic or name no job.
NeverUnresolved == FALSE
Unresolved      == ~progress
OnePass         == TRUE
AllRan          == Cardinality(done) >= Len(wf)

EndPass ==
    /\ pc = "pass" /\ RestOfPass = {}
    /\ pos' = 1
    /\ progress' = FALSE
    /\ pc' = IF Unresolved THEN "failed" ELSE IF AllRan THEN "succeeded" ELSE "pass"
    /\ UNCHANGED <<wf, run, jobs, done, logs, cancels>>

\* Run records the outcome, whatever the state has become meanwhile.
OutcomeName == pc
Outcome     == IF pc = "failed" THEN "failure" ELSE "success"
Record ==
    /\ pc \in {"failed", "succeeded"}
    /\ SetState(Outcome)
    /\ pos' = 1
    /\ pc' = "close"
    /\ UNCHANGED <<wf, jobs, done, progress, logs, cancels>>

\* runAsync closes every job's log stream with the job's state.
CloseLog ==
    /\ pc = "close" /\ pos <= Len(wf)
    /\ logs' = [logs EXCEPT ![pos] = jobs[pos]]
    /\ pos' = pos + 1
    /\ UNCHANGED <<wf, run, jobs, done, progress, pc, cancels>>

Return ==
    /\ pc = "close" /\ pos > Len(wf)
    /\ pc' = "end"
    /\ UNCHANGED <<wf, run, jobs, done, pos, progress, logs, cancels>>

\* CancelRun sets the state, at any time, and nothing else.
CancelRun ==
    /\ cancels > 0
    /\ cancels' = cancels - 1
    /\ SetState("cancelled")
    /\ UNCHANGED <<wf, jobs, done, pos, progress, pc, logs>>

Walk == \/ Start \/ StartJob \/ JobSucceeds \/ JobFails \/ EndPass
        \/ Record \/ CloseLog \/ Return
Next == Walk \/ CancelRun
Spec == Init /\ [][Next]_vars

\* The goroutine keeps running and the backend answers every job.
FairSpec == Spec /\ WF_vars(Walk)

-----------------------------------------------------------------------------
Succeeded == {wf[i].id : i \in {k \in 1..Len(wf) : jobs[k] = "success"}}
Begun(i)  == jobs[i] # "pending"

(* A job only ever runs on the results of the jobs it needs: by the time an *)
(* instance leaves "pending", every job it needs has succeeded, whatever    *)
(* the declaration order and however many passes it takes (walk).           *)
NeedsFirst ==
    \A i \in 1..Len(wf) : Begun(i) => wf[LastJob(wf[i].id)].needs \subseteq Succeeded

(* The reference for which workflows can be run to the end: ids are         *)
(* distinct, needs name jobs, and no set of jobs wait for each other.       *)
Sound ==
    /\ \A i, k \in 1..Len(wf) : wf[i].id = wf[k].id => i = k
    /\ \A i \in 1..Len(wf) : \A n \in wf[i].needs : Declared(n) # {}
    /\ ~ \E S \in SUBSET (1..Len(wf)) :
           S # {} /\ \A i \in S : \E k \in S : wf[k].id \in wf[i].needs

(* The run that nobody cancels ends in "success" exactly if the workflow is *)
(* sound and no job failed, and then every instance has succeeded: the      *)
(* repeated passes find an order whenever there is one, and never call a    *)
(* workflow done while an instance has not run (walk, Run).                 *)
OutcomeRight ==
    pc \in {"close", "end"} /\ cancels = MaxCancels =>
      /\ run \in {"success", "failure"}
      /\ run = "success" <=> Sound /\ \A i \in 1..Len(wf) : jobs[i] # "failure"
      /\ run = "success" => \A i \in 1..Len(wf) : jobs[i] = "success"

(* The goroutine with its passes, its early return and its CancelRun         *)
(* requests keeps the promise of DagRun: a job id stands for the instance   *)
(* SetJobState changes, and the run is over once walk has its result.       *)
DeclaredIds == {wf[i].id : i \in 1..Len(wf)}
Over        == pc \in {"failed", "succeeded", "close", "end"}
Dag == INSTANCE DagRun WITH
         need  <- [id \in DeclaredIds |-> wf[LastJob(id)].needs],
         state <- [id \in DeclaredIds |-> jobs[Instance(id)]],
         over  <- Over
RefinesDagRun == Dag!Spec

(* Every run comes to its end, with all its log streams closed on the       *)
(* states its jobs keep, also when it is cancelled at any point: the loop   *)
(* over passes never spins on jobs that cannot become ready (walk).         *)
LogsClosed == pc = "end" /\ logs = jobs
Terminates == <>[]LogsClosed

(* "success"|"failure"|"cancelled" on terminal (runbus.go:17): the event    *)
(* that ends a job's log stream carries a terminal state.                   *)
TerminalEvent == \A i \in 1..Len(wf) : logs[i] \in Terminal \cup {Open}
=============================================================================
