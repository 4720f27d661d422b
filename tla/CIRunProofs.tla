----------------------------- MODULE CIRunProofs -----------------------------
(***************************************************************************)
(* Type correctness of a workflow run, that jobs run after the jobs they   *)
(* need, that none runs twice, that the run ends with the right outcome,   *)
(* and that it implements DagRun, for any job ids and any number of jobs.  *)
(***************************************************************************)
EXTENDS CIRun, FiniteSetTheorems, WellFoundedInduction, TLAPS

Jobs == 1..Len(wf)

(* A non-empty set of positions has a first one.                            *)
LEMMA FirstExists ==
    ASSUME NEW S \in SUBSET Nat, S # {}
    PROVE  \E x \in S : \A y \in S : x <= y
<1> DEFINE Less == OpToRel(<, Nat)
<1>1. IsWellFoundedOn(Less, Nat)
  BY NatLessThanWellFounded
<1>2. PICK x \in S : \A y \in S : <<y, x>> \notin Less
  <2> HIDE DEF Less
  <2> QED BY <1>1, WFMin
<1>3. \A y \in S : ~(y < x)
  BY <1>2 DEF OpToRel
<1> QED BY <1>3

LEMMA WorkflowTyped ==
    ASSUME wf \in Workflows
    PROVE  /\ Len(wf) \in Nat /\ Len(wf) <= MaxJobs
           /\ \A i \in Jobs : wf[i] \in Job
<1>1. PICK n \in 0..MaxJobs : wf \in [1..n -> Job]
  BY DEF Workflows
<1>2. n \in Nat /\ Len(wf) = n
  BY <1>1, CIAssumption
<1> QED BY <1>1, <1>2, CIAssumption DEF Jobs

(* The instance whose state SetJobState changes has the id.                 *)
LEMMA InstanceDeclared ==
    ASSUME wf \in Workflows, NEW k \in Jobs
    PROVE  Instance(wf[k].id) \in Jobs /\ wf[Instance(wf[k].id)].id = wf[k].id
<1> DEFINE D == Declared(wf[k].id)
<1>1. D \in SUBSET Nat /\ D # {} /\ D \subseteq Jobs
  BY WorkflowTyped DEF Declared, Jobs
<1>2. \E x \in D : \A y \in D : x <= y
  <2> HIDE DEF D
  <2> QED BY <1>1, FirstExists
<1>3. Instance(wf[k].id) \in D
  BY <1>2 DEF Instance
<1> QED BY <1>1, <1>3 DEF Declared

(* The next job of a pass is one the pass has not skipped.                  *)
LEMMA NextJobReady ==
    ASSUME TypeOK, RestOfPass # {}
    PROVE  NextJob \in Jobs /\ Ready(NextJob)
<1>1. RestOfPass \in SUBSET Nat
  BY WorkflowTyped DEF RestOfPass, TypeOK
<1>2. \E x \in RestOfPass : \A y \in RestOfPass : x <= y
  BY <1>1, FirstExists
<1>3. NextJob \in RestOfPass
  BY <1>2 DEF NextJob
<1> QED BY <1>3, WorkflowTyped DEF RestOfPass, TypeOK, Jobs

-----------------------------------------------------------------------------
(* What the walk knows.  done and the states of the instances say the same, *)
(* the running instance is the one the walk waits for, and every instance   *)
(* that has begun had its needs done.                                       *)

Needs(i)  == wf[LastJob(wf[i].id)].needs
Waiting   == pc = "exec" =>
               /\ pos \in Jobs
               /\ wf[pos].id \notin done
               /\ Needs(pos) \subseteq done
               /\ jobs[Instance(wf[pos].id)] = "running"
States    == \A i \in Jobs :
               /\ jobs[i] \in {"pending", "running", "success", "failure"}
               /\ jobs[i] = "success" => wf[i].id \in done
               /\ jobs[i] = "running" => pc = "exec" /\ i = Instance(wf[pos].id)
               /\ jobs[i] = "failure" => pc \in {"failed", "close", "end"}
Ordered   == \A i \in Jobs : Begun(i) => Needs(i) \subseteq done
WalkInv   == TypeOK /\ Waiting /\ States /\ Ordered /\ done \subseteq Succeeded

LEMMA InitInv == Init => WalkInv
<1> SUFFICES ASSUME Init PROVE WalkInv
  OBVIOUS
<1>1. Len(wf) \in Nat
  BY WorkflowTyped DEF Init
<1>2. TypeOK
  <2>1. progress \in BOOLEAN
    BY Zenon DEF Init
  <2>2. jobs \in [1..Len(wf) -> State] /\ logs \in [1..Len(wf) -> State \cup {Open}]
    BY DEF Init, NewRun, State
  <2>3. pos \in 1..Len(wf) + 1 /\ cancels \in 0..MaxCancels
    BY <1>1, CIAssumption DEF Init
  <2> QED BY <2>1, <2>2, <2>3 DEF Init, NewRun, TypeOK, State
<1>3. jobs \in [Jobs -> {"pending"}] /\ done = {} /\ pc = "start"
  BY DEF Init, NewRun, Jobs
<1> QED BY <1>2, <1>3 DEF WalkInv, Waiting, States, Ordered, Begun

(* Steps of the goroutine outside the jobs, and CancelRun.                  *)
LEMMA OutsideInv ==
    ASSUME WalkInv,
           \/ Start \/ EndPass \/ Record \/ CloseLog \/ Return \/ CancelRun
    PROVE  WalkInv' /\ UNCHANGED jobs
<1>0. /\ UNCHANGED <<wf, jobs, done>>
      /\ pc = "exec" => pc' = "exec" /\ UNCHANGED pos
      /\ pc' = "exec" => pc = "exec"
      /\ pc \in {"failed", "close", "end"} => pc' \in {"failed", "close", "end"}
  BY DEF Start, EndPass, Record, CloseLog, Return, CancelRun
<1>1. Len(wf) \in Nat
  BY WorkflowTyped DEF WalkInv, TypeOK
<1>2. TypeOK'
  <2> USE <1>1 DEF WalkInv, TypeOK, State, Terminal, SetState
  <2>1. CASE Start
    BY <2>1 DEF Start
  <2>2. CASE EndPass
    <3>1. progress' \in BOOLEAN
      BY <2>2, Zenon DEF EndPass
    <3>2. pos' \in 1..Len(wf)' + 1 /\ pc' \in {"failed", "succeeded", "pass"}
      BY <1>1, <2>2 DEF EndPass
    <3> QED BY <2>2, <3>1, <3>2 DEF EndPass
  <2>3. CASE Record
    BY <2>3 DEF Record, Outcome
  <2>4. CASE CloseLog
    BY <2>4 DEF CloseLog
  <2>5. CASE Return
    BY <2>5 DEF Return
  <2>6. CASE CancelRun
    BY <2>6, CIAssumption DEF CancelRun
  <2> QED BY <2>1, <2>2, <2>3, <2>4, <2>5, <2>6
<1>3. Instance(wf[pos].id)' = Instance(wf[pos'].id)
  BY <1>0 DEF Instance, Declared
<1>4. \A i \in Jobs : Needs(i)' = Needs(i)
  BY <1>0 DEF Needs, LastJob, Declared
<1>5. Waiting'
  BY <1>0, <1>3, <1>4 DEF WalkInv, Waiting, Jobs
<1>6. States'
  BY <1>0, <1>3 DEF WalkInv, States, Jobs
<1>7. Ordered' /\ (done \subseteq Succeeded)'
  BY <1>0, <1>4 DEF WalkInv, Ordered, Begun, Succeeded, Jobs
<1> QED BY <1>0, <1>2, <1>5, <1>6, <1>7 DEF WalkInv

(* Only a pending job starts, and only while no job runs or has failed.     *)
LEMMA StartJobInv ==
    ASSUME WalkInv, StartJob
    PROVE  /\ WalkInv'
           /\ jobs' = [jobs EXCEPT ![Instance(wf[NextJob].id)] = "running"]
           /\ jobs[Instance(wf[NextJob].id)] = "pending"
           /\ \A k \in Jobs : jobs[k] \in {"pending", "success"}
<1> DEFINE n == NextJob
           inst == Instance(wf[NextJob].id)
<1>1. n \in Jobs /\ Ready(n)
  BY NextJobReady DEF StartJob, WalkInv
<1>2. inst \in Jobs /\ wf[inst].id = wf[n].id
  BY <1>1, InstanceDeclared DEF WalkInv, TypeOK
<1>3. /\ pos' = n /\ pc = "pass" /\ pc' = "exec"
      /\ jobs' = [jobs EXCEPT ![inst] = "running"]
      /\ UNCHANGED <<wf, run, done, progress, logs, cancels>>
  BY DEF StartJob, SetJobState
<1>4. wf[n].id \notin done /\ Needs(n) \subseteq done
  BY <1>1 DEF Ready, AllDone, Needs
<1>5. \A k \in Jobs : jobs[k] \in {"pending", "success"}
  BY <1>3 DEF WalkInv, States
<1>6. jobs[inst] = "pending"
  BY <1>2, <1>4, <1>5 DEF WalkInv, States
<1>7. TypeOK'
  BY <1>1, <1>2, <1>3, WorkflowTyped DEF WalkInv, TypeOK, State, Terminal, Jobs
<1>8. /\ Instance(wf[pos].id)' = inst
      /\ \A i \in Jobs : Needs(i)' = Needs(i)
  BY <1>3 DEF Instance, Needs, LastJob, Declared
<1>9. jobs'[inst] = "running" /\ \A i \in Jobs \ {inst} : jobs'[i] = jobs[i]
  BY <1>2, <1>3 DEF WalkInv, TypeOK, Jobs
<1>10. Waiting'
  BY <1>1, <1>3, <1>4, <1>8, <1>9 DEF Waiting, Jobs
<1>11. States'
  BY <1>3, <1>5, <1>8, <1>9 DEF WalkInv, States, Jobs
<1>12. Needs(inst) = Needs(n)
  BY <1>2 DEF Needs
<1>13. Ordered'
  BY <1>3, <1>4, <1>8, <1>9, <1>12 DEF WalkInv, Ordered, Begun, Jobs
<1>14. (done \subseteq Succeeded)'
  <2>1. \A i \in Jobs : jobs[i] = "success" => jobs'[i] = "success"
    BY <1>6, <1>9
  <2> QED BY <1>3, <2>1 DEF WalkInv, Succeeded, Jobs
<1> HIDE DEF inst, n
<1> QED BY <1>3, <1>5, <1>6, <1>7, <1>10, <1>11, <1>13, <1>14 DEF WalkInv, inst, n

(* The end of a job turns the one running instance into a success or a      *)
(* failure.                                                                 *)
LEMMA EndJobInv ==
    ASSUME WalkInv, JobSucceeds \/ JobFails
    PROVE  /\ WalkInv'
           /\ jobs[Instance(wf[pos].id)] = "running"
           /\ \E s \in {"success", "failure"} :
                jobs' = [jobs EXCEPT ![Instance(wf[pos].id)] = s]
<1> DEFINE inst == Instance(wf[pos].id)
<1>1. /\ pc = "exec" /\ pos \in Jobs /\ jobs[inst] = "running"
      /\ wf[pos].id \notin done /\ Needs(pos) \subseteq done
  BY DEF JobSucceeds, JobFails, WalkInv, Waiting
<1>2. inst \in Jobs /\ wf[inst].id = wf[pos].id
  BY <1>1, InstanceDeclared DEF WalkInv, TypeOK
<1>3. UNCHANGED <<wf, run, logs, cancels>> /\ done \subseteq done' /\ pc' \in {"pass", "failed"}
  BY DEF JobSucceeds, JobFails, AfterFailure
<1>4. \A i \in Jobs : Needs(i)' = Needs(i)
  BY <1>3 DEF Needs, LastJob, Declared
<1>5. \A i \in Jobs \ {inst} : jobs[i] \in {"pending", "success"}
  BY <1>1 DEF WalkInv, States
<1>6. Len(wf) \in Nat
  BY WorkflowTyped DEF WalkInv, TypeOK
<1>7. wf[pos].id \in Ids
  BY <1>1, WorkflowTyped DEF WalkInv, TypeOK, Job
<1>8. CASE JobSucceeds
  <2>1. /\ jobs' = [jobs EXCEPT ![inst] = "success"] /\ done' = done \cup {wf[pos].id}
        /\ pos' = pos + 1 /\ progress' = TRUE /\ pc' = "pass"
    BY <1>8 DEF JobSucceeds, SetJobState
  <2>2. jobs'[inst] = "success" /\ \A i \in Jobs \ {inst} : jobs'[i] = jobs[i]
    BY <1>2, <2>1 DEF WalkInv, TypeOK, Jobs
  <2>3. TypeOK'
    BY <1>1, <1>2, <1>3, <1>6, <1>7, <2>1 DEF WalkInv, TypeOK, State, Terminal, Jobs
  <2>4. States'
    BY <1>2, <1>3, <1>5, <2>1, <2>2 DEF WalkInv, States, Jobs
  <2>5. Ordered'
    <3>1. Needs(inst) = Needs(pos)
      BY <1>2 DEF Needs
    <3> QED BY <1>1, <1>3, <1>4, <2>2, <3>1 DEF WalkInv, Ordered, Begun, Jobs
  <2>6. (done \subseteq Succeeded)'
    <3>1. \A i \in Jobs : jobs[i] = "success" => jobs'[i] = "success"
      BY <2>2
    <3>2. done \subseteq Succeeded'
      BY <1>3, <3>1 DEF WalkInv, Succeeded, Jobs
    <3>3. wf[pos].id \in Succeeded'
      BY <1>2, <1>3, <2>2 DEF Succeeded, Jobs
    <3> QED BY <2>1, <3>2, <3>3
  <2>7. Waiting'
    BY <2>1 DEF Waiting
  <2> QED BY <1>1, <2>1, <2>3, <2>4, <2>5, <2>6, <2>7 DEF WalkInv
<1>9. CASE JobFails
  <2>1. /\ jobs' = [jobs EXCEPT ![inst] = "failure"] /\ pc' = "failed"
        /\ UNCHANGED <<done, pos, progress>>
    BY <1>9 DEF JobFails, SetJobState, AfterFailure
  <2>2. jobs'[inst] = "failure" /\ \A i \in Jobs \ {inst} : jobs'[i] = jobs[i]
    BY <1>2, <2>1 DEF WalkInv, TypeOK, Jobs
  <2>3. TypeOK'
    BY <1>1, <1>2, <1>3, <1>6, <2>1 DEF WalkInv, TypeOK, State, Terminal, Jobs
  <2>4. States'
    BY <1>2, <1>3, <1>5, <2>1, <2>2 DEF WalkInv, States, Jobs
  <2>5. Ordered'
    <3>1. Needs(inst) = Needs(pos)
      BY <1>2 DEF Needs
    <3> QED BY <1>1, <1>3, <1>4, <2>1, <2>2, <3>1 DEF WalkInv, Ordered, Begun, Jobs
  <2>6. (done \subseteq Succeeded)'
    <3>1. \A i \in Jobs : jobs[i] = "success" => jobs'[i] = "success"
      BY <1>1, <2>2
    <3> QED BY <1>3, <2>1, <3>1 DEF WalkInv, Succeeded, Jobs
  <2>7. Waiting'
    BY <2>1 DEF Waiting
  <2> QED BY <1>1, <2>1, <2>3, <2>4, <2>5, <2>6, <2>7 DEF WalkInv
<1> QED BY <1>8, <1>9

LEMMA WalkStep == WalkInv /\ [Next]_vars => WalkInv'
<1>1. WalkInv /\ Next => WalkInv'
  BY OutsideInv, StartJobInv, EndJobInv DEF Next, Walk
<1>2. WalkInv /\ UNCHANGED vars => WalkInv'
  <2> SUFFICES ASSUME WalkInv, UNCHANGED vars PROVE WalkInv'
    OBVIOUS
  <2>1. TypeOK'
    BY DEF vars, WalkInv, TypeOK
  <2>2. \A id : Instance(id)' = Instance(id) /\ LastJob(id)' = LastJob(id)
    BY DEF vars, Instance, LastJob, Declared
  <2>3. Waiting' /\ States'
    BY <2>2 DEF vars, WalkInv, Waiting, States, Needs, Jobs
  <2>4. Ordered' /\ (done \subseteq Succeeded)'
    BY <2>2 DEF vars, WalkInv, Ordered, Begun, Needs, Succeeded, Jobs
  <2> QED BY <2>1, <2>3, <2>4 DEF WalkInv
<1> QED BY <1>1, <1>2

(* The walk's position stays within the workflow and every state is one of  *)
(* State, for any workflow the parser accepts.                              *)
THEOREM TypeCorrect == Spec => []TypeOK
<1>1. WalkInv => TypeOK
  BY DEF WalkInv
<1> QED BY <1>1, InitInv, WalkStep, PTL DEF Spec

(* Whatever the declaration order, also with duplicate ids, unknown needs   *)
(* and cycles: a job that has begun had all jobs it needs succeed.          *)
THEOREM JobsAfterNeeds == Spec => []NeedsFirst
<1>1. WalkInv => NeedsFirst
  BY DEF WalkInv, Ordered, NeedsFirst, Needs, Jobs
<1> QED BY <1>1, InitInv, WalkStep, PTL DEF Spec

(* No job instance runs twice, one at a time runs, and after a failure      *)
(* nothing starts any more ("no continue-on-error"), even for a workflow    *)
(* that declares an id twice.                                               *)
JobsRunOnce ==
    [][\A i \in 1..Len(wf) : jobs'[i] # jobs[i] =>
         \/ /\ jobs[i] = "pending" /\ jobs'[i] = "running"
            /\ \A k \in 1..Len(wf) : jobs[k] \in {"pending", "success"}
         \/ jobs[i] = "running" /\ jobs'[i] \in {"success", "failure"}]_vars

(* An instance goes from pending to running once, while nothing else runs   *)
(* and nothing has failed, and from running to its end once.                *)
THEOREM NoJobTwice == Spec => JobsRunOnce
<1> DEFINE Once == \A i \in 1..Len(wf) : jobs'[i] # jobs[i] =>
                     \/ /\ jobs[i] = "pending" /\ jobs'[i] = "running"
                        /\ \A k \in 1..Len(wf) : jobs[k] \in {"pending", "success"}
                     \/ jobs[i] = "running" /\ jobs'[i] \in {"success", "failure"}
<1>1. WalkInv /\ Next => Once
  <2> SUFFICES ASSUME WalkInv, Next PROVE Once
    OBVIOUS
  <2>1. CASE Start \/ EndPass \/ Record \/ CloseLog \/ Return \/ CancelRun
    BY <2>1, OutsideInv
  <2>2. CASE StartJob
    BY <2>2, StartJobInv DEF WalkInv, TypeOK, Jobs
  <2>3. CASE JobSucceeds \/ JobFails
    BY <2>3, EndJobInv DEF WalkInv, TypeOK, Jobs
  <2> QED BY <2>1, <2>2, <2>3 DEF Next, Walk
<1>2. WalkInv /\ [Next]_vars => [Once]_vars
  BY <1>1
<1> QED BY <1>2, InitInv, WalkStep, PTL DEF Spec, JobsRunOnce

-----------------------------------------------------------------------------
(* Only the instance that stands for an id begins, and a pass that has run  *)
(* no job is still at its first job.                                        *)
PassInv ==
    /\ \A i \in Jobs : Begun(i) => i = Instance(wf[i].id)
    /\ pc \in {"start", "pass"} /\ ~progress => pos = 1

LEMMA PassStep ==
    ASSUME WalkInv, PassInv, [Next]_vars
    PROVE  PassInv'
<1>1. UNCHANGED wf
  BY DEF Next, Walk, vars, Start, StartJob, JobSucceeds, JobFails, EndPass, Record,
         CloseLog, Return, CancelRun
<1>2. \A id : Instance(id)' = Instance(id)
  BY <1>1 DEF Instance, Declared
<1>3. CASE Start \/ EndPass \/ Record \/ CloseLog \/ Return \/ CancelRun
  <2>1. UNCHANGED jobs
    BY <1>3, OutsideInv
  <2>2. (pc \in {"start", "pass"} /\ ~progress => pos = 1)'
    BY <1>3, Zenon DEF Start, EndPass, Record, CloseLog, Return, CancelRun, PassInv
  <2> QED BY <1>1, <1>2, <2>1, <2>2 DEF PassInv, Begun, Jobs
<1>4. CASE StartJob
  <2> DEFINE inst == Instance(wf[NextJob].id)
  <2>1. jobs' = [jobs EXCEPT ![inst] = "running"] /\ pc' = "exec"
    BY <1>4, StartJobInv DEF StartJob
  <2>2. inst \in Jobs /\ wf[inst].id = wf[NextJob].id
    BY <1>4, NextJobReady, InstanceDeclared DEF StartJob, WalkInv, TypeOK
  <2>3. \A i \in Jobs \ {inst} : jobs'[i] = jobs[i]
    BY <2>1 DEF WalkInv, TypeOK, Jobs
  <2> QED BY <1>1, <1>2, <2>1, <2>2, <2>3 DEF PassInv, Begun, Jobs
<1>5. CASE JobSucceeds \/ JobFails
  <2> DEFINE inst == Instance(wf[pos].id)
  <2>1. PICK s : jobs' = [jobs EXCEPT ![inst] = s]
    BY <1>5, EndJobInv
  <2>2. inst \in Jobs /\ wf[inst].id = wf[pos].id
    BY <1>5, InstanceDeclared DEF JobSucceeds, JobFails, WalkInv, Waiting, TypeOK
  <2>3. \A i \in Jobs \ {inst} : jobs'[i] = jobs[i]
    BY <2>1 DEF WalkInv, TypeOK, Jobs
  <2>4. (pc \in {"start", "pass"} /\ ~progress => pos = 1)'
    BY <1>5, Zenon DEF JobSucceeds, JobFails, AfterFailure
  <2> QED BY <1>1, <1>2, <2>2, <2>3, <2>4 DEF PassInv, Begun, Jobs
<1>6. CASE UNCHANGED vars
  BY <1>2, <1>6 DEF vars, PassInv, Begun, Jobs
<1> QED BY <1>3, <1>4, <1>5, <1>6 DEF Next, Walk

-----------------------------------------------------------------------------
(* The jobs that have succeeded for DagRun are those walk counts as done.   *)
StateOf == [id \in DeclaredIds |-> jobs[Instance(id)]]

LEMMA DeclaredInstance ==
    ASSUME WalkInv, NEW id \in DeclaredIds
    PROVE  Instance(id) \in Jobs /\ wf[Instance(id)].id = id
  BY InstanceDeclared DEF WalkInv, TypeOK, DeclaredIds, Jobs

LEMMA LastDeclared ==
    ASSUME wf \in Workflows, NEW id \in DeclaredIds
    PROVE  LastJob(id) \in Jobs
<1> DEFINE D == Declared(id)
           M == {Len(wf) - i : i \in D}
<1>1. D # {} /\ D \subseteq Jobs /\ Len(wf) \in Nat
  BY WorkflowTyped DEF Declared, DeclaredIds, Jobs
<1>2. M \in SUBSET Nat /\ M # {}
  BY <1>1 DEF Jobs
<1>3. PICK x \in M : \A y \in M : x <= y
  <2> HIDE DEF M
  <2> QED BY <1>2, FirstExists
<1>4. PICK i \in D : x = Len(wf) - i
  BY <1>3
<1>5. \A k \in D : k <= i
  <2>1. \A k \in D : k \in Nat /\ Len(wf) - i <= Len(wf) - k
    BY <1>1, <1>3, <1>4 DEF Jobs
  <2>2. \A k \in Nat : Len(wf) - i <= Len(wf) - k => k <= i
    BY <1>1 DEF Jobs
  <2> QED BY <2>1, <2>2
<1>6. LastJob(id) \in D
  BY <1>5 DEF LastJob
<1> QED BY <1>1, <1>6

(* Setting the state of an id's instance sets the state of that id alone.   *)
LEMMA SetStateOf ==
    ASSUME WalkInv, UNCHANGED wf, NEW j \in DeclaredIds, NEW s,
           jobs' = [jobs EXCEPT ![Instance(j)] = s]
    PROVE  StateOf' = [StateOf EXCEPT ![j] = s]
<1>1. \A id : Instance(id)' = Instance(id)
  BY DEF Instance, Declared
<1>2. \A id \in DeclaredIds : Instance(id) \in Jobs /\ wf[Instance(id)].id = id
  BY DeclaredInstance
<1>3. \A id \in DeclaredIds : jobs'[Instance(id)] = IF id = j THEN s ELSE jobs[Instance(id)]
  BY <1>2 DEF WalkInv, TypeOK, Jobs
<1>4. DeclaredIds' = DeclaredIds
  BY DEF DeclaredIds
<1> QED BY <1>1, <1>3, <1>4 DEF StateOf

LEMMA SuccessIsDone ==
    ASSUME WalkInv, PassInv
    PROVE  /\ done \subseteq DeclaredIds
           /\ \A id \in DeclaredIds : StateOf[id] = "success" <=> id \in done
<1>1. done \subseteq DeclaredIds
  BY DEF WalkInv, Succeeded, DeclaredIds
<1>2. ASSUME NEW id \in DeclaredIds, StateOf[id] = "success" PROVE id \in done
  BY <1>2, DeclaredInstance DEF WalkInv, States, StateOf
<1>3. ASSUME NEW id \in done PROVE StateOf[id] = "success"
  <2>1. PICK k \in Jobs : jobs[k] = "success" /\ wf[k].id = id
    BY <1>3 DEF WalkInv, Succeeded, Jobs
  <2>2. k = Instance(id)
    BY <2>1 DEF PassInv, Begun
  <2> QED BY <1>1, <1>3, <2>1, <2>2 DEF StateOf
<1> QED BY <1>1, <1>2, <1>3

(* As many ids done as there are jobs: all of them are done.                *)
LEMMA AllRanAll ==
    ASSUME WalkInv, PassInv, AllRan
    PROVE  DeclaredIds \subseteq done
<1> DEFINE f == [i \in Jobs |-> wf[i].id]
<1>1. Len(wf) \in Nat
  BY WorkflowTyped DEF WalkInv, TypeOK
<1>2. IsFiniteSet(Jobs) /\ Cardinality(Jobs) = Len(wf)
  BY <1>1, FS_Interval DEF Jobs
<1>3. f \in Surjection(Jobs, DeclaredIds)
  BY DEF Surjection, DeclaredIds, Jobs
<1>4. IsFiniteSet(DeclaredIds) /\ Cardinality(DeclaredIds) <= Len(wf)
  <2> HIDE DEF f
  <2> QED BY <1>2, <1>3, FS_Surjection
<1>5. done \subseteq DeclaredIds
  BY SuccessIsDone
<1>6. Cardinality(done) <= Cardinality(DeclaredIds)
  BY <1>4, <1>5, FS_Subset
<1>7. Cardinality(DeclaredIds) \in Nat /\ Cardinality(done) \in Nat
  BY <1>4, <1>5, FS_CardinalityType, FS_Subset
<1>8. Cardinality(DeclaredIds) = Cardinality(done)
  BY <1>1, <1>4, <1>6, <1>7 DEF AllRan
<1> QED BY <1>4, <1>5, <1>8, FS_Subset

(* When walk gives up or is done, no job that is left could start.          *)
LEMMA EndPassStuck ==
    ASSUME WalkInv, PassInv, EndPass, pc' # "pass", NEW id \in DeclaredIds,
           StateOf[id] = "pending"
    PROVE  ~(wf[LastJob(id)].needs \subseteq done)
<1>1. pc = "pass" /\ RestOfPass = {} /\ (Unresolved \/ AllRan)
  BY DEF EndPass
<1>2. id \notin done
  BY SuccessIsDone
<1>3. CASE AllRan
  BY <1>2, <1>3, AllRanAll
<1>4. CASE Unresolved
  <2>1. pos = 1
    BY <1>1, <1>4 DEF Unresolved, PassInv
  <2>2. \A i \in Jobs : ~Ready(i)
    BY <1>1, <2>1 DEF RestOfPass, Jobs
  <2>3. Instance(id) \in Jobs /\ wf[Instance(id)].id = id
    BY DeclaredInstance
  <2> QED BY <1>2, <2>2, <2>3 DEF Ready, AllDone
<1> QED BY <1>1, <1>3, <1>4

-----------------------------------------------------------------------------
Need == [id \in DeclaredIds |-> wf[LastJob(id)].needs]

LEMMA RefinedInit == Init => Dag!Init
<1> SUFFICES ASSUME Init PROVE Dag!Init
  OBVIOUS
<1>1. wf \in Workflows /\ pc = "start" /\ jobs = [i \in Jobs |-> "pending"]
  BY DEF Init, NewRun, Jobs
<1>2. DeclaredIds \in SUBSET Ids
  BY <1>1, WorkflowTyped DEF DeclaredIds, Jobs, Job
<1>3. \A id \in DeclaredIds : wf[LastJob(id)].needs \in SUBSET Ids /\ jobs[Instance(id)] = "pending"
  <2> SUFFICES ASSUME NEW id \in DeclaredIds
               PROVE  wf[LastJob(id)].needs \in SUBSET Ids /\ jobs[Instance(id)] = "pending"
    OBVIOUS
  <2>1. Instance(id) \in Jobs
    BY <1>1, InstanceDeclared DEF DeclaredIds, Jobs
  <2>2. LastJob(id) \in Jobs
    BY <1>1, LastDeclared
  <2> QED BY <1>1, <2>1, <2>2, WorkflowTyped DEF Job
<1>4. Need \in [DeclaredIds -> SUBSET Ids]
  BY <1>3 DEF Need
<1>5. StateOf = [id \in DeclaredIds |-> "pending"]
  BY <1>3 DEF StateOf
<1> QED BY <1>1, <1>2, <1>4, <1>5 DEF Dag!Init, Dag!Jobs, Need, StateOf, Over

(* The start of the next job is a start of its id, its end an end.          *)
LEMMA RefinedStart ==
    ASSUME WalkInv, PassInv, StartJob
    PROVE  Dag!Next
<1> DEFINE j == wf[NextJob].id
<1>1. NextJob \in Jobs /\ Ready(NextJob)
  BY NextJobReady DEF StartJob, WalkInv
<1>2. j \in DeclaredIds
  BY <1>1 DEF DeclaredIds, Jobs
<1>3. UNCHANGED wf /\ pc = "pass" /\ pc' = "exec"
  BY DEF StartJob
<1>4. /\ jobs' = [jobs EXCEPT ![Instance(j)] = "running"]
      /\ jobs[Instance(j)] = "pending"
      /\ \A k \in Jobs : jobs[k] \in {"pending", "success"}
  BY StartJobInv
<1>5. UNCHANGED <<Need, DeclaredIds>>
  BY <1>3 DEF Need, DeclaredIds, LastJob, Declared
<1>6. StateOf' = [StateOf EXCEPT ![j] = "running"]
  BY <1>2, <1>3, <1>4, <1>5, SetStateOf
<1>7. \A id \in DeclaredIds : StateOf[id] \notin {"running", "failure"}
  BY <1>4, DeclaredInstance DEF StateOf
<1>8. StateOf[j] = "pending" /\ Need[j] \subseteq {k \in DeclaredIds : StateOf[k] = "success"}
  <2>1. Need[j] \subseteq done
    BY <1>1, <1>2 DEF Ready, AllDone, Need
  <2> QED BY <1>2, <1>4, <2>1, SuccessIsDone DEF StateOf
<1>9. DOMAIN Need = DeclaredIds
  BY DEF Need
<1>10. ~Over /\ ~Over'
  BY <1>3 DEF Over
<1>11. Dag!Start(j)
  <2>1. Dag!Is("running") = {} /\ Dag!Is("failure") = {}
    BY <1>7, <1>9 DEF Dag!Is, Dag!Jobs, Need, StateOf
  <2>2. Dag!Begins(j)
    BY <1>8, <1>9 DEF Dag!Begins, Dag!Is, Dag!Jobs, Need, StateOf
  <2>3. Over' = Over
    BY <1>3 DEF Over
  <2> QED BY <1>5, <1>6, <1>10, <2>1, <2>2, <2>3 DEF Dag!Start, Need, StateOf
<1>12. j \in Dag!Jobs
  BY <1>2 DEF Dag!Jobs
<1> HIDE DEF j
<1> QED BY <1>11, <1>12 DEF Dag!Next

LEMMA RefinedEnd ==
    ASSUME WalkInv, PassInv, JobSucceeds \/ JobFails
    PROVE  Dag!Next
<1> DEFINE j == wf[pos].id
<1>1. pc = "exec" /\ pos \in Jobs
  BY DEF JobSucceeds, JobFails, WalkInv, Waiting
<1>2. j \in DeclaredIds
  BY <1>1 DEF DeclaredIds, Jobs
<1>3. UNCHANGED wf /\ pc' \in {"pass", "failed"}
  BY DEF JobSucceeds, JobFails, AfterFailure
<1>4. jobs[Instance(j)] = "running"
  BY EndJobInv
<1>5. PICK s \in {"success", "failure"} :
        /\ jobs' = [jobs EXCEPT ![Instance(j)] = s]
        /\ pc' = "failed" <=> s = "failure"
  BY DEF JobSucceeds, JobFails, SetJobState, AfterFailure
<1>6. UNCHANGED <<Need, DeclaredIds>>
  BY <1>3 DEF Need, DeclaredIds, LastJob, Declared
<1>7. StateOf' = [StateOf EXCEPT ![j] = s]
  BY <1>2, <1>3, <1>5, <1>6, SetStateOf
<1>8. DOMAIN Need = DeclaredIds /\ DOMAIN Need' = DeclaredIds
  BY <1>6 DEF Need
<1>9. StateOf[j] = "running"
  BY <1>2, <1>4 DEF StateOf
<1>10. Over' = (s = "failure")
  <2>1. CASE pc' = "pass"
    BY <1>5, <2>1 DEF Over
  <2>2. CASE pc' = "failed"
    BY <1>5, <2>2 DEF Over
  <2> QED BY <1>3, <2>1, <2>2
<1>11. Dag!Finish(j)
  BY <1>6, <1>7, <1>9, <1>10 DEF Dag!Finish, Need, StateOf
<1>12. j \in Dag!Jobs
  BY <1>2 DEF Dag!Jobs
<1> HIDE DEF j
<1> QED BY <1>11, <1>12 DEF Dag!Next

(* Of the other steps only those with which walk returns are seen: the run  *)
(* is over, and nothing could have started.                                 *)
LEMMA RefinedOutside ==
    ASSUME WalkInv, PassInv,
           \/ Start \/ EndPass \/ Record \/ CloseLog \/ Return \/ CancelRun
    PROVE  [Dag!Next]_(Dag!dagVars)
<1>1. UNCHANGED <<wf, jobs, done>>
  BY DEF Start, EndPass, Record, CloseLog, Return, CancelRun
<1>2. UNCHANGED <<Need, StateOf, DeclaredIds>>
  BY <1>1 DEF Need, StateOf, DeclaredIds, Instance, LastJob, Declared
<1>3. CASE UNCHANGED Over
  BY <1>2, <1>3 DEF Dag!dagVars, Need, StateOf
<1>4. CASE ~UNCHANGED Over
  <2>1. /\ (Start /\ Len(wf) = 0) \/ (EndPass /\ pc' # "pass")
        /\ ~Over /\ Over'
    BY <1>4 DEF Over, Start, EndPass, Record, CloseLog, Return, CancelRun
  <2>2. \A id \in DeclaredIds : StateOf[id] # "running"
    BY <2>1, DeclaredInstance DEF StateOf, WalkInv, States, Over, Start, EndPass
  <2>3. \A id \in DeclaredIds : StateOf[id] = "pending" => ~(Need[id] \subseteq done)
    <3>1. CASE EndPass /\ pc' # "pass"
      BY <3>1, EndPassStuck DEF Need
    <3>2. CASE Len(wf) = 0
      BY <3>2 DEF DeclaredIds
    <3> QED BY <2>1, <3>1, <3>2
  <2>4. \A id \in DeclaredIds : StateOf[id] = "success" <=> id \in done
    BY SuccessIsDone
  <2>5. done \subseteq DeclaredIds /\ DOMAIN Need = DeclaredIds
    BY SuccessIsDone DEF Need
  <2>6. Dag!End
    BY <1>2, <2>1, <2>2, <2>3, <2>4, <2>5
       DEF Dag!End, Dag!Begins, Dag!Is, Dag!Jobs, Need, StateOf
  <2> QED BY <2>6 DEF Dag!Next
<1> QED BY <1>3, <1>4

(* The run implements DagRun: whatever the declaration order, the passes    *)
(* and the CancelRun requests, its jobs start in dependency order, once and *)
(* alone, and walk gives up only when nothing that is left could run.       *)
THEOREM RunImplementsDag == Spec => RefinesDagRun
<1> DEFINE I == WalkInv /\ PassInv
<1>1. Init => I
  BY InitInv, WorkflowTyped DEF Init, NewRun, PassInv, Begun, Jobs
<1>2. I /\ [Next]_vars => I'
  BY WalkStep, PassStep
<1>3. I /\ [Next]_vars => [Dag!Next]_(Dag!dagVars)
  <2> SUFFICES ASSUME I, [Next]_vars PROVE [Dag!Next]_(Dag!dagVars)
    OBVIOUS
  <2>1. CASE StartJob
    BY <2>1, RefinedStart
  <2>2. CASE JobSucceeds \/ JobFails
    BY <2>2, RefinedEnd
  <2>3. CASE Start \/ EndPass \/ Record \/ CloseLog \/ Return \/ CancelRun
    BY <2>3, RefinedOutside
  <2>4. CASE UNCHANGED vars
    BY <2>4 DEF vars, Dag!dagVars, DeclaredIds, Over, Instance, LastJob, Declared
  <2> QED BY <2>1, <2>2, <2>3, <2>4 DEF Next, Walk
<1> HIDE DEF I
<1> QED BY <1>1, <1>2, <1>3, RefinedInit, PTL DEF Spec, RefinesDagRun, Dag!Spec

-----------------------------------------------------------------------------
(* The outcome.  A pass begins only while some instance has not run, and no *)
(* job of a cycle is ever done; so walk fails only on a job that failed or  *)
(* on a workflow that is not sound, and succeeds only if all have run.      *)
Distinct  == \A i, k \in Jobs : wf[i].id = wf[k].id => i = k
Cyclic(S) == \A i \in S : \E k \in S : wf[k].id \in wf[i].needs
Fault     == ~Sound \/ \E i \in Jobs : jobs[i] = "failure"
Good      == Sound /\ \A i \in Jobs : jobs[i] = "success"

NoCycleDone == Distinct => \A S \in SUBSET Jobs : Cyclic(S) => \A i \in S : wf[i].id \notin done

Known ==
    /\ pc = "start" => done = {}
    /\ pc = "pass" /\ ~progress => ~AllRan
    /\ pc = "failed" => Fault
    /\ pc = "succeeded" => Good
    /\ pc \in {"close", "end"} /\ cancels = MaxCancels =>
         (run = "failure" /\ Fault) \/ (run = "success" /\ Good)

OutcomeInv == WalkInv /\ PassInv /\ NoCycleDone /\ Known

LEMMA AllRanDistinct ==
    ASSUME WalkInv, PassInv
    PROVE  AllRan <=> Distinct /\ DeclaredIds \subseteq done
<1> DEFINE f == [i \in Jobs |-> wf[i].id]
<1>1. Len(wf) \in Nat
  BY WorkflowTyped DEF WalkInv, TypeOK
<1>2. IsFiniteSet(Jobs) /\ Cardinality(Jobs) = Len(wf)
  BY <1>1, FS_Interval DEF Jobs
<1>3. f \in Surjection(Jobs, DeclaredIds)
  BY DEF Surjection, DeclaredIds, Jobs
<1>4. f \in Injection(Jobs, DeclaredIds) <=> Distinct
  BY <1>3 DEF Injection, IsInjective, Surjection, Distinct
<1>5. /\ IsFiniteSet(DeclaredIds) /\ Cardinality(DeclaredIds) <= Len(wf)
      /\ Cardinality(DeclaredIds) = Len(wf) <=> Distinct
  <2> HIDE DEF f
  <2> QED BY <1>2, <1>3, <1>4, FS_Surjection
<1>6. done \subseteq DeclaredIds
  BY SuccessIsDone
<1>7. /\ Cardinality(DeclaredIds) \in Nat /\ Cardinality(done) \in Nat
      /\ Cardinality(done) <= Cardinality(DeclaredIds)
  BY <1>5, <1>6, FS_CardinalityType, FS_Subset
<1>8. CASE AllRan
  <2>1. Cardinality(DeclaredIds) = Len(wf)
    BY <1>1, <1>5, <1>7, <1>8 DEF AllRan
  <2> QED BY <1>5, <1>8, <2>1, AllRanAll
<1>9. CASE Distinct /\ DeclaredIds \subseteq done
  <2>1. done = DeclaredIds
    BY <1>6, <1>9
  <2> QED BY <1>1, <1>5, <1>7, <1>9, <2>1 DEF AllRan
<1> QED BY <1>8, <1>9

\* Sound, with the positions by name.
LEMMA SoundMeans ==
    Sound <=> /\ Distinct
              /\ \A i \in Jobs : \A n \in wf[i].needs : n \in DeclaredIds
              /\ \A S \in SUBSET Jobs : S # {} => ~Cyclic(S)
<1>1. \A n : Declared(n) # {} <=> n \in DeclaredIds
  BY DEF Declared, DeclaredIds
<1> QED BY <1>1 DEF Sound, Distinct, Cyclic, Jobs

\* The pass that finds all ids done has found a sound workflow.
LEMMA AllRanGood ==
    ASSUME WalkInv, PassInv, NoCycleDone, AllRan
    PROVE  Good
<1>1. Distinct /\ DeclaredIds \subseteq done /\ done \subseteq DeclaredIds
  BY AllRanDistinct, SuccessIsDone
<1>2. ASSUME NEW i \in Jobs
      PROVE  wf[i].id \in done /\ jobs[i] = "success" /\ wf[i].needs \subseteq done
  <2>1. wf[i].id \in DeclaredIds
    BY DEF DeclaredIds, Jobs
  <2>2. Instance(wf[i].id) = i
    BY <1>1, InstanceDeclared DEF WalkInv, TypeOK, Distinct
  <2>3. jobs[i] = "success"
    BY <1>1, <2>1, <2>2, SuccessIsDone DEF StateOf
  <2>4. LastJob(wf[i].id) = i
    <3>1. Declared(wf[i].id) = {i} /\ i \in Int
      BY <1>1, WorkflowTyped DEF Declared, Distinct, Jobs
    <3> QED BY <3>1 DEF LastJob
  <2>5. wf[i].needs \subseteq done
    BY <2>3, <2>4 DEF WalkInv, Ordered, Begun, Needs
  <2> QED BY <1>1, <2>1, <2>3, <2>5
<1>3. ASSUME NEW S \in SUBSET Jobs, S # {} PROVE ~Cyclic(S)
  BY <1>1, <1>2, <1>3 DEF NoCycleDone
<1>4. Sound
  BY <1>1, <1>2, <1>3, SoundMeans
<1> QED BY <1>2, <1>4 DEF Good

\* A pass that runs nothing, though not all have run, has found a workflow
\* that is not sound: the instances left wait for each other.
LEMMA UnresolvedFault ==
    ASSUME OutcomeInv, pc = "pass", RestOfPass = {}, Unresolved
    PROVE  Fault
<1> SUFFICES ASSUME Sound PROVE FALSE
  BY DEF Fault
<1> DEFINE S == {i \in Jobs : wf[i].id \notin done}
<1>1. /\ Distinct /\ \A i \in Jobs : \A n \in wf[i].needs : n \in DeclaredIds
      /\ S # {} => ~Cyclic(S)
  BY SoundMeans
<1>2. pos = 1 /\ ~AllRan
  BY DEF OutcomeInv, PassInv, Known, Unresolved
<1>3. \A i \in Jobs : ~Ready(i)
  BY <1>2 DEF RestOfPass, Jobs
<1>4. S # {}
  <2>1. ~(DeclaredIds \subseteq done)
    BY <1>1, <1>2, AllRanDistinct DEF OutcomeInv
  <2> QED BY <2>1 DEF DeclaredIds, Jobs
<1>5. ASSUME NEW i \in S PROVE \E k \in S : wf[k].id \in wf[i].needs
  <2>1. LastJob(wf[i].id) = i
    <3>1. Declared(wf[i].id) = {i} /\ i \in Int
      BY <1>1, WorkflowTyped DEF Declared, Distinct, Jobs, OutcomeInv, WalkInv, TypeOK
    <3> QED BY <3>1 DEF LastJob
  <2>2. PICK n \in wf[i].needs : n \notin done
    BY <1>3, <2>1 DEF Ready, AllDone
  <2>3. PICK k \in Jobs : wf[k].id = n
    BY <1>1, <2>2 DEF DeclaredIds, Jobs
  <2> QED BY <2>2, <2>3
<1> QED BY <1>1, <1>4, <1>5 DEF Cyclic

LEMMA OutcomeStep ==
    ASSUME OutcomeInv, [Next]_vars
    PROVE  OutcomeInv'
<1>1. WalkInv' /\ PassInv' /\ UNCHANGED wf
  BY WalkStep, PassStep DEF OutcomeInv, Next, Walk, vars, Start, StartJob, JobSucceeds, JobFails,
     EndPass, Record, CloseLog, Return, CancelRun
<1>2. Distinct' = Distinct /\ Jobs' = Jobs /\ Sound' = Sound /\ \A S : Cyclic(S)' = Cyclic(S)
  BY <1>1 DEF Distinct, Jobs, Sound, Cyclic, Declared
<1>3. CASE JobSucceeds
  <2>1. /\ pos \in Jobs /\ Needs(pos) \subseteq done /\ done' = done \cup {wf[pos].id}
        /\ progress' = TRUE /\ pc' = "pass"
    BY <1>3 DEF OutcomeInv, WalkInv, Waiting, JobSucceeds
  <2>2. NoCycleDone'
    <3> SUFFICES ASSUME Distinct, NEW S \in SUBSET Jobs, Cyclic(S), NEW i \in S
                 PROVE  wf[i].id \notin done'
      BY <1>1, <1>2 DEF NoCycleDone
    <3>1. \A k \in S : wf[k].id \notin done
      BY DEF OutcomeInv, NoCycleDone
    <3>2. CASE i = pos
      <4>1. LastJob(wf[i].id) = i
        <5>1. Declared(wf[i].id) = {i} /\ i \in Int
          BY WorkflowTyped DEF Declared, Distinct, Jobs, OutcomeInv, WalkInv, TypeOK
        <5> QED BY <5>1 DEF LastJob
      <4>2. wf[i].needs \subseteq done
        BY <2>1, <3>2, <4>1 DEF Needs
      <4> QED BY <3>1, <4>2 DEF Cyclic
    <3>3. CASE i # pos
      BY <2>1, <3>1, <3>3 DEF Distinct
    <3> QED BY <3>2, <3>3
  <2>3. Known'
    BY <2>1 DEF Known
  <2> QED BY <1>1, <2>2, <2>3 DEF OutcomeInv
<1>4. CASE ~JobSucceeds
  <2>1. UNCHANGED done
    BY <1>4 DEF Next, Walk, vars, Start, StartJob, JobFails, EndPass, Record, CloseLog, Return, CancelRun
  <2>2. NoCycleDone'
    BY <1>1, <1>2, <2>1 DEF OutcomeInv, NoCycleDone
  <2>3. AllRan' = AllRan
    BY <1>1, <2>1 DEF AllRan
  <2>4. UNCHANGED jobs => (Fault' = Fault /\ Good' = Good)
    BY <1>2 DEF Fault, Good
  <2>5. Known'
    <3>1. CASE Start
      <4>1. UNCHANGED jobs /\ done = {} /\ Len(wf) \in Nat
        BY <3>1, WorkflowTyped DEF Start, OutcomeInv, Known, WalkInv, TypeOK
      <4>2. Len(wf) # 0 => ~AllRan
        BY <4>1, FS_EmptySet DEF AllRan
      <4>3. Len(wf) = 0 => AllRan
        BY <4>1, FS_EmptySet DEF AllRan
      <4>4. Len(wf) = 0 => Good
        BY <4>3, AllRanGood DEF OutcomeInv
      <4>5. pc' = IF Len(wf) = 0 THEN "succeeded" ELSE "pass"
        BY <3>1 DEF Start
      <4> QED BY <2>3, <2>4, <4>1, <4>2, <4>4, <4>5 DEF Known
    <3>2. CASE StartJob
      BY <3>2 DEF StartJob, Known
    <3>3. CASE JobFails
      <4>1. pc' = "failed" /\ \E i \in Jobs : jobs'[i] = "failure"
        <5>1. /\ jobs' = [jobs EXCEPT ![Instance(wf[pos].id)] = "failure"] /\ pc' = "failed"
              /\ pos \in Jobs
          BY <3>3 DEF JobFails, SetJobState, AfterFailure, OutcomeInv, WalkInv, Waiting
        <5>2. Instance(wf[pos].id) \in Jobs
          BY <5>1, InstanceDeclared DEF OutcomeInv, WalkInv, TypeOK
        <5> QED BY <5>1, <5>2 DEF OutcomeInv, WalkInv, TypeOK, Jobs
      <4>2. Fault'
        BY <1>2, <4>1 DEF Fault
      <4> QED BY <4>1, <4>2 DEF Known
    <3>4. CASE EndPass
      <4>1. UNCHANGED jobs /\ pc = "pass" /\ RestOfPass = {}
        BY <3>4 DEF EndPass
      <4>2. Unresolved => Fault
        BY <4>1, UnresolvedFault
      <4>3. AllRan => Good
        BY AllRanGood DEF OutcomeInv
      <4>4. pc' = IF Unresolved THEN "failed" ELSE IF AllRan THEN "succeeded" ELSE "pass"
        BY <3>4 DEF EndPass
      <4> QED BY <2>3, <2>4, <4>1, <4>2, <4>3, <4>4 DEF Known
    <3>5. CASE Record
      <4>1. /\ UNCHANGED jobs /\ pc \in {"failed", "succeeded"} /\ pc' = "close"
            /\ run' = IF pc = "failed" THEN "failure" ELSE "success"
        BY <3>5 DEF Record, SetState, Outcome
      <4> QED BY <2>4, <4>1 DEF OutcomeInv, Known
    <3>6. CASE CloseLog \/ Return
      <4>1. /\ UNCHANGED <<jobs, run, cancels>> /\ pc = "close" /\ pc' \in {"close", "end"}
        BY <3>6 DEF CloseLog, Return
      <4> QED BY <2>4, <4>1 DEF OutcomeInv, Known
    <3>7. CASE CancelRun
      <4>1. UNCHANGED <<jobs, pc, progress>> /\ cancels' # MaxCancels
        BY <3>7, CIAssumption DEF CancelRun, OutcomeInv, WalkInv, TypeOK
      <4> QED BY <2>1, <2>3, <2>4, <4>1 DEF OutcomeInv, Known
    <3>8. CASE UNCHANGED vars
      <4>1. UNCHANGED <<jobs, pc, progress, run, cancels>>
        BY <3>8 DEF vars
      <4> QED BY <2>1, <2>3, <2>4, <4>1 DEF OutcomeInv, Known
    <3> QED BY <1>4, <3>1, <3>2, <3>3, <3>4, <3>5, <3>6, <3>7, <3>8 DEF Next, Walk
  <2> QED BY <1>1, <2>2, <2>5 DEF OutcomeInv
<1> QED BY <1>3, <1>4

(* A run that nobody cancels ends in "success" exactly if its workflow is   *)
(* sound and no job failed, for workflows of any length, with duplicate     *)
(* ids, cycles and needs that name no job (walk, Run of scheduler.go).      *)
THEOREM OutcomeIsRight == Spec => []OutcomeRight
<1>1. Init => OutcomeInv
  <2> SUFFICES ASSUME Init PROVE OutcomeInv
    OBVIOUS
  <2>1. WalkInv /\ pc = "start" /\ done = {}
    BY InitInv DEF Init
  <2>2. PassInv
    BY WorkflowTyped DEF Init, NewRun, PassInv, Begun, Jobs
  <2> QED BY <2>1, <2>2 DEF OutcomeInv, NoCycleDone, Known
<1>2. OutcomeInv => OutcomeRight
  <2> SUFFICES ASSUME OutcomeInv, pc \in {"close", "end"}, cancels = MaxCancels
               PROVE  /\ run \in {"success", "failure"}
                      /\ run = "success" <=> Sound /\ \A i \in Jobs : jobs[i] # "failure"
                      /\ run = "success" => \A i \in Jobs : jobs[i] = "success"
    BY DEF OutcomeRight, Jobs
  <2>1. (run = "failure" /\ Fault) \/ (run = "success" /\ Good)
    BY DEF OutcomeInv, Known
  <2> QED BY <2>1 DEF Fault, Good
<1> QED BY <1>1, <1>2, OutcomeStep, PTL DEF Spec
=============================================================================
