---------------------------- MODULE ClusterProofs ----------------------------
(***************************************************************************)
(* What TLAPS proves of modules Cluster and Services, for any calls, jobs, *)
(* services, sessions, ports and bounds: types, that a job leaves no pod,  *)
(* and succeeds only if it ran; that a scale undoes no launch; and that a  *)
(* call that is alone on its service does what its answer says.            *)
(***************************************************************************)
EXTENDS Cluster, TLAPS

Steps == {"new", "launch", "status", "wait", "sync", "run", "watch", "clean", "done"}
JobRecs == [kind : Kinds \cup {"none"}, step : Steps,
            commands : 0..(MaxCommands + 1), ran : 0..(MaxCommands + 1),
            branch : BOOLEAN, tree : Trees, answer : {"none", "ok", "failed"},
            seen : SUBSET Trees, excused : BOOLEAN]
PodRecs == [on : BOOLEAN, tree : Trees]

\* The workspace the commands of job J are to see.
Meant(J) == IF J.branch /\ J.kind # "image" THEN "full" ELSE J.tree

\* What holds of a job J and its pod P.
JobOK(J, P) ==
    /\ J \in JobRecs /\ P \in PodRecs
    /\ J.step # "new" => J.kind # "none"
    /\ J.ran <= J.commands
    /\ J.step = "watch" => J.ran < J.commands
    /\ J.step \in {"new", "launch"} => ~P.on
    /\ J.step = "done" /\ P.on => J.excused
    /\ J.answer # "none" => J.step \in {"clean", "done"}
    /\ J.answer = "ok" => J.ran = J.commands
    /\ J.branch => J.tree = "full" \/ (J.tree = "empty" /\ J.kind # "steps")
    /\ J.step \in {"status", "wait"} => P.tree = "none"
    /\ J.step \in {"run", "watch"} /\ ~J.excused => P.tree = J.tree
    /\ J.answer # "failed" /\ ~J.excused => J.seen \subseteq {Meant(J)}

JobsInv == /\ jobs \in [Jobs -> JobRecs] /\ pods \in [Jobs -> PodRecs]
           /\ \A j \in Jobs : JobOK(jobs[j], pods[j])

-----------------------------------------------------------------------------
(* Jobs and their pods.                                                     *)

\* A step of one job leaves the others as they are.
LEMMA OneJob ==
    ASSUME JobsInv, NEW j \in Jobs, NEW J, NEW P, JobOK(J, P),
           jobs' = [jobs EXCEPT ![j] = J], pods' = [pods EXCEPT ![j] = P]
    PROVE  JobsInv'
<1>1. J \in JobRecs /\ P \in PodRecs
  BY DEF JobOK
<1>2. jobs' \in [Jobs -> JobRecs] /\ pods' \in [Jobs -> PodRecs]
  BY <1>1 DEF JobsInv
<1>3. \A k \in Jobs : JobOK(jobs'[k], pods'[k])
  BY DEF JobsInv
<1> QED BY <1>2, <1>3 DEF JobsInv

\* A job takes a step and its pod stays.
LEMMA SamePod ==
    ASSUME JobsInv, NEW j \in Jobs, NEW J, JobOK(J, pods[j]),
           jobs' = [jobs EXCEPT ![j] = J], pods' = pods
    PROVE  JobsInv'
<1>1. pods' = [pods EXCEPT ![j] = pods[j]]
  BY DEF JobsInv
<1> QED BY <1>1, OneJob

LEMMA NewType == NewJob \in JobRecs
BY ClusterAssumption DEF NewJob, JobRecs, Steps, Trees

LEMMA Starts ==
    ASSUME JobsInv, NEW j \in Jobs, NEW kind \in Kinds,
           \/ StartWithoutTree(j, kind)
           \/ \E n \in 0..MaxCommands, tree \in Sources(kind) : StartJob(j, kind, n, tree)
    PROVE  JobsInv'
<1> USE ClusterAssumption
<1>1. pods' = pods /\ pods[j] \in PodRecs /\ ~pods[j].on
  BY DEF JobsInv, JobOK, JobAt, StartWithoutTree, StartJob
<1>2. CASE StartWithoutTree(j, kind)
  <2> DEFINE J == IF kind = "steps"
                  THEN [NewJob EXCEPT !.kind = kind, !.step = "done", !.answer = "failed"]
                  ELSE [NewJob EXCEPT !.kind = kind, !.step = "launch", !.tree = "empty", !.branch = TRUE,
                                      !.commands = 1]
  <2>1. jobs' = [jobs EXCEPT ![j] = J]
    BY <1>2 DEF StartWithoutTree
  <2>2. CASE kind = "steps"
    <3>1. J = [NewJob EXCEPT !.kind = "steps", !.step = "done", !.answer = "failed"]
      BY <2>2
    <3> HIDE DEF J
    <3>2. J \in JobRecs
      BY <3>1, NewType DEF JobRecs, Steps, Kinds
    <3>3. JobOK(J, pods[j])
      BY <1>1, <3>1, <3>2 DEF JobOK, NewJob
    <3> QED BY <1>1, <2>1, <3>3, SamePod
  <2>3. CASE kind # "steps"
    <3>1. J = [NewJob EXCEPT !.kind = kind, !.step = "launch", !.tree = "empty", !.branch = TRUE,
                             !.commands = 1]
      BY <2>3
    <3> HIDE DEF J
    <3>2. J \in JobRecs
      <4>1. 1 \in 0..(MaxCommands + 1) /\ kind \in Kinds
        OBVIOUS
      <4> QED BY <3>1, <4>1, NewType DEF JobRecs, Steps, Trees
    <3>3. JobOK(J, pods[j])
      BY <1>1, <2>3, <3>1, <3>2 DEF JobOK, NewJob, Kinds
    <3> QED BY <1>1, <2>1, <3>3, SamePod
  <2> QED BY <2>2, <2>3
<1>3. ASSUME NEW n \in 0..MaxCommands, NEW tree \in Sources(kind), StartJob(j, kind, n, tree) PROVE JobsInv'
  <2> DEFINE J == IF kind = "steps" /\ n = 0
                  THEN [NewJob EXCEPT !.kind = kind, !.step = "done", !.answer = "ok"]
                  ELSE [NewJob EXCEPT !.kind = kind, !.step = "launch", !.tree = tree,
                                      !.branch = (tree = "full"),
                                      !.commands = IF kind = "steps" THEN n ELSE 1]
  <2>1. jobs' = [jobs EXCEPT ![j] = J]
    BY <1>3 DEF StartJob
  <2>2. CASE kind = "steps" /\ n = 0
    <3>1. J = [NewJob EXCEPT !.kind = "steps", !.step = "done", !.answer = "ok"]
      BY <2>2
    <3> HIDE DEF J
    <3>2. J \in JobRecs
      BY <3>1, NewType DEF JobRecs, Steps, Kinds
    <3>3. JobOK(J, pods[j])
      BY <1>1, <3>1, <3>2 DEF JobOK, NewJob
    <3> QED BY <1>1, <2>1, <3>3, SamePod
  <2>3. CASE ~(kind = "steps" /\ n = 0)
    <3> DEFINE m == IF kind = "steps" THEN n ELSE 1
    <3>1. J = [NewJob EXCEPT !.kind = kind, !.step = "launch", !.tree = tree, !.branch = (tree = "full"),
                             !.commands = m]
      BY <2>3
    <3>2. m \in 0..(MaxCommands + 1) /\ tree \in Trees
      BY DEF Sources, Trees
    <3> HIDE DEF J, m
    <3>3. J \in JobRecs
      BY <3>1, <3>2, NewType DEF JobRecs, Steps, Trees, Kinds
    <3>4. JobOK(J, pods[j])
      <4>1. /\ J.kind = kind /\ J.step = "launch" /\ J.tree = tree /\ J.branch = (tree = "full")
            /\ J.commands = m /\ J.ran = 0 /\ J.answer = "none" /\ J.seen = {}
        BY <3>1 DEF NewJob
      <4>2. J.branch => J.tree = "full"
        BY <4>1
      <4> QED BY <1>1, <3>2, <3>3, <4>1, <4>2 DEF JobOK, Kinds
    <3> QED BY <1>1, <2>1, <3>4, SamePod
  <2> QED BY <2>2, <2>3
<1> QED BY <1>2, <1>3

\* The steps that move on, and leave the pod.
LEMMA MovesOn ==
    ASSUME JobsInv, NEW j \in Jobs,
           PodStatus(j) \/ PodReady(j) \/ Execute(j) \/ AllDone(j) \/ DeletePodFails(j)
    PROVE  JobsInv'
<1>1. JobOK(jobs[j], pods[j])
  BY DEF JobsInv
<1>2. ASSUME NEW s \in Steps, jobs' = [jobs EXCEPT ![j].step = s], pods' = pods,
             JobOK([jobs[j] EXCEPT !.step = s], pods[j])
      PROVE  JobsInv'
  BY <1>2, SamePod
<1>3. CASE PodStatus(j)
  <2>1. JobOK([jobs[j] EXCEPT !.step = "wait"], pods[j])
    BY <1>1, <1>3 DEF PodStatus, JobAt, JobOK, JobRecs, Steps, Meant
  <2> QED BY <1>2, <1>3, <2>1 DEF PodStatus, JobGoes, Steps
<1>4. CASE PodReady(j)
  <2>1. CASE jobs[j].tree = "none"
    <3>1. JobOK([jobs[j] EXCEPT !.step = "run"], pods[j])
      BY <1>1, <1>4, <2>1 DEF PodReady, JobAt, JobOK, JobRecs, Steps, Meant
    <3> QED BY <1>2, <1>4, <2>1, <3>1 DEF PodReady, JobGoes, Steps
  <2>2. CASE jobs[j].tree # "none"
    <3>1. JobOK([jobs[j] EXCEPT !.step = "sync"], pods[j])
      BY <1>1, <1>4, <2>2 DEF PodReady, JobAt, JobOK, JobRecs, Steps, Meant
    <3> QED BY <1>2, <1>4, <2>2, <3>1 DEF PodReady, JobGoes, Steps
  <2> QED BY <2>1, <2>2
<1>5. CASE Execute(j)
  <2>1. JobOK([jobs[j] EXCEPT !.step = "watch"], pods[j])
    BY <1>1, <1>5 DEF Execute, JobAt, JobOK, JobRecs, Steps, Meant
  <2> QED BY <1>2, <1>5, <2>1 DEF Execute, JobGoes, Steps
<1>6. CASE AllDone(j)
  <2> DEFINE J == [jobs[j] EXCEPT !.step = "clean", !.answer = "ok"]
  <2>1. J \in JobRecs
    BY <1>1 DEF JobOK, JobRecs, Steps
  <2>2. JobOK(J, pods[j])
    <3>1. /\ J.step = "clean" /\ J.answer = "ok" /\ J.ran = jobs[j].ran /\ J.commands = jobs[j].commands
          /\ J.branch = jobs[j].branch /\ J.tree = jobs[j].tree
          /\ J.kind = jobs[j].kind /\ J.seen = jobs[j].seen /\ J.excused = jobs[j].excused
      BY <1>1 DEF JobOK, JobRecs
    <3>2. jobs[j].ran = jobs[j].commands /\ jobs[j].step = "run"
      BY <1>6 DEF AllDone, JobAt
    <3>3. jobs[j].answer \in {"none", "ok", "failed"} /\ jobs[j].ran <= jobs[j].commands
      BY <1>1 DEF JobOK, JobRecs
    <3> HIDE DEF J
    <3> QED BY <1>1, <2>1, <3>1, <3>2, <3>3 DEF JobOK, Meant
  <2>3. jobs' = [jobs EXCEPT ![j] = J] /\ pods' = pods
    BY <1>6 DEF AllDone, JobsInv
  <2> QED BY <2>2, <2>3, SamePod
<1>7. CASE DeletePodFails(j)
  <2> DEFINE J == [jobs[j] EXCEPT !.step = "done", !.excused = TRUE]
  <2>1. JobOK(J, pods[j])
    BY <1>1, <1>7 DEF DeletePodFails, JobAt, JobOK, JobRecs, Steps
  <2>2. jobs' = [jobs EXCEPT ![j] = J] /\ pods' = pods
    BY <1>7 DEF DeletePodFails, JobsInv
  <2> QED BY <2>1, <2>2, SamePod
<1> QED BY <1>3, <1>4, <1>5, <1>6, <1>7

\* The steps that act on the pod.
LEMMA MovesPod ==
    ASSUME JobsInv, NEW j \in Jobs, CreatePod(j) \/ SyncTree(j) \/ DeletePod(j)
    PROVE  JobsInv'
<1>1. JobOK(jobs[j], pods[j])
  BY DEF JobsInv
<1>2. CASE CreatePod(j)
  <2>1. JobOK([jobs[j] EXCEPT !.step = "status"], [NoPod EXCEPT !.on = TRUE])
    BY <1>1, <1>2 DEF CreatePod, JobAt, JobOK, JobRecs, PodRecs, Steps, Trees, NoPod, Meant
  <2>2. /\ jobs' = [jobs EXCEPT ![j] = [jobs[j] EXCEPT !.step = "status"]]
        /\ pods' = [pods EXCEPT ![j] = [NoPod EXCEPT !.on = TRUE]]
    BY <1>2 DEF CreatePod, JobGoes
  <2> QED BY <2>1, <2>2, OneJob
<1>3. CASE SyncTree(j)
  <2>1. JobOK([jobs[j] EXCEPT !.step = "run"], [pods[j] EXCEPT !.tree = jobs[j].tree])
    BY <1>1, <1>3 DEF SyncTree, JobAt, JobOK, JobRecs, PodRecs, Steps, Meant
  <2>2. /\ jobs' = [jobs EXCEPT ![j] = [jobs[j] EXCEPT !.step = "run"]]
        /\ pods' = [pods EXCEPT ![j] = [pods[j] EXCEPT !.tree = jobs[j].tree]]
    BY <1>3 DEF SyncTree, JobGoes
  <2> QED BY <2>1, <2>2, OneJob
<1>4. CASE DeletePod(j)
  <2>1. JobOK([jobs[j] EXCEPT !.step = "done"], NoPod)
    BY <1>1, <1>4 DEF DeletePod, JobAt, JobOK, JobRecs, PodRecs, Steps, Trees, NoPod, Meant
  <2>2. /\ jobs' = [jobs EXCEPT ![j] = [jobs[j] EXCEPT !.step = "done"]]
        /\ pods' = [pods EXCEPT ![j] = NoPod]
    BY <1>4 DEF DeletePod, JobGoes
  <2> QED BY <2>1, <2>2, OneJob
<1> QED BY <1>2, <1>3, <1>4

\* A command ends, in the tree of its job unless the worker restarted.
LEMMA CommandEnds ==
    ASSUME JobsInv, NEW j \in Jobs, CommandDone(j)
    PROVE  JobsInv'
<1>1. JobOK(jobs[j], pods[j]) /\ jobs[j].step = "watch" /\ pods' = pods
  BY DEF JobsInv, CommandDone, JobAt
<1>2. CASE Succeeds(j) /\ jobs' = [jobs EXCEPT ![j] = Ended(j)]
  <2>1. Ended(j) \in JobRecs
    <3>1. jobs[j].ran + 1 \in 0..(MaxCommands + 1) /\ jobs[j].ran + 1 <= jobs[j].commands
      BY <1>1, ClusterAssumption DEF JobOK, JobRecs
    <3>2. jobs[j].seen \cup {pods[j].tree} \in SUBSET Trees
      BY <1>1 DEF JobOK, JobRecs, PodRecs
    <3> QED BY <1>1, <3>1, <3>2 DEF Ended, JobOK, JobRecs, Steps
  <2>2. jobs[j].excused \/ pods[j].tree = Meant(jobs[j])
    BY <1>1, <1>2 DEF Succeeds, JobOK, JobRecs, Kinds, Meant
  <2>3. JobOK(Ended(j), pods[j])
    <3> DEFINE J == jobs[j]
    <3>1. /\ J.ran \in Nat /\ J.commands \in Nat /\ J.ran < J.commands /\ J.answer # "ok"
          /\ J.kind \in {"steps", "image", "publish", "none"}
      BY <1>1, ClusterAssumption DEF JobOK, JobRecs, Kinds
    <3>2. /\ Ended(j).kind = J.kind /\ Ended(j).step = "run" /\ Ended(j).ran = J.ran + 1
          /\ Ended(j).commands = J.commands /\ Ended(j).seen = J.seen \cup {pods[j].tree}
          /\ Ended(j).tree = J.tree /\ Ended(j).branch = J.branch /\ Ended(j).answer = J.answer /\ Ended(j).excused = J.excused
      BY <1>1 DEF Ended, JobOK, JobRecs
    <3>3. ~J.excused => pods[j].tree = J.tree
      BY <1>1 DEF JobOK
    <3>4. /\ Meant(Ended(j)) = Meant(J)
          /\ J.answer # "failed" /\ ~J.excused => J.seen \cup {pods[j].tree} \subseteq {Meant(J)}
      BY <1>1, <2>2, <3>2 DEF JobOK, Meant
    <3> QED BY <1>1, <2>1, <3>1, <3>2, <3>3, <3>4 DEF JobOK
  <2> QED BY <1>1, <1>2, <2>3, SamePod
<1>3. CASE jobs' = [jobs EXCEPT ![j].step = "clean", ![j].answer = "failed"]
  <2> DEFINE J == [jobs[j] EXCEPT !.step = "clean", !.answer = "failed"]
  <2>1. JobOK(J, pods[j])
    BY <1>1 DEF JobOK, JobRecs, Steps
  <2>2. jobs' = [jobs EXCEPT ![j] = J]
    BY <1>3 DEF JobsInv
  <2> QED BY <1>1, <2>1, <2>2, SamePod
<1> QED BY <1>2, <1>3 DEF CommandDone

LEMMA Breaking ==
    ASSUME JobsInv, NEW j \in Jobs, JobBreaks(j)
    PROVE  JobsInv'
<1> DEFINE J == [jobs[j] EXCEPT !.step = Deferred(@), !.answer = "failed", !.excused = JobAt(j, {"status"})]
<1>1. JobOK(jobs[j], pods[j]) /\ pods' = pods
  BY DEF JobsInv, JobBreaks
<1>2. jobs' = [jobs EXCEPT ![j] = J]
  BY DEF JobBreaks, JobsInv
<1>3. JobOK(J, pods[j])
  <2>1. /\ J.step = Deferred(jobs[j].step) /\ J.answer = "failed"
        /\ J.ran = jobs[j].ran /\ J.commands = jobs[j].commands /\ J.tree = jobs[j].tree
        /\ J.kind = jobs[j].kind /\ J.seen = jobs[j].seen /\ J.branch = jobs[j].branch
        /\ J.excused = JobAt(j, {"status"})
    BY <1>1 DEF JobOK, JobRecs
  <2>2. jobs[j].step \in {"launch", "status", "wait", "sync", "run", "watch"}
    BY DEF JobBreaks, JobAt
  <2>3. J \in JobRecs
    <3>1. Deferred(jobs[j].step) \in Steps
      BY DEF Deferred, Steps
    <3>2. JobAt(j, {"status"}) \in BOOLEAN
      BY DEF JobAt
    <3> HIDE DEF JobAt
    <3> QED BY <1>1, <3>1, <3>2 DEF JobOK, JobRecs
  <2> HIDE DEF J
  <2>4. CASE jobs[j].step \in {"launch", "status"}
    BY <1>1, <2>1, <2>2, <2>3, <2>4 DEF JobOK, Deferred, JobAt
  <2>5. CASE jobs[j].step \notin {"launch", "status"}
    BY <1>1, <2>1, <2>2, <2>3, <2>5 DEF JobOK, Deferred, JobAt
  <2> QED BY <2>4, <2>5
<1> QED BY <1>1, <1>2, <1>3, SamePod

LEMMA Restarting ==
    ASSUME JobsInv, NEW j \in Jobs, Restart(j)
    PROVE  JobsInv'
<1> DEFINE P == [pods[j] EXCEPT !.tree = "none"]
           J == IF JobAt(j, {"watch"}) THEN StreamError(j)
                ELSE IF JobAt(j, {"run"}) THEN [jobs[j] EXCEPT !.excused = TRUE]
                ELSE jobs[j]
<1>1. JobOK(jobs[j], pods[j])
  BY DEF JobsInv
<1>2. jobs' = [jobs EXCEPT ![j] = J] /\ pods' = [pods EXCEPT ![j] = P]
  BY DEF Restart, JobsInv
<1>3. JobOK(J, P)
  <2>1. CASE JobAt(j, {"watch"})
    BY <1>1, <2>1 DEF JobAt, StreamError, JobOK, JobRecs, PodRecs, Steps, Trees
  <2>2. CASE JobAt(j, {"run"})
    BY <1>1, <2>2 DEF JobAt, JobOK, JobRecs, PodRecs, Steps, Trees
  <2>3. CASE ~JobAt(j, {"watch"}) /\ ~JobAt(j, {"run"})
    BY <1>1, <2>3 DEF JobAt, JobOK, PodRecs, Trees
  <2> QED BY <2>1, <2>2, <2>3
<1> QED BY <1>2, <1>3, OneJob

LEMMA Crashing == JobsInv /\ Crash => JobsInv'
<1> SUFFICES ASSUME JobsInv, Crash PROVE JobsInv'
  OBVIOUS
<1>1. pods' = pods
  BY DEF Crash
<1>2. ASSUME NEW j \in Jobs PROVE JobOK(jobs'[j], pods[j])
  <2>1. JobOK(jobs[j], pods[j])
    BY DEF JobsInv
  <2>2. CASE JobAt(j, {"new", "done"})
    BY <2>1, <2>2 DEF Crash
  <2>3. CASE ~JobAt(j, {"new", "done"})
    <3>1. jobs'[j] = [jobs[j] EXCEPT !.step = "done", !.answer = "none", !.excused = TRUE]
      BY <2>3 DEF Crash
    <3> QED BY <2>1, <2>3, <3>1 DEF JobOK, JobAt, JobRecs, Steps
  <2> QED BY <2>2, <2>3
<1>3. jobs' \in [Jobs -> JobRecs]
  BY <1>2 DEF Crash, JobOK
<1> QED BY <1>1, <1>2, <1>3 DEF JobsInv

LEMMA JobsStep == JobsInv /\ [Next]_clusterVars => JobsInv'
<1> SUFFICES ASSUME JobsInv, [Next]_clusterVars PROVE JobsInv'
  OBVIOUS
<1>1. CASE UNCHANGED <<jobs, pods>>
  BY <1>1 DEF JobsInv
<1>2. CASE JobNext
  <2>1. PICK j \in Jobs :
          \/ \E kind \in Kinds : \/ StartWithoutTree(j, kind)
                                \/ \E n \in 0..MaxCommands, tree \in Sources(kind) : StartJob(j, kind, n, tree)
          \/ CreatePod(j) \/ PodStatus(j) \/ PodReady(j) \/ SyncTree(j) \/ Execute(j) \/ CommandDone(j)
          \/ AllDone(j) \/ JobBreaks(j) \/ DeletePod(j) \/ DeletePodFails(j) \/ Restart(j)
    BY <1>2 DEF JobNext
  <2> QED BY <2>1, Starts, MovesOn, MovesPod, CommandEnds, Breaking, Restarting
<1>3. CASE Crash
  BY <1>3, Crashing
<1> QED BY <1>1, <1>2, <1>3 DEF Next, clusterVars

LEMMA JobsInit == Init => JobsInv
<1> SUFFICES ASSUME Init PROVE JobsInv
  OBVIOUS
<1>1. NewJob \in JobRecs /\ NoPod \in PodRecs /\ JobOK(NewJob, NoPod)
  BY ClusterAssumption DEF NewJob, NoPod, JobOK, JobRecs, PodRecs, Steps, Trees
<1> QED BY <1>1 DEF Init, JobsInv

LEMMA JobsAlways == Spec => []JobsInv
BY JobsInit, JobsStep, PTL DEF Spec

(* However a job ends, its pod is gone when it is over, unless the server   *)
(* crashed or the status or the delete request failed (RunJob,              *)
(* DeleteSandbox of internal/k8s).                                          *)
THEOREM JobsLeaveNoPod == Spec => []PodsEnd
<1>1. JobsInv => PodsEnd
  BY DEF JobsInv, JobOK, PodsEnd, JobAt
<1> QED BY <1>1, JobsAlways, PTL

(* A job that answers OK has run every command to its end, and, unless the  *)
(* worker restarted between two of them, in the workspace it was to have:   *)
(* that of its branch, if it names one (RunJob, prepareContext).            *)
THEOREM SuccessMeansRan == Spec => []OkMeansRan
<1>1. JobsInv => OkMeansRan
  BY DEF JobsInv, JobOK, OkMeansRan, Meant
<1> QED BY <1>1, JobsAlways, PTL

-----------------------------------------------------------------------------
(* Calls on services.                                                       *)

CallRecs == [op : Ops \cup {"none"},
             step : {"new", "refused", "config", "create", "get", "update", "serve",
                     "status", "unserve", "undeploy", "done"},
             name : Services \cup {<<>>}, session : Sessions \cup {<<>>},
             ports : SUBSET Ports, replicas : Nat, copy : Deployments, kept : BOOLEAN, alone : BOOLEAN]
Claims   == [kind : {"none", "up", "down", "scaled"}, by : Calls \cup {<<>>}]

\* A call that has begun knows its service.
Named(call) == call.step # "new" => call.name \in Services

\* The copy of a scale is the Deployment, if its version is still the same.
Fresh(call, ds) ==
    call.op = "scale" /\ call.step = "update" =>
      /\ call.copy.rv <= ds[call.name].rv
      /\ ds[call.name].on /\ ds[call.name].rv = call.copy.rv => call.copy = ds[call.name]

CallsInv == /\ ServicesTypeOK
            /\ \A c \in Calls : Named(calls[c]) /\ Fresh(calls[c], deps)

\* A Deployment changes only with its version, or goes.
NewVersions ==
    /\ deps' \in [Services -> Deployments]
    /\ \A n \in Services : \/ deps'[n] = deps[n]
                           \/ deps'[n].rv = deps[n].rv + 1
                           \/ deps'[n].rv = deps[n].rv /\ ~deps'[n].on

\* A call's step keeps what the call knew, or takes it out of "update".
KeepsCopy(old, new) ==
    /\ new \in CallRecs /\ Named(new)
    /\ \/ new.op = old.op /\ new.step = old.step /\ new.copy = old.copy /\ new.name = old.name
       \/ new.op # "scale" \/ new.step # "update"

LEMMA NewCallType == NewCall \in CallRecs
BY DEF NewCall, CallRecs, Deployments, NoDep

LEMMA StaysFresh ==
    ASSUME CallsInv, NewVersions, NEW c \in Calls, NEW new, KeepsCopy(calls[c], new)
    PROVE  Fresh(new, deps')
<1> SUFFICES ASSUME new.op = "scale", new.step = "update"
             PROVE  /\ new.copy.rv <= deps'[new.name].rv
                    /\ deps'[new.name].on /\ deps'[new.name].rv = new.copy.rv =>
                         new.copy = deps'[new.name]
  BY DEF Fresh
<1> DEFINE n == calls[c].name
<1>1. /\ new.copy = calls[c].copy /\ new.name = n /\ n \in Services
      /\ calls[c].copy.rv <= deps[n].rv
      /\ deps[n].on /\ deps[n].rv = calls[c].copy.rv => calls[c].copy = deps[n]
  BY DEF KeepsCopy, CallsInv, Fresh, Named
<1>2. deps[n].rv \in Nat /\ calls[c].copy.rv \in Nat /\ deps'[n].rv \in Nat
  BY <1>1 DEF CallsInv, ServicesTypeOK, Deployments, NewVersions
<1>3. \/ deps'[n] = deps[n]
      \/ deps'[n].rv = deps[n].rv + 1
      \/ deps'[n].rv = deps[n].rv /\ ~deps'[n].on
  BY <1>1 DEF NewVersions
<1> HIDE DEF n
<1> QED BY <1>1, <1>2, <1>3

\* What a step has to show.
LEMMA CallsKept ==
    ASSUME CallsInv, NewVersions,
           svcs' \in [Services -> [on : BOOLEAN, ports : SUBSET Ports]],
           fails' \in 0..MaxFails, claims' \in [Services -> Claims],
           calls' = [d \in Calls |-> calls'[d]],
           \A d \in Calls : KeepsCopy(calls[d], calls'[d])
    PROVE  CallsInv'
<1>1. calls' \in [Calls -> CallRecs]
  BY DEF KeepsCopy
<1>2. ServicesTypeOK'
  BY <1>1 DEF NewVersions, ServicesTypeOK, CallRecs, Claims
<1>3. \A d \in Calls : Named(calls'[d]) /\ Fresh(calls'[d], deps')
  BY StaysFresh DEF KeepsCopy
<1> QED BY <1>2, <1>3 DEF CallsInv

LEMMA SameVersions == CallsInv /\ UNCHANGED deps => NewVersions
BY DEF CallsInv, ServicesTypeOK, NewVersions

LEMMA KeepsItself == ASSUME CallsInv, NEW d \in Calls PROVE KeepsCopy(calls[d], calls[d])
BY DEF CallsInv, ServicesTypeOK, CallRecs, KeepsCopy

\* A call c takes a step, and perhaps makes its claim.
LEMMA OneCall ==
    ASSUME CallsInv, NEW c \in Calls, NEW new, Becomes(c, new), KeepsCopy(calls[c], new)
    PROVE  /\ calls' = [d \in Calls |-> calls'[d]]
           /\ \A d \in Calls : KeepsCopy(calls[d], calls'[d])
<1>1. calls \in [Calls -> CallRecs]
  BY DEF CallsInv, ServicesTypeOK, CallRecs
<1>2. calls'[c] = new /\ \A d \in Calls \ {c} : calls'[d] = calls[d]
  BY <1>1 DEF Becomes
<1>3. calls' = [d \in Calls |-> calls'[d]]
  BY <1>1 DEF Becomes
<1> QED BY <1>2, <1>3, KeepsItself

LEMMA StepKeeps ==
    ASSUME CallsInv, NEW c \in Calls, calls[c].step # "new",
           NEW s \in {"create", "get", "serve", "status", "undeploy", "done"}
    PROVE  /\ KeepsCopy(calls[c], [calls[c] EXCEPT !.step = s])
           /\ KeepsCopy(calls[c], [calls[c] EXCEPT !.step = s, !.alone = FALSE])
<1>1. calls[c] \in CallRecs /\ calls[c].name \in Services
  BY DEF CallsInv, ServicesTypeOK, CallRecs, Named
<1>2. [calls[c] EXCEPT !.step = s] \in CallRecs
  BY <1>1 DEF CallRecs
<1>3. [calls[c] EXCEPT !.step = s, !.alone = FALSE] \in CallRecs
  BY <1>1 DEF CallRecs
<1>4. /\ [calls[c] EXCEPT !.step = s].name = calls[c].name
      /\ [calls[c] EXCEPT !.step = s, !.alone = FALSE].name = calls[c].name
      /\ [calls[c] EXCEPT !.step = s].step = s
      /\ [calls[c] EXCEPT !.step = s, !.alone = FALSE].step = s
  BY <1>1 DEF CallRecs
<1> QED BY <1>1, <1>2, <1>3, <1>4 DEF KeepsCopy, Named

\* The three ways a call goes on.
LEMMA GoesOn ==
    ASSUME CallsInv, NEW c \in Calls, calls[c].step # "new",
           \/ Fails(c)
           \/ \E s \in {"create", "get", "serve", "status", "undeploy", "done"} : Goes(c, s)
           \/ \E kind \in {"up", "down", "scaled"} : Holds(c, kind)
    PROVE  /\ claims' \in [Services -> Claims]
           /\ calls' = [d \in Calls |-> calls'[d]]
           /\ \A d \in Calls : KeepsCopy(calls[d], calls'[d])
<1>1. claims \in [Services -> Claims]
  BY DEF CallsInv, ServicesTypeOK, Claims
<1>2. claims' \in [Services -> Claims]
  <2>1. CASE \E kind \in {"up", "down", "scaled"} : Holds(c, kind)
    <3>1. PICK kind \in {"up", "down", "scaled"} : Holds(c, kind)
      BY <2>1
    <3>2. [kind |-> kind, by |-> c] \in Claims
      BY DEF Claims
    <3> QED BY <1>1, <3>1, <3>2 DEF Holds
  <2> QED BY <1>1, <2>1 DEF Fails, Goes
<1>3. PICK s \in {"create", "get", "serve", "status", "undeploy", "done"} :
        Becomes(c, [calls[c] EXCEPT !.step = s])
  BY DEF Fails, Goes, Holds
<1> QED BY <1>2, <1>3, StepKeeps, OneCall

-----------------------------------------------------------------------------
LEMMA Begin ==
    ASSUME CallsInv, NEW c \in Calls, NEW n \in Services, NEW call \in CallRecs,
           call.step # "update", Begins(c, n, call), UNCHANGED <<deps, svcs>>, fails' \in 0..MaxFails
    PROVE  CallsInv'
<1>1. calls \in [Calls -> CallRecs] /\ claims \in [Services -> Claims]
  BY DEF CallsInv, ServicesTypeOK, CallRecs, Claims
<1>2. /\ claims' \in [Services -> Claims]
      /\ svcs' \in [Services -> [on : BOOLEAN, ports : SUBSET Ports]]
  BY <1>1 DEF Begins, NoClaim, Claims, CallsInv, ServicesTypeOK
<1>3. calls' = [d \in Calls |-> calls'[d]]
  BY DEF Begins
<1>4. ASSUME NEW d \in Calls PROVE KeepsCopy(calls[d], calls'[d])
  <2>1. CASE d = c
    <3> DEFINE b == Running(n) = {}
    <3>1. calls'[c] = [call EXCEPT !.name = n, !.alone = b] /\ b \in BOOLEAN
      BY DEF Begins
    <3> HIDE DEF b
    <3> QED BY <2>1, <3>1 DEF KeepsCopy, CallRecs, Named
  <2>2. CASE d # c /\ d \in Running(n)
    <3>1. calls'[d] = [calls[d] EXCEPT !.alone = FALSE]
      BY <2>2 DEF Begins
    <3>2. calls[d] \in CallRecs /\ Named(calls[d])
      BY <1>1 DEF CallsInv
    <3> QED BY <3>1, <3>2 DEF KeepsCopy, CallRecs, Named
  <2>3. CASE d # c /\ d \notin Running(n)
    BY <2>3, KeepsItself DEF Begins
  <2> QED BY <2>1, <2>2, <2>3
<1> QED BY <1>2, <1>3, <1>4, SameVersions, CallsKept

LEMMA BeginSteps ==
    ASSUME CallsInv, NEW c \in Calls, NEW n \in Services,
           \/ \E s \in Sessions : DeployTool(c, n, s) \/ DeployBlind(c, n, s)
           \/ \E p \in Ports, reps \in {0} \cup Scales : Launch(c, n, {p}, reps)
           \/ \E reps \in Scales : Scale(c, n, reps)
           \/ Delete(c, n)
    PROVE  CallsInv'
<1> USE ServicesAssumption, NewCallType
<1>1. fails \in 0..MaxFails
  BY DEF CallsInv, ServicesTypeOK
<1>2. ASSUME NEW s \in Sessions, NEW step \in {"refused", "config"}, NEW op \in {"deploy"},
             Begins(c, n, [NewCall EXCEPT !.op = op, !.session = s, !.ports = {ToolPort}, !.replicas = 1,
                                          !.step = step]),
             UNCHANGED <<deps, svcs>>, fails' \in 0..MaxFails
      PROVE  CallsInv'
  <2> DEFINE call == [NewCall EXCEPT !.op = op, !.session = s, !.ports = {ToolPort}, !.replicas = 1,
                                     !.step = step]
  <2>1. call.op \in Ops
    BY <1>2 DEF Begins
  <2>2. call \in CallRecs /\ call.step # "update"
    BY <2>1 DEF CallRecs
  <2> QED BY <1>2, <2>2, Begin
<1>3. ASSUME NEW s \in Sessions, DeployTool(c, n, s) PROVE CallsInv'
  <2>1. (IF Refused(n, s) THEN "refused" ELSE "config") \in {"refused", "config"}
    OBVIOUS
  <2> QED BY <1>1, <1>2, <1>3, <2>1 DEF DeployTool
<1>4. ASSUME NEW s \in Sessions, DeployBlind(c, n, s) PROVE CallsInv'
  <2>1. fails' \in 0..MaxFails
    <3>1. fails > 0 /\ fails' = fails - 1
      BY <1>4 DEF DeployBlind
    <3>2. MaxFails \in Nat
      OBVIOUS
    <3> QED BY <1>1, <3>1, <3>2
  <2>2. Begins(c, n, [NewCall EXCEPT !.op = "deploy", !.session = s, !.ports = {ToolPort}, !.replicas = 1,
                                     !.step = "config"])
    BY <1>4 DEF DeployBlind
  <2>3. UNCHANGED <<deps, svcs>>
    BY <1>4 DEF DeployBlind
  <2> QED BY <1>2, <2>1, <2>2, <2>3
<1>5. ASSUME NEW p \in Ports, NEW reps \in {0} \cup Scales, Launch(c, n, {p}, reps) PROVE CallsInv'
  <2> DEFINE r == IF reps = 0 THEN 1 ELSE reps
             call == [NewCall EXCEPT !.op = "launch", !.ports = {p}, !.step = "config", !.replicas = r]
  <2>1. r \in Nat
    OBVIOUS
  <2> HIDE DEF r
  <2>2. Begins(c, n, call)
    BY <1>5 DEF Launch, r
  <2>3. call.op \in Ops
    BY <2>2 DEF Begins
  <2>4. call \in CallRecs /\ call.step # "update"
    BY <2>1, <2>3 DEF CallRecs
  <2> QED BY <1>1, <1>5, <2>2, <2>4, Begin DEF Launch
<1>6. ASSUME NEW reps \in Scales, Scale(c, n, reps) PROVE CallsInv'
  <2> DEFINE call == [NewCall EXCEPT !.op = "scale", !.step = "get", !.replicas = reps]
  <2>1. Begins(c, n, call)
    BY <1>6 DEF Scale
  <2>2. call.op \in Ops
    BY <2>1 DEF Begins
  <2>3. call \in CallRecs /\ call.step # "update"
    BY <2>2 DEF CallRecs
  <2> QED BY <1>1, <1>6, <2>1, <2>3, Begin DEF Scale
<1>7. CASE Delete(c, n)
  <2> DEFINE call == [NewCall EXCEPT !.op = "delete", !.step = "unserve"]
  <2>1. Begins(c, n, call)
    BY <1>7 DEF Delete
  <2>2. call.op \in Ops
    BY <2>1 DEF Begins
  <2>3. call \in CallRecs /\ call.step # "update"
    BY <2>2 DEF CallRecs
  <2> QED BY <1>1, <1>7, <2>1, <2>3, Begin DEF Delete
<1> QED BY <1>3, <1>4, <1>5, <1>6, <1>7

\* The steps between, which leave Deployments alone.
LEMMA QuietSteps ==
    ASSUME CallsInv, NEW c \in Calls,
           DeployRefused(c) \/ Configure(c) \/ CreateService(c) \/ Status(c) \/ Unserve(c) \/ Breaks(c)
    PROVE  CallsInv'
<1>1. /\ fails \in 0..MaxFails /\ calls \in [Calls -> CallRecs] /\ claims \in [Services -> Claims]
      /\ svcs \in [Services -> [on : BOOLEAN, ports : SUBSET Ports]]
  BY DEF CallsInv, ServicesTypeOK, CallRecs, Claims
<1>2. UNCHANGED deps /\ NewVersions
  BY SameVersions DEF DeployRefused, Configure, CreateService, Status, Unserve, Breaks
<1>3. fails' \in 0..MaxFails
  BY <1>1, ServicesAssumption DEF DeployRefused, Configure, CreateService, Status, Unserve, Breaks
<1>4. svcs' \in [Services -> [on : BOOLEAN, ports : SUBSET Ports]]
  <2>1. CASE CreateService(c)
    <3>1. [on |-> TRUE, ports |-> calls[c].ports] \in [on : BOOLEAN, ports : SUBSET Ports]
      BY <1>1 DEF CallRecs
    <3> QED BY <1>1, <2>1, <3>1 DEF CreateService
  <2>2. CASE Unserve(c)
    <3>1. svcs' = svcs \/ svcs' = [svcs EXCEPT ![calls[c].name] = NoSvc]
      BY <2>2 DEF Unserve
    <3>2. NoSvc \in [on : BOOLEAN, ports : SUBSET Ports]
      BY DEF NoSvc
    <3> QED BY <1>1, <3>1, <3>2
  <2> QED BY <1>1, <2>1, <2>2 DEF DeployRefused, Configure, Status, Breaks
<1>5. calls[c].step # "new"
  BY DEF DeployRefused, Configure, CreateService, Status, Unserve, Breaks, At
<1>6. CASE \/ Fails(c)
           \/ \E s \in {"create", "get", "serve", "status", "undeploy", "done"} : Goes(c, s)
           \/ \E kind \in {"up", "down", "scaled"} : Holds(c, kind)
  <2>1. /\ claims' \in [Services -> Claims]
        /\ calls' = [d \in Calls |-> calls'[d]]
        /\ \A d \in Calls : KeepsCopy(calls[d], calls'[d])
    BY <1>5, <1>6, GoesOn
  <2> QED BY <1>2, <1>3, <1>4, <2>1, CallsKept
<1>7. CASE Becomes(c, [calls[c] EXCEPT !.step = "undeploy", !.alone = FALSE]) /\ UNCHANGED claims
  <2>1. KeepsCopy(calls[c], [calls[c] EXCEPT !.step = "undeploy", !.alone = FALSE])
    BY <1>5, StepKeeps
  <2>2. /\ calls' = [d \in Calls |-> calls'[d]]
        /\ \A d \in Calls : KeepsCopy(calls[d], calls'[d])
    BY <1>7, <2>1, OneCall
  <2> QED BY <1>1, <1>2, <1>3, <1>4, <1>7, <2>2, CallsKept
<1>9. CASE CreateService(c)
  <2> DEFINE new == [calls[c] EXCEPT !.step = "status", !.kept = svcs[calls[c].name].on]
  <2>1. Becomes(c, new) /\ UNCHANGED claims
    BY <1>9 DEF CreateService
  <2>2. calls[c] \in CallRecs /\ calls[c].name \in Services
    BY <1>1, <1>5 DEF CallsInv, Named
  <2>3. svcs[calls[c].name].on \in BOOLEAN
    BY <1>1, <2>2
  <2>4. KeepsCopy(calls[c], new)
    BY <2>2, <2>3 DEF KeepsCopy, Named, CallRecs
  <2> HIDE DEF new
  <2>5. /\ calls' = [d \in Calls |-> calls'[d]]
        /\ \A d \in Calls : KeepsCopy(calls[d], calls'[d])
    BY <2>1, <2>4, OneCall
  <2> QED BY <1>1, <1>2, <1>3, <1>4, <2>1, <2>5, CallsKept
<1>8. \/ CreateService(c)
      \/ Fails(c)
      \/ \E s \in {"create", "get", "serve", "status", "undeploy", "done"} : Goes(c, s)
      \/ \E kind \in {"up", "down", "scaled"} : Holds(c, kind)
      \/ Becomes(c, [calls[c] EXCEPT !.step = "undeploy", !.alone = FALSE]) /\ UNCHANGED claims
  <2>1. CASE Configure(c) \/ DeployRefused(c) \/ Breaks(c)
    BY <2>1 DEF Configure, DeployRefused, Breaks
  <2>2. CASE CreateService(c)
    BY <2>2
  <2>3. CASE Status(c)
    BY <2>3 DEF Status
  <2>4. CASE Unserve(c)
    BY <2>4 DEF Unserve
  <2> QED BY <2>1, <2>2, <2>3, <2>4
<1> QED BY <1>6, <1>7, <1>8, <1>9

LEMMA WantedType ==
    ASSUME CallsInv, NEW c \in Calls, NEW rv \in Nat
    PROVE  Wanted(c, rv) \in Deployments /\ Wanted(c, rv).rv = rv
<1>1. calls[c] \in CallRecs
  BY DEF CallsInv, ServicesTypeOK, CallRecs
<1>2. LabelKey(calls[c].session) \in {<<>>} \cup ({"key"} \X Sessions)
  BY <1>1 DEF CallRecs, LabelKey
<1> QED BY <1>1, <1>2 DEF Wanted, Deployments, CallRecs

\* The steps that write a Deployment.
LEMMA WriteSteps ==
    ASSUME CallsInv, NEW c \in Calls,
           CreateDeployment(c) \/ UpdateDeployment(c) \/ ScaleDeployment(c) \/ Undeploy(c)
    PROVE  CallsInv'
<1> DEFINE n == calls[c].name
<1>1. /\ fails' \in 0..MaxFails /\ calls[c] \in CallRecs /\ deps \in [Services -> Deployments]
      /\ svcs' \in [Services -> [on : BOOLEAN, ports : SUBSET Ports]]
  BY DEF CallsInv, ServicesTypeOK, CallRecs, CreateDeployment, UpdateDeployment, ScaleDeployment, Undeploy
<1>2. calls[c].step # "new" /\ n \in Services
  BY DEF CallsInv, Named, CreateDeployment, UpdateDeployment, ScaleDeployment, Undeploy, At
<1>3. deps[n] \in Deployments /\ deps[n].rv \in Nat /\ deps[n].rv + 1 \in Nat
  BY <1>1, <1>2 DEF Deployments
<1>4. \/ UNCHANGED deps
      \/ \E D \in Deployments : /\ deps' = [deps EXCEPT ![n] = D]
                                /\ D.rv = deps[n].rv + 1 \/ (D.rv = deps[n].rv /\ ~D.on)
  <2>1. CASE CreateDeployment(c) \/ UpdateDeployment(c)
    <3>1. \/ UNCHANGED deps
          \/ deps' = [deps EXCEPT ![n] = Wanted(c, deps[n].rv + 1)]
      BY <2>1 DEF CreateDeployment, UpdateDeployment
    <3>2. /\ Wanted(c, deps[n].rv + 1) \in Deployments
          /\ Wanted(c, deps[n].rv + 1).rv = deps[n].rv + 1
      BY <1>3, WantedType
    <3> QED BY <3>1, <3>2
  <2>2. CASE ScaleDeployment(c)
    <3> DEFINE D == [calls[c].copy EXCEPT !.replicas = calls[c].replicas, !.rv = deps[n].rv + 1]
    <3>1. calls[c].copy \in Deployments /\ calls[c].replicas \in Nat
      BY <1>1 DEF CallRecs
    <3>2. D \in Deployments /\ D.rv = deps[n].rv + 1
      BY <1>3, <3>1 DEF Deployments
    <3>3. UNCHANGED deps \/ deps' = [deps EXCEPT ![n] = D]
      BY <2>2 DEF ScaleDeployment
    <3> HIDE DEF D
    <3> QED BY <3>2, <3>3
  <2>3. CASE Undeploy(c)
    <3> DEFINE D == [NoDep EXCEPT !.rv = deps[n].rv]
    <3>1. D \in Deployments /\ D.rv = deps[n].rv /\ ~D.on
      BY <1>3 DEF NoDep, Deployments
    <3> QED BY <2>3, <3>1 DEF Undeploy
  <2> QED BY <2>1, <2>2, <2>3
<1>5. NewVersions
  <2> HIDE DEF n
  <2> QED BY <1>1, <1>2, <1>4 DEF NewVersions
<1>6. \/ Fails(c)
      \/ \E s \in {"create", "get", "serve", "status", "undeploy", "done"} : Goes(c, s)
      \/ \E kind \in {"up", "down", "scaled"} : Holds(c, kind)
  BY DEF CreateDeployment, UpdateDeployment, ScaleDeployment, Undeploy
<1>7. /\ claims' \in [Services -> Claims]
      /\ calls' = [d \in Calls |-> calls'[d]]
      /\ \A d \in Calls : KeepsCopy(calls[d], calls'[d])
  BY <1>2, <1>6, GoesOn
<1> QED BY <1>1, <1>5, <1>7, CallsKept

\* The step that reads one.
LEMMA GetStep ==
    ASSUME CallsInv, NEW c \in Calls, GetDeployment(c)
    PROVE  CallsInv'
<1> DEFINE n == calls[c].name
           new == [calls[c] EXCEPT !.step = "update", !.copy = deps[n]]
<1>1. /\ fails' \in 0..MaxFails /\ calls \in [Calls -> CallRecs] /\ deps \in [Services -> Deployments]
      /\ svcs' \in [Services -> [on : BOOLEAN, ports : SUBSET Ports]]
      /\ claims \in [Services -> Claims]
  BY DEF CallsInv, ServicesTypeOK, CallRecs, GetDeployment, Claims
<1>2. calls[c].step # "new" /\ n \in Services /\ UNCHANGED deps /\ NewVersions
  BY SameVersions DEF CallsInv, Named, GetDeployment, At
<1>3. CASE Fails(c)
  <2>1. /\ claims' \in [Services -> Claims]
        /\ calls' = [d \in Calls |-> calls'[d]]
        /\ \A d \in Calls : KeepsCopy(calls[d], calls'[d])
    BY <1>2, <1>3, GoesOn
  <2> QED BY <1>1, <1>2, <2>1, CallsKept
<1>4. CASE Becomes(c, new) /\ UNCHANGED claims
  <2>1. new \in CallRecs /\ new.name = n /\ new.copy = deps[n]
    BY <1>1, <1>2 DEF CallRecs
  <2>2. calls'[c] = new /\ \A d \in Calls \ {c} : calls'[d] = calls[d]
    BY <1>1, <1>4 DEF Becomes
  <2>3. calls' \in [Calls -> CallRecs]
    BY <1>1, <1>4, <2>1 DEF Becomes
  <2>4. Named(new) /\ Fresh(new, deps)
    <3>1. deps[n].rv \in Nat
      BY <1>1, <1>2 DEF Deployments
    <3> HIDE DEF new
    <3> QED BY <1>2, <2>1, <3>1 DEF Named, Fresh
  <2>5. \A d \in Calls : Named(calls'[d]) /\ Fresh(calls'[d], deps')
    BY <1>2, <2>2, <2>4 DEF CallsInv
  <2>6. ServicesTypeOK'
    BY <1>1, <1>2, <1>4, <2>3 DEF ServicesTypeOK, CallRecs, Claims
  <2> QED BY <2>5, <2>6 DEF CallsInv
<1> QED BY <1>3, <1>4 DEF GetDeployment

LEMMA CrashKeeps == CallsInv /\ Crash => CallsInv'
<1> SUFFICES ASSUME CallsInv, Crash PROVE CallsInv'
  OBVIOUS
<1>1. calls \in [Calls -> CallRecs] /\ NewVersions
  BY SameVersions DEF Crash, CallsInv, ServicesTypeOK, CallRecs
<1>2. ASSUME NEW d \in Calls PROVE KeepsCopy(calls[d], calls'[d])
  <2>1. CASE calls[d].step = "new"
    BY <2>1, KeepsItself DEF Crash
  <2>2. CASE calls[d].step # "new"
    <3>1. calls'[d] = [calls[d] EXCEPT !.step = "done"]
      BY <2>2 DEF Crash
    <3> QED BY <2>2, <3>1, StepKeeps
  <2> QED BY <2>1, <2>2
<1>3. calls' = [d \in Calls |-> calls'[d]]
  BY DEF Crash
<1>4. /\ svcs' \in [Services -> [on : BOOLEAN, ports : SUBSET Ports]]
      /\ fails' \in 0..MaxFails /\ claims' \in [Services -> Claims]
  <2>1. fails > 0 /\ fails' = fails - 1 /\ UNCHANGED <<svcs, claims>>
    BY DEF Crash
  <2>2. MaxFails \in Nat
    BY ServicesAssumption
  <2> QED BY <2>1, <2>2 DEF CallsInv, ServicesTypeOK, Claims
<1> QED BY <1>1, <1>2, <1>3, <1>4, CallsKept

\* What a job leaves alone: it touches services only through the failures it
\* uses up.
LEMMA JobFrame ==
    ASSUME JobNext
    PROVE  /\ UNCHANGED <<deps, svcs, calls, claims>>
           /\ fails' = fails \/ (fails > 0 /\ fails' = fails - 1)
           /\ restarts' = restarts \/ (restarts > 0 /\ restarts' = restarts - 1)
<1>1. PICK j \in Jobs :
        \/ \E kind \in Kinds : \/ StartWithoutTree(j, kind)
                              \/ \E n \in 0..MaxCommands, tree \in Sources(kind) : StartJob(j, kind, n, tree)
        \/ CreatePod(j) \/ PodStatus(j) \/ PodReady(j) \/ SyncTree(j) \/ Execute(j) \/ CommandDone(j)
        \/ AllDone(j) \/ JobBreaks(j) \/ DeletePod(j) \/ DeletePodFails(j) \/ Restart(j)
  BY DEF JobNext
<1>2. CASE \E kind \in Kinds : \/ StartWithoutTree(j, kind)
                                \/ \E n \in 0..MaxCommands, tree \in Sources(kind) : StartJob(j, kind, n, tree)
  BY <1>2 DEF StartWithoutTree, StartJob, UnchangedServices
<1>3. CASE CreatePod(j) \/ PodStatus(j) \/ PodReady(j) \/ SyncTree(j) \/ Execute(j) \/ AllDone(j) \/ DeletePod(j)
  BY <1>3 DEF CreatePod, PodStatus, PodReady, SyncTree, Execute, AllDone, DeletePod, UnchangedServices
<1>4. CASE CommandDone(j)
  BY <1>4 DEF CommandDone, UnchangedServices
<1>5. CASE JobBreaks(j) \/ DeletePodFails(j)
  BY <1>5 DEF JobBreaks, DeletePodFails, UnchangedServices
<1>6. CASE Restart(j)
  BY <1>6 DEF Restart, UnchangedServices
<1> QED BY <1>1, <1>2, <1>3, <1>4, <1>5, <1>6

LEMMA JobsLeaveCalls == CallsInv /\ JobNext => CallsInv' /\ UNCHANGED <<deps, calls>>
<1> SUFFICES ASSUME CallsInv, JobNext PROVE CallsInv' /\ UNCHANGED <<deps, calls>>
  OBVIOUS
<1>1. UNCHANGED <<deps, svcs, calls, claims>> /\ (fails' = fails \/ (fails > 0 /\ fails' = fails - 1))
  BY JobFrame
<1>2. fails \in 0..MaxFails /\ MaxFails \in Nat
  BY ServicesAssumption DEF CallsInv, ServicesTypeOK
<1>3. fails' \in 0..MaxFails
  BY <1>1, <1>2
<1> QED BY <1>1, <1>3 DEF CallsInv, ServicesTypeOK

LEMMA CallsStep == CallsInv /\ [Next]_clusterVars => CallsInv'
<1> SUFFICES ASSUME CallsInv, [Next]_clusterVars PROVE CallsInv'
  OBVIOUS
<1>1. CASE UNCHANGED clusterVars
  BY <1>1 DEF clusterVars, serviceVars, CallsInv, ServicesTypeOK
<1>2. CASE JobNext
  BY <1>2, JobsLeaveCalls
<1>3. CASE Crash
  BY <1>3, CrashKeeps
<1>4. CASE ServiceNext
  <2>1. PICK c \in Calls :
          \/ \E n \in Services :
               \/ \E s \in Sessions : DeployTool(c, n, s) \/ DeployBlind(c, n, s)
               \/ \E p \in Ports, reps \in {0} \cup Scales : Launch(c, n, {p}, reps)
               \/ \E reps \in Scales : Scale(c, n, reps)
               \/ Delete(c, n)
          \/ DeployRefused(c) \/ Configure(c) \/ CreateDeployment(c) \/ GetDeployment(c)
          \/ UpdateDeployment(c) \/ CreateService(c) \/ Status(c) \/ ScaleDeployment(c)
          \/ Unserve(c) \/ Undeploy(c) \/ Breaks(c)
    BY <1>4 DEF ServiceNext
  <2> QED BY <2>1, BeginSteps, QuietSteps, WriteSteps, GetStep
<1> QED BY <1>1, <1>2, <1>3, <1>4 DEF Next

LEMMA CallsInit == Init => CallsInv
<1> SUFFICES ASSUME Init PROVE CallsInv
  OBVIOUS
<1>1. NoDep \in Deployments /\ NoClaim \in Claims /\ NoSvc \in [on : BOOLEAN, ports : SUBSET Ports]
  BY DEF NoDep, Deployments, NoClaim, Claims, NoSvc
<1>2. ServicesTypeOK
  BY <1>1, NewCallType, ServicesAssumption DEF Init, ServiceInit, ServicesTypeOK, CallRecs, Claims
<1>3. \A c \in Calls : Named(calls[c]) /\ Fresh(calls[c], deps)
  BY DEF Init, ServiceInit, NewCall, Named, Fresh
<1> QED BY <1>2, <1>3 DEF CallsInv

LEMMA CallsAlways == Spec => []CallsInv
BY CallsInit, CallsStep, PTL DEF Spec

\* Whether a call of the API server's client fails, the server crashes or a
\* worker restarts: types (service.go, job.go).
THEOREM TypeCorrect == Spec => []TypeOK
<1>1. Init => restarts \in 0..MaxRestarts
  BY ClusterAssumption DEF Init
<1>2. restarts \in 0..MaxRestarts /\ [Next]_clusterVars => (restarts \in 0..MaxRestarts)'
  <2>1. [Next]_clusterVars => restarts' = restarts \/ (restarts > 0 /\ restarts' = restarts - 1)
    BY JobFrame DEF Next, Crash, clusterVars
  <2> QED BY <2>1, ClusterAssumption
<1>3. CallsInv /\ JobsInv /\ restarts \in 0..MaxRestarts => TypeOK
  BY DEF CallsInv, JobsInv, TypeOK, JobRecs, PodRecs, Steps, Trees
<1> QED BY <1>1, <1>2, <1>3, CallsAlways, JobsAlways, PTL DEF Spec

\* While call c of a scale is at "update", only c, or a crash, moves it on.
LEMMA ScaleMoves ==
    ASSUME CallsInv, [Next]_clusterVars, NEW c \in Calls,
           calls[c].op = "scale", calls[c].step = "update", calls'[c].step # "update"
    PROVE  UNCHANGED deps \/ ScaleDeployment(c)
<1>1. calls \in [Calls -> CallRecs]
  BY DEF CallsInv, ServicesTypeOK, CallRecs
<1>2. CASE UNCHANGED calls
  BY <1>2
<1>3. CASE JobNext
  BY <1>3, JobsLeaveCalls
<1>4. CASE Crash
  BY <1>4 DEF Crash
<1>5. CASE ServiceNext
  <2>1. PICK d \in Calls :
          \/ \E n \in Services :
               \/ \E s \in Sessions : DeployTool(d, n, s) \/ DeployBlind(d, n, s)
               \/ \E p \in Ports, reps \in {0} \cup Scales : Launch(d, n, {p}, reps)
               \/ \E reps \in Scales : Scale(d, n, reps)
               \/ Delete(d, n)
          \/ DeployRefused(d) \/ Configure(d) \/ CreateDeployment(d) \/ GetDeployment(d)
          \/ UpdateDeployment(d) \/ CreateService(d) \/ Status(d) \/ ScaleDeployment(d)
          \/ Unserve(d) \/ Undeploy(d) \/ Breaks(d)
    BY <1>5 DEF ServiceNext
  <2>2. CASE \E n \in Services :
               \/ \E s \in Sessions : DeployTool(d, n, s) \/ DeployBlind(d, n, s)
               \/ \E p \in Ports, reps \in {0} \cup Scales : Launch(d, n, {p}, reps)
               \/ \E reps \in Scales : Scale(d, n, reps)
               \/ Delete(d, n)
    BY <2>2 DEF DeployTool, DeployBlind, Launch, Scale, Delete
  <2>3. CASE DeployRefused(d) \/ Configure(d) \/ GetDeployment(d) \/ CreateService(d) \/ Status(d)
             \/ Unserve(d) \/ Breaks(d)
    BY <2>3 DEF DeployRefused, Configure, GetDeployment, CreateService, Status, Unserve, Breaks
  <2>4. CASE CreateDeployment(d) \/ UpdateDeployment(d) \/ Undeploy(d)
    <3>1. c # d
      BY <2>4 DEF CreateDeployment, UpdateDeployment, Undeploy, At
    <3>2. \E new : Becomes(d, new)
      BY <2>4 DEF CreateDeployment, UpdateDeployment, Undeploy, Goes, Fails, Holds
    <3> QED BY <1>1, <3>1, <3>2 DEF Becomes
  <2>5. CASE ScaleDeployment(d)
    <3>1. CASE c # d
      <4>1. \E new : Becomes(d, new)
        BY <2>5 DEF ScaleDeployment, Goes, Fails
      <4> QED BY <1>1, <3>1, <4>1 DEF Becomes
    <3> QED BY <2>5, <3>1
  <2> QED BY <2>1, <2>2, <2>3, <2>4, <2>5
<1> QED BY <1>2, <1>3, <1>4, <1>5 DEF Next, clusterVars, serviceVars

(* The version check of the API server is what a scale needs: whatever was  *)
(* launched, deleted or scaled between its Get and its Update, it changes   *)
(* the replicas only (ScaleService of service.go).                          *)
THEOREM ScalesOnlyReplicas == Spec => ScaleKeepsLaunch
<1>1. ASSUME CallsInv, [Next]_clusterVars
      PROVE  [\A n \in Services, c \in Calls :
                calls[c].op = "scale" /\ calls[c].name = n /\ calls[c].step = "update"
                  /\ calls'[c].step # "update" => Launched(deps[n])' = Launched(deps[n])]_serviceVars
  <2> SUFFICES ASSUME NEW n \in Services, NEW c \in Calls,
                      calls[c].op = "scale", calls[c].name = n, calls[c].step = "update",
                      calls'[c].step # "update"
               PROVE  Launched(deps'[n]) = Launched(deps[n])
    BY DEF Launched
  <2>1. CASE UNCHANGED deps
    BY <2>1
  <2>2. CASE ScaleDeployment(c)
    <3>1. /\ deps \in [Services -> Deployments] /\ deps[n] \in Deployments
          /\ calls[c].copy \in Deployments
      BY <1>1 DEF CallsInv, ServicesTypeOK
    <3>2. CASE UNCHANGED deps
      BY <3>2
    <3>3. CASE Current(n, calls[c].copy.rv)
      <4>1. calls[c].copy = deps[n]
        BY <1>1, <3>3 DEF Current, CallsInv, Fresh
      <4>2. deps' = [deps EXCEPT ![n] = [deps[n] EXCEPT !.replicas = calls[c].replicas,
                                                        !.rv = deps[n].rv + 1]]
        BY <2>2, <3>3, <4>1 DEF ScaleDeployment
      <4>3. deps'[n] = [deps[n] EXCEPT !.replicas = calls[c].replicas, !.rv = deps[n].rv + 1]
        BY <3>1, <4>2
      <4> QED BY <3>1, <4>3 DEF Launched, Deployments
    <3> QED BY <2>2, <3>2, <3>3 DEF ScaleDeployment
  <2> QED BY <1>1, <2>1, <2>2, ScaleMoves
<1> QED BY <1>1, CallsAlways, PTL DEF Spec, ScaleKeepsLaunch

-----------------------------------------------------------------------------
(* What a call that is alone on its service knows, and promises.            *)

Runs(c) == calls[c].step \notin {"new", "done"}

\* Service n leads to the ports of call c, or was kept by it.
Leads(n, c) == svcs[n].on /\ (svcs[n].ports = calls[c].ports \/ calls[c].kept)

\* How far a call has come, as long as nobody else touches its service.
Progress(c) == LET n == calls[c].name IN
    /\ calls[c].op \in {"deploy", "launch"} /\ calls[c].step \in {"serve", "status"} =>
         deps[n] = Wanted(c, deps[n].rv)
    /\ calls[c].op \in {"deploy", "launch"} /\ calls[c].step = "status" => Leads(n, c)
    /\ calls[c].op = "scale" /\ calls[c].step = "status" =>
         deps[n].on /\ deps[n].replicas = calls[c].replicas
    /\ calls[c].op = "delete" /\ calls[c].step = "undeploy" => svcs[n] = NoSvc

\* What the end of call c promised of service n.
Kept(n, kind, c) ==
    /\ kind = "up"     => deps[n] = Wanted(c, deps[n].rv) /\ Leads(n, c)
    /\ kind = "scaled" => deps[n].on /\ deps[n].replicas = calls[c].replicas
    /\ kind = "down"   => ~deps[n].on /\ svcs[n] = NoSvc

\* A call not yet made has no service; an alone call runs alone; a promise
\* stands while no call runs on its service.
Unmade(c)  == calls[c].step = "new" => calls[c].name = <<>>
Alone(c)   == Runs(c) /\ calls[c].alone => Running(calls[c].name) = {c} /\ Progress(c)
Promise(n) == claims[n].kind # "none" =>
    /\ claims[n].by \in Calls /\ calls[claims[n].by].step = "done"
    /\ Running(n) = {}
    /\ Kept(n, claims[n].kind, claims[n].by)

PromiseInv == /\ CallsInv
              /\ \A c \in Calls : Unmade(c) /\ Alone(c)
              /\ \A n \in Services : Promise(n)

LEMMA PromiseTypes ==
    ASSUME PromiseInv
    PROVE  /\ calls \in [Calls -> CallRecs] /\ deps \in [Services -> Deployments]
           /\ svcs \in [Services -> [on : BOOLEAN, ports : SUBSET Ports]]
           /\ claims \in [Services -> Claims] /\ <<>> \notin Services
           /\ \A c \in Calls : Runs(c) => calls[c].name \in Services
BY ServicesAssumption DEF PromiseInv, CallsInv, ServicesTypeOK, CallRecs, Claims, Named, Runs

LEMMA ProgressKept ==
    ASSUME NEW c \in Calls, calls'[c] = calls[c], Progress(c),
           deps'[calls[c].name] = deps[calls[c].name], svcs'[calls[c].name] = svcs[calls[c].name]
    PROVE  Progress(c)'
BY DEF Progress, Wanted, Leads

\* A call takes a step on its service n: it leaves the other services and
\* calls as they are, and if it is alone it shows its progress, or keeps what
\* it promises.
LEMMA OwnStep ==
    ASSUME PromiseInv, CallsInv', NEW c \in Calls, NEW n \in Services, Runs(c), n = calls[c].name,
           NEW new, Becomes(c, new), new.name = n, new.step # "new", new.alone => calls[c].alone,
           \A m \in Services \ {n} : deps'[m] = deps[m] /\ svcs'[m] = svcs[m],
           new.step # "done" /\ new.alone => Progress(c)',
           \/ UNCHANGED claims
           \/ \E kind : /\ claims' = [claims EXCEPT ![n] = [kind |-> kind, by |-> c]]
                        /\ new.step = "done" /\ calls[c].alone /\ Kept(n, kind, c)'
    PROVE  PromiseInv'
<1> USE PromiseTypes
<1>1. calls'[c] = new /\ \A d \in Calls \ {c} : calls'[d] = calls[d]
  BY DEF Becomes
<1>2. c \in Running(n) /\ \A m \in Services \ {n} : c \notin Running(m)
  BY DEF Running, Runs
<1>3. /\ \A m \in Services \ {n} : Running(m)' = Running(m)
      /\ Running(n)' = IF new.step = "done" THEN Running(n) \ {c} ELSE Running(n)
  BY <1>1, <1>2 DEF Running
<1>4. ASSUME NEW d \in Calls PROVE Unmade(d)'
  BY <1>1 DEF PromiseInv, Unmade
<1>5. ASSUME NEW d \in Calls PROVE Alone(d)'
  <2>1. CASE d = c
    BY <1>1, <1>3, <2>1 DEF PromiseInv, Alone, Runs
  <2>2. CASE d # c
    <3> SUFFICES ASSUME Runs(d), calls[d].alone
                 PROVE  Running(calls[d].name)' = {d} /\ Progress(d)'
      BY <1>1, <2>2 DEF Alone, Runs
    <3> DEFINE m == calls[d].name
    <3>1. Running(m) = {d} /\ Progress(d) /\ m \in Services
      BY DEF PromiseInv, Alone
    <3>2. m # n
      BY <1>2, <2>2, <3>1
    <3>3. Running(m)' = {d} /\ deps'[m] = deps[m] /\ svcs'[m] = svcs[m] /\ calls'[d] = calls[d]
      BY <1>1, <1>3, <2>2, <3>1, <3>2
    <3> QED BY <3>1, <3>3, ProgressKept
  <2> QED BY <2>1, <2>2
<1>6. ASSUME NEW m \in Services PROVE Promise(m)'
  <2>1. CASE m # n
    <3> SUFFICES ASSUME claims[m].kind # "none" PROVE Promise(m)'
      BY <2>1 DEF Promise
    <3> DEFINE d == claims[m].by
    <3>1. /\ d \in Calls /\ calls[d].step = "done" /\ Running(m) = {} /\ Kept(m, claims[m].kind, d)
      BY DEF PromiseInv, Promise
    <3>2. d # c /\ claims'[m] = claims[m]
      BY <2>1, <3>1 DEF Runs
    <3>3. /\ calls'[d] = calls[d] /\ Running(m)' = {}
          /\ deps'[m] = deps[m] /\ svcs'[m] = svcs[m]
      BY <1>1, <1>3, <2>1, <3>1, <3>2
    <3> QED BY <3>1, <3>2, <3>3 DEF Promise, Kept, Wanted, Leads
  <2>2. CASE m = n /\ UNCHANGED claims
    BY <1>2, <2>2 DEF PromiseInv, Promise
  <2>3. ASSUME NEW kind, claims' = [claims EXCEPT ![n] = [kind |-> kind, by |-> c]],
               new.step = "done", calls[c].alone, Kept(n, kind, c)', m = n
        PROVE  Promise(m)'
    <3>1. claims'[n].kind = kind /\ claims'[n].by = c
      BY <2>3
    <3>2. Running(n)' = {}
      BY <1>3, <2>3 DEF PromiseInv, Alone
    <3> QED BY <1>1, <2>3, <3>1, <3>2 DEF Promise
  <2> QED BY <2>1, <2>2, <2>3
<1> QED BY <1>4, <1>5, <1>6 DEF PromiseInv

\* A call begins: whatever was promised of its service is promised no more.
LEMMA BeginsAlone ==
    ASSUME PromiseInv, CallsInv', NEW c \in Calls, NEW n \in Services, NEW call \in CallRecs,
           call.step \in {"refused", "config", "get", "unserve"}, Begins(c, n, call), UNCHANGED <<deps, svcs>>
    PROVE  PromiseInv'
<1> USE PromiseTypes
<1>1. /\ calls'[c] = [call EXCEPT !.name = n, !.alone = Running(n) = {}]
      /\ \A d \in Calls \ {c} : calls'[d] = IF d \in Running(n) THEN [calls[d] EXCEPT !.alone = FALSE]
                                            ELSE calls[d]
  BY DEF Begins
<1>2. calls'[c].name = n /\ calls'[c].step = call.step /\ calls'[c].alone = (Running(n) = {})
  BY <1>1 DEF CallRecs
<1>3. ASSUME NEW d \in Calls, d # c
      PROVE  /\ calls'[d].name = calls[d].name /\ calls'[d].step = calls[d].step
             /\ d \notin Running(n) => calls'[d] = calls[d]
             /\ d \in Running(n) => ~calls'[d].alone
  <2>1. calls[d] \in CallRecs
    OBVIOUS
  <2>2. CASE d \in Running(n)
    <3>1. calls'[d] = [calls[d] EXCEPT !.alone = FALSE]
      BY <1>1, <1>3, <2>2
    <3> QED BY <2>1, <2>2, <3>1 DEF CallRecs
  <2>3. CASE d \notin Running(n)
    BY <1>1, <1>3, <2>3
  <2> QED BY <2>2, <2>3
<1>4. calls[c].step = "new" /\ \A m \in Services : c \notin Running(m)
  BY DEF Begins, PromiseInv, Unmade, Running
<1>5. /\ Running(n)' = Running(n) \cup {c}
      /\ \A m \in Services \ {n} : Running(m)' = Running(m)
  BY <1>2, <1>3, <1>4 DEF Running
<1>6. ASSUME NEW d \in Calls PROVE Unmade(d)'
  BY <1>2, <1>3 DEF PromiseInv, Unmade
<1>7. ASSUME NEW d \in Calls PROVE Alone(d)'
  <2>1. CASE d = c
    BY <1>2, <1>5, <2>1 DEF Alone, Progress
  <2>2. CASE d # c
    <3> DEFINE m == calls[d].name
    <3>1. CASE d \in Running(n) \/ ~Runs(d) \/ ~calls[d].alone
      BY <1>3, <2>2, <3>1 DEF Alone, Runs
    <3>2. CASE d \notin Running(n) /\ Runs(d) /\ calls[d].alone
      <4>1. Running(m) = {d} /\ Progress(d) /\ m \in Services /\ calls'[d] = calls[d]
        BY <1>3, <2>2, <3>2 DEF PromiseInv, Alone
      <4>2. m # n
        BY <3>2, <4>1
      <4>3. Running(m)' = {d} /\ Progress(d)'
        BY <1>5, <4>1, <4>2, ProgressKept
      <4> QED BY <4>1, <4>3 DEF Alone
    <3> QED BY <3>1, <3>2
  <2> QED BY <2>1, <2>2
<1>8. ASSUME NEW m \in Services PROVE Promise(m)'
  <2>1. CASE m = n
    BY <2>1 DEF Begins, Promise, NoClaim
  <2>2. CASE m # n
    <3> SUFFICES ASSUME claims[m].kind # "none" PROVE Promise(m)'
      BY <2>2 DEF Promise, Begins
    <3> DEFINE d == claims[m].by
    <3>1. /\ d \in Calls /\ calls[d].step = "done" /\ Running(m) = {} /\ Kept(m, claims[m].kind, d)
      BY DEF PromiseInv, Promise
    <3>2. d # c /\ d \notin Running(n) /\ claims'[m] = claims[m]
      BY <1>4, <2>2, <3>1 DEF Running, Begins
    <3>3. calls'[d] = calls[d] /\ Running(m)' = {}
      BY <1>3, <1>5, <2>2, <3>1, <3>2
    <3> QED BY <3>1, <3>2, <3>3 DEF Promise, Kept, Wanted, Leads
  <2> QED BY <2>1, <2>2
<1> QED BY <1>6, <1>7, <1>8 DEF PromiseInv

LEMMA BeginPromises ==
    ASSUME PromiseInv, CallsInv', NEW c \in Calls, NEW n \in Services,
           \/ \E s \in Sessions : DeployTool(c, n, s) \/ DeployBlind(c, n, s)
           \/ \E p \in Ports, reps \in {0} \cup Scales : Launch(c, n, {p}, reps)
           \/ \E reps \in Scales : Scale(c, n, reps)
           \/ Delete(c, n)
    PROVE  PromiseInv'
<1> USE ServicesAssumption, NewCallType
<1>1. ASSUME NEW s \in Sessions, NEW step \in {"refused", "config"},
             Begins(c, n, [NewCall EXCEPT !.op = "deploy", !.session = s, !.ports = {ToolPort}, !.replicas = 1,
                                          !.step = step]),
             UNCHANGED <<deps, svcs>>
      PROVE  PromiseInv'
  <2> DEFINE call == [NewCall EXCEPT !.op = "deploy", !.session = s, !.ports = {ToolPort}, !.replicas = 1,
                                     !.step = step]
  <2>1. call.op \in Ops
    BY <1>1 DEF Begins
  <2>2. call \in CallRecs /\ call.step \in {"refused", "config"}
    BY <2>1 DEF CallRecs
  <2> QED BY <1>1, <2>2, BeginsAlone
<1>2. ASSUME NEW s \in Sessions, DeployTool(c, n, s) PROVE PromiseInv'
  <2>1. (IF Refused(n, s) THEN "refused" ELSE "config") \in {"refused", "config"}
    OBVIOUS
  <2> QED BY <1>1, <1>2, <2>1 DEF DeployTool
<1>3. ASSUME NEW s \in Sessions, DeployBlind(c, n, s) PROVE PromiseInv'
  <2>1. Begins(c, n, [NewCall EXCEPT !.op = "deploy", !.session = s, !.ports = {ToolPort}, !.replicas = 1,
                                     !.step = "config"])
    BY <1>3 DEF DeployBlind
  <2>2. UNCHANGED <<deps, svcs>>
    BY <1>3 DEF DeployBlind
  <2> QED BY <1>1, <2>1, <2>2
<1>4. ASSUME NEW p \in Ports, NEW reps \in {0} \cup Scales, Launch(c, n, {p}, reps) PROVE PromiseInv'
  <2> DEFINE r == IF reps = 0 THEN 1 ELSE reps
             call == [NewCall EXCEPT !.op = "launch", !.ports = {p}, !.step = "config", !.replicas = r]
  <2>1. r \in Nat
    OBVIOUS
  <2> HIDE DEF r
  <2>2. Begins(c, n, call) /\ UNCHANGED <<deps, svcs>>
    BY <1>4 DEF Launch, r
  <2>3. call.op \in Ops
    BY <2>2 DEF Begins
  <2>4. call \in CallRecs /\ call.step = "config"
    BY <2>1, <2>3 DEF CallRecs
  <2> QED BY <2>2, <2>4, BeginsAlone
<1>5. ASSUME NEW reps \in Scales, Scale(c, n, reps) PROVE PromiseInv'
  <2> DEFINE call == [NewCall EXCEPT !.op = "scale", !.step = "get", !.replicas = reps]
  <2>1. Begins(c, n, call) /\ UNCHANGED <<deps, svcs>>
    BY <1>5 DEF Scale
  <2>2. call.op \in Ops
    BY <2>1 DEF Begins
  <2>3. call \in CallRecs /\ call.step = "get"
    BY <2>2 DEF CallRecs
  <2> QED BY <2>1, <2>3, BeginsAlone
<1>6. CASE Delete(c, n)
  <2> DEFINE call == [NewCall EXCEPT !.op = "delete", !.step = "unserve"]
  <2>1. Begins(c, n, call) /\ UNCHANGED <<deps, svcs>>
    BY <1>6 DEF Delete
  <2>2. call.op \in Ops
    BY <2>1 DEF Begins
  <2>3. call \in CallRecs /\ call.step = "unserve"
    BY <2>2 DEF CallRecs
  <2> QED BY <2>1, <2>3, BeginsAlone
<1> QED BY <1>2, <1>3, <1>4, <1>5, <1>6

\* A call goes on to step s, or ends without a promise; it need show only
\* what it has come to.
LEMMA StepPromises ==
    ASSUME PromiseInv, CallsInv', NEW c \in Calls, NEW n \in Services, Runs(c), n = calls[c].name,
           NEW s \in {"create", "get", "serve", "status", "undeploy", "done"},
           Becomes(c, [calls[c] EXCEPT !.step = s]), UNCHANGED claims,
           \A m \in Services \ {n} : deps'[m] = deps[m] /\ svcs'[m] = svcs[m],
           s # "done" /\ calls[c].alone => Progress(c)'
    PROVE  PromiseInv'
<1> DEFINE new == [calls[c] EXCEPT !.step = s]
<1>1. new.name = n /\ new.step = s /\ new.alone = calls[c].alone
  BY PromiseTypes DEF CallRecs
<1> HIDE DEF new
<1> QED BY <1>1, OwnStep DEF new

LEMMA EndPromises ==
    ASSUME PromiseInv, CallsInv', NEW c \in Calls, NEW n \in Services, Runs(c), n = calls[c].name,
           NEW kind, Holds(c, kind), \A m \in Services \ {n} : deps'[m] = deps[m] /\ svcs'[m] = svcs[m],
           calls[c].alone => Kept(n, kind, c)'
    PROVE  PromiseInv'
<1> DEFINE new == [calls[c] EXCEPT !.step = "done"]
<1>1. new.name = n /\ new.step = "done" /\ new.alone = calls[c].alone
  BY PromiseTypes DEF CallRecs
<1>2. Becomes(c, new)
  BY DEF Holds
<1> HIDE DEF new
<1> QED BY <1>1, <1>2, OwnStep DEF Holds

\* What a step leaves of a call.
LEMMA SameCall ==
    ASSUME PromiseInv, NEW c \in Calls, NEW s \in {"create", "get", "update", "serve", "status", "undeploy", "done"},
           Becomes(c, [calls[c] EXCEPT !.step = s])
    PROVE  /\ calls'[c].step = s /\ calls'[c].op = calls[c].op /\ calls'[c].name = calls[c].name
           /\ calls'[c].replicas = calls[c].replicas
           /\ calls'[c].ports = calls[c].ports /\ calls'[c].kept = calls[c].kept
           /\ \A rv : Wanted(c, rv)' = Wanted(c, rv)
<1>1. calls[c] \in CallRecs /\ calls'[c] = [calls[c] EXCEPT !.step = s]
  BY PromiseTypes DEF Becomes
<1>2. /\ calls'[c].step = s /\ calls'[c].op = calls[c].op /\ calls'[c].name = calls[c].name
      /\ calls'[c].ports = calls[c].ports /\ calls'[c].replicas = calls[c].replicas
      /\ calls'[c].session = calls[c].session /\ calls'[c].kept = calls[c].kept
  BY <1>1 DEF CallRecs
<1> QED BY <1>2 DEF Wanted

\* The steps of a launch that write.
LEMMA LaunchPromises ==
    ASSUME PromiseInv, CallsInv', NEW c \in Calls,
           CreateDeployment(c) \/ UpdateDeployment(c) \/ CreateService(c)
    PROVE  PromiseInv'
<1> PICK n \in Services : n = calls[c].name
  BY PromiseTypes DEF CreateDeployment, UpdateDeployment, CreateService, At, Runs
<1>1. /\ calls[c].op \in {"deploy", "launch"} /\ calls[c].step \in {"create", "update", "serve"}
      /\ Runs(c) /\ n \in Services /\ calls[c] \in CallRecs
      /\ deps \in [Services -> Deployments] /\ svcs \in [Services -> [on : BOOLEAN, ports : SUBSET Ports]]
  BY PromiseTypes DEF CreateDeployment, UpdateDeployment, CreateService, At, Runs
<1>2. CASE Fails(c) /\ UNCHANGED <<deps, svcs>>
  BY <1>1, <1>2, StepPromises DEF Fails
<1>3. CASE CreateDeployment(c) /\ Goes(c, "get") /\ UNCHANGED <<deps, svcs>>
  <2>1. Progress(c)'
    BY <1>1, <1>3, SameCall DEF Goes, Progress
  <2> QED BY <1>1, <1>3, <2>1, StepPromises DEF Goes
<1>4. CASE Goes(c, "serve") /\ UNCHANGED svcs /\ deps' = [deps EXCEPT ![n] = Wanted(c, deps[n].rv + 1)]
  <2> PICK rv : rv = deps[n].rv + 1
    OBVIOUS
  <2>1. deps'[n] = Wanted(c, rv) /\ deps'[n].rv = rv
    BY <1>1, <1>4 DEF Wanted
  <2>2. Progress(c)'
    <3>1. /\ calls'[c].step = "serve" /\ calls'[c].op = calls[c].op /\ calls'[c].name = n
          /\ Wanted(c, rv)' = Wanted(c, rv)
      BY <1>4, SameCall DEF Goes
    <3> QED BY <1>1, <2>1, <3>1 DEF Progress
  <2>3. \A m \in Services \ {n} : deps'[m] = deps[m] /\ svcs'[m] = svcs[m]
    BY <1>1, <1>4
  <2> QED BY <1>1, <1>4, <2>2, <2>3, StepPromises DEF Goes
<1>5. CASE CreateService(c)
  <2> DEFINE new == [calls[c] EXCEPT !.step = "status", !.kept = svcs[n].on]
  <2>1. Becomes(c, new) /\ UNCHANGED <<claims, deps>>
    BY <1>5 DEF CreateService
  <2>4. /\ new.name = n /\ new.step = "status" /\ new.alone = calls[c].alone /\ new.kept = svcs[n].on
        /\ new.op = calls[c].op /\ new.ports = calls[c].ports /\ new.replicas = calls[c].replicas
        /\ new.session = calls[c].session
    BY <1>1 DEF CallRecs
  <2>5. calls'[c] = new
    BY <2>1, PromiseTypes DEF Becomes
  <2> HIDE DEF new
  <2>2. Leads(n, c)' /\ \A m \in Services \ {n} : svcs'[m] = svcs[m]
    <3>1. CASE ServesAfresh(c)
      <4>1. svcs' = [svcs EXCEPT ![n] = [on |-> TRUE, ports |-> calls[c].ports]]
        BY <1>5, <3>1 DEF CreateService
      <4> QED BY <1>1, <2>4, <2>5, <4>1 DEF Leads
    <3>2. CASE ~ServesAfresh(c)
      BY <1>1, <1>5, <2>4, <2>5, <3>2 DEF CreateService, ServesAfresh, Leads
    <3> QED BY <3>1, <3>2
  <2>3. calls[c].alone => Progress(c)'
    <3> SUFFICES ASSUME calls[c].alone PROVE Progress(c)'
      OBVIOUS
    <3> PICK rv : rv = deps[n].rv
      OBVIOUS
    <3>1. deps[n] = Wanted(c, rv)
      BY <1>1, <1>5 DEF PromiseInv, Alone, Progress, CreateService, At
    <3>2. /\ calls'[c].step = "status" /\ calls'[c].op = calls[c].op /\ calls'[c].name = n
          /\ Wanted(c, rv)' = Wanted(c, rv)
      BY <2>4, <2>5 DEF Wanted
    <3> QED BY <1>1, <2>1, <2>2, <3>1, <3>2 DEF Progress
  <2> QED BY <1>1, <2>1, <2>2, <2>3, <2>4, OwnStep
<1>6. CASE CreateDeployment(c)
  BY <1>3, <1>4, <1>6 DEF CreateDeployment
<1>7. CASE UpdateDeployment(c)
  BY <1>2, <1>4, <1>7 DEF UpdateDeployment
<1> QED BY <1>5, <1>6, <1>7

\* The status, which ends a launch or a scale.
LEMMA StatusPromises ==
    ASSUME PromiseInv, CallsInv', NEW c \in Calls, Status(c)
    PROVE  PromiseInv'
<1> PICK n \in Services : n = calls[c].name
  BY PromiseTypes DEF Status, At, Runs
<1> PICK kind : kind = IF calls[c].op = "scale" THEN "scaled" ELSE "up"
  OBVIOUS
<1>1. /\ calls[c].op \in {"deploy", "launch", "scale"} /\ calls[c].step = "status"
      /\ Runs(c) /\ n \in Services /\ UNCHANGED <<deps, svcs>>
  BY PromiseTypes DEF Status, At, Runs
<1>2. CASE Fails(c)
  BY <1>1, <1>2, StepPromises DEF Fails
<1>3. CASE Holds(c, kind)
  <2>1. ASSUME calls[c].alone PROVE Kept(n, kind, c)'
    <3> PICK rv : rv = deps[n].rv
      OBVIOUS
    <3>1. Progress(c)
      BY <1>1, <2>1 DEF PromiseInv, Alone
    <3>2. /\ calls'[c].replicas = calls[c].replicas
          /\ calls'[c].ports = calls[c].ports /\ calls'[c].kept = calls[c].kept
          /\ Wanted(c, rv)' = Wanted(c, rv)
      BY <1>3, SameCall DEF Holds
    <3>3. CASE calls[c].op = "scale"
      BY <1>1, <3>1, <3>2, <3>3 DEF Progress, Kept
    <3>4. CASE calls[c].op # "scale"
      BY <1>1, <3>1, <3>2, <3>4 DEF Progress, Kept, Leads
    <3> QED BY <3>3, <3>4
  <2> QED BY <1>1, <1>3, <2>1, EndPromises
<1> QED BY <1>2, <1>3 DEF Status

\* The read of a launch and of a scale, and the write of a scale.
LEMMA ScalePromises ==
    ASSUME PromiseInv, CallsInv', NEW c \in Calls, GetDeployment(c) \/ ScaleDeployment(c)
    PROVE  PromiseInv'
<1> PICK n \in Services : n = calls[c].name
  BY PromiseTypes DEF GetDeployment, ScaleDeployment, At, Runs
<1>1. /\ calls[c].step \in {"get", "update"} /\ Runs(c) /\ n \in Services /\ calls[c] \in CallRecs
      /\ UNCHANGED svcs /\ deps \in [Services -> Deployments]
  BY PromiseTypes DEF GetDeployment, ScaleDeployment, At, Runs
<1>2. CASE Fails(c) /\ UNCHANGED deps
  BY <1>1, <1>2, StepPromises DEF Fails
<1>3. CASE Becomes(c, [calls[c] EXCEPT !.step = "update", !.copy = deps[n]]) /\ UNCHANGED <<claims, deps>>
  <2> DEFINE new == [calls[c] EXCEPT !.step = "update", !.copy = deps[n]]
  <2>1. new.name = n /\ new.step = "update" /\ new.alone = calls[c].alone
    BY <1>1 DEF CallRecs
  <2>2. calls'[c] = new
    BY <1>3, PromiseTypes DEF Becomes
  <2>3. Progress(c)'
    BY <2>1, <2>2 DEF Progress
  <2> HIDE DEF new
  <2> QED BY <1>1, <1>3, <2>1, <2>3, OwnStep DEF new
<1>4. CASE ScaleDeployment(c) /\ Current(n, calls[c].copy.rv)
  <2> DEFINE D == [calls[c].copy EXCEPT !.replicas = calls[c].replicas, !.rv = deps[n].rv + 1]
  <2>1. deps' = [deps EXCEPT ![n] = D] /\ Goes(c, "status") /\ calls[c].op = "scale"
    BY <1>4 DEF ScaleDeployment, At
  <2>2. calls[c].copy = deps[n] /\ deps[n].on
    BY <1>4 DEF PromiseInv, CallsInv, Fresh, Current, ScaleDeployment, At
  <2>3. deps'[n].on /\ deps'[n].replicas = calls[c].replicas
    <3>1. calls[c].copy \in Deployments /\ deps'[n] = D
      BY <1>1, <2>1 DEF CallRecs
    <3> QED BY <2>2, <3>1 DEF Deployments
  <2>4. Progress(c)'
    <3>1. /\ calls'[c].step = "status" /\ calls'[c].op = "scale" /\ calls'[c].name = n
          /\ calls'[c].replicas = calls[c].replicas
      BY <2>1, SameCall DEF Goes
    <3> QED BY <2>3, <3>1 DEF Progress
  <2>5. \A m \in Services \ {n} : deps'[m] = deps[m] /\ svcs'[m] = svcs[m]
    BY <1>1, <2>1
  <2> QED BY <1>1, <2>1, <2>4, <2>5, StepPromises DEF Goes
<1> QED BY <1>2, <1>3, <1>4 DEF GetDeployment, ScaleDeployment

\* The two requests of a deletion.
LEMMA DeletePromises ==
    ASSUME PromiseInv, CallsInv', NEW c \in Calls, Unserve(c) \/ Undeploy(c)
    PROVE  PromiseInv'
<1> PICK n \in Services : n = calls[c].name
  BY PromiseTypes DEF Unserve, Undeploy, At, Runs
<1>1. /\ calls[c].op = "delete" /\ calls[c].step \in {"unserve", "undeploy"} /\ Runs(c)
      /\ n \in Services /\ calls[c] \in CallRecs
      /\ deps \in [Services -> Deployments] /\ svcs \in [Services -> [on : BOOLEAN, ports : SUBSET Ports]]
  BY PromiseTypes DEF Unserve, Undeploy, At, Runs
<1>2. CASE svcs' = [svcs EXCEPT ![n] = NoSvc] /\ Goes(c, "undeploy") /\ UNCHANGED deps
  <2>1. Progress(c)'
    <3>1. calls'[c].step = "undeploy" /\ calls'[c].op = "delete" /\ calls'[c].name = n
      BY <1>1, <1>2, SameCall DEF Goes
    <3>2. svcs'[n] = NoSvc
      BY <1>1, <1>2
    <3> QED BY <3>1, <3>2 DEF Progress
  <2>2. \A m \in Services \ {n} : deps'[m] = deps[m] /\ svcs'[m] = svcs[m]
    BY <1>1, <1>2
  <2> QED BY <1>1, <1>2, <2>1, <2>2, StepPromises DEF Goes
<1>3. CASE /\ Becomes(c, [calls[c] EXCEPT !.step = "undeploy", !.alone = FALSE])
           /\ UNCHANGED <<claims, deps, svcs>>
  <2> DEFINE new == [calls[c] EXCEPT !.step = "undeploy", !.alone = FALSE]
  <2>1. new.name = n /\ new.step = "undeploy" /\ ~new.alone
    BY <1>1 DEF CallRecs
  <2> HIDE DEF new
  <2> QED BY <1>1, <1>3, <2>1, OwnStep DEF new
<1>4. CASE Undeploy(c)
  <2>1. deps' = [deps EXCEPT ![n] = [NoDep EXCEPT !.rv = deps[n].rv]] /\ Holds(c, "down") /\ UNCHANGED svcs
    BY <1>4 DEF Undeploy
  <2>2. ~deps'[n].on /\ \A m \in Services \ {n} : deps'[m] = deps[m] /\ svcs'[m] = svcs[m]
    BY <1>1, <2>1 DEF NoDep
  <2>3. calls[c].alone => Kept(n, "down", c)'
    <3> SUFFICES ASSUME calls[c].alone PROVE Kept(n, "down", c)'
      OBVIOUS
    <3>1. svcs[n] = NoSvc
      BY <1>1, <1>4 DEF PromiseInv, Alone, Progress, Undeploy, At
    <3> QED BY <2>1, <2>2, <3>1 DEF Kept
  <2> QED BY <1>1, <2>1, <2>2, <2>3, EndPromises
<1> QED BY <1>2, <1>3, <1>4 DEF Unserve

\* The steps that only pass on, or fail.
LEMMA QuietPromises ==
    ASSUME PromiseInv, CallsInv', NEW c \in Calls, DeployRefused(c) \/ Configure(c) \/ Breaks(c)
    PROVE  PromiseInv'
<1> PICK n \in Services : n = calls[c].name
  BY PromiseTypes DEF DeployRefused, Configure, Breaks, At, Runs
<1>1. Runs(c) /\ UNCHANGED <<deps, svcs, claims>>
  BY DEF DeployRefused, Configure, Breaks, At, Runs, Fails, Goes
<1>2. CASE Fails(c)
  BY <1>1, <1>2, StepPromises DEF Fails
<1>3. CASE Goes(c, "create")
  <2>1. Progress(c)'
    BY <1>3, SameCall DEF Goes, Progress
  <2> QED BY <1>1, <1>3, <2>1, StepPromises DEF Goes
<1> QED BY <1>2, <1>3 DEF DeployRefused, Configure, Breaks

\* A crash ends every call, and makes no promise.
LEMMA CrashPromises == PromiseInv /\ CallsInv' /\ Crash => PromiseInv'
<1> SUFFICES ASSUME PromiseInv, CallsInv', Crash PROVE PromiseInv'
  OBVIOUS
<1>1. UNCHANGED <<deps, svcs, claims>>
  BY DEF Crash
<1>2. ASSUME NEW c \in Calls
      PROVE  /\ calls'[c].name = calls[c].name
             /\ calls[c].step = "done" => calls'[c] = calls[c]
             /\ calls'[c].step = IF calls[c].step = "new" THEN "new" ELSE "done"
  <2>1. calls'[c] = IF calls[c].step = "new" THEN calls[c] ELSE [calls[c] EXCEPT !.step = "done"]
    BY DEF Crash
  <2>2. calls[c] \in CallRecs
    BY PromiseTypes
  <2> QED BY <2>1, <2>2 DEF CallRecs
<1>3. ASSUME NEW c \in Calls PROVE Unmade(c)' /\ Alone(c)'
  BY <1>2 DEF PromiseInv, Unmade, Alone, Runs
<1>4. ASSUME NEW n \in Services PROVE Running(n)' = {}
  BY <1>2, PromiseTypes DEF PromiseInv, Unmade, Running
<1>5. ASSUME NEW n \in Services PROVE Promise(n)'
  <2> SUFFICES ASSUME claims[n].kind # "none" PROVE Promise(n)'
    BY <1>1 DEF Promise
  <2> DEFINE d == claims[n].by
  <2>1. d \in Calls /\ calls[d].step = "done" /\ Kept(n, claims[n].kind, d)
    BY DEF PromiseInv, Promise
  <2>2. calls'[d] = calls[d]
    BY <1>2, <2>1
  <2> QED BY <1>1, <1>4, <2>1, <2>2 DEF Promise, Kept, Wanted, Leads
<1> QED BY <1>3, <1>5 DEF PromiseInv

LEMMA NothingPromised == PromiseInv /\ CallsInv' /\ UNCHANGED <<deps, svcs, calls, claims>> => PromiseInv'
BY DEF PromiseInv, Unmade, Alone, Promise, Runs, Running, Progress, Kept, Wanted, Leads

LEMMA PromiseStep == PromiseInv /\ [Next]_clusterVars => PromiseInv'
<1> SUFFICES ASSUME PromiseInv, [Next]_clusterVars PROVE PromiseInv'
  OBVIOUS
<1>1. CallsInv'
  BY CallsStep DEF PromiseInv
<1>2. CASE UNCHANGED clusterVars
  BY <1>1, <1>2, NothingPromised DEF clusterVars, serviceVars
<1>3. CASE JobNext
  BY <1>1, <1>3, JobFrame, NothingPromised
<1>4. CASE Crash
  BY <1>1, <1>4, CrashPromises
<1>5. CASE ServiceNext
  <2>1. PICK c \in Calls :
          \/ \E n \in Services :
               \/ \E s \in Sessions : DeployTool(c, n, s) \/ DeployBlind(c, n, s)
               \/ \E p \in Ports, reps \in {0} \cup Scales : Launch(c, n, {p}, reps)
               \/ \E reps \in Scales : Scale(c, n, reps)
               \/ Delete(c, n)
          \/ DeployRefused(c) \/ Configure(c) \/ CreateDeployment(c) \/ GetDeployment(c)
          \/ UpdateDeployment(c) \/ CreateService(c) \/ Status(c) \/ ScaleDeployment(c)
          \/ Unserve(c) \/ Undeploy(c) \/ Breaks(c)
    BY <1>5 DEF ServiceNext
  <2> QED BY <1>1, <2>1, BeginPromises, LaunchPromises, StatusPromises, ScalePromises, DeletePromises,
             QuietPromises
<1> QED BY <1>2, <1>3, <1>4, <1>5 DEF Next

LEMMA PromiseInit == Init => PromiseInv
<1> SUFFICES ASSUME Init PROVE PromiseInv
  OBVIOUS
<1>1. \A c \in Calls : calls[c] = NewCall
  BY DEF Init, ServiceInit
<1>2. \A n \in Services : claims[n] = NoClaim
  BY DEF Init, ServiceInit
<1> QED BY <1>1, <1>2, CallsInit DEF PromiseInv, Unmade, Alone, Runs, Promise, NewCall, NoClaim

\* The label of a service tells its session from every other.
LEMMA ListedToItsSession ==
    ASSUME PromiseInv, NEW n \in Services, NEW c \in Calls, deps[n] = Wanted(c, deps[n].rv)
    PROVE  \A s \in Sessions : (\E st \in Listed(s) : st.name = n) <=> s = calls[c].session
<1> USE ServicesAssumption
<1> TAKE s \in Sessions
<1> DEFINE t == calls[c].session
<1>1. deps[n].on /\ deps[n].session = LabelKey(t) /\ t \in Sessions \cup {<<>>}
  BY PromiseTypes DEF Wanted, CallRecs
<1>2. (\E st \in Listed(s) : st.name = n) <=> Carries(ToStatus(n, 0), s)
  BY <1>1 DEF Listed, Present, Deployed, ToStatus
<1>3. Carries(ToStatus(n, 0), s) <=> LabelKey(t) # <<>> /\ LabelKey(t) \in {s, LabelKey(s)}
  BY <1>1 DEF Carries, ToStatus
<1>4. CASE t = <<>>
  BY <1>2, <1>3, <1>4 DEF LabelKey
<1>5. CASE t # <<>>
  <2>1. LabelKey(t) = <<"key", t>> /\ LabelKey(s) = <<"key", s>> /\ LabelKey(t) # s
    BY <1>1, <1>5 DEF LabelKey
  <2>2. <<"key", t>> # <<>> /\ (<<"key", t>> = <<"key", s>> <=> t = s)
    OBVIOUS
  <2> QED BY <1>2, <1>3, <2>1, <2>2
<1> QED BY <1>4, <1>5

(* A launch, a scale or a deletion that met no other call on its service    *)
(* and answered OK has done what it says: only a Service the launch found   *)
(* may lead to other ports.  And service-list shows what was deployed to    *)
(* the session that deployed it and to no other; whatever failed before,    *)
(* and whatever else goes on (service.go, deploy_tools.go).                 *)
THEOREM AnswersAreTrue == Spec => []AnswersHold
<1>1. PromiseInv => AnswersHold
  <2> SUFFICES ASSUME PromiseInv, NEW n \in Services
               PROVE  LET c == claims[n].by IN
                        /\ claims[n].kind = "up" =>
                             /\ deps[n] = Wanted(c, deps[n].rv) /\ svcs[n].on
                             /\ svcs[n].ports = calls[c].ports \/ calls[c].kept
                             /\ \A s \in Sessions : (\E st \in Listed(s) : st.name = n) <=> s = calls[c].session
                        /\ claims[n].kind = "scaled" => deps[n].on /\ deps[n].replicas = calls[c].replicas
                        /\ claims[n].kind = "down" => ~deps[n].on /\ svcs[n] = NoSvc
    BY DEF AnswersHold
  <2> DEFINE c == claims[n].by
  <2>1. claims[n].kind # "none" => c \in Calls /\ Kept(n, claims[n].kind, c)
    BY DEF PromiseInv, Promise
  <2>2. claims[n].kind = "up" =>
          \A s \in Sessions : (\E st \in Listed(s) : st.name = n) <=> s = calls[c].session
    BY <2>1, ListedToItsSession DEF Kept
  <2> HIDE DEF c
  <2> QED BY <2>1, <2>2 DEF Kept, Leads, c
<1> QED BY <1>1, PromiseInit, PromiseStep, PTL DEF Spec
=============================================================================
