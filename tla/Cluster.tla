------------------------------- MODULE Cluster -------------------------------
(***************************************************************************)
(* The server against its Kubernetes namespace: the calls on services and, *)
(* beside them, the jobs of CI runs and image builds, each in a pod of its *)
(* own (internal/ci/backend_k8s.go, internal/k8s/job.go, build.go).  Calls *)
(* and jobs share the API server's failures and the server's crashes: pods,*)
(* Deployments and Services outlive both.                                  *)
(***************************************************************************)
EXTENDS Services

CONSTANTS
    Jobs,         \* the jobs of this instance; each runs once
    MaxCommands,  \* bound: commands of a job
    MaxRestarts,  \* bound: restarts of workers
    MaxBegun      \* bound: calls and jobs that begin

ASSUME ClusterAssumption == MaxCommands \in Nat /\ MaxRestarts \in Nat

VARIABLES
    jobs,      \* what each job does: the goroutine in backend_k8s.go, Run
    pods,      \* the pod of each job; its name holds the job and the time
    restarts   \* restarts of workers left

clusterVars == <<serviceVars, jobs, pods, restarts>>

NewJob == [kind |-> "none", step |-> "new", commands |-> 0, ran |-> 0, branch |-> FALSE, tree |-> "none",
           answer |-> "none", seen |-> {}, excused |-> FALSE]
NoPod  == [on |-> FALSE, tree |-> "none"]
Kinds  == {"steps", "image", "publish"}
Trees  == {"none", "full", "empty", "given"}

UnchangedServices == UNCHANGED <<deps, svcs, calls, claims>>
JobAt(j, steps)   == jobs[j].step \in steps
JobGoes(j, step)  == jobs' = [jobs EXCEPT ![j].step = step]
Begun == Cardinality({c \in Calls : calls[c].step # "new"}) + Cardinality({j \in Jobs : jobs[j].step # "new"})

-----------------------------------------------------------------------------
\* What the workspace of a job is to hold: the tree of its branch; or, if it
\* names no repository, nothing that is synced (of steps) or an empty
\* directory (of the other two); or the directory its produce.context names.
Sources(kind) == IF kind = "steps" THEN {"full", "none"} ELSE {"full", "empty", "given"}

\* Run: a job without steps is answered at once.  A job of steps exports the
\* tree of its branch or fails; prepareContext of the other two ignores an
\* export that fails, and builds with what is there.
StartJob(j, kind, n, tree) ==
    /\ JobAt(j, {"new"})
    /\ IF kind = "steps" /\ n = 0
       THEN jobs' = [jobs EXCEPT ![j] = [NewJob EXCEPT !.kind = kind, !.step = "done", !.answer = "ok"]]
       ELSE jobs' = [jobs EXCEPT ![j] = [NewJob EXCEPT !.kind = kind, !.step = "launch", !.tree = tree,
                                                       !.branch = (tree = "full"),
                                                       !.commands = IF kind = "steps" THEN n ELSE 1]]
    /\ UnchangedServices /\ UNCHANGED <<fails, pods, restarts>>

StartWithoutTree(j, kind) ==
    /\ JobAt(j, {"new"})
    /\ fails > 0 /\ fails' = fails - 1
    /\ jobs' = [jobs EXCEPT ![j] = IF kind = "steps"
                  THEN [NewJob EXCEPT !.kind = kind, !.step = "done", !.answer = "failed"]
                  ELSE [NewJob EXCEPT !.kind = kind, !.step = "launch", !.tree = "empty", !.branch = TRUE,
                                      !.commands = 1]]
    /\ UnchangedServices /\ UNCHANGED <<pods, restarts>>

\* LaunchSandbox: the pod, and then its status.
CreatePod(j) ==
    /\ JobAt(j, {"launch"})
    /\ pods' = [pods EXCEPT ![j] = [NoPod EXCEPT !.on = TRUE]]
    /\ JobGoes(j, "status")
    /\ UnchangedServices /\ UNCHANGED <<fails, restarts>>

PodStatus(j) ==
    /\ JobAt(j, {"status"})
    /\ JobGoes(j, "wait")
    /\ UnchangedServices /\ UNCHANGED <<fails, pods, restarts>>

\* waitPodIP: the worker answers in time.  Without a tree nothing is synced.
PodReady(j) ==
    /\ JobAt(j, {"wait"})
    /\ JobGoes(j, IF jobs[j].tree = "none" THEN "run" ELSE "sync")
    /\ UnchangedServices /\ UNCHANGED <<fails, pods, restarts>>

\* syncFolder with Clean.
SyncTree(j) ==
    /\ JobAt(j, {"sync"})
    /\ pods' = [pods EXCEPT ![j].tree = jobs[j].tree]
    /\ JobGoes(j, "run")
    /\ UnchangedServices /\ UNCHANGED <<fails, restarts>>

\* run: Execute, then WatchJob until Done brings the exit code.
Execute(j) ==
    /\ JobAt(j, {"run"}) /\ jobs[j].ran < jobs[j].commands
    /\ JobGoes(j, "watch")
    /\ UnchangedServices /\ UNCHANGED <<fails, pods, restarts>>

\* Its tree goes into seen, the history of where the commands have run.
Ended(j) == [jobs[j] EXCEPT !.step = "run", !.ran = @ + 1, !.seen = @ \cup {pods[j].tree}]

\* publish builds the Dockerfile of the tree: without one it fails.
Succeeds(j) == jobs[j].kind = "publish" => pods[j].tree \in {"full", "given"}
CommandDone(j) ==
    /\ JobAt(j, {"watch"})
    /\ \/ Succeeds(j) /\ jobs' = [jobs EXCEPT ![j] = Ended(j)]
       \/ jobs' = [jobs EXCEPT ![j].step = "clean", ![j].answer = "failed"]
    /\ UnchangedServices /\ UNCHANGED <<fails, pods, restarts>>

AllDone(j) ==
    /\ JobAt(j, {"run"}) /\ jobs[j].ran = jobs[j].commands
    /\ jobs' = [jobs EXCEPT ![j].step = "clean", ![j].answer = "ok"]
    /\ UnchangedServices /\ UNCHANGED <<fails, pods, restarts>>

\* Where an error leads: RunJob defers DeleteSandbox after LaunchSandbox.
DeferredLate(step) == IF step \in {"run", "watch"} THEN "clean" ELSE "done"
Deferred(step)     == IF step \in {"wait", "sync", "run", "watch"} THEN "clean" ELSE "done"

\* A request fails, the worker does not answer in time, or the timeout of
\* the job has passed.
JobBreaks(j) ==
    /\ fails > 0 /\ fails' = fails - 1
    /\ JobAt(j, {"launch", "status", "wait", "sync", "run", "watch"})
    /\ jobs' = [jobs EXCEPT ![j].step = Deferred(@), ![j].answer = "failed",
                            ![j].excused = JobAt(j, {"status"})]
    /\ UnchangedServices /\ UNCHANGED <<pods, restarts>>

\* DeleteSandbox; its error is dropped.
DeletePod(j) ==
    /\ JobAt(j, {"clean"})
    /\ pods' = [pods EXCEPT ![j] = NoPod]
    /\ JobGoes(j, "done")
    /\ UnchangedServices /\ UNCHANGED <<fails, restarts>>

DeletePodFails(j) ==
    /\ JobAt(j, {"clean"})
    /\ fails > 0 /\ fails' = fails - 1
    /\ jobs' = [jobs EXCEPT ![j].step = "done", ![j].excused = TRUE]
    /\ UnchangedServices /\ UNCHANGED <<pods, restarts>>

\* The worker's container restarts (restartPolicy Always): its workspace is
\* empty, and the stream of a running command ends without Done.
StreamDone(j)  == Ended(j)
StreamError(j) == [jobs[j] EXCEPT !.step = "clean", !.answer = "failed"]
Restart(j) ==
    /\ restarts > 0 /\ restarts' = restarts - 1
    /\ pods[j].on
    /\ pods' = [pods EXCEPT ![j].tree = "none"]
    /\ jobs' = IF JobAt(j, {"watch"}) THEN [jobs EXCEPT ![j] = StreamError(j)]
               ELSE IF JobAt(j, {"run"}) THEN [jobs EXCEPT ![j].excused = TRUE]
               ELSE jobs
    /\ UnchangedServices /\ UNCHANGED fails

\* The server stops: every call and every job ends where it is.
Crash ==
    /\ fails > 0 /\ fails' = fails - 1
    /\ calls' = [c \in Calls |-> IF calls[c].step = "new" THEN calls[c] ELSE [calls[c] EXCEPT !.step = "done"]]
    /\ jobs' = [j \in Jobs |-> IF JobAt(j, {"new", "done"}) THEN jobs[j]
                               ELSE [jobs[j] EXCEPT !.step = "done", !.answer = "none", !.excused = TRUE]]
    /\ UNCHANGED <<deps, svcs, claims, pods, restarts>>

-----------------------------------------------------------------------------
Init ==
    /\ ServiceInit
    /\ jobs = [j \in Jobs |-> NewJob]
    /\ pods = [j \in Jobs |-> NoPod]
    /\ restarts = MaxRestarts

JobNext ==
    \E j \in Jobs :
      \/ \E kind \in Kinds : \/ StartWithoutTree(j, kind)
                              \/ \E n \in 0..MaxCommands, tree \in Sources(kind) : StartJob(j, kind, n, tree)
      \/ CreatePod(j) \/ PodStatus(j) \/ PodReady(j) \/ SyncTree(j) \/ Execute(j) \/ CommandDone(j)
      \/ AllDone(j) \/ JobBreaks(j) \/ DeletePod(j) \/ DeletePodFails(j) \/ Restart(j)

Next == /\ (ServiceNext /\ UNCHANGED <<jobs, pods, restarts>>) \/ JobNext \/ Crash
        /\ Begun' <= MaxBegun

Spec == Init /\ [][Next]_clusterVars

-----------------------------------------------------------------------------
TypeOK ==
    /\ ServicesTypeOK
    /\ jobs \in [Jobs -> [kind : Kinds \cup {"none"},
                          step : {"new", "launch", "status", "wait", "sync", "run", "watch", "clean", "done"},
                          commands : 0..(MaxCommands + 1), ran : 0..(MaxCommands + 1),
                          branch : BOOLEAN, tree : Trees, answer : {"none", "ok", "failed"},
                          seen : SUBSET Trees, excused : BOOLEAN]]
    /\ pods \in [Jobs -> [on : BOOLEAN, tree : Trees]]
    /\ restarts \in 0..MaxRestarts

\* A job that is over has no pod: however it failed, and whatever its worker
\* did; unless the server crashed, or the request for the new pod's status or
\* the one that deletes the pod failed.  (RunJob, DeleteSandbox)
PodsEnd == \A j \in Jobs : JobAt(j, {"done"}) /\ pods[j].on => jobs[j].excused

\* A job that succeeded has run all its commands, each to its end, and, unless
\* the worker restarted between two commands, in the workspace it was to have:
\* those of a job of steps, or of a publication, that is to work on the tree
\* of its branch, in that tree.  (RunJob, prepareContext)
OkMeansRan ==
    \A j \in Jobs : jobs[j].answer = "ok" =>
      /\ jobs[j].ran = jobs[j].commands
      /\ ~jobs[j].excused => jobs[j].seen \subseteq {IF jobs[j].branch /\ jobs[j].kind # "image" THEN "full"
                                                     ELSE jobs[j].tree}

\* job.go: RunJob "executes every command, and always cleans up the pod".
RunJobCleansUp == \A j \in Jobs : JobAt(j, {"done"}) /\ jobs[j].answer # "none" => ~pods[j].on
=============================================================================
