------------------------------- MODULE Sandbox -------------------------------
(***************************************************************************)
(* One managed sandbox (cmd/easylab/connsandbox.go, sandboxsync.go): its   *)
(* registry row, its pod and Service in Kubernetes, and the LaunchSandbox, *)
(* SyncWorkspace and DeleteSandbox calls that work on them, each a request *)
(* goroutine of its own.  Every registry statement, Kubernetes request and *)
(* worker RPC is one action, so calls interleave between them.             *)
(*                                                                         *)
(* The worker in the pod, its restarts and the kubelet are external: a     *)
(* pod that is deleted stays for a while on its way out.  A tree is the    *)
(* content of the sandbox's branch, identified by its hash: a later commit *)
(* may bring an old tree back.                                             *)
(***************************************************************************)
EXTENDS Integers, FiniteSets

CONSTANTS
    Calls,        \* the calls that are made
    Trees,        \* contents of the branch
    Exclusive,    \* kinds of call that users do not make at the same time
    MaxCommits,   \* bound: commits to the branch
    MaxRestarts,  \* bound: worker restarts
    MaxFails,     \* bound: requests that fail
    Nothing       \* no call, no tree

Ops == {"launch", "sync", "delete"}

ASSUME SandboxAssumption ==
    /\ Trees # {} /\ Nothing \notin Trees \cup Calls
    /\ Exclusive \subseteq Ops
    /\ {MaxCommits, MaxRestarts, MaxFails} \subseteq Nat

VARIABLES
    head,      \* the tree of the branch
    pod,       \* the pod: its WORKER_TOKEN, the worker's boot id, its workspace,
               \* and whether it is being deleted
    service,   \* the ClusterIP Service exists
    row,       \* the registry row (sbxreg.Sandbox)
    call,      \* where each call is, and its locals
    latest,    \* history: the launch or delete call that began last
    overlap,   \* history: two calls have synced at the same time
    dropped,   \* history: the calls of which a failed deletion was dropped
    boots,     \* boot ids given out; 0 is ""
    left       \* what is left of each bound

vars == <<head, pod, service, row, call, latest, overlap, dropped, boots, left>>

Bound == [commits |-> MaxCommits, restarts |-> MaxRestarts, fails |-> MaxFails]
PC    == {"new", "evict", "pod", "service", "status", "wait", "upsert", "export",
          "boot", "check", "push", "mark", "stop", "drop", "ok", "failed", "absent"}

\* A token is named after the launch call that minted it.
NoPod == [token |-> Nothing, boot |-> 0, tree |-> Nothing, dying |-> FALSE]
NoRow == [token |-> Nothing, rev |-> Nothing, boot |-> 0]
Up         == pod # NoPod
Registered == row # NoRow

TypeOK ==
    /\ head \in Trees
    /\ pod \in [token : Calls \cup {Nothing}, boot : 0..boots, tree : Trees \cup {Nothing},
               dying : BOOLEAN]
    /\ Up => pod.token \in Calls /\ pod.boot > 0
    /\ service \in BOOLEAN
    /\ row \in [token : Calls \cup {Nothing}, rev : Trees \cup {Nothing}, boot : 0..boots]
    /\ Registered => row.token \in Calls
    /\ call \in [Calls -> [pc : PC, op : Ops, tree : Trees \cup {Nothing}, boot : 0..boots]]
    /\ latest \in Calls \cup {Nothing}
    /\ overlap \in BOOLEAN
    /\ dropped \subseteq Calls
    /\ boots \in Nat
    /\ left \in [DOMAIN Bound -> Nat] /\ \A k \in DOMAIN Bound : left[k] <= Bound[k]

Init ==
    /\ head \in Trees
    /\ pod = NoPod
    /\ service = FALSE
    /\ row = NoRow
    /\ call = [c \in Calls |-> [pc |-> "new", op |-> "sync", tree |-> Nothing, boot |-> 0]]
    /\ latest = Nothing
    /\ overlap = FALSE
    /\ dropped = {}
    /\ boots = 0
    /\ left = Bound

Spend(k)    == left[k] > 0 /\ left' = [left EXCEPT ![k] = @ - 1]
At(c, pc)   == call[c].pc = pc
Goto(c, pc) == call' = [call EXCEPT ![c].pc = pc]
\* An answered call keeps no locals.
Ends(c, pc) == call' = [call EXCEPT ![c] = [pc |-> pc, op |-> call[c].op, tree |-> Nothing, boot |-> 0]]
Ended(c)    == call[c].pc \in {"ok", "failed", "absent"}
Open(c)     == call[c].pc # "new" /\ ~Ended(c)
Syncing(c)  == call[c].pc \in {"boot", "check", "push", "mark"}

-----------------------------------------------------------------------------
(* Requests come in.                                                        *)

Allowed(op) == op \in Exclusive => \A d \in Calls : Open(d) => call[d].op \notin Exclusive

\* requireSandboxAccess: only a launch needs no row.  A call that is "absent"
\* has failed with an error that says "not found".
Begin(c, op) ==
    /\ At(c, "new")
    /\ Allowed(op)
    /\ call' = [call EXCEPT ![c].op = op,
                            ![c].pc = CASE op = "launch" -> "evict"
                                        [] op # "launch" /\ ~Registered -> "absent"
                                        [] op = "sync" /\ Registered   -> "export"
                                        [] op = "delete" /\ Registered -> "stop"]
    /\ latest' = IF op = "sync" THEN latest ELSE c
    /\ UNCHANGED <<head, pod, service, row, overlap, dropped, boots, left>>

-----------------------------------------------------------------------------
(* LaunchSandbox (and k8s.LaunchSandbox), with a token minted by the call.  *)

\* Service and pod are deleted; the error of the first is dropped.
Leaving     == IF Up THEN [pod EXCEPT !.dying = TRUE] ELSE pod
Teardown(c) ==
    /\ pod' = Leaving
    /\ \/ service' = FALSE /\ UNCHANGED <<dropped, left>>
       \/ service /\ UNCHANGED service /\ dropped' = dropped \cup {c} /\ Spend("fails")

\* deleteSandboxWait goes on when the pod is gone, or after 30 seconds.
Evict(c) ==
    /\ At(c, "evict")
    /\ Teardown(c)
    /\ Goto(c, "pod")
    /\ UNCHANGED <<head, row, latest, overlap, boots>>

\* The API server refuses a second pod of the name: the launch fails.
CreatePod(c) ==
    /\ At(c, "pod")
    /\ \/ /\ ~Up
          /\ boots' = boots + 1
          /\ pod' = [token |-> c, boot |-> boots', tree |-> Nothing, dying |-> FALSE]
          /\ Goto(c, "service")
       \/ Up /\ Goto(c, "failed") /\ UNCHANGED <<pod, boots>>
    /\ UNCHANGED <<head, service, row, latest, overlap, dropped, left>>

CreateService(c) ==
    /\ At(c, "service")
    /\ service' = TRUE
    /\ Goto(c, IF service THEN "failed" ELSE "status")
    /\ UNCHANGED <<head, pod, row, latest, overlap, dropped, boots, left>>

Status(c) ==
    /\ At(c, "status")
    /\ Goto(c, IF Up THEN "wait" ELSE "failed")
    /\ UNCHANGED <<head, pod, service, row, latest, overlap, dropped, boots, left>>

\* WaitSandboxReady asks for any pod and Service of the name.
Ready(c) ==
    /\ At(c, "wait") /\ Up /\ service
    /\ Goto(c, "upsert")
    /\ UNCHANGED <<head, pod, service, row, latest, overlap, dropped, boots, left>>

\* After the deadline the launch deletes the sandbox; both errors are dropped.
NotReady(c) ==
    /\ At(c, "wait")
    /\ IF Up /\ service THEN Spend("fails") ELSE UNCHANGED left
    /\ pod' \in {pod, Leaving}
    /\ service' \in {service, FALSE}
    /\ Goto(c, "failed")
    /\ UNCHANGED <<head, row, latest, overlap, dropped, boots>>

\* An update keeps the sync metadata, and the old token only if it has none.
KeptToken(c)     == IF Registered THEN row.token ELSE c
UpsertedToken(c) == c
Upsert(c) ==
    /\ At(c, "upsert")
    /\ row' = [row EXCEPT !.token = UpsertedToken(c)]
    /\ Goto(c, "export")
    /\ UNCHANGED <<head, pod, service, latest, overlap, dropped, boots, left>>

-----------------------------------------------------------------------------
(* syncSandboxWorkspace, the rest of a launch and all of SyncWorkspace.     *)

\* exportWorkspace of a repository that is gone: its error says "not found".
Missing(c) ==
    /\ At(c, "export")
    /\ Spend("fails")
    /\ Ends(c, "absent")
    /\ UNCHANGED <<head, pod, service, row, latest, overlap, dropped, boots>>

Export(c) ==
    /\ At(c, "export")
    /\ call' = [call EXCEPT ![c].tree = head, ![c].pc = "boot"]
    /\ overlap' = (overlap \/ \E d \in Calls : Syncing(d))
    /\ UNCHANGED <<head, pod, service, row, latest, dropped, boots, left>>

\* The worker answers a caller that knows its token; one in a pod on its way
\* out may not.
Reachable == Up /\ service /\ row.token = pod.token
Silent    == ~Reachable \/ pod.dying

\* workerBootID
ReadBoot(c) ==
    /\ At(c, "boot")
    /\ call' = [call EXCEPT ![c].boot = IF Reachable THEN pod.boot ELSE 0,
                            ![c].pc = "check"]
    /\ UNCHANGED <<head, pod, service, row, latest, overlap, dropped, boots, left>>

\* A worker that takes more than 3 seconds, or whose answer is an error, has
\* no boot id.
MissBoot(c) ==
    /\ At(c, "boot") /\ Reachable
    /\ IF Silent THEN UNCHANGED left ELSE Spend("fails")
    /\ call' = [call EXCEPT ![c].boot = 0, ![c].pc = "check"]
    /\ UNCHANGED <<head, pod, service, row, latest, overlap, dropped, boots>>

\* What ListSandboxes has of the sandbox: its row, the phase of its pod, and
\* the boot id of a worker that answers.
RowInfo     == [rev |-> row.rev, syncedBoot |-> row.boot, phase |-> "", boot |-> 0]
SandboxInfo == [RowInfo EXCEPT !.phase = IF Up THEN "Running" ELSE "stopped",
                               !.boot  = IF Reachable THEN pod.boot ELSE 0]
Shown       == IF Registered THEN {SandboxInfo} ELSE {}

NeverSynced(c)   == ~At(c, "check")
SameRev(c)       == row.rev = call[c].tree
AlreadySynced(c) == row.rev = call[c].tree /\ row.boot # 0 /\ row.boot = call[c].boot
Skip(c) ==
    /\ At(c, "check") /\ AlreadySynced(c)
    /\ Ends(c, "ok")
    /\ UNCHANGED <<head, pod, service, row, latest, overlap, dropped, boots, left>>

DoSync(c) ==
    /\ At(c, "check") /\ ~AlreadySynced(c)
    /\ Goto(c, "push")
    /\ UNCHANGED <<head, pod, service, row, latest, overlap, dropped, boots, left>>

\* The registry cannot be read: the row counts for nothing.
MissRow(c) ==
    /\ At(c, "check") /\ AlreadySynced(c)
    /\ Spend("fails")
    /\ Goto(c, "push")
    /\ UNCHANGED <<head, pod, service, row, latest, overlap, dropped, boots>>

\* SyncFolder replaces the workspace.
Push(c) ==
    /\ At(c, "push")
    /\ \/ Reachable /\ pod' = [pod EXCEPT !.tree = call[c].tree] /\ Goto(c, "mark")
       \/ Silent /\ Ends(c, "failed") /\ UNCHANGED pod
    /\ UNCHANGED <<head, service, row, latest, overlap, dropped, boots, left>>

\* MarkSynced updates the row if there is one.
MarkedLive(c) == [row EXCEPT !.rev = call[c].tree, !.boot = pod.boot]
Marked(c)     == [row EXCEPT !.rev = call[c].tree, !.boot = call[c].boot]
Mark(c) ==
    /\ At(c, "mark")
    /\ row' = IF Registered THEN Marked(c) ELSE row
    /\ Ends(c, "ok")
    /\ UNCHANGED <<head, pod, service, latest, overlap, dropped, boots, left>>

-----------------------------------------------------------------------------
(* DeleteSandbox: Service and pod first, then the row.                      *)

Stop(c) ==
    /\ At(c, "stop")
    /\ Teardown(c)
    /\ Goto(c, "drop")
    /\ UNCHANGED <<head, row, latest, overlap, boots>>

TokenCleared == [row EXCEPT !.token = Nothing]
Dropped      == NoRow

\* An error of the registry is dropped: the answer is Ok, and the row stays.
Drop(c) ==
    /\ At(c, "drop")
    /\ \/ row' = Dropped /\ UNCHANGED <<dropped, left>>
       \/ UNCHANGED row /\ dropped' = dropped \cup {c} /\ Spend("fails")
    /\ Goto(c, "ok")
    /\ UNCHANGED <<head, pod, service, latest, overlap, boots>>

-----------------------------------------------------------------------------
Commit ==
    /\ Spend("commits")
    /\ \E t \in Trees \ {head} : head' = t
    /\ UNCHANGED <<pod, service, row, call, latest, overlap, dropped, boots>>

\* The container restarts in its pod, with an empty workspace.
Restart ==
    /\ Up /\ ~pod.dying
    /\ Spend("restarts")
    /\ boots' = boots + 1
    /\ pod' = [pod EXCEPT !.boot = boots', !.tree = Nothing]
    /\ UNCHANGED <<head, service, row, call, latest, overlap, dropped>>

\* A request fails or times out, the caller goes away, or the server stops; a
\* deletion may have got as far as the Service.
Fail(c) ==
    /\ Open(c)
    /\ Spend("fails")
    /\ \/ UNCHANGED service
       \/ call[c].pc \in {"evict", "stop"} /\ service' = FALSE
    /\ Ends(c, "failed")
    /\ UNCHANGED <<head, pod, row, latest, overlap, dropped, boots>>

\* The kubelet has stopped the container.
Gone ==
    /\ Up /\ pod.dying
    /\ pod' = NoPod
    /\ UNCHANGED <<head, service, row, call, latest, overlap, dropped, boots, left>>

LaunchStep(c) == \/ Evict(c) \/ CreatePod(c) \/ CreateService(c) \/ Status(c)
                 \/ Ready(c) \/ NotReady(c) \/ Upsert(c)
SyncStep(c)   == \/ Export(c) \/ Missing(c) \/ ReadBoot(c) \/ MissBoot(c)
                 \/ Skip(c) \/ DoSync(c) \/ MissRow(c) \/ Push(c) \/ Mark(c)
DeleteStep(c) == Stop(c) \/ Drop(c)

Next == \/ \E c \in Calls : \/ \E op \in Ops : Begin(c, op)
                            \/ LaunchStep(c) \/ SyncStep(c) \/ DeleteStep(c) \/ Fail(c)
        \/ Commit \/ Restart \/ Gone
Spec == Init /\ [][Next]_vars

-----------------------------------------------------------------------------
(* A row that claims a sync with the worker's current boot id is right that *)
(* the workspace has been pushed since that boot: no interleaving of syncs, *)
(* launches, deletions and restarts, no failure between push and record,    *)
(* makes a call skip the sync of an empty workspace ("restart detection").  *)
BootMeansPushed ==
    Up /\ row.boot = pod.boot => pod.tree # Nothing

(* "Skip-if-already-synced" is sound as long as no two calls sync at the    *)
(* same time and none fails half-way: a call that skips leaves the worker   *)
(* it asked with the very tree it exported (syncSandboxWorkspace).          *)
SkipSound ==
    [][\A c \in Calls :
         Skip(c) /\ ~overlap /\ left["fails"] = MaxFails /\ pod.boot = call[c].boot
           => pod.tree = call[c].tree]_vars

(* Launches and deletions that come one at a time leave what the last one   *)
(* of them says, whatever earlier ones failed at and whatever syncs run     *)
(* meanwhile: as soon as a launch has registered its worker, a pod, a       *)
(* Service and a row with the same, new token, so that its own sync reaches *)
(* the worker, and the list shows it running with the worker's boot id;     *)
(* after a deletion that dropped no error, no Service, no row, nothing in   *)
(* the list, and no pod but one on its way out.                             *)
Registers(c) == call[c].op = "launch" /\ (At(c, "export") \/ Syncing(c) \/ At(c, "ok"))
LastCallWins ==
    latest # Nothing =>
      /\ Registers(latest) =>
           /\ service /\ pod.token = latest /\ row.token = latest /\ ~pod.dying
           /\ \E i \in Shown : i.phase = "Running" /\ i.boot = pod.boot
      /\ call[latest].op = "delete" /\ At(latest, "ok") /\ latest \notin dropped
           => (Up => pod.dying) /\ ~service /\ Shown = {}

(* "SyncedRev: rev of the workspace tree last pushed", "SyncedBootID:       *)
(* worker boot id at sync time" (sbxreg.go:27-28): with no failure, and     *)
(* nobody between a push and its record, the row of a worker that has not   *)
(* restarted since names the tree in its workspace.                         *)
SyncedRevIsLastPushed ==
    /\ left["fails"] = MaxFails
    /\ \A c \in Calls : ~At(c, "mark")
    /\ Up /\ row.boot = pod.boot
      => row.rev = pod.tree

(* "DeleteSandbox removes the pod + service" (k8s/sandbox.go:241): of       *)
(* deletions that come one at a time, one that answers Ok has left no       *)
(* Service, and no pod but one on its way out.                              *)
DeletedIsGone ==
    latest # Nothing /\ call[latest].op = "delete" /\ At(latest, "ok")
      => ~service /\ (Up => pod.dying)

(* "A sync is only needed when the branch head changed or the worker        *)
(* restarted" (sandboxsync.go:25): where no two calls sync at the same      *)
(* time, none pushes the tree that the row says this worker was sent last.  *)
NeverResent ==
    [][\A c \in Calls :
         Push(c) /\ ~overlap /\ row.boot = pod.boot => row.rev # call[c].tree]_vars
=============================================================================
