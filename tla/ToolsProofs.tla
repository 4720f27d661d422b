----------------------------- MODULE ToolsProofs -----------------------------
(***************************************************************************)
(* A managed sandbox, first alone (module Sandbox) and then under the      *)
(* sandbox tools (module Tools): type correctness, that a row which claims *)
(* a sync with the running worker is right, that a call which skips its    *)
(* sync may, that the last launch or deletion keeps its promise, and that  *)
(* what a tool has written is not pushed over; for any number of calls,    *)
(* any trees, contents and bounds.  Only the last two need launches and    *)
(* deletions to come one at a time.                                        *)
(***************************************************************************)
EXTENDS Tools, TLAPS

Pod     == [token : Calls \cup {Nothing}, boot : 0..boots, tree : Trees \cup {Nothing},
            dying : BOOLEAN]
Record  == [token : Calls \cup {Nothing}, rev : Trees \cup {Nothing}, boot : 0..boots]
CallRec == [pc : PC, op : Ops, tree : Trees \cup {Nothing}, boot : 0..boots]

PodOK   == /\ boots \in Nat
           /\ pod \in Pod
           /\ Up => pod.token \in Calls /\ pod.boot > 0
           /\ service \in BOOLEAN
RowOK   == row \in Record /\ (Registered => row.token \in Calls)
CallsOK == call \in [Calls -> CallRec]
RestOK  == /\ head \in Trees
           /\ latest \in Calls \cup {Nothing}
           /\ overlap \in BOOLEAN
           /\ dropped \subseteq Calls
           /\ left \in [DOMAIN Bound -> Nat] /\ \A k \in DOMAIN Bound : left[k] <= Bound[k]

(* TypeOK in the parts that steps disturb one at a time.                    *)
LEMMA TypeParts ==
    /\ TypeOK <=> PodOK /\ RowOK /\ CallsOK /\ RestOK
    /\ TypeOK' <=> PodOK' /\ RowOK' /\ CallsOK' /\ RestOK'
BY DEF TypeOK, PodOK, RowOK, CallsOK, RestOK, Pod, Record, CallRec

(* A part whose variables stay is well typed afterwards.                    *)
LEMMA Kept ==
    ASSUME TypeOK
    PROVE  /\ UNCHANGED <<pod, service, boots>> => PodOK'
           /\ UNCHANGED <<row, boots>> => RowOK'
           /\ UNCHANGED <<call, boots>> => CallsOK'
           /\ UNCHANGED <<head, latest, overlap, dropped, left>> => RestOK'
<1> USE TypeParts
<1>1. UNCHANGED <<pod, service, boots>> => PodOK'
  BY DEF PodOK, Pod, Up
<1>2. UNCHANGED <<row, boots>> => RowOK'
  BY DEF RowOK, Record, Registered
<1>3. UNCHANGED <<call, boots>> => CallsOK'
  BY DEF CallsOK, CallRec
<1>4. UNCHANGED <<head, latest, overlap, dropped, left>> => RestOK'
  BY DEF RestOK
<1> QED BY <1>1, <1>2, <1>3, <1>4

(* Without its pod the sandbox is well typed, whatever becomes of the       *)
(* Service.                                                                 *)
LEMMA PodGone ==
    ASSUME TypeOK, pod' = NoPod, service' \in BOOLEAN, UNCHANGED boots
    PROVE  PodOK'
BY DEF TypeOK, PodOK, Pod, Up, NoPod

(* With its pod on its way out it is the same pod.                          *)
LEMMA PodLeaves ==
    ASSUME TypeOK, pod' \in {pod, Leaving}, service' \in BOOLEAN, UNCHANGED boots
    PROVE  /\ PodOK' /\ (Up' <=> Up)
           /\ pod'.token = pod.token /\ pod'.boot = pod.boot /\ pod'.tree = pod.tree
<1>1. pod \in Pod /\ (Up => pod.token \in Calls /\ pod.boot > 0) /\ NoPod.boot = 0
  BY TypeParts DEF PodOK, NoPod
<1>2. CASE pod' = pod
  BY <1>1, <1>2, TypeParts DEF PodOK, Pod, Up
<1>3. CASE Up /\ pod' = [pod EXCEPT !.dying = TRUE]
  <2>1. /\ pod'.token = pod.token /\ pod'.boot = pod.boot /\ pod'.tree = pod.tree
        /\ pod' \in Pod
    BY <1>1, <1>3 DEF Pod
  <2>2. Up'
    <3>1. pod'.boot # 0
      BY <1>1, <1>3, <2>1
    <3> QED BY <3>1 DEF Up, NoPod
  <2> QED BY <1>1, <1>3, <2>1, <2>2, TypeParts DEF PodOK, Pod
<1> QED BY <1>2, <1>3 DEF Leaving

(* A step of one call to another place keeps the calls well typed.          *)
LEMMA GotoTyped ==
    ASSUME CallsOK, NEW c \in Calls, NEW pc \in PC, Goto(c, pc), UNCHANGED boots
    PROVE  CallsOK'
BY DEF CallsOK, CallRec, Goto

(* More boot ids leave everything well typed that was.                      *)
LEMMA MoreBoots ==
    ASSUME TypeOK, boots' = boots + 1
    PROVE  /\ boots' \in Nat /\ boots' > 0
           /\ 0..boots \subseteq 0..boots' /\ boots' \in 0..boots'
           /\ UNCHANGED row => RowOK'
           /\ UNCHANGED call => CallsOK'
           /\ \A c \in Calls, pc \in PC : Goto(c, pc) => CallsOK'
<1>1. /\ boots' \in Nat /\ boots' > 0
      /\ 0..boots \subseteq 0..boots' /\ boots' \in 0..boots'
  BY DEF TypeOK
<1>2. UNCHANGED row => RowOK'
  BY <1>1, TypeParts DEF RowOK, Record, Registered
<1>3. call \in [Calls -> CallRec']
  BY <1>1, TypeParts DEF CallsOK, CallRec
<1>4. ASSUME NEW c \in Calls, NEW pc \in PC, Goto(c, pc)
      PROVE  CallsOK'
  BY <1>3, <1>4 DEF CallsOK, CallRec, Goto
<1> QED BY <1>1, <1>2, <1>3, <1>4 DEF CallsOK

(* A call that ends is well typed.                                          *)
LEMMA EndsTyped ==
    ASSUME TypeOK, NEW c \in Calls, NEW pc \in PC, Ends(c, pc), UNCHANGED boots
    PROVE  CallsOK'
<1>1. call[c].op \in Ops /\ 0 \in 0..boots
  BY DEF TypeOK
<1>2. [pc |-> pc, op |-> call[c].op, tree |-> Nothing, boot |-> 0] \in CallRec
  BY <1>1 DEF CallRec
<1>3. CallRec' = CallRec
  BY DEF CallRec
<1> QED BY <1>2, <1>3, TypeParts DEF CallsOK, Ends

(* Spending never goes below zero nor above the bound.                      *)
LEMMA SpendTyped ==
    ASSUME RestOK, NEW k \in DOMAIN Bound, Spend(k)
    PROVE  left' \in [DOMAIN Bound -> Nat] /\ \A j \in DOMAIN Bound : left'[j] <= Bound[j]
<1>1. Bound \in [DOMAIN Bound -> Nat]
  BY SandboxAssumption DEF Bound
<1> QED BY <1>1 DEF RestOK, Spend

LEMMA Items == {"commits", "restarts", "fails"} = DOMAIN Bound
BY DEF Bound

(* Where an error may be dropped, or a failure counted.                     *)
LEMMA RestTyped ==
    ASSUME RestOK, NEW c \in Calls, UNCHANGED <<head, latest>>, overlap' \in BOOLEAN,
           dropped' \in {dropped, dropped \cup {c}}, UNCHANGED left \/ Spend("fails")
    PROVE  RestOK'
BY SpendTyped, Items DEF RestOK

LEMMA TeardownTyped ==
    ASSUME TypeOK, NEW c \in Calls, Teardown(c), UNCHANGED <<head, latest, overlap, boots>>
    PROVE  PodOK' /\ RestOK'
<1>1. /\ pod' = Leaving /\ service' \in BOOLEAN
      /\ dropped' \in {dropped, dropped \cup {c}}
      /\ UNCHANGED left \/ Spend("fails")
  BY TypeParts DEF Teardown, PodOK
<1>2. RestOK /\ overlap' \in BOOLEAN
  BY TypeParts DEF RestOK
<1> QED BY <1>1, <1>2, PodLeaves, RestTyped

-----------------------------------------------------------------------------
LEMMA InitTyped == Init => TypeOK
<1> SUFFICES ASSUME Init PROVE TypeOK
  OBVIOUS
<1>1. PodOK /\ RowOK
  <2>1. boots = 0 /\ 0 \in 0..boots
    BY DEF Init
  <2>2. NoPod \in Pod /\ NoRow \in Record
    BY <2>1 DEF Pod, Record, NoPod, NoRow
  <2>3. boots \in Nat /\ pod = NoPod /\ row = NoRow
    BY DEF Init
  <2>4. service \in BOOLEAN
    BY Zenon DEF Init
  <2> QED BY <2>2, <2>3, <2>4 DEF PodOK, RowOK, Up, Registered
<1>2. CallsOK
  BY DEF Init, CallsOK, CallRec, PC, Ops
<1>3. RestOK
  <2>1. Bound \in [DOMAIN Bound -> Nat] /\ \A k \in DOMAIN Bound : Bound[k] <= Bound[k]
    BY SandboxAssumption DEF Bound
  <2> QED BY <2>1 DEF Init, RestOK
<1> QED BY <1>1, <1>2, <1>3, TypeParts

(* The steps of a launch.                                                   *)
LEMMA LaunchTyped ==
    ASSUME TypeOK, NEW c \in Calls, LaunchStep(c)
    PROVE  TypeOK'
<1> USE TypeParts
<1>1. CASE Evict(c)
  <2>1. CallsOK'
    BY <1>1, GotoTyped DEF Evict, PC
  <2>2. PodOK' /\ RestOK'
    BY <1>1, TeardownTyped DEF Evict
  <2> QED BY <1>1, <2>1, <2>2, Kept DEF Evict
<1>2. CASE CreatePod(c)
  <2>1. CASE UNCHANGED <<pod, boots>> /\ Goto(c, "failed")
    <3>1. CallsOK'
      BY <2>1, GotoTyped DEF PC
    <3> QED BY <1>2, <2>1, <3>1, Kept DEF CreatePod
  <2>2. CASE /\ boots' = boots + 1
             /\ pod' = [token |-> c, boot |-> boots', tree |-> Nothing, dying |-> FALSE]
             /\ Goto(c, "service")
    <3>1. CallsOK' /\ RowOK'
      BY <1>2, <2>2, MoreBoots DEF CreatePod, PC
    <3>2. UNCHANGED service /\ service \in BOOLEAN
      BY <1>2 DEF CreatePod, PodOK
    <3>3. PodOK'
      BY <2>2, <3>2, MoreBoots DEF PodOK, Pod, Up
    <3> QED BY <1>2, <3>1, <3>3, Kept DEF CreatePod
  <2> QED BY <1>2, <2>1, <2>2 DEF CreatePod
<1>3. CASE CreateService(c) \/ Status(c) \/ Ready(c)
  <2>1. UNCHANGED <<boots, head, pod, row, latest, overlap, dropped, left>>
    BY <1>3 DEF CreateService, Status, Ready
  <2>2. \E pc \in PC : Goto(c, pc)
    BY <1>3 DEF CreateService, Status, Ready, PC
  <2>3. CallsOK'
    BY <2>1, <2>2, GotoTyped
  <2>4. service' \in BOOLEAN
    BY <1>3 DEF CreateService, Status, Ready, PodOK
  <2>5. PodOK'
    BY <2>1, <2>4 DEF PodOK, Pod, Up
  <2> QED BY <2>1, <2>3, <2>5, Kept
<1>4. CASE NotReady(c)
  <2>1. CallsOK'
    BY <1>4, GotoTyped DEF NotReady, PC
  <2>2. RestOK'
    BY <1>4, SpendTyped, Items DEF NotReady, RestOK
  <2>3. PodOK'
    <3>1. service' \in BOOLEAN
      BY <1>4 DEF NotReady, PodOK
    <3> QED BY <1>4, <3>1, PodLeaves DEF NotReady
  <2> QED BY <1>4, <2>1, <2>2, <2>3, Kept DEF NotReady
<1>5. CASE Upsert(c)
  <2>1. CallsOK'
    BY <1>5, GotoTyped DEF Upsert, PC
  <2>2. RowOK'
    BY <1>5 DEF Upsert, UpsertedToken, RowOK, Record
  <2> QED BY <1>5, <2>1, <2>2, Kept DEF Upsert
<1> QED BY <1>1, <1>2, <1>3, <1>4, <1>5 DEF LaunchStep

(* The steps of a sync.                                                     *)
LEMMA SyncTyped ==
    ASSUME TypeOK, NEW c \in Calls, SyncStep(c)
    PROVE  TypeOK'
<1> USE TypeParts
<1>1. CASE Export(c)
  <2>1. CallsOK'
    BY <1>1 DEF Export, CallsOK, CallRec, RestOK, PC
  <2>2. RestOK'
    BY <1>1 DEF Export, RestOK
  <2> QED BY <1>1, <2>1, <2>2, Kept DEF Export
<1>2. CASE ReadBoot(c) \/ MissBoot(c)
  <2>1. pod.boot \in 0..boots /\ 0 \in 0..boots
    BY DEF PodOK, Pod
  <2>2. PICK boot \in 0..boots : call' = [call EXCEPT ![c].boot = boot, ![c].pc = "check"]
    BY <1>2, <2>1 DEF ReadBoot, MissBoot
  <2>3. CallsOK'
    <3>1. [call[c] EXCEPT !.boot = boot, !.pc = "check"] \in CallRec
      BY DEF CallsOK, CallRec, PC
    <3>2. call' = [call EXCEPT ![c] = [call[c] EXCEPT !.boot = boot, !.pc = "check"]]
      BY <2>2 DEF CallsOK
    <3>3. UNCHANGED boots
      BY <1>2 DEF ReadBoot, MissBoot
    <3>4. call' \in [Calls -> CallRec]
      BY <3>1, <3>2 DEF CallsOK
    <3> QED BY <3>3, <3>4 DEF CallsOK, CallRec
  <2>4. RestOK'
    <3>1. overlap' \in BOOLEAN /\ UNCHANGED <<head, latest, overlap, dropped>>
      BY <1>2 DEF ReadBoot, MissBoot, RestOK
    <3> QED BY <1>2, <3>1, RestTyped DEF ReadBoot, MissBoot
  <2> QED BY <1>2, <2>3, <2>4, Kept DEF ReadBoot, MissBoot
<1>3. CASE Skip(c) \/ DoSync(c) \/ MissRow(c) \/ Missing(c)
  <2>1. CallsOK'
    BY <1>3, GotoTyped, EndsTyped DEF Skip, DoSync, MissRow, Missing, PC
  <2>2. /\ UNCHANGED <<head, pod, service, row, latest, overlap, dropped, boots>>
        /\ UNCHANGED left \/ Spend("fails")
    BY <1>3 DEF Skip, DoSync, MissRow, Missing
  <2>3. RestOK'
    BY <2>2, RestTyped DEF RestOK
  <2> QED BY <2>1, <2>2, <2>3, Kept
<1>4. CASE Push(c)
  <2>1. CallsOK'
    BY <1>4, GotoTyped, EndsTyped DEF Push, PC
  <2>2. CASE UNCHANGED pod
    BY <1>4, <2>1, <2>2, Kept DEF Push
  <2>3. CASE Reachable /\ pod' = [pod EXCEPT !.tree = call[c].tree]
    <3>1. pod.token \in Calls /\ pod.boot > 0 /\ call[c].tree \in Trees \cup {Nothing}
      BY <2>3 DEF Reachable, PodOK, CallsOK, CallRec
    <3>2. PodOK'
      BY <1>4, <2>3, <3>1 DEF Push, PodOK, Pod
    <3> QED BY <1>4, <2>1, <3>2, Kept DEF Push
  <2> QED BY <1>4, <2>2, <2>3 DEF Push
<1>5. CASE Mark(c)
  <2>1. CallsOK'
    BY <1>5, EndsTyped DEF Mark, PC
  <2>2. CASE UNCHANGED row
    BY <1>5, <2>1, <2>2, Kept DEF Mark
  <2>3. CASE Registered /\ row' = Marked(c)
    <3>1. RowOK'
      BY <1>5, <2>3 DEF Mark, Marked, RowOK, Record, CallsOK, CallRec
    <3> QED BY <1>5, <2>1, <3>1, Kept DEF Mark
  <2> QED BY <1>5, <2>2, <2>3 DEF Mark
<1> QED BY <1>1, <1>2, <1>3, <1>4, <1>5 DEF SyncStep

(* Everything else: requests that come in, deletions, commits and restarts. *)
LEMMA OtherTyped ==
    ASSUME TypeOK,
           \/ Commit \/ Restart \/ Gone
           \/ \E c \in Calls : \/ \E op \in Ops : Begin(c, op)
                               \/ DeleteStep(c) \/ Fail(c)
    PROVE  TypeOK'
<1> USE TypeParts
<1>1. ASSUME NEW c \in Calls, NEW op \in Ops, Begin(c, op) PROVE TypeOK'
  <2>1. PICK pc \in PC : call' = [call EXCEPT ![c].op = op, ![c].pc = pc]
    <3>1. CASE op = "launch"
      BY <1>1, <3>1 DEF Begin, PC
    <3>2. CASE op # "launch" /\ ~Registered
      BY <1>1, <3>2 DEF Begin, PC
    <3>3. CASE op = "sync" /\ Registered
      BY <1>1, <3>3 DEF Begin, PC
    <3>4. CASE op = "delete" /\ Registered
      BY <1>1, <3>4 DEF Begin, PC
    <3> QED BY <3>1, <3>2, <3>3, <3>4 DEF Ops
  <2>2. CallsOK'
    BY <1>1, <2>1 DEF Begin, CallsOK, CallRec
  <2>3. RestOK'
    BY <1>1 DEF Begin, RestOK
  <2> QED BY <1>1, <2>2, <2>3, Kept DEF Begin
<1>2. ASSUME NEW c \in Calls, Stop(c) PROVE TypeOK'
  <2>1. CallsOK'
    BY <1>2, GotoTyped DEF Stop, PC
  <2>2. PodOK' /\ RestOK'
    BY <1>2, TeardownTyped DEF Stop
  <2> QED BY <1>2, <2>1, <2>2, Kept DEF Stop
<1>3. ASSUME NEW c \in Calls, Drop(c) PROVE TypeOK'
  <2>1. CallsOK'
    BY <1>3, GotoTyped DEF Drop, PC
  <2>2. RowOK'
    BY <1>3 DEF Drop, Dropped, RowOK, Record, PodOK, NoRow, Registered
  <2>3. RestOK'
    <3>1. UNCHANGED <<head, latest, overlap>> /\ overlap' \in BOOLEAN
      BY <1>3 DEF Drop, RestOK
    <3> QED BY <1>3, <3>1, RestTyped DEF Drop
  <2> QED BY <1>3, <2>1, <2>2, <2>3, Kept DEF Drop
<1>4. ASSUME NEW c \in Calls, Fail(c) PROVE TypeOK'
  <2>1. CallsOK'
    BY <1>4, EndsTyped DEF Fail, PC
  <2>2. RestOK'
    BY <1>4, SpendTyped, Items DEF Fail, RestOK
  <2>3. PodOK'
    BY <1>4 DEF Fail, PodOK, Pod, Up
  <2> QED BY <1>4, <2>1, <2>2, <2>3, Kept DEF Fail
<1>5. CASE Commit
  <2>1. RestOK'
    BY <1>5, SpendTyped, Items DEF Commit, RestOK
  <2> QED BY <1>5, <2>1, Kept DEF Commit
<1>6. CASE Restart
  <2>1. RestOK'
    BY <1>6, SpendTyped, Items DEF Restart, RestOK
  <2>2. CallsOK' /\ RowOK'
    BY <1>6, MoreBoots DEF Restart
  <2>3. pod.token \in Calls /\ pod \in Pod /\ service' \in BOOLEAN
    BY <1>6 DEF Restart, PodOK
  <2>4. PodOK'
    BY <1>6, <2>3, MoreBoots DEF Restart, PodOK, Pod, Up
  <2> QED BY <2>1, <2>2, <2>4
<1>7. CASE Gone
  <2>1. service' \in BOOLEAN
    BY <1>7 DEF Gone, PodOK
  <2> QED BY <1>7, <2>1, PodGone, Kept DEF Gone
<1> QED BY <1>1, <1>2, <1>3, <1>4, <1>5, <1>6, <1>7 DEF DeleteStep

LEMMA TypeStep == TypeOK /\ [Next]_vars => TypeOK'
<1>1. TypeOK /\ Next => TypeOK'
  BY LaunchTyped, SyncTyped, OtherTyped DEF Next
<1>2. TypeOK /\ UNCHANGED vars => TypeOK'
  BY DEF vars, TypeOK, Up, Registered
<1> QED BY <1>1, <1>2

(* The registry, the pod and the calls on a sandbox stay well typed: a row  *)
(* that exists has the token of some launch, and so has a pod.              *)
THEOREM TypeCorrect == Spec => []TypeOK
BY InitTyped, TypeStep, PTL DEF Spec

-----------------------------------------------------------------------------
(* A row that claims a sync with the running worker is right.  A call that  *)
(* is about to record its push with the current boot id has pushed since    *)
(* that boot; what it pushes is a tree, because it has exported one.        *)

Exported      == \A c \in Calls : Syncing(c) => call[c].tree \in Trees
PushedBefore  == \A c \in Calls :
                   At(c, "mark") /\ Up /\ call[c].boot = pod.boot => pod.tree # Nothing
SyncInv       == TypeOK /\ Exported /\ PushedBefore /\ BootMeansPushed

(* Steps that touch neither pod nor row nor enter a sync.                   *)
LEMMA Outside ==
    ASSUME SyncInv, UNCHANGED <<pod, row>>, NEW c \in Calls,
           NEW pc \in PC \ {"boot", "check", "push", "mark"}, Goto(c, pc)
    PROVE  Exported' /\ PushedBefore' /\ BootMeansPushed'
BY DEF SyncInv, TypeOK, Exported, PushedBefore, BootMeansPushed, Syncing, At, Up, Goto

(* Nor does the end of a call.                                              *)
LEMMA OutsideEnds ==
    ASSUME SyncInv, UNCHANGED <<pod, row>>, NEW c \in Calls,
           NEW pc \in {"ok", "failed", "absent"}, Ends(c, pc)
    PROVE  Exported' /\ PushedBefore' /\ BootMeansPushed'
BY DEF SyncInv, TypeOK, Exported, PushedBefore, BootMeansPushed, Syncing, At, Up, Ends

(* A pod on its way out still is the worker the row speaks of.              *)
LEMMA OutsideLeaves ==
    ASSUME SyncInv, UNCHANGED row, Up' <=> Up, pod'.boot = pod.boot, pod'.tree = pod.tree,
           NEW c \in Calls, NEW pc \in PC \ {"boot", "check", "push", "mark"}, Goto(c, pc)
    PROVE  Exported' /\ PushedBefore' /\ BootMeansPushed'
BY DEF SyncInv, TypeOK, Exported, PushedBefore, BootMeansPushed, Syncing, At, Goto

(* A new boot id is in no row and in no call.                               *)
LEMMA FreshBoot ==
    ASSUME SyncInv, boots' = boots + 1, pod'.boot = boots', UNCHANGED row,
           \A c \in Calls : call'[c].boot = call[c].boot
    PROVE  PushedBefore' /\ BootMeansPushed'
<1>1. row.boot \in 0..boots /\ \A c \in Calls : call[c].boot \in 0..boots
  BY DEF SyncInv, TypeOK
<1>2. row.boot # boots + 1 /\ \A c \in Calls : call[c].boot # boots + 1
  BY <1>1 DEF SyncInv, TypeOK
<1> QED BY <1>2 DEF PushedBefore, BootMeansPushed

LEMMA LaunchPushed ==
    ASSUME SyncInv, NEW c \in Calls, LaunchStep(c)
    PROVE  Exported' /\ PushedBefore' /\ BootMeansPushed'
<1>1. CASE Evict(c) \/ NotReady(c)
  <2>1. /\ pod' \in {pod, Leaving} /\ service' \in BOOLEAN /\ UNCHANGED <<row, boots>>
        /\ \E pc \in {"pod", "failed"} : Goto(c, pc)
    BY <1>1, TypeParts DEF Evict, NotReady, Teardown, SyncInv, PodOK
  <2> QED BY <2>1, PodLeaves, OutsideLeaves DEF PC, SyncInv
<1>2. CASE CreatePod(c)
  <2>1. CASE UNCHANGED pod /\ Goto(c, "failed")
    BY <1>2, <2>1, Outside DEF CreatePod, PC
  <2>2. CASE /\ boots' = boots + 1
             /\ pod' = [token |-> c, boot |-> boots', tree |-> Nothing, dying |-> FALSE]
             /\ Goto(c, "service")
    <3>1. Exported' /\ \A d \in Calls : call'[d].boot = call[d].boot
      BY <2>2 DEF SyncInv, TypeOK, Exported, Syncing, At, Goto
    <3> QED BY <1>2, <2>2, <3>1, FreshBoot DEF CreatePod
  <2> QED BY <1>2, <2>1, <2>2 DEF CreatePod
<1>3. CASE CreateService(c)
  <2>1. UNCHANGED <<pod, row>> /\ \E pc \in {"failed", "status"} : Goto(c, pc)
    BY <1>3 DEF CreateService
  <2> QED BY <2>1, Outside DEF PC
<1>4. CASE Status(c)
  <2>1. UNCHANGED <<pod, row>> /\ \E pc \in {"failed", "wait"} : Goto(c, pc)
    BY <1>4 DEF Status
  <2> QED BY <2>1, Outside DEF PC
<1>5. CASE Ready(c)
  BY <1>5, Outside DEF Ready, PC
<1>6. CASE Upsert(c)
  <2>1. UNCHANGED pod /\ row'.boot = row.boot /\ Goto(c, "export")
    BY <1>6 DEF Upsert, SyncInv, TypeOK
  <2> QED BY <2>1 DEF SyncInv, TypeOK, Exported, PushedBefore, BootMeansPushed,
                      Syncing, At, Up, Goto
<1> QED BY <1>1, <1>2, <1>3, <1>4, <1>5, <1>6 DEF LaunchStep

LEMMA SyncPushed ==
    ASSUME SyncInv, NEW c \in Calls, SyncStep(c)
    PROVE  Exported' /\ PushedBefore' /\ BootMeansPushed'
<1> USE DEF SyncInv, Exported, PushedBefore, BootMeansPushed, Syncing, At, Up
<1>1. CASE Export(c)
  BY <1>1 DEF Export, TypeOK
<1>2. CASE ReadBoot(c) \/ MissBoot(c)
  <2>1. PICK boot : call' = [call EXCEPT ![c].boot = boot, ![c].pc = "check"]
    BY <1>2 DEF ReadBoot, MissBoot
  <2> QED BY <1>2, <2>1 DEF ReadBoot, MissBoot, TypeOK
<1>3. CASE Skip(c) \/ Missing(c)
  BY <1>3, OutsideEnds DEF Skip, Missing
<1>4. CASE DoSync(c) \/ MissRow(c)
  BY <1>4 DEF DoSync, MissRow, Goto, TypeOK
<1>5. CASE Push(c)
  <2>1. CASE UNCHANGED pod /\ Ends(c, "failed")
    BY <1>5, <2>1, OutsideEnds DEF Push
  <2>2. CASE /\ Reachable /\ Goto(c, "mark")
             /\ pod' = [pod EXCEPT !.tree = call[c].tree]
    <3>1. call[c].tree \in Trees
      BY <1>5 DEF Push
    <3>2. pod'.tree # Nothing
      BY <2>2, <3>1, SandboxAssumption DEF TypeOK
    <3>3. Exported'
      BY <2>2, <3>1 DEF Goto, TypeOK
    <3> QED BY <3>2, <3>3
  <2> QED BY <1>5, <2>1, <2>2 DEF Push
<1>6. CASE Mark(c)
  <2>1. Exported' /\ PushedBefore'
    BY <1>6 DEF Mark, Ends, TypeOK
  <2>2. CASE UNCHANGED row
    BY <1>6, <2>1, <2>2 DEF Mark
  <2>3. CASE row' = Marked(c)
    <3>1. row'.boot = call[c].boot
      BY <2>3 DEF Marked, TypeOK
    <3> QED BY <1>6, <2>1, <3>1 DEF Mark
  <2> QED BY <1>6, <2>1, <2>2, <2>3 DEF Mark
<1> QED BY <1>1, <1>2, <1>3, <1>4, <1>5, <1>6 DEF SyncStep

LEMMA OtherPushed ==
    ASSUME SyncInv,
           \/ Commit \/ Restart \/ Gone
           \/ \E c \in Calls : \/ \E op \in Ops : Begin(c, op)
                               \/ DeleteStep(c) \/ Fail(c)
    PROVE  Exported' /\ PushedBefore' /\ BootMeansPushed'
<1>1. ASSUME NEW c \in Calls, NEW op \in Ops, Begin(c, op)
      PROVE  Exported' /\ PushedBefore' /\ BootMeansPushed'
  <2>1. PICK pc \in {"evict", "absent", "export", "stop"} :
           call' = [call EXCEPT ![c].op = op, ![c].pc = pc]
    <3>1. CASE op = "launch"
      BY <1>1, <3>1 DEF Begin
    <3>2. CASE op # "launch" /\ ~Registered
      BY <1>1, <3>2 DEF Begin
    <3>3. CASE op = "sync" /\ Registered
      BY <1>1, <3>3 DEF Begin
    <3>4. CASE op = "delete" /\ Registered
      BY <1>1, <3>4 DEF Begin
    <3> QED BY <3>1, <3>2, <3>3, <3>4 DEF Ops
  <2> QED BY <1>1, <2>1 DEF Begin, SyncInv, TypeOK, Exported, PushedBefore,
                            BootMeansPushed, Syncing, At, Up
<1>2. ASSUME NEW c \in Calls, Stop(c)
      PROVE  Exported' /\ PushedBefore' /\ BootMeansPushed'
  <2>1. /\ pod' \in {pod, Leaving} /\ service' \in BOOLEAN /\ UNCHANGED <<row, boots>>
        /\ Goto(c, "drop")
    BY <1>2, TypeParts DEF Stop, Teardown, SyncInv, PodOK
  <2> QED BY <2>1, PodLeaves, OutsideLeaves DEF PC, SyncInv
<1>3. ASSUME NEW c \in Calls, Drop(c)
      PROVE  Exported' /\ PushedBefore' /\ BootMeansPushed'
  <2>1. Up => pod.boot > 0
    BY DEF SyncInv, TypeOK
  <2>2. row'.boot \in {row.boot, 0} /\ UNCHANGED pod /\ Goto(c, "ok")
    BY <1>3 DEF Drop, Dropped, NoRow
  <2> QED BY <2>1, <2>2 DEF SyncInv, TypeOK, Exported, PushedBefore,
                            BootMeansPushed, Syncing, At, Up, Goto
<1>4. ASSUME NEW c \in Calls, Fail(c)
      PROVE  Exported' /\ PushedBefore' /\ BootMeansPushed'
  BY <1>4, OutsideEnds DEF Fail
<1>5. CASE Commit
  BY <1>5 DEF Commit, SyncInv, Exported, PushedBefore, BootMeansPushed, Syncing, At, Up
<1>6. CASE Restart
  <2>1. pod'.boot = boots'
    BY <1>6 DEF Restart, SyncInv, TypeOK
  <2>2. Exported'
    BY <1>6 DEF Restart, SyncInv, Exported, Syncing, At
  <2> QED BY <1>6, <2>1, <2>2, FreshBoot DEF Restart
<1>7. CASE Gone
  BY <1>7 DEF Gone, SyncInv, Exported, PushedBefore, BootMeansPushed, Syncing, At, Up
<1> QED BY <1>1, <1>2, <1>3, <1>4, <1>5, <1>6, <1>7 DEF DeleteStep

LEMMA SyncInvInit == Init => SyncInv
BY InitTyped DEF Init, SyncInv, Exported, PushedBefore, BootMeansPushed, Syncing, At, Up

LEMMA SyncInvStep == SyncInv /\ [Next]_vars => SyncInv'
<1>1. SyncInv /\ Next => Exported' /\ PushedBefore' /\ BootMeansPushed'
  BY LaunchPushed, SyncPushed, OtherPushed DEF Next
<1>2. SyncInv /\ UNCHANGED vars => Exported' /\ PushedBefore' /\ BootMeansPushed'
  BY DEF vars, SyncInv, Exported, PushedBefore, BootMeansPushed, Syncing, At, Up
<1> QED BY <1>1, <1>2, TypeStep DEF SyncInv

(* A row whose boot id is the running worker's is right that the workspace  *)
(* has been pushed since that boot (the restart detection of                *)
(* syncSandboxWorkspace): however many calls overlap, fail or stop anywhere *)
(* and however often the worker restarts, for any Exclusive.                *)
THEOREM RestartDetection == Spec => []BootMeansPushed
<1>1. SyncInv => BootMeansPushed
  BY DEF SyncInv
<1> QED BY <1>1, SyncInvInit, SyncInvStep, PTL DEF Spec

-----------------------------------------------------------------------------
(* When a call skips its sync, the row, which vouches for the workspace, is *)
(* older than the skip, and so may be the push it tells of.  As long as     *)
(* nothing has failed half-way and no two calls have synced at once, at     *)
(* most one call syncs, what it has pushed is there when it records it, and *)
(* what the row says of the running worker holds at all other times.        *)
Clean    == ~overlap /\ left["fails"] = MaxFails
Single   == \A c, d \in Calls : Syncing(c) /\ Syncing(d) => c = d
PushedOf(c) == At(c, "mark") /\ Up /\ call[c].boot = pod.boot => pod.tree = call[c].tree
RowTells == (\A c \in Calls : ~At(c, "mark")) /\ Up /\ row.boot = pod.boot => row.rev = pod.tree

Synchronised == Clean => Single /\ (\A c \in Calls : PushedOf(c)) /\ RowTells
SkipInv      == SyncInv /\ Synchronised

LEMMA SpentForGood ==
    ASSUME TypeOK, Spend("fails")
    PROVE  ~Clean'
<1>1. left["fails"] \in Nat /\ left["fails"] <= MaxFails /\ MaxFails \in Nat
  BY SandboxAssumption, Items DEF TypeOK, Bound
<1>2. left'["fails"] = left["fails"] - 1
  BY Items DEF Spend, TypeOK
<1> QED BY <1>1, <1>2 DEF Clean

LEMMA OtherBounds ==
    ASSUME TypeOK, NEW k \in {"commits", "restarts"}, Spend(k)
    PROVE  left'["fails"] = left["fails"]
BY Items DEF TypeOK, Spend

LEMMA CleanBefore ==
    ASSUME TypeOK, UNCHANGED overlap, UNCHANGED left \/ Spend("fails")
    PROVE  Clean' => Clean
BY SpentForGood DEF Clean

(* A step that leaves the worker and the syncs as they are, or ends one     *)
(* before it has pushed anything.                                           *)
LEMMA WorkerLeft ==
    ASSUME SkipInv, Clean' => Clean, row'.boot = row.boot, row'.rev = row.rev,
           Up' <=> Up, pod'.boot = pod.boot, pod'.tree = pod.tree,
           \A d \in Calls :
             /\ Syncing(d)' => Syncing(d) /\ call'[d].boot = call[d].boot /\ call'[d].tree = call[d].tree
             /\ At(d, "mark")' <=> At(d, "mark")
    PROVE  Synchronised'
<1> SUFFICES ASSUME Clean' PROVE Single' /\ (\A c \in Calls : PushedOf(c)') /\ RowTells'
  BY DEF Synchronised
<1>1. Single /\ (\A c \in Calls : PushedOf(c)) /\ RowTells
  BY DEF SkipInv, Synchronised
<1>2. Single'
  BY <1>1 DEF Single
<1>3. \A c \in Calls : At(c, "mark")' => Syncing(c)'
  BY DEF At, Syncing
<1>4. \A c \in Calls : PushedOf(c)'
  BY <1>1, <1>3 DEF PushedOf
<1> QED BY <1>1, <1>2, <1>4 DEF RowTells

LEMMA SyncsLeft ==
    ASSUME SkipInv, Clean' => Clean, UNCHANGED pod, row'.boot = row.boot, row'.rev = row.rev,
           \A d \in Calls :
             /\ Syncing(d)' => Syncing(d) /\ call'[d].boot = call[d].boot /\ call'[d].tree = call[d].tree
             /\ At(d, "mark")' <=> At(d, "mark")
    PROVE  Synchronised'
BY WorkerLeft DEF Up

(* The workspace that a row or a call in flight may speak of is gone, with  *)
(* its pod or its boot.                                                     *)
LEMMA WorkerGone ==
    ASSUME SkipInv, Clean' => Clean,
           \A d \in Calls : Syncing(d)' => Syncing(d),
           Up' => /\ pod'.boot = boots + 1 /\ row'.boot = row.boot
                  /\ \A d \in Calls : call'[d].boot = call[d].boot
    PROVE  Synchronised'
<1>1. Clean' => Single'
  BY DEF SkipInv, Synchronised, Single
<1>2. ASSUME Up' PROVE row'.boot # pod'.boot /\ \A c \in Calls : call'[c].boot # pod'.boot
  <2>1. boots \in Nat /\ row.boot \in 0..boots /\ \A c \in Calls : call[c].boot \in 0..boots
    BY DEF SkipInv, SyncInv, TypeOK
  <2> QED BY <1>2, <2>1
<1>3. (\A c \in Calls : PushedOf(c)') /\ RowTells'
  BY <1>2 DEF PushedOf, RowTells
<1> QED BY <1>1, <1>3 DEF Synchronised

Quiet(c) == ~Syncing(c)
LEMMA QuietGoto ==
    ASSUME SkipInv, NEW c \in Calls, NEW pc \in PC \ {"boot", "check", "push", "mark"},
           Quiet(c), Goto(c, pc)
    PROVE  \A d \in Calls :
             /\ call'[d].boot = call[d].boot /\ call'[d].tree = call[d].tree
             /\ Syncing(d)' <=> Syncing(d)
             /\ At(d, "mark")' <=> At(d, "mark")
BY DEF SkipInv, SyncInv, TypeOK, Quiet, Goto, Syncing, At

LEMMA LaunchSynchronised ==
    ASSUME SkipInv, NEW c \in Calls, LaunchStep(c)
    PROVE  Synchronised'
<1>1. Quiet(c) /\ UNCHANGED overlap
  BY DEF LaunchStep, Evict, CreatePod, CreateService, Status, Ready, NotReady, Upsert,
         Quiet, Syncing, At
<1>2. ASSUME UNCHANGED left PROVE Clean' => Clean
  BY <1>1, <1>2 DEF Clean
<1>3. CASE Evict(c) \/ NotReady(c)
  <2>1. /\ pod' \in {pod, Leaving} /\ service' \in BOOLEAN /\ UNCHANGED <<row, boots>>
        /\ \E pc \in {"pod", "failed"} : Goto(c, pc)
        /\ UNCHANGED left \/ Spend("fails")
    BY <1>3, TypeParts DEF Evict, NotReady, Teardown, SkipInv, SyncInv, PodOK
  <2>2. (Up' <=> Up) /\ pod'.boot = pod.boot /\ pod'.tree = pod.tree
    BY <2>1, PodLeaves DEF SkipInv, SyncInv
  <2>3. Clean' => Clean
    BY <1>1, <2>1, CleanBefore DEF SkipInv, SyncInv
  <2> QED BY <1>1, <2>1, <2>2, <2>3, QuietGoto, WorkerLeft DEF PC
<1>5. CASE CreatePod(c)
  <2>1. CASE UNCHANGED pod /\ Goto(c, "failed")
    <3>1. UNCHANGED <<row, left>>
      BY <1>5 DEF CreatePod
    <3> QED BY <1>1, <1>2, <2>1, <3>1, QuietGoto, SyncsLeft DEF PC
  <2>2. CASE /\ boots' = boots + 1
             /\ pod' = [token |-> c, boot |-> boots', tree |-> Nothing, dying |-> FALSE]
             /\ Goto(c, "service")
    <3>1. UNCHANGED <<row, left>> /\ pod'.boot = boots + 1
      BY <1>5, <2>2 DEF CreatePod
    <3>2. \A d \in Calls : (Syncing(d)' => Syncing(d)) /\ call'[d].boot = call[d].boot
      BY <1>1, <2>2, QuietGoto DEF PC
    <3> QED BY <1>2, <3>1, <3>2, WorkerGone
  <2> QED BY <1>5, <2>1, <2>2 DEF CreatePod
<1>6. CASE CreateService(c) \/ Status(c) \/ Ready(c) \/ Upsert(c)
  <2>1. /\ UNCHANGED <<pod, left>> /\ row'.boot = row.boot /\ row'.rev = row.rev
        /\ \E pc \in {"failed", "status", "wait", "upsert", "export"} : Goto(c, pc)
    BY <1>6 DEF CreateService, Status, Ready, Upsert, SkipInv, SyncInv, TypeOK
  <2>2. PICK pc \in PC \ {"boot", "check", "push", "mark"} : Goto(c, pc)
    BY <2>1 DEF PC
  <2> QED BY <1>1, <1>2, <2>1, <2>2, QuietGoto, SyncsLeft
<1> QED BY <1>3, <1>5, <1>6 DEF LaunchStep

LEMMA SyncSynchronised ==
    ASSUME SkipInv, NEW c \in Calls, SyncStep(c)
    PROVE  Synchronised'
<1> SUFFICES ASSUME Clean' PROVE Single' /\ (\A d \in Calls : PushedOf(d)') /\ RowTells'
  BY DEF Synchronised
<1>1. UNCHANGED left /\ (~overlap' => ~overlap)
  <2>1. UNCHANGED left \/ Spend("fails")
    BY DEF SyncStep, Export, Missing, ReadBoot, MissBoot, Skip, DoSync, MissRow, Push, Mark
  <2>2. ~overlap' => ~overlap
    BY Zenon DEF SyncStep, Export, Missing, ReadBoot, MissBoot, Skip, DoSync, MissRow, Push, Mark
  <2> QED BY <2>1, <2>2, SpentForGood DEF SkipInv, SyncInv
<1>2. Clean
  BY <1>1 DEF Clean
<1>0. ~Missing(c)
  BY <1>1, SpentForGood DEF Missing, SkipInv, SyncInv
<1>3. Single /\ (\A d \in Calls : PushedOf(d)) /\ RowTells
  BY <1>2 DEF SkipInv, Synchronised
<1>4. call \in [Calls -> CallRec] /\ pod \in Pod /\ row \in Record
  BY TypeParts DEF SkipInv, SyncInv, PodOK, RowOK, CallsOK
<1>5. \A d \in Calls \ {c} : call'[d] = call[d]
  BY <1>4 DEF SyncStep, Export, Missing, ReadBoot, MissBoot, Skip, DoSync, MissRow, Push, Mark,
              Goto, Ends
<1>6. \A d \in Calls \ {c} : ~Syncing(d) /\ ~At(d, "mark") /\ ~Syncing(d)' /\ ~At(d, "mark")'
  <2>1. CASE Export(c)
    <3>1. \A d \in Calls : ~Syncing(d)
      BY <2>1 DEF Export, Clean
    <3> QED BY <1>5, <3>1 DEF Syncing, At
  <2>2. CASE \/ ReadBoot(c) \/ MissBoot(c) \/ Skip(c) \/ DoSync(c)
             \/ MissRow(c) \/ Push(c) \/ Mark(c)
    <3>1. Syncing(c)
      BY <2>2 DEF ReadBoot, MissBoot, Skip, DoSync, MissRow, Push, Mark, Syncing, At
    <3> QED BY <1>3, <1>5, <3>1 DEF Single, Syncing, At
  <2> QED BY <1>0, <2>1, <2>2 DEF SyncStep
<1>7. Single' /\ \A d \in Calls \ {c} : PushedOf(d)'
  BY <1>6 DEF Single, PushedOf
<1>8. CASE Export(c) \/ ReadBoot(c) \/ MissBoot(c) \/ Skip(c) \/ DoSync(c) \/ MissRow(c)
  <2>1. UNCHANGED <<pod, row>> /\ ~At(c, "mark") /\ ~At(c, "mark")'
    BY <1>4, <1>8 DEF Export, ReadBoot, MissBoot, Skip, DoSync, MissRow, Goto, Ends, At, CallRec
  <2> QED BY <1>3, <1>6, <1>7, <2>1 DEF PushedOf, RowTells, Up
<1>9. CASE Push(c)
  <2>1. CASE UNCHANGED pod /\ Ends(c, "failed")
    <3>1. UNCHANGED <<pod, row>> /\ ~At(c, "mark") /\ ~At(c, "mark")'
      BY <1>4, <1>9, <2>1 DEF Push, Ends, At
    <3> QED BY <1>3, <1>6, <1>7, <3>1 DEF PushedOf, RowTells, Up
  <2>2. CASE pod' = [pod EXCEPT !.tree = call[c].tree] /\ Goto(c, "mark")
    <3>1. At(c, "mark")' /\ call'[c].tree = call[c].tree /\ pod'.tree = call[c].tree
      BY <1>4, <2>2 DEF Goto, At, CallRec, Pod
    <3> QED BY <1>7, <3>1 DEF PushedOf, RowTells
  <2> QED BY <1>9, <2>1, <2>2 DEF Push
<1>10. CASE Mark(c)
  <2>1. At(c, "mark") /\ ~At(c, "mark")' /\ UNCHANGED pod /\ PushedOf(c)
    BY <1>3, <1>4, <1>10 DEF Mark, Ends, At
  <2>2. ASSUME Up', row'.boot = pod'.boot PROVE row'.rev = pod'.tree
    <3>1. Up /\ pod.boot > 0
      BY <2>1, <2>2 DEF Up, SkipInv, SyncInv, TypeOK
    <3>2. Registered
      BY <1>10, <2>1, <2>2, <3>1 DEF Mark, Registered, NoRow
    <3>3. row'.rev = call[c].tree /\ row'.boot = call[c].boot
      BY <1>4, <1>10, <3>2 DEF Mark, Marked, Record
    <3> QED BY <2>1, <2>2, <3>1, <3>3 DEF PushedOf
  <2> QED BY <1>7, <2>1, <2>2 DEF PushedOf, RowTells
<1> QED BY <1>0, <1>8, <1>9, <1>10 DEF SyncStep

LEMMA OtherSynchronised ==
    ASSUME SkipInv,
           \/ Commit \/ Restart \/ Gone
           \/ \E c \in Calls : \/ \E op \in Ops : Begin(c, op)
                               \/ DeleteStep(c) \/ Fail(c)
    PROVE  Synchronised'
<1> USE DEF SkipInv
<1>1. ASSUME NEW c \in Calls, NEW op \in Ops, Begin(c, op) PROVE Synchronised'
  <2>1. PICK pc \in {"evict", "absent", "export", "stop"} :
           call' = [call EXCEPT ![c].op = op, ![c].pc = pc]
    <3>1. CASE op = "launch"
      BY <1>1, <3>1 DEF Begin
    <3>2. CASE op # "launch" /\ ~Registered
      BY <1>1, <3>2 DEF Begin
    <3>3. CASE op = "sync" /\ Registered
      BY <1>1, <3>3 DEF Begin
    <3>4. CASE op = "delete" /\ Registered
      BY <1>1, <3>4 DEF Begin
    <3> QED BY <3>1, <3>2, <3>3, <3>4 DEF Ops
  <2>2. \A d \in Calls :
          /\ call'[d].boot = call[d].boot /\ call'[d].tree = call[d].tree
          /\ Syncing(d)' <=> Syncing(d)
          /\ At(d, "mark")' <=> At(d, "mark")
    BY <1>1, <2>1 DEF SyncInv, TypeOK, Begin, Syncing, At
  <2>3. UNCHANGED <<pod, row>> /\ (Clean' => Clean)
    BY <1>1 DEF Begin, Clean
  <2> QED BY <2>2, <2>3, SyncsLeft
<1>2. ASSUME NEW c \in Calls, Stop(c) PROVE Synchronised'
  <2>1. /\ pod' \in {pod, Leaving} /\ service' \in BOOLEAN /\ UNCHANGED <<row, overlap, boots>>
        /\ Quiet(c) /\ Goto(c, "drop")
        /\ UNCHANGED left \/ Spend("fails")
    BY <1>2, TypeParts DEF Stop, Teardown, SyncInv, PodOK, Quiet, Syncing, At
  <2>2. (Up' <=> Up) /\ pod'.boot = pod.boot /\ pod'.tree = pod.tree /\ (Clean' => Clean)
    BY <2>1, PodLeaves, CleanBefore DEF SyncInv
  <2> QED BY <2>1, <2>2, QuietGoto, WorkerLeft DEF PC
<1>3. ASSUME NEW c \in Calls, Drop(c) PROVE Synchronised'
  <2>1. /\ Quiet(c) /\ Goto(c, "ok") /\ UNCHANGED <<pod, overlap>>
        /\ UNCHANGED left \/ Spend("fails")
    BY <1>3 DEF Drop, Quiet, Syncing, At
  <2>2. Clean' => Clean
    BY <2>1, CleanBefore DEF SyncInv
  <2>3. CASE UNCHANGED row
    BY <2>1, <2>2, <2>3, QuietGoto, SyncsLeft DEF PC
  <2>4. CASE row'.boot = 0
    <3>1. Up' => pod'.boot > 0
      BY <2>1 DEF SyncInv, TypeOK, Up
    <3>2. RowTells'
      BY <2>4, <3>1 DEF RowTells
    <3>3. Clean' => Single'
      BY <2>1, <2>2, QuietGoto DEF PC, Synchronised, Single
    <3>4. Clean' => \A d \in Calls : PushedOf(d)'
      BY <2>1, <2>2, QuietGoto DEF PC, Synchronised, PushedOf, Up
    <3> QED BY <3>2, <3>3, <3>4 DEF Synchronised
  <2> QED BY <1>3, <2>3, <2>4 DEF Drop, Dropped, NoRow
<1>4. ASSUME NEW c \in Calls, Fail(c) PROVE Synchronised'
  BY <1>4, SpentForGood DEF Fail, SyncInv, Synchronised
<1>5. CASE Commit
  <2>1. /\ UNCHANGED <<pod, row, call>> /\ (Clean' => Clean)
    BY <1>5, OtherBounds DEF Commit, Clean, SyncInv
  <2> QED BY <2>1, SyncsLeft DEF Syncing, At
<1>6. CASE Restart
  <2>1. pod'.boot = boots + 1 /\ UNCHANGED <<row, call>> /\ (Clean' => Clean)
    BY <1>6, OtherBounds DEF Restart, Clean, SyncInv, TypeOK
  <2> QED BY <2>1, WorkerGone DEF Syncing, At
<1>7. CASE Gone
  <2>1. ~Up' /\ UNCHANGED <<row, call>> /\ (Clean' => Clean)
    BY <1>7 DEF Gone, Up, Clean
  <2> QED BY <2>1, WorkerGone DEF Syncing, At
<1> QED BY <1>1, <1>2, <1>3, <1>4, <1>5, <1>6, <1>7 DEF DeleteStep

LEMMA SkipInvInit == Init => SkipInv
<1>1. Init => Synchronised
  BY DEF Init, Synchronised, Single, PushedOf, RowTells, Syncing, At, Up
<1> QED BY <1>1, SyncInvInit DEF SkipInv

LEMMA SkipInvStep == SkipInv /\ [Next]_vars => SkipInv'
<1>1. SkipInv /\ Next => Synchronised'
  BY LaunchSynchronised, SyncSynchronised, OtherSynchronised DEF Next
<1>2. SkipInv /\ UNCHANGED vars => Synchronised'
  BY SyncsLeft DEF vars, Clean, Syncing, At
<1> QED BY <1>1, <1>2, SyncInvStep DEF SkipInv

(* The row of a call that skips names the tree the call has exported, and,  *)
(* if the worker has not restarted since the call asked it for its boot id, *)
(* the row speaks of that worker.                                           *)
SkipsRight == \A c \in Calls :
    Skip(c) /\ ~overlap /\ left["fails"] = MaxFails /\ pod.boot = call[c].boot
      => pod.tree = call[c].tree

LEMMA SkipInvMeans == SkipInv => SkipsRight
<1> SUFFICES ASSUME SkipInv, NEW c \in Calls, Skip(c), Clean, pod.boot = call[c].boot
             PROVE  pod.tree = call[c].tree
  BY DEF SkipsRight, Clean
<1>1. /\ At(c, "check") /\ row.rev = call[c].tree
      /\ row.boot = pod.boot /\ row.boot # 0
  BY DEF Skip, AlreadySynced
<1>2. Up
  BY <1>1 DEF Up, NoPod
<1>3. \A d \in Calls : ~At(d, "mark")
  BY <1>1 DEF SkipInv, Synchronised, Single, Syncing, At
<1> QED BY <1>1, <1>2, <1>3 DEF SkipInv, Synchronised, RowTells

(* "Skip-if-already-synced" is sound: with no failure and no two syncs at   *)
(* once, a call that skips finds the very tree it exported in the worker it *)
(* asked, for any calls, trees, restarts and launches or deletions at once. *)
THEOREM SkipsOnlySynced == Spec => SkipSound
<1>1. SkipInv /\ [Next]_vars => [SkipsRight]_vars
  BY SkipInvMeans
<1> QED BY <1>1, SkipInvInit, SkipInvStep, PTL DEF Spec, SkipSound, SkipsRight

-----------------------------------------------------------------------------
(* Launches and deletions that come one at a time.  The one that is open is *)
(* the one that began last, and what it has done so far is not undone.      *)
OneAtATime == {"launch", "delete"} \subseteq Exclusive
Changes(c) == call[c].op \in {"launch", "delete"}

Places == \A c \in Calls :
    /\ call[c].pc \in {"evict", "pod", "service", "status", "wait", "upsert"} => call[c].op = "launch"
    /\ call[c].pc \in {"stop", "drop"} => call[c].op = "delete"
    /\ call[c].op = "delete" => call[c].pc \in {"stop", "drop", "ok", "failed", "absent"}
    /\ Open(c) /\ Changes(c) => c = latest

Launched(c) ==
    /\ At(c, "pod")     => (Up => pod.dying)
    /\ At(c, "service") => pod.token = c /\ ~pod.dying
    /\ call[c].pc \in {"status", "wait", "upsert"} \/ Registers(c)
         => pod.token = c /\ service /\ ~pod.dying
    /\ Registers(c) => row.token = c
Deleted(c) ==
    /\ At(c, "drop") \/ At(c, "ok") => (Up => pod.dying) /\ (c \notin dropped => ~service)
    /\ At(c, "ok") /\ c \notin dropped => ~Registered

Standing == latest # Nothing =>
    /\ ~At(latest, "new")
    /\ call[latest].op = "launch" => Launched(latest)
    /\ call[latest].op = "delete" => Deleted(latest)

LastInv == TypeOK /\ Places /\ Standing

(* A step of a call that is no launch and no deletion, or of the branch or  *)
(* the worker, leaves all this as it is.                                    *)
LEMMA ElsewhereStands ==
    ASSUME LastInv, UNCHANGED <<service, latest, dropped>>,
           pod'.token = pod.token, pod'.dying = pod.dying, Up' <=> Up,
           row'.token = row.token, Registered' <=> Registered,
           \A d \in Calls : \/ call'[d] = call[d]
                            \/ /\ ~Changes(d)' /\ ~At(d, "new")'
                               /\ call'[d].pc \notin {"evict", "pod", "service", "status", "wait",
                                                      "upsert", "stop", "drop"}
    PROVE  Places' /\ Standing'
<1>1. Places'
  BY DEF LastInv, Places, Changes, Open, Ended, At
<1>2. latest # Nothing => latest \in Calls
  BY DEF LastInv, TypeOK
<1>3. Standing'
  BY <1>2 DEF LastInv, Standing, Launched, Deleted, Registers, Syncing, At, Changes
<1> QED BY <1>1, <1>3

(* The open launch or deletion takes a step: it goes to pc.                 *)
LEMMA LastMoves ==
    ASSUME LastInv, NEW c \in Calls, c = latest, UNCHANGED latest, NEW pc \in PC,
           pc \in {"evict", "pod", "service", "status", "wait", "upsert"} => call[c].op = "launch",
           pc \in {"stop", "drop"} => call[c].op = "delete",
           call[c].op = "delete" => pc \in {"stop", "drop", "ok", "failed", "absent"},
           pc # "new",
           call'[c].pc = pc, call'[c].op = call[c].op,
           \A d \in Calls \ {c} : call'[d] = call[d]
    PROVE  Places' /\ ((call[c].op = "launch" => Launched(c)') /\ (call[c].op = "delete" => Deleted(c)')
                         => Standing')
<1>1. Places'
  BY DEF LastInv, Places, Changes, Open, Ended, At
<1>2. Standing' <=> /\ (call[c].op = "launch" => Launched(c)')
                    /\ (call[c].op = "delete" => Deleted(c)')
  BY SandboxAssumption DEF Standing, At, Launched, Deleted, Registers, Syncing
<1> QED BY <1>1, <1>2

LEMMA LaunchStands ==
    ASSUME LastInv, NEW c \in Calls, LaunchStep(c)
    PROVE  Places' /\ Standing'
<1>1. call[c].op = "launch" /\ Open(c)
  BY DEF LastInv, Places, LaunchStep, Evict, CreatePod, CreateService, Status, Ready, NotReady,
         Upsert, At, Open, Ended
<1>2. /\ c = latest /\ Launched(c) /\ UNCHANGED latest
      /\ call \in [Calls -> CallRec] /\ pod \in Pod /\ row \in Record /\ c # Nothing
  BY <1>1, SandboxAssumption, TypeParts
     DEF LastInv, Places, Changes, Standing, PodOK, RowOK, CallsOK,
         LaunchStep, Evict, CreatePod, CreateService, Status, Ready, NotReady, Upsert
<1>3. PICK pc \in {"pod", "service", "status", "wait", "upsert", "export", "failed"} : Goto(c, pc)
  BY DEF LaunchStep, Evict, CreatePod, CreateService, Status, Ready, NotReady, Upsert
<1>4. /\ call'[c].pc = pc /\ call'[c].op = "launch"
      /\ \A d \in Calls \ {c} : call'[d] = call[d]
  BY <1>1, <1>2, <1>3 DEF Goto, CallRec
<1>5. Launched(c)'
  <2> USE <1>2, <1>4 DEF Launched, Registers, Syncing, At, Goto, CallRec
  <2>1. CASE Evict(c)
    <3>1. Up' => pod'.dying
      <4>1. CASE Up
        BY <2>1, <4>1 DEF Evict, Teardown, Leaving, Pod
      <4>2. CASE ~Up
        BY <2>1, <4>2 DEF Evict, Teardown, Leaving, Up
      <4> QED BY <4>1, <4>2
    <3> QED BY <2>1, <3>1 DEF Evict
  <2>2. CASE CreatePod(c)
    BY <2>2 DEF CreatePod, Up, NoPod
  <2>3. CASE CreateService(c)
    BY <2>3 DEF CreateService
  <2>4. CASE Status(c)
    BY <2>4 DEF Status
  <2>5. CASE Ready(c)
    BY <2>5 DEF Ready
  <2>6. CASE NotReady(c)
    BY <2>6 DEF NotReady
  <2>7. CASE Upsert(c)
    <3>1. row'.token = c
      BY <2>7 DEF Upsert, UpsertedToken, Record
    <3> QED BY <2>7, <3>1 DEF Upsert
  <2> QED BY <2>1, <2>2, <2>3, <2>4, <2>5, <2>6, <2>7 DEF LaunchStep
<1> QED BY <1>1, <1>2, <1>4, <1>5, LastMoves DEF PC

LEMMA DeleteStands ==
    ASSUME LastInv, NEW c \in Calls, DeleteStep(c)
    PROVE  Places' /\ Standing'
<1>1. call[c].op = "delete" /\ Open(c)
  BY DEF LastInv, Places, DeleteStep, Stop, Drop, At, Open, Ended
<1>2. /\ c = latest /\ Deleted(c) /\ UNCHANGED latest /\ c # Nothing
      /\ call \in [Calls -> CallRec] /\ pod \in Pod
  BY <1>1, SandboxAssumption, TypeParts
     DEF LastInv, Places, Changes, Standing, CallsOK, PodOK, DeleteStep, Stop, Drop
<1>3. PICK pc \in {"drop", "ok"} : Goto(c, pc)
  BY DEF DeleteStep, Stop, Drop
<1>4. /\ call'[c].pc = pc /\ call'[c].op = "delete"
      /\ \A d \in Calls \ {c} : call'[d] = call[d]
  BY <1>1, <1>2, <1>3 DEF Goto, CallRec
<1>5. Deleted(c)'
  <2> USE <1>2, <1>4 DEF Deleted, At, Goto, CallRec
  <2>1. CASE Stop(c)
    BY <2>1 DEF Stop, Teardown, Leaving, Up, NoPod, Pod
  <2>2. CASE Drop(c)
    BY <2>2 DEF Drop, Dropped, Up, Registered
  <2> QED BY <2>1, <2>2 DEF DeleteStep
<1> QED BY <1>1, <1>2, <1>4, <1>5, LastMoves DEF PC

LEMMA SyncStands ==
    ASSUME LastInv, NEW c \in Calls, SyncStep(c)
    PROVE  Places' /\ Standing'
<1>1. /\ UNCHANGED <<service, latest, dropped>>
      /\ call \in [Calls -> CallRec] /\ pod \in Pod /\ row \in Record
      /\ Registered => row.token \in Calls
      /\ Up => pod.boot > 0
  BY TypeParts DEF LastInv, SyncStep, Export, Missing, ReadBoot, MissBoot, Skip, DoSync, MissRow,
                   Push, Mark, PodOK, RowOK, CallsOK
<1>2. pod'.token = pod.token /\ pod'.dying = pod.dying /\ (Up' <=> Up)
  <2>1. CASE Push(c) /\ Reachable /\ pod' = [pod EXCEPT !.tree = call[c].tree]
    <3>1. /\ pod'.token = pod.token /\ pod'.dying = pod.dying
          /\ pod'.boot = pod.boot /\ pod.boot > 0
      BY <1>1, <2>1 DEF Reachable, Pod
    <3> QED BY <2>1, <3>1 DEF Up, NoPod, Reachable
  <2>2. CASE UNCHANGED pod
    BY <2>2 DEF Up
  <2> QED BY <2>1, <2>2
      DEF SyncStep, Export, Missing, ReadBoot, MissBoot, Skip, DoSync, MissRow, Push, Mark
<1>3. row'.token = row.token /\ (Registered' <=> Registered)
  <2>1. CASE Mark(c) /\ Registered /\ row' = Marked(c)
    <3>1. row'.token = row.token /\ row.token \in Calls
      BY <1>1, <2>1 DEF Marked, Record
    <3> QED BY <2>1, <3>1, SandboxAssumption DEF Registered, NoRow
  <2>2. CASE UNCHANGED row
    BY <2>2 DEF Registered
  <2> QED BY <2>1, <2>2
      DEF SyncStep, Export, Missing, ReadBoot, MissBoot, Skip, DoSync, MissRow, Push, Mark
<1>4. \A d \in Calls \ {c} : call'[d] = call[d]
  BY <1>1 DEF SyncStep, Export, Missing, ReadBoot, MissBoot, Skip, DoSync, MissRow, Push, Mark,
              Goto, Ends
<1>5. /\ call'[c].pc \in {"boot", "check", "push", "mark", "ok", "failed", "absent"}
      /\ call'[c].op = call[c].op
      /\ call[c].pc \in {"export", "boot", "check", "push", "mark"}
  BY <1>1 DEF SyncStep, Export, Missing, ReadBoot, MissBoot, Skip, DoSync, MissRow, Push, Mark,
              Goto, Ends, CallRec, At
<1>6. CASE ~Changes(c)
  BY <1>1, <1>2, <1>3, <1>4, <1>5, <1>6, ElsewhereStands DEF Changes, At
<1>7. CASE Changes(c)
  <2>1. c = latest /\ c # Nothing /\ call[c].op = "launch"
    BY <1>5, <1>7, SandboxAssumption DEF LastInv, Places, Open, Ended, Changes, At
  <2>2. Launched(c)
    BY <2>1 DEF LastInv, Standing
  <2>3. Launched(c)'
    BY <1>1, <1>2, <1>3, <1>5, <2>1, <2>2 DEF Launched, Registers, Syncing, At
  <2> QED BY <1>1, <1>4, <1>5, <2>1, <2>3, LastMoves DEF PC
<1> QED BY <1>6, <1>7

LEMMA BeginStands ==
    ASSUME OneAtATime, LastInv, NEW c \in Calls, NEW op \in Ops, Begin(c, op)
    PROVE  Places' /\ Standing'
<1>1. /\ UNCHANGED <<pod, service, row, dropped>> /\ call \in [Calls -> CallRec] /\ At(c, "new")
      /\ \/ op = "sync" /\ UNCHANGED latest
         \/ op # "sync" /\ latest' = c
  BY TypeParts DEF LastInv, CallsOK, Begin
<1>2. PICK pc \in {"evict", "absent", "export", "stop"} :
         /\ call' = [call EXCEPT ![c].op = op, ![c].pc = pc]
         /\ pc = "evict" => op = "launch"
         /\ pc = "stop" => op = "delete"
         /\ op = "delete" => pc \in {"stop", "absent"}
         /\ op = "launch" => pc = "evict"
  <2>1. CASE op = "launch"
    BY <2>1 DEF Begin
  <2>2. CASE op # "launch" /\ ~Registered
    BY <2>2 DEF Begin
  <2>3. CASE op = "sync" /\ Registered
    BY <2>3 DEF Begin
  <2>4. CASE op = "delete" /\ Registered
    BY <2>4 DEF Begin
  <2> QED BY <2>1, <2>2, <2>3, <2>4 DEF Ops
<1>3. /\ call'[c].op = op /\ call'[c].pc = pc
      /\ \A d \in Calls \ {c} : call'[d] = call[d]
  BY <1>1, <1>2 DEF CallRec
<1>4. CASE op = "sync"
  BY <1>1, <1>2, <1>3, <1>4, ElsewhereStands DEF Changes, At, Up, Registered
<1>5. CASE op # "sync"
  <2>1. op \in Exclusive
    BY <1>5 DEF OneAtATime, Ops
  <2>2. \A d \in Calls : Open(d) => ~Changes(d)
    BY <2>1 DEF Begin, Allowed, OneAtATime, Changes
  <2>3. Places'
    BY <1>1, <1>2, <1>3, <1>5, <2>2 DEF LastInv, Places, Changes, Open, Ended, At
  <2>4. Standing'
    BY <1>1, <1>2, <1>3, <1>5 DEF Standing, Launched, Deleted, Registers, Syncing, At
  <2> QED BY <2>3, <2>4
<1> QED BY <1>4, <1>5

LEMMA RestStands ==
    ASSUME LastInv, Commit \/ Restart \/ Gone \/ \E c \in Calls : Fail(c)
    PROVE  Places' /\ Standing'
<1>1. ASSUME NEW c \in Calls, Fail(c) PROVE Places' /\ Standing'
  <2>1. /\ UNCHANGED <<pod, row, latest, dropped>> /\ Open(c) /\ call \in [Calls -> CallRec]
        /\ call'[c].pc = "failed" /\ call'[c].op = call[c].op
        /\ \A d \in Calls \ {c} : call'[d] = call[d]
        /\ service' = service \/ call[c].pc \in {"evict", "stop"}
    BY <1>1, TypeParts DEF LastInv, CallsOK, Fail, Ends
  <2>2. CASE ~Changes(c)
    <3>1. UNCHANGED service
      BY <2>1, <2>2 DEF LastInv, Places, Changes
    <3> QED BY <2>1, <2>2, <3>1, ElsewhereStands DEF Changes, At, Up, Registered
  <2>3. CASE Changes(c)
    <3>1. c = latest
      BY <2>1, <2>3 DEF LastInv, Places
    <3>2. Launched(c)' /\ Deleted(c)'
      BY <2>1 DEF Launched, Deleted, Registers, Syncing, At
    <3> QED BY <2>1, <3>1, <3>2, LastMoves DEF PC
  <2> QED BY <2>2, <2>3
<1>2. CASE Commit
  BY <1>2, ElsewhereStands DEF Commit, Up, Registered
<1>3. CASE Restart
  <2>1. /\ UNCHANGED <<service, row, call, latest, dropped>> /\ Up /\ pod \in Pod /\ boots \in Nat
        /\ pod' = [pod EXCEPT !.boot = boots + 1, !.tree = Nothing]
    BY <1>3, TypeParts DEF LastInv, PodOK, Restart
  <2>2. pod'.token = pod.token /\ pod'.dying = pod.dying /\ pod'.boot = boots + 1
    BY <2>1 DEF Pod
  <2>3. Up'
    <3>1. pod'.boot # 0 /\ NoPod.boot = 0
      BY <2>1, <2>2 DEF NoPod
    <3> QED BY <3>1 DEF Up, NoPod
  <2>4. \A d \in Calls : call'[d] = call[d]
    BY <2>1
  <2> QED BY <2>1, <2>2, <2>3, <2>4, ElsewhereStands DEF Registered
<1>4. CASE Gone
  <2>1. /\ UNCHANGED <<service, row, call, latest, dropped>> /\ pod.dying /\ ~Up'
    BY <1>4 DEF Gone, Up
  <2>2. Places'
    BY <2>1 DEF LastInv, Places, Changes, Open, Ended, At
  <2>3. Standing'
    BY <2>1 DEF LastInv, Standing, Launched, Deleted, Registers, Syncing, At, Registered
  <2> QED BY <2>2, <2>3
<1> QED BY <1>1, <1>2, <1>3, <1>4

LEMMA LastInit == Init => LastInv
BY InitTyped DEF Init, LastInv, Places, Standing, Changes, Open, Ended, At

LEMMA LastStep ==
    ASSUME OneAtATime
    PROVE  LastInv /\ [Next]_vars => LastInv'
<1>1. LastInv /\ Next => Places' /\ Standing'
  BY BeginStands, LaunchStands, SyncStands, DeleteStands, RestStands DEF Next
<1>2. LastInv /\ UNCHANGED vars => Places' /\ Standing'
  BY ElsewhereStands DEF vars, Up, Registered
<1> QED BY <1>1, <1>2, TypeStep DEF LastInv

LEMMA LastMeans == LastInv => LastCallWins
<1> SUFFICES ASSUME LastInv, latest # Nothing
             PROVE  /\ Registers(latest) =>
                         /\ service /\ pod.token = latest /\ row.token = latest /\ ~pod.dying
                         /\ \E i \in Shown : i.phase = "Running" /\ i.boot = pod.boot
                    /\ call[latest].op = "delete" /\ At(latest, "ok") /\ latest \notin dropped
                         => (Up => pod.dying) /\ ~service /\ Shown = {}
  BY DEF LastCallWins
<1>1. CASE Registers(latest)
  <2>1. service /\ pod.token = latest /\ row.token = latest /\ ~pod.dying
    BY <1>1 DEF LastInv, Standing, Launched, Registers
  <2>2. Up /\ Registered /\ Reachable
    BY <2>1 DEF Up, NoPod, Registered, NoRow, Reachable
  <2>3. Shown = {SandboxInfo} /\ SandboxInfo.phase = "Running" /\ SandboxInfo.boot = pod.boot
    BY <2>2 DEF Shown, SandboxInfo, RowInfo
  <2>4. ~(call[latest].op = "delete" /\ At(latest, "ok"))
    BY <1>1 DEF Registers
  <2> QED BY <2>1, <2>3, <2>4
<1>2. CASE ~Registers(latest)
  BY <1>2 DEF LastInv, Standing, Deleted, Shown
<1> QED BY <1>1, <1>2

(* With launches and deletions one at a time, what the last of them         *)
(* promises holds: after a deletion that dropped no error no Service, no    *)
(* row and no pod but one on its way out, and once a launch has registered  *)
(* its worker, one the gateway can reach, whatever syncs, failures and      *)
(* restarts come in between.                                                *)
THEOREM LastCallStands ==
    ASSUME OneAtATime
    PROVE  Spec => []LastCallWins
<1>1. Init => LastInv
  BY LastInit
<1>2. LastInv /\ [Next]_vars => LastInv'
  BY LastStep
<1>3. LastInv => LastCallWins
  BY LastMeans
<1> QED BY <1>1, <1>2, <1>3, PTL DEF Spec

-----------------------------------------------------------------------------
(* The sandbox under the tools.                                             *)

Steps   == {"none", "sync", "act", "write", "wait", "land", "ok", "failed"}
ToolRec == [kind : {"none", "create"} \cup Synced \cup Writes \cup Ports \cup Jobs,
            step : Steps,
            read : Trees \cup {Nothing}]

-----------------------------------------------------------------------------
(* A sandbox call that was answered, or said "not found", stays so.         *)
LEMMA PassedStays ==
    ASSUME TypeOK, [Next]_vars, NEW d \in Calls, Passed(d)
    PROVE  Passed(d)'
<1> USE DEF At, Passed
<1>1. ASSUME NEW c \in Calls, NEW op \in Ops, Begin(c, op) PROVE Passed(d)'
  BY <1>1 DEF Begin, TypeOK
<1>2. ASSUME NEW c \in Calls, LaunchStep(c) PROVE Passed(d)'
  BY <1>2 DEF TypeOK, LaunchStep, Evict, CreatePod, CreateService, Status, Ready, NotReady,
              Upsert, Goto
<1>3. ASSUME NEW c \in Calls, SyncStep(c) PROVE Passed(d)'
  BY <1>3 DEF TypeOK, SyncStep, Export, Missing, ReadBoot, MissBoot, Skip, DoSync, MissRow, Push,
              Mark, Goto, Ends
<1>4. ASSUME NEW c \in Calls, DeleteStep(c) PROVE Passed(d)'
  BY <1>4 DEF TypeOK, DeleteStep, Stop, Drop, Goto
<1>5. ASSUME NEW c \in Calls, Fail(c) PROVE Passed(d)'
  BY <1>5 DEF TypeOK, Fail, Open, Ended, Ends
<1>6. CASE Commit \/ Restart \/ Gone
  BY <1>6 DEF Commit, Restart, Gone
<1>7. CASE UNCHANGED vars
  BY <1>7 DEF vars
<1> QED BY <1>1, <1>2, <1>3, <1>4, <1>5, <1>6, <1>7 DEF Next

(* A tool call moves on, or is answered.                                    *)
LEMMA MovesTyped ==
    ASSUME StepsOK, NEW c \in Calls,
           \A d \in Calls \ {c} : Passed(d) => Passed(d)',
           \/ \E step \in {"act", "write", "wait"} :
                /\ ToolTo(c, step)
                /\ step \in {"write", "wait"} => Passed(c)'
           \/ \E answer \in {"ok", "failed"} : Answers(c, answer)
    PROVE  StepsOK'
<1>1. \A d \in Calls \ {c} : tool'[d] = tool[d]
  BY DEF StepsOK, ToolTo, Answers
<1>2. CASE \E step \in {"act", "write", "wait"} :
              /\ ToolTo(c, step)
              /\ step \in {"write", "wait"} => Passed(c)'
  BY <1>1, <1>2 DEF StepsOK, ToolTo
<1>3. CASE \E answer \in {"ok", "failed"} : Answers(c, answer)
  <2>1. PICK answer \in {"ok", "failed"} :
          tool' = [tool EXCEPT ![c] = [kind |-> "none", step |-> answer, read |-> Nothing]]
    BY <1>3 DEF Answers, NoTool
  <2> QED BY <1>1, <2>1 DEF StepsOK
<1> QED BY <1>2, <1>3

LEMMA SameTools ==
    ASSUME StepsOK, UNCHANGED tool, \A d \in Calls : Passed(d) => Passed(d)'
    PROVE  StepsOK'
BY DEF StepsOK

LEMMA StartTyped ==
    ASSUME TypeOK, StepsOK, NEW c \in Calls, NEW kind \in Kinds, Start(c, kind)
    PROVE  StepsOK' /\ [Next]_vars
<1>1. [Next]_vars
  BY DEF Start, Next, Ops
<1>2. \A d \in Calls : Passed(d) => Passed(d)'
  BY <1>1, PassedStays
<1>3. CASE Answers(c, "failed")
  <2>1. \E answer \in {"ok", "failed"} : Answers(c, answer)
    BY <1>3
  <2>2. \A d \in Calls \ {c} : Passed(d) => Passed(d)'
    BY <1>2
  <2> QED BY <1>1, <2>1, <2>2, MovesTyped
<1>4. CASE \E step \in {"sync", "act"} :
             /\ tool' = [tool EXCEPT ![c].kind = kind, ![c].step = step]
             /\ kind \in {"create"} \cup Synced \cup Writes \cup Ports \cup Jobs
  <2>1. PICK step \in {"sync", "act"} :
          tool' = [tool EXCEPT ![c].kind = kind, ![c].step = step]
    BY <1>4
  <2>2. \A d \in Calls \ {c} : tool'[d] = tool[d]
    BY <2>1 DEF StepsOK
  <2>3. tool'[c] = [tool[c] EXCEPT !.kind = kind, !.step = step]
    BY <2>1 DEF StepsOK
  <2>4. tool \in [Calls -> ToolRec] /\ kind \in {"create"} \cup Synced \cup Writes \cup Ports \cup Jobs
    BY <1>4 DEF StepsOK, ToolRec, Steps
  <2>5. [tool[c] EXCEPT !.kind = kind, !.step = step] \in ToolRec
    BY <2>4 DEF ToolRec, Steps
  <2>6. tool' = [tool EXCEPT ![c] = [tool[c] EXCEPT !.kind = kind, !.step = step]]
    BY <2>1, <2>4
  <2>7. tool' \in [Calls -> ToolRec]
    BY <2>4, <2>5, <2>6
  <2>8. \A d \in Calls : /\ tool'[d].step \in {"write", "wait"} => Passed(d)'
                         /\ tool'[d].step = "land" => tool'[d].read \in Trees
    <3>1. tool'[c].step = step
      BY <2>3, <2>4 DEF ToolRec
    <3> QED BY <1>2, <2>2, <3>1 DEF StepsOK
  <2> QED BY <1>1, <2>7, <2>8 DEF StepsOK, ToolRec, Steps
<1> QED BY <1>1, <1>3, <1>4 DEF Start

(* The tools' own steps: what they write is a tree, into a pod that is up.  *)
LEMMA WrittenTyped ==
    ASSUME TypeOK, WorkOK, NEW content \in Trees, Reachable, UNCHANGED vars, Written(content)
    PROVE  WorkOK'
BY DEF WorkOK, Written, Reachable, Up, vars

LEMMA AnswersTyped ==
    ASSUME TypeOK, WorkOK, StepsOK, NEW c \in Calls,
           \/ Stopped(c) \/ Created(c) \/ FileRead(c) \/ Waited(c) \/ Execute(c)
           \/ JobCall(c) \/ Read(c) \/ \E t \in Trees \ {Empty} : FileWrite(c, t)
    PROVE  UNCHANGED vars /\ WorkOK' /\ StepsOK'
<1>1. UNCHANGED vars
  BY DEF Stopped, Created, FileRead, Waited, Execute, JobCall, Read, FileWrite
<1>2. \A d \in Calls : Passed(d) => Passed(d)'
  BY <1>1 DEF vars, At, Passed
<1>3. WorkOK'
  <2>1. CASE UNCHANGED <<work, kept>>
    BY <1>1, <2>1 DEF WorkOK, vars, Up
  <2>2. CASE Reachable /\ \E content \in Trees : Written(content)
    BY <1>1, <2>2, WrittenTyped
  <2> QED BY <2>1, <2>2 DEF Stopped, Created, FileRead, Waited, Execute, JobCall, Read, FileWrite
<1>4. StepsOK'
  <2>1. CASE \E answer \in {"ok", "failed"} : Answers(c, answer)
    BY <1>2, <2>1, MovesTyped
  <2>2. CASE (FileRead(c) /\ ToolTo(c, "write")) \/ (Execute(c) /\ ToolTo(c, "wait"))
    <3>1. tool[c].kind \in Synced
      BY <2>2 DEF FileRead, Execute, ToolAt, Synced
    <3>2. Passed(c)
      BY <2>2, <3>1 DEF FileRead, Execute, Prepared
    <3> QED BY <1>2, <2>2, <3>2, MovesTyped
  <2>3. CASE Read(c) /\ tool' = [tool EXCEPT ![c].read = Held(c), ![c].step = "land"]
    <3>1. Held(c) \in Trees
      BY <2>1, <2>3, ToolsAssumption DEF Held, Read, WorkOK, Answers, NoTool, StepsOK
    <3> QED BY <1>2, <2>3, <3>1 DEF StepsOK
  <2>4. Stopped(c) \/ Created(c) \/ Waited(c) \/ JobCall(c) \/ (\E t \in Trees : FileWrite(c, t))
          => \E answer \in {"ok", "failed"} : Answers(c, answer)
    BY DEF Stopped, Created, Waited, JobCall, FileWrite
  <2>5. CASE FileRead(c)
    <3>1. ToolTo(c, "write") \/ \E answer \in {"ok", "failed"} : Answers(c, answer)
      BY <2>5 DEF FileRead
    <3>2. CASE ToolTo(c, "write")
      BY <2>2, <2>5, <3>2
    <3> QED BY <2>1, <3>1, <3>2
  <2>6. CASE Execute(c)
    BY <2>1, <2>2, <2>6 DEF Execute
  <2>7. CASE Read(c)
    BY <2>1, <2>3, <2>7 DEF Read
  <2> QED BY <2>1, <2>4, <2>5, <2>6, <2>7
<1> QED BY <1>1, <1>3, <1>4

-----------------------------------------------------------------------------
(* The second sync of a tool call reuses its sandbox call, and sandbox-port *)
(* commits: the steps of the tools that are none of module Sandbox.         *)
LEMMA SyncAgainTyped ==
    ASSUME SyncInv, WorkOK, StepsOK, NEW c \in Calls, SyncAgain(c)
    PROVE  SyncInv' /\ WorkOK' /\ StepsOK'
<1>1. UNCHANGED <<head, pod, service, row, latest, overlap, dropped, boots, left, work, kept>>
  BY DEF SyncAgain
<1>2. WorkOK'
  BY <1>1 DEF WorkOK, Up
<1>3. tool[c].step = "sync"
  BY DEF SyncAgain, ToolAt
<1>4. CASE UNCHANGED call /\ (ToolTo(c, "act") \/ Answers(c, "ok"))
  <2>1. SyncInv'
    BY <1>1, <1>4, SyncInvStep DEF vars
  <2>2. \A d \in Calls \ {c} : Passed(d) => Passed(d)'
    BY <1>4 DEF Passed
  <2> QED BY <1>2, <1>4, <2>1, <2>2, MovesTyped
<1>5. CASE call' = [call EXCEPT ![c].op = "sync", ![c].pc = "export"] /\ ToolTo(c, "act")
  <2>1. CallsOK'
    <3>1. CallsOK /\ CallRec' = CallRec
      BY <1>1, TypeParts DEF SyncInv, CallRec
    <3>2. [call[c] EXCEPT !.op = "sync", !.pc = "export"] \in CallRec
      BY <3>1 DEF CallsOK, CallRec, PC, Ops
    <3>3. call' = [call EXCEPT ![c] = [call[c] EXCEPT !.op = "sync", !.pc = "export"]]
      BY <1>5, <3>1 DEF CallsOK
    <3> QED BY <3>1, <3>2, <3>3 DEF CallsOK
  <2>2. TypeOK'
    BY <1>1, <2>1, Kept, TypeParts DEF SyncInv
  <2>3. Exported' /\ PushedBefore' /\ BootMeansPushed'
    BY <1>1, <1>5 DEF SyncInv, TypeOK, Exported, PushedBefore, BootMeansPushed, Syncing, At, Up
  <2>4. \A d \in Calls \ {c} : Passed(d) => Passed(d)'
    BY <1>5 DEF Passed, SyncInv, TypeOK
  <2>5. StepsOK'
    BY <1>5, <2>4, MovesTyped
  <2> QED BY <1>2, <2>2, <2>3, <2>5 DEF SyncInv
<1> QED BY <1>4, <1>5 DEF SyncAgain

LEMMA LandTyped ==
    ASSUME SyncInv, WorkOK, StepsOK, NEW c \in Calls, Land(c)
    PROVE  SyncInv' /\ WorkOK' /\ StepsOK'
<1>1. /\ UNCHANGED <<pod, service, row, call, latest, overlap, dropped, boots, left, work>>
      /\ head' = tool[c].read /\ Answers(c, "ok") /\ kept' \in {kept, Nothing}
  BY DEF Land, Keeps
<1>2. head' \in Trees
  BY <1>1 DEF Land, ToolAt, StepsOK
<1>3. TypeOK'
  <2>1. RestOK'
    BY <1>1, <1>2, TypeParts DEF SyncInv, RestOK
  <2> QED BY <1>1, <2>1, Kept, TypeParts DEF SyncInv
<1>4. Exported' /\ PushedBefore' /\ BootMeansPushed'
  BY <1>1 DEF SyncInv, Exported, PushedBefore, BootMeansPushed, Syncing, At, Up
<1>5. WorkOK'
  BY <1>1 DEF WorkOK, Up
<1>6. \E answer \in {"ok", "failed"} : Answers(c, answer)
  BY <1>1
<1>7. \A d \in Calls \ {c} : Passed(d) => Passed(d)'
  BY <1>1 DEF Passed
<1>8. StepsOK'
  BY <1>6, <1>7, MovesTyped
<1> QED BY <1>3, <1>4, <1>5, <1>8 DEF SyncInv

(* The calls of module Sandbox: the workspace goes with its worker.         *)
LEMMA CallsTyped ==
    ASSUME SyncInv, WorkOK, StepsOK,
           Others \/ \E c \in Calls : Pushes(c) \/ Moves(c) \/ Misses(c)
    PROVE  SyncInv' /\ WorkOK' /\ StepsOK'
<1>1. Next /\ UNCHANGED tool
  BY ToolsAssumption
     DEF Others, Pushes, Moves, Misses, Next, SyncStep
<1>2. SyncInv'
  BY <1>1, SyncInvStep
<1>3. \A d \in Calls : Passed(d) => Passed(d)'
  BY <1>1, PassedStays DEF SyncInv
<1>4. StepsOK'
  BY <1>1, <1>3, SameTools
<1>5. WorkOK'
  <2>1. CASE \E c \in Calls : Pushes(c)
    <3>1. PICK c \in Calls : Pushes(c)
      BY <2>1
    <3>2. call[c].tree \in Trees
      BY <3>1 DEF Pushes, Push, SyncInv, Exported, Syncing, At
    <3>0. call \in [Calls -> CallRec]
      BY TypeParts DEF SyncInv, CallsOK
    <3>3. CASE UNCHANGED pod /\ Ends(c, "failed")
      <4>1. ~At(c, "mark")'
        BY <3>0, <3>3 DEF Ends, At
      <4> QED BY <3>1, <3>3, <4>1 DEF Pushes, WorkOK, Up
    <3>4. CASE Reachable /\ pod' = [pod EXCEPT !.tree = call[c].tree] /\ Goto(c, "mark")
      <4>0. At(c, "mark")'
        BY <3>0, <3>4 DEF Goto, At, CallRec
      <4>1. work' = call[c].tree /\ pod' = [pod EXCEPT !.tree = call[c].tree] /\ UNCHANGED kept
        BY <3>1, <3>4, <4>0 DEF Pushes
      <4>2. pod'.boot > 0
        BY <3>4, <4>1 DEF Reachable, SyncInv, TypeOK
      <4>3. Up'
        BY <4>2 DEF Up, NoPod
      <4> QED BY <3>2, <4>1, <4>3 DEF WorkOK
    <3> QED BY <3>1, <3>3, <3>4 DEF Pushes, Push
  <2>3. CASE \E c \in Calls : Misses(c)
    BY <2>3 DEF Misses, MissBoot, MissRow, WorkOK, Up
  <2>2. CASE Others \/ \E c \in Calls : Moves(c)
    <3>1. /\ work' = IF pod'.boot = pod.boot THEN work ELSE Nothing
          /\ kept' \in {kept, Nothing}
      BY <2>2 DEF Others, Moves, Keeps
    <3>2. CASE work' = Nothing
      BY <3>1, <3>2 DEF WorkOK
    <3>3. CASE work' # Nothing
      <4>1. work' = work /\ Up /\ pod'.boot = pod.boot
        BY <3>1, <3>3 DEF WorkOK
      <4>2. pod'.boot > 0
        BY <4>1 DEF SyncInv, TypeOK
      <4>3. Up'
        BY <4>2 DEF Up, NoPod
      <4> QED BY <3>1, <4>1, <4>3 DEF WorkOK
    <3> QED BY <3>2, <3>3
  <2> QED BY <2>1, <2>2, <2>3
<1> QED BY <1>2, <1>4, <1>5

-----------------------------------------------------------------------------
ToolsInv == SyncInv /\ WorkOK /\ StepsOK

LEMMA ToolsInit == ToolInit => ToolsInv
<1>1. ToolInit => WorkOK /\ StepsOK
  BY DEF ToolInit, WorkOK, StepsOK, NoTool
<1> QED BY <1>1, SyncInvInit DEF ToolInit, ToolsInv

LEMMA ToolsStep == ToolsInv /\ [ToolNext]_toolVars => ToolsInv'
<1> SUFFICES ASSUME ToolsInv, [ToolNext]_toolVars PROVE ToolsInv'
  OBVIOUS
<1> USE DEF ToolsInv
<1>0. TypeOK
  BY DEF SyncInv
<1>1. ASSUME NEW c \in Calls, NEW kind \in Kinds, Start(c, kind) PROVE ToolsInv'
  <2>1. StepsOK' /\ [Next]_vars
    BY <1>0, <1>1, StartTyped
  <2>2. UNCHANGED <<pod, work, kept>>
    BY <1>1 DEF Start, Begin, vars
  <2> QED BY <2>1, <2>2, SyncInvStep DEF WorkOK, Up
<1>2. ASSUME NEW c \in Calls,
             \/ Stopped(c) \/ Created(c) \/ FileRead(c) \/ Waited(c) \/ Execute(c)
             \/ JobCall(c) \/ Read(c) \/ \E t \in Trees \ {Empty} : FileWrite(c, t)
      PROVE  ToolsInv'
  BY <1>0, <1>2, AnswersTyped, SyncInvStep
<1>3. ASSUME NEW c \in Calls, SyncAgain(c) \/ Land(c) PROVE ToolsInv'
  BY <1>3, SyncAgainTyped, LandTyped
<1>4. CASE Others \/ \E c \in Calls : Pushes(c) \/ Moves(c) \/ Misses(c)
  BY <1>4, CallsTyped
<1>5. CASE UNCHANGED toolVars
  <2>1. UNCHANGED vars /\ UNCHANGED <<pod, call, work, tool, kept>>
    BY <1>5 DEF toolVars, vars
  <2> QED BY <2>1, SyncInvStep DEF WorkOK, StepsOK, Passed, Up
<1> QED BY <1>1, <1>2, <1>3, <1>4, <1>5 DEF ToolNext

(* The registry, the pod, the calls and the tool calls stay well typed: a   *)
(* tool only writes, and only waits for a command, once its own sync of the *)
(* workspace has succeeded or said "not found" (ensureSynced), and what     *)
(* sandbox-port commits is content it has read.                             *)
THEOREM ToolsTypeCorrect == ToolSpec => []ToolsTypeOK
<1>1. ToolsInv => ToolsTypeOK
  BY DEF ToolsInv, SyncInv, ToolsTypeOK
<1> QED BY <1>1, ToolsInit, ToolsStep, PTL DEF ToolSpec

(* Restart detection also under the tools, which sync again on calls that   *)
(* have been answered and commit to the branch themselves: the row never    *)
(* vouches for a workspace that the running worker has not been sent.       *)
THEOREM ToolsRestartDetection == ToolSpec => []BootMeansPushed
<1>1. ToolsInv => BootMeansPushed
  BY DEF ToolsInv, SyncInv
<1> QED BY <1>1, ToolsInit, ToolsStep, PTL DEF ToolSpec

-----------------------------------------------------------------------------
(* A step of the tools is one of module Sandbox, or of these two.           *)
LEMMA ToolsOnSandbox ==
    ASSUME ToolsInv, [ToolNext]_toolVars
    PROVE  \/ [Next]_vars
           \/ \E c \in Calls : SyncAgain(c) \/ Land(c)
<1>1. ASSUME NEW c \in Calls, NEW kind \in Kinds, Start(c, kind) PROVE [Next]_vars
  BY <1>1, StartTyped DEF ToolsInv, SyncInv
<1>2. ASSUME NEW c \in Calls,
             \/ Stopped(c) \/ Created(c) \/ FileRead(c) \/ Waited(c) \/ Execute(c)
             \/ JobCall(c) \/ Read(c) \/ \E t \in Trees \ {Empty} : FileWrite(c, t)
      PROVE  [Next]_vars
  BY <1>2, AnswersTyped DEF ToolsInv, SyncInv
<1>3. ASSUME Others \/ \E c \in Calls : Pushes(c) \/ Moves(c) \/ Misses(c) PROVE Next
  BY <1>3, ToolsAssumption DEF Others, Pushes, Moves, Misses, Next, SyncStep
<1>4. ASSUME UNCHANGED toolVars PROVE UNCHANGED vars
  BY <1>4 DEF toolVars
<1> QED BY <1>1, <1>2, <1>3, <1>4 DEF ToolNext

(* What the row says of the workspace, under the tools too.                 *)
LEMMA SyncAgainSynchronised ==
    ASSUME SkipInv, NEW c \in Calls, SyncAgain(c)
    PROVE  Synchronised'
<1>1. UNCHANGED <<pod, row, overlap, left>>
  BY DEF SyncAgain
<1>2. Clean' => Clean
  BY <1>1 DEF Clean
<1>3. CASE UNCHANGED call
  BY <1>1, <1>2, <1>3, SyncsLeft DEF Syncing, At
<1>4. CASE call' = [call EXCEPT ![c].op = "sync", ![c].pc = "export"]
  <2>1. ~Syncing(c)
    BY DEF SyncAgain, Passed, At, Syncing
  <2>2. \A d \in Calls :
          /\ Syncing(d)' => Syncing(d) /\ call'[d].boot = call[d].boot /\ call'[d].tree = call[d].tree
          /\ At(d, "mark")' <=> At(d, "mark")
    BY <1>4, <2>1 DEF SkipInv, SyncInv, TypeOK, Syncing, At
  <2> QED BY <1>1, <1>2, <2>2, SyncsLeft
<1> QED BY <1>3, <1>4 DEF SyncAgain

LEMMA LandSynchronised ==
    ASSUME SkipInv, NEW c \in Calls, Land(c)
    PROVE  Synchronised'
<1>1. UNCHANGED <<pod, row, call>> /\ (Clean' => Clean)
  BY DEF Land, Clean
<1> QED BY <1>1, SyncsLeft DEF Syncing, At

ToolsSkipInv == ToolsInv /\ Synchronised

LEMMA ToolsSkipStep == ToolsSkipInv /\ [ToolNext]_toolVars => ToolsSkipInv'
<1> SUFFICES ASSUME ToolsSkipInv, [ToolNext]_toolVars PROVE Synchronised'
  BY ToolsStep DEF ToolsSkipInv
<1>1. SkipInv /\ ToolsInv
  BY DEF ToolsSkipInv, ToolsInv, SkipInv
<1>2. CASE [Next]_vars
  BY <1>1, <1>2, SkipInvStep DEF SkipInv
<1>3. CASE \E c \in Calls : SyncAgain(c) \/ Land(c)
  BY <1>1, <1>3, SyncAgainSynchronised, LandSynchronised
<1> QED BY <1>1, <1>2, <1>3, ToolsOnSandbox

(* Skips stay sound under the tools, whose files the row does not know of:  *)
(* with no failure and no two syncs at once, a tool's sync is skipped only  *)
(* if the worker was sent the branch's tree.                                *)
THEOREM ToolsSkipsOnlySynced == ToolSpec => SkipSound
<1>1. ToolInit => ToolsSkipInv
  BY ToolsInit, SkipInvInit DEF ToolInit, ToolsSkipInv, SkipInv
<1>2. ToolsSkipInv /\ [ToolNext]_toolVars => [SkipsRight]_vars
  BY SkipInvMeans DEF ToolsSkipInv, ToolsInv, SkipInv
<1> QED BY <1>1, <1>2, ToolsSkipStep, PTL DEF ToolSpec, SkipSound, SkipsRight

-----------------------------------------------------------------------------
(* Launches and deletions one at a time, under the tools: a tool's second   *)
(* sync makes its call one that only syncs.                                 *)
LEMMA SyncAgainStands ==
    ASSUME LastInv, NEW c \in Calls, SyncAgain(c)
    PROVE  Places' /\ Standing'
<1>1. UNCHANGED <<pod, service, row, latest, dropped>>
  BY DEF SyncAgain
<1>2. CASE UNCHANGED call
  BY <1>1, <1>2, ElsewhereStands DEF Up, Registered
<1>3. CASE call' = [call EXCEPT ![c].op = "sync", ![c].pc = "export"]
  <2>1. /\ call'[c].op = "sync" /\ call'[c].pc = "export"
        /\ \A d \in Calls \ {c} : call'[d] = call[d]
    BY <1>3 DEF LastInv, TypeOK
  <2> QED BY <1>1, <2>1, ElsewhereStands DEF Changes, At, Up, Registered
<1> QED BY <1>2, <1>3 DEF SyncAgain

LEMMA LandStands ==
    ASSUME LastInv, NEW c \in Calls, Land(c)
    PROVE  Places' /\ Standing'
<1>1. UNCHANGED <<pod, service, row, call, latest, dropped>>
  BY DEF Land
<1> QED BY <1>1, ElsewhereStands DEF Up, Registered

ToolsLastInv == ToolsInv /\ Places /\ Standing

LEMMA ToolsLastInit == ToolInit => ToolsLastInv
BY ToolsInit, LastInit DEF ToolInit, ToolsLastInv, LastInv

LEMMA ToolsLastStep ==
    ASSUME OneAtATime
    PROVE  ToolsLastInv /\ [ToolNext]_toolVars => ToolsLastInv'
<1> SUFFICES ASSUME ToolsLastInv, [ToolNext]_toolVars PROVE Places' /\ Standing'
  BY ToolsStep DEF ToolsLastInv
<1>1. LastInv /\ ToolsInv
  BY DEF ToolsLastInv, ToolsInv, SyncInv, LastInv
<1>2. CASE [Next]_vars
  BY <1>1, <1>2, LastStep DEF LastInv
<1>3. CASE \E c \in Calls : SyncAgain(c) \/ Land(c)
  BY <1>1, <1>3, SyncAgainStands, LandStands
<1> QED BY <1>1, <1>2, <1>3, ToolsOnSandbox

(* What the last launch or deletion promises holds under the tools, whose   *)
(* sandbox-create launches and then syncs on the same call.                 *)
THEOREM ToolsLastCallStands ==
    ASSUME OneAtATime
    PROVE  ToolSpec => []LastCallWins
<1>1. ToolInit => ToolsLastInv
  BY ToolsLastInit
<1>2. ToolsLastInv /\ [ToolNext]_toolVars => ToolsLastInv'
  BY ToolsLastStep
<1>3. ToolsLastInv => LastCallWins
  BY LastMeans DEF ToolsLastInv, ToolsInv, SyncInv, LastInv
<1> QED BY <1>1, <1>2, <1>3, PTL DEF ToolSpec

-----------------------------------------------------------------------------
(* While the written content is kept, the worker stays the one the row      *)
(* vouches for, at the head of the branch, so every sync that comes exports *)
(* that tree, reads that boot id and skips.                                 *)
InStep(d)   == /\ call[d].tree = head
               /\ At(d, "boot") \/ (At(d, "check") /\ call[d].boot = pod.boot)
Vouched     == /\ Reachable /\ ~pod.dying /\ row.rev = head /\ row.boot = pod.boot
               /\ \A d \in Calls : Syncing(d) => InStep(d)
Undisturbed == kept # Nothing => work = kept /\ Vouched
KeptInv     == ToolsLastInv /\ Undisturbed

(* What stays while nobody writes, commits something else or restarts.      *)
LEMMA VouchedStays ==
    ASSUME Vouched, UNCHANGED <<head, pod, service>>, row' = row,
           \A d \in Calls : Syncing(d)' => Syncing(d) /\ call'[d] = call[d]
    PROVE  Vouched'
BY DEF Vouched, Reachable, Up, InStep, Syncing, At

LEMMA LaunchVouched ==
    ASSUME LastInv, Vouched, NEW c \in Calls, LaunchStep(c),
           UNCHANGED service, pod'.boot = pod.boot, pod'.dying = pod.dying
    PROVE  Vouched'
<1>1. /\ UNCHANGED head /\ Up /\ service /\ pod.boot > 0 /\ ~pod.dying
      /\ call \in [Calls -> CallRec] /\ row \in Record /\ pod \in Pod
  BY TypeParts DEF LastInv, Vouched, Reachable, PodOK, RowOK, CallsOK, LaunchStep, Evict,
                   CreatePod, CreateService, Status, Ready, NotReady, Upsert
<1>2. ~Evict(c) /\ (NotReady(c) => UNCHANGED pod)
  <2>1. pod' # Leaving
    BY <1>1 DEF Leaving, Pod
  <2> QED BY <2>1 DEF Evict, Teardown, NotReady
<1>3. UNCHANGED <<pod, service>>
  BY <1>1, <1>2 DEF LaunchStep, CreatePod, CreateService, Status, Ready, Upsert
<1>4. \A d \in Calls : Syncing(d)' => Syncing(d) /\ call'[d] = call[d]
  <2>1. \E pc \in {"service", "status", "wait", "upsert", "export", "failed"} : Goto(c, pc)
    BY <1>2 DEF LaunchStep, CreatePod, CreateService, Status, Ready, NotReady, Upsert
  <2> QED BY <1>1, <2>1 DEF Goto, Syncing, CallRec
<1>5. CASE Upsert(c)
  <2>1. c = latest /\ pod.token = c
    BY <1>5, SandboxAssumption
       DEF LastInv, Places, Standing, Launched, Upsert, At, Open, Ended, Changes
  <2>2. row'.token = c /\ row'.rev = row.rev /\ row'.boot = row.boot
    BY <1>1, <1>5 DEF Upsert, UpsertedToken, Record
  <2> QED BY <1>1, <1>3, <1>4, <2>1, <2>2 DEF Vouched, Reachable, Up, InStep, Syncing, At
<1>6. CASE ~Upsert(c)
  BY <1>1, <1>2, <1>3, <1>4, <1>6, VouchedStays
     DEF LaunchStep, CreatePod, CreateService, Status, Ready, NotReady
<1> QED BY <1>5, <1>6

Heeds(c) == \/ Export(c) \/ Missing(c) \/ ReadBoot(c) \/ Skip(c)
            \/ DoSync(c) \/ Push(c) \/ Mark(c)

LEMMA SyncVouched ==
    ASSUME LastInv, Vouched, NEW c \in Calls, Heeds(c)
    PROVE  ~Push(c) /\ Vouched'
<1>1. /\ Reachable /\ row.rev = head /\ row.boot = pod.boot /\ pod.boot > 0
      /\ call \in [Calls -> CallRec] /\ UNCHANGED <<head, service>>
  BY TypeParts DEF LastInv, Vouched, Reachable, PodOK, CallsOK,
                   Heeds, Export, Missing, ReadBoot, Skip, DoSync, Push, Mark
<1>2. ~Push(c) /\ ~Mark(c)
  BY DEF Vouched, InStep, Syncing, Push, Mark, At
<1>3. ~DoSync(c)
  BY <1>1 DEF Vouched, InStep, Syncing, DoSync, AlreadySynced, At
<1>4. /\ UNCHANGED <<pod, row>>
      /\ \A d \in Calls \ {c} : call'[d] = call[d]
  BY <1>1, <1>2, <1>3 DEF Heeds, Export, Missing, ReadBoot, Skip, Ends
<1>5. Syncing(c)' => InStep(c)'
  <2>1. CASE Export(c)
    BY <1>1, <2>1 DEF Export, InStep, At, CallRec
  <2>2. CASE ReadBoot(c)
    <3>1. call[c].tree = head
      BY <2>2 DEF ReadBoot, Vouched, Syncing, InStep, At
    <3> QED BY <1>1, <2>2, <3>1 DEF ReadBoot, InStep, At, CallRec
  <2>3. CASE Skip(c) \/ Missing(c)
    BY <1>1, <2>3 DEF Skip, Missing, Ends, Syncing, CallRec
  <2> QED BY <1>2, <1>3, <2>1, <2>2, <2>3 DEF Heeds
<1>6. \A d \in Calls \ {c} : Syncing(d)' => InStep(d)'
  BY <1>1, <1>4 DEF Vouched, Syncing, InStep, At
<1> QED BY <1>1, <1>2, <1>4, <1>5, <1>6 DEF Vouched, Reachable, Up

LEMMA OtherVouched ==
    ASSUME LastInv, Vouched, UNCHANGED <<head, service>>,
           pod'.boot = pod.boot, pod'.dying = pod.dying,
           \/ Commit \/ Restart \/ Gone
           \/ \E c \in Calls : \/ \E op \in Ops : Begin(c, op)
                               \/ DeleteStep(c) \/ Fail(c)
    PROVE  Vouched'
<1>1. /\ Up /\ ~pod.dying /\ pod.boot > 0 /\ pod.boot <= boots /\ boots \in Nat
      /\ call \in [Calls -> CallRec] /\ pod \in Pod
  BY TypeParts DEF LastInv, Vouched, Reachable, PodOK, CallsOK, Pod
<1>2. ~Commit /\ ~Restart /\ ~Gone
  <2>1. ~Commit
    BY DEF Commit
  <2>2. Restart => pod'.boot = boots + 1
    BY <1>1 DEF Restart, Pod
  <2> QED BY <1>1, <2>1, <2>2 DEF Gone
<1>3. ASSUME NEW c \in Calls, DeleteStep(c) PROVE FALSE
  <2>1. CASE Stop(c)
    BY <1>1, <2>1 DEF Stop, Teardown, Leaving, Pod
  <2>2. CASE Drop(c)
    BY <1>1, <2>2, SandboxAssumption
       DEF Drop, LastInv, Places, Standing, Deleted, At, Open, Ended, Changes
  <2> QED BY <1>3, <2>1, <2>2 DEF DeleteStep
<1>4. ASSUME NEW c \in Calls, NEW op \in Ops, Begin(c, op) PROVE Vouched'
  <2>1. \E pc \in {"evict", "absent", "export", "stop"} :
           call' = [call EXCEPT ![c].op = op, ![c].pc = pc]
    <3>1. CASE op = "launch"
      BY <1>4, <3>1 DEF Begin
    <3>2. CASE op # "launch" /\ ~Registered
      BY <1>4, <3>2 DEF Begin
    <3>3. CASE op = "sync" /\ Registered
      BY <1>4, <3>3 DEF Begin
    <3>4. CASE op = "delete" /\ Registered
      BY <1>4, <3>4 DEF Begin
    <3> QED BY <3>1, <3>2, <3>3, <3>4 DEF Ops
  <2>2. \A d \in Calls : Syncing(d)' => Syncing(d) /\ call'[d] = call[d]
    BY <1>1, <2>1 DEF Syncing, CallRec
  <2> QED BY <1>4, <2>2, VouchedStays DEF Begin
<1>5. ASSUME NEW c \in Calls, Fail(c) PROVE Vouched'
  <2>1. \A d \in Calls : Syncing(d)' => Syncing(d) /\ call'[d] = call[d]
    BY <1>1, <1>5 DEF Fail, Ends, Syncing, CallRec
  <2> QED BY <1>5, <2>1, VouchedStays DEF Fail
<1> QED BY <1>2, <1>3, <1>4, <1>5

(* The tools' own steps: they write, sync again and commit.                 *)
LEMMA ToolsUndisturbed ==
    ASSUME KeptInv, NEW c \in Calls,
           \/ \E kind \in Kinds : Start(c, kind) /\ UNCHANGED vars
           \/ Stopped(c) \/ Created(c) \/ FileRead(c) \/ Waited(c) \/ Execute(c)
           \/ JobCall(c) \/ Read(c) \/ \E t \in Trees \ {Empty} : FileWrite(c, t)
           \/ SyncAgain(c) \/ Land(c)
    PROVE  Undisturbed'
<1>1. CASE \E content \in Trees : Written(content) /\ UNCHANGED vars
  <2>1. PICK content \in Trees : Written(content) /\ UNCHANGED vars
    BY <1>1
  <2>2. kept' # Nothing => work' = kept' /\ Settled
    BY <2>1 DEF Written
  <2>3. Settled => Vouched
    BY DEF Settled, Vouched
  <2>4. Vouched => Vouched'
    BY <2>1, VouchedStays DEF vars, Syncing
  <2> QED BY <2>2, <2>3, <2>4 DEF Undisturbed
<1>2. CASE UNCHANGED vars /\ UNCHANGED <<work, kept>>
  <2>1. Vouched => Vouched'
    BY <1>2, VouchedStays DEF vars, Syncing
  <2> QED BY <1>2, <2>1 DEF KeptInv, Undisturbed
<1>3. CASE SyncAgain(c)
  <2>1. call \in [Calls -> CallRec]
    BY TypeParts DEF KeptInv, ToolsLastInv, ToolsInv, SyncInv, CallsOK
  <2>2. \A d \in Calls : Syncing(d)' => Syncing(d) /\ call'[d] = call[d]
    BY <1>3, <2>1 DEF SyncAgain, Syncing, CallRec
  <2>3. Vouched => Vouched'
    BY <1>3, <2>2, VouchedStays DEF SyncAgain
  <2> QED BY <1>3, <2>3 DEF KeptInv, Undisturbed, SyncAgain
<1>4. CASE Land(c)
  <2>1. UNCHANGED <<pod, service, row, call, work>>
    BY <1>4 DEF Land
  <2>2. kept' # Nothing => kept' = kept /\ head' = head
    BY <1>4 DEF Land, Keeps
  <2>3. head' = head /\ Vouched => Vouched'
    BY <2>1, VouchedStays DEF Syncing
  <2> QED BY <2>1, <2>2, <2>3 DEF KeptInv, Undisturbed
<1>5. \/ UNCHANGED vars /\ UNCHANGED <<work, kept>>
      \/ \E content \in Trees : Written(content) /\ UNCHANGED vars
      \/ SyncAgain(c) \/ Land(c)
  BY DEF Start, Stopped, Created, FileRead, Waited, Execute, JobCall, Read, FileWrite
<1> QED BY <1>1, <1>2, <1>3, <1>4, <1>5

(* The sandbox calls, the branch and the worker.                            *)
LEMMA SandboxUndisturbed ==
    ASSUME KeptInv,
           Others \/ \E c \in Calls : Pushes(c) \/ Moves(c) \/ Misses(c)
    PROVE  Undisturbed'
<1> SUFFICES ASSUME kept' # Nothing PROVE work' = kept' /\ Vouched'
  BY DEF Undisturbed
<1>1. LastInv
  BY DEF KeptInv, ToolsLastInv, ToolsInv, SyncInv, LastInv
<1>2. kept # Nothing
  BY DEF Others, Pushes, Moves, Misses, Keeps
<1>3. Vouched /\ work = kept
  BY <1>2 DEF KeptInv, Undisturbed
<1>4. CASE \E c \in Calls : Pushes(c)
  BY <1>1, <1>3, <1>4, SyncVouched DEF Pushes, Heeds
<1>5. CASE Others \/ \E c \in Calls : Moves(c)
  <2>1. /\ UNCHANGED <<head, service>> /\ pod'.boot = pod.boot /\ pod'.dying = pod.dying
        /\ kept' = kept /\ work' = work
    BY <1>5 DEF Others, Moves, Keeps
  <2>2. \/ Commit \/ Restart \/ Gone
        \/ \E c \in Calls : \/ \E op \in Ops : Begin(c, op)
                            \/ LaunchStep(c) \/ DeleteStep(c) \/ Fail(c)
                            \/ Heeds(c)
    BY <1>5, ToolsAssumption DEF Others, Moves, Heeds
  <2>3. Vouched'
    BY <1>1, <1>3, <2>1, <2>2, LaunchVouched, SyncVouched, OtherVouched
  <2> QED BY <1>3, <2>1, <2>3
<1> QED BY <1>4, <1>5 DEF Misses

LEMMA KeptStep ==
    ASSUME OneAtATime
    PROVE  KeptInv /\ [ToolNext]_toolVars => KeptInv'
<1> SUFFICES ASSUME KeptInv, [ToolNext]_toolVars PROVE Undisturbed'
  BY ToolsLastStep DEF KeptInv
<1>1. LastInv
  BY DEF KeptInv, ToolsLastInv, ToolsInv, SyncInv, LastInv
<1>2. ASSUME NEW c \in Calls, NEW kind \in Kinds, Start(c, kind) PROVE Undisturbed'
  <2>1. CASE UNCHANGED vars
    BY <1>2, <2>1, ToolsUndisturbed
  <2>2. CASE \E op \in Ops : Begin(c, op)
    <3>1. UNCHANGED <<head, pod, service, work, kept>>
      BY <1>2, <2>2 DEF Start, Begin
    <3>2. Vouched => Vouched'
      BY <1>1, <2>2, <3>1, OtherVouched
    <3> QED BY <3>1, <3>2 DEF KeptInv, Undisturbed
  <2> QED BY <1>2, <2>1, <2>2 DEF Start, Ops
<1>3. CASE UNCHANGED toolVars
  <2>1. UNCHANGED <<head, pod, service, row, call, work, kept>>
    BY <1>3 DEF toolVars, vars
  <2>2. Vouched => Vouched'
    BY <2>1, VouchedStays DEF Syncing
  <2> QED BY <2>1, <2>2 DEF KeptInv, Undisturbed
<1> QED BY <1>2, <1>3, ToolsUndisturbed, SandboxUndisturbed DEF ToolNext

(* What a tool wrote into a settled workspace stays there until another     *)
(* write, commit or boot of the worker or the start of its removal: with    *)
(* launches and deletions one at a time, no sync that can read the boot id  *)
(* and the row comes to push the branch over it.                            *)
THEOREM WrittenStays ==
    ASSUME OneAtATime
    PROVE  ToolSpec => []WritesSurvive
<1>1. ToolInit => KeptInv
  BY ToolsLastInit DEF ToolInit, KeptInv, Undisturbed
<1>2. KeptInv /\ [ToolNext]_toolVars => KeptInv'
  BY KeptStep
<1>3. KeptInv => WritesSurvive
  BY DEF KeptInv, Undisturbed, WritesSurvive
<1> QED BY <1>1, <1>2, <1>3, PTL DEF ToolSpec
=============================================================================
