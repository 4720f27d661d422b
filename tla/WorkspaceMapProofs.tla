------------------------- MODULE WorkspaceMapProofs -------------------------
(***************************************************************************)
(* Type correctness of the session <-> branch mapping and its two table    *)
(* invariants, for any tenants, repositories, branches and bounds, and     *)
(* what the handler of the events promises where it runs alone: it resets  *)
(* no branch, maps every session, change by change as Mapping says, and    *)
(* leaves exactly their branches.                                          *)
(***************************************************************************)
EXTENDS WorkspaceProps, SequenceTheorems, TLAPS

Ops == {"created", "forked", "renamed", "deleted", "reconcile", "subsession"}

(* The locals a call starts with, and those an idle goroutine keeps, are    *)
(* well typed.                                                              *)
LEMMA NoNameTyped == NoName \in Derived
<1>1. PICK r \in Repos : TRUE
  BY WorkspaceAssumption
<1>2. (CHOOSE x \in Repos : TRUE) \in Repos
  BY <1>1
<1> QED BY <1>2, WorkspaceAssumption DEF NoName, Derived

LEMMA CallTyped ==
    ASSUME NEW pc \in PC, NEW op \in Ops, NEW t \in Tenants, NEW s \in Derived
    PROVE  Call(pc, op, t, s) \in Frame
BY NoNameTyped, WorkspaceAssumption DEF Call, Frame, Ops

LEMMA IdleTyped == Idle \in Frame /\ Done \in Frame
<1>1. Idle \in Frame
  BY CallTyped, NoNameTyped, WorkspaceAssumption DEF Idle, PC, Ops
<1>2. QED BY <1>1 DEF Done, Frame, PC

LEMMA PcTyped ==
    ASSUME NEW f \in Frame, NEW pc \in PC
    PROVE  [f EXCEPT !.pc = pc] \in Frame
BY DEF Frame

(* What follows EnsureBranch and what follows bindRow.                      *)
LEMMA AfterBranchTyped == ASSUME NEW f \in Frame PROVE AfterBranch(f) \in PC
BY DEF AfterBranch, PC

LEMMA AfterBindTyped == ASSUME NEW f \in Frame PROVE AfterBind(f) \in Frame
<1>1. CASE f.kid = {}
  BY <1>1, IdleTyped DEF AfterBind
<1>2. CASE f.kid # {}
  <2>1. f.kid \subseteq Derived
    BY DEF Frame
  <2>2. (CHOOSE s \in f.kid : TRUE) \in Derived
    BY <1>2, <2>1
  <2>3. f.name.branch \in Branches
    BY DEF Frame, Derived
  <2>4. QED BY <1>2, <2>2, <2>3 DEF AfterBind, Frame, PC
<1>3. QED BY <1>1, <1>2

(* A goroutine's step replaces its own locals only.                         *)
LEMMA StepTyped ==
    ASSUME frame \in [Goroutines -> Frame], NEW p \in Goroutines, NEW f \in Frame,
           Step(p, f)
    PROVE  frame' \in [Goroutines -> Frame]
BY DEF Step

LEMMA GotoTyped ==
    ASSUME frame \in [Goroutines -> Frame], NEW p \in Goroutines, NEW pc \in PC,
           Goto(p, pc)
    PROVE  frame' \in [Goroutines -> Frame]
BY PcTyped, StepTyped DEF Goto

LEMMA EnsureCreatedTyped ==
    ASSUME frame \in [Goroutines -> Frame], NEW p \in Goroutines, NEW f \in Frame,
           EnsureCreated(p, f)
    PROVE  frame' \in [Goroutines -> Frame]
<1>1. AfterBind(f) \in Frame /\ [f EXCEPT !.pc = "anchor"] \in Frame
  BY AfterBindTyped, PcTyped DEF PC
<1>2. QED BY <1>1, StepTyped DEF EnsureCreated

(* Spending never goes below zero nor above the bound.                      *)
BudgetOK == budget \in [Kinds -> Nat] /\ \A k \in Kinds : budget[k] <= Bound[k]

LEMMA BoundTyped == Bound \in [Kinds -> Nat]
BY WorkspaceAssumption DEF Bound, Kinds

LEMMA SpendTyped ==
    ASSUME BudgetOK, NEW k \in Kinds, Spend(k) \/ Trouble(k)
    PROVE  BudgetOK'
<1>1. Bound \in [Kinds -> Nat] /\ "trouble" \in Kinds
  BY BoundTyped DEF Kinds
<1>2. QED BY <1>1 DEF BudgetOK, Spend, Trouble

LEMMA PublishTyped ==
    ASSUME BudgetOK, stream \in Seq(Event), NEW e \in Event, Publish(e)
    PROVE  BudgetOK' /\ stream' \in Seq(Event)
<1>1. CASE stream' = Append(stream, e) /\ Spend("ops")
  BY <1>1, SpendTyped DEF Kinds
<1>2. CASE /\ budget["ops"] > 0 /\ budget["losses"] > 0 /\ budget["trouble"] > 0
           /\ budget' = [k \in Kinds |-> IF k \in {"ops", "losses", "trouble"}
                                         THEN budget[k] - 1 ELSE budget[k]]
           /\ UNCHANGED stream
  <2>1. \A k \in Kinds : budget[k] > 0 \/ k \notin {"ops", "losses", "trouble"}
    BY <1>2
  <2>2. Bound \in [Kinds -> Nat]
    BY BoundTyped
  <2>3. QED BY <1>2, <2>1, <2>2 DEF BudgetOK
<1>3. QED BY <1>1, <1>2 DEF Publish

LEMMA LifecycleTyped ==
    ASSUME NEW kind \in {"created", "forked", "renamed", "deleted"},
           NEW t \in Tenants, NEW s \in Name, NEW from \in Name
    PROVE  Lifecycle(kind, t, s, from) \in Event
BY DEF Lifecycle, Event

LEMMA NoSnapTyped == NoSnap \in Snap
BY DEF NoSnap, Snap

-----------------------------------------------------------------------------
(* The actions of each actor keep the types.                                *)

LEMMA InitTyped == Init => TypeOK
<1> SUFFICES ASSUME Init PROVE TypeOK
  OBVIOUS
<1>1. frame \in [Goroutines -> Frame]
  BY IdleTyped DEF Init
<1>2. snap \in Snap
  BY NoSnapTyped DEF Init
<1>3. /\ budget \in [Kinds -> Nat]
      /\ \A k \in Kinds : budget[k] <= Bound[k]
  BY BoundTyped DEF Init
<1>4. /\ head \in [Repos -> Nat \cup {None}]
      /\ branch \in [Repos -> [Branches -> Nat \cup {None}]]
  BY DEF Init, None
<1>5. /\ sessions \in [Tenants -> SUBSET Name] /\ stream \in Seq(Event)
      /\ repos \subseteq Repos /\ rows \subseteq Row
      /\ managed \subseteq Tenants \X Repos
  BY WorkspaceAssumption DEF Init
<1> QED BY <1>1, <1>2, <1>3, <1>4, <1>5 DEF TypeOK

LEMMA AgentTyped == TypeOK /\ AgentNext => TypeOK'
<1> SUFFICES ASSUME TypeOK, NEW t \in Tenants, NEW s \in Name, NEW from \in Name,
                    \/ AgentCreate(t, s) \/ AgentDelete(t, s)
                    \/ AgentFork(t, from, s) \/ AgentRename(t, from, s)
             PROVE  TypeOK'
  BY DEF AgentNext
<1>1. PICK kind \in {"created", "forked", "renamed", "deleted"}, other \in Name :
         Publish(Lifecycle(kind, t, s, other))
  BY DEF AgentCreate, AgentDelete, AgentFork, AgentRename
<1>2. BudgetOK' /\ stream' \in Seq(Event)
  BY <1>1, PublishTyped, LifecycleTyped DEF TypeOK, BudgetOK
<1>3. sessions' \in [Tenants -> SUBSET Name]
  BY DEF AgentCreate, AgentDelete, AgentFork, AgentRename, TypeOK
<1>4. UNCHANGED <<lab, rows, managed, frame, snap>>
  BY DEF AgentCreate, AgentDelete, AgentFork, AgentRename
<1> QED BY <1>2, <1>3, <1>4 DEF TypeOK, BudgetOK, lab

LEMMA CommitTyped ==
    ASSUME TypeOK, NEW r \in Repos, NEW b \in Branches, Commit(r, b)
    PROVE  TypeOK'
<1>1. BudgetOK'
  BY SpendTyped DEF Commit, TypeOK, BudgetOK, Kinds
<1>2. MaxCommits - budget["commits"] + 1 \in Nat
  <2>1. Bound["commits"] = MaxCommits
    BY DEF Bound, Kinds
  <2>2. /\ "commits" \in Kinds /\ budget["commits"] \in Nat
        /\ budget["commits"] <= MaxCommits
    BY <2>1 DEF TypeOK, Kinds
  <2> QED BY <2>2, WorkspaceAssumption
<1>3. /\ branch' \in [Repos -> [Branches -> Nat \cup {None}]]
      /\ head' \in [Repos -> Nat \cup {None}]
  BY <1>2 DEF Commit, TypeOK
<1> QED BY <1>1, <1>3 DEF Commit, TypeOK, BudgetOK

LEMMA UserTyped == TypeOK /\ UserNext => TypeOK'
<1> SUFFICES ASSUME TypeOK, UserNext PROVE TypeOK'
  OBVIOUS
<1>1. ASSUME NEW r \in Repos, NEW b \in Branches, Commit(r, b) PROVE TypeOK'
  BY <1>1, CommitTyped
<1>2. ASSUME NEW r \in Repos, NEW b \in Branches, UserDeleteBranch(r, b) PROVE TypeOK'
  <2>1. BudgetOK'
    BY <1>2, SpendTyped DEF UserDeleteBranch, TypeOK, BudgetOK, Kinds
  <2>2. branch' \in [Repos -> [Branches -> Nat \cup {None}]]
    BY <1>2 DEF UserDeleteBranch, TypeOK
  <2> QED BY <1>2, <2>1, <2>2 DEF UserDeleteBranch, TypeOK, BudgetOK
<1>3. ASSUME NEW t \in Tenants, NEW s \in Derived, SubsessionCreate(t, s) PROVE TypeOK'
  <2>1. BudgetOK'
    BY <1>3, SpendTyped DEF SubsessionCreate, TypeOK, BudgetOK, Kinds
  <2>2. Call("tree", "subsession", t, s) \in Frame
    BY CallTyped DEF PC, Ops
  <2>3. frame' \in [Goroutines -> Frame]
    BY <1>3, <2>2, StepTyped DEF SubsessionCreate, TypeOK, T, Goroutines
  <2> QED BY <1>3, <2>1, <2>3 DEF SubsessionCreate, TypeOK, BudgetOK, lab
<1> QED BY <1>1, <1>2, <1>3 DEF UserNext

LEMMA SetRefTyped ==
    ASSUME branch \in [Repos -> [Branches -> Nat \cup {None}]],
           NEW r \in Repos, NEW b \in Branches, NEW c \in Nat \cup {None},
           branch' = [branch EXCEPT ![r][b] = c]
    PROVE  branch' \in [Repos -> [Branches -> Nat \cup {None}]]
OBVIOUS

LEMMA SharedTyped ==
    ASSUME TypeOK, NEW p \in Goroutines, Shared(p)
    PROVE  TypeOK'
<1> DEFINE f == frame[p]
<1>1. /\ frame \in [Goroutines -> Frame] /\ f \in Frame
      /\ f.t \in Tenants /\ f.name \in Derived
      /\ f.name.repo \in Repos /\ f.name.branch \in Branches
      /\ f.src \in Branches \cup {RepoHead}
  BY DEF TypeOK, Frame, Derived
<1>2. CASE AnchorBranch(p)
  <2>1. [f EXCEPT !.pc = "tree", !.src = IF branch[f.name.repo][Main] # None
                                         THEN Main ELSE RepoHead] \in Frame
    BY <1>1, WorkspaceAssumption DEF Frame, PC
  <2>2. frame' \in [Goroutines -> Frame]
    BY <1>1, <1>2, <2>1, StepTyped DEF AnchorBranch
  <2> QED BY <1>1, <1>2, <2>2 DEF AnchorBranch, TypeOK
<1>3. CASE ReadTree(p)
  <2>1. Done \in Frame /\ AfterBranch(f) \in PC /\ "create" \in PC
    BY <1>1, IdleTyped, AfterBranchTyped DEF PC
  <2>2. frame' \in [Goroutines -> Frame]
    BY <1>1, <1>3, <2>1, StepTyped, GotoTyped DEF ReadTree
  <2> QED BY <1>3, <2>2 DEF ReadTree, TypeOK, lab
<1>4. CASE CreateBranch(p)
  <2>1. frame' \in [Goroutines -> Frame]
    BY <1>1, <1>4, AfterBranchTyped, GotoTyped DEF CreateBranch
  <2> DEFINE pos == IF f.src = RepoHead THEN head[f.name.repo] ELSE branch[f.name.repo][f.src]
  <2>2. pos \in Nat \cup {None}
    BY <1>1 DEF TypeOK
  <2>3. branch' = branch \/ branch' = [branch EXCEPT ![f.name.repo][f.name.branch] = pos]
    BY <1>4 DEF CreateBranch
  <2> HIDE DEF pos
  <2>4. branch' \in [Repos -> [Branches -> Nat \cup {None}]]
    BY <1>1, <2>2, <2>3, SetRefTyped DEF TypeOK
  <2> QED BY <1>4, <2>1, <2>4 DEF CreateBranch, TypeOK
<1>5. CASE InsertRow(p)
  <2>1. AfterBind(f) \in Frame /\ AfterInsert(f) \in Frame
    BY <1>1, AfterBindTyped, PcTyped DEF AfterInsert, PC
  <2>2. frame' \in [Goroutines -> Frame]
    BY <1>1, <1>5, <2>1, StepTyped DEF InsertRow
  <2>3. NewRow(f.t, f.name) \in Row
    BY <1>1 DEF NewRow, Row
  <2>4. rows' \subseteq Row
    BY <1>5, <2>3 DEF InsertRow, TypeOK
  <2> QED BY <1>5, <2>2, <2>4 DEF InsertRow, TypeOK, lab
<1>6. CASE InsertManaged(p)
  <2>1. frame' \in [Goroutines -> Frame]
    BY <1>1, <1>6, AfterBindTyped, StepTyped DEF InsertManaged
  <2>2. managed' \subseteq Tenants \X Repos
    BY <1>1, <1>6 DEF InsertManaged, TypeOK
  <2> QED BY <1>6, <2>1, <2>2 DEF InsertManaged, TypeOK, lab
<1> QED BY <1>2, <1>3, <1>4, <1>5, <1>6 DEF Shared

(* A handler that is at work holds the event it works on: only it takes     *)
(* events off the stream.                                                   *)
HandlerHoldsEvent == frame[H].pc # "idle" => stream # <<>>

LEMMA HandlerTyped == TypeOK /\ HandlerHoldsEvent /\ HandlerNext => TypeOK'
<1> SUFFICES ASSUME TypeOK, HandlerHoldsEvent, HandlerNext PROVE TypeOK'
  OBVIOUS
<1> DEFINE f == frame[H]
<1>1. /\ H \in Goroutines /\ frame \in [Goroutines -> Frame] /\ f \in Frame
      /\ f.t \in Tenants /\ f.name \in Derived /\ f.from \in Derived
      /\ Idle \in Frame /\ Done \in Frame
  BY IdleTyped DEF H, Goroutines, TypeOK, Frame
<1>2. ASSUME stream # <<>>
      PROVE  /\ Event1 \in Event /\ Event1.t \in Tenants
             /\ Event1.name \in Name /\ Event1.from \in Name
             /\ Tail(stream) \in Seq(Event)
  <2>1. stream \in Seq(Event)
    BY DEF TypeOK
  <2>2. Event1 \in Event
    BY <1>2, <2>1 DEF Event1
  <2>3. Tail(stream) \in Seq(Event)
    BY <1>2, <2>1
  <2> QED BY <2>2, <2>3 DEF Event
<1>3. \A s \in Derived : s.branch \in Branches
  BY DEF Derived
<1>4. CASE HandleCreated
  <2>1. stream # <<>> /\ Reads
    BY <1>4 DEF HandleCreated, Receives
  <2>2. Event1.name \in Derived => Call("idle", "created", Event1.t, Event1.name) \in Frame
    BY <1>2, <2>1, CallTyped DEF PC, Ops
  <2>3. frame' \in [Goroutines -> Frame]
    BY <1>1, <1>4, <2>2, StepTyped, EnsureCreatedTyped DEF HandleCreated
  <2> QED BY <2>1, <2>3 DEF Reads, TypeOK, lab
<1>5. CASE HandleForked
  <2> DEFINE s == Event1.name
             parent == Event1.from
             child == [Call("tree", "forked", Event1.t, s) EXCEPT
                         !.src = IF parent \in Derived THEN parent.branch ELSE Main]
             first == [Call("idle", "forked", Event1.t, parent) EXCEPT !.kid = {s}]
  <2>1. stream # <<>> /\ Reads
    BY <1>5 DEF HandleForked, Receives
  <2>2. ASSUME s \in Derived PROVE child \in Frame
    <3>1. Call("tree", "forked", Event1.t, s) \in Frame
      BY <1>2, <2>1, <2>2, CallTyped DEF PC, Ops
    <3>2. (IF parent \in Derived THEN parent.branch ELSE Main) \in Branches
      BY <1>3, WorkspaceAssumption
    <3> QED BY <3>1, <3>2 DEF Frame
  <2>3. ASSUME s \in Derived, parent \in Derived PROVE first \in Frame
    <3>1. Call("idle", "forked", Event1.t, parent) \in Frame
      BY <1>2, <2>1, <2>3, CallTyped DEF PC, Ops
    <3> QED BY <2>3, <3>1 DEF Frame
  <2>4. \/ Step(H, Done)
        \/ s \in Derived /\ Step(H, child)
        \/ s \in Derived /\ parent \in Derived /\ EnsureCreated(H, first)
    BY <1>5 DEF HandleForked
  <2> HIDE DEF child, first
  <2>5. frame' \in [Goroutines -> Frame]
    BY <1>1, <2>2, <2>3, <2>4, StepTyped, EnsureCreatedTyped
  <2> QED BY <2>1, <2>5 DEF Reads, TypeOK, lab
<1>6. CASE HandleRenamed
  <2> DEFINE s == Event1.name
             from == Event1.from
             move == [Call("tree", "renamed", Event1.t, s) EXCEPT
                        !.src = from.branch, !.from = from]
  <2>1. stream # <<>> /\ Reads
    BY <1>6 DEF HandleRenamed, Receives
  <2>2. ASSUME s \in Derived
        PROVE  Call("idle", "created", Event1.t, s) \in Frame
    BY <1>2, <2>1, <2>2, CallTyped DEF PC, Ops
  <2>3. ASSUME s \in Derived, from \in Derived PROVE move \in Frame
    <3>1. Call("tree", "renamed", Event1.t, s) \in Frame
      BY <1>2, <2>1, <2>3, CallTyped DEF PC, Ops
    <3> QED BY <1>3, <2>3, <3>1 DEF Frame
  <2>4. \/ Step(H, Done)
        \/ s \in Derived /\ EnsureCreated(H, Call("idle", "created", Event1.t, s))
        \/ s \in Derived /\ from \in Derived /\ Step(H, move)
    BY <1>6 DEF HandleRenamed
  <2> HIDE DEF move
  <2>5. frame' \in [Goroutines -> Frame]
    BY <1>1, <2>2, <2>3, <2>4, StepTyped, EnsureCreatedTyped
  <2> QED BY <2>1, <2>5 DEF Reads, TypeOK, lab
<1>7. CASE HandleDeleted
  <2>1. stream # <<>> /\ Reads
    BY <1>7 DEF HandleDeleted, Receives
  <2>2. Event1.name \in Derived => Call("delbranch", "deleted", Event1.t, Event1.name) \in Frame
    BY <1>2, <2>1, CallTyped DEF PC, Ops
  <2>3. frame' \in [Goroutines -> Frame]
    BY <1>1, <1>7, <2>2, StepTyped DEF HandleDeleted
  <2> QED BY <2>1, <2>3 DEF Reads, TypeOK, lab
<1>8. CASE Shared(H)
  BY <1>1, <1>8, SharedTyped
<1>9. CASE RenameRow
  <2>1. frame' \in [Goroutines -> Frame]
    BY <1>1, <1>9, StepTyped, GotoTyped DEF RenameRow, PC
  <2>2. \A x \in Row : Moved(x, f.name) \in Row
    BY <1>1, <1>3 DEF Moved, Row
  <2>3. GetRow(f.t, f.from.repo, f.from.branch) \subseteq Row
    BY DEF GetRow, TypeOK
  <2>4. rows' \subseteq Row
    BY <1>9, <2>2, <2>3 DEF RenameRow, TypeOK
  <2> QED BY <1>9, <2>1, <2>4 DEF RenameRow, TypeOK, lab
<1>10. CASE DeleteBranch
  <2>1. AfterDelete(f) \in Frame
    BY <1>1, PcTyped DEF AfterDelete, PC
  <2>2. frame' \in [Goroutines -> Frame]
    BY <1>1, <1>10, <2>1, StepTyped DEF DeleteBranch
  <2>3. branch' \in [Repos -> [Branches -> Nat \cup {None}]]
    BY <1>10 DEF DeleteBranch, TypeOK
  <2> QED BY <1>10, <2>2, <2>3 DEF DeleteBranch, TypeOK
<1>11. CASE DeleteRow
  <2>1. frame' \in [Goroutines -> Frame] /\ rows' \subseteq Row
    BY <1>1, <1>11, StepTyped DEF DeleteRow, Unbind, TypeOK
  <2> QED BY <1>11, <2>1 DEF DeleteRow, TypeOK, lab
<1>12. CASE Ack
  <2>1. frame' \in [Goroutines -> Frame]
    BY <1>1, <1>12, StepTyped DEF Ack
  <2>2. stream' \in Seq(Event)
    BY <1>2, <1>12 DEF Ack, HandlerHoldsEvent
  <2> QED BY <1>12, <2>1, <2>2 DEF Ack, TypeOK, lab
<1> QED BY <1>4, <1>5, <1>6, <1>7, <1>8, <1>9, <1>10, <1>11, <1>12 DEF HandlerNext

LEMMA ReconcilerTyped == TypeOK /\ ReconcilerNext => TypeOK'
<1> SUFFICES ASSUME TypeOK, ReconcilerNext PROVE TypeOK'
  OBVIOUS
<1>1. /\ R \in Goroutines /\ frame \in [Goroutines -> Frame]
      /\ snap \in Snap /\ NoSnap \in Snap /\ Idle \in Frame /\ Done \in Frame
      /\ Default \in Tenants
  BY IdleTyped, NoSnapTyped, WorkspaceAssumption DEF R, Goroutines, TypeOK
<1>2. CASE ListSessions
  <2>1. frame' \in [Goroutines -> Frame]
    BY <1>1, <1>2, GotoTyped DEF ListSessions, PC
  <2>2. sessions[Default] \subseteq Name
    BY <1>1 DEF TypeOK
  <2>3. snap' \in Snap
    BY <1>1, <1>2, <2>2 DEF ListSessions, Snap
  <2> QED BY <1>2, <2>1, <2>3 DEF ListSessions, TypeOK, lab
<1>3. CASE ReadManaged
  <2>1. frame' \in [Goroutines -> Frame]
    BY <1>1, <1>3, GotoTyped DEF ReadManaged, LoadTree, PC
  <2>2. snap' \in Snap
    BY <1>1, <1>3 DEF ReadManaged, LoadTree, Snap, TypeOK, Branched
  <2> QED BY <1>3, <2>1, <2>2 DEF ReadManaged, LoadTree, TypeOK, lab
<1>4. CASE ConvergeRepo
  <2>1. frame' \in [Goroutines -> Frame]
    BY <1>1, <1>4, GotoTyped DEF ConvergeRepo, PC
  <2>2. PICK m \in snap.todo :
           snap' = [snap EXCEPT !.todo = @ \ {m},
                      !.doomed = {x \in rows : <<x.t, x.repo>> = m /\ Drifted(x)}]
    BY <1>4 DEF ConvergeRepo
  <2>3. snap' \in Snap
    BY <1>1, <2>2 DEF Snap, TypeOK
  <2> QED BY <1>4, <2>1, <2>3 DEF ConvergeRepo, TypeOK, lab
<1>5. CASE DropRow
  <2>1. frame' \in [Goroutines -> Frame]
    BY <1>1, <1>5, GotoTyped DEF DropRow, PC
  <2>2. snap' \in Snap /\ rows' \subseteq Row
    BY <1>1, <1>5 DEF DropRow, Unbind, Snap, TypeOK
  <2> QED BY <1>5, <2>1, <2>2 DEF DropRow, TypeOK, lab
<1>6. CASE StartBackfill
  <2>1. frame' \in [Goroutines -> Frame]
    BY <1>1, <1>6, StepTyped DEF StartBackfill
  <2>2. snap' \in Snap
    BY <1>1, <1>6 DEF StartBackfill, Snap
  <2> QED BY <1>6, <2>1, <2>2 DEF StartBackfill, TypeOK, lab
<1>7. CASE Backfill
  <2>1. \A s \in snap.rest : Call("idle", "reconcile", Default, s) \in Frame
    BY <1>1, CallTyped DEF Snap, PC, Ops
  <2>2. frame' \in [Goroutines -> Frame]
    BY <1>1, <1>7, <2>1, StepTyped, EnsureCreatedTyped DEF Backfill
  <2>3. snap' \in Snap
    BY <1>1, <1>7 DEF Backfill, Snap
  <2> QED BY <1>7, <2>2, <2>3 DEF Backfill, TypeOK, lab
<1>8. CASE Shared(R)
  BY <1>1, <1>8, SharedTyped
<1> QED BY <1>2, <1>3, <1>4, <1>5, <1>6, <1>7, <1>8 DEF ReconcilerNext

LEMMA ToolTyped == TypeOK /\ ToolNext => TypeOK'
<1> SUFFICES ASSUME TypeOK, ToolNext PROVE TypeOK'
  OBVIOUS
<1>1. /\ T \in Goroutines /\ frame \in [Goroutines -> Frame] /\ frame[T] \in Frame
      /\ Idle \in Frame /\ frame[T].name \in Derived /\ Default \in Tenants
  BY IdleTyped, WorkspaceAssumption DEF T, Goroutines, TypeOK, Frame
<1>2. CASE CreateRepoSession
  <2> DEFINE s == frame[T].name
  <2>1. frame' \in [Goroutines -> Frame]
    BY <1>1, <1>2, GotoTyped DEF CreateRepoSession, PC
  <2>2. s \in Name /\ Lifecycle("created", Default, s, s) \in Event
    BY <1>1, LifecycleTyped DEF Name
  <2>3. stream' \in Seq(Event) /\ BudgetOK'
    <3>1. stream \in Seq(Event) /\ BudgetOK
      BY DEF TypeOK, BudgetOK
    <3>2. \/ UNCHANGED <<stream, budget>>
          \/ stream' = Append(stream, Lifecycle("created", Default, s, s)) /\ UNCHANGED budget
          \/ UNCHANGED stream /\ Trouble("losses")
      BY <1>2 DEF CreateRepoSession
    <3>3. CASE UNCHANGED stream /\ Trouble("losses")
      BY <3>1, <3>3, SpendTyped DEF Kinds
    <3>4. CASE \/ UNCHANGED <<stream, budget>>
               \/ stream' = Append(stream, Lifecycle("created", Default, s, s)) /\ UNCHANGED budget
      BY <2>2, <3>1, <3>4 DEF BudgetOK
    <3> QED BY <3>2, <3>3, <3>4
  <2>4. sessions' \in [Tenants -> SUBSET Name]
    BY <1>1, <1>2, <2>2 DEF CreateRepoSession, TypeOK
  <2> QED BY <1>2, <2>1, <2>3, <2>4 DEF CreateRepoSession, TypeOK, BudgetOK, lab
<1>3. CASE ToolReturns
  <2>1. frame' \in [Goroutines -> Frame]
    BY <1>1, <1>3, StepTyped DEF ToolReturns
  <2> QED BY <1>3, <2>1 DEF ToolReturns, TypeOK, lab
<1>4. CASE Shared(T)
  BY <1>1, <1>4, SharedTyped
<1> QED BY <1>2, <1>3, <1>4 DEF ToolNext

LEMMA FaultTyped == TypeOK /\ FaultNext => TypeOK'
<1> SUFFICES ASSUME TypeOK, FaultNext PROVE TypeOK'
  OBVIOUS
<1>1. /\ frame \in [Goroutines -> Frame] /\ snap \in Snap /\ NoSnap \in Snap
      /\ Idle \in Frame /\ BudgetOK
      /\ "blinds" \in Kinds /\ "fails" \in Kinds
      /\ H \in Goroutines /\ R \in Goroutines
  BY IdleTyped, NoSnapTyped DEF TypeOK, BudgetOK, Kinds, H, R, Goroutines
<1>2. ASSUME NEW p \in Goroutines, ReadTreeBlind(p) PROVE TypeOK'
  <2>1. frame' \in [Goroutines -> Frame] /\ BudgetOK'
    BY <1>1, <1>2, GotoTyped, SpendTyped DEF ReadTreeBlind, PC
  <2> QED BY <1>2, <2>1 DEF ReadTreeBlind, TypeOK, BudgetOK, lab
<1>3. ASSUME NEW p \in Goroutines, Fail(p) PROVE TypeOK'
  <2>1. frame' \in [Goroutines -> Frame] /\ BudgetOK'
    BY <1>1, <1>3, StepTyped, SpendTyped DEF Fail
  <2>2. snap' \in Snap
    BY <1>1, <1>3 DEF Fail
  <2> QED BY <1>3, <2>1, <2>2 DEF Fail, TypeOK, BudgetOK, lab
<1>4. CASE DeleteBranchBlind
  <2>1. AfterDelete(frame[H]) \in Frame
    BY <1>1, IdleTyped, PcTyped DEF AfterDelete, PC
  <2>2. frame' \in [Goroutines -> Frame] /\ BudgetOK'
    BY <1>1, <1>4, <2>1, StepTyped, SpendTyped DEF DeleteBranchBlind
  <2> QED BY <1>4, <2>2 DEF DeleteBranchBlind, TypeOK, BudgetOK, lab
<1>5. CASE ReadManagedBlind
  <2>1. PICK r \in repos : LoadTree({r}) /\ Trouble("blinds")
    BY <1>5 DEF ReadManagedBlind
  <2>2. frame' \in [Goroutines -> Frame] /\ BudgetOK'
    BY <1>1, <2>1, GotoTyped, SpendTyped DEF LoadTree, PC
  <2>3. snap' \in Snap
    BY <1>1, <2>1 DEF LoadTree, Snap, TypeOK, Branched
  <2> QED BY <2>1, <2>2, <2>3 DEF LoadTree, TypeOK, BudgetOK, lab
<1> QED BY <1>2, <1>3, <1>4, <1>5 DEF FaultNext

-----------------------------------------------------------------------------
(* Type correctness.                                                        *)

LEMMA HoldsEventStep ==
    ASSUME TypeOK, HandlerHoldsEvent, [Next]_vars
    PROVE  HandlerHoldsEvent'
<1>1. /\ frame \in [Goroutines -> Frame] /\ stream \in Seq(Event)
      /\ H \in Goroutines /\ R # H /\ T # H
  BY DEF TypeOK, H, R, T, Goroutines
<1>2. Idle.pc = "idle"
  BY DEF Idle, Call
<1>3. CASE AgentNext
  <2>1. frame' = frame /\ (stream' = stream \/ \E e : stream' = Append(stream, e))
    BY <1>3 DEF AgentNext, AgentCreate, AgentDelete, AgentFork, AgentRename, Publish
  <2> QED BY <1>1, <2>1 DEF HandlerHoldsEvent
<1>4. CASE UserNext
  <2>1. stream' = stream /\ frame'[H] = frame[H]
    BY <1>1, <1>4 DEF UserNext, Commit, UserDeleteBranch, SubsessionCreate, Step
  <2> QED BY <2>1 DEF HandlerHoldsEvent
<1>5. CASE HandlerNext
  <2>1. CASE HandleCreated \/ HandleForked \/ HandleRenamed \/ HandleDeleted
    BY <2>1 DEF HandleCreated, HandleForked, HandleRenamed, HandleDeleted,
                Receives, Reads, HandlerHoldsEvent
  <2>2. CASE Shared(H)
    BY <2>2 DEF Shared, AnchorBranch, ReadTree, CreateBranch, InsertRow,
                InsertManaged, HandlerHoldsEvent
  <2>3. CASE RenameRow \/ DeleteBranch \/ DeleteRow
    BY <2>3 DEF RenameRow, DeleteBranch, DeleteRow, HandlerHoldsEvent
  <2>4. CASE Ack
    BY <1>1, <1>2, <2>4 DEF Ack, Step, HandlerHoldsEvent
  <2> QED BY <1>5, <2>1, <2>2, <2>3, <2>4 DEF HandlerNext
<1>6. CASE ReconcilerNext
  <2>1. CASE Shared(R)
    BY <1>1, <2>1 DEF Shared, AnchorBranch, ReadTree, CreateBranch, InsertRow,
                      InsertManaged, Step, Goto, HandlerHoldsEvent
  <2>2. CASE ListSessions \/ ReadManaged \/ ConvergeRepo \/ DropRow \/ StartBackfill
             \/ Backfill
    BY <1>1, <2>2 DEF ListSessions, ReadManaged, LoadTree, ConvergeRepo, DropRow,
                      StartBackfill, Backfill, EnsureCreated, Step, Goto, HandlerHoldsEvent
  <2> QED BY <1>6, <2>1, <2>2 DEF ReconcilerNext
<1>7. CASE ToolNext
  <2>1. CASE Shared(T)
    BY <1>1, <2>1 DEF Shared, AnchorBranch, ReadTree, CreateBranch, InsertRow,
                      InsertManaged, Step, Goto, HandlerHoldsEvent
  <2>2. CASE CreateRepoSession
    <3>1. /\ frame'[H] = frame[H]
          /\ stream' = stream \/ \E e : stream' = Append(stream, e)
      BY <1>1, <2>2 DEF CreateRepoSession, Step, Goto
    <3> QED BY <1>1, <3>1 DEF HandlerHoldsEvent
  <2>3. CASE ToolReturns
    BY <1>1, <2>3 DEF ToolReturns, Step, HandlerHoldsEvent
  <2> QED BY <1>7, <2>1, <2>2, <2>3 DEF ToolNext
<1>8. CASE FaultNext
  <2>1. ASSUME NEW p \in Goroutines, ReadTreeBlind(p) PROVE HandlerHoldsEvent'
    BY <1>1, <2>1 DEF ReadTreeBlind, Step, Goto, HandlerHoldsEvent
  <2>2. ASSUME NEW p \in Goroutines, Fail(p) PROVE HandlerHoldsEvent'
    BY <1>1, <1>2, <2>2 DEF Fail, Step, HandlerHoldsEvent
  <2>3. CASE DeleteBranchBlind
    BY <2>3 DEF DeleteBranchBlind, HandlerHoldsEvent
  <2>4. CASE ReadManagedBlind
    BY <1>1, <2>4 DEF ReadManagedBlind, LoadTree, Step, Goto, HandlerHoldsEvent
  <2> QED BY <1>8, <2>1, <2>2, <2>3, <2>4 DEF FaultNext
<1>9. CASE UNCHANGED vars
  BY <1>9 DEF vars, HandlerHoldsEvent
<1> QED BY <1>3, <1>4, <1>5, <1>6, <1>7, <1>8, <1>9 DEF Next

LEMMA TypeStep ==
    ASSUME TypeOK, HandlerHoldsEvent, [Next]_vars
    PROVE  TypeOK'
<1>1. CASE UNCHANGED vars
  BY <1>1 DEF vars, lab, TypeOK
<1> QED BY <1>1, AgentTyped, UserTyped, HandlerTyped, ReconcilerTyped, ToolTyped,
           FaultTyped DEF Next

(* Every step of every goroutine, of the agent and of easylab's users keeps *)
(* the state well formed (events_sub.go, reconcile.go, tools_vcs.go, pg.go),*)
(* and a handler at work still has its event to acknowledge.                *)
THEOREM TypeCorrect == Spec => [](TypeOK /\ HandlerHoldsEvent)
<1>1. Init => TypeOK /\ HandlerHoldsEvent
  <2>1. H \in Goroutines /\ Idle.pc = "idle"
    BY DEF H, Goroutines, Idle, Call
  <2> QED BY <2>1, InitTyped DEF Init, HandlerHoldsEvent
<1>2. TypeOK /\ HandlerHoldsEvent /\ [Next]_vars => (TypeOK /\ HandlerHoldsEvent)'
  BY TypeStep, HoldsEventStep
<1> QED BY <1>1, <1>2, PTL DEF Spec

-----------------------------------------------------------------------------
(* The mapping is one-to-one.  What makes it inductive: the locals of a     *)
(* rename stay within one repository, so that the moved row's repository is *)
(* the one its new session name says.                                       *)

LocalsOK(f) == /\ f.op = "renamed" => f.from.repo = f.name.repo /\ f.kid = {}
               /\ f.pc = "rename" => f.op = "renamed"
FramesOK == \A p \in Goroutines : LocalsOK(frame[p])

LEMMA CallOK ==
    ASSUME NEW pc, NEW op, NEW t, NEW s, pc # "rename", op # "renamed"
    PROVE  LocalsOK(Call(pc, op, t, s)) /\ Call(pc, op, t, s).op = op
BY DEF Call, LocalsOK

LEMMA IdleOK == LocalsOK(Idle) /\ LocalsOK(Done)
<1>1. LocalsOK(Idle) /\ Idle.op = "created"
  BY CallOK DEF Idle
<1>2. Idle \in Frame
  BY IdleTyped
<1> QED BY <1>1, <1>2 DEF Done, LocalsOK, Frame

LEMMA PcOK ==
    ASSUME NEW f \in Frame, LocalsOK(f), NEW pc \in PC, pc # "rename" \/ f.op = "renamed"
    PROVE  LocalsOK([f EXCEPT !.pc = pc])
BY DEF LocalsOK, Frame

LEMMA AfterBindOK ==
    ASSUME NEW f \in Frame, LocalsOK(f)
    PROVE  LocalsOK(AfterBind(f))
<1>1. CASE f.kid = {}
  BY <1>1, IdleOK DEF AfterBind
<1>2. CASE f.kid # {}
  <2>1. f.op # "renamed"
    BY <1>2 DEF LocalsOK
  <2> QED BY <1>2, <2>1 DEF AfterBind, LocalsOK, Frame
<1> QED BY <1>1, <1>2

LEMMA StepOK ==
    ASSUME frame \in [Goroutines -> Frame], FramesOK, NEW p \in Goroutines,
           NEW f, LocalsOK(f), Step(p, f)
    PROVE  FramesOK'
BY DEF Step, FramesOK

LEMMA GotoOK ==
    ASSUME frame \in [Goroutines -> Frame], FramesOK, NEW p \in Goroutines,
           NEW pc \in PC, pc # "rename" \/ frame[p].op = "renamed", Goto(p, pc)
    PROVE  FramesOK'
<1>1. frame[p] \in Frame /\ LocalsOK(frame[p])
  BY DEF FramesOK
<1>2. LocalsOK([frame[p] EXCEPT !.pc = pc])
  BY <1>1, PcOK
<1> QED BY <1>2, StepOK DEF Goto

LEMMA EnsureCreatedOK ==
    ASSUME frame \in [Goroutines -> Frame], FramesOK, NEW p \in Goroutines,
           NEW f \in Frame, LocalsOK(f), EnsureCreated(p, f)
    PROVE  FramesOK'
<1>1. LocalsOK(AfterBind(f)) /\ LocalsOK([f EXCEPT !.pc = "anchor"])
  BY AfterBindOK, PcOK DEF PC
<1> QED BY <1>1, StepOK DEF EnsureCreated

LEMMA SharedOK ==
    ASSUME TypeOK, FramesOK, NEW p \in Goroutines, Shared(p)
    PROVE  FramesOK'
<1> DEFINE f == frame[p]
<1>1. /\ frame \in [Goroutines -> Frame] /\ f \in Frame /\ LocalsOK(f)
  BY DEF TypeOK, FramesOK
<1>2. /\ AfterBranch(f) \in PC
      /\ AfterBranch(f) # "rename" \/ f.op = "renamed"
  BY AfterBranchTyped, <1>1 DEF AfterBranch
<1>3. CASE AnchorBranch(p)
  <2> DEFINE g(src) == [f EXCEPT !.pc = "tree", !.src = src]
  <2>1. \A src : LocalsOK(g(src))
    BY <1>1 DEF LocalsOK, Frame
  <2>2. \E src : Step(p, g(src))
    BY <1>3 DEF AnchorBranch
  <2> QED BY <1>1, <2>1, <2>2, StepOK
<1>4. CASE ReadTree(p) \/ CreateBranch(p)
  <2>1. Step(p, Done) \/ Goto(p, AfterBranch(f)) \/ Goto(p, "create")
    BY <1>4 DEF ReadTree, CreateBranch
  <2> QED BY <1>1, <1>2, <2>1, IdleOK, StepOK, GotoOK DEF PC
<1>5. CASE InsertRow(p) \/ InsertManaged(p)
  <2>1. Step(p, AfterBind(f)) \/ Step(p, AfterInsert(f))
    BY <1>5 DEF InsertRow, InsertManaged
  <2>2. LocalsOK(AfterBind(f)) /\ LocalsOK(AfterInsert(f))
    BY <1>1, AfterBindOK, PcOK DEF AfterInsert, PC
  <2> QED BY <1>1, <2>1, <2>2, StepOK
<1> QED BY <1>3, <1>4, <1>5 DEF Shared

LEMMA HandlerOK ==
    ASSUME TypeOK, HandlerHoldsEvent, FramesOK, HandlerNext
    PROVE  FramesOK'
<1> DEFINE f == frame[H]
<1>1. /\ H \in Goroutines /\ frame \in [Goroutines -> Frame] /\ f \in Frame /\ LocalsOK(f)
  BY DEF H, Goroutines, TypeOK, FramesOK
<1>2. ASSUME stream # <<>>
      PROVE  Event1.t \in Tenants /\ Event1.name \in Name /\ Event1.from \in Name
  <2>1. stream \in Seq(Event)
    BY DEF TypeOK
  <2>2. Event1 \in Event
    BY <1>2, <2>1 DEF Event1
  <2> QED BY <2>2 DEF Event
<1>3. CASE HandleCreated \/ HandleDeleted
  <2>1. stream # <<>>
    BY <1>3 DEF HandleCreated, HandleDeleted, Receives
  <2> DEFINE c1 == Call("idle", "created", Event1.t, Event1.name)
             c2 == Call("delbranch", "deleted", Event1.t, Event1.name)
  <2>2. LocalsOK(c1) /\ LocalsOK(c2)
    BY CallOK
  <2>3. Event1.name \in Derived => c1 \in Frame
    BY <1>2, <2>1, CallTyped DEF PC, Ops
  <2>4. \/ Step(H, Done) \/ Step(H, c2)
        \/ Event1.name \in Derived /\ EnsureCreated(H, c1)
    BY <1>3 DEF HandleCreated, HandleDeleted
  <2> HIDE DEF c1, c2
  <2> QED BY <1>1, <2>2, <2>3, <2>4, IdleOK, StepOK, EnsureCreatedOK
<1>4. CASE HandleForked
  <2> DEFINE s == Event1.name
             parent == Event1.from
             child == [Call("tree", "forked", Event1.t, s) EXCEPT
                         !.src = IF parent \in Derived THEN parent.branch ELSE Main]
             first == [Call("idle", "forked", Event1.t, parent) EXCEPT !.kid = {s}]
  <2>1. stream # <<>>
    BY <1>4 DEF HandleForked, Receives
  <2>2. LocalsOK(child) /\ LocalsOK(first)
    BY DEF Call, LocalsOK
  <2>3. s \in Derived /\ parent \in Derived => first \in Frame
    <3>1. parent \in Derived => Call("idle", "forked", Event1.t, parent) \in Frame
      BY <1>2, <2>1, CallTyped DEF PC, Ops
    <3> QED BY <3>1 DEF Frame
  <2>4. \/ Step(H, Done) \/ Step(H, child)
        \/ s \in Derived /\ parent \in Derived /\ EnsureCreated(H, first)
    BY <1>4 DEF HandleForked
  <2> HIDE DEF child, first
  <2> QED BY <1>1, <2>2, <2>3, <2>4, IdleOK, StepOK, EnsureCreatedOK
<1>5. CASE HandleRenamed
  <2> DEFINE s == Event1.name
             from == Event1.from
             plain == Call("idle", "created", Event1.t, s)
             move == [Call("tree", "renamed", Event1.t, s) EXCEPT
                        !.src = from.branch, !.from = from]
  <2>1. stream # <<>>
    BY <1>5 DEF HandleRenamed, Receives
  <2>2. LocalsOK(plain) /\ (s \in Derived => plain \in Frame)
    BY <1>2, <2>1, CallOK, CallTyped DEF PC, Ops
  <2>3. s.repo = from.repo => LocalsOK(move)
    BY DEF Call, LocalsOK
  <2>4. \/ Step(H, Done)
        \/ s \in Derived /\ EnsureCreated(H, plain)
        \/ s.repo = from.repo /\ Step(H, move)
    BY <1>5 DEF HandleRenamed
  <2> HIDE DEF plain, move
  <2> QED BY <1>1, <2>2, <2>3, <2>4, IdleOK, StepOK, EnsureCreatedOK
<1>6. CASE Shared(H)
  BY <1>1, <1>6, SharedOK
<1>7. CASE RenameRow \/ DeleteBranch \/ DeleteRow \/ Ack
  <2>1. LocalsOK(AfterDelete(f))
    BY <1>1, IdleOK, PcOK DEF AfterDelete, PC
  <2>2. \/ Step(H, Idle) \/ Step(H, Done) \/ Goto(H, "delbranch") \/ Step(H, AfterDelete(f))
    BY <1>7 DEF RenameRow, DeleteBranch, DeleteRow, Ack
  <2> QED BY <1>1, <2>1, <2>2, IdleOK, StepOK, GotoOK DEF PC
<1> QED BY <1>3, <1>4, <1>5, <1>6, <1>7 DEF HandlerNext

LEMMA FramesStep ==
    ASSUME TypeOK, HandlerHoldsEvent, FramesOK, [Next]_vars
    PROVE  FramesOK'
<1>1. /\ frame \in [Goroutines -> Frame]
      /\ H \in Goroutines /\ R \in Goroutines /\ T \in Goroutines
      /\ \A p \in Goroutines : frame[p] \in Frame /\ LocalsOK(frame[p])
  BY DEF TypeOK, H, R, T, Goroutines, FramesOK
<1>2. ASSUME UNCHANGED frame PROVE FramesOK'
  BY <1>2 DEF FramesOK
<1>3. CASE AgentNext
  <2>1. UNCHANGED frame
    BY <1>3 DEF AgentNext, AgentCreate, AgentFork, AgentRename, AgentDelete
  <2> QED BY <1>2, <2>1
<1>4. CASE UserNext
  <2>1. ASSUME NEW t \in Tenants, NEW s \in Derived, SubsessionCreate(t, s) PROVE FramesOK'
    <3>1. LocalsOK(Call("tree", "subsession", t, s))
      BY CallOK
    <3> QED BY <1>1, <2>1, <3>1, StepOK DEF SubsessionCreate
  <2>2. ASSUME NEW r \in Repos, NEW b \in Branches, Commit(r, b) \/ UserDeleteBranch(r, b)
        PROVE  FramesOK'
    BY <1>2, <2>2 DEF Commit, UserDeleteBranch
  <2> QED BY <1>4, <2>1, <2>2 DEF UserNext
<1>5. CASE HandlerNext
  BY <1>5, HandlerOK
<1>6. CASE ReconcilerNext
  <2>1. CASE Shared(R)
    BY <1>1, <2>1, SharedOK
  <2>2. CASE ListSessions \/ ReadManaged \/ ConvergeRepo \/ DropRow
    <3>1. UNCHANGED frame \/ \E pc \in PC \ {"rename"} : Goto(R, pc)
      BY <2>2 DEF ListSessions, ReadManaged, LoadTree, ConvergeRepo, DropRow, PC
    <3> QED BY <1>1, <1>2, <3>1, GotoOK
  <2>3. CASE StartBackfill
    BY <1>1, <2>3, IdleOK, StepOK DEF StartBackfill
  <2>4. CASE Backfill
    <3>1. \A s \in snap.rest : /\ LocalsOK(Call("idle", "reconcile", Default, s))
                               /\ Call("idle", "reconcile", Default, s) \in Frame
      <4>1. snap.rest \subseteq Derived
        BY DEF TypeOK, Snap
      <4> QED BY <4>1, CallOK, CallTyped, WorkspaceAssumption DEF PC, Ops
    <3> QED BY <1>1, <2>4, <3>1, IdleOK, StepOK, EnsureCreatedOK DEF Backfill
  <2> QED BY <1>6, <2>1, <2>2, <2>3, <2>4 DEF ReconcilerNext
<1>7. CASE ToolNext
  <2>1. CASE Shared(T)
    BY <1>1, <2>1, SharedOK
  <2>2. CASE CreateRepoSession
    BY <1>1, <2>2, GotoOK DEF CreateRepoSession, PC
  <2>3. CASE ToolReturns
    BY <1>1, <2>3, IdleOK, StepOK DEF ToolReturns
  <2> QED BY <1>7, <2>1, <2>2, <2>3 DEF ToolNext
<1>8. CASE FaultNext
  <2>1. ASSUME NEW p \in Goroutines, ReadTreeBlind(p) \/ Fail(p) PROVE FramesOK'
    BY <1>1, <2>1, IdleOK, StepOK, GotoOK DEF ReadTreeBlind, Fail, PC
  <2>2. CASE DeleteBranchBlind
    <3>1. LocalsOK(AfterDelete(frame[H]))
      BY <1>1, IdleOK, PcOK DEF AfterDelete, PC
    <3> QED BY <1>1, <2>2, <3>1, StepOK DEF DeleteBranchBlind
  <2>3. CASE ReadManagedBlind
    BY <1>1, <2>3, GotoOK DEF ReadManagedBlind, LoadTree, PC
  <2> QED BY <1>8, <2>1, <2>2, <2>3 DEF FaultNext
<1>9. CASE UNCHANGED vars
  BY <1>2, <1>9 DEF vars
<1> QED BY <1>3, <1>4, <1>5, <1>6, <1>7, <1>8, <1>9 DEF Next

(* What INSERT and UPDATE do to a one-to-one table.                         *)
OneToOne(table) ==
    /\ \A x \in table : x.session = [repo |-> x.repo, branch |-> x.branch]
    /\ \A x, y \in table :
         x.t = y.t /\ (x.session = y.session \/ (x.repo = y.repo /\ x.branch = y.branch))
           => x = y

LEMMA FewerRows ==
    ASSUME NEW table, OneToOne(table), NEW part \in SUBSET table
    PROVE  OneToOne(part)
BY DEF OneToOne

LEMMA OneMoreRow ==
    ASSUME NEW table, OneToOne(table), NEW x,
           x.session = [repo |-> x.repo, branch |-> x.branch], ~Clash(x, table)
    PROVE  OneToOne(table \cup {x})
BY DEF OneToOne, Clash

(* Only bindRow adds rows, only a rename changes one; the rest of the system *)
(* removes rows or leaves the table alone.                                  *)
LEMMA WhoWritesRows ==
    ASSUME [Next]_vars
    PROVE  \/ rows' \subseteq rows
           \/ RenameRow
           \/ \E p \in Goroutines : InsertRow(p)
<1>1. CASE AgentNext
  BY <1>1 DEF AgentNext, AgentCreate, AgentFork, AgentRename, AgentDelete
<1>2. CASE UserNext
  BY <1>2 DEF UserNext, Commit, UserDeleteBranch, SubsessionCreate
<1>3. ASSUME NEW p \in Goroutines, Shared(p)
      PROVE  rows' \subseteq rows \/ InsertRow(p)
  BY <1>3 DEF Shared, AnchorBranch, ReadTree, CreateBranch, InsertManaged
<1>4. H \in Goroutines /\ R \in Goroutines /\ T \in Goroutines
  BY DEF H, R, T, Goroutines
<1>5. CASE HandlerNext
  BY <1>3, <1>4, <1>5 DEF HandlerNext, HandleCreated, HandleForked, HandleRenamed,
        HandleDeleted, Reads, DeleteBranch, DeleteRow, Unbind, Ack
<1>6. CASE ReconcilerNext
  BY <1>3, <1>4, <1>6 DEF ReconcilerNext, ListSessions, ReadManaged, LoadTree,
        ConvergeRepo, DropRow, Unbind, StartBackfill, Backfill
<1>7. CASE ToolNext
  BY <1>3, <1>4, <1>7 DEF ToolNext, CreateRepoSession, ToolReturns
<1>8. CASE FaultNext
  BY <1>8 DEF FaultNext, ReadTreeBlind, Fail, DeleteBranchBlind, ReadManagedBlind, LoadTree
<1>9. CASE UNCHANGED vars
  BY <1>9 DEF vars
<1> QED BY <1>1, <1>2, <1>5, <1>6, <1>7, <1>8, <1>9 DEF Next

LEMMA OneToOneStep ==
    ASSUME TypeOK, FramesOK, RowsOneToOne, [Next]_vars
    PROVE  RowsOneToOne'
<1>1. OneToOne(rows)
  BY DEF OneToOne, RowsOneToOne
<1>2. ASSUME OneToOne(rows') PROVE RowsOneToOne'
  BY <1>2 DEF OneToOne, RowsOneToOne
<1>3. CASE rows' \subseteq rows
  BY <1>1, <1>2, <1>3, FewerRows
<1>4. ASSUME NEW p \in Goroutines, InsertRow(p) PROVE RowsOneToOne'
  <2> DEFINE x == NewRow(frame[p].t, frame[p].name)
  <2>1. frame[p].name \in Derived
    BY DEF TypeOK, Frame
  <2>2. x.session = [repo |-> x.repo, branch |-> x.branch]
    BY <2>1 DEF NewRow, Derived
  <2>3. rows' = rows \/ (~Clash(x, rows) /\ rows' = rows \cup {x})
    BY <1>4 DEF InsertRow
  <2> HIDE DEF x
  <2> QED BY <1>1, <1>2, <2>2, <2>3, OneMoreRow
<1>5. CASE RenameRow
  <2> DEFINE f == frame[H]
             old == GetRow(f.t, f.from.repo, f.from.branch)
  <2>1. /\ f \in Frame /\ f.name \in Derived /\ f.from.repo = f.name.repo
    <3>1. f \in Frame /\ LocalsOK(f) /\ f.pc = "rename"
      BY <1>5 DEF TypeOK, FramesOK, H, Goroutines, RenameRow
    <3> QED BY <3>1 DEF LocalsOK, Frame
  <2>2. CASE rows' = rows
    BY <1>1, <1>2, <2>2
  <2>3. CASE /\ old # {}
             /\ ~ \E y \in {Moved(x, f.name) : x \in old} : Clash(y, rows \ old)
             /\ rows' = (rows \ old) \cup {Moved(x, f.name) : x \in old}
    <3>1. PICK x \in old : TRUE
      BY <2>3
    <3>2. old = {x}
      BY <1>1, <3>1 DEF OneToOne, GetRow
    <3> DEFINE y == Moved(x, f.name)
    <3>3. rows' = (rows \ old) \cup {y} /\ ~Clash(y, rows \ old)
      BY <2>3, <3>2
    <3>4. x \in Row /\ x.repo = f.from.repo
      BY <3>1 DEF GetRow, TypeOK
    <3>5. y.repo = x.repo /\ y.branch = f.name.branch /\ y.session = f.name
      BY <3>4 DEF Moved, Row
    <3>6. y.session = [repo |-> y.repo, branch |-> y.branch]
      BY <2>1, <3>4, <3>5 DEF Derived
    <3>7. OneToOne(rows \ old)
      BY <1>1, FewerRows
    <3> HIDE DEF y
    <3> QED BY <1>2, <3>3, <3>6, <3>7, OneMoreRow
  <2> QED BY <1>5, <2>2, <2>3 DEF RenameRow
<1> QED BY <1>3, <1>4, <1>5, WhoWritesRows

(* No interleaving of the handler, the reconciler and the tool, with any    *)
(* number of tenants, repositories, failures and redelivered events, makes  *)
(* two sessions share a branch or a session two branches, or leaves a row   *)
(* under another session's name (bindRow, RenameRow).                       *)
THEOREM MappingOneToOne == Spec => []RowsOneToOne
<1>1. Init => FramesOK /\ RowsOneToOne
  <2>1. Init => \A p \in Goroutines : frame[p] = Idle
    BY DEF Init
  <2> QED BY <2>1, IdleOK DEF Init, FramesOK, RowsOneToOne
<1>2. FramesOK /\ RowsOneToOne /\ TypeOK /\ HandlerHoldsEvent /\ [Next]_vars
        => (FramesOK /\ RowsOneToOne)'
  BY FramesStep, OneToOneStep
<1> QED BY <1>1, <1>2, TypeCorrect, PTL DEF Spec

-----------------------------------------------------------------------------
(* Rows stay within the reconciler's reach.                                 *)

(* As long as no call has failed, a row's repository is managed, so that    *)
(* the reconciler looks at the row, or the goroutine that wrote the row is  *)
(* about to say so (bindRow): no path that writes or moves rows, no         *)
(* conflict between two of them, leaves a row out of the reconciler's reach.*)
RowsManaged ==
    NothingFails =>
      \A x \in rows :
        \/ <<x.t, x.repo>> \in managed
        \/ \E p \in Goroutines : /\ frame[p].pc = "manage"
                                 /\ frame[p].t = x.t /\ frame[p].name.repo = x.repo

(* Failures are only ever spent.                                            *)
LEMMA FailsSpent ==
    ASSUME TypeOK, [Next]_vars
    PROVE  budget'["fails"] <= budget["fails"]
<1>1. budget \in [Kinds -> Nat] /\ "fails" \in Kinds /\ "trouble" \in Kinds
  BY DEF TypeOK, Kinds
<1>2. ASSUME NEW k \in Kinds, Spend(k) \/ Trouble(k)
      PROVE  budget'["fails"] <= budget["fails"]
  BY <1>1, <1>2 DEF Spend, Trouble
<1>3. ASSUME UNCHANGED budget PROVE budget'["fails"] <= budget["fails"]
  BY <1>1, <1>3
<1>4. \A k \in {"ops", "commits", "cuts", "losses", "fails", "blinds", "tools"} : k \in Kinds
  BY DEF Kinds
<1>5. ASSUME NEW p \in Goroutines, Shared(p) PROVE UNCHANGED budget
  BY <1>5 DEF Shared, AnchorBranch, ReadTree, CreateBranch, InsertRow, InsertManaged
<1>6. H \in Goroutines /\ R \in Goroutines /\ T \in Goroutines
  BY DEF H, R, T, Goroutines
<1>7. CASE AgentNext
  <2>1. \/ Spend("ops")
        \/ budget' = [k \in Kinds |-> IF k \in {"ops", "losses", "trouble"}
                                      THEN budget[k] - 1 ELSE budget[k]]
    BY <1>7 DEF AgentNext, AgentCreate, AgentFork, AgentRename, AgentDelete, Publish
  <2> QED BY <1>1, <1>2, <1>4, <2>1
<1>8. CASE UserNext
  BY <1>2, <1>4, <1>8 DEF UserNext, Commit, UserDeleteBranch, SubsessionCreate
<1>9. CASE HandlerNext
  BY <1>3, <1>5, <1>6, <1>9 DEF HandlerNext, HandleCreated, HandleForked, HandleRenamed,
        HandleDeleted, Reads, RenameRow, DeleteBranch, DeleteRow, Ack
<1>10. CASE ReconcilerNext
  BY <1>3, <1>5, <1>6, <1>10 DEF ReconcilerNext, ListSessions, ReadManaged, LoadTree,
        ConvergeRepo, DropRow, StartBackfill, Backfill
<1>11. CASE ToolNext
  BY <1>2, <1>3, <1>4, <1>5, <1>6, <1>11 DEF ToolNext, CreateRepoSession, ToolReturns
<1>12. CASE FaultNext
  BY <1>2, <1>4, <1>12 DEF FaultNext, ReadTreeBlind, Fail, DeleteBranchBlind,
        ReadManagedBlind
<1>13. CASE UNCHANGED vars
  BY <1>3, <1>13 DEF vars
<1> QED BY <1>7, <1>8, <1>9, <1>10, <1>11, <1>12, <1>13 DEF Next

(* A goroutine that is about to mark a repository managed.                  *)
Marks(f, x)   == f.pc = "manage" /\ f.t = x.t /\ f.name.repo = x.repo
KeepsMarkers  == \A p \in Goroutines : frame[p].pc = "manage" => frame'[p] = frame[p]

LEMMA MarkersKept ==
    ASSUME frame \in [Goroutines -> Frame], NEW p \in Goroutines,
           frame[p].pc # "manage", NEW f, Step(p, f)
    PROVE  KeepsMarkers
BY DEF Step, KeepsMarkers

LEMMA GotoKept ==
    ASSUME frame \in [Goroutines -> Frame], NEW p \in Goroutines,
           frame[p].pc # "manage", NEW pc, Goto(p, pc)
    PROVE  KeepsMarkers
BY MarkersKept DEF Goto

LEMMA EnsureCreatedKept ==
    ASSUME frame \in [Goroutines -> Frame], NEW p \in Goroutines,
           frame[p].pc # "manage", NEW f, EnsureCreated(p, f)
    PROVE  KeepsMarkers
BY MarkersKept DEF EnsureCreated

(* Nobody but the goroutine itself, or its failure, takes its mark back.    *)
LEMMA WhoDropsMarkers ==
    ASSUME TypeOK, [Next]_vars
    PROVE  \/ managed' = managed /\ KeepsMarkers
           \/ \E p \in Goroutines : InsertManaged(p) \/ Fail(p)
<1>1. /\ frame \in [Goroutines -> Frame]
      /\ H \in Goroutines /\ R \in Goroutines /\ T \in Goroutines
  BY DEF TypeOK, H, R, T, Goroutines
<1>2. ASSUME NEW p \in Goroutines, Shared(p)
      PROVE  InsertManaged(p) \/ (managed' = managed /\ KeepsMarkers)
  <2>1. CASE AnchorBranch(p) \/ ReadTree(p) \/ CreateBranch(p) \/ InsertRow(p)
    <3>1. managed' = managed /\ frame[p].pc # "manage" /\ \E f : Step(p, f)
      BY <2>1 DEF AnchorBranch, ReadTree, CreateBranch, InsertRow, Goto
    <3> QED BY <1>1, <3>1, MarkersKept
  <2> QED BY <1>2, <2>1 DEF Shared
<1>3. CASE AgentNext
  BY <1>3 DEF AgentNext, AgentCreate, AgentFork, AgentRename, AgentDelete, KeepsMarkers
<1>4. CASE UserNext
  <2>1. managed' = managed
    BY <1>4 DEF UserNext, Commit, UserDeleteBranch, SubsessionCreate
  <2>2. UNCHANGED frame \/ (frame[T].pc # "manage" /\ \E f : Step(T, f))
    BY <1>4 DEF UserNext, Commit, UserDeleteBranch, SubsessionCreate
  <2> QED BY <1>1, <2>1, <2>2, MarkersKept DEF KeepsMarkers
<1>5. CASE HandlerNext
  <2>1. CASE HandleCreated \/ HandleForked \/ HandleRenamed \/ HandleDeleted
    <3>1. managed' = managed /\ frame[H].pc # "manage"
      BY <2>1 DEF HandleCreated, HandleForked, HandleRenamed, HandleDeleted, Receives, Reads
    <3>2. (\E f : Step(H, f)) \/ (\E f : EnsureCreated(H, f))
      BY <2>1 DEF HandleCreated, HandleForked, HandleRenamed, HandleDeleted
    <3> QED BY <1>1, <3>1, <3>2, MarkersKept, EnsureCreatedKept
  <2>2. CASE RenameRow \/ DeleteBranch \/ DeleteRow \/ Ack
    <3>1. managed' = managed /\ frame[H].pc # "manage" /\ \E f : Step(H, f)
      BY <2>2 DEF RenameRow, DeleteBranch, DeleteRow, Ack, Goto
    <3> QED BY <1>1, <3>1, MarkersKept
  <2> QED BY <1>1, <1>2, <1>5, <2>1, <2>2 DEF HandlerNext
<1>6. CASE ReconcilerNext
  <2>1. CASE ListSessions \/ ReadManaged \/ ConvergeRepo \/ DropRow \/ StartBackfill
    <3>1. managed' = managed /\ (UNCHANGED frame \/ (frame[R].pc # "manage" /\ \E f : Step(R, f)))
      BY <2>1 DEF ListSessions, ReadManaged, LoadTree, ConvergeRepo, DropRow,
                  StartBackfill, Goto
    <3> QED BY <1>1, <3>1, MarkersKept DEF KeepsMarkers
  <2>2. CASE Backfill
    BY <1>1, <2>2, MarkersKept, EnsureCreatedKept DEF Backfill
  <2> QED BY <1>1, <1>2, <1>6, <2>1, <2>2 DEF ReconcilerNext
<1>7. CASE ToolNext
  <2>1. CASE CreateRepoSession \/ ToolReturns
    <3>1. managed' = managed /\ frame[T].pc # "manage" /\ \E f : Step(T, f)
      BY <2>1 DEF CreateRepoSession, ToolReturns, Goto
    <3> QED BY <1>1, <3>1, MarkersKept
  <2> QED BY <1>1, <1>2, <1>7, <2>1 DEF ToolNext
<1>8. CASE FaultNext
  <2>1. ASSUME NEW p \in Goroutines, ReadTreeBlind(p) PROVE managed' = managed /\ KeepsMarkers
    BY <1>1, <2>1, GotoKept DEF ReadTreeBlind
  <2>2. CASE DeleteBranchBlind
    BY <1>1, <2>2, MarkersKept DEF DeleteBranchBlind
  <2>3. CASE ReadManagedBlind
    BY <1>1, <2>3, GotoKept DEF ReadManagedBlind, LoadTree
  <2> QED BY <1>8, <2>1, <2>2, <2>3 DEF FaultNext
<1>9. CASE UNCHANGED vars
  BY <1>9 DEF vars, KeepsMarkers
<1> QED BY <1>3, <1>4, <1>5, <1>6, <1>7, <1>8, <1>9 DEF Next

LEMMA ManagedStep ==
    ASSUME TypeOK, RowsManaged, [Next]_vars
    PROVE  RowsManaged'
<1> SUFFICES ASSUME budget'["fails"] = MaxFails, NEW x \in rows'
             PROVE  \/ <<x.t, x.repo>> \in managed'
                    \/ \E p \in Goroutines : Marks(frame'[p], x)
  BY DEF RowsManaged, NothingFails, Marks
<1>1. budget["fails"] = MaxFails
  <2>1. Bound["fails"] = MaxFails /\ "fails" \in Kinds
    BY DEF Bound, Kinds
  <2>2. budget["fails"] \in Nat /\ budget["fails"] <= MaxFails /\ MaxFails \in Nat
    BY <2>1, WorkspaceAssumption DEF TypeOK
  <2>3. budget'["fails"] <= budget["fails"]
    BY FailsSpent
  <2> QED BY <2>2, <2>3
<1>2. \A y \in rows : \/ <<y.t, y.repo>> \in managed
                      \/ \E p \in Goroutines : Marks(frame[p], y)
  BY <1>1 DEF RowsManaged, NothingFails, Marks
<1>3. frame \in [Goroutines -> Frame]
  BY DEF TypeOK
<1>4. ASSUME NEW p \in Goroutines PROVE ~Fail(p)
  <2>1. "fails" \in Kinds /\ budget \in [Kinds -> Nat]
    BY DEF Kinds, TypeOK
  <2>2. Fail(p) => budget'["fails"] = budget["fails"] - 1
    BY <2>1 DEF Fail, Trouble
  <2> QED BY <1>1, <2>1, <2>2, WorkspaceAssumption
<1>5. CASE \E p \in Goroutines : InsertManaged(p)
  <2>1. PICK p \in Goroutines : InsertManaged(p)
    BY <1>5
  <2>2. x \in rows /\ managed' = managed \cup {<<frame[p].t, frame[p].name.repo>>}
    BY <2>1 DEF InsertManaged
  <2>3. \A q \in Goroutines \ {p} : frame'[q] = frame[q]
    BY <1>3, <2>1 DEF InsertManaged, Step
  <2>4. CASE <<x.t, x.repo>> \in managed
    BY <2>2, <2>4
  <2>5. CASE Marks(frame[p], x)
    BY <2>2, <2>5 DEF Marks
  <2>6. CASE \E q \in Goroutines \ {p} : Marks(frame[q], x)
    BY <2>3, <2>6
  <2> QED BY <1>2, <2>2, <2>4, <2>5, <2>6
<1>6. CASE managed' = managed /\ KeepsMarkers
  <2>1. ASSUME NEW y \in rows, y.t = x.t, y.repo = x.repo
        PROVE  \/ <<x.t, x.repo>> \in managed'
               \/ \E p \in Goroutines : Marks(frame'[p], x)
    BY <1>2, <1>6, <2>1 DEF KeepsMarkers, Marks
  <2>2. CASE x \in rows
    BY <2>1, <2>2
  <2>3. ASSUME NEW p \in Goroutines, InsertRow(p), x \notin rows
        PROVE  Marks(frame'[p], x)
    <3>1. frame[p] \in Frame
      BY <1>3
    <3>2. x = NewRow(frame[p].t, frame[p].name) /\ Step(p, AfterInsert(frame[p]))
      BY <2>3 DEF InsertRow
    <3>3. frame'[p] = AfterInsert(frame[p])
      BY <1>3, <3>2 DEF Step
    <3> QED BY <3>1, <3>2, <3>3 DEF AfterInsert, NewRow, Marks, Frame
  <2>4. CASE RenameRow /\ x \notin rows
    <3>1. PICK y \in rows : x = Moved(y, frame[H].name)
      BY <2>4 DEF RenameRow, GetRow
    <3>2. y \in Row
      BY DEF TypeOK
    <3>3. x.t = y.t /\ x.repo = y.repo
      BY <3>1, <3>2 DEF Moved, Row
    <3> QED BY <2>1, <3>3
  <2> QED BY <2>2, <2>3, <2>4, WhoWritesRows
<1> QED BY <1>4, <1>5, <1>6, WhoDropsMarkers

(* Without failing calls every row's repository is, or is about to be,      *)
(* marked managed, whatever the goroutines' interleaving and however often  *)
(* rows are inserted, moved, lost to a conflict or dropped: convergeDrift,  *)
(* which only visits managed repositories, sees every row.                  *)
THEOREM RowsInReach == Spec => []RowsManaged
<1>1. Init => RowsManaged
  BY DEF Init, RowsManaged
<1>2. RowsManaged /\ TypeOK /\ [Next]_vars => RowsManaged'
  BY ManagedStep
<1> QED BY <1>1, <1>2, TypeCorrect, PTL DEF Spec
-----------------------------------------------------------------------------
(* The handler alone: no reconciler and no subsession-create tool.  The     *)
(* steps that are left.                                                     *)

HandlerAlone == Procs \subseteq {H}
OthersIdle   == \A p \in Goroutines \ {H} : frame[p].pc = "idle"

UserSteps == \E r \in Repos, b \in Branches : Commit(r, b) \/ UserDeleteBranch(r, b)
Blinded   == ReadTreeBlind(H) \/ DeleteBranchBlind
Steps     == AgentNext \/ UserSteps \/ HandlerNext \/ Blinded \/ Fail(H) \/ UNCHANGED vars

LEMMA OnlyTheHandler ==
    ASSUME HandlerAlone, TypeOK, OthersIdle, [Next]_vars
    PROVE  Steps /\ OthersIdle'
<1>1. /\ frame \in [Goroutines -> Frame] /\ H \in Goroutines
      /\ R \in Goroutines \ {H} /\ T \in Goroutines \ {H}
      /\ R \notin Procs /\ T \notin Procs
  BY DEF TypeOK, H, R, T, Goroutines, HandlerAlone
<1>2. frame[R].pc = "idle" /\ frame[T].pc = "idle"
  BY <1>1 DEF OthersIdle
<1>3. ASSUME NEW p \in Goroutines \ {H} PROVE ~Shared(p) /\ ~ReadTreeBlind(p) /\ ~Fail(p)
  <2>1. frame[p].pc = "idle"
    BY DEF OthersIdle
  <2> QED BY <2>1 DEF Shared, AnchorBranch, ReadTree, CreateBranch, InsertRow,
                      InsertManaged, ReadTreeBlind, Fail
<1>4. ~ReconcilerNext /\ ~ToolNext /\ ~ReadManagedBlind
  BY <1>1, <1>2, <1>3 DEF ReconcilerNext, ListSessions, ReadManaged, LoadTree, ConvergeRepo,
        DropRow, StartBackfill, Backfill, ToolNext, CreateRepoSession, ToolReturns,
        ReadManagedBlind
<1>5. \A t \in Tenants, s \in Derived : ~SubsessionCreate(t, s)
  BY <1>1 DEF SubsessionCreate
<1>6. Steps
  <2>1. FaultNext => Blinded \/ Fail(H)
    BY <1>3, <1>4 DEF FaultNext, Blinded
  <2>2. UserNext => UserSteps
    BY <1>5 DEF UserNext, UserSteps
  <2> QED BY <1>4, <2>1, <2>2 DEF Next, Steps
<1>7. ASSUME NEW f, Step(H, f) PROVE OthersIdle'
  BY <1>1, <1>7 DEF OthersIdle, Step
<1>8. ASSUME frame' = frame PROVE OthersIdle'
  BY <1>8 DEF OthersIdle
<1>9. frame' = frame \/ \E f : Step(H, f)
  <2>1. CASE AgentNext
    BY <2>1 DEF AgentNext, AgentCreate, AgentFork, AgentRename, AgentDelete
  <2>2. CASE UserSteps
    BY <2>2 DEF UserSteps, Commit, UserDeleteBranch
  <2>3. CASE HandlerNext
    BY <2>3 DEF HandlerNext, HandleCreated, HandleForked, HandleRenamed, HandleDeleted,
          EnsureCreated, Shared, AnchorBranch, ReadTree, CreateBranch, InsertRow,
          InsertManaged, RenameRow, DeleteBranch, DeleteRow, Ack, Goto
  <2>4. CASE Blinded \/ Fail(H)
    BY <2>4 DEF Blinded, ReadTreeBlind, DeleteBranchBlind, Fail, Goto
  <2> QED BY <1>6, <2>1, <2>2, <2>3, <2>4 DEF Steps, vars
<1> QED BY <1>6, <1>7, <1>8, <1>9

LEMMA BudgetAt ==
    ASSUME TypeOK, NEW k \in Kinds
    PROVE  budget[k] \in Nat /\ budget[k] <= Bound[k] /\ Bound[k] \in Nat
BY BoundTyped DEF TypeOK

LEMMA AfterBindPc ==
    ASSUME NEW f \in Frame
    PROVE  AfterBind(f).pc \in {"done", "tree"}
<1>1. CASE f.kid = {}
  BY <1>1, IdleTyped DEF AfterBind, Done, Frame
<1>2. CASE f.kid # {}
  BY <1>2 DEF AfterBind, Frame
<1> QED BY <1>1, <1>2

(* A handler that takes up an event begins with one of these steps.         *)
LEMMA FirstPc ==
    ASSUME TypeOK, HandleCreated \/ HandleForked \/ HandleRenamed \/ HandleDeleted
    PROVE  frame'[H].pc \in {"done", "anchor", "tree", "delbranch"}
<1>1. /\ frame \in [Goroutines -> Frame] /\ H \in Goroutines /\ Done.pc = "done"
      /\ Event1 \in Event
  <2>1. stream # <<>> /\ stream \in Seq(Event)
    BY DEF TypeOK, HandleCreated, HandleForked, HandleRenamed, HandleDeleted, Receives
  <2> QED BY <2>1, IdleTyped DEF TypeOK, H, Goroutines, Event1, Done, Frame
<1>2. Event1.t \in Tenants /\ Event1.name \in Name /\ Event1.from \in Name
  BY <1>1 DEF Event
<1>3. ASSUME NEW g, Step(H, g) PROVE frame'[H] = g
  BY <1>1, <1>3 DEF Step
<1>4. ASSUME NEW g \in Frame, EnsureCreated(H, g)
      PROVE  frame'[H].pc \in {"done", "anchor", "tree"}
  BY <1>3, <1>4, AfterBindPc DEF EnsureCreated, Frame
<1>5. CASE HandleCreated \/ HandleDeleted
  <2>1. \/ Step(H, Done) \/ Step(H, Call("delbranch", "deleted", Event1.t, Event1.name))
        \/ /\ Event1.name \in Derived
           /\ EnsureCreated(H, Call("idle", "created", Event1.t, Event1.name))
    BY <1>5 DEF HandleCreated, HandleDeleted
  <2>2. Event1.name \in Derived => Call("idle", "created", Event1.t, Event1.name) \in Frame
    BY <1>2, CallTyped DEF PC, Ops
  <2>3. Call("delbranch", "deleted", Event1.t, Event1.name).pc = "delbranch"
    BY DEF Call
  <2> QED BY <1>1, <1>3, <1>4, <2>1, <2>2, <2>3
<1>6. CASE HandleForked
  <2> DEFINE s == Event1.name
             parent == Event1.from
             child == [Call("tree", "forked", Event1.t, s) EXCEPT
                         !.src = IF parent \in Derived THEN parent.branch ELSE Main]
             first == [Call("idle", "forked", Event1.t, parent) EXCEPT !.kid = {s}]
  <2>1. \/ Step(H, Done) \/ Step(H, child)
        \/ s \in Derived /\ parent \in Derived /\ EnsureCreated(H, first)
    BY <1>6 DEF HandleForked
  <2>2. s \in Derived /\ parent \in Derived => first \in Frame
    <3>1. parent \in Derived => Call("idle", "forked", Event1.t, parent) \in Frame
      BY <1>2, CallTyped DEF PC, Ops
    <3> QED BY <3>1 DEF Frame
  <2>3. child.pc = "tree"
    BY DEF Call
  <2> HIDE DEF child, first
  <2> QED BY <1>1, <1>3, <1>4, <2>1, <2>2, <2>3
<1>7. CASE HandleRenamed
  <2> DEFINE s == Event1.name
             from == Event1.from
             plain == Call("idle", "created", Event1.t, s)
             move == [Call("tree", "renamed", Event1.t, s) EXCEPT
                        !.src = from.branch, !.from = from]
  <2>1. \/ Step(H, Done) \/ Step(H, move)
        \/ s \in Derived /\ EnsureCreated(H, plain)
    BY <1>7 DEF HandleRenamed
  <2>2. s \in Derived => plain \in Frame
    BY <1>2, CallTyped DEF PC, Ops
  <2>3. move.pc = "tree"
    BY DEF Call
  <2> HIDE DEF plain, move
  <2> QED BY <1>1, <1>3, <1>4, <2>1, <2>2, <2>3
<1> QED BY <1>5, <1>6, <1>7

(* The branch a CreateBranch is about to make is not there: between the     *)
(* handler's reading of the tree and its call nobody else makes one.        *)
StillMissing(f) == f.pc = "create" /\ f.name.branch # Main =>
                     branch[f.name.repo][f.name.branch] = None
Creates == StillMissing(frame[H])

LEMMA CreatesStep ==
    ASSUME HandlerAlone, MaxBlinds = 0, TypeOK, OthersIdle, Creates, [Next]_vars
    PROVE  Creates' /\ \A r \in Repos, b \in Branches \ {Main} : Kept(r, b)
<1> DEFINE f == frame[H]
<1>1. /\ frame \in [Goroutines -> Frame] /\ H \in Goroutines
      /\ branch \in [Repos -> [Branches -> Nat \cup {None}]]
      /\ f \in Frame /\ f.name \in Derived /\ f.name.repo \in Repos /\ f.name.branch \in Branches
  BY DEF TypeOK, H, Goroutines, Frame, Derived
<1>2. ~Blinded
  <2>1. "blinds" \in Kinds /\ Bound["blinds"] = 0
    BY DEF Kinds, Bound
  <2> QED BY <2>1, BudgetAt DEF Blinded, ReadTreeBlind, DeleteBranchBlind, Trouble
<1>3. ASSUME branch' = branch PROVE \A r \in Repos, b \in Branches \ {Main} : Kept(r, b)
  BY <1>3 DEF Kept
<1>4. Idle.pc = "idle" /\ Done.pc = "done"
  BY IdleTyped DEF Idle, Done, Call, Frame
<1>5. ASSUME branch' = branch, NEW g, Step(H, g), g.pc # "create" PROVE Creates'
  BY <1>1, <1>5 DEF Step, Creates, StillMissing
<1>6. CASE AgentNext \/ UNCHANGED vars
  <2>1. branch' = branch /\ frame' = frame
    BY <1>6 DEF AgentNext, AgentCreate, AgentFork, AgentRename, AgentDelete, lab, vars
  <2> QED BY <1>3, <2>1 DEF Creates, StillMissing
<1>7. CASE UserSteps
  <2>1. PICK r \in Repos, b \in Branches : Commit(r, b) \/ UserDeleteBranch(r, b)
    BY <1>7 DEF UserSteps
  <2>2. CASE Commit(r, b)
    <3>1. PICK c : branch' = [branch EXCEPT ![r][b] = c]
      BY <2>2 DEF Commit
    <3>2. frame' = frame /\ (branch[r][b] # None \/ b = Main)
      BY <2>2 DEF Commit
    <3>3. Creates'
      BY <1>1, <3>1, <3>2 DEF Creates, StillMissing
    <3>4. budget'["commits"] # budget["commits"]
      <4>1. "commits" \in Kinds /\ budget \in [Kinds -> Nat]
        BY DEF Kinds, TypeOK
      <4> QED BY <2>2, <4>1 DEF Commit, Spend
    <3> QED BY <3>3, <3>4 DEF Kept
  <2>3. CASE UserDeleteBranch(r, b)
    <3>1. branch' = [branch EXCEPT ![r][b] = None] /\ frame' = frame
      BY <2>3 DEF UserDeleteBranch
    <3> QED BY <1>1, <3>1 DEF Creates, StillMissing, Kept
  <2> QED BY <2>1, <2>2, <2>3
<1>8. CASE Fail(H)
  BY <1>3, <1>4, <1>5, <1>8 DEF Fail, lab
<1>9. CASE HandlerNext
  <2>1. CASE HandleCreated \/ HandleForked \/ HandleRenamed \/ HandleDeleted
    <3>1. branch' = branch
      BY <2>1 DEF HandleCreated, HandleForked, HandleRenamed, HandleDeleted, Reads, lab
    <3>2. frame'[H].pc # "create"
      BY <2>1, FirstPc
    <3> QED BY <1>3, <3>1, <3>2 DEF Creates, StillMissing
  <2>2. CASE AnchorBranch(H) \/ ReadTree(H) \/ InsertRow(H) \/ InsertManaged(H)
    <3>1. branch' = branch
      BY <2>2 DEF AnchorBranch, ReadTree, InsertRow, InsertManaged, lab
    <3>2. CASE ReadTree(H)
      <4>1. Step(H, Done) \/ Goto(H, AfterBranch(f))
            \/ (branch[f.name.repo][f.name.branch] = None /\ Goto(H, "create"))
        BY <3>2 DEF ReadTree, Listed
      <4>2. AfterBranch(f) # "create"
        BY DEF AfterBranch
      <4>3. ASSUME NEW pc \in PC, Goto(H, pc)
            PROVE  frame'[H].name = f.name /\ frame'[H].pc = pc
        BY <1>1, <4>3 DEF Goto, Step, Frame
      <4>4. ASSUME branch[f.name.repo][f.name.branch] = None, Goto(H, "create")
            PROVE  Creates'
        BY <3>1, <4>3, <4>4 DEF Creates, StillMissing, PC
      <4>5. ASSUME Goto(H, AfterBranch(f)) PROVE Creates'
        BY <1>1, <4>2, <4>3, <4>5, AfterBranchTyped DEF Creates, StillMissing
      <4> QED BY <1>3, <1>4, <1>5, <3>1, <4>1, <4>4, <4>5
    <3>3. CASE AnchorBranch(H) \/ InsertRow(H) \/ InsertManaged(H)
      <4>1. frame'[H].pc # "create"
        BY <1>1, <3>3, AfterBindPc DEF AnchorBranch, InsertRow, InsertManaged, AfterInsert,
              Step, Frame
      <4> QED BY <1>3, <3>1, <4>1 DEF Creates, StillMissing
    <3> QED BY <2>2, <3>2, <3>3
  <2>3. CASE CreateBranch(H)
    <3>1. PICK pos : /\ f.pc = "create" /\ Goto(H, AfterBranch(f))
                     /\ branch' = IF pos = None THEN branch
                                  ELSE [branch EXCEPT ![f.name.repo][f.name.branch] = pos]
      BY <2>3 DEF CreateBranch
    <3>2. frame'[H].pc # "create"
      BY <1>1, <3>1, AfterBranchTyped DEF Goto, Step, AfterBranch, Frame
    <3>3. f.name.branch # Main => branch[f.name.repo][f.name.branch] = None
      BY <3>1 DEF Creates, StillMissing
    <3> QED BY <1>1, <3>1, <3>2, <3>3 DEF Creates, StillMissing, Kept
  <2>4. CASE DeleteBranch
    <3>1. branch' = [branch EXCEPT ![OldBranch(f).repo][OldBranch(f).branch] = None]
      BY <2>4 DEF DeleteBranch
    <3>2. frame'[H].pc # "create"
      BY <1>1, <1>4, <2>4 DEF DeleteBranch, Step, AfterDelete, Frame
    <3>3. OldBranch(f) \in Derived
      BY <1>1 DEF OldBranch, Frame
    <3> QED BY <1>1, <3>1, <3>2, <3>3 DEF Creates, StillMissing, Kept, Derived
  <2>5. CASE RenameRow \/ DeleteRow \/ Ack
    <3>1. branch' = branch
      BY <2>5 DEF RenameRow, DeleteRow, Ack, lab
    <3>2. frame'[H].pc # "create"
      BY <1>1, <1>4, <2>5 DEF RenameRow, DeleteRow, Ack, Goto, Step, Frame
    <3> QED BY <1>3, <3>1, <3>2 DEF Creates, StillMissing
  <2> QED BY <1>9, <2>1, <2>2, <2>3, <2>4, <2>5 DEF HandlerNext, Shared
<1> QED BY <1>2, <1>6, <1>7, <1>8, <1>9, OnlyTheHandler DEF Steps

(* Whatever the agent, the users and failing handlers do meanwhile, the     *)
(* handler alone never moves a session branch that exists (EnsureBranch).   *)
THEOREM HandlerNeverResets ==
    ASSUME HandlerAlone, MaxBlinds = 0
    PROVE  Spec => BranchesNeverReset
<1>1. Init => OthersIdle /\ Creates
  <2>1. Init => \A p \in Goroutines : frame[p].pc = "idle"
    BY DEF Init, Idle, Call
  <2> QED BY <2>1 DEF OthersIdle, Creates, StillMissing, H, Goroutines
<1>2. OthersIdle /\ Creates /\ TypeOK /\ [Next]_vars => (OthersIdle /\ Creates)'
  BY CreatesStep, OnlyTheHandler
<1>3. OthersIdle /\ Creates /\ TypeOK /\ [Next]_vars
        => [\A r \in Repos, b \in Branches \ {Main} : Kept(r, b)]_vars
  BY CreatesStep
<1> QED BY <1>1, <1>2, <1>3, TypeCorrect, PTL DEF Spec, BranchesNeverReset

-----------------------------------------------------------------------------
(* The handler alone maps every session.  What makes it inductive: the      *)
(* table holds the sessions as they were before the oldest event that is    *)
(* not acknowledged, or, from the statement that writes the row on, as they *)
(* were after it; and the events in the stream lead from those sessions to  *)
(* the present ones.                                                        *)

NothingLost == MaxLosses = 0
OneRepo     == \A r, q \in Repos : r = q

All         == {x \in Tenants \X Name : x[2] \in sessions[x[1]]}

Follows(old, e, new) ==
    \/ /\ e.kind = "created" /\ Named(e) \notin old
       /\ new = old \cup {Named(e)}
    \/ /\ e.kind = "forked" /\ Named(e) \notin old /\ Source(e) \in old
       /\ new = old \cup {Named(e)}
    \/ /\ e.kind = "renamed" /\ Named(e) \notin old /\ Source(e) \in old
       /\ new = (old \ {Source(e)}) \cup {Named(e)}
    \/ /\ e.kind = "deleted" /\ Named(e) \in old
       /\ new = old \ {Named(e)}

Replay(past, events, now) ==
    /\ past \in [0..Len(events) -> SUBSET (Tenants \X Name)]
    /\ past[Len(events)] = now
    /\ \A i \in 1..Len(events) : Follows(past[i - 1], events[i], past[i])
After(past, events) == IF events = <<>> THEN past[0] ELSE past[1]

Path(op) == CASE op = "created" -> {"anchor", "tree", "create", "bind", "manage"}
              [] op = "forked"  -> {"tree", "create", "bind", "manage"}
              [] op = "renamed" -> {"tree", "create", "rename", "delbranch"}
              [] OTHER          -> {"delbranch", "delrow"}
Written(f) == f.pc = "manage" \/ (f.op = "renamed" /\ f.pc = "delbranch")

Serves(f) == /\ f.t = Event1.t /\ f.name = Event1.name /\ f.op = Event1.kind
             /\ f.op = "renamed" => f.from = Event1.from
             /\ f.kid = {}
             /\ f.pc \in Path(f.op)
Doing(f, a, b) == /\ Serves(f)
                  /\ Mapped = IF Written(f) THEN b ELSE a
                  /\ f.pc \in {"tree", "create", "bind"} => f.name.repo \in repos
Work(f, a, b) ==
    /\ f.pc = "idle" => Mapped = a \/ (~NothingFails /\ Mapped = b)
    /\ f.pc = "done" => Mapped = b
    /\ f.pc \notin {"idle", "done"} => Doing(f, a, b)

RowsThere == \A x \in rows : x.repo \in repos
WorkIn(a, b) == Work(frame[H], a, b)
Tracks    == \E past, a, b : /\ Replay(past, stream, All)
                             /\ a = past[0] /\ b = After(past, stream)
                             /\ WorkIn(a, b)

(* The sessions of the past that a step leaves to the handler: an           *)
(* acknowledged event is past, a new one leads from the sessions before it. *)
Carried(a, b, a2, b2) == /\ Ack => a2 = b
                         /\ ~Ack => a2 = a
                         /\ ~Ack /\ stream # <<>> => b2 = b

LEMMA EventTyped ==
    ASSUME TypeOK, stream # <<>>
    PROVE  Event1 \in Event /\ Event1.t \in Tenants /\ Event1.name \in Name /\ Event1.from \in Name
<1>1. stream \in Seq(Event)
  BY DEF TypeOK
<1>2. Event1 \in Event
  BY <1>1 DEF Event1
<1> QED BY <1>2 DEF Event

(* What is published when nothing is lost.                                  *)
LEMMA AllPublished ==
    ASSUME NothingLost, TypeOK, NEW e, Publish(e)
    PROVE  stream' = Append(stream, e)
<1>1. "losses" \in Kinds /\ Bound["losses"] = 0
  BY DEF Kinds, Bound, NothingLost
<1> QED BY <1>1, BudgetAt DEF Publish

(* Every change of the sessions is in the stream.                           *)
LEMMA AgentPublishes ==
    ASSUME NothingLost, TypeOK, AgentNext
    PROVE  /\ \E e \in Event : stream' = Append(stream, e) /\ Follows(All, e, All')
           /\ UNCHANGED <<lab, rows, managed, frame, snap>>
<1>1. PICK t \in Tenants, s \in Name :
        \/ AgentCreate(t, s)
        \/ AgentDelete(t, s)
        \/ \E from \in Name : AgentFork(t, from, s) \/ AgentRename(t, from, s)
  BY DEF AgentNext
<1>2. sessions \in [Tenants -> SUBSET Name]
  BY DEF TypeOK
<1>3. CASE AgentCreate(t, s)
  <2> DEFINE e == Lifecycle("created", t, s, s)
  <2>1. e \in Event /\ e.kind = "created" /\ Named(e) = <<t, s>>
    BY DEF Event, Lifecycle, Named
  <2>2. stream' = Append(stream, e)
    BY <1>3, AllPublished DEF AgentCreate
  <2>3. All' = All \cup {<<t, s>>} /\ <<t, s>> \notin All
    BY <1>2, <1>3 DEF AgentCreate, All
  <2>4. UNCHANGED <<lab, rows, managed, frame, snap>>
    BY <1>3 DEF AgentCreate
  <2> HIDE DEF e
  <2> QED BY <2>1, <2>2, <2>3, <2>4 DEF Follows
<1>4. CASE AgentDelete(t, s)
  <2> DEFINE e == Lifecycle("deleted", t, s, s)
  <2>1. e \in Event /\ e.kind = "deleted" /\ Named(e) = <<t, s>>
    BY DEF Event, Lifecycle, Named
  <2>2. stream' = Append(stream, e)
    BY <1>4, AllPublished DEF AgentDelete
  <2>3. All' = All \ {<<t, s>>} /\ <<t, s>> \in All
    BY <1>2, <1>4 DEF AgentDelete, All
  <2>4. UNCHANGED <<lab, rows, managed, frame, snap>>
    BY <1>4 DEF AgentDelete
  <2> HIDE DEF e
  <2> QED BY <2>1, <2>2, <2>3, <2>4 DEF Follows
<1>5. ASSUME NEW from \in Name, AgentFork(t, from, s)
      PROVE  /\ \E e \in Event : stream' = Append(stream, e) /\ Follows(All, e, All')
             /\ UNCHANGED <<lab, rows, managed, frame, snap>>
  <2> DEFINE e == Lifecycle("forked", t, s, from)
  <2>1. e \in Event /\ e.kind = "forked" /\ Named(e) = <<t, s>> /\ Source(e) = <<t, from>>
    BY DEF Event, Lifecycle, Named, Source
  <2>2. stream' = Append(stream, e)
    BY <1>5, AllPublished DEF AgentFork
  <2>3. All' = All \cup {<<t, s>>} /\ <<t, s>> \notin All /\ <<t, from>> \in All
    BY <1>2, <1>5 DEF AgentFork, All
  <2>4. UNCHANGED <<lab, rows, managed, frame, snap>>
    BY <1>5 DEF AgentFork
  <2> HIDE DEF e
  <2> QED BY <2>1, <2>2, <2>3, <2>4 DEF Follows
<1>6. ASSUME NEW from \in Name, AgentRename(t, from, s)
      PROVE  /\ \E e \in Event : stream' = Append(stream, e) /\ Follows(All, e, All')
             /\ UNCHANGED <<lab, rows, managed, frame, snap>>
  <2> DEFINE e == Lifecycle("renamed", t, s, from)
  <2>1. e \in Event /\ e.kind = "renamed" /\ Named(e) = <<t, s>> /\ Source(e) = <<t, from>>
    BY DEF Event, Lifecycle, Named, Source
  <2>2. stream' = Append(stream, e)
    BY <1>6, AllPublished DEF AgentRename
  <2>3. /\ All' = (All \ {<<t, from>>}) \cup {<<t, s>>}
        /\ <<t, s>> \notin All /\ <<t, from>> \in All
    BY <1>2, <1>6 DEF AgentRename, All
  <2>4. UNCHANGED <<lab, rows, managed, frame, snap>>
    BY <1>6 DEF AgentRename
  <2> HIDE DEF e
  <2> QED BY <2>1, <2>2, <2>3, <2>4 DEF Follows
<1> QED BY <1>1, <1>3, <1>4, <1>5, <1>6

(* Nobody else touches sessions or stream, the acknowledgement aside.       *)
LEMMA OnlyAckConsumes ==
    ASSUME TypeOK, Steps, ~AgentNext, ~Ack
    PROVE  UNCHANGED <<sessions, stream>>
<1>1. CASE UserSteps
  BY <1>1 DEF UserSteps, Commit, UserDeleteBranch
<1>2. CASE HandlerNext
  BY <1>2 DEF HandlerNext, HandleCreated, HandleForked, HandleRenamed, HandleDeleted, Reads,
        Shared, AnchorBranch, ReadTree, CreateBranch, InsertRow, InsertManaged, RenameRow,
        DeleteBranch, DeleteRow
<1>3. CASE Blinded \/ Fail(H)
  BY <1>3 DEF Blinded, ReadTreeBlind, DeleteBranchBlind, Fail
<1> QED BY <1>1, <1>2, <1>3 DEF Steps, vars

LEMMA PastStep ==
    ASSUME NothingLost, TypeOK, HandlerHoldsEvent, Steps,
           NEW past, Replay(past, stream, All)
    PROVE  \E next : /\ Replay(next, stream', All')
                     /\ Carried(past[0], After(past, stream), next[0], After(next, stream'))
<1>1. stream \in Seq(Event) /\ Len(stream) \in Nat
  BY DEF TypeOK
<1>2. CASE AgentNext
  <2>1. PICK e \in Event : stream' = Append(stream, e) /\ Follows(All, e, All')
    BY <1>2, AgentPublishes
  <2> DEFINE n == Len(stream)
             next == [i \in 0..(n + 1) |-> IF i = n + 1 THEN All' ELSE past[i]]
  <2>2. /\ Len(stream') = n + 1 /\ stream' # <<>> /\ stream'[n + 1] = e
        /\ \A i \in 1..n : stream'[i] = stream[i]
    BY <1>1, <2>1
  <2>3. All' \in SUBSET (Tenants \X Name)
    <3>1. \A x \in All' : x \in Tenants \X Name
      BY DEF All
    <3> QED BY <3>1
  <2>4. next \in [0..(n + 1) -> SUBSET (Tenants \X Name)]
    <3>1. \A i \in 0..(n + 1) : i # n + 1 => i \in 0..n
      BY <1>1
    <3> QED BY <2>2, <2>3, <3>1 DEF Replay
  <2>5. Replay(next, stream', All')
    <3>1. next[n + 1] = All' /\ \A i \in 0..n : next[i] = past[i]
      BY <1>1
    <3>2. ASSUME NEW i \in 1..(n + 1) PROVE Follows(next[i - 1], stream'[i], next[i])
      <4>1. CASE i = n + 1
        <5>1. next[i - 1] = All
          BY <1>1, <3>1, <4>1 DEF Replay
        <5> QED BY <2>1, <2>2, <3>1, <4>1, <5>1
      <4>2. CASE i \in 1..n
        <5>1. next[i - 1] = past[i - 1] /\ next[i] = past[i]
          BY <1>1, <3>1, <4>2
        <5> QED BY <2>2, <4>2, <5>1 DEF Replay
      <4> QED BY <1>1, <4>1, <4>2
    <3>3. \A i \in 1..(n + 1) : Follows(next[i - 1], stream'[i], next[i])
      BY <3>2
    <3> HIDE DEF next
    <3> QED BY <2>2, <2>4, <3>1, <3>3 DEF Replay
  <2>6. ~Ack
    <3>1. frame' = frame
      BY <1>2, AgentPublishes
    <3>2. frame \in [Goroutines -> Frame] /\ H \in Goroutines /\ Idle.pc = "idle"
      BY DEF TypeOK, H, Goroutines, Idle, Call
    <3> QED BY <3>1, <3>2 DEF Ack, Step
  <2>7. next[0] = past[0] /\ (stream # <<>> => next[1] = past[1])
    BY <1>1
  <2> HIDE DEF next
  <2> QED BY <2>2, <2>5, <2>6, <2>7 DEF Carried, After
<1>3. CASE Ack
  <2>1. stream # <<>> /\ stream' = Tail(stream) /\ sessions' = sessions
    BY <1>3 DEF Ack, HandlerHoldsEvent
  <2> DEFINE n == Len(stream)
             next == [i \in 0..(n - 1) |-> past[i + 1]]
  <2>2. /\ n \in Nat \ {0} /\ Len(stream') = n - 1
        /\ \A i \in 1..(n - 1) : stream'[i] = stream[i + 1]
    BY <1>1, <2>1
  <2>3. next \in [0..(n - 1) -> SUBSET (Tenants \X Name)]
    BY <2>2 DEF Replay
  <2>4. Replay(next, stream', All')
    <3>1. next[n - 1] = All'
      BY <2>1, <2>2 DEF Replay, All
    <3>2. \A i \in 1..(n - 1) : Follows(next[i - 1], stream'[i], next[i])
      <4> SUFFICES ASSUME NEW i \in 1..(n - 1) PROVE Follows(next[i - 1], stream'[i], next[i])
        OBVIOUS
      <4>1. next[i - 1] = past[i] /\ next[i] = past[i + 1] /\ i + 1 \in 1..n /\ (i + 1) - 1 = i
        BY <2>2
      <4> HIDE DEF next
      <4> QED BY <2>2, <4>1 DEF Replay
    <3> HIDE DEF next
    <3> QED BY <2>2, <2>3, <3>1, <3>2 DEF Replay
  <2>5. next[0] = past[1]
    BY <2>2
  <2> HIDE DEF next
  <2> QED BY <1>3, <2>1, <2>4, <2>5 DEF Carried, After
<1>4. CASE ~AgentNext /\ ~Ack
  <2>1. UNCHANGED <<sessions, stream>>
    BY <1>4, OnlyAckConsumes
  <2>2. All' = All
    BY <2>1 DEF All
  <2> QED BY <1>4, <2>1, <2>2 DEF Carried
<1> QED BY <1>2, <1>3, <1>4

(* What a look-up in a one-to-one table, an INSERT, an UPDATE and a DELETE  *)
(* mean for the mapping.                                                    *)
TableOK == rows \subseteq Row /\ OneToOne(rows)
Pairs(table) == {<<x.t, x.session>> : x \in table}

LEMMA Looked ==
    ASSUME TableOK, NEW t \in Tenants, NEW s \in Derived
    PROVE  /\ GetRowBySession(t, s) # {} <=> <<t, s>> \in Mapped
           /\ GetRow(t, s.repo, s.branch) # {} <=> <<t, s>> \in Mapped
           /\ \A x \in GetRow(t, s.repo, s.branch) : x.t = t /\ x.repo = s.repo /\ x.session = s
<1>1. s = [repo |-> s.repo, branch |-> s.branch]
  BY DEF Derived
<1>2. \A x \in rows : x.session = [repo |-> x.repo, branch |-> x.branch]
  BY DEF TableOK, OneToOne
<1>3. \A x \in rows : x.session = s <=> (x.repo = s.repo /\ x.branch = s.branch)
  <2> SUFFICES ASSUME NEW x \in rows
               PROVE  x.session = s <=> (x.repo = s.repo /\ x.branch = s.branch)
    OBVIOUS
  <2>1. x.session = [repo |-> x.repo, branch |-> x.branch]
    BY <1>2
  <2>2. x.session.repo = x.repo /\ x.session.branch = x.branch
    BY <2>1
  <2> QED BY <1>1, <2>1, <2>2
<1>4. <<t, s>> \in Mapped <=> \E x \in rows : x.t = t /\ x.session = s
  BY DEF Mapped
<1>5. GetRowBySession(t, s) # {} <=> \E x \in rows : x.t = t /\ x.session = s
  BY DEF GetRowBySession
<1>6. GetRow(t, s.repo, s.branch) # {} <=> \E x \in rows : x.t = t /\ x.session = s
  BY <1>3 DEF GetRow
<1> QED BY <1>3, <1>4, <1>5, <1>6 DEF GetRow

LEMMA Inserted ==
    ASSUME TableOK, NEW t \in Tenants, NEW s \in Derived
    PROVE  /\ Clash(NewRow(t, s), rows) <=> <<t, s>> \in Mapped
           /\ Pairs(rows \cup {NewRow(t, s)}) = Mapped \cup {<<t, s>>}
<1> DEFINE x == NewRow(t, s)
<1>1. x.t = t /\ x.session = s /\ x.repo = s.repo /\ x.branch = s.branch
  BY DEF NewRow
<1>2. Clash(x, rows) <=> GetRowBySession(t, s) # {} \/ GetRow(t, s.repo, s.branch) # {}
  BY <1>1 DEF Clash, GetRow, GetRowBySession
<1> HIDE DEF x
<1>3. Pairs(rows \cup {x}) = Pairs(rows) \cup {<<t, s>>}
  BY <1>1 DEF Pairs
<1> QED BY <1>2, <1>3, Looked DEF Mapped, Pairs, x

LEMMA Deleted ==
    ASSUME TableOK, NEW t \in Tenants, NEW s \in Derived
    PROVE  Pairs(rows \ GetRow(t, s.repo, s.branch)) = Mapped \ {<<t, s>>}
<1>1. \A x \in rows : x \in GetRow(t, s.repo, s.branch) <=> (x.t = t /\ x.session = s)
  <2> SUFFICES ASSUME NEW x \in rows
               PROVE  x \in GetRow(t, s.repo, s.branch) <=> (x.t = t /\ x.session = s)
    OBVIOUS
  <2>1. x.session = [repo |-> x.repo, branch |-> x.branch]
    BY DEF TableOK, OneToOne
  <2>2. x.session.repo = x.repo /\ x.session.branch = x.branch
    BY <2>1
  <2> QED BY <2>2, Looked DEF GetRow
<1> QED BY <1>1 DEF Pairs, Mapped

LEMMA Renamed ==
    ASSUME TableOK, NEW t \in Tenants, NEW s \in Derived, NEW from \in Derived,
           s.repo = from.repo, <<t, from>> \in Mapped, <<t, s>> \notin Mapped
    PROVE  LET old == GetRow(t, from.repo, from.branch)
               new == {Moved(x, s) : x \in old}
           IN  /\ old # {} /\ ~ \E x \in new : Clash(x, rows \ old)
               /\ Pairs((rows \ old) \cup new) = (Mapped \ {<<t, from>>}) \cup {<<t, s>>}
<1> DEFINE old == GetRow(t, from.repo, from.branch)
           new == {Moved(x, s) : x \in old}
<1>1. old # {} /\ \A x \in old : x.t = t /\ x.repo = s.repo /\ x \in Row
  BY Looked DEF TableOK, GetRow
<1>2. \A y \in new : y.t = t /\ y.repo = s.repo /\ y.branch = s.branch /\ y.session = s
  BY <1>1 DEF Moved, Row
<1>3. GetRowBySession(t, s) = {} /\ GetRow(t, s.repo, s.branch) = {}
  BY Looked
<1>4. ~ \E x \in new : Clash(x, rows \ old)
  BY <1>2, <1>3 DEF Clash, GetRow, GetRowBySession
<1>5. Pairs(rows \ old) = Mapped \ {<<t, from>>}
  BY Deleted
<1>6. Pairs(new) = {<<t, s>>}
  <2>1. \E y : y \in new
    BY <1>1
  <2> HIDE DEF new
  <2> QED BY <1>2, <2>1 DEF Pairs
<1>7. Pairs((rows \ old) \cup new) = Pairs(rows \ old) \cup Pairs(new)
  BY DEF Pairs
<1> QED BY <1>1, <1>4, <1>5, <1>6, <1>7

(* The handler's steps, one by one, between the sessions a before its event *)
(* and the sessions b after it.                                             *)
Setting     == NothingLost /\ OneRepo /\ Plain = {}
Sound       == TypeOK /\ HandlerHoldsEvent /\ TableOK /\ RowsThere
Around(a, b) == /\ stream # <<>> => Follows(a, Event1, b)
                /\ stream = <<>> => b = a

(* A fork or a rename starts from the branch of a session that was there.   *)
FromSource(a) == frame'[H].pc = "tree" =>
                   Source(Event1) \in a /\ frame'[H].src = Event1.from.branch

LEMMA Locals ==
    ASSUME TypeOK
    PROVE  /\ H \in Goroutines /\ frame \in [Goroutines -> Frame]
           /\ frame[H] \in Frame /\ frame[H].t \in Tenants
           /\ frame[H].name \in Derived /\ frame[H].from \in Derived
           /\ \A g : Step(H, g) => frame'[H] = g
           /\ Idle.pc = "idle" /\ Done.pc = "done"
BY IdleTyped DEF TypeOK, H, Goroutines, Frame, Step, Done, Idle, Call

LEMMA EventNames ==
    ASSUME Setting, TypeOK, stream # <<>>
    PROVE  /\ Event1.t \in Tenants /\ Event1.name \in Derived /\ Event1.from \in Derived
           /\ Event1.name.repo = Event1.from.repo
BY EventTyped DEF Setting, OneRepo, Name, Derived

LEMMA FailsKept ==
    ASSUME TypeOK, [Next]_vars, ~NothingFails
    PROVE  ~NothingFails'
<1>1. "fails" \in Kinds /\ Bound["fails"] = MaxFails
  BY DEF Kinds, Bound
<1>2. budget["fails"] \in Nat /\ budget["fails"] <= MaxFails /\ MaxFails \in Nat
  BY <1>1, BudgetAt
<1>3. budget'["fails"] <= budget["fails"]
  BY FailsSpent
<1>4. budget'["fails"] \in Int \/ budget'["fails"] # MaxFails
  BY <1>2
<1> QED BY <1>2, <1>3 DEF NothingFails

LEMMA TakesUpCreated ==
    ASSUME Setting, Sound, NEW a, NEW b, Around(a, b), WorkIn(a, b), HandleCreated
    PROVE  WorkIn(a, b)' /\ RowsThere' /\ FromSource(a)
<1> DEFINE t == Event1.t
           s == Event1.name
           g == Call("idle", "created", t, s)
<1>1. /\ stream # <<>> /\ Event1.kind = "created" /\ frame[H].pc = "idle"
      /\ UNCHANGED <<stream, repos, rows, budget>>
  BY DEF HandleCreated, Receives, Reads, lab
<1>2. t \in Tenants /\ s \in Derived
  BY <1>1, EventNames DEF Sound
<1>3. EnsureCreated(H, g)
  BY <1>2 DEF HandleCreated
<1>4. g.t = t /\ g.name = s /\ g.kid = {} /\ g.op = "created" /\ g \in Frame
  BY <1>2, CallTyped DEF Call, PC, Ops
<1>5. <<t, s>> \notin a /\ <<t, s>> \in b
  BY <1>1 DEF Around, Follows, Named
<1>6. RowsThere'
  BY <1>1 DEF Sound, RowsThere
<1>7. Mapped' = Mapped
  BY <1>1 DEF Mapped
<1>8. Mapped = a \/ (~NothingFails /\ Mapped = b)
  BY <1>1 DEF WorkIn, Work
<1>9. CASE <<t, s>> \in Mapped
  <2>1. Step(H, Done)
    BY <1>2, <1>3, <1>4, <1>9, Looked DEF EnsureCreated, AfterBind, Sound
  <2>2. frame'[H].pc = "done"
    BY <2>1, Locals DEF Sound
  <2> QED BY <1>5, <1>6, <1>7, <1>8, <1>9, <2>2 DEF WorkIn, Work, FromSource
<1>10. CASE <<t, s>> \notin Mapped
  <2>1. Step(H, [g EXCEPT !.pc = "anchor"])
    BY <1>2, <1>3, <1>4, <1>10, Looked DEF EnsureCreated, Sound
  <2>2. frame'[H] = [g EXCEPT !.pc = "anchor"]
    BY <2>1, Locals DEF Sound
  <2>3. frame'[H].pc = "anchor" /\ Serves(frame[H])'
    BY <1>1, <1>4, <2>2 DEF Serves, Event1, Path, Frame
  <2>4. Mapped' = a
    BY <1>5, <1>7, <1>8, <1>10
  <2>5. ~Written(frame'[H])
    BY <1>1, <2>3 DEF Written, Serves
  <2> QED BY <1>6, <2>3, <2>4, <2>5 DEF WorkIn, Work, Doing, Written, FromSource
<1> QED BY <1>9, <1>10

LEMMA TakesUpForked ==
    ASSUME Setting, Sound, NEW a, NEW b, Around(a, b), WorkIn(a, b), HandleForked
    PROVE  WorkIn(a, b)' /\ RowsThere' /\ FromSource(a)
<1> DEFINE t == Event1.t
           s == Event1.name
           parent == Event1.from
           accepted == /\ s \in Derived /\ GetRowBySession(t, s) = {}
                       /\ parent \in Derived => parent.repo = s.repo
           orphan == /\ parent \in Derived
                     /\ GetRow(t, parent.repo, parent.branch) = {}
           child == [Call("tree", "forked", t, s) EXCEPT
                       !.src = IF parent \in Derived THEN parent.branch ELSE Main]
<1>1. /\ stream # <<>> /\ Event1.kind = "forked" /\ frame[H].pc = "idle"
      /\ UNCHANGED <<stream, repos, rows, budget>>
  BY DEF HandleForked, Receives, Reads, lab
<1>2. t \in Tenants /\ s \in Derived /\ parent \in Derived /\ parent.repo = s.repo
  BY <1>1, EventNames DEF Sound
<1>3. \/ ~accepted /\ Step(H, Done)
      \/ accepted /\ ~orphan /\ Step(H, child)
      \/ accepted /\ orphan
  BY DEF HandleForked
<1>4. <<t, s>> \notin a /\ <<t, parent>> \in a /\ <<t, s>> \in b
  BY <1>1 DEF Around, Follows, Named, Source
<1>5. RowsThere' /\ Mapped' = Mapped
  BY <1>1 DEF Sound, RowsThere, Mapped
<1>6. Mapped = a \/ (~NothingFails /\ Mapped = b)
  BY <1>1 DEF WorkIn, Work
<1>7. accepted <=> <<t, s>> \notin Mapped
  BY <1>2, Looked DEF Sound
<1>8. orphan <=> <<t, parent>> \notin Mapped
  BY <1>2, Looked DEF Sound
<1>9. CASE <<t, s>> \in Mapped
  <2>1. frame'[H].pc = "done"
    BY <1>3, <1>7, <1>9, Locals DEF Sound
  <2> QED BY <1>4, <1>5, <1>6, <1>9, <2>1 DEF WorkIn, Work, FromSource
<1>10. CASE <<t, s>> \notin Mapped
  <2>1. Mapped = a /\ accepted /\ ~orphan
    BY <1>4, <1>6, <1>7, <1>8, <1>10
  <2>2. frame'[H] = child
    BY <1>3, <2>1, Locals DEF Sound
  <2>3. /\ frame'[H].pc = "tree" /\ frame'[H].op = "forked" /\ frame'[H].t = t
        /\ frame'[H].name = s /\ frame'[H].kid = {} /\ frame'[H].src = parent.branch
    BY <1>2, <2>2 DEF Call
  <2>4. s.repo \in repos'
    <3>1. PICK x \in GetRow(t, parent.repo, parent.branch) : TRUE
      BY <1>2, <2>1
    <3> QED BY <1>1, <1>2, <3>1 DEF Sound, RowsThere, GetRow
  <2> HIDE DEF child, accepted, orphan
  <2>5. Serves(frame[H])' /\ ~Written(frame[H])'
    BY <1>1, <2>3 DEF Serves, Written, Event1, Path
  <2>6. Doing(frame[H], a, b)'
    BY <1>5, <2>1, <2>3, <2>4, <2>5 DEF Doing, Written
  <2> QED BY <1>4, <1>5, <2>3, <2>6 DEF WorkIn, Work, FromSource, Source
<1> QED BY <1>9, <1>10

LEMMA TakesUpRenamed ==
    ASSUME Setting, Sound, NEW a, NEW b, Around(a, b), WorkIn(a, b), HandleRenamed
    PROVE  WorkIn(a, b)' /\ RowsThere' /\ FromSource(a)
<1> DEFINE t == Event1.t
           s == Event1.name
           from == Event1.from
           accepted == s \in Derived /\ from \in Derived /\ s.repo = from.repo
           known == accepted /\ GetRow(t, from.repo, from.branch) # {}
           g == Call("idle", "created", t, s)
           move == [Call("tree", "renamed", t, s) EXCEPT !.src = from.branch, !.from = from]
<1>1. /\ stream # <<>> /\ Event1.kind = "renamed" /\ frame[H].pc = "idle"
      /\ UNCHANGED <<stream, repos, rows, budget>>
  BY DEF HandleRenamed, Receives, Reads, lab
<1>2. t \in Tenants /\ s \in Derived /\ from \in Derived /\ from.repo = s.repo
  BY <1>1, EventNames DEF Sound
<1>3. \/ ~known /\ EnsureCreated(H, g)
      \/ known /\ Step(H, move)
  BY <1>2 DEF HandleRenamed
<1>4. /\ <<t, s>> \notin a /\ <<t, from>> \in a /\ <<t, s>> \in b /\ <<t, from>> \notin b
  BY <1>1 DEF Around, Follows, Named, Source
<1>5. RowsThere' /\ Mapped' = Mapped
  BY <1>1 DEF Sound, RowsThere, Mapped
<1>6. Mapped = a \/ (~NothingFails /\ Mapped = b)
  BY <1>1 DEF WorkIn, Work
<1>7. known <=> <<t, from>> \in Mapped
  BY <1>2, Looked DEF Sound
<1>8. g.t = t /\ g.name = s /\ g.kid = {} /\ g \in Frame
  BY <1>2, CallTyped DEF Call, PC, Ops
<1>9. CASE <<t, from>> \notin Mapped
  <2>1. Mapped = b /\ EnsureCreated(H, g)
    BY <1>3, <1>4, <1>6, <1>7, <1>9
  <2>2. GetRowBySession(t, s) # {}
    BY <1>2, <1>4, <2>1, Looked DEF Sound
  <2>3. Step(H, Done)
    BY <1>8, <2>1, <2>2 DEF EnsureCreated, AfterBind
  <2>4. frame'[H].pc = "done"
    BY <2>3, Locals DEF Sound
  <2> QED BY <1>5, <2>1, <2>4 DEF WorkIn, Work, FromSource
<1>10. CASE <<t, from>> \in Mapped
  <2>1. Mapped = a /\ known
    BY <1>4, <1>6, <1>7, <1>10
  <2>2. frame'[H] = move
    BY <1>3, <2>1, Locals DEF Sound
  <2>3. /\ frame'[H].pc = "tree" /\ frame'[H].op = "renamed" /\ frame'[H].t = t
        /\ frame'[H].name = s /\ frame'[H].kid = {} /\ frame'[H].from = from
        /\ frame'[H].src = from.branch
    BY <2>2 DEF Call
  <2>4. s.repo \in repos'
    <3>1. PICK x \in GetRow(t, from.repo, from.branch) : TRUE
      BY <1>2, <2>1
    <3> QED BY <1>1, <1>2, <3>1 DEF Sound, RowsThere, GetRow
  <2> HIDE DEF move, known
  <2>5. Serves(frame[H])' /\ ~Written(frame[H])'
    BY <1>1, <2>3 DEF Serves, Written, Event1, Path
  <2>6. Doing(frame[H], a, b)'
    BY <1>5, <2>1, <2>3, <2>4, <2>5 DEF Doing, Written
  <2> QED BY <1>4, <1>5, <2>3, <2>6 DEF WorkIn, Work, FromSource, Source
<1> QED BY <1>9, <1>10

LEMMA TakesUpDeleted ==
    ASSUME Setting, Sound, NEW a, NEW b, Around(a, b), WorkIn(a, b), HandleDeleted
    PROVE  WorkIn(a, b)' /\ RowsThere' /\ FromSource(a)
<1> DEFINE t == Event1.t
           s == Event1.name
           g == Call("delbranch", "deleted", t, s)
<1>1. /\ stream # <<>> /\ Event1.kind = "deleted" /\ frame[H].pc = "idle"
      /\ UNCHANGED <<stream, repos, rows, budget>>
  BY DEF HandleDeleted, Receives, Reads, lab
<1>2. t \in Tenants /\ s \in Derived
  BY <1>1, EventNames DEF Sound
<1>3. <<t, s>> \in a /\ <<t, s>> \notin b
  BY <1>1 DEF Around, Follows, Named
<1>4. RowsThere' /\ Mapped' = Mapped
  BY <1>1 DEF Sound, RowsThere, Mapped
<1>5. Mapped = a \/ (~NothingFails /\ Mapped = b)
  BY <1>1 DEF WorkIn, Work
<1>6. \/ <<t, s>> \notin Mapped /\ Step(H, Done)
      \/ <<t, s>> \in Mapped /\ Step(H, g)
  BY <1>2, Looked DEF HandleDeleted, Sound
<1>7. CASE <<t, s>> \notin Mapped
  <2>1. frame'[H].pc = "done"
    BY <1>6, <1>7, Locals DEF Sound
  <2> QED BY <1>3, <1>4, <1>5, <1>7, <2>1 DEF WorkIn, Work, FromSource
<1>8. CASE <<t, s>> \in Mapped
  <2>1. frame'[H] = g
    BY <1>6, <1>8, Locals DEF Sound
  <2>2. /\ frame'[H].pc = "delbranch" /\ frame'[H].op = "deleted" /\ frame'[H].t = t
        /\ frame'[H].name = s /\ frame'[H].kid = {}
    BY <2>1 DEF Call
  <2>3. Serves(frame[H])' /\ ~Written(frame[H])'
    BY <1>1, <2>2 DEF Serves, Written, Event1, Path
  <2>4. Doing(frame[H], a, b)'
    BY <1>3, <1>4, <1>5, <1>8, <2>2, <2>3 DEF Doing, Written
  <2> QED BY <1>4, <2>2, <2>4 DEF WorkIn, Work, FromSource
<1> QED BY <1>7, <1>8

(* A step within the handler's call, and its last one.                      *)
Same(g, f) == g.t = f.t /\ g.name = f.name /\ g.op = f.op /\ g.from = f.from /\ g.kid = f.kid

LEMMA MovesOn ==
    ASSUME NEW a, NEW b, Serves(frame[H]), UNCHANGED stream,
           Same(frame[H]', frame[H]), frame[H].pc' \in Path(frame[H].op),
           Mapped' = IF Written(frame[H])' THEN b ELSE a,
           frame[H].pc' \in {"tree", "create", "bind"} => frame[H].name.repo \in repos'
    PROVE  WorkIn(a, b)'
<1>1. frame[H].pc' \notin {"idle", "done"}
  BY DEF Path
<1>2. Serves(frame[H])'
  BY DEF Serves, Same, Event1
<1>3. Doing(frame[H], a, b)'
  BY <1>2 DEF Doing, Written, Same
<1> QED BY <1>1, <1>3 DEF WorkIn, Work

LEMMA Finishes ==
    ASSUME NEW a, NEW b, frame[H].pc' = "done", Mapped' = b
    PROVE  WorkIn(a, b)'
BY DEF WorkIn, Work

LEMMA AtWork ==
    ASSUME Sound, NEW a, NEW b, WorkIn(a, b), frame[H].pc \notin {"idle", "done"}
    PROVE  /\ Doing(frame[H], a, b) /\ Serves(frame[H]) /\ stream # <<>>
           /\ frame[H].op \in {"created", "forked", "renamed", "deleted"}
           /\ AfterBind(frame[H]) = Done
           /\ \A g : Step(H, g) => frame[H]' = g
<1>1. Doing(frame[H], a, b) /\ stream # <<>>
  BY DEF WorkIn, Work, Sound, HandlerHoldsEvent
<1>2. Event1 \in Event
  BY <1>1, EventTyped DEF Sound
<1> QED BY <1>1, <1>2, Locals DEF Doing, Serves, Event, AfterBind, Sound

LEMMA MappedKept == ASSUME UNCHANGED rows PROVE Mapped' = Mapped
BY DEF Mapped

LEMMA RunsShared ==
    ASSUME Setting, Sound, NEW a, NEW b, Around(a, b), WorkIn(a, b),
           Shared(H) \/ ReadTreeBlind(H)
    PROVE  WorkIn(a, b)' /\ RowsThere'
<1> DEFINE f == frame[H]
<1>1. f \in Frame /\ f.t \in Tenants /\ f.name \in Derived /\ UNCHANGED stream
  BY Locals DEF Sound, Shared, AnchorBranch, ReadTree, CreateBranch, InsertRow,
        InsertManaged, ReadTreeBlind
<1>2. f.pc \notin {"idle", "done"}
  BY DEF Shared, AnchorBranch, ReadTree, CreateBranch, InsertRow, InsertManaged, ReadTreeBlind
<1>3. /\ Doing(f, a, b) /\ Serves(f) /\ f.op \in {"created", "forked", "renamed", "deleted"}
      /\ AfterBind(f) = Done /\ f.pc \in Path(f.op)
      /\ \A g : Step(H, g) => frame[H]' = g
  BY <1>1, <1>2, AtWork DEF Serves
<1>5. ASSUME UNCHANGED <<rows, repos>> PROVE RowsThere' /\ Mapped' = Mapped
  BY <1>5 DEF Sound, RowsThere, Mapped
<1>6. CASE AnchorBranch(H)
  <2>1. PICK src : frame[H]' = [f EXCEPT !.pc = "tree", !.src = src]
    BY <1>3, <1>6 DEF AnchorBranch
  <2>2. f.pc = "anchor" /\ rows' = rows /\ repos' = repos \cup {f.name.repo}
    BY <1>6 DEF AnchorBranch
  <2>3. f.op = "created" /\ Mapped = a
    BY <1>3, <2>2 DEF Path, Doing, Written
  <2>4. RowsThere' /\ Mapped' = a
    BY <2>2, <2>3, MappedKept DEF Sound, RowsThere
  <2>5. Same(frame[H]', f) /\ frame[H].pc' = "tree" /\ frame[H].op' = "created"
    BY <1>1, <2>1, <2>3 DEF Same, Frame
  <2>6. ~Written(frame[H])'
    BY <2>5 DEF Written
  <2> QED BY <1>1, <1>3, <2>2, <2>3, <2>4, <2>5, <2>6, MovesOn DEF Path
<1>7. CASE ReadTree(H) \/ ReadTreeBlind(H) \/ CreateBranch(H)
  <2>1. f.pc \in {"tree", "create"} /\ UNCHANGED <<rows, repos>>
    BY <1>7 DEF ReadTree, ReadTreeBlind, CreateBranch, lab
  <2>2. f.name.repo \in repos /\ Mapped = a /\ f.op \in {"created", "forked", "renamed"}
    BY <1>3, <2>1 DEF Doing, Written, Path
  <2>3. Goto(H, AfterBranch(f)) \/ Goto(H, "create")
    BY <1>7, <2>2 DEF ReadTree, ReadTreeBlind, CreateBranch
  <2>4. PICK pc \in {AfterBranch(f), "create"} : frame[H]' = [f EXCEPT !.pc = pc]
    BY <1>3, <2>3 DEF Goto
  <2>5. Same(frame[H]', f) /\ frame[H].pc' = pc /\ frame[H].op' = f.op
    BY <1>1, <2>4 DEF Same, Frame
  <2>6. pc \in Path(f.op) /\ pc \notin {"manage", "delbranch"}
    BY <2>2 DEF AfterBranch, Path
  <2>7. ~Written(frame[H])' /\ Mapped' = a /\ RowsThere'
    BY <1>5, <2>1, <2>2, <2>5, <2>6 DEF Written
  <2> QED BY <1>1, <1>3, <2>1, <2>2, <2>5, <2>6, <2>7, MovesOn
<1>8. CASE InsertRow(H)
  <2> DEFINE x == NewRow(f.t, f.name)
  <2>1. f.pc = "bind" /\ repos' = repos
    BY <1>8 DEF InsertRow, lab
  <2>2. Mapped = a /\ f.op \in {"created", "forked"}
    BY <1>3, <2>1 DEF Doing, Written, Path
  <2>3. <<f.t, f.name>> \notin a /\ b = a \cup {<<f.t, f.name>>}
    BY <1>1, <1>2, <1>3, <2>2, AtWork DEF Around, Follows, Named, Serves
  <2>4. ~Clash(x, rows) /\ Pairs(rows \cup {x}) = b
    BY <1>1, <2>2, <2>3, Inserted DEF Sound
  <2>5. rows' = rows \cup {x} /\ frame[H]' = [f EXCEPT !.pc = "manage"]
    BY <1>3, <1>8, <2>4 DEF InsertRow, AfterInsert
  <2>6. Mapped' = b
    BY <2>4, <2>5 DEF Mapped, Pairs
  <2>7. f.name.repo \in repos
    BY <1>3, <2>1 DEF Doing
  <2>8. RowsThere'
    BY <2>1, <2>5, <2>7 DEF Sound, RowsThere, NewRow
  <2>9. Same(frame[H]', f) /\ frame[H].pc' = "manage"
    BY <1>1, <2>5 DEF Same, Frame
  <2>10. Written(frame[H])'
    BY <2>9 DEF Written
  <2> QED BY <1>1, <1>3, <2>2, <2>6, <2>8, <2>9, <2>10, MovesOn DEF Path
<1>9. CASE InsertManaged(H)
  <2>1. f.pc = "manage" /\ UNCHANGED <<rows, repos>> /\ frame[H]' = Done
    BY <1>3, <1>9 DEF InsertManaged, lab
  <2>2. Mapped = b
    BY <1>3, <2>1 DEF Doing, Written
  <2> QED BY <1>1, <1>5, <2>1, <2>2, Locals, Finishes DEF Sound
<1> QED BY <1>6, <1>7, <1>8, <1>9 DEF Shared

LEMMA RunsRename ==
    ASSUME Setting, Sound, NEW a, NEW b, Around(a, b), WorkIn(a, b), RenameRow
    PROVE  WorkIn(a, b)' /\ RowsThere' /\ frame[H].pc' = "delbranch"
<1> DEFINE f == frame[H]
           old == GetRow(f.t, f.from.repo, f.from.branch)
           new == {Moved(x, f.name) : x \in old}
<1>1. /\ f.pc = "rename" /\ UNCHANGED <<stream, repos>>
      /\ f \in Frame /\ f.t \in Tenants /\ f.name \in Derived /\ f.from \in Derived
  BY Locals DEF Sound, RenameRow, lab
<1>2. /\ Doing(f, a, b) /\ Serves(f) /\ f.op = "renamed" /\ stream # <<>>
      /\ \A g : Step(H, g) => frame[H]' = g
  BY <1>1, AtWork DEF Serves, Path
<1>3. /\ <<f.t, f.name>> \notin a /\ <<f.t, f.from>> \in a
      /\ b = (a \ {<<f.t, f.from>>}) \cup {<<f.t, f.name>>}
  BY <1>2 DEF Around, Follows, Named, Source, Serves
<1>4. Mapped = a /\ f.name.repo = f.from.repo
  BY <1>1, <1>2 DEF Doing, Written, Setting, OneRepo, Derived
<1>5. /\ old # {} /\ ~ \E x \in new : Clash(x, rows \ old)
      /\ Pairs((rows \ old) \cup new) = b
  BY <1>1, <1>3, <1>4, Renamed DEF Sound
<1>6. rows' = (rows \ old) \cup new /\ Goto(H, "delbranch")
  BY <1>5 DEF RenameRow
<1>7. Mapped' = b
  BY <1>5, <1>6 DEF Mapped, Pairs
<1>8. RowsThere'
  <2>1. \A x \in old : Moved(x, f.name).repo = x.repo /\ x.repo \in repos
    BY DEF Sound, RowsThere, TableOK, GetRow, Moved, Row
  <2> QED BY <1>1, <1>6, <2>1 DEF Sound, RowsThere
<1>9. Same(frame[H]', f) /\ frame[H].pc' = "delbranch"
  BY <1>1, <1>2, <1>6 DEF Goto, Same, Frame
<1>10. Written(frame[H])'
  BY <1>2, <1>9 DEF Written, Same
<1> QED BY <1>1, <1>2, <1>7, <1>8, <1>9, <1>10, MovesOn DEF Path

LEMMA RunsDeletion ==
    ASSUME Setting, Sound, NEW a, NEW b, Around(a, b), WorkIn(a, b),
           DeleteBranch \/ DeleteBranchBlind \/ DeleteRow
    PROVE  WorkIn(a, b)' /\ RowsThere'
<1> DEFINE f == frame[H]
<1>1. /\ f.pc \in {"delbranch", "delrow"} /\ UNCHANGED <<stream, repos>>
      /\ f \in Frame /\ f.t \in Tenants /\ f.name \in Derived
  BY Locals DEF Sound, DeleteBranch, DeleteBranchBlind, DeleteRow, lab
<1>2. /\ Doing(f, a, b) /\ Serves(f) /\ f.op \in {"renamed", "deleted"} /\ stream # <<>>
      /\ \A g : Step(H, g) => frame[H]' = g
  BY <1>1, AtWork DEF Serves, Path
<1>3. CASE DeleteRow
  <2>1. f.pc = "delrow" /\ f.op = "deleted" /\ Mapped = a
    BY <1>2, <1>3 DEF DeleteRow, Serves, Path, Doing, Written
  <2>2. b = a \ {<<f.t, f.name>>}
    BY <1>2, <2>1 DEF Around, Follows, Named, Serves
  <2>3. Pairs(rows') = b
    BY <1>1, <1>3, <2>1, <2>2, Deleted DEF DeleteRow, Unbind, Sound
  <2>4. Mapped' = b
    BY <2>3 DEF Mapped, Pairs
  <2>5. frame[H].pc' = "done" /\ rows' \subseteq rows
    BY <1>2, <1>3, Locals DEF DeleteRow, Unbind, Sound
  <2> QED BY <1>1, <2>4, <2>5, Finishes DEF Sound, RowsThere
<1>4. CASE DeleteBranch \/ DeleteBranchBlind
  <2>1. f.pc = "delbranch" /\ rows' = rows /\ frame[H]' = AfterDelete(f)
    BY <1>2, <1>4 DEF DeleteBranch, DeleteBranchBlind
  <2>2. RowsThere' /\ Mapped' = Mapped
    BY <1>1, <2>1 DEF Sound, RowsThere, Mapped
  <2>3. CASE f.op = "renamed"
    <3>1. frame[H].pc' = "done" /\ Mapped = b
      BY <1>2, <2>1, <2>3, Locals DEF AfterDelete, Sound, Doing, Written
    <3> QED BY <2>2, <3>1, Finishes
  <2>4. CASE f.op = "deleted"
    <3>1. Same(frame[H]', f) /\ frame[H].pc' = "delrow" /\ Mapped = a
      BY <1>1, <1>2, <2>1, <2>4 DEF AfterDelete, Doing, Written, Same, Frame
    <3>2. ~Written(frame[H])'
      BY <2>4, <3>1 DEF Written, Same
    <3> QED BY <1>1, <1>2, <2>2, <2>4, <3>1, <3>2, MovesOn DEF Path
  <2> QED BY <1>2, <2>3, <2>4
<1> QED BY <1>3, <1>4

LEMMA WorkStep ==
    ASSUME Setting, Sound, Steps, [Next]_vars, NEW a, NEW b, NEW a2, NEW b2,
           Around(a, b), WorkIn(a, b), Carried(a, b, a2, b2)
    PROVE  WorkIn(a2, b2)' /\ RowsThere'
<1>1. ASSUME Ack PROVE WorkIn(a2, b2)' /\ RowsThere'
  <2>1. Mapped = b /\ a2 = b /\ UNCHANGED <<rows, repos>> /\ frame[H].pc' = "idle"
    BY <1>1, Locals DEF Ack, WorkIn, Work, Carried, Sound, lab
  <2> QED BY <2>1 DEF WorkIn, Work, Mapped, Sound, RowsThere
<1>2. ASSUME ~Ack, stream = <<>>, UNCHANGED <<frame, rows>>, repos' = repos
      PROVE  WorkIn(a2, b2)' /\ RowsThere'
  <2>1. frame[H].pc = "idle" /\ Mapped = a /\ a2 = a
    BY <1>2 DEF Sound, HandlerHoldsEvent, Around, WorkIn, Work, Carried
  <2> QED BY <1>2, <2>1 DEF WorkIn, Work, Mapped, Sound, RowsThere
<1>3. ASSUME ~Ack, stream # <<>>, UNCHANGED <<frame, rows>>, repos' = repos, Event1' = Event1
      PROVE  WorkIn(a2, b2)' /\ RowsThere'
  <2>1. a2 = a /\ b2 = b
    BY <1>3 DEF Carried
  <2>2. Mapped' = Mapped /\ RowsThere'
    BY <1>3 DEF Mapped, Sound, RowsThere
  <2>3. Doing(frame[H], a, b) => Doing(frame[H], a, b)'
    BY <1>3, <2>2 DEF Doing, Serves, Written
  <2>4. ~NothingFails => ~NothingFails'
    BY FailsKept DEF Sound
  <2> QED BY <1>3, <2>1, <2>2, <2>3, <2>4 DEF WorkIn, Work
<1>4. CASE AgentNext
  <2>1. PICK e \in Event : stream' = Append(stream, e)
    BY <1>4, AgentPublishes DEF Sound, Setting
  <2>2. UNCHANGED <<frame, rows>> /\ repos' = repos
    BY <1>4, AgentPublishes DEF Sound, Setting, lab
  <2>3. stream # <<>> => Event1' = Event1
    BY <2>1 DEF Event1, Sound, TypeOK
  <2>4. ~Ack
    BY <2>2, Locals DEF Ack, Sound
  <2> QED BY <1>2, <1>3, <2>2, <2>3, <2>4
<1>5. CASE UserSteps \/ UNCHANGED vars
  <2>1. UNCHANGED <<stream, frame, rows>> /\ repos' = repos
    BY <1>5 DEF UserSteps, Commit, UserDeleteBranch, vars, lab
  <2>2. ~Ack
    BY <2>1, Locals DEF Ack, Sound
  <2> QED BY <1>2, <1>3, <2>1, <2>2 DEF Event1
<1>6. CASE Fail(H)
  <2>1. /\ frame[H].pc # "idle" /\ frame[H].pc' = "idle" /\ UNCHANGED <<stream, rows>>
        /\ repos' = repos
    BY <1>6, Locals DEF Fail, Sound, lab
  <2>2. stream # <<>> /\ ~Ack
    BY <1>6, <2>1, Locals DEF Sound, HandlerHoldsEvent, Ack, Fail
  <2>3. (Mapped = a \/ Mapped = b) /\ a2 = a /\ b2 = b
    BY <2>1, <2>2 DEF WorkIn, Work, Doing, Carried
  <2>4. ~NothingFails'
    <3>1. "fails" \in Kinds /\ "trouble" \in Kinds /\ budget \in [Kinds -> Nat]
          /\ Bound["fails"] = MaxFails
      BY DEF Kinds, Bound, Sound, TypeOK
    <3>2. budget'["fails"] = budget["fails"] - 1
      BY <1>6, <3>1 DEF Fail, Trouble
    <3> QED BY <3>1, <3>2, BudgetAt DEF NothingFails, Sound
  <2> QED BY <2>1, <2>3, <2>4 DEF WorkIn, Work, Mapped, Sound, RowsThere
<1>7. CASE (HandlerNext \/ Blinded) /\ ~Ack
  <2>1. WorkIn(a, b)' /\ RowsThere'
    BY <1>7, TakesUpCreated, TakesUpForked, TakesUpRenamed, TakesUpDeleted, RunsShared,
       RunsRename, RunsDeletion DEF HandlerNext, Blinded
  <2>2. stream # <<>>
    BY <1>7, Locals DEF HandlerNext, Blinded, HandleCreated, HandleForked, HandleRenamed, HandleDeleted,
          Receives, Shared, AnchorBranch, ReadTree, CreateBranch, InsertRow, InsertManaged,
          RenameRow, DeleteBranch, DeleteRow, ReadTreeBlind, DeleteBranchBlind,
          Sound, HandlerHoldsEvent
  <2> QED BY <1>7, <2>1, <2>2 DEF Carried
<1> QED BY <1>1, <1>4, <1>5, <1>6, <1>7 DEF Steps

LEMMA ReplayAround ==
    ASSUME TypeOK, NEW past, Replay(past, stream, All)
    PROVE  Around(past[0], After(past, stream))
<1>1. stream \in Seq(Event) /\ Len(stream) \in Nat /\ (stream # <<>> => 1 \in 1..Len(stream))
  BY DEF TypeOK
<1> QED BY <1>1 DEF Around, After, Replay, Event1

LEMMA TracksStep ==
    ASSUME Setting, HandlerAlone, TypeOK, HandlerHoldsEvent, RowsOneToOne, OthersIdle,
           RowsThere, Tracks, [Next]_vars
    PROVE  Tracks' /\ RowsThere'
<1>1. Sound
  BY DEF Sound, TableOK, OneToOne, RowsOneToOne, TypeOK
<1>2. Steps
  BY OnlyTheHandler
<1>3. PICK past, a, b : /\ Replay(past, stream, All) /\ a = past[0] /\ b = After(past, stream)
                        /\ WorkIn(a, b)
  BY DEF Tracks
<1>4. PICK next, a2, b2 : /\ Replay(next, stream', All')
                          /\ a2 = next[0] /\ b2 = After(next, stream')
                          /\ Carried(a, b, a2, b2)
  BY <1>2, <1>3, PastStep DEF Setting
<1>5. Around(a, b)
  BY <1>3, ReplayAround
<1>6. WorkIn(a2, b2)' /\ RowsThere'
  BY <1>1, <1>2, <1>3, <1>4, <1>5, WorkStep
<1> QED BY <1>4, <1>6 DEF Tracks, After

LEMMA TracksInit == Init => Tracks /\ RowsThere /\ OthersIdle
<1> SUFFICES ASSUME Init PROVE Tracks /\ RowsThere /\ OthersIdle
  OBVIOUS
<1> DEFINE past == [i \in 0..0 |-> {}]
<1>1. stream = <<>> /\ Len(stream) = 0 /\ All = {} /\ Mapped = {}
  BY DEF Init, All, Mapped
<1>2. Replay(past, stream, All)
  BY <1>1 DEF Replay
<1>3. frame[H].pc = "idle" /\ OthersIdle
  BY DEF Init, Idle, Call, OthersIdle, H, Goroutines
<1>4. past[0] = {} /\ After(past, stream) = {}
  BY <1>1 DEF After
<1>5. WorkIn({}, {})
  BY <1>1, <1>3 DEF WorkIn, Work
<1>6. RowsThere
  BY DEF Init, RowsThere
<1> HIDE DEF past
<1> QED BY <1>2, <1>3, <1>4, <1>5, <1>6 DEF Tracks

(* All is the sessions that have a workspace, where every session has one. *)
LEMMA WorkspacesAll ==
    ASSUME Setting
    PROVE  /\ TypeOK => Workspaces = All
           /\ TypeOK' => Workspaces' = All'
<1>1. Name = Derived
  BY DEF Name, Setting
<1>2. ASSUME TypeOK PROVE Workspaces = All
  <2>1. sessions \in [Tenants -> SUBSET Derived]
    BY <1>1, <1>2 DEF TypeOK
  <2>2. Workspaces = {x \in Tenants \X Derived : x[2] \in sessions[x[1]]}
    BY <2>1 DEF Workspaces
  <2> QED BY <1>1, <2>2 DEF All
<1>3. ASSUME TypeOK' PROVE Workspaces' = All'
  <2>1. sessions' \in [Tenants -> SUBSET Derived]
    BY <1>1, <1>3 DEF TypeOK
  <2>2. Workspaces' = {x \in Tenants \X Derived : x[2] \in sessions'[x[1]]}
    BY <2>1 DEF Workspaces
  <2> QED BY <1>1, <2>2 DEF All
<1> QED BY <1>2, <1>3

LEMMA TracksDrained ==
    ASSUME Setting, TypeOK, Tracks
    PROVE  DrainedRows
<1> SUFFICES ASSUME Drained PROVE Mapped = Workspaces
  BY DEF DrainedRows
<1>1. stream = <<>> /\ frame[H].pc = "idle" /\ Len(stream) = 0
  BY Locals DEF Drained
<1>2. PICK past, a, b : /\ Replay(past, stream, All) /\ a = past[0] /\ b = After(past, stream)
                        /\ WorkIn(a, b)
  BY DEF Tracks
<1>3. Mapped = All
  BY <1>1, <1>2 DEF Replay, After, WorkIn, Work
<1> QED BY <1>3, WorkspacesAll

(* The handler alone, without reconciler, makes the mapping equal to the    *)
(* agent's sessions once it has acknowledged every event, whatever stops    *)
(* half-way and is delivered again and whatever the users do to branches:   *)
(* where no event is lost, every session is a workspace's, and nothing is   *)
(* forked or renamed between repositories (which the handler refuses).      *)
THEOREM HandlerMapsAll ==
    ASSUME HandlerAlone, Setting
    PROVE  Spec => []DrainedRows
<1>1. Tracks /\ RowsThere /\ OthersIdle /\ TypeOK /\ HandlerHoldsEvent /\ RowsOneToOne /\ [Next]_vars
        => (Tracks /\ RowsThere /\ OthersIdle)'
  BY TracksStep, OnlyTheHandler
<1>2. Tracks /\ TypeOK => DrainedRows
  BY TracksDrained
<1> QED BY <1>1, <1>2, TracksInit, TypeCorrect, MappingOneToOne, PTL DEF Spec

-----------------------------------------------------------------------------
(* The handler alone implements Mapping.  The mapping is a until the row is *)
(* written and b from then on (Work): it never goes back, so each event     *)
(* takes effect once, and it is acknowledged afterwards only.               *)

LEMMA ChangesOf ==
    ASSUME NEW s \in Seq(Event), NEW e \in Event
    PROVE  /\ Changes(Append(s, e)) = Append(Changes(s), Changed(e))
           /\ s # <<>> => /\ Changes(s) # <<>> /\ Head(Changes(s)) = Changed(s[1])
                          /\ Changes(Tail(s)) = Tail(Changes(s))
<1> DEFINE Change == {Changed(x) : x \in Event}
<1>1. \A u \in Seq(Event) : /\ Changes(u) \in Seq(Change) /\ Len(Changes(u)) = Len(u)
                            /\ \A i \in 1..Len(u) : Changes(u)[i] = Changed(u[i])
  <2> SUFFICES ASSUME NEW u \in Seq(Event)
               PROVE  /\ Changes(u) \in Seq(Change) /\ Len(Changes(u)) = Len(u)
                      /\ \A i \in 1..Len(u) : Changes(u)[i] = Changed(u[i])
    OBVIOUS
  <2>1. Len(u) \in Nat /\ \A i \in 1..Len(u) : Changed(u[i]) \in Change
    OBVIOUS
  <2> HIDE DEF Change
  <2> QED BY <2>1 DEF Changes
<1>2. Changed(e) \in Change /\ Append(s, e) \in Seq(Event)
  OBVIOUS
<1> HIDE DEF Change
<1>3. Changes(Append(s, e)) = Append(Changes(s), Changed(e))
  <2> DEFINE u == Append(s, e)
             v == Append(Changes(s), Changed(e))
  <2>1. /\ u \in Seq(Event) /\ Len(u) = Len(s) + 1 /\ u[Len(s) + 1] = e
        /\ \A i \in 1..Len(s) : u[i] = s[i]
    BY AppendProperties
  <2>2. /\ v \in Seq(Change) /\ Len(v) = Len(s) + 1 /\ v[Len(s) + 1] = Changed(e)
        /\ \A i \in 1..Len(s) : v[i] = Changed(s[i])
    BY <1>1, <1>2, AppendProperties
  <2>3. Changes(u) \in Seq(Change) /\ Len(Changes(u)) = Len(s) + 1
    BY <1>1, <2>1
  <2> HIDE DEF u, v
  <2>4. \A i \in 1..(Len(s) + 1) : Changes(u)[i] = v[i]
    <3> SUFFICES ASSUME NEW i \in 1..(Len(s) + 1) PROVE Changes(u)[i] = v[i]
      OBVIOUS
    <3>1. Changes(u)[i] = Changed(u[i])
      BY <1>1, <2>1
    <3>2. CASE i = Len(s) + 1
      BY <2>1, <2>2, <3>1, <3>2
    <3>3. CASE i \in 1..Len(s)
      BY <2>1, <2>2, <3>1, <3>3
    <3> QED BY <3>2, <3>3
  <2>5. Changes(u) = v
    BY <2>2, <2>3, <2>4, SeqEqual
  <2> QED BY <2>5 DEF u, v
<1>4. ASSUME s # <<>>
      PROVE  /\ Changes(s) # <<>> /\ Head(Changes(s)) = Changed(s[1])
             /\ Changes(Tail(s)) = Tail(Changes(s))
  <2>1. /\ Len(s) \in Nat \ {0} /\ Tail(s) \in Seq(Event) /\ Len(Tail(s)) = Len(s) - 1
        /\ \A i \in 1..(Len(s) - 1) : Tail(s)[i] = s[i + 1]
    BY <1>4, HeadTailProperties, EmptySeq
  <2>2. Changes(s) # <<>> /\ Head(Changes(s)) = Changed(s[1])
    BY <1>1, <2>1
  <2> DEFINE u == Tail(s)
             v == Tail(Changes(s))
  <2>3. /\ v \in Seq(Change) /\ Len(v) = Len(s) - 1
        /\ \A i \in 1..(Len(s) - 1) : v[i] = Changes(s)[i + 1]
    BY <1>1, <2>2, HeadTailProperties
  <2>4. Changes(u) \in Seq(Change) /\ Len(Changes(u)) = Len(s) - 1
    BY <1>1, <2>1
  <2> HIDE DEF u, v
  <2>5. \A i \in 1..(Len(s) - 1) : Changes(u)[i] = v[i]
    <3> SUFFICES ASSUME NEW i \in 1..(Len(s) - 1) PROVE Changes(u)[i] = v[i]
      OBVIOUS
    <3>1. i \in 1..Len(u) /\ i + 1 \in 1..Len(s) /\ u[i] = s[i + 1] /\ u \in Seq(Event)
      BY <2>1 DEF u
    <3>2. Changes(u)[i] = Changed(u[i]) /\ Changes(s)[i + 1] = Changed(s[i + 1])
      BY <1>1, <3>1
    <3> QED BY <2>3, <3>1, <3>2
  <2>6. Changes(u) = v
    BY <2>3, <2>4, <2>5, SeqEqual
  <2> QED BY <2>2, <2>6 DEF u, v
<1> QED BY <1>3, <1>4

(* An event that Follows describes is one change of the abstract mapping.   *)
LEMMA OneChange ==
    ASSUME NEW e \in Event, NEW old, NEW new, Follows(old, e, new)
    PROVE  /\ new = Promise!After(old, Changed(e))
           /\ Changed(e).gone \subseteq old /\ Changed(e).come \cap old = {}
           /\ \/ Changed(e) = [gone |-> {}, come |-> {Named(e)}]
              \/ Changed(e) = [gone |-> {Named(e)}, come |-> {}]
              \/ Changed(e) = [gone |-> {Source(e)}, come |-> {Named(e)}]
           /\ ~TookEffect(e, old) /\ TookEffect(e, new)
<1>1. CASE e.kind \in {"created", "forked"}
  <2>1. Changed(e) = [gone |-> {}, come |-> {Named(e)}]
    BY <1>1 DEF Changed
  <2> QED BY <1>1, <2>1 DEF Follows, Promise!After, TookEffect
<1>2. CASE e.kind = "renamed"
  <2>1. Changed(e) = [gone |-> {Source(e)}, come |-> {Named(e)}]
    BY <1>2 DEF Changed
  <2> QED BY <1>2, <2>1 DEF Follows, Promise!After, TookEffect
<1>3. CASE e.kind = "deleted"
  <2>1. Changed(e) = [gone |-> {Named(e)}, come |-> {}]
    BY <1>3 DEF Changed
  <2> QED BY <1>3, <2>1 DEF Follows, Promise!After, TookEffect
<1> QED BY <1>1, <1>2, <1>3 DEF Follows

(* The mapping before a step is a or b, and the handler's call knows which. *)
LEMMA EitherSide ==
    ASSUME NEW a, NEW b, WorkIn(a, b)
    PROVE  Mapped = a \/ Mapped = b
BY DEF WorkIn, Work, Doing

(* Only the three statements on the table move the mapping, and before them *)
(* it is a.                                                                 *)
LEMMA MovesForward ==
    ASSUME Sound, Steps, ~AgentNext, ~Ack, NEW a, NEW b, WorkIn(a, b)
    PROVE  \/ UNCHANGED rows
           \/ Mapped = a /\ stream # <<>>
<1>1. \/ UNCHANGED rows
      \/ frame[H].pc \in {"bind", "delrow"}
      \/ frame[H].pc = "rename"
  BY DEF Steps, UserSteps, Commit, UserDeleteBranch, HandlerNext, HandleCreated, HandleForked,
        HandleRenamed, HandleDeleted, Reads, Shared, AnchorBranch, ReadTree, CreateBranch,
        InsertRow, InsertManaged, RenameRow, DeleteBranch, DeleteRow, Blinded, ReadTreeBlind,
        DeleteBranchBlind, Fail, vars
<1>2. ASSUME frame[H].pc \in {"bind", "delrow", "rename"} PROVE Mapped = a /\ stream # <<>>
  BY <1>2, AtWork DEF Doing, Written
<1> QED BY <1>1, <1>2

(* The four kinds of step, seen from the abstract mapping.                  *)
LEMMA PendingTail ==
    ASSUME NEW a, NEW b, NEW e \in Event, Follows(a, e, b)
    PROVE  /\ stream # <<>> /\ Event1 = e /\ Mapped = a => Pending = stream
           /\ stream # <<>> /\ Event1 = e /\ Mapped = b => Pending = Tail(stream)
BY OneChange DEF Pending

LEMMA AgentRefines ==
    ASSUME Setting, Sound, AgentNext, TypeOK', NEW a, NEW b, Around(a, b), WorkIn(a, b),
           stream = <<>> => a = All
    PROVE  Promise!Next
<1>1. PICK e \in Event : stream' = Append(stream, e) /\ Follows(All, e, All')
  BY AgentPublishes DEF Sound, Setting
<1>2. UNCHANGED rows /\ Mapped' = Mapped
  BY AgentPublishes, MappedKept DEF Sound, Setting
<1>3. stream \in Seq(Event)
  BY DEF Sound, TypeOK
<1>4. Pending \in Seq(Event) /\ Pending' = Append(Pending, e)
  <2>1. CASE stream = <<>>
    <3>1. Mapped = All
      BY <2>1, EitherSide DEF Around
    <3>2. stream' # <<>> /\ Event1' = e
      BY <1>1, <1>3, <2>1 DEF Event1
    <3>3. ~TookEffect(e, Mapped)
      BY <1>1, <3>1, OneChange
    <3>4. Pending' = stream' /\ Pending = stream
      BY <1>2, <2>1, <3>2, <3>3 DEF Pending
    <3> QED BY <1>1, <1>3, <3>4
  <2>2. CASE stream # <<>>
    <3>1. /\ stream' # <<>> /\ Event1' = Event1
          /\ Tail(stream') = Append(Tail(stream), e) /\ Tail(stream) \in Seq(Event)
      <4>1. stream' # <<>> /\ Len(stream) \in Nat \ {0} /\ Tail(stream) \in Seq(Event)
        BY <1>1, <1>3, <2>2, AppendProperties, HeadTailProperties, EmptySeq
      <4>2. stream'[1] = stream[1]
        BY <1>1, <1>3, <4>1, AppendProperties
      <4>3. Tail(stream') = Append(Tail(stream), e)
        BY <1>1, <1>3, <2>2, HeadTailAppend
      <4> QED BY <4>1, <4>2, <4>3 DEF Event1
    <3>2. TookEffect(Event1, Mapped)' <=> TookEffect(Event1, Mapped)
      BY <1>2, <3>1
    <3> QED BY <1>1, <1>3, <2>2, <3>1, <3>2 DEF Pending
  <2> QED BY <2>1, <2>2
<1>5. Changes(Pending') = Append(Changes(Pending), Changed(e))
  BY <1>4, ChangesOf
<1>6. Workspaces = All /\ Workspaces' = All'
  BY WorkspacesAll DEF Sound
<1>7. ASSUME NEW gone, NEW come, Changed(e) = [gone |-> gone, come |-> come]
      PROVE  Promise!Change(gone, come)
  <2>1. All' = Promise!After(All, Changed(e)) /\ gone \subseteq All /\ come \cap All = {}
    BY <1>1, <1>7, OneChange
  <2> QED BY <1>2, <1>5, <1>6, <1>7, <2>1 DEF Promise!Change
<1>8. Named(e) \in Tenants \X Derived /\ Source(e) \in Tenants \X Derived
  BY DEF Setting, Event, Name, Named, Source
<1>9. \/ Promise!Comes(Named(e)) \/ Promise!Goes(Named(e)) \/ Promise!Renames(Source(e), Named(e))
  <2>1. \/ Changed(e) = [gone |-> {}, come |-> {Named(e)}]
        \/ Changed(e) = [gone |-> {Named(e)}, come |-> {}]
        \/ Changed(e) = [gone |-> {Source(e)}, come |-> {Named(e)}]
    BY <1>1, OneChange
  <2> QED BY <1>7, <2>1 DEF Promise!Comes, Promise!Goes, Promise!Renames
<1> QED BY <1>8, <1>9 DEF Promise!Next

(* An acknowledgement: the event had taken effect, the next one has not.    *)
LEMMA AckRefines ==
    ASSUME Setting, Sound, Ack, TypeOK', NEW a, NEW b, NEW b2, Around(a, b), WorkIn(a, b),
           Around(b, b2)'
    PROVE  UNCHANGED <<Workspaces, Mapped, Changes(Pending)>>
<1>1. stream # <<>> /\ stream' = Tail(stream) /\ UNCHANGED <<sessions, rows>> /\ Mapped = b
  BY Locals DEF Ack, Sound, HandlerHoldsEvent, WorkIn, Work
<1>2. Mapped' = Mapped
  BY <1>1, MappedKept
<1>3. Pending = Tail(stream)
  BY <1>1, EventTyped, PendingTail DEF Around, Sound
<1>4. Pending' = stream'
  <2>1. CASE stream' = <<>>
    BY <2>1 DEF Pending
  <2>2. CASE stream' # <<>>
    <3>1. Event1' \in Event
      <4>1. stream' \in Seq(Event)
        BY DEF TypeOK
      <4> QED BY <2>2, <4>1 DEF Event1
    <3>2. Follows(b, Event1', b2')
      BY <2>2 DEF Around
    <3>3. ~TookEffect(Event1', b)
      BY <3>1, <3>2, OneChange
    <3> QED BY <1>1, <1>2, <2>2, <3>3 DEF Pending
  <2> QED BY <2>1, <2>2
<1> QED BY <1>1, <1>2, <1>3, <1>4 DEF Workspaces

(* Every other step: nothing, or the handler's event takes effect.          *)
LEMMA WorkRefines ==
    ASSUME Setting, Sound, Steps, ~AgentNext, ~Ack, NEW a, NEW b, Around(a, b), WorkIn(a, b),
           WorkIn(a, b)'
    PROVE  Promise!Follow \/ UNCHANGED <<Workspaces, Mapped, Changes(Pending)>>
<1>1. UNCHANGED <<sessions, stream>>
  BY OnlyAckConsumes DEF Sound
<1>2. Workspaces' = Workspaces
  BY <1>1 DEF Workspaces
<1>3. CASE Mapped' = Mapped
  <2>1. Pending' = Pending
    BY <1>1, <1>3 DEF Pending, Event1
  <2> QED BY <1>2, <1>3, <2>1
<1>4. CASE Mapped' # Mapped
  <2>1. Mapped = a /\ stream # <<>>
    BY <1>4, MovesForward, MappedKept
  <2>2. Mapped' = b
    BY <1>4, <2>1 DEF WorkIn, Work, Doing
  <2>3. Event1 \in Event /\ Follows(a, Event1, b) /\ stream \in Seq(Event)
    BY <2>1, EventTyped DEF Around, Sound, TypeOK
  <2>4. b = Promise!After(a, Changed(Event1)) /\ ~TookEffect(Event1, a) /\ TookEffect(Event1, b)
    BY <2>3, OneChange
  <2>5. Pending = stream /\ Pending' = Tail(stream)
    BY <1>1, <2>1, <2>2, <2>4 DEF Pending, Event1
  <2>6. /\ Changes(stream) # <<>> /\ Head(Changes(stream)) = Changed(Event1)
        /\ Changes(Tail(stream)) = Tail(Changes(stream))
    BY <2>1, <2>3, ChangesOf DEF Event1
  <2> QED BY <1>2, <2>1, <2>2, <2>4, <2>5, <2>6 DEF Promise!Follow
<1> QED BY <1>3, <1>4

LEMMA RefinementStep ==
    ASSUME Setting, HandlerAlone, TypeOK, TypeOK', HandlerHoldsEvent, RowsOneToOne, OthersIdle,
           RowsThere, Tracks, [Next]_vars
    PROVE  [Promise!Next]_<<Workspaces, Mapped, Changes(Pending)>>
<1>1. Sound
  BY DEF Sound, TableOK, OneToOne, RowsOneToOne, TypeOK
<1>2. Steps
  BY OnlyTheHandler
<1>3. PICK past, a, b : /\ Replay(past, stream, All) /\ a = past[0] /\ b = After(past, stream)
                        /\ WorkIn(a, b)
  BY DEF Tracks
<1>4. PICK next, a2, b2 : /\ Replay(next, stream', All')
                          /\ a2 = next[0] /\ b2 = After(next, stream')
                          /\ Carried(a, b, a2, b2)
  BY <1>2, <1>3, PastStep DEF Setting
<1>5. Around(a, b) /\ (stream = <<>> => a = All)
  BY <1>3, ReplayAround DEF Replay
<1>6. WorkIn(a2, b2)'
  BY <1>1, <1>2, <1>3, <1>4, <1>5, WorkStep
<1>7. Around(a2, b2)'
  <2>1. stream' \in Seq(Event) /\ (stream' # <<>> => 1 \in 1..Len(stream'))
    BY EmptySeq DEF TypeOK
  <2> QED BY <1>4, <2>1 DEF Around, After, Replay, Event1
<1>8. CASE AgentNext
  BY <1>1, <1>3, <1>5, <1>8, AgentRefines
<1>9. CASE Ack
  <2>1. a2 = b
    BY <1>4, <1>9 DEF Carried
  <2> QED BY <1>1, <1>3, <1>5, <1>7, <1>9, <2>1, AckRefines
<1>10. CASE ~AgentNext /\ ~Ack
  <2>1. a2 = a /\ (stream # <<>> => b2 = b)
    BY <1>4, <1>10 DEF Carried
  <2>2. CASE stream # <<>>
    <3>1. WorkIn(a, b)'
      BY <1>6, <2>1, <2>2
    <3> QED BY <1>1, <1>2, <1>3, <1>5, <1>10, <3>1, WorkRefines DEF Promise!Next
  <2>3. CASE stream = <<>>
    <3>1. Mapped' = Mapped
      BY <1>1, <1>2, <1>3, <1>10, <2>3, MovesForward, MappedKept
    <3>2. UNCHANGED <<sessions, stream>>
      BY <1>2, <1>10, OnlyAckConsumes
    <3> QED BY <2>3, <3>1, <3>2 DEF Workspaces, Pending
  <2> QED BY <2>2, <2>3
<1> QED BY <1>8, <1>9, <1>10

LEMMA RefinementInit == Init => Promise!Init
<1> SUFFICES ASSUME Init PROVE Promise!Init
  OBVIOUS
<1>1. Workspaces = {} /\ Mapped = {}
  BY DEF Init, Workspaces, Mapped
<1>2. Pending = <<>>
  BY DEF Init, Pending
<1>3. Changes(<<>>) = <<>>
  <2>1. 1..0 = {} /\ Len(<<>>) = 0
    OBVIOUS
  <2> QED BY <2>1 DEF Changes
<1> QED BY <1>1, <1>2, <1>3 DEF Promise!Init

(* The handler alone implements Mapping, whatever stops half-way and is     *)
(* delivered again: every change of the sessions takes effect on the        *)
(* mapping in one step, once, whole and in the order of the changes, and an *)
(* event is acknowledged only after its own.                                *)
THEOREM HandlerImplementsMapping ==
    ASSUME HandlerAlone, Setting
    PROVE  Spec => RefinesMapping
<1>1. Tracks /\ RowsThere /\ OthersIdle /\ TypeOK /\ HandlerHoldsEvent /\ RowsOneToOne /\ [Next]_vars
        => (Tracks /\ RowsThere /\ OthersIdle)'
  BY TracksStep, OnlyTheHandler
<1>2. Tracks /\ RowsThere /\ OthersIdle /\ TypeOK /\ TypeOK' /\ HandlerHoldsEvent /\ RowsOneToOne
        /\ [Next]_vars => [Promise!Next]_<<Workspaces, Mapped, Changes(Pending)>>
  BY RefinementStep
<1> QED BY <1>1, <1>2, TracksInit, RefinementInit, TypeCorrect, MappingOneToOne,
           PTL DEF Spec, RefinesMapping, Promise!Spec, Promise!mappingVars

-----------------------------------------------------------------------------
(* The branches of one tenant's sessions, while nothing goes wrong.  What   *)
(* makes it inductive: the branches are those of the sessions before the    *)
(* handler's event, after it, or, between a rename's creation and deletion, *)
(* of both; and the branch a new one starts from is there.                  *)

OneTenant == \A t, u \in Tenants : t = u
Calm      == NothingFails /\ NothingBlind /\ NothingCut

There(s)  == branch[s.repo][s.branch] # None
In(a, s)  == \E t \in Tenants : <<t, s>> \in a
Matches(a) == \A s \in Derived : /\ In(a, s) => There(s)
                                 /\ There(s) /\ s.branch # Main => In(a, s)
Stage(f, a, b) ==
    IF f.pc \in {"idle", "anchor", "tree", "create"} \/ (f.pc = "delbranch" /\ f.op = "deleted")
    THEN a
    ELSE IF f.pc \in {"rename", "delbranch"} THEN a \cup b ELSE b
Resolves(f) == IF f.src = RepoHead THEN head[f.name.repo] # None
               ELSE branch[f.name.repo][f.src] # None
BranchesIn(a, b) ==
    Calm => /\ Matches(Stage(frame[H], a, b))
            /\ frame[H].pc \in {"tree", "create"} => Resolves(frame[H])
            /\ \A r \in Repos : head[r] # None
TracksBranches == \E past, a, b : /\ Replay(past, stream, All)
                                  /\ a = past[0] /\ b = After(past, stream)
                                  /\ WorkIn(a, b) /\ BranchesIn(a, b)

Commits == \E r \in Repos, b \in Branches : Commit(r, b)

(* Budgets are only ever spent.                                             *)
LEMMA SpentStays ==
    ASSUME TypeOK, Steps
    PROVE  \A k \in Kinds : budget'[k] <= budget[k]
<1>1. budget \in [Kinds -> Nat] /\ "trouble" \in Kinds
  BY DEF TypeOK, Kinds
<1>2. ASSUME NEW item \in Kinds, Spend(item) \/ Trouble(item)
      PROVE  \A k \in Kinds : budget'[k] <= budget[k]
  BY <1>1, <1>2 DEF Spend, Trouble
<1>3. ASSUME UNCHANGED budget PROVE \A k \in Kinds : budget'[k] <= budget[k]
  BY <1>1, <1>3
<1>4. CASE AgentNext
  <2>1. \/ Spend("ops")
        \/ budget' = [k \in Kinds |-> IF k \in {"ops", "losses", "trouble"}
                                      THEN budget[k] - 1 ELSE budget[k]]
    BY <1>4 DEF AgentNext, AgentCreate, AgentFork, AgentRename, AgentDelete, Publish
  <2> QED BY <1>1, <1>2, <2>1 DEF Kinds
<1>5. CASE UserSteps
  BY <1>2, <1>5 DEF UserSteps, Commit, UserDeleteBranch, Kinds
<1>6. CASE HandlerNext
  BY <1>3, <1>6 DEF HandlerNext, HandleCreated, HandleForked, HandleRenamed, HandleDeleted,
        Reads, Shared, AnchorBranch, ReadTree, CreateBranch, InsertRow, InsertManaged,
        RenameRow, DeleteBranch, DeleteRow, Ack
<1>7. CASE Blinded \/ Fail(H)
  BY <1>2, <1>7 DEF Blinded, ReadTreeBlind, DeleteBranchBlind, Fail, Kinds
<1> QED BY <1>3, <1>4, <1>5, <1>6, <1>7 DEF Steps, vars

LEMMA CalmStep ==
    ASSUME TypeOK, Steps, Calm'
    PROVE  Calm /\ (AgentNext \/ Commits \/ HandlerNext \/ UNCHANGED vars)
<1>1. /\ {"fails", "blinds", "cuts", "trouble"} \subseteq Kinds
      /\ Bound["fails"] = MaxFails /\ Bound["blinds"] = MaxBlinds /\ Bound["cuts"] = MaxCuts
      /\ budget \in [Kinds -> Nat]
  BY DEF Kinds, Bound, TypeOK
<1>2. \A k \in {"fails", "blinds", "cuts"} :
        /\ budget[k] \in Nat /\ budget[k] <= Bound[k] /\ Bound[k] \in Nat
        /\ budget'[k] <= budget[k]
  BY <1>1, BudgetAt, SpentStays
<1>3. /\ budget'["fails"] = Bound["fails"] /\ budget'["blinds"] = Bound["blinds"]
      /\ budget'["cuts"] = Bound["cuts"]
  BY <1>1 DEF Calm, NothingFails, NothingBlind, NothingCut
<1>4. /\ budget["fails"] = Bound["fails"] /\ budget["blinds"] = Bound["blinds"]
      /\ budget["cuts"] = Bound["cuts"]
  BY <1>2, <1>3
<1>5. ~Trouble("fails") /\ ~Trouble("blinds") /\ ~Trouble("cuts")
  <2>1. ASSUME NEW k \in {"fails", "blinds", "cuts"}, Trouble(k) PROVE FALSE
    <3>1. budget'[k] = budget[k] - 1
      BY <1>1, <2>1 DEF Trouble
    <3> QED BY <1>2, <1>3, <1>4, <3>1
  <2> QED BY <2>1
<1>6. Calm
  BY <1>1, <1>4 DEF Calm, NothingFails, NothingBlind, NothingCut
<1> QED BY <1>5, <1>6 DEF Steps, UserSteps, Commits, UserDeleteBranch, Fail, Blinded,
           ReadTreeBlind, DeleteBranchBlind

(* How a change of one branch carries the match over.                       *)
LEMMA MatchesMore ==
    ASSUME TypeOK, NEW a, NEW c, NEW n \in Derived, Matches(a),
           \A s \in Derived : In(c, s) <=> (In(a, s) \/ s = n),
           There(n)',
           \A s \in Derived : s # n => (There(s)' <=> There(s))
    PROVE  Matches(c)'
BY DEF Matches, In

LEMMA MatchesLess ==
    ASSUME TypeOK, NEW a, NEW c, NEW n \in Derived, Matches(a),
           \A s \in Derived : In(c, s) <=> (In(a, s) /\ s # n),
           ~There(n)',
           \A s \in Derived : s # n => (There(s)' <=> There(s))
    PROVE  Matches(c)'
BY DEF Matches, In

LEMMA MatchesSame ==
    ASSUME NEW a, Matches(a), UNCHANGED branch
    PROVE  Matches(a)'
BY DEF Matches, In, There

(* One tenant: what the handler's event does to the set of live names.      *)
LEMMA NamesAround ==
    ASSUME OneTenant, Setting, TypeOK, NEW a, NEW b, Around(a, b), stream # <<>>
    PROVE  /\ a # b
           /\ Event1.kind \in {"created", "forked", "renamed"} =>
                /\ ~In(a, Event1.name)
                /\ \A s : In(a \cup b, s) <=> (In(a, s) \/ s = Event1.name)
           /\ Event1.kind \in {"created", "forked"} =>
                \A s : In(b, s) <=> (In(a, s) \/ s = Event1.name)
           /\ Event1.kind = "renamed" =>
                \A s : In(b, s) <=> (In(a \cup b, s) /\ s # Event1.from)
           /\ Event1.kind = "deleted" =>
                \A s : In(b, s) <=> (In(a, s) /\ s # Event1.name)
<1>1. Event1.t \in Tenants /\ \A t \in Tenants : t = Event1.t
  BY EventNames DEF OneTenant
<1>2. \A c, s : In(c, s) <=> <<Event1.t, s>> \in c
  BY <1>1 DEF In
<1>3. Follows(a, Event1, b)
  BY DEF Around
<1>4. a # b
  BY <1>3 DEF Follows, Named, Source
<1>5. ASSUME Event1.kind \in {"created", "forked"}
      PROVE  <<Event1.t, Event1.name>> \notin a /\ b = a \cup {<<Event1.t, Event1.name>>}
  BY <1>3, <1>5 DEF Follows, Named
<1>6. ASSUME Event1.kind = "renamed"
      PROVE  /\ <<Event1.t, Event1.name>> \notin a /\ <<Event1.t, Event1.from>> \in a
             /\ b = (a \ {<<Event1.t, Event1.from>>}) \cup {<<Event1.t, Event1.name>>}
  BY <1>3, <1>6 DEF Follows, Named, Source
<1>7. ASSUME Event1.kind = "deleted" PROVE b = a \ {<<Event1.t, Event1.name>>}
  BY <1>3, <1>7 DEF Follows, Named
<1>8. CASE Event1.kind \in {"created", "forked"}
  BY <1>2, <1>4, <1>5, <1>8
<1>9. CASE Event1.kind = "renamed"
  <2>1. Event1.name # Event1.from
    BY <1>6, <1>9
  <2> QED BY <1>2, <1>4, <1>6, <1>9, <2>1
<1>10. CASE Event1.kind = "deleted"
  BY <1>2, <1>4, <1>7, <1>10
<1>11. Event1.kind \in {"created", "forked", "renamed", "deleted"}
  BY <1>3 DEF Follows
<1> QED BY <1>8, <1>9, <1>10, <1>11

LEMMA BranchesTakenUp ==
    ASSUME OneTenant, Setting, Sound, Calm, NEW a, NEW b, Around(a, b), WorkIn(a, b),
           BranchesIn(a, b),
           HandleCreated \/ HandleForked \/ HandleRenamed \/ HandleDeleted
    PROVE  BranchesIn(a, b)'
<1>1. /\ stream # <<>> /\ frame[H].pc = "idle" /\ UNCHANGED <<stream, branch, head, rows, budget>>
  BY DEF HandleCreated, HandleForked, HandleRenamed, HandleDeleted, Receives, Reads, lab
<1>2. WorkIn(a, b)' /\ FromSource(a)
  BY TakesUpCreated, TakesUpForked, TakesUpRenamed, TakesUpDeleted
<1>3. a # b /\ Mapped' = Mapped /\ Mapped = a
  BY <1>1, NamesAround, MappedKept DEF Sound, Calm, WorkIn, Work
<1>4. frame'[H].pc \in {"anchor", "tree", "delbranch"}
  BY <1>2, <1>3, FirstPc DEF Sound, WorkIn, Work
<1>5. Serves(frame[H])' /\ ~Written(frame[H])'
  BY <1>2, <1>3, <1>4 DEF WorkIn, Work, Doing
<1>6. Stage(frame[H], a, b)' = a
  <2>1. Event1.kind \in {"created", "forked", "renamed", "deleted"} /\ Event1' = Event1
    BY <1>1, EventTyped DEF Sound, Event, Event1
  <2>2. frame'[H].op = Event1.kind /\ frame'[H].pc \in Path(frame'[H].op)
    BY <1>5, <2>1 DEF Serves
  <2>3. frame'[H].pc = "delbranch" => frame'[H].op = "deleted"
    BY <1>5, <2>1, <2>2 DEF Written, Path
  <2> QED BY <1>4, <2>3 DEF Stage
<1>7. Matches(a) /\ \A r \in Repos : head[r] # None
  BY <1>1 DEF BranchesIn, Stage
<1>8. Matches(a)'
  BY <1>1, <1>7, MatchesSame
<1>9. ASSUME frame'[H].pc = "tree" PROVE Resolves(frame[H])'
  <2>1. /\ Event1.t \in Tenants /\ Event1.from \in Derived
        /\ Event1.from.repo = Event1.name.repo
    BY <1>1, EventNames DEF Sound
  <2>2. In(a, Event1.from) /\ frame'[H].src = Event1.from.branch
    BY <1>2, <1>9, <2>1 DEF FromSource, Source, In
  <2>3. There(Event1.from)
    BY <1>7, <2>1, <2>2 DEF Matches
  <2>4. frame'[H].name = Event1.name
    BY <1>1, <1>5 DEF Serves, Event1
  <2>5. Event1.from.branch # RepoHead
    BY <2>1, HeadIsNoBranch DEF Derived
  <2> QED BY <1>1, <2>1, <2>2, <2>3, <2>4, <2>5 DEF Resolves, There
<1>10. Matches(Stage(frame[H], a, b))'
  BY <1>6, <1>8 DEF Matches, In, There
<1> QED BY <1>1, <1>4, <1>7, <1>9, <1>10 DEF BranchesIn

LEMMA BranchesShared ==
    ASSUME OneTenant, Setting, Sound, Calm, NEW a, NEW b, Around(a, b), WorkIn(a, b),
           BranchesIn(a, b), Shared(H)
    PROVE  BranchesIn(a, b)'
<1> DEFINE f == frame[H]
<1>0. PICK n \in Derived : n = f.name
  BY Locals DEF Sound
<1>1. /\ f \in Frame /\ n = f.name /\ n \in Derived /\ n.repo \in Repos /\ n.branch \in Branches
      /\ f.pc \notin {"idle", "done"}
      /\ UNCHANGED <<stream, head, budget>>
  BY <1>0, Locals DEF Sound, Shared, AnchorBranch, ReadTree, CreateBranch, InsertRow,
        InsertManaged, lab, Derived
<1>2. /\ Doing(f, a, b) /\ Serves(f) /\ stream # <<>> /\ AfterBind(f) = Done
      /\ \A g : Step(H, g) => frame[H]' = g
  BY <1>1, AtWork
<1>3. f.pc \in {"anchor", "tree", "create", "bind", "manage"}
  BY DEF Shared, AnchorBranch, ReadTree, CreateBranch, InsertRow, InsertManaged
<1>4. f.op \in {"created", "forked", "renamed"} /\ Event1.kind = f.op /\ Event1.name = n
  BY <1>1, <1>2, <1>3, AtWork DEF Serves, Path
<1>5. /\ ~In(a, n)
      /\ \A s : In(a \cup b, s) <=> (In(a, s) \/ s = n)
      /\ f.op \in {"created", "forked"} => \A s : In(b, s) <=> (In(a, s) \/ s = n)
  BY <1>2, <1>4, NamesAround DEF Sound
<1>6. Matches(Stage(f, a, b)) /\ \A r \in Repos : head[r] # None
  BY DEF BranchesIn
<1>7. head' = head /\ \A r \in Repos : head'[r] # None
  BY <1>1, <1>6
<1>8. /\ branch \in [Repos -> [Branches -> Nat \cup {None}]] /\ head \in [Repos -> Nat \cup {None}]
      /\ f.src \in Branches \cup {RepoHead} /\ RepoHead \notin Branches
  BY <1>1, HeadIsNoBranch DEF Sound, TypeOK, Frame
<1>9. CASE AnchorBranch(H)
  <2>1. PICK src : /\ frame[H]' = [f EXCEPT !.pc = "tree", !.src = src]
                   /\ src = IF branch[n.repo][Main] # None THEN Main ELSE RepoHead
    BY <1>1, <1>2, <1>9 DEF AnchorBranch
  <2>2. f.pc = "anchor" /\ branch' = branch
    BY <1>9 DEF AnchorBranch
  <2>3. frame[H]'.pc = "tree" /\ frame[H]'.src = src /\ frame[H]'.name = n
    BY <1>1, <2>1 DEF Frame
  <2>4. Resolves(frame[H])'
    BY <1>1, <1>7, <1>8, <2>1, <2>2, <2>3, WorkspaceAssumption DEF Resolves
  <2>5. Stage(f, a, b) = a /\ Stage(frame[H], a, b)' = a
    BY <2>2, <2>3 DEF Stage
  <2>6. Matches(a)'
    BY <1>6, <2>2, <2>5, MatchesSame
  <2>7. Matches(Stage(frame[H], a, b))'
    BY <2>5, <2>6 DEF Matches, In, There
  <2> QED BY <1>7, <2>4, <2>7 DEF BranchesIn
<1>10. CASE ReadTree(H)
  <2>1. /\ f.pc = "tree" /\ branch' = branch
        /\ Goto(H, IF There(n) THEN AfterBranch(f) ELSE "create")
    BY <1>1, <1>2, <1>10 DEF ReadTree, Listed, There, lab, Doing
  <2>2. Matches(a) /\ Resolves(f)
    BY <1>6, <2>1 DEF Stage, BranchesIn
  <2>3. CASE There(n)
    <3>1. frame[H]'.pc = AfterBranch(f) /\ frame[H]'.op = f.op
      BY <1>1, <1>2, <2>1, <2>3 DEF Goto, Frame
    <3>2. /\ frame[H]'.pc \notin {"tree", "create"}
          /\ Stage(frame[H], a, b)' = IF f.op = "renamed" THEN a \cup b ELSE b
      BY <1>4, <3>1 DEF AfterBranch, Stage
    <3>3. There(n)' /\ \A s \in Derived : There(s)' <=> There(s)
      BY <2>1, <2>3 DEF There
    <3>4. Matches(a \cup b)' /\ (f.op # "renamed" => Matches(b)')
      BY <1>1, <1>4, <1>5, <2>2, <3>3, MatchesMore DEF Sound
    <3>5. Matches(Stage(frame[H], a, b))'
      BY <1>4, <3>2, <3>4 DEF Matches, In, There
    <3> QED BY <1>7, <3>2, <3>5 DEF BranchesIn
  <2>4. CASE ~There(n)
    <3>1. /\ frame[H]'.pc = "create" /\ frame[H]'.src = f.src /\ frame[H]'.name = n
      BY <1>1, <1>2, <2>1, <2>4 DEF Goto, Frame
    <3>2. Stage(frame[H], a, b)' = a
      BY <3>1 DEF Stage
    <3>3. Resolves(frame[H])'
      BY <1>1, <1>7, <2>1, <2>2, <3>1 DEF Resolves
    <3>4. Matches(a)'
      BY <2>1, <2>2, MatchesSame
    <3>5. Matches(Stage(frame[H], a, b))'
      BY <3>2, <3>4 DEF Matches, In, There
    <3> QED BY <1>7, <3>3, <3>5 DEF BranchesIn
  <2> QED BY <2>3, <2>4
<1>11. CASE CreateBranch(H)
  <2> DEFINE pos == IF f.src = RepoHead THEN head[n.repo] ELSE branch[n.repo][f.src]
  <2>1. /\ f.pc = "create" /\ Goto(H, AfterBranch(f))
        /\ branch' = IF pos = None THEN branch ELSE [branch EXCEPT ![n.repo][n.branch] = pos]
    BY <1>1, <1>11 DEF CreateBranch
  <2>2. Matches(a) /\ Resolves(f)
    BY <1>6, <2>1 DEF Stage, BranchesIn
  <2>3. pos # None
    BY <1>1, <2>2 DEF Resolves
  <2>4. There(n)'
    BY <1>1, <1>8, <2>1, <2>3 DEF There
  <2>5. ASSUME NEW s \in Derived, s # n PROVE There(s)' <=> There(s)
    <3>1. /\ s.repo \in Repos /\ s.branch \in Branches
          /\ s.repo # n.repo \/ s.branch # n.branch
      BY <1>1, <2>5 DEF Derived
    <3> HIDE DEF pos
    <3> QED BY <1>1, <1>8, <2>1, <3>1 DEF There
  <2>6. frame[H]'.pc = AfterBranch(f) /\ frame[H]'.op = f.op
    BY <1>1, <1>2, <2>1 DEF Goto, Frame
  <2>7. /\ frame[H]'.pc \notin {"tree", "create"}
        /\ Stage(frame[H], a, b)' = IF f.op = "renamed" THEN a \cup b ELSE b
    BY <1>4, <2>6 DEF AfterBranch, Stage
  <2>8. Matches(a \cup b)' /\ (f.op # "renamed" => Matches(b)')
    BY <1>1, <1>4, <1>5, <2>2, <2>4, <2>5, MatchesMore DEF Sound
  <2>9. Matches(Stage(frame[H], a, b))'
    BY <1>4, <2>7, <2>8 DEF Matches, In, There
  <2> QED BY <1>7, <2>7, <2>9 DEF BranchesIn
<1>12. CASE InsertRow(H) \/ InsertManaged(H)
  <2>1. f.pc \in {"bind", "manage"} /\ branch' = branch
    BY <1>12 DEF InsertRow, InsertManaged, lab
  <2>2. frame[H]'.pc \in {"manage", "done"}
    BY <1>1, <1>2, <1>12, Locals DEF InsertRow, InsertManaged, AfterInsert, Frame, Sound
  <2>3. Stage(f, a, b) = b /\ Stage(frame[H], a, b)' = b
    BY <2>1, <2>2 DEF Stage
  <2>4. Matches(b)'
    BY <1>6, <2>1, <2>3, MatchesSame
  <2>5. Matches(Stage(frame[H], a, b))'
    BY <2>3, <2>4 DEF Matches, In, There
  <2> QED BY <1>7, <2>2, <2>5 DEF BranchesIn
<1> QED BY <1>9, <1>10, <1>11, <1>12 DEF Shared

LEMMA BranchesRemoved ==
    ASSUME OneTenant, Setting, Sound, Calm, NEW a, NEW b, Around(a, b), WorkIn(a, b),
           BranchesIn(a, b), RenameRow \/ DeleteBranch \/ DeleteRow
    PROVE  BranchesIn(a, b)'
<1> DEFINE f == frame[H]
<1>1. /\ f \in Frame /\ f.name \in Derived /\ f.from \in Derived
      /\ f.pc \in {"rename", "delbranch", "delrow"} /\ UNCHANGED <<stream, head, budget>>
  BY Locals DEF Sound, RenameRow, DeleteBranch, DeleteRow, lab
<1>2. /\ Serves(f) /\ stream # <<>> /\ f.op \in {"renamed", "deleted"}
      /\ \A g : Step(H, g) => frame[H]' = g
  BY <1>1, AtWork DEF Serves, Path
<1>3. /\ Event1.kind = f.op /\ Event1.name = f.name
      /\ f.op = "renamed" => Event1.from = f.from
  BY <1>2 DEF Serves
<1>4. /\ f.op = "renamed" => \A s : In(b, s) <=> (In(a \cup b, s) /\ s # f.from)
      /\ f.op = "deleted" => \A s : In(b, s) <=> (In(a, s) /\ s # f.name)
  BY <1>2, <1>3, NamesAround DEF Sound
<1>5. Matches(Stage(f, a, b)) /\ \A r \in Repos : head[r] # None /\ head'[r] # None
  BY <1>1 DEF BranchesIn
<1>6. CASE RenameRow
  <2>1. f.pc = "rename" /\ frame[H]'.pc = "delbranch" /\ branch' = branch /\ f.op = "renamed"
    BY <1>2, <1>6, RunsRename DEF RenameRow, lab, Serves, Path
  <2>2. frame[H]'.op = "renamed"
    <3>1. WorkIn(a, b)'
      BY <1>6, RunsRename
    <3>2. Serves(frame[H])'
      BY <2>1, <3>1 DEF WorkIn, Work, Doing
    <3> QED BY <1>1, <1>3, <2>1, <3>2 DEF Serves, Event1
  <2>3. Stage(f, a, b) = a \cup b /\ Stage(frame[H], a, b)' = a \cup b
    BY <2>1, <2>2 DEF Stage
  <2>4. Matches(a \cup b)'
    BY <1>5, <2>1, <2>3, MatchesSame
  <2>5. Matches(Stage(frame[H], a, b))'
    BY <2>3, <2>4 DEF Matches, In, There
  <2> QED BY <1>5, <2>1, <2>5 DEF BranchesIn
<1>7. CASE DeleteBranch
  <2>0. PICK n \in Derived : n = OldBranch(f)
    BY <1>1 DEF OldBranch
  <2>1. /\ f.pc = "delbranch" /\ frame[H]' = AfterDelete(f)
        /\ branch' = [branch EXCEPT ![n.repo][n.branch] = None]
    BY <1>2, <1>7, <2>0 DEF DeleteBranch
  <2>2. n \in Derived /\ n.repo \in Repos /\ n.branch \in Branches
    BY <2>0 DEF Derived
  <2>3. branch \in [Repos -> [Branches -> Nat \cup {None}]]
    BY DEF Sound, TypeOK
  <2>4. ~There(n)'
    BY <2>1, <2>2, <2>3 DEF There
  <2>5. ASSUME NEW s \in Derived, s # n PROVE There(s)' <=> There(s)
    <3>1. /\ s.repo \in Repos /\ s.branch \in Branches
          /\ s.repo # n.repo \/ s.branch # n.branch
      BY <2>2, <2>5 DEF Derived
    <3> QED BY <2>1, <2>2, <2>3, <3>1 DEF There
  <2>6. frame[H]'.pc \in {"done", "delrow"}
    BY <1>1, <2>1, Locals DEF AfterDelete, Frame, Sound
  <2>7. Stage(frame[H], a, b)' = b
    BY <2>6 DEF Stage
  <2>8. Matches(b)'
    <3>1. CASE f.op = "renamed"
      <4>1. Stage(f, a, b) = a \cup b /\ n = f.from
        BY <2>0, <2>1, <3>1 DEF Stage, OldBranch
      <4>2. /\ Matches(a \cup b)
            /\ \A s \in Derived : In(b, s) <=> (In(a \cup b, s) /\ s # n)
        BY <1>4, <1>5, <3>1, <4>1
      <4> QED BY <2>2, <2>4, <2>5, <4>2, MatchesLess DEF Sound
    <3>2. CASE f.op = "deleted"
      <4>1. Stage(f, a, b) = a /\ n = f.name
        BY <2>0, <2>1, <3>2 DEF Stage, OldBranch
      <4>2. Matches(a) /\ \A s \in Derived : In(b, s) <=> (In(a, s) /\ s # n)
        BY <1>4, <1>5, <3>2, <4>1
      <4> QED BY <2>2, <2>4, <2>5, <4>2, MatchesLess DEF Sound
    <3> QED BY <1>2, <3>1, <3>2
  <2>9. Matches(Stage(frame[H], a, b))'
    BY <2>7, <2>8 DEF Matches, In, There
  <2> QED BY <1>5, <2>6, <2>9 DEF BranchesIn
<1>8. CASE DeleteRow
  <2>1. f.pc = "delrow" /\ frame[H]'.pc = "done" /\ branch' = branch
    BY <1>2, <1>8, Locals DEF DeleteRow, lab, Sound
  <2>2. Stage(f, a, b) = b /\ Stage(frame[H], a, b)' = b
    BY <2>1 DEF Stage
  <2>3. Matches(b)'
    BY <1>5, <2>1, <2>2, MatchesSame
  <2>4. Matches(Stage(frame[H], a, b))'
    BY <2>2, <2>3 DEF Matches, In, There
  <2> QED BY <1>5, <2>1, <2>4 DEF BranchesIn
<1> QED BY <1>6, <1>7, <1>8

LEMMA BranchesCommitted ==
    ASSUME Sound, NEW a, NEW b, BranchesIn(a, b), Commits, Calm
    PROVE  BranchesIn(a, b)' /\ UNCHANGED <<frame, stream>>
<1>1. PICK r \in Repos, c \in Branches : Commit(r, c)
  BY DEF Commits
<1>2. PICK commit : /\ commit = MaxCommits - budget["commits"] + 1
                    /\ branch' = [branch EXCEPT ![r][c] = commit]
                    /\ head' = [head EXCEPT ![r] = commit]
  BY <1>1 DEF Commit
<1>3. commit # None
  <2>1. "commits" \in Kinds /\ Bound["commits"] = MaxCommits
    BY DEF Kinds, Bound
  <2>2. /\ budget["commits"] \in Nat /\ MaxCommits \in Nat
        /\ budget["commits"] <= MaxCommits
    BY <2>1, BudgetAt DEF Sound
  <2> QED BY <1>2, <2>2 DEF None
<1>4. UNCHANGED <<frame, stream>> /\ (branch[r][c] # None \/ c = Main)
  BY <1>1 DEF Commit
<1>5. /\ branch \in [Repos -> [Branches -> Nat \cup {None}]] /\ head \in [Repos -> Nat \cup {None}]
  BY DEF Sound, TypeOK
<1>6. \A q \in Repos, d \in Branches :
        /\ branch[q][d] # None => branch'[q][d] # None
        /\ branch'[q][d] # None /\ d # Main => branch[q][d] # None
  BY <1>2, <1>3, <1>4, <1>5
<1>7. ASSUME NEW s \in Derived
      PROVE  (There(s) => There(s)') /\ (There(s)' /\ s.branch # Main => There(s))
  BY <1>6 DEF There, Derived
<1>8. PICK x : x = Stage(frame[H], a, b)
  OBVIOUS
<1>9. Matches(x) /\ \A q \in Repos : head[q] # None
  BY <1>8 DEF BranchesIn
<1>10. Stage(frame[H], a, b)' = x
  BY <1>4, <1>8 DEF Stage
<1>11. Matches(x)'
  BY <1>7, <1>9 DEF Matches, In
<1>12. Matches(Stage(frame[H], a, b))'
  BY <1>10, <1>11 DEF Matches, In, There
<1>13. \A q \in Repos : head'[q] # None
  BY <1>2, <1>3, <1>5, <1>9
<1>14. ASSUME Resolves(frame[H]) PROVE Resolves(frame[H])'
  <2>1. /\ frame[H].name.repo \in Repos /\ frame[H].src \in Branches \cup {RepoHead}
    BY Locals DEF Sound, Derived, Frame
  <2> QED BY <1>4, <1>6, <1>13, <1>14, <2>1 DEF Resolves
<1> QED BY <1>4, <1>12, <1>13, <1>14 DEF BranchesIn

LEMMA BranchesKept ==
    ASSUME NEW a, NEW b, BranchesIn(a, b), Calm, UNCHANGED <<branch, head, frame>>
    PROVE  BranchesIn(a, b)'
<1>1. Matches(Stage(frame[H], a, b))'
  BY DEF BranchesIn, Matches, In, There, Stage
<1> QED BY <1>1 DEF BranchesIn, Resolves

LEMMA BranchesStep ==
    ASSUME OneTenant, Setting, Sound, Steps, NEW a, NEW b, NEW a2, NEW b2,
           Around(a, b), WorkIn(a, b), BranchesIn(a, b), Carried(a, b, a2, b2)
    PROVE  BranchesIn(a2, b2)'
<1> SUFFICES ASSUME Calm' PROVE BranchesIn(a2, b2)'
  BY DEF BranchesIn
<1>1. Calm /\ (AgentNext \/ Commits \/ HandlerNext \/ UNCHANGED vars)
  BY CalmStep DEF Sound
<1>2. ASSUME ~Ack, stream = <<>>, frame' = frame, BranchesIn(a, b)'
      PROVE  BranchesIn(a2, b2)'
  <2>1. frame'[H].pc = "idle" /\ a2 = a
    BY <1>2 DEF Sound, HandlerHoldsEvent, Carried
  <2>2. Stage(frame[H], a, b)' = a /\ Stage(frame[H], a2, b2)' = a
    BY <2>1 DEF Stage
  <2>3. Matches(Stage(frame[H], a2, b2))'
    BY <1>2, <2>2 DEF BranchesIn, Matches, In, There
  <2> QED BY <1>2, <2>3 DEF BranchesIn
<1>3. ASSUME ~Ack, stream # <<>>, BranchesIn(a, b)' PROVE BranchesIn(a2, b2)'
  BY <1>3 DEF Carried
<1>4. CASE AgentNext \/ UNCHANGED vars
  <2>1. UNCHANGED <<branch, head, frame>>
    BY <1>4, AgentPublishes DEF Sound, Setting, vars, lab
  <2>2. BranchesIn(a, b)'
    BY <1>1, <2>1, BranchesKept
  <2>3. ~Ack
    BY <2>1, Locals DEF Ack, Sound
  <2> QED BY <1>2, <1>3, <2>1, <2>2, <2>3
<1>5. CASE Commits
  <2>1. BranchesIn(a, b)' /\ frame' = frame
    BY <1>1, <1>5, BranchesCommitted
  <2>2. ~Ack
    BY <2>1, Locals DEF Ack, Sound
  <2> QED BY <1>2, <1>3, <2>1, <2>2
<1>6. CASE Ack
  <2>1. /\ frame[H].pc = "done" /\ frame'[H].pc = "idle" /\ branch' = branch /\ head' = head
        /\ a2 = b
    BY <1>6, Locals DEF Ack, Carried, Sound, lab
  <2>2. Stage(frame[H], a, b) = b /\ Stage(frame[H], a2, b2)' = b
    BY <2>1 DEF Stage
  <2>3. Matches(b)'
    BY <1>1, <2>1, <2>2, MatchesSame DEF BranchesIn
  <2>4. Matches(Stage(frame[H], a2, b2))'
    BY <2>2, <2>3 DEF Matches, In, There
  <2> QED BY <1>1, <2>1, <2>4 DEF BranchesIn
<1>7. CASE HandlerNext /\ ~Ack
  <2>1. BranchesIn(a, b)'
    BY <1>1, <1>7, BranchesTakenUp, BranchesShared, BranchesRemoved DEF HandlerNext
  <2>2. stream # <<>>
    BY <1>7, Locals DEF HandlerNext, HandleCreated, HandleForked, HandleRenamed, HandleDeleted,
          Receives, Shared, AnchorBranch, ReadTree, CreateBranch, InsertRow, InsertManaged,
          RenameRow, DeleteBranch, DeleteRow, Sound, HandlerHoldsEvent
  <2> QED BY <1>3, <1>7, <2>1, <2>2
<1> QED BY <1>1, <1>4, <1>5, <1>6, <1>7

LEMMA BranchedStep ==
    ASSUME OneTenant, Setting, HandlerAlone, TypeOK, HandlerHoldsEvent, RowsOneToOne,
           OthersIdle, RowsThere, TracksBranches, [Next]_vars
    PROVE  TracksBranches'
<1>1. Sound
  BY DEF Sound, TableOK, OneToOne, RowsOneToOne, TypeOK
<1>2. Steps
  BY OnlyTheHandler
<1>3. PICK past, a, b : /\ Replay(past, stream, All) /\ a = past[0] /\ b = After(past, stream)
                        /\ WorkIn(a, b) /\ BranchesIn(a, b)
  BY DEF TracksBranches
<1>4. PICK next, a2, b2 : /\ Replay(next, stream', All')
                          /\ a2 = next[0] /\ b2 = After(next, stream')
                          /\ Carried(a, b, a2, b2)
  BY <1>2, <1>3, PastStep DEF Setting
<1>5. Around(a, b)
  BY <1>3, ReplayAround
<1>6. WorkIn(a2, b2)' /\ BranchesIn(a2, b2)'
  BY <1>1, <1>2, <1>3, <1>4, <1>5, WorkStep, BranchesStep
<1> QED BY <1>4, <1>6 DEF TracksBranches, After

LEMMA BranchedInit ==
    ASSUME Seeded = Repos, Init
    PROVE  TracksBranches
<1>1. PICK past, a, b : /\ Replay(past, stream, All) /\ a = past[0] /\ b = After(past, stream)
                        /\ WorkIn(a, b)
  BY TracksInit DEF Tracks
<1>2. frame[H].pc = "idle" /\ stream = <<>> /\ Len(stream) = 0 /\ All = {}
  BY DEF Init, Idle, Call, H, Goroutines, All
<1>3. Stage(frame[H], a, b) = {}
  BY <1>1, <1>2 DEF Stage, Replay
<1>4. \A r \in Repos : head[r] # None
  BY DEF Init, None
<1>5. \A s \in Derived : There(s) => s.branch = Main
  BY DEF Init, There, Derived
<1>6. Matches({})
  BY <1>5 DEF Matches, In
<1>7. BranchesIn(a, b)
  BY <1>2, <1>3, <1>4, <1>6 DEF BranchesIn
<1> QED BY <1>1, <1>7 DEF TracksBranches

LEMMA BranchedDrained ==
    ASSUME TypeOK, TracksBranches
    PROVE  DrainedBranches
<1> SUFFICES ASSUME Drained, Calm, NEW r \in repos, NEW b \in Branches \ {Main}
             PROVE  branch[r][b] # None <=> \E t \in Tenants : Live(t, [repo |-> r, branch |-> b])
  BY DEF DrainedBranches, Calm
<1> DEFINE s == [repo |-> r, branch |-> b]
<1>1. stream = <<>> /\ frame[H].pc = "idle" /\ Len(stream) = 0
  BY Locals DEF Drained
<1>2. PICK past, old, new : /\ Replay(past, stream, All) /\ old = past[0]
                            /\ BranchesIn(old, new)
  BY DEF TracksBranches
<1>3. Matches(All)
  BY <1>1, <1>2 DEF BranchesIn, Stage, Replay
<1>4. s \in Derived /\ s.repo = r /\ s.branch = b
  BY DEF TypeOK, Derived
<1>5. branch[r][b] # None <=> In(All, s)
  BY <1>3, <1>4 DEF Matches, There
<1>6. In(All, s) <=> \E t \in Tenants : s \in sessions[t]
  BY <1>4 DEF In, All, Name
<1> QED BY <1>5, <1>6 DEF Live

(* Once every event is handled, no handler has stopped half-way, no         *)
(* branch listing failed and no user deleted a branch, the branches are     *)
(* those of the sessions: renames and deletions leave none behind, and      *)
(* every session has got one, in repositories that have a commit to start   *)
(* from, for one tenant, whose branches nobody else's sessions share.       *)
THEOREM HandlerBranchesAll ==
    ASSUME HandlerAlone, Setting, OneTenant, Seeded = Repos
    PROVE  Spec => []DrainedBranches
<1>1. Init => TracksBranches /\ Tracks /\ RowsThere /\ OthersIdle
  BY BranchedInit, TracksInit
<1>2. TracksBranches /\ Tracks /\ RowsThere /\ OthersIdle /\ TypeOK /\ HandlerHoldsEvent
        /\ RowsOneToOne /\ [Next]_vars
        => (TracksBranches /\ Tracks /\ RowsThere /\ OthersIdle)'
  BY BranchedStep, TracksStep, OnlyTheHandler
<1>3. TracksBranches /\ TypeOK => DrainedBranches
  BY BranchedDrained
<1> QED BY <1>1, <1>2, <1>3, TypeCorrect, MappingOneToOne, PTL DEF Spec
=============================================================================
