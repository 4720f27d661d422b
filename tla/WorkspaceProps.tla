--------------------------- MODULE WorkspaceProps ---------------------------
(***************************************************************************)
(* What the session <-> branch mapping promises.                           *)
(***************************************************************************)
EXTENDS WorkspaceMap

Live(t, s)   == s \in sessions[t]
Mapped       == {<<x.t, x.session>> : x \in rows}
Workspaces   == UNION {{<<t, s>> : s \in sessions[t] \cap Derived} : t \in Tenants}
NothingFails == budget["fails"] = MaxFails
NothingBlind == budget["blinds"] = MaxBlinds
NothingCut   == budget["cuts"] = MaxCuts
Drained      == stream = <<>> /\ frame[H] = Idle

(* The mapping is one-to-one within a tenant and every row names the        *)
(* session that its own branch is called after, whichever of the handler,   *)
(* the reconciler and the tool wrote or renamed it (InsertRow, RenameRow).  *)
RowsOneToOne ==
    /\ \A x \in rows : x.session = [repo |-> x.repo, branch |-> x.branch]
    /\ \A x, y \in rows :
         x.t = y.t /\ (x.session = y.session \/ (x.repo = y.repo /\ x.branch = y.branch))
           => x = y

(* Once every lifecycle event is handled, the handler alone has made the    *)
(* mapping equal to the agent's sessions, in spite of handlers that stopped *)
(* half-way and of events delivered again ("redeliveries converge").        *)
DrainedRows == Drained => Mapped = Workspaces

(* The handler alone keeps the promise of Mapping: calls that fail, stop    *)
(* or are made again when the event is delivered again never let an event   *)
(* take effect twice, out of order or only in part (ensureCreated,          *)
(* ensureForked, ensureRenamed, ensureDeleted).  An event has taken effect  *)
(* from the statement that writes the row on.                               *)
Named(e)  == <<e.t, e.name>>
Source(e) == <<e.t, e.from>>
Changed(e) == [gone |-> CASE e.kind = "renamed" -> {Source(e)}
                          [] e.kind = "deleted" -> {Named(e)}
                          [] OTHER              -> {},
               come |-> IF e.kind = "deleted" THEN {} ELSE {Named(e)}]
Changes(events) == [i \in 1..Len(events) |-> Changed(events[i])]
TookEffect(e, mapping) ==
    IF e.kind = "deleted" THEN Named(e) \notin mapping ELSE Named(e) \in mapping
Pending == IF stream # <<>> /\ TookEffect(Event1, Mapped) THEN Tail(stream) ELSE stream
Promise == INSTANCE Mapping WITH
             Names  <- Tenants \X Derived,
             live   <- Workspaces,
             mapped <- Mapped,
             todo   <- Changes(Pending)
RefinesMapping == Promise!Spec

(* Once every event is handled, and if none of the handlers stopped         *)
(* half-way, easylab has exactly the branches of the mapped sessions (and   *)
(* the default branch): renames and deletions leave no branch behind.       *)
DrainedBranches ==
    Drained /\ NothingFails /\ NothingBlind /\ NothingCut =>
      \A r \in repos, b \in Branches \ {Main} :
        branch[r][b] # None <=> \E t \in Tenants : Live(t, [repo |-> r, branch |-> b])

(* A branch that exists is moved by commits only: the handler alone creates *)
(* and removes session branches but never resets one (EnsureBranch).  The   *)
(* default branch is left out: a first commit recreates it on its own.      *)
Kept(r, b) == branch[r][b] # None /\ branch'[r][b] # None /\ budget["commits"]' = budget["commits"]
                => branch'[r][b] = branch[r][b]
BranchesNeverReset == [][\A r \in Repos, b \in Branches \ {Main} : Kept(r, b)]_vars

(* "branch-first order: a crash mid-way leaves an adoptable orphan, never a *)
(* dangling row" (events_sub.go:142-143): with nobody else deleting         *)
(* branches, a row the handler is not working on has its branch.            *)
NoDanglingRow ==
    NothingCut /\ frame[H] = Idle =>
      \A x \in rows : branch[x.repo][x.branch] # None

(* "EnsureBranch creates a branch at src unless it already exists": a       *)
(* CreateBranch call of any goroutine leaves an existing branch alone       *)
(* (client_easylab.go:133).                                                 *)
EnsureBranchOnlyCreates ==
    [][\A p \in Goroutines : frame[p].pc = "create" /\ CreateBranch(p) =>
         Kept(frame[p].name.repo, frame[p].name.branch)]_vars

(* The correctness backstop: when users and the agent have fallen silent    *)
(* and no more failures happen, every workspace session of the listed       *)
(* tenant, in a repository that has a commit, ends up for good with a row,  *)
(* and every row of that tenant in a managed repository with its session    *)
(* and, if the repository has a commit, its branch - whatever events were   *)
(* lost and whichever calls failed before (reconcileOnce).                  *)
RowKept(s)   == \E x \in rows : x.t = Default /\ x.session = s
Anchored(x)  == branch[x.repo][x.branch] # None
Mirrored ==
    /\ \A s \in sessions[Default] \cap Derived : head[s.repo] # None => RowKept(s)
    /\ \A x \in rows : x.t = Default /\ <<x.t, x.repo>> \in managed =>
         Live(x.t, x.session) /\ (head[x.repo] # None => Anchored(x))
Converges == <>[]Mirrored

(* "the correctness backstop for the best-effort lifecycle events - every   *)
(* rule is idempotent" (reconcile.go:11-12): a session that stays comes to  *)
(* have a row that stays, or none, in a repository without a commit too.    *)
Steady == \A s \in Derived : <>[](s \in sessions[Default] => RowKept(s)) \/ <>[]~RowKept(s)

(* "row + session gone (agent-side delete): drop the row"                   *)
(* (reconcile.go:15): in the end no row of the listed tenant is left whose  *)
(* session is gone, even if a call has failed and an event was lost.        *)
GoneRowsDropped == <>[](\A x \in rows : x.t = Default => Live(x.t, x.session))
=============================================================================
