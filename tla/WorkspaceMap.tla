---------------------------- MODULE WorkspaceMap ----------------------------
(***************************************************************************)
(* The repo extension's session <-> branch mapping (internal/ext/repo).    *)
(*                                                                         *)
(* Three goroutines of one process keep the mapping table: the handler of  *)
(* the agent's lifecycle events (events_sub.go), the periodic reconciler   *)
(* (reconcile.go) and the subsession-create tool (tools_vcs.go).  Each     *)
(* remote call or SQL statement they make is one action, so that the       *)
(* actions of the goroutines, of the agent and of easylab's other users    *)
(* interleave between the calls; calls that only read are merged with the  *)
(* next call of the same goroutine when no other actor can tell.           *)
(***************************************************************************)
EXTENDS Integers, Sequences, FiniteSets

CONSTANTS
    Tenants,     \* agent tenants
    Default,     \* the tenant the reconciler lists sessions of
    Repos,       \* repositories, each standing for an (org, repo) pair
    Branches,    \* branch names
    Main,        \* the default branch name
    Plain,       \* session names that are not of the form org:repo:branch
    Seeded,      \* repositories that already have a commit on Main
    Procs,       \* the goroutines that run
    MaxOps,      \* bound: agent operations on sessions
    MaxCommits,  \* bound: commits
    MaxCuts,     \* bound: branches deleted by easylab's own users
    MaxLosses,   \* bound: lifecycle events whose publication fails
    MaxFails,    \* bound: handlers that stop half-way (error or crash)
    MaxBlinds,   \* bound: GetRepoTree calls with a failed Branches call
    MaxTools,    \* bound: subsession-create calls
    MaxTrouble   \* bound: cuts, losses, fails, blinds and tools together

Goroutines == {"handler", "reconciler", "tool"}

ASSUME WorkspaceAssumption ==
    /\ Default \in Tenants
    /\ Repos # {}
    /\ Main \in Branches
    /\ Seeded \subseteq Repos
    /\ Procs \subseteq Goroutines
    /\ {MaxOps, MaxCommits, MaxCuts, MaxLosses, MaxFails, MaxBlinds, MaxTools,
        MaxTrouble} \subseteq Nat

VARIABLES
    sessions,  \* agent: the live sessions of each tenant
    stream,    \* lifecycle events published and not yet acknowledged
    repos,     \* easylab: the repositories that exist
    head,      \* easylab: newest commit of a repository, or None
    branch,    \* easylab: the commit each branch points at, or None
    rows,      \* SQLite session_repos
    managed,   \* SQLite managed_repos
    frame,     \* the locals of the goroutine's current call
    snap,      \* what the reconciler has read in this tick
    budget     \* what is left of each bound

lab  == <<repos, head, branch>>
vars == <<sessions, stream, lab, rows, managed, frame, snap, budget>>

None == -1                      \* no such branch, no commit
RepoHead == "head"              \* easylab resolves "" as the repository head
ASSUME HeadIsNoBranch == RepoHead \notin Branches

Derived == [repo : Repos, branch : Branches]     \* parseSession succeeds
Name    == Derived \cup Plain
Row     == [t : Tenants, repo : Repos, branch : Branches, session : Derived]

Event == [kind : {"created", "forked", "renamed", "deleted"}, t : Tenants,
          name : Name, from : Name]

PC == {"idle", "anchor", "tree", "create", "newsession", "bind", "manage",
       "rename", "delbranch", "delrow", "done", "managed", "drift", "drop"}
Frame == [pc : PC, op : {"created", "forked", "renamed", "deleted",
                         "reconcile", "subsession"},
          t : Tenants, name : Derived, src : Branches \cup {RepoHead},
          from : Derived, kid : SUBSET Derived]
Snap == [listing : SUBSET Name, tree : [Repos -> SUBSET Branches],
         todo : SUBSET (Tenants \X Repos), doomed : SUBSET Row,
         rest : SUBSET Derived]
Kinds  == {"ops", "commits", "cuts", "losses", "fails", "blinds", "tools", "trouble"}
Bound  == [k \in Kinds |-> CASE k = "ops"    -> MaxOps    [] k = "commits" -> MaxCommits
                             [] k = "cuts"   -> MaxCuts   [] k = "losses"  -> MaxLosses
                             [] k = "fails"  -> MaxFails  [] k = "blinds"  -> MaxBlinds
                             [] k = "tools"  -> MaxTools  [] k = "trouble" -> MaxTrouble]

TypeOK ==
    /\ sessions \in [Tenants -> SUBSET Name]
    /\ stream \in Seq(Event)
    /\ repos \subseteq Repos
    /\ head \in [Repos -> Nat \cup {None}]
    /\ branch \in [Repos -> [Branches -> Nat \cup {None}]]
    /\ rows \subseteq Row
    /\ managed \subseteq Tenants \X Repos
    /\ frame \in [Goroutines -> Frame]
    /\ snap \in Snap
    /\ budget \in [Kinds -> Nat]
    /\ \A k \in Kinds : budget[k] <= Bound[k]

(* A name no step reads: what an idle goroutine's locals hold.             *)
NoName == [repo |-> CHOOSE r \in Repos : TRUE, branch |-> Main]
Call(pc, op, t, s) == [pc |-> pc, op |-> op, t |-> t, name |-> s, src |-> Main,
                       from |-> NoName, kid |-> {}]
Idle   == Call("idle", "created", Default, NoName)
NoSnap == [listing |-> {}, tree |-> [r \in Repos |-> {}], todo |-> {},
           doomed |-> {}, rest |-> {}]

Init ==
    /\ sessions = [t \in Tenants |-> {}]
    /\ stream = <<>>
    /\ repos = Seeded
    /\ head = [r \in Repos |-> IF r \in Seeded THEN 0 ELSE None]
    /\ branch = [r \in Repos |->
                   [b \in Branches |-> IF r \in Seeded /\ b = Main THEN 0 ELSE None]]
    /\ rows = {}
    /\ managed = {}
    /\ frame = [p \in Goroutines |-> Idle]
    /\ snap = NoSnap
    /\ budget = Bound

Spend(item)   == /\ budget[item] > 0
                 /\ budget' = [budget EXCEPT ![item] = @ - 1]
Trouble(item) == /\ budget[item] > 0 /\ budget["trouble"] > 0
                 /\ budget' = [budget EXCEPT ![item] = @ - 1, !["trouble"] = @ - 1]

-----------------------------------------------------------------------------
(* The mapping table.  rows has the PRIMARY KEY (tenant, org, repo, branch) *)
(* and UNIQUE (tenant, session_name).                                       *)

GetRow(t, r, b)        == {x \in rows : x.t = t /\ x.repo = r /\ x.branch = b}
AnyTenantsRow(t, s)    == {x \in rows : x.session = s}
GetRowBySession(t, s)  == {x \in rows : x.t = t /\ x.session = s}
BranchNamedRow(t, s)   == [t |-> t, repo |-> s.repo, branch |-> s.branch,
                           session |-> s.branch]
NewRow(t, s)           == [t |-> t, repo |-> s.repo, branch |-> s.branch, session |-> s]
MovedKeepsName(x, s)   == [x EXCEPT !.branch = s.branch]
Moved(x, s)            == [x EXCEPT !.branch = s.branch, !.session = s]
Clash(x, table)        == \E y \in table : /\ y.t = x.t
                                           /\ \/ y.repo = x.repo /\ y.branch = x.branch
                                              \/ y.session = x.session
Unbind(t, r, b)        == rows' = rows \ GetRow(t, r, b)

-----------------------------------------------------------------------------
(* The agent (external): sessions come, go and are renamed; every change is *)
(* published once, best effort.                                             *)

Publish(e) ==
    \/ stream' = Append(stream, e) /\ Spend("ops")
    \/ /\ budget["ops"] > 0 /\ budget["losses"] > 0 /\ budget["trouble"] > 0
       /\ budget' = [k \in Kinds |-> IF k \in {"ops", "losses", "trouble"}
                                     THEN budget[k] - 1 ELSE budget[k]]
       /\ UNCHANGED stream

Lifecycle(kind, t, s, from) == [kind |-> kind, t |-> t, name |-> s, from |-> from]

AgentCreate(t, s) ==
    /\ s \notin sessions[t]
    /\ sessions' = [sessions EXCEPT ![t] = @ \cup {s}]
    /\ Publish(Lifecycle("created", t, s, s))
    /\ UNCHANGED <<lab, rows, managed, frame, snap>>

AgentFork(t, parent, s) ==
    /\ parent \in sessions[t] /\ s \notin sessions[t]
    /\ sessions' = [sessions EXCEPT ![t] = @ \cup {s}]
    /\ Publish(Lifecycle("forked", t, s, parent))
    /\ UNCHANGED <<lab, rows, managed, frame, snap>>

AgentRename(t, from, s) ==
    /\ from \in sessions[t] /\ s \notin sessions[t]
    /\ sessions' = [sessions EXCEPT ![t] = (@ \ {from}) \cup {s}]
    /\ Publish(Lifecycle("renamed", t, s, from))
    /\ UNCHANGED <<lab, rows, managed, frame, snap>>

AgentDelete(t, s) ==
    /\ s \in sessions[t]
    /\ sessions' = [sessions EXCEPT ![t] = @ \ {s}]
    /\ Publish(Lifecycle("deleted", t, s, s))
    /\ UNCHANGED <<lab, rows, managed, frame, snap>>

-----------------------------------------------------------------------------
(* easylab's other users.                                                   *)

\* A commit moves an existing branch; only the default branch is created on
\* demand (applyFileChanges).
Commit(r, b) ==
    /\ r \in repos
    /\ branch[r][b] # None \/ b = Main
    /\ Spend("commits")
    /\ LET c == MaxCommits - budget["commits"] + 1
       IN  /\ branch' = [branch EXCEPT ![r][b] = c]
           /\ head' = [head EXCEPT ![r] = c]
    /\ UNCHANGED <<sessions, stream, repos, rows, managed, frame, snap>>

UserDeleteBranch(r, b) ==
    /\ branch[r][b] # None
    /\ Trouble("cuts")
    /\ branch' = [branch EXCEPT ![r][b] = None]
    /\ UNCHANGED <<sessions, stream, repos, head, rows, managed, frame, snap>>

-----------------------------------------------------------------------------
(* Steps the goroutines share: ensureCreated, EnsureBranch and bindRow.     *)

Step(p, f)   == frame' = [frame EXCEPT ![p] = f]
Goto(p, pc)  == Step(p, [frame[p] EXCEPT !.pc = pc])

Done         == [Idle EXCEPT !.pc = "done"]

\* What follows EnsureBranch, and what follows bindRow: a fork whose parent
\* had to be materialized first goes on with the child.
AfterBranch(f) == CASE f.op = "renamed"    -> "rename"
                    [] f.op = "subsession" -> "newsession"
                    [] OTHER               -> "bind"
AfterBind(f) ==
    IF f.kid = {} THEN Done
    ELSE [f EXCEPT !.pc = "tree", !.name = CHOOSE s \in f.kid : TRUE,
                   !.src = f.name.branch, !.kid = {}]

AfterInsert(f) == [f EXCEPT !.pc = "manage"]

\* ensureCreated: "already mirrored", or the first remote call.
EnsureCreated(p, f) ==
    Step(p, IF GetRowBySession(f.t, f.name) # {} THEN AfterBind(f)
            ELSE [f EXCEPT !.pc = "anchor"])

\* EnsureRepo, then ensureBranchAnchored's CanResolve("main").
AnchorBranch(p) ==
    LET f == frame[p]
    IN  /\ f.pc = "anchor"
        /\ repos' = repos \cup {f.name.repo}
        /\ Step(p, [f EXCEPT !.pc = "tree",
                             !.src = IF branch[f.name.repo][Main] # None
                                     THEN Main ELSE RepoHead])
        /\ UNCHANGED <<sessions, stream, head, branch, rows, managed, snap, budget>>

NeverListed(r, b) == FALSE
Listed(r, b)      == branch[r][b] # None

\* EnsureBranch reads the tree: the branch is there, or is to be created, or
\* the repository is missing (404: the call fails for good).
ReadTree(p) ==
    LET f == frame[p]
        present == Listed(f.name.repo, f.name.branch)
    IN  /\ f.pc = "tree"
        /\ \/ f.name.repo \notin repos /\ Step(p, Done)
           \/ /\ f.name.repo \in repos
              /\ Goto(p, IF present THEN AfterBranch(f) ELSE "create")
        /\ UNCHANGED <<sessions, stream, lab, rows, managed, snap, budget>>

\* GetRepoTree swallows a failing Branches call: the repository then looks
\* as if it had no branch at all.
ReadTreeBlind(p) ==
    /\ frame[p].pc = "tree"
    /\ branch[frame[p].name.repo][frame[p].name.branch] # None
    /\ Trouble("blinds")
    /\ Goto(p, "create")
    /\ UNCHANGED <<sessions, stream, lab, rows, managed, snap>>

\* The CreateBranch call.  The server sets the ref whether or not it exists;
\* a source that does not resolve is InvalidArgument, which the client takes
\* for success.
CreateBranch(p) ==
    LET f   == frame[p]
        r   == f.name.repo
        pos == IF f.src = RepoHead THEN head[r] ELSE branch[r][f.src]
    IN  /\ f.pc = "create"
        /\ branch' = IF pos = None THEN branch
                     ELSE [branch EXCEPT ![r][f.name.branch] = pos]
        /\ Goto(p, AfterBranch(f))
        /\ UNCHANGED <<sessions, stream, repos, head, rows, managed, snap, budget>>

\* bindRow: the row, then the managed mark; a conflict means another path
\* has won and ends the call.
InsertRow(p) ==
    LET f == frame[p]
        x == NewRow(f.t, f.name)
    IN  /\ f.pc = "bind"
        /\ \/ /\ Clash(x, rows)
              /\ Step(p, AfterBind(f))
              /\ UNCHANGED rows
           \/ /\ ~Clash(x, rows)
              /\ rows' = rows \cup {x}
              /\ Step(p, AfterInsert(f))
        /\ UNCHANGED <<sessions, stream, lab, managed, snap, budget>>

InsertManaged(p) ==
    LET f == frame[p]
    IN  /\ f.pc = "manage"
        /\ managed' = managed \cup {<<f.t, f.name.repo>>}
        /\ Step(p, AfterBind(f))
        /\ UNCHANGED <<sessions, stream, lab, rows, snap, budget>>

Shared(p) == \/ AnchorBranch(p) \/ ReadTree(p) \/ CreateBranch(p)
             \/ InsertRow(p) \/ InsertManaged(p)

-----------------------------------------------------------------------------
(* The lifecycle handler: one event at a time, the oldest first, until it   *)
(* has been acknowledged.  An event the handler refuses (errBad) is         *)
(* acknowledged without effect.                                             *)

H == "handler"
Event1 == stream[1]
Receives(kind) == /\ H \in Procs
                  /\ frame[H].pc = "idle"
                  /\ stream # <<>> /\ Event1.kind = kind
Reads == UNCHANGED <<sessions, stream, lab, rows, managed, snap, budget>>

HandleCreated ==
    /\ Receives("created")
    /\ \/ Event1.name \notin Derived /\ Step(H, Done)
       \/ /\ Event1.name \in Derived
          /\ EnsureCreated(H, Call("idle", "created", Event1.t, Event1.name))
    /\ Reads

\* A fork of an unmapped parent materializes the parent first; a parent that
\* is no workspace session anchors the fork at main; a fork across
\* repositories is refused.
HandleForked ==
    LET s        == Event1.name
        parent   == Event1.from
        accepted == /\ s \in Derived /\ GetRowBySession(Event1.t, s) = {}
                    /\ parent \in Derived => parent.repo = s.repo
        orphan   == /\ parent \in Derived
                    /\ GetRow(Event1.t, parent.repo, parent.branch) = {}
    IN  /\ Receives("forked")
        /\ \/ ~accepted /\ Step(H, Done)
           \/ /\ accepted /\ ~orphan
              /\ Step(H, [Call("tree", "forked", Event1.t, s) EXCEPT
                            !.src = IF parent \in Derived THEN parent.branch ELSE Main])
           \/ /\ accepted /\ orphan
              /\ EnsureCreated(H, [Call("idle", "forked", Event1.t, parent)
                                     EXCEPT !.kid = {s}])
        /\ Reads

HandleRenamed ==
    LET s        == Event1.name
        from     == Event1.from
        accepted == s \in Derived /\ from \in Derived /\ s.repo = from.repo
        known    == accepted /\ GetRow(Event1.t, from.repo, from.branch) # {}
    IN  /\ Receives("renamed")
        /\ \/ ~accepted /\ Step(H, Done)
           \/ /\ accepted /\ ~known
              /\ EnsureCreated(H, Call("idle", "created", Event1.t, s))
           \/ /\ accepted /\ known
              /\ Step(H, [Call("tree", "renamed", Event1.t, s) EXCEPT
                            !.src = from.branch, !.from = from])
        /\ Reads

HandleDeleted ==
    LET s     == Event1.name
        known == s \in Derived /\ GetRowBySession(Event1.t, s) # {}
    IN  /\ Receives("deleted")
        /\ \/ ~known /\ Step(H, Done)
           \/ known /\ Step(H, Call("delbranch", "deleted", Event1.t, s))
        /\ Reads

\* The row moves to the new branch and session name.  No row: the error is
\* reported as transient and the event comes again.  A conflict: "concurrent
\* rename already won", and the old branch stays.
RenameRow ==
    LET f   == frame[H]
        old == GetRow(f.t, f.from.repo, f.from.branch)
        new == {Moved(x, f.name) : x \in old}
        clash == \E x \in new : Clash(x, rows \ old)
    IN  /\ f.pc = "rename"
        /\ \/ /\ old = {}
              /\ Step(H, Idle)
              /\ UNCHANGED rows
           \/ /\ old # {} /\ clash
              /\ Step(H, Done)
              /\ UNCHANGED rows
           \/ /\ old # {} /\ ~clash
              /\ rows' = (rows \ old) \cup new
              /\ Goto(H, "delbranch")
        /\ UNCHANGED <<sessions, stream, lab, managed, snap, budget>>

\* The branch that ensureDeleted and ensureRenamed remove.
NewBranch(f)   == f.name
OldBranch(f)   == IF f.op = "renamed" THEN f.from ELSE f.name
BranchOnly(f)  == Done
AfterDelete(f) == IF f.op = "renamed" THEN Done ELSE [f EXCEPT !.pc = "delrow"]

DeleteBranch ==
    LET f == frame[H]
    IN  /\ f.pc = "delbranch"
        /\ branch' = [branch EXCEPT ![OldBranch(f).repo][OldBranch(f).branch] = None]
        /\ Step(H, AfterDelete(f))
        /\ UNCHANGED <<sessions, stream, repos, head, rows, managed, snap, budget>>

\* With the repository's Branches call failing, the branch looks absent and
\* the deletion counts as done.
DeleteBranchBlind ==
    /\ frame[H].pc = "delbranch"
    /\ Trouble("blinds")
    /\ Step(H, AfterDelete(frame[H]))
    /\ UNCHANGED <<sessions, stream, lab, rows, managed, snap>>

DeleteRow ==
    LET f == frame[H]
    IN  /\ f.pc = "delrow"
        /\ Unbind(f.t, f.name.repo, f.name.branch)
        /\ Step(H, Done)
        /\ UNCHANGED <<sessions, stream, lab, managed, snap, budget>>

Ack ==
    /\ frame[H].pc = "done"
    /\ stream' = Tail(stream)
    /\ Step(H, Idle)
    /\ UNCHANGED <<sessions, lab, rows, managed, snap, budget>>

HandlerNext ==
    \/ HandleCreated \/ HandleForked \/ HandleRenamed \/ HandleDeleted
    \/ Shared(H) \/ RenameRow \/ DeleteBranch \/ DeleteRow \/ Ack

-----------------------------------------------------------------------------
(* The reconciler: list the sessions, drop the rows that have lost their    *)
(* branch or session, then backfill.                                        *)

R == "reconciler"
Branched(r) == {b \in Branches : branch[r][b] # None}

\* The session listing is the agent's answer for one tenant only.
ListSessions ==
    /\ R \in Procs
    /\ frame[R].pc = "idle"
    /\ snap' = [NoSnap EXCEPT !.listing = sessions[Default]]
    /\ Goto(R, "managed")
    /\ UNCHANGED <<sessions, stream, lab, rows, managed, budget>>

\* ListManaged and GetRepoTree; blind: one repository's Branches call failed.
LoadTree(blind) ==
    /\ frame[R].pc = "managed"
    /\ snap' = [snap EXCEPT !.todo = managed,
                  !.tree = [r \in Repos |-> IF r \in blind THEN {} ELSE Branched(r)]]
    /\ Goto(R, "drift")
    /\ UNCHANGED <<sessions, stream, lab, rows, managed>>

ReadManaged      == LoadTree({}) /\ UNCHANGED budget
ReadManagedBlind == \E r \in repos : LoadTree({r}) /\ Trouble("blinds")

\* ListRowsForRepo of one managed repository, and the rows the switch dooms.
BranchGone(x) == x.branch \notin snap.tree[x.repo]
Drifted(x) == BranchGone(x) \/ x.session \notin snap.listing
ConvergeRepo ==
    /\ frame[R].pc = "drift"
    /\ \E m \in snap.todo :
         LET doomed == {x \in rows : <<x.t, x.repo>> = m /\ Drifted(x)}
         IN  /\ snap' = [snap EXCEPT !.todo = @ \ {m}, !.doomed = doomed]
             /\ IF doomed = {} THEN UNCHANGED frame ELSE Goto(R, "drop")
    /\ UNCHANGED <<sessions, stream, lab, rows, managed, budget>>

DropRow ==
    /\ frame[R].pc = "drop"
    /\ \E x \in snap.doomed :
         /\ Unbind(x.t, x.repo, x.branch)
         /\ snap' = [snap EXCEPT !.doomed = @ \ {x}]
         /\ IF snap.doomed = {x} THEN Goto(R, "drift") ELSE UNCHANGED frame
    /\ UNCHANGED <<sessions, stream, lab, managed, budget>>

\* backfillWorkspaces looks the bare name up among tenant-qualified keys, so
\* no listed session counts as mapped: ensureCreated runs for every one.
StartBackfill ==
    /\ frame[R].pc = "drift" /\ snap.todo = {}
    /\ snap' = [NoSnap EXCEPT !.rest = snap.listing \cap Derived]
    /\ Step(R, Done)
    /\ UNCHANGED <<sessions, stream, lab, rows, managed, budget>>

Backfill ==
    /\ frame[R].pc = "done"
    /\ \/ /\ snap.rest = {}
          /\ Step(R, Idle)
          /\ UNCHANGED snap
       \/ \E s \in snap.rest :
            /\ snap' = [snap EXCEPT !.rest = @ \ {s}]
            /\ EnsureCreated(R, Call("idle", "reconcile", Default, s))
    /\ UNCHANGED <<sessions, stream, lab, rows, managed, budget>>

ReconcilerNext == \/ ListSessions \/ ReadManaged \/ ConvergeRepo \/ DropRow
                  \/ StartBackfill \/ Backfill \/ Shared(R)

-----------------------------------------------------------------------------
(* The subsession-create tool, called by the session of a repository's      *)
(* default branch.                                                          *)

T == "tool"

SubsessionCreate(t, s) ==
    /\ T \in Procs
    /\ frame[T].pc = "idle"
    /\ GetRow(t, s.repo, Main) # {}
    /\ branch[s.repo][s.branch] = None
    /\ s \notin sessions[Default]
    /\ Trouble("tools")
    /\ Step(T, Call("tree", "subsession", t, s))
    /\ UNCHANGED <<sessions, stream, lab, rows, managed, snap>>

\* The agent publishes "created" for a new session; an existing one is
\* success.
CreateRepoSession ==
    LET s == frame[T].name
    IN  /\ frame[T].pc = "newsession"
        /\ Goto(T, "bind")
        /\ \/ s \in sessions[Default] /\ UNCHANGED <<sessions, stream, budget>>
           \/ /\ s \notin sessions[Default]
              /\ sessions' = [sessions EXCEPT ![Default] = @ \cup {s}]
              /\ \/ /\ stream' = Append(stream, Lifecycle("created", Default, s, s))
                    /\ UNCHANGED budget
                 \/ UNCHANGED stream /\ Trouble("losses")
        /\ UNCHANGED <<lab, rows, managed, snap>>

ToolReturns ==
    /\ frame[T].pc = "done"
    /\ Step(T, Idle)
    /\ UNCHANGED <<sessions, stream, lab, rows, managed, snap, budget>>

ToolNext == CreateRepoSession \/ ToolReturns \/ Shared(T)

-----------------------------------------------------------------------------
(* A call that fails, or the process that stops: the goroutine's locals are *)
(* lost, the store, easylab, the agent and the unacknowledged event stay.   *)
(* At "done" this is an acknowledgement that is lost.                       *)
Fail(p) ==
    /\ frame[p].pc # "idle"
    /\ Trouble("fails")
    /\ Step(p, Idle)
    /\ snap' = IF p = R THEN NoSnap ELSE snap
    /\ UNCHANGED <<sessions, stream, lab, rows, managed>>

AgentNext ==
    \E t \in Tenants, s \in Name :
      \/ AgentCreate(t, s)
      \/ AgentDelete(t, s)
      \/ \E from \in Name : AgentFork(t, from, s) \/ AgentRename(t, from, s)

UserNext ==
    \/ \E r \in Repos, b \in Branches : Commit(r, b) \/ UserDeleteBranch(r, b)
    \/ \E t \in Tenants, s \in Derived : SubsessionCreate(t, s)

FaultNext ==
    \/ \E p \in Goroutines : ReadTreeBlind(p) \/ Fail(p)
    \/ DeleteBranchBlind \/ ReadManagedBlind

Next == AgentNext \/ UserNext \/ HandlerNext \/ ReconcilerNext \/ ToolNext \/ FaultNext

Spec == Init /\ [][Next]_vars

(* The goroutines of a running process keep running; nobody has to use the  *)
(* system and nothing has to fail.                                          *)
FairSpec == Spec /\ WF_vars(HandlerNext) /\ WF_vars(ReconcilerNext) /\ WF_vars(ToolNext)
=============================================================================
