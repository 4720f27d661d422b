# TLA+ models of easylab

easylab is a code lab around the easyvcs version store: repositories, merge
requests, mirrors, an artifact registry, CI workflows, sandboxes and services on
Kubernetes, and a gateway to the abcp agent. Two agent extensions belong to it.
The *repo extension* keeps each agent session named `org:repo:branch` equal to a
branch. The *ops extension* gives sessions a sandbox and deploys their services.

This directory models the parts of easylab where several goroutines, calls or
processes work on the same state, checks them with TLC on small instances, and
proves the main invariants with TLAPS for every value of the constants. Line
numbers are those of `src/`.

## Inventory

| Component | State it keeps | Operations | What makes it hard | What makes it correct |
|---|---|---|---|---|
| Session-branch mapping (`internal/ext/repo`) | SQLite tables `session_repos`, `managed_repos` | handler of created, forked, renamed, deleted events; reconciler every tick; `subsession-create` | three goroutines, no lock; every step is a remote call that may fail; lost and repeated events; stale listings | table one-to-one; follows the sessions once events are handled; convergence |
| Repositories, branches, files (`connlab*.go`, `lab_helpers.go`, `main.go`) | snapshots and refs in the version store | write and delete files, amend, rebase, move, branches, tags, refs, commit and fetch over REST | read ref, commit, set ref, with nothing locked; a target is a name, a revision or a hash | a write nobody raced stays; branches that no client pointed elsewhere resolve and are independent; clones are complete |
| Merge requests (`connlab_mr.go`, `merge_core.go`) | state of each request | create, update, merge | merge and state are two steps, neither checks the other | the merge is of what was asked |
| Mirrors (`mirror_sched.go`, `connlab_extra.go`) | last pushed target, last sync | loop, manual sync, set, delete | loop and users side by side | a mirror that looks clean is clean |
| CI run (`internal/ci/scheduler.go`, `ci.go`, `connworkflow.go`) | run and job states in memory | run a workflow, cancel, query | walk over a DAG in passes; cancel at any time; invalid workflows | needs first; right outcome; nothing runs twice; it ends |
| CI job log hub (`runbus.go`) | bounded tail, subscribers, terminal state of each job | Log, Finish, Subscribe, cancel | bounded channels, a plain send under a mutex, readers that stop reading | order, no gaps, the job never waits, streams end |
| CI job backend (`backend_k8s.go`, `k8s/job.go`, `k8s/build.go`) | pod of a job | run a job, build an image, publish | partial failure, worker restarts, clean-up | no pod is left; success means that every command ran, in the tree |
| Workflow store, runner registry (`connworkflow.go`, `registry.go`) | maps in memory | create, load from file; register, heartbeat, match | ids chosen by files | - |
| Managed sandbox (`connsandbox.go`, `sandboxsync.go`, `k8s/sandbox.go`, `sbxreg`) | registry row, pod, Service, worker's workspace | launch, sync, delete, list | four places of state, no lock per sandbox, worker restarts, calls that stop half-way | the row's token is the pod's; a skipped sync was not needed; a deleted sandbox is gone |
| Sandbox tools (`internal/ext/ops`) | the session's file in the workspace; 30 s workspace cache | create, run, read, edit, write, download, port, jobs | a sync in front of every tool wipes the workspace | what a tool wrote stays |
| External sandbox (`connsandbox.go:530-670`) | registry row; token at the worker | register, release, sync, list | two systems, no transaction, overlapping calls of one name or worker | what is listed can be reached unless a release revoked a token it shares; a recorded sync was one |
| Services (`connops.go`, `deploy_tools.go`, `internal/ops`, `k8s/service.go`) | Deployment, Service, proxy | launch, scale, delete, list, `service-deploy` | create-or-update in steps, read-modify-write of a whole object | an answered call has done what it says; a scale changes only replicas |
| Users, tokens, bootstrap (`connuser.go`, `user_admin.go`, `bootstrap*.go`, `authn.go`, `connagent.go`) | rows, tokens, agent tenants | create, disable, enable, delete, mint, revoke, forward, start-up | two systems, four steps to create, restarts | row and tenant agree; a disabled or deleted user is out everywhere |
| Session cache (`sessions_http.go`), sandbox image (`sbximage_k8s.go`), artifact registry, releases and archives, clients | little, or another library's | - | - | see "Not modelled" |

How they interact: the agent publishes lifecycle events to the repo extension,
which calls easylab's LabService for branches; users and the agents' tools commit
to those branches through the same service. Mirrors and merge requests read and
move the same refs. The CI scheduler calls the job backend and the log hub;
RunJobLog streams read the hub; the backend and the services share one Kubernetes
namespace. LaunchSandbox goes through the image build, Kubernetes, the registry
and then the worker; the sandbox tools of the ops extension call the sandbox
service for every action. The gateway authenticates a user and forwards the call
with the secret of that user's tenant.

`PROJECT.json` lists all components with their status, the hazards of this code,
each at its line, with the properties that cover it or the reason why none does,
and for every definition the lines it models.

## Modules

| Module | Models | Composition |
|---|---|---|
| `WorkspaceMap`, `WorkspaceProps` | the repo extension's mapping with agent, users and faults; its properties | `WorkspaceProps` EXTENDS `WorkspaceMap`; the handler alone implements `Mapping` |
| `Mapping` | what the handler promises of the mapping, without calls, tables and deliveries | |
| `Lab` | one repository: snapshots, refs, calls, a merge request, a push mirror | |
| `History` | graph and clone of a repository | EXTENDS `Lab` |
| `CIRun` | one workflow run and CancelRun | implements `DagRun` |
| `DagRun` | what a run promises, without passes and positions | |
| `JobLogHub` | one job's log and its streams | |
| `Sandbox` | one managed sandbox and the calls on it | |
| `Tools` | the ops extension's sandbox tools | EXTENDS `Sandbox` |
| `Services` | Deployments and Services, and the calls on them | |
| `Cluster` | jobs and their pods beside the services, crashes | EXTENDS `Services` |
| `Accounts` | users, tokens and agent tenants | |
| `External` | external workers and their registrations | |
| `WorkspaceMapProofs`, `LabProofs`, `CIRunProofs`, `JobLogHubProofs`, `ToolsProofs`, `ClusterProofs`, `AccountsProofs`, `ExternalProofs` | theorems | each EXTENDS the module of its name (or its properties) and TLAPS; `ToolsProofs` has those of `Sandbox` too |
| `MC...` | model values, symmetry and constraints for TLC | each EXTENDS the module of its name |

Throughout, one action is one remote call, SQL statement, store call or critical
section, with the locals that the code carries from one to the next. Reads with no
effect are merged with the call after them where no other actor can tell. Every
action that can fail has a way to fail, bounded by a constant.

### WorkspaceMap

`rows` and `managed` are the SQLite tables, `sessions` and `stream` the agent,
`repos`, `head` and `branch` easylab's refs (a commit is a number). `frame[p]`
holds the locals of goroutine p's current call and the remote call or statement it
is about to make; `snap` is what the reconciler has read in this tick.

- `HandleCreated`, `HandleForked`, `HandleRenamed`, `HandleDeleted` are the entry
  of `ensureCreated`, `ensureForked`, `ensureRenamed`, `ensureDeleted`
  (`events_sub.go:55-164`) with their early returns. `AnchorBranch`, `ReadTree`,
  `CreateBranch` are `ensureBranchAnchored` and `EnsureBranch`; `InsertRow` and
  `InsertManaged` are `bindRow`; then `RenameRow`, `DeleteBranch`, `DeleteRow`.
  `Ack` is the subscription's acknowledgement. A permanent error is acknowledged,
  a transient one brings the event back.
- `ListSessions`, `ReadManaged`, `ConvergeRepo`, `DropRow`, `StartBackfill`,
  `Backfill` are one `reconcileOnce` (`reconcile.go`). The backfill looks bare
  names up among tenant-qualified keys (`reconcile.go:150-153`), so it calls
  `ensureCreated` for every session listed; the model does the same.
- `SubsessionCreate`, `CreateRepoSession` and the shared steps are the tool.
- `Listed` is `branchExists` over a tree in which a failed `Branches` call of one
  repository makes it look empty (`client_easylab.go:86-90`): the `...Blind`
  actions. `CreateBranch` sets the ref unconditionally, as the server does
  (`connlab.go:390`).
- `Fail(p)` is a failing call or a stopped process, at any point: locals are lost,
  the stores and the unacknowledged event stay.
- The agent is external: a session operation and its best-effort event (`Publish`
  may lose it). Authorisation is granted throughout.
- `Mapping` is the promise of the handler ("redeliveries converge"): sessions come, go
  and change their names, and the mapping follows these changes one at a time, each once
  and in their order. `RefinesMapping` takes the rows for the mapping and the stream for
  the changes still to follow, without the oldest event when it has taken effect
  (`TookEffect`) and waits for its acknowledgement only.

### Lab and History

`snaps` holds the snapshots, oldest first; a hash is a position in it. A snapshot
belongs to a revision, whose id stays when it is amended or rebased, so that
`RevHash` is its youngest snapshot. A ref's target is a hash, a revision or a name,
as `Resolve` reads it (`lab_helpers.go`). A file is the set of the calls whose text
it contains, which tells who overwrote whom.

- Writers read the ref, commit on top of what they read and set the ref, in two or
  three steps: `WriteFiles`, `WriteBlob`, `PostCommit` and the tools `EditTool` and
  `EditOpens` open them, `WriteLands` ends them, and `WriteDetached` is a call that
  stops between commit and SetRef. A REST commit may name its parent, and the revision
  it is to be a snapshot of (`PostRecommit`, `RecommitLands`; with no parent it amends).
  `PostTree` is its other form, which stores a tree and moves no ref. Amend and rebase
  move a revision instead. Amending a branch whose target is a hash is refused, as in the
  code. Tree commits and rebases name up to `MaxParents` parents.
- `MovesRefs`: branches, tags and refs are made, moved and deleted. `DeleteRef` stands
  for DeleteBranch, DeleteTag and the REST handler. `SetTag` and the REST handler's
  `PostRef` store any target, unresolved and unchecked: a hash, a revision, a name, or a
  string that is nothing; with `PostRef` a branch name may also become a tag and the
  other way round. `given` remembers the targets that clients have named over REST,
  other than hashes of snapshots. Names are bounded to chains of two refs that lead
  somewhere (`NamesEnd`): on a ring of names `resolveRefAny` would not return. A stored
  "@" or "@-", which moves with the newest revision, is left out.
- `Requests`: `CreateMergeRequest`, `UpdateMergeRequest`, `MergeMergeRequest` and
  `MergeLands`, and the tools on top. MergeMergeRequest commits the merge and sets
  the state; no ref moves to it.
- `Mirrors`: `LoopPushes` and `SyncMirror` read target and record, `PushSent` is
  the push, `PushRecorded` stores what was read before it.
- `History` adds Graph (`Visit` and `Thru`: a revision behind all its parents, in their
  order; `Listed`: the revisions, from the newest start on) and `Fetch`: the walk of
  `changeSetWithAncestors`, the external `transfer.Collect`, and `filterBundle`,
  which returns everything once nothing that was wanted remains.

The version store is external: commit, amend, rebase (onto the first of its parents),
merge base (the first parent of the target) and revision ids are modelled by what the
callers rely on. Left out: pull mirrors, Drop, Squash, Revert, RebaseMany, Resolve,
handlePush, requests between forks, line edits other than insertions, the notification
of the target's session after `vcs-mr-create`.

### CIRun and DagRun

The state is a `Run` (`ci.go:122-133`) and the locals of the goroutine that
`runAsync` starts. Each critical section of `Run.mu` is an action. The workflow is
any that the parser accepts: cyclic or unknown needs, duplicate ids, no jobs.
`StartJob`, `JobSucceeds`, `JobFails`, `EndPass` are the passes of `walk`
(`scheduler.go:113-163`), `Record` the end of `Run`, `CloseLog` the loop of
`runAsync`, `CancelRun` the handler. `SetJobState` changes the first instance of
an id and `byDef` keeps the last, as in the code.

`DagRun` is the promise: one ready job at a time, none after a failure, and an end
only on a failure or when nothing that is left can ever start. The mapping
(`RefinesDagRun`) takes a job id to the state of the instance `SetJobState` changes
and `over` to the walk's having its result; passes, positions and CancelRun do not
show.

### JobLogHub

One `jobLog` and its subscribers. A line is its number; the terminal event is 0.
The mutex is held for one action, except by a `Subscribe` that waits to send the
terminal event (`runbus.go:93`): `lock` is then its reader, and every action that
takes the mutex waits.

### Sandbox and Tools

One sandbox name: the registry row, the pod (token, boot id, workspace), the
Service, and calls that are each at some step of `LaunchSandbox`
(`connsandbox.go:135-219` with `k8s/sandbox.go:69-239`), `SyncWorkspace` or
`DeleteSandbox`; `Shown` is one entry of ListSandboxes. A token is named after the
call that minted it. A tree is the content of the branch and is identified by its
hash, so that a revert brings an old one back. `Restart` is Kubernetes restarting
the worker: new boot id, empty workspace. A deleted pod is on its way out (`dying`)
until the kubelet is done (`Gone`); until then its worker may answer or not.
`latest`, `overlap` and `dropped` are history variables.

What the code swallows, the model goes on after: a deletion whose Service could not be
deleted (`Teardown`, kept in `dropped`) or whose row could not (`Drop`) answers Ok; a
launch whose wait for the old pod ran out (`k8s/sandbox.go:271`) tries to create the new one
(`CreatePod` then fails); a boot id that cannot be read in 3 s (`MissBoot`) or a row
that cannot be read (`MissRow`) leads to a push. A failed export whose error says "not
found" (`Missing`), like a missing row, leaves a call "absent", which the tools'
`ensureSynced` takes for success (`Passed`).

`Tools` puts the ops extension on top: a tool call syncs first (`Synced` tools),
acts, and may commit what it read (`Land`, sandbox-port). `work` is the session's
file in the workspace; each step of `Sandbox` is taken together with what it does
to `work`.

`Exclusive` is the set of calls that users do not make at the same time; the runs
keep launches and deletions apart, because two launches at once leave a registry
token that is not the pod's (the code takes no lock) and no property could hold.
Syncs interleave with everything. A push is one step: a worker that finishes a push
after its caller's timeout is left out, as are what a job writes after its tool has
answered, a create request whose answer is lost, the job counts of a listing, the
background watches, and the 30 s workspace cache, whose revision SyncWorkspace only
requires to be there. "Not found" errors of the worker's own are left out; those of the
registry and of the repository are not.

### Services and Cluster

`deps` and `svcs` are the Deployments and Services of the namespace, with the
resource version that makes an update of an old copy fail. A launch is `Configure`
(refused ports, the proxy's objects), `CreateDeployment` or get and update, and
`CreateService`; a scale reads the Deployment, changes the replicas and writes the
whole object back; a deletion goes service first. `DeployTool` is `service-deploy`
with its owner check. `claims` records what the last call that met no other on its
service promised; `Listed(s)` is service-list. `kept` marks a launch that found a
Service and left it as it was, with the ports it has.

`Cluster` adds the jobs of `backend_k8s.go`: a job of steps, an image build or a
publication, in a pod of its own, from `StartJob` over the sync of its tree
and its commands to `DeletePod`, deferred only after LaunchSandbox has returned
(`job.go:72`). `Sources` is what a job's workspace is to hold: its branch's tree, nothing
(a job of steps without a repository is not synced), an empty directory (a build without
one), or the directory that `produce.context` names. `Restart` is a worker's, `Crash` the
server's. `excused` marks jobs whose pod nobody can be expected to remove (below). Left
out: a pod whose create request was answered with an error and still took effect, the
content of the proxy's objects, `canSeeService` and the filters of service-list.

### Accounts

`users` and `tokens` are rows of the store, `agent` the tenants. CreateUser makes row,
token, tenant and binding in four steps; DeleteUser removes the tenant and then the row;
UpdateUser passes on only a disabling; neither does so where `admin` (the agent's admin
service is configured) is false. `Authenticated`, `ActsFor` (the loopback owner) and
`ForwardSecret` lead a session call to a tenant (`Ask`, `Send`). The code swallows a
lookup of the binding that fails: `MissBinding` goes on to the row alone, and
`SendUnbound` sends the call with the deployment's token. `Restart` ends the calls and
runs both bootstraps. Assumed of the external parts: ids are not reused, and the agent
refuses a tenant it has; deleting one it does not have may or may not be refused, and
tokens of deleted users may stay. Left out: display names, listings, repository roles.

### External

`worker` is each worker's token, boot id and workspace, `rows` the registrations by
name. A registration claims the worker (or brings a token), verifies and saves the
row; a release revokes the token that the row had and drops the row that is there by
then; a sync reads the boot id, pushes and marks. A worker starts with a token or with
an enrollment code; `shared` are the tokens given to a registration while another has
them, `revoked` those a release took back. `Breaks` and `AnswerLost` are
calls that fail before or after their effect. Tokens and boot ids are pairs of the
worker and a number. Launches under an external name are not modelled.

## Runs

| Run | Instance | Result |
|---|---|---|
| `WorkspaceEvents` | handler only; 1 repository, 3 branches, 4 agent operations, 1 commit, 1 deleted branch, 2 failures (2 troubles in all); symmetric branch names | passes, 404,224 states |
| `WorkspaceConverge` | 2 tenants, a repository without a commit; handler, reconciler, tool; 2 branches, a plain session name, 2 operations, 1 commit, one of: deleted branch, lost event, failure, blind listing, tool call | passes, 1,451,533 states |
| `Lab` | 3 calls of any kind, 2 branches (either name can become a tag), 1 file, 1 destination, 1 failure, up to 1 parent; symmetric calls | passes, 1,289,415 states |
| `History` (of `Lab`) | 4 amends, rebases, tree commits or fetches, 1 branch, up to 2 parents; symmetric calls | passes, 724,717 states |
| `CIRun` | all workflows of up to 3 jobs over 3 ids, 1 CancelRun | passes, 447k states |
| `JobLogHub` | 2 readers, channels of 2, tail of 3, 4 lines | passes, 11,370 states |
| `JobLogStuck` | 1 reader that always reads | `StreamsEnd` violated |
| `Sandbox` (of `Tools`) | 3 tool calls or deletions, 2 trees, and a commit or else 1 failure and 1 restart; symmetric calls | passes, 2,843,500 states |
| `Cluster` | 3 calls or jobs out of 3 and 1; 1 service, 2 sessions, ports 80 (refused), 8080 and 9090, scale 0, jobs of up to 2 commands, 2 failures or crashes, 1 restart | passes, 1,433,217 states |
| `Accounts` | 3 calls of any kind, 2 names, 3 user ids, 1 failure, 1 restart | passes, 2,984,505 states |
| `External` | 4 calls, 2 names, 2 workers, 1 commit, 1 restart, 1 loss; symmetric calls and workers | passes, 1,172,318 states |
| `ResyncSkipped` (of `External`) | a name registered again | `SkipMeansPushed` violated |

The other configurations hold further counterexamples (see Findings), to be run by hand:
`tlc -config LostEdit.cfg MCLab`; `WorkspaceEmpty`, `WorkspaceStranded`,
`WorkspaceDangling` and `WorkspaceRace` with `MCWorkspaceMap`, `CITerminal` with
`MCCIRun`, `SandboxResent`, `SandboxUndeleted` and `SandboxStale` with `MCSandbox`,
`PortDir` with `MCTools`, `ServicePorts` and `Redeploy` with `MCCluster`,
`TenantFallback` with `MCAccounts`.

What the passing runs show:

- `RowsOneToOne`: the handler, stopped and repeated at any step, makes no row that
  names another branch's session and no two that share one; `MappingOneToOne` proves
  it for handler, reconciler and tool together.
- `RefinesMapping`: the handler alone never lets an event take effect on the mapping
  twice, out of order or in part, nor acknowledges one before it has, also when handlers
  stop half-way and events are delivered again. Hence `DrainedRows`: once all events are
  handled, the mapping equals the sessions (proved, see below; the run does not repeat it).
- `DrainedBranches`, `BranchesNeverReset`: the branches too follow the sessions, and none
  is ever reset.
- `Converges`: with all goroutines, the reconciler mends what was lost, in the
  tenant it lists and in repositories that have a commit. Without one it does not
  (finding 5), and the property asks nothing of such a repository, whose sessions'
  rows come and go; the run starts there and lets the commit come at any time.
- `SerialWritesSurvive`, `BranchesResolve`, `BranchesIndependent`: whatever calls
  came before, a write that nobody raced stays in its branch; a branch resolves, and
  no call on another branch changes it. The last two leave out branches whose target
  is a revision, a name or any other string that a REST client has named (`given`):
  such a branch may lead nowhere, and follows the revision or the ref it names. A lost
  update of two racing writes is outside the first (finding 10).
- `MirrorClean`: when the loop sees nothing to push, the destination holds the tip,
  unless pushes overlapped, the record was replaced during one, or a revision already
  pushed got a new snapshot or was set as the default branch's target over REST.
- `GraphSound`, `FetchClosed`: the graph lists every revision once and after its
  parents, however revisions were amended and rebased and whatever ancestors they
  share; a clone of a repository in which nothing was amended or rebased has the
  parents of every snapshot it has (with an amend it may not: `CloneHasAncestors`).
- `NeedsFirst`, `OutcomeRight`, `RefinesDagRun`, `Terminates`: passes in declaration
  order run every sound workflow, and no unsound one, to success. `Sound` is the
  reference definition: distinct ids, known needs, no set of jobs that wait for
  each other.
- `InOrder`, `NoGap`, `JobNeverWaits`, `LiveStreamsDrain`: replay and live lines
  meet without loss, and slow readers only hurt themselves.
- `BootMeansPushed` (Sandbox), `SkipSound`, `LastCallWins`, `WritesSurvive`: a
  restarted worker is never taken for a synced one, a skipped sync was not needed
  (unless calls overlapped or stopped between push and record), launches and
  deletions that come one after the other leave a coherent row, pod, Service and
  listing (but for a deletion that dropped an error, finding 8; a deleted pod may still
  be on its way out), and what a tool wrote stays in spite of the sync in front of
  every tool, unless that sync cannot read the boot id or the row (finding 7) or
  somebody takes the worker down. `ToolsTypeOK` adds to the types that a tool acts
  after a sync that was answered, OK or with a "not found".
- `AnswersHold` (Cluster), `ScaleKeepsLaunch`: a call that met no other on its
  service and was answered OK has done what it says, whatever earlier calls left
  half-made; only a launch that found a Service may leave it at other ports (finding 9).
  No scale brings an older launch back.
- `PodsEnd`, `OkMeansRan`: a finished job has no pod, and success means that every
  command ran to its end in the workspace it was to have (`Sources`), but for the
  excuses that the model records.
- `BindingsHold`, `AnswersHold` (Accounts): row and tenant agree whatever failed;
  an answered call has had its effect on every surface. What the code swallows is left
  out of `AnswersHold`: when the lookup of the binding fails, a deletion answers OK and
  leaves the tenant, a disabling does not reach it, and a session call runs in the
  default tenant (finding 4); a failed request to disable the tenant is dropped too,
  and without an admin service no tenant is deleted or disabled.
- `RowsUsable` (External): what is listed can be reached. Two registrations of one token
  are the exception: register `n1` with a code, `n2` with the token that came of it,
  release `n1`, and `n2` stays listed with a token its worker does not know, although no
  call failed; the property asks only that a release did revoke such a token.
- `BootMeansPushed`: a row with its worker's boot id means that the worker was sent a tree.

Why the bounds suffice. The longest event story is create, fork, rename, delete
(4 operations), and a rename needs two names other than the default branch. The
races of `WorkspaceConverge` need one session per goroutine and one fault; further
faults repeat what the first does, since convergence speaks of the time after the
last. `Modest` leaves out, of the behaviours with a tool call, those in which another
tenant has a session while the repository is empty; a state where it stops the search
has enabled fair steps, so that no behaviour counts as ending there. In `Lab`, a lost write takes two calls, and a third to set the scene (an
amend, a rebase, a branch off a branch); the mirror loop is a fourth actor. A DAG of
three jobs has every shape `walk` distinguishes (chain, fork, join, cycle of one, two
and three, duplicate id) in every declaration order. The hub's code tells empty,
partly full and full channels apart, and tails shorter and longer than the channel:
capacity 2 and tail 3 keep `jobLogTail` (500) above the capacity (256). Three calls
are what two overlapping calls and a later one need, in `Sandbox`, `Cluster` and
`Accounts`; `Calm` leaves behaviours of the tools with a restart or a failure without
a commit, other than those of sandbox-port, since each alone ends what a property there
speaks about; the theorems have no such bound. One service is
enough because calls on two names share nothing but failures; two sessions tell the
owner of a service from strangers; a scale to 0 differs from a launch's 1; two ports
that are not refused tell a Service from the launch behind it. `Lab` has one parent per
commit, since its properties do not look at parents; two in `History` make shared and
repeated ancestors, diamonds and a parent named twice. A ref may lead through two other
refs, and never in a ring (`NamesEnd`).
`External` needs four calls for a registration, a second one, a release and a sync.
`CHECK_DEADLOCK FALSE`: with their budgets spent, all these systems may come to rest.

Fairness: `WorkspaceConverge`, like `WorkspaceEmpty` and `WorkspaceStranded`, assumes
that the goroutines of a running process keep running (`WF` of each as a whole); nothing has to
be created and nothing to fail, and what fails is bounded, so the property speaks of the
time after the last fault. Those two are refuted by behaviours in which every goroutine
runs for ever. `CIRun` assumes that the goroutine runs and the backend
answers, which the 30-minute timeout of `k8s/job.go:83-88` justifies. `JobLogHub`
assumes only that the job's run ends (`Finish`); that readers read is a premise of
`LiveStreamsDrain`, and part of `ReadingSpec` where `StreamsEnd` is refuted. The other
modules state safety only: their calls are requests that a client may abandon at any
step.

## Findings

With a run that refutes what the repository says:

1. `Subscribe` to a finished job with 256 or more lines in its tail blocks for ever
   with the mutex held (`JobLogStuck`, `runbus.go:93`).
2. Registering an external name again stores the worker's current boot id and keeps
   the revision synced before, so that the next sync is skipped although the worker
   never got that tree (`ResyncSkipped`, `connsandbox.go:582`).

By hand, with the configuration named:

3. sandbox-port of a directory commits every file empty, over what the branch had
   (`PortDir`, `helpers_domain.go:253`): the listing it takes contents from has none.
4. When the lookup of a user's binding fails, the user's session call is sent with the
   deployment's token and runs in the default tenant, although the fallback is meant for
   users without a binding (`TenantFallback`, `user_admin.go:100`).
5. In a repository without a commit the server refuses CreateBranch as InvalidArgument,
   which `EnsureBranch` takes for a success: the row is bound, dropped by the reconciler
   because it has no branch and bound again by its backfill, in every tick, although
   "every rule is idempotent" (`WorkspaceEmpty`, `client_easylab.go:148`).
6. A handler that stops between InsertRow and InsertManaged leaves a row in a repository
   the reconciler never looks at, since the second delivery finds the row and returns;
   if its session then goes and that event is lost, the row stays (`WorkspaceStranded`,
   `sessions_http.go:79`).
7. A boot id that cannot be read, because Info fails or takes more than 3 s, counts as a
   restart: the sync pushes again the tree the worker has, with Clean, over what the
   sandbox has made since (`SandboxResent`, `sandboxsync.go:27`).
8. DeleteSandbox drops the error of the Service's deletion and answers Ok with the Service
   still there (`SandboxUndeleted`, `k8s/sandbox.go:243`).
9. LaunchService "creates/updates a Deployment + Service" but leaves an existing Service
   as it is, at the old ports (`ServicePorts`, `service.go:117`).
10. `vcs-edit` passes the sha it read "so a concurrent edit is rejected"
   (`tools.go:213-214`); no surface looks at it (`LostEdit`). The comment
   "optimistic-lock commit" of `helpers_domain.go:224` has no lock behind it either.
11. `ensureDeleted` promises "never a dangling row" (`events_sub.go:142-143`); the
   order branch, then row leaves exactly one when the handler stops in between
   (`WorkspaceDangling`).
12. `EnsureBranch` "creates a branch unless it already exists"
   (`client_easylab.go:133`), but it checks and acts in two calls and the server sets
   the ref unconditionally: handler and reconciler together discard a commit
   (`WorkspaceRace`).
13. The terminal log event carries `success`, `failure` or `cancelled`
   (`runbus.go:17`); jobs that never ran are closed as `pending`
   (`CITerminal`, `connworkflow.go:70-73`).
14. `SyncedRev` is the "tree last pushed" (`sbxreg.go:27`), but overlapping syncs
   push and record in different orders (`SandboxStale`).
15. `service-deploy` refuses the session that made the service: the label it compares
   with the raw session name is a hash (`Redeploy`, `deploy_tools.go:39-50`).

Stated as definitions, without a cfg: `MergedIsLanded` (`Lab`; MergeMergeRequest moves
no ref to the merge), `RunJobCleansUp` (`Cluster`; the pod stays when
LaunchSandbox fails after creating it, `job.go:72`), `CloneHasAncestors` (`History`).

Seen while reading, in the models as the code has it or outside them:

- GetService and ListServices always report one replica, and a scale to 0 is answered
  with 1 (`k8s_service.go:95-99`); `k8sServiceName` is not injective
  (`deploy_tools.go:30-32`); service-deploy drops its env and resources arguments.
- `vcs-mr-merge` checks that the caller's branch is the default one, not the
  request's target. `vcs-rebase` takes the newest revision of the whole repository.
  `applyLineEdit` panics when end-line is one more than the lines
  (`tools.go:1021`). Graph's limit keeps the oldest revisions. The mirror loop pushes
  in every tick while the target is a hash.
- The reconciler lists one tenant: another tenant's stale rows stay when their
  session's name is one the listed tenant has, and its live rows may be dropped.
- A CreateUser that fails half-way leaves a user without a tenant, and its retry meets
  ErrUsernameTaken; re-enabling is not passed on to the agent (`connuser.go:103-110`);
  two overlapping deletions can remove the tenant of a user created again meanwhile; a
  creation overlapping a deletion leaves a tenant that is nobody's; deleting the
  operator removes the default tenant; bootstrapAgentBinding overwrites a different
  binding, though it "only writes fields that are currently empty"
  (`bootstrap_agent.go:20`). The streaming interceptor ignores the asserted owner that
  the unary one honours.
- An external claim whose answer is lost, or whose verification fails, uses up the code
  and loses the token; a lost answer to a release leaves a row whose token is revoked; a
  release can delete a registration made meanwhile; registering a name under another
  worker leaves the first one claimed.
- A deletion whose row could not be dropped answers Ok too (`connsandbox.go:247`).
  runViaGateway ignores the state that JobWait returns. The publish
  preset discards publish.Render's Containerfile. Workflow ids chosen by files overwrite
  workflows of other repositories. A sandbox image's tag does not cover the workspace
  directory written into its Containerfile (`sbximage_k8s.go:35-57`).

## Proofs

Each proof module states an inductive invariant, one lemma per action that it is kept,
and the theorems that follow. Every theorem is for any values of the constants that
the named ASSUME of its module admits; nothing is assumed of finiteness.

`WorkspaceMapProofs`, from `WorkspaceAssumption` (the listed tenant exists, there is a
repository, the default branch is a branch, the bounds are naturals) and
`HeadIsNoBranch` (the empty ref is not a branch name):

- `TypeCorrect`: `Spec => [](TypeOK /\ HandlerHoldsEvent)`. `TypeOK` alone is not
  inductive: `Ack` takes the tail of `stream`, which must not be empty.
  `HandlerHoldsEvent` (while the handler works, its event is still in the stream)
  closes the gap, because only `Ack` takes events and it makes the handler idle.
- `MappingOneToOne`: `Spec => []RowsOneToOne`. The row a goroutine writes comes from
  its locals, so the invariant is strengthened with `FramesOK`: a rename moves a row
  within one repository. Then each writer of rows adds one row that no row clashes
  with, or takes some away (`WhoWritesRows`, `OneMoreRow`, `FewerRows`).
- `RowsInReach`: `Spec => []RowsManaged` (stated beside the proof: unless a call has
  failed, the repository of a row is managed or about to be; no run, since finding 6 is
  the failure it leaves out). Inserting a row leaves the goroutine at
  `InsertManaged` for that repository; the lemmas `WhoDropsMarkers` and
  `MarkersKept` say that only `InsertManaged` or a failure ends that, and a failure
  is recorded in the budget for good (`FailsSpent`).

The next four are about the handler of the events alone (`HandlerAlone`: neither
reconciler nor tool), since what it promises it promises by itself: beside the reconciler
it discards commits (`WorkspaceRace`). They hold for any number of events, user
operations, failures in mid-call and redeliveries.

- `HandlerNeverResets`: `Spec => BranchesNeverReset`, assuming that no listing of the
  branches fails (`MaxBlinds = 0`; a failed one looks empty). `Creates`: from the tree it
  has read to its call nobody else makes the branch the handler is about to make.
- `HandlerMapsAll`: `Spec => []DrainedRows`, in `Setting`: no event is lost, every session
  is a workspace's, and there is one repository, since the handler refuses what is forked
  or renamed from another and writes no row for it. `Tracks` makes it inductive: the
  events in the stream lead, one session operation each (`Replay`), from a set of sessions
  in the past to the present one, and the table is that past set, or, from the statement
  that writes the row on, the set after the oldest event. A failure half-way and the
  redelivery after it go back to an idle handler in one of the two, from which the same
  path ends in the same rows.
- `HandlerImplementsMapping`: `Spec => RefinesMapping`, in the same setting. The table is
  always one of two sets of sessions (`EitherSide`), and the three statements that write
  it start from the earlier one (`MovesForward`), so that it never goes back: a step of
  the agent is a change of `Mapping` (`AgentRefines`), the statement that writes the row
  is its `Follow` (`WorkRefines`), and every other step, the acknowledgement included
  (`AckRefines`: the next event has not taken effect yet), changes nothing there.
- `HandlerBranchesAll`: `Spec => []DrainedBranches`, in the same setting for one tenant (two
  may name the same branch, so that the first deletion takes it from both) and repositories
  with a commit to start from. `TracksBranches` adds to `Tracks` which sessions have a
  branch at each step of the handler (`Stage`, `Matches`), and that what a branch is made
  from exists (`Resolves`).

`CIRunProofs`, from `CIAssumption`, for workflows sound or not:

- `TypeCorrect`; `JobsAfterNeeds`: `Spec => []NeedsFirst`; `NoJobTwice`:
  `Spec => JobsRunOnce`. The walk decides on its local set `done` of ids, while both
  properties speak of the states of instances, so neither is inductive. `WalkInv` ties
  the two: an id in `done` has an instance that succeeded and the other way round; the
  one instance that runs is that of the job the walk waits for, whose id is not yet in
  `done` and whose needs are; there is a failed instance only once the walk is over; and
  what has begun had its needs in `done`. With an id declared twice, the job at `pos`
  and the instance whose state changes differ, which is why `WalkInv` goes through
  `Instance` and `LastJob`. That a first position exists (`FirstExists`) follows from
  the well-foundedness of `<`.
- `OutcomeIsRight`: `Spec => []OutcomeRight`. `OutcomeInv` adds that no id of a set of
  jobs that wait for each other is ever in `done` (the first of them to run would need
  one that had run), and that a pass starts only while ids are missing. So a walk that
  gives up has found a cycle, an undeclared need or a repeated id, and one that succeeds
  has run every instance.
- `RunImplementsDag`: `Spec => RefinesDagRun`, the safety refinement. A run that ends
  because a pass made no progress must map to an end `DagRun` allows; `PassInv` says
  what a pass has found out about the jobs it has left behind.

`ToolsProofs`, from `SandboxAssumption` (bounds, and `Nothing` is neither a tree nor
a call), for any number of calls and, unless said otherwise, any `Exclusive`, hence also
for launches and deletions at once:

- `TypeCorrect`; `RestartDetection`: `Spec => []BootMeansPushed`. The row's boot id
  comes from the locals of a call that read it from the worker earlier. `SyncInv` adds
  that a call about to record the current boot id finds the workspace pushed
  (`PushedBefore`) and that what a sync pushes is a tree (`Exported`). A new pod and a
  restarted worker keep it because their boot id is in no row and no call (`FreshBoot`).
- `SkipsOnlySynced`: `Spec => SkipSound`. A skip trusts a row that an earlier call wrote
  after its push. `Synchronised` says that, without failures and overlaps, one call syncs
  at a time, what it has pushed is still there when it records it, and at other times the
  row names the tree of the worker whose boot id it carries.
- `LastCallStands`: `Spec => []LastCallWins`, assuming `OneAtATime` (launches and deletions
  are in `Exclusive`). `Places` says that the one that is open is the last that began, and
  `Standing` what pod, Service and row are at each of its steps, `dropped` aside.

And with the tools: `ToolsTypeCorrect` (an act follows a sync answered OK or "not found",
a file in the workspace means a pod), and `ToolsRestartDetection`, `ToolsSkipsOnlySynced` and
`ToolsLastCallStands`, the same properties under the tools, whose commits and repeated
syncs keep those invariants as well (`ToolsOnSandbox`: every other step of a tool is one of
`Sandbox`). `WrittenStays`: `ToolSpec => []WritesSurvive`, assuming `OneAtATime`. While
written content is kept, the row vouches for the worker at the head of the branch, so that
every sync that comes exports that head, reads that boot id and the row, and skips
  (`Vouched`; `MissBoot` and `MissRow` end the keeping); only
`Standing` excludes a launch that would change the token meanwhile.

`JobLogHubProofs`: `TypeCorrect` and `EventsInOrder`: `Spec => []InOrder`. `OrderInv`
adds that the tail is increasing, and that what a subscribed reader has seen and has in
its channel is no younger than the last line logged. `NothingFallsBetween`:
`Spec => []NoGap`. `GapInv` says that the tail is the newest lines without a hole, what a
reader's copy of the tail and its channel hold together at each step of its subscription,
and that a channel is closed only behind its terminal event.

`ClusterProofs`, from `ServicesAssumption` and `ClusterAssumption`:

- `TypeCorrect`; `JobsLeaveNoPod`: `Spec => []PodsEnd` and `SuccessMeansRan`:
  `Spec => []OkMeansRan`. `JobsInv` says at which step a job may have a pod, how many
  commands have run and in which trees, before there is an answer.
- `ScalesOnlyReplicas`: `Spec => ScaleKeepsLaunch`. `CallsInv` has `Fresh`: the copy a
  scale holds is the Deployment itself as long as the version is unchanged, and
  versions only grow. Without it a step could write a copy of an older launch.
- `AnswersAreTrue`: `Spec => []AnswersHold`. `PromiseInv` has `Alone` (a call still
  marked alone is the only one running on its service, and what it has done so far
  stands) and `Promise` (what an ended call left stands while no call runs on the
  service; after a launch the Service has its ports or is `kept`). The listing of a
  session goes by its name or its label key, hence the last two conjuncts of
  `ServicesAssumption`: `<<>>` names nothing, and a key is no session.

`LabProofs`, from `LabAssumption`, of `HistSpec`, the specification the run checks:

- `BranchesLead`: `HistSpec => []BranchesResolve`. `BranchInv` says that every branch's target
  is a snapshot or a revision that has one, or in `given`, and so is what a call is about
  to set; `given` only grows.
- `BranchesAreCopies`: `HistSpec => BranchesIndependent`. A revision that gets a new
  snapshot shows it in every branch that is at the revision, so `ClaimInv` says that two
  branches never claim the same one unless it is in `given`, where a branch also claims
  what an amend under way will set it back to; `Footprint` is what a step may do to
  revisions and claims.
- `SerialWritesStay`: `HistSpec => []SerialWritesSurvive`. `WritesInv` says that a call about
  to set a ref that nobody moved since it read it builds on the tip of that ref (`OnTip`),
  that a target is a hash, a revision or a name that there is, and that a kept text is
  that of an ended call. `Seen` is what a step may do to snapshots, refs, calls and kept texts.
- `MirrorHoldsTip`: `HistSpec => []MirrorClean`. While `blind` is off, one push runs at most,
  from the present record (`PushClean`), and what is pushed or recorded at a revision the
  default branch is at is the youngest snapshot of it (`SeesTip`, `Recorded`): a branch
  comes to a revision only when that is new, gets a new snapshot or is set over REST
  (`HeadStep`), and the last two set `blind` if the revision was pushed.
- `TypeCorrect`: `HistSpec => []TypeOK`. `TypeInv` adds to `MirrorInv` that a merge or a
  `vcs-rebase` about to commit has a parent (`Based`).
- `GraphIsWhole`: `HistSpec => []GraphSound`, and `ClonesAreClosed`: `HistSpec =>
  []FetchClosed`. Both speak of recursive functions over the history, of any length. A
  parent is older than its child (`Line`, from `TypeInv`), so each function exists
  (`ReachedIs`, `VisitIs`, `ThruIs`, `ListedIs`) and what it computes follows by induction
  on the snapshots (`FromBelow`, from the well-foundedness of `<`) and, for each, on its
  list of parents, of any length (`Walk`). `Visits` says what one visit
  adds to the list: the revision, behind revisions of older snapshots only, so that its own
  is not among them. Every revision is reached by the youngest snapshot that reaches it,
  which is a head. `ReachedClosed`: the walk from what was wanted stops only at what the
  client has, and what a client has is closed (`ClientInv`) while no revision has two
  snapshots.

`AccountsProofs`, from `AccountsAssumption`, for any numbers of calls, names, users,
failures and restarts:

- `TypeCorrect`: a row has an id that was given out, and a binding and a secret together;
  `Places` says where a call can be and what it then knows.
- `RowsAndAgentAgree`: `Spec => []BindingsHold`. `NamesInv`: names are unique among the
  rows and a row is bound to its own name's tenant or the default one. On top of it
  `HeldInv` says what a call relies on as long as no two deletions of one user overlap
  (a deletion names its user's tenant, a binding finds the tenant made for it with its
  own secret), and `QuietInv` what holds as long as there is an admin service and
  nothing fails, restarts or overlaps a change: a tenant without a row is one that its
  creation is about to bind.
- `AnswersAreTrue`: `Spec => []AnswersHold`. `SecretsInv` says whose a secret is wherever
  it is found, and `LatestInv`, of the latest call that runs alone, what it has done so
  far on each surface (`SoFar`), step by step.

`ExternalProofs`, from `ExternalAssumption` (there is a name; `Nowhere` is no worker):

- `TypeCorrect`; `RecordedMeansSent`: `Spec => []BootMeansPushed`. `SyncOK` is what a
  sync that runs alone knows: the boot id it read is not newer than its worker's, and
  once it has pushed, the current boot has a tree; `RecordOK` is the same of a row. A
  worker only grows (`Grows`), so an old boot id never becomes current again.
- `ListedIsReachable`: `Spec => []RowsUsable`. A token that is not shared has one holder
  at a time: `Sole` says that held tokens were minted before, that a pending registration
  holds its worker's token alone, that two rows never have one such token nor a row one
  with the release of another name, and that any token held is its worker's or was revoked.
  A claim succeeds only at a worker without a token; a revoke of a token that is not
  shared can only hit the row of its own name. A loss breaks this, which is why the
  property excludes it.

Checked by TLC only: liveness (`Converges`, `Terminates`, `JobNeverWaits`,
`LiveStreamsDrain`), since the proof system does not handle fairness with ENABLED. Every
invariant and every safety property of the passing runs has a theorem. What the
reconciler restores has none, because it is a liveness property (`Converges`).

## Not modelled

- The session cache (5 s) and the ops extension's workspace cache (30 s): they promise a
  time and keep no other state.
- Images and the shared build context: BuildKit's. Releases, archives and the artifact
  registry: adapters over a library that is outside `src/`. (A blob that two releases share
  goes with the first deletion; concurrent uploads lose assets.)
- Session groups, adoptBranch, vcs tools that forward one call, worker passthroughs
  (terminal, log streams, directories), listings that only format.
- Permissions: every call is let through.
- The code of the version store, the artifact library and the agent, which is not in this
  repository; what a push does after its caller has given up; two processes of one
  extension; flags, routes and start-up.

## Plan

`Releases`, over a model of the artifact library taken from its use; pull mirrors and
requests between forks in `Lab`.
