-------------------------------- MODULE Tools --------------------------------
(***************************************************************************)
(* The sandbox tools of the ops extension (internal/ext/ops), which an     *)
(* agent calls for its session, on top of the sandbox calls of module      *)
(* Sandbox: sandbox-create, -run, -read, -edit, -write, -download, -port   *)
(* and the five on jobs.  Each tool call makes at most one kind of gateway *)
(* call, so that call and tool call share a name.                          *)
(*                                                                         *)
(* The tools work on one file (or on the directory that holds it): a tree  *)
(* is its content on the branch.  The revision that lookupWorkspace caches *)
(* for 30 seconds is a parameter SyncWorkspace only asks to be there, so   *)
(* the cache is left out.                                                  *)
(***************************************************************************)
EXTENDS Sandbox

CONSTANTS
    Empty,     \* the empty content
    Direct,    \* bound: the gateway calls that are made without a tool
    Kinds      \* bound: the tools that are called

ASSUME ToolsAssumption == Empty \in Trees /\ Direct \subseteq Ops

VARIABLES
    work,   \* the file in the worker's workspace; Nothing: no file
    tool,   \* what each tool call does
    kept    \* history: the content a tool has written into a settled workspace

toolVars == <<vars, work, tool, kept>>

NoTool == [kind |-> "none", step |-> "none", read |-> Nothing]
Synced == {"run", "read", "edit"}            \* needSync
Writes == {"write", "download"}
Ports  == {"port", "portdir"}
Jobs   == {"job"}                 \* sandbox-job-list, -output, -wait, -stdin, -kill

ToolAt(c, kinds, step) == tool[c].kind \in kinds /\ tool[c].step = step
ToolTo(c, step)        == tool' = [tool EXCEPT ![c].step = step]
Answers(c, answer)     == tool' = [tool EXCEPT ![c] = [NoTool EXCEPT !.step = answer]]

\* What was written stays what the workspace holds until another change.
Settled == /\ Reachable /\ ~pod.dying /\ row.rev = head /\ row.boot = pod.boot
           /\ \A d \in Calls : ~Syncing(d)
Keeps   == kept' = IF /\ UNCHANGED <<head, service>>
                      /\ pod'.boot = pod.boot /\ pod'.dying = pod.dying
                   THEN kept ELSE Nothing

-----------------------------------------------------------------------------
\* ensureSandbox: the sandbox must be registered and its pod running.  The
\* tools that need it then have SyncWorkspace called for them.
Found == Registered /\ Up

Start(c, kind) ==
    /\ At(c, "new") /\ tool[c] = NoTool /\ kind \in Kinds
    /\ \/ /\ kind = "create" /\ Begin(c, "launch")
          /\ tool' = [tool EXCEPT ![c].kind = kind, ![c].step = "sync"]
       \/ /\ kind \in Synced /\ Found /\ Begin(c, "sync")
          /\ tool' = [tool EXCEPT ![c].kind = kind, ![c].step = IF kind = "run" THEN "sync" ELSE "act"]
       \/ /\ kind \in Writes \cup Ports \cup Jobs /\ Found
          /\ tool' = [tool EXCEPT ![c].kind = kind, ![c].step = "act"]
          /\ UNCHANGED vars
       \/ /\ kind # "create" /\ ~Found
          /\ Answers(c, "failed")
          /\ UNCHANGED vars
    /\ UNCHANGED <<work, kept>>

\* ensureSynced takes an error that says "not found" for a success.
Passed(c) == call[c].pc \in {"ok", "absent"}

\* Any other error of the gateway call ends the tool call.
Stopped(c) ==
    /\ \/ tool[c].step \in {"sync", "act"} /\ At(c, "failed") /\ ~ToolAt(c, {"create"}, "act")
       \/ ToolAt(c, {"create"}, "sync") /\ At(c, "absent")
    /\ Answers(c, "failed")
    /\ UNCHANGED <<vars, work, kept>>

\* sandbox-run syncs again, and sandbox-create after the launch's own sync.
\* The answer of the latter is ignored.
SyncAgain(c) ==
    /\ ToolAt(c, {"create", "run"}, "sync")
    /\ At(c, "ok") \/ (tool[c].kind = "run" /\ Passed(c))
    /\ IF Registered
       THEN /\ call' = [call EXCEPT ![c].op = "sync", ![c].pc = "export"]
            /\ ToolTo(c, "act")
       ELSE /\ IF tool[c].kind = "run" THEN ToolTo(c, "act") ELSE Answers(c, "ok")
            /\ UNCHANGED call
    /\ UNCHANGED <<head, pod, service, row, latest, overlap, dropped, boots, left, work, kept>>

Created(c) ==
    /\ ToolAt(c, {"create"}, "act") /\ Ended(c)
    /\ Answers(c, "ok")
    /\ UNCHANGED <<vars, work, kept>>

-----------------------------------------------------------------------------
\* The worker's file calls; without a worker that knows the token they fail.
Unsynced(c) == ~At(c, "new") \/ tool[c].kind \in Writes
Prepared(c) == tool[c].kind \in Synced => Passed(c)

FileRead(c) ==
    /\ ToolAt(c, {"read", "edit"}, "act") /\ Prepared(c)
    /\ IF Reachable /\ work # Nothing
       THEN IF tool[c].kind = "edit" THEN ToolTo(c, "write") ELSE Answers(c, "ok")
       ELSE Answers(c, "failed")
    /\ UNCHANGED <<vars, work, kept>>

Written(content) == work' = content /\ kept' = IF Settled THEN content ELSE Nothing

\* sandboxEdit writes the whole file back, with some lines changed.
FileWrite(c, content) ==
    /\ tool[c].kind \in Writes \cup {"edit"}
    /\ tool[c].step = IF tool[c].kind = "edit" THEN "write" ELSE "act"
    /\ IF Reachable
       THEN Written(content) /\ Answers(c, "ok")
       ELSE Answers(c, "failed") /\ UNCHANGED <<work, kept>>
    /\ UNCHANGED vars

-----------------------------------------------------------------------------
\* sandbox-run: the command becomes a job of the worker, and may write the
\* file.  JobWait answers when it has ended, or after the worker's own limit;
\* when the tool's deadline comes first, the job goes on in the background,
\* which is no failure.
Execute(c) ==
    /\ ToolAt(c, {"run"}, "act") /\ Prepared(c)
    /\ IF Reachable
       THEN /\ ToolTo(c, "wait")
            /\ \/ UNCHANGED <<work, kept>>
               \/ \E content \in Trees : Written(content)
       ELSE Answers(c, "failed") /\ UNCHANGED <<work, kept>>
    /\ UNCHANGED vars

Waited(c) ==
    /\ ToolAt(c, {"run"}, "wait")
    /\ \/ Answers(c, "ok")
       \/ ~Reachable /\ Answers(c, "failed")
    /\ UNCHANGED <<vars, work, kept>>

\* The gateway passes a call on a job to the worker as it is.  The worker may
\* not know the job; a job that is sent input may write the file.
JobCall(c) ==
    /\ ToolAt(c, Jobs, "act")
    /\ \/ Reachable /\ Answers(c, "ok") /\ UNCHANGED <<work, kept>>
       \/ Reachable /\ Answers(c, "ok") /\ \E content \in Trees : Written(content)
       \/ Answers(c, "failed") /\ UNCHANGED <<work, kept>>
    /\ UNCHANGED vars

-----------------------------------------------------------------------------
\* sandbox-port reads what the sandbox holds and commits it to the branch
\* with WriteFiles.  FileList names the files of a directory, and has no
\* content of theirs.
Held(c) == IF tool[c].kind = "port" THEN work ELSE Empty
Read(c) ==
    /\ ToolAt(c, Ports, "act")
    /\ IF Reachable /\ work # Nothing
       THEN tool' = [tool EXCEPT ![c].read = Held(c), ![c].step = "land"]
       ELSE Answers(c, "failed")
    /\ UNCHANGED <<vars, work, kept>>

Land(c) ==
    /\ ToolAt(c, Ports, "land")
    /\ head' = tool[c].read
    /\ Answers(c, "ok")
    /\ UNCHANGED <<pod, service, row, call, latest, overlap, dropped, boots, left, work>>
    /\ Keeps

-----------------------------------------------------------------------------
\* The calls of module Sandbox, and what they do to the workspace.
Pushes(c) ==
    /\ Push(c)
    /\ work' = IF At(c, "mark")' THEN call[c].tree ELSE work
    /\ UNCHANGED <<tool, kept>>

Moves(c) ==
    /\ \/ \E op \in Direct : tool[c] = NoTool /\ Begin(c, op)
       \/ LaunchStep(c) \/ DeleteStep(c) \/ Fail(c)
       \/ Export(c) \/ Missing(c) \/ ReadBoot(c) \/ Skip(c) \/ DoSync(c) \/ Mark(c)
    /\ work' = IF pod'.boot = pod.boot THEN work ELSE Nothing
    /\ Keeps
    /\ UNCHANGED tool

\* A sync that cannot read the boot id or the row is no longer bound to skip.
Misses(c) ==
    /\ MissBoot(c) \/ MissRow(c)
    /\ kept' = Nothing
    /\ UNCHANGED <<work, tool>>

Others ==
    /\ Commit \/ Restart \/ Gone
    /\ work' = IF pod'.boot = pod.boot THEN work ELSE Nothing
    /\ Keeps
    /\ UNCHANGED tool

ToolInit == Init /\ work = Nothing /\ tool = [c \in Calls |-> NoTool] /\ kept = Nothing

ToolNext ==
    \/ \E c \in Calls :
         \/ \E kind \in Kinds : Start(c, kind)
         \/ \E t \in Trees \ {Empty} : FileWrite(c, t)
         \/ Stopped(c) \/ SyncAgain(c) \/ Created(c) \/ FileRead(c)
         \/ Execute(c) \/ Waited(c) \/ JobCall(c)
         \/ Read(c) \/ Land(c) \/ Pushes(c) \/ Moves(c) \/ Misses(c)
    \/ Others

ToolSpec == ToolInit /\ [][ToolNext]_toolVars

-----------------------------------------------------------------------------
WorkOK ==
    /\ work \in Trees \cup {Nothing} /\ kept \in Trees \cup {Nothing}
    /\ work # Nothing => Up

StepsOK ==
    /\ tool \in [Calls -> [kind : {"none", "create"} \cup Synced \cup Writes \cup Ports \cup Jobs,
                           step : {"none", "sync", "act", "write", "wait", "land", "ok", "failed"},
                           read : Trees \cup {Nothing}]]
    /\ \A c \in Calls : /\ tool[c].step \in {"write", "wait"} => Passed(c)
                        /\ tool[c].step = "land" => tool[c].read \in Trees

ToolsTypeOK == TypeOK /\ WorkOK /\ StepsOK

(* What a tool wrote into a workspace that held the head of the branch, with *)
(* no sync under way, stays there, whatever runs, reads, edits and launches  *)
(* come and fail, until it is written again, the branch moves, the worker    *)
(* restarts, somebody begins to take it down, or a sync fails to read the    *)
(* worker's boot id or the row: "re-sending the same rev would delete files  *)
(* the sandbox created since" (sandboxsync.go:23-26).                        *)
WritesSurvive == kept # Nothing => work = kept

(* sandbox-port commits what the sandbox held: "expand via worker file_list, *)
(* then one atomic commit" (helpers_domain.go:236).                          *)
PortedIsHeld ==
    [][\A c \in Calls : ToolAt(c, Ports, "act") /\ tool'[c].step = "land" => tool'[c].read = work]_toolVars
=============================================================================
