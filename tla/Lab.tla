--------------------------------- MODULE Lab ---------------------------------
(***************************************************************************)
(* One repository of the lab (cmd/easylab): its snapshots, its refs, a     *)
(* change request and a push mirror, and the calls on them.  Every call    *)
(* reads, commits and moves refs in steps, with no lock around them, so    *)
(* the calls interleave with each other and with the mirror loop.          *)
(*                                                                         *)
(* A snapshot is known by its hash, here its place in snaps.  It belongs   *)
(* to a revision, whose id stays the same when the revision is amended or  *)
(* rebased.  A file is the set of the calls whose text it contains.        *)
(***************************************************************************)
EXTENDS Integers, Sequences, FiniteSets

CONSTANTS
    Calls,      \* the calls of this instance; each is made once
    Branches,   \* names of branches
    Tags,       \* names that are never made branches, but by handleSetRef
    Main,       \* the default branch
    Files,      \* paths
    Urls,       \* destinations of the push mirror
    Loop,       \* the mirror loop
    Ops,        \* bound: the operations the calls perform
    MaxParents, \* bound: the parents that a client names for a snapshot
    MaxFails    \* bound: pushes that fail, calls that stop before SetRef

ASSUME LabAssumption == Main \in Branches /\ Branches \cap Tags = {}
                        /\ Loop \notin Calls /\ MaxParents \in Nat /\ MaxFails \in Nat

VARIABLES
    snaps,    \* the snapshots, oldest first
    refs,     \* branches and tags by name
    calls,    \* what each call does and has read
    mr,       \* the change request
    mirror,   \* the push mirror "default"
    remote,   \* the snapshot each destination holds
    push,     \* the push that the loop, or a SyncMirror, is at
    fails,    \* failures left
    given,    \* history: targets that REST clients named (see BranchesResolve)
    kept,     \* history: calls whose text the branch has to contain
    blind     \* history: the mirror's record may be wrong (see MirrorClean)

labVars == <<snaps, refs, calls, mr, mirror, remote, push, fails, given, kept, blind>>

Names  == Branches \cup Tags
NoRef  == [kind |-> "none", at |-> <<"hash", 0>>]
NoMR   == [state |-> "none", source |-> Main, target |-> Main, rev |-> 0]
NoPush == [step |-> "idle", url |-> <<>>, last |-> <<>>, seen |-> 0]
NoMirror == [on |-> FALSE, url |-> <<>>, last |-> <<>>]
NewCall  == [op |-> "none", step |-> "new", ref |-> Main, file |-> <<>>,
             content |-> {}, base |-> 0, source |-> 0, raced |-> FALSE]
Empty  == [f \in Files |-> {}]
TreeOf(h)      == IF h = 0 THEN Empty ELSE snaps[h].tree
First(parents) == IF parents = <<>> THEN 0 ELSE parents[1]
FirstParent(h) == First(snaps[h].parents)

\* Revisions as ListRevisions and Log return them: the hash of a revision is
\* its youngest snapshot.  (The version store is external.)
RevIDs     == {snaps[h].rev : h \in 1..Len(snaps)}
RevHash(i) == CHOOSE h \in 1..Len(snaps) :
                snaps[h].rev = i /\ \A k \in 1..Len(snaps) : snaps[k].rev = i => k <= h
NewestRev  == CHOOSE i \in RevIDs : \A k \in RevIDs : k <= i

-----------------------------------------------------------------------------
\* resolveRefAny: a target is a snapshot hash, a revision id or the name of
\* another ref, which is looked up in turn.  0 stands for the error.  The
\* bound: names lead through two refs at most, and never back, where the code
\* would not return.
Direct(at) == CASE at[1] = "hash" /\ at[2] \in 1..Len(snaps) -> at[2]
                [] at[1] = "rev" /\ at[2] \in RevIDs -> RevHash(at[2])
                [] OTHER -> 0
Hop(at)    == IF at[1] = "name" THEN refs[at[2]].at ELSE at
Resolve(r) == Direct(Hop(Hop(refs[r].at)))
NamesEnd   == \A r \in Names : Hop(Hop(refs[r].at))[1] # "name"

\* What a ref can store: the hash 0 stands for a string that is nothing.
Targets == {<<"hash", h>> : h \in 0..Len(snaps)} \cup {<<"rev", i>> : i \in RevIDs}
             \cup {<<"name", r>> : r \in Names}

IsBranch(r) == refs[r].kind = "branch"
IsRef(r)    == refs[r].kind # "none"
Changed(r)  == refs'[r] # refs[r] \/ Resolve(r)' # Resolve(r)

SetRef(r, kind, at) == refs' = [refs EXCEPT ![r] = [kind |-> kind, at |-> at]]

\* CommitFromChanges and Commit: a new snapshot of revision i.
Committed(i, parents, tree) == snaps' = Append(snaps, [rev |-> i, parents |-> parents, tree |-> tree])
Next1 == Len(snaps) + 1

\* Merge: what both sides have, and what either has added since base.
Merge3(base, ours, theirs) ==
    [f \in Files |-> (ours[f] \cap theirs[f]) \cup (ours[f] \ base[f]) \cup (theirs[f] \ base[f])]

-----------------------------------------------------------------------------
\* Call c becomes call; the calls whose ref has changed under them are raced.
Becomes(c, call) ==
    calls' = [d \in Calls |->
                IF d = c THEN call
                ELSE IF calls[d].step \in {"open", "land"} /\ \E r \in Names : calls[d].ref = r /\ Changed(r)
                     THEN [calls[d] EXCEPT !.raced = TRUE]
                     ELSE calls[d]]
Ends(c)  == Becomes(c, [calls[c] EXCEPT !.step = "done"])
Does(c, op) == op \in Ops /\ calls[c].step = "new"
Opened(c, op, r, f, content, base) ==
    Becomes(c, [NewCall EXCEPT !.op = op, !.step = "land", !.ref = r, !.file = f,
                               !.content = content, !.base = base])

\* A write of file f to ref r keeps the text of the other files.
Keeping(r, f, content, c) ==
    {d \in kept[r] : calls[d].file = f => d \in content} \cup (content \cap {c})
KeptAt(r, ks) == kept' = [s \in Names |-> IF s = r THEN ks
                                          ELSE IF Changed(s) THEN {} ELSE kept[s]]

UnchangedOthers == UNCHANGED <<mirror, remote, push, given, blind>>

-----------------------------------------------------------------------------
\* The write tool replaces a file, the delete tool removes it.
Written(c) == {c}
Deleted    == {}

\* WriteFiles with NewCommit, as the tools call it: the branch must exist,
\* unless the call names none and the default branch is still to be made.
WriteParent(r, unnamed, base) ==
    \/ IsBranch(r) /\ Resolve(r) # 0 /\ base = Resolve(r)
    \/ ~IsBranch(r) /\ unnamed /\ r = Main /\ base = 0

WriteFiles(c, r, f) ==
    /\ Does(c, "write")
    /\ \E unnamed \in BOOLEAN, base \in 0..Len(snaps), content \in {Written(c), Deleted} :
         /\ WriteParent(r, unnamed, base)
         /\ UNCHANGED <<refs, snaps>>
         /\ Becomes(c, [NewCall EXCEPT !.op = "write", !.step = "land", !.ref = r, !.file = f,
                          !.content = content, !.base = base, !.raced = base # Resolve(r)])
    /\ UnchangedOthers /\ UNCHANGED <<mr, fails, kept>>

\* applyLineEdit, with lines inserted.
Edited(text, c) == text \cup {c}

\* The edit tool: it reads the file at the tip, then calls WriteFiles with
\* the edited text.  The sha it takes for the optimistic lock is "".
EditTool(c, r, f) ==
    /\ Does(c, "edit")
    /\ IsBranch(r) /\ Resolve(r) # 0
    /\ UNCHANGED <<refs, snaps>>
    /\ Becomes(c, [NewCall EXCEPT !.op = "edit", !.step = "open", !.ref = r, !.file = f,
                                  !.content = Edited(TreeOf(Resolve(r))[f], c)])
    /\ UnchangedOthers /\ UNCHANGED <<mr, fails, kept>>

EditOpens(c) ==
    /\ calls[c].op = "edit" /\ calls[c].step = "open"
    /\ \E base \in 1..Len(snaps) :
         /\ WriteParent(calls[c].ref, FALSE, base)
         /\ UNCHANGED <<refs, snaps>>
         /\ Becomes(c, [calls[c] EXCEPT !.step = "land", !.base = base])
    /\ UnchangedOthers /\ UNCHANGED <<mr, fails, kept>>

\* WriteFiles without NewCommit: the target is the revision to amend.
AmendFiles(c, r, f) ==
    /\ Does(c, "amend")
    /\ IsBranch(r)
    /\ UNCHANGED <<refs, snaps>>
    /\ \E i \in RevIDs : refs[r].at = <<"rev", i>> /\ Opened(c, "amend", r, f, {c}, i)
    /\ UnchangedOthers /\ UNCHANGED <<mr, fails, kept>>

\* WriteBlob takes any ref that exists.
WriteBlob(c, r, f) ==
    /\ Does(c, "blob")
    /\ IsRef(r) /\ Resolve(r) # 0
    /\ UNCHANGED <<refs, snaps>>
    /\ Opened(c, "blob", r, f, {c}, Resolve(r))
    /\ UnchangedOthers /\ UNCHANGED <<mr, fails, kept>>

\* handleCommit with changes: the parent is named, or is the head if there is
\* one; the revision is a new one, or one that the client names.
PostCommit(c, r, f) ==
    /\ Does(c, "commit")
    /\ \E base \in {Resolve(r)} \cup 1..Len(snaps) :
         /\ UNCHANGED <<refs, snaps>>
         /\ Becomes(c, [NewCall EXCEPT !.op = "commit", !.step = "land", !.ref = r, !.file = f,
                          !.content = {c}, !.base = base, !.raced = base # Resolve(r)])
    /\ UnchangedOthers /\ UNCHANGED <<mr, fails, kept>>

PostRecommit(c, r, f) ==
    /\ Does(c, "commit")
    /\ \E base \in {Resolve(r)} \cup 1..Len(snaps), i \in RevIDs :
         /\ UNCHANGED <<refs, snaps>>
         /\ Becomes(c, [NewCall EXCEPT !.op = "recommit", !.step = "land", !.ref = r, !.file = f,
                          !.content = {c}, !.base = base, !.source = i, !.raced = base # Resolve(r)])
    /\ UnchangedOthers /\ UNCHANGED <<mr, fails, kept>>

\* The target a write stores: WriteFiles the revision id, the others the hash.
TargetOf(op) == IF op \in {"write", "edit"} THEN <<"rev", Next1>> ELSE <<"hash", Next1>>
RootZero(base) == <<base>>
Root(base)     == IF base = 0 THEN <<>> ELSE <<base>>

MovesNewRef(c, at) == IF IsBranch(calls[c].ref) THEN UNCHANGED refs ELSE SetRef(calls[c].ref, "branch", at)
MovesRef(c, at) == SetRef(calls[c].ref, "branch", at)

\* The commit and the SetRef of the four writes.
WriteLands(c) == LET call == calls[c] IN
    /\ call.step = "land" /\ call.op \in {"write", "edit", "blob", "commit"}
    /\ Committed(Next1, Root(call.base), [TreeOf(call.base) EXCEPT ![call.file] = call.content])
    /\ MovesRef(c, TargetOf(call.op))
    /\ KeptAt(call.ref, IF call.raced THEN {} ELSE Keeping(call.ref, call.file, call.content, c))
    /\ Ends(c)
    /\ UnchangedOthers /\ UNCHANGED <<mr, fails>>

\* A write stops after its commit: a snapshot that no ref leads to.
WriteDetached(c) == LET call == calls[c] IN
    /\ fails > 0 /\ fails' = fails - 1
    /\ call.step = "land" /\ call.op \in {"write", "edit", "blob", "commit"}
    /\ Committed(Next1, Root(call.base), [TreeOf(call.base) EXCEPT ![call.file] = call.content])
    /\ UNCHANGED refs
    /\ Ends(c)
    /\ UnchangedOthers /\ UNCHANGED <<mr, kept>>

\* The mirror's record does not tell the old and the new snapshot of
\* revision i apart.
Pushed(i) == \/ mirror.last = <<"rev", i>>
             \/ \E p \in DOMAIN push : push[p].seen # 0 /\ snaps[push[p].seen].rev = i

\* The amended snapshot takes the place of the youngest of its revision.
AmendLands(c) == LET call == calls[c]  tip == RevHash(call.base) IN
    /\ call.step = "land" /\ call.op = "amend"
    /\ Committed(call.base, snaps[tip].parents, [snaps[tip].tree EXCEPT ![call.file] = call.content])
    /\ SetRef(call.ref, "branch", <<"rev", call.base>>)
    /\ KeptAt(call.ref, IF call.raced THEN {} ELSE Keeping(call.ref, call.file, call.content, c))
    /\ Ends(c)
    /\ blind' = (blind \/ Pushed(call.base))
    /\ UNCHANGED <<mr, mirror, remote, push, fails, given>>

\* A commit to revision i of the client's: with no parent it is an amend.
RecommitLands(c) == LET call == calls[c]  i == call.source  tip == RevHash(i)
                        base == IF call.base = 0 THEN tip ELSE call.base IN
    /\ call.step = "land" /\ call.op = "recommit"
    /\ Committed(i, IF call.base = 0 THEN snaps[tip].parents ELSE <<base>>,
                 [TreeOf(base) EXCEPT ![call.file] = call.content])
    /\ MovesRef(c, <<"hash", Next1>>)
    /\ KeptAt(call.ref, IF call.raced \/ call.base = 0 THEN {}
                        ELSE Keeping(call.ref, call.file, call.content, c))
    /\ Ends(c)
    /\ given' = given \cup {<<"rev", i>>}
    /\ blind' = (blind \/ Pushed(i))
    /\ UNCHANGED <<mr, mirror, remote, push, fails>>

\* handleCommit with a tree that is stored: no ref moves.
ParentLists == UNION {[1..k -> 1..Len(snaps)] : k \in 0..MaxParents}

PostTree(c) ==
    /\ Does(c, "tree")
    /\ \E i \in RevIDs \cup {Next1}, parents \in ParentLists, h \in 1..Len(snaps) :
         /\ Committed(i, parents, TreeOf(h))
         /\ blind' = (blind \/ Pushed(i))
    /\ UNCHANGED refs
    /\ kept' = [s \in Names |-> IF Changed(s) THEN {} ELSE kept[s]]
    /\ Ends(c)
    /\ UNCHANGED <<mr, mirror, remote, push, fails, given>>

-----------------------------------------------------------------------------
\* CreateBranch resolves the source, and then sets the ref to that hash,
\* whether or not the branch exists.
BranchTargetName(c) == <<"name", Main>>
BranchTargetRev(c)  == <<"rev", snaps[calls[c].base].rev>>
BranchTarget(c)     == <<"hash", calls[c].base>>

CreateBranch(c, r, from) ==
    /\ Does(c, "branch")
    /\ IsRef(from) /\ Resolve(from) # 0
    /\ UNCHANGED <<refs, snaps>>
    /\ Opened(c, "branch", r, <<>>, {}, Resolve(from))
    /\ UnchangedOthers /\ UNCHANGED <<mr, fails, kept>>

BranchLands(c) ==
    /\ calls[c].step = "land" /\ calls[c].op = "branch"
    /\ UNCHANGED snaps
    /\ SetRef(calls[c].ref, "branch", BranchTarget(c))
    /\ KeptAt(calls[c].ref, {})
    /\ Ends(c)
    /\ UnchangedOthers /\ UNCHANGED <<mr, fails>>

\* DeleteBranch, DeleteTag and handleDeleteRef delete by name.
DeleteRef(c, r) ==
    /\ Does(c, "delete")
    /\ IsRef(r)
    /\ refs' = [refs EXCEPT ![r] = NoRef]
    /\ UNCHANGED snaps
    /\ KeptAt(r, {})
    /\ Ends(c)
    /\ UnchangedOthers /\ UNCHANGED <<mr, fails>>

\* SetTag: no target or "@" is the newest revision, any other string is
\* taken as it is.  The name may be that of a branch, which ends as one.
SetTag(c, r) ==
    /\ Does(c, "tag")
    /\ \/ Len(snaps) > 0 /\ SetRef(r, "tag", <<"rev", NewestRev>>)
       \/ \E at \in Targets : SetRef(r, "tag", at)
    /\ NamesEnd'
    /\ UNCHANGED snaps
    /\ KeptAt(r, {})
    /\ Ends(c)
    /\ UnchangedOthers /\ UNCHANGED <<mr, fails>>

\* handleSetRef: the client names the kind, and any string as the target.
Elusive(at) == at[1] # "hash" \/ at[2] = 0

PostRef(c, r, kind, at) ==
    /\ Does(c, "setref")
    /\ SetRef(r, kind, at) /\ NamesEnd'
    /\ UNCHANGED snaps
    /\ KeptAt(r, {})
    /\ Ends(c)
    /\ given' = IF Elusive(at) THEN given \cup {at} ELSE given
    /\ blind' = (blind \/ (r = Main /\ at[1] = "rev" /\ Pushed(at[2])))
    /\ UNCHANGED <<mr, mirror, remote, push, fails>>

\* Rebase: revision i gets a new snapshot, its changes on top of the parents.
Rebased(c, i, parents) ==
    /\ Committed(i, parents, Merge3(TreeOf(FirstParent(RevHash(i))), TreeOf(First(parents)), TreeOf(RevHash(i))))
    /\ UNCHANGED refs
    /\ kept' = [s \in Names |-> IF Changed(s) THEN {} ELSE kept[s]]
    /\ Ends(c)
    /\ blind' = (blind \/ Pushed(i))
    /\ UNCHANGED <<mr, mirror, remote, push, fails, given>>

Rebase(c) == Does(c, "rebase") /\ \E i \in RevIDs, parents \in ParentLists : Rebased(c, i, parents)

\* The vcs-rebase tool takes the parent from GetBranchHead: the first entry
\* of Revisions, which ignores the branch and lists the whole log.
RebaseTool(c) ==
    /\ Does(c, "vcs-rebase") /\ Len(snaps) > 0
    /\ UNCHANGED <<refs, snaps>>
    /\ Opened(c, "vcs-rebase", Main, <<>>, {}, RevHash(NewestRev))
    /\ UnchangedOthers /\ UNCHANGED <<mr, fails, kept>>
RebaseToolLands(c) ==
    /\ calls[c].step = "land" /\ calls[c].op = "vcs-rebase"
    /\ \E i \in RevIDs : Rebased(c, i, <<calls[c].base>>)

-----------------------------------------------------------------------------
\* The change request.
CreateMergeRequest(c, source, target) ==
    /\ Does(c, "mr") /\ mr.state = "none"
    /\ mr' = [state |-> "open", source |-> source, target |-> target, rev |-> 0]
    /\ UNCHANGED <<refs, snaps, fails, kept>>
    /\ Ends(c)
    /\ UnchangedOthers

\* UpdateMergeRequest sets any state from any state.
UpdateMergeRequest(c, state) ==
    /\ Does(c, "mr") /\ mr.state # "none"
    /\ mr' = [mr EXCEPT !.state = state]
    /\ UNCHANGED <<refs, snaps, fails, kept>>
    /\ Ends(c)
    /\ UnchangedOthers

\* MergeMergeRequest, in any state of the request: read source and target,
\* then commit the merge on top of the target and set the state.
MergeMergeRequest(c) ==
    /\ Does(c, "merge") /\ mr.state # "none"
    /\ IsRef(mr.source) /\ Resolve(mr.source) # 0
    /\ IsRef(mr.target) /\ Resolve(mr.target) # 0
    /\ UNCHANGED <<refs, snaps>>
    /\ Becomes(c, [NewCall EXCEPT !.op = "merge", !.step = "land", !.ref = mr.target,
                                  !.base = Resolve(mr.target), !.source = Resolve(mr.source)])
    /\ UnchangedOthers /\ UNCHANGED <<mr, fails, kept>>

\* The tools of a session on branch b: vcs-mr-create opens a request from b
\* unless a source is named, and vcs-mr-merge is for the default branch's
\* session, whatever the target of the request.
DefaultBranch == Main
MergeRequestTool(c, b, source, target) == CreateMergeRequest(c, IF source = <<>> THEN b ELSE source, target)
MergeTool(c, b) == b = DefaultBranch /\ MergeMergeRequest(c)

MergeSides(c) == <<TreeOf(calls[c].source), TreeOf(calls[c].base)>>
MergeLands(c) == LET tgt == calls[c].base IN
    /\ calls[c].step = "land" /\ calls[c].op = "merge"
    /\ Committed(Next1, <<tgt>>, Merge3(TreeOf(FirstParent(tgt)), MergeSides(c)[1], MergeSides(c)[2]))
    /\ mr' = [mr EXCEPT !.state = "merged", !.rev = Next1]
    /\ UNCHANGED <<refs, fails, kept>>
    /\ Ends(c)
    /\ UnchangedOthers

-----------------------------------------------------------------------------
\* The push mirror.  SetMirror replaces the record; DeleteMirror drops it.
InFlight == \E p \in DOMAIN push : push[p].step # "idle"

SetMirror(c, u) ==
    /\ Does(c, "mirror")
    /\ mirror' = [on |-> TRUE, url |-> u, last |-> <<>>]
    /\ blind' = InFlight
    /\ UNCHANGED <<snaps, refs, mr, remote, push, fails, given, kept>>
    /\ Ends(c)

DeleteMirror(c) ==
    /\ Does(c, "mirror")
    /\ mirror.on
    /\ mirror' = NoMirror
    /\ UNCHANGED <<snaps, refs, mr, remote, push, fails, given, kept, blind>>
    /\ Ends(c)

\* A push reads the record of the mirror and the tip it will send.
StartsPush(p) ==
    /\ mirror.on /\ push[p].step = "idle"
    /\ push' = [push EXCEPT ![p] = [step |-> IF Resolve(Main) = 0 THEN "failed" ELSE "sending",
                                    url |-> mirror.url, last |-> mirror.last, seen |-> Resolve(Main)]]
    /\ blind' = (blind \/ InFlight)

\* pushDirtyMirrors: the target of the default branch is not what was recorded.
LoopPushes ==
    /\ \/ mirror.last = <<>>
       \/ IsBranch(Main) /\ refs[Main].at # mirror.last
    /\ StartsPush(Loop)
    /\ UNCHANGED <<snaps, refs, calls, mr, mirror, remote, fails, given, kept>>

SyncMirror(c) ==
    /\ Does(c, "sync")
    /\ StartsPush(c)
    /\ UNCHANGED <<snaps, refs, mr, mirror, remote, fails, given, kept>>
    /\ Ends(c)

PushSent(p) ==
    /\ push[p].step = "sending"
    /\ remote' = [remote EXCEPT ![push[p].url] = push[p].seen]
    /\ push' = [push EXCEPT ![p].step = "sent"]
    /\ UNCHANGED <<snaps, refs, calls, mr, mirror, fails, given, kept, blind>>

\* UpdatePushMirrorSync: the revision pushed, or the one recorded before.
SyncedTip(p) == IF Resolve(Main) = 0 THEN mirror.last ELSE <<"rev", snaps[Resolve(Main)].rev>>
Synced(p)    == <<"rev", snaps[push[p].seen].rev>>
Records(last) == mirror' = IF mirror.on THEN [mirror EXCEPT !.last = last] ELSE mirror

PushRecorded(p) ==
    /\ push[p].step = "sent"
    /\ Records(Synced(p))
    /\ push' = [push EXCEPT ![p] = NoPush]
    /\ UNCHANGED <<snaps, refs, calls, mr, remote, fails, given, kept, blind>>

PushBreaks(p) ==
    /\ fails > 0 /\ fails' = fails - 1
    /\ push[p].step = "sending"
    /\ push' = [push EXCEPT ![p].step = "failed"]
    /\ UNCHANGED <<snaps, refs, calls, mr, mirror, remote, given, kept, blind>>

PushFailed(p) ==
    /\ push[p].step = "failed"
    /\ Records(push[p].last)
    /\ push' = [push EXCEPT ![p] = NoPush]
    /\ UNCHANGED <<snaps, refs, calls, mr, remote, fails, given, kept, blind>>

-----------------------------------------------------------------------------
\* A new repository, or one with a commit on the default branch, perhaps a
\* second branch made from it, and perhaps an open change request.
Seeded == <<[rev |-> 1, parents |-> <<>>, tree |-> Empty]>>
Seeds  == {[r \in Names |-> CASE r = Main -> [kind |-> "branch", at |-> <<"rev", 1>>]
                              [] r \in S  -> [kind |-> "branch", at |-> <<"hash", 1>>]
                              [] OTHER    -> NoRef] : S \in SUBSET (Branches \ {Main})}
Opens  == {[state |-> "open", source |-> b, target |-> Main, rev |-> 0] : b \in Branches \ {Main}}

Init ==
    /\ \/ snaps = <<>> /\ refs = [r \in Names |-> NoRef] /\ mr = NoMR
       \/ snaps = Seeded /\ refs \in Seeds /\ mr \in {NoMR} \cup Opens
    /\ calls = [c \in Calls |-> NewCall]
    /\ mirror = NoMirror
    /\ remote = [u \in Urls |-> 0]
    /\ push = [p \in Calls \cup {Loop} |-> NoPush]
    /\ fails = MaxFails
    /\ given = {}
    /\ kept = [r \in Names |-> {}]
    /\ blind = FALSE

\* The calls.
Writes(c) ==
    \/ \E r \in Branches, f \in Files :
         WriteFiles(c, r, f) \/ EditTool(c, r, f) \/ AmendFiles(c, r, f)
           \/ PostCommit(c, r, f) \/ PostRecommit(c, r, f)
    \/ \E r \in Names, f \in Files : WriteBlob(c, r, f)
    \/ EditOpens(c) \/ WriteLands(c) \/ WriteDetached(c) \/ AmendLands(c) \/ RecommitLands(c)
    \/ PostTree(c)

MovesRefs(c) ==
    \/ \E r \in Branches, from \in Names : CreateBranch(c, r, from)
    \/ BranchLands(c)
    \/ \E r \in Names : DeleteRef(c, r)
    \/ \E r \in Names : SetTag(c, r)
    \/ \E r \in Names, kind \in {"branch", "tag"}, at \in Targets : PostRef(c, r, kind, at)
    \/ Rebase(c) \/ RebaseTool(c) \/ RebaseToolLands(c)

Requests(c) ==
    \/ \E s, t \in Branches : CreateMergeRequest(c, s, t)
    \/ \E state \in {"open", "closed", "merged"} : UpdateMergeRequest(c, state)
    \/ \E b, t \in Branches, s \in Branches \cup {<<>>} : MergeRequestTool(c, b, s, t)
    \/ \E b \in Branches : MergeTool(c, b)
    \/ MergeMergeRequest(c) \/ MergeLands(c)

Mirrors ==
    \/ \E c \in Calls : SyncMirror(c) \/ DeleteMirror(c) \/ \E u \in Urls : SetMirror(c, u)
    \/ LoopPushes
    \/ \E p \in Calls \cup {Loop} : PushSent(p) \/ PushRecorded(p) \/ PushBreaks(p) \/ PushFailed(p)

Next == Mirrors \/ \E c \in Calls : Writes(c) \/ MovesRefs(c) \/ Requests(c)

Spec == Init /\ [][Next]_labVars

-----------------------------------------------------------------------------
Marks == {<<>>} \cup {<<"rev", i>> : i \in RevIDs}

\* Every parent and record names a snapshot or a revision that exists, and so
\* does a target that is no name and not nothing; a parent is older than its
\* child.
TypeOK ==
    /\ \A h \in 1..Len(snaps) :
         /\ snaps[h].rev \in 1..h /\ snaps[h].tree \in [Files -> SUBSET Calls]
         /\ snaps[h].parents \in Seq(1..(h - 1))
    /\ refs \in [Names -> [kind : {"none", "branch", "tag"}, at : Targets]]
    /\ calls \in [Calls -> [op : Ops \cup {"none", "recommit"}, step : {"new", "open", "land", "done"}, ref : Names,
                            file : Files \cup {<<>>}, content : SUBSET Calls, base : 0..Len(snaps),
                            source : 0..Len(snaps), raced : BOOLEAN]]
    /\ mr \in [state : {"none", "open", "closed", "merged"}, source : Branches, target : Branches,
               rev : 0..Len(snaps)]
    /\ mirror \in [on : BOOLEAN, url : Urls \cup {<<>>}, last : Marks]
    /\ remote \in [Urls -> 0..Len(snaps)]
    /\ push \in [Calls \cup {Loop} -> [step : {"idle", "sending", "sent", "failed"},
                                       url : Urls \cup {<<>>}, last : Marks, seen : 0..Len(snaps)]]
    /\ fails \in 0..MaxFails /\ given \subseteq Targets /\ kept \in [Names -> SUBSET Calls] /\ blind \in BOOLEAN

\* A branch that exists resolves, unless it stores a string that a REST
\* client made a target (main.go, handleSetRef): whatever was deleted, moved
\* or made since, no other call leaves a branch that later calls refuse.  A
\* tag may fail, since SetTag stores any string (connlab_repo.go, SetTag).
BranchesResolve == \A b \in Branches : IsBranch(b) /\ refs[b].at \notin given => Resolve(b) # 0

\* A write that answered OK, on a branch nobody else moved between its read
\* and its SetRef, stays in the branch until a call replaces that file, or
\* moves the branch elsewhere.  (applyFileChanges, WriteBlob, handleCommit.)
SerialWritesSurvive == \A r \in Names : \A c \in kept[r] : c \in TreeOf(Resolve(r))[calls[c].file]

\* A branch is a copy: no call on one branch changes what another holds, but
\* for the branches at a revision or a name that a REST client has named.
\* (CreateBranch stores the hash, not the revision or the name of its source.)
Content(b) == IF IsBranch(b) THEN TreeOf(Resolve(b)) ELSE Empty
Own(b) == {refs[b].at, refs'[b].at} \cap given' = {}
BranchesIndependent ==
    [][\A a, b \in Branches : a # b /\ Own(a) /\ Own(b) =>
         Content(a)' = Content(a) \/ Content(b)' = Content(b)]_labVars

\* When no push is running and the mirror's record is the target of the
\* default branch, so that the loop sees nothing to push, the destination
\* holds the tip; unless pushes overlapped, the record was replaced during a
\* push, or a revision already pushed got a new snapshot or was set as the
\* default branch's target over REST.  (pushDirtyMirrors)
MirrorClean ==
    (mirror.on /\ ~InFlight /\ IsBranch(Main) /\ refs[Main].at = mirror.last)
        => remote[mirror.url] = Resolve(Main) \/ blind

-----------------------------------------------------------------------------
\* tools.go has the edit tool pass the sha it read "so a concurrent edit is
\* rejected (409) instead of clobbered": the text an edit replaces is the
\* text it read.
EditsNeverClobber ==
    [][\A c \in Calls : calls[c].op = "edit" /\ calls[c].step = "land" /\ snaps' # snaps
                          /\ calls'[c].step = "done" /\ refs' # refs
         => TreeOf(Resolve(calls[c].ref))[calls[c].file] = calls[c].content \ {c}]_labVars

\* merge_core.go has MergeMergeRequest "merge a change request's source tree
\* into its target": the merge it makes becomes the tip of the target.
MergedIsLanded == [][mr'.rev # mr.rev => Resolve(mr.target)' = mr'.rev]_labVars
=============================================================================
