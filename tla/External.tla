------------------------------- MODULE External -------------------------------
(***************************************************************************)
(* Workers that run outside the cluster (cmd/easylab connsandbox.go):      *)
(* RegisterExternalSandbox adopts one under a name, with an enrollment     *)
(* code or a token, ReleaseExternalSandbox gives it back, and              *)
(* SyncWorkspace pushes the tree of the branch into it.  The registry      *)
(* (sbxreg) keeps one row a name.  Any of the calls may overlap, workers   *)
(* restart, and calls on workers fail or lose their answer.                *)
(*                                                                         *)
(* The worker's side of enrollment is external.  The names here are those  *)
(* of external sandboxes; a launch under one of them is not modelled.      *)
(***************************************************************************)
EXTENDS Naturals

CONSTANTS
    Calls,        \* the calls of this instance; each is made once
    Names,        \* names of sandboxes
    Workers,      \* external workers, by address
    Nowhere,      \* no address
    MaxCommits,   \* bound: commits to the branch
    MaxRestarts,  \* bound: restarts of workers
    MaxLosses     \* bound: calls that fail, or whose answer is lost

ASSUME ExternalAssumption ==
    /\ Names # {} /\ Nowhere \notin Workers
    /\ {MaxCommits, MaxRestarts, MaxLosses} \subseteq Nat

VARIABLES
    worker,   \* each worker: its token, boot id and workspace
    rows,     \* sbxreg: the registration of each name
    head,     \* the revision at the head of the branch
    call,     \* what each call does and has read
    left,     \* what is left of the bounds
    synced,   \* history: names whose record of a sync is that sync's own
    shared,   \* history: tokens given to a call while a row or a call had them
    revoked   \* history: tokens that a release has revoked

vars == <<worker, rows, head, call, left, synced, shared, revoked>>

None   == <<>>            \* no token, no boot id
NoRev  == 0               \* the empty revision
Minted(w) == {w} \X Nat   \* tokens, and boot ids, of a worker
NoRow  == [addr |-> Nowhere, token |-> None, rev |-> NoRev, boot |-> None]
NewCall == [op |-> "none", pc |-> "new", name |-> CHOOSE n \in Names : TRUE, addr |-> Nowhere,
            token |-> None, rev |-> NoRev, boot |-> None, alone |-> TRUE]

At(c, pc)      == call[c].pc = pc
Registered(n)  == rows[n].addr # Nowhere
Worker(n)      == worker[rows[n].addr]
\* wc: the address and the token of the row; the worker must know the token.
Usable(n)      == Registered(n) /\ Worker(n).token = rows[n].token

\* ListExternalSandboxes asks the worker of every row that has an address and
\* a token.
ShownReachable(n) == Registered(n) /\ rows[n].token # None /\ Worker(n).token = rows[n].token

Goes(c, to)    == call' = [call EXCEPT ![c] = to]
Begins(c, to)  == At(c, "new") /\ Goes(c, to)
Ends(c, answer) == Goes(c, [NewCall EXCEPT !.pc = answer])
Loses          == left.losses > 0 /\ left' = [left EXCEPT !.losses = @ - 1]

\* A row is written or dropped: the syncs of its name do not run alone.
Replaces(c, n) ==
    /\ call' = [d \in Calls |-> IF d = c THEN [NewCall EXCEPT !.pc = "ok"]
                                ELSE IF call[d].op = "sync" /\ call[d].name = n
                                THEN [call[d] EXCEPT !.alone = FALSE] ELSE call[d]]
    /\ synced' = synced \ {n}

-----------------------------------------------------------------------------
\* RegisterExternalSandbox: claim the worker, or take the token given; check
\* the token against the worker; save the row.
Taken(t) == (\E n \in Names : rows[n].token = t) \/ (\E d \in Calls : call[d].token = t)
Register(c, n, w) == LET new == [NewCall EXCEPT !.op = "register", !.name = n, !.addr = w] IN
    /\ \/ Begins(c, [new EXCEPT !.pc = "claim"]) /\ UNCHANGED shared
       \/ /\ worker[w].token # None
          /\ Begins(c, [new EXCEPT !.pc = "verify", !.token = worker[w].token])
          /\ shared' = shared \cup {t \in {worker[w].token} : Taken(t)}
    /\ UNCHANGED <<worker, rows, head, left, synced, revoked>>

Claimed(w)  == [worker[w] EXCEPT !.token = <<w, worker[w].claims + 1>>, !.claims = @ + 1]
Freed(w)    == [worker[w] EXCEPT !.token = None]

Claim(c) == LET w == call[c].addr IN
    /\ At(c, "claim")
    /\ IF worker[w].token = None
       THEN /\ worker' = [worker EXCEPT ![w] = Claimed(w)]
            /\ Goes(c, [call[c] EXCEPT !.pc = "verify", !.token = Claimed(w).token])
       ELSE Ends(c, "failed") /\ UNCHANGED worker
    /\ UNCHANGED <<rows, head, left, synced, shared, revoked>>

Verify(c) == LET w == call[c].addr IN
    /\ At(c, "verify")
    /\ IF worker[w].token = call[c].token
       THEN Goes(c, [call[c] EXCEPT !.pc = "save", !.boot = worker[w].boot])
       ELSE Ends(c, "failed")
    /\ UNCHANGED <<worker, rows, head, left, synced, shared, revoked>>

\* Upsert keeps the revision of a row that was there; the boot id is new.
KeptToken(old, new) == [addr |-> new.addr, token |-> IF old.token = None THEN new.token ELSE old.token,
                        boot |-> new.boot, rev |-> old.rev]
Upserted(old, new)  == [addr |-> new.addr, token |-> new.token, boot |-> new.boot, rev |-> old.rev]
Save(c) == LET n == call[c].name IN
    /\ At(c, "save")
    /\ rows' = [rows EXCEPT ![n] = Upserted(rows[n], call[c])]
    /\ Replaces(c, n)
    /\ UNCHANGED <<worker, head, left, shared, revoked>>

-----------------------------------------------------------------------------
\* ReleaseExternalSandbox: the worker revokes the token the row had, and then
\* the row of that name is deleted.
Release(c, n) ==
    /\ IF Registered(n)
       THEN Begins(c, [NewCall EXCEPT !.op = "release", !.pc = "revoke", !.name = n,
                                      !.addr = rows[n].addr, !.token = rows[n].token])
       ELSE At(c, "new") /\ Ends(c, "failed")
    /\ UNCHANGED <<worker, rows, head, left, synced, shared, revoked>>

Revokes(c) == LET w == call[c].addr IN
    worker' = [worker EXCEPT ![w] = Freed(w)] /\ revoked' = revoked \cup {call[c].token}
Revoke(c) == LET w == call[c].addr IN
    /\ At(c, "revoke")
    /\ IF worker[w].token = call[c].token
       THEN Revokes(c) /\ Goes(c, [call[c] EXCEPT !.pc = "drop"])
       ELSE Ends(c, "failed") /\ UNCHANGED <<worker, revoked>>
    /\ UNCHANGED <<rows, head, left, synced, shared>>

TokenCleared(row) == [row EXCEPT !.token = None]
Dropped(row)      == NoRow
Drop(c) == LET n == call[c].name IN
    /\ At(c, "drop")
    /\ rows' = [rows EXCEPT ![n] = Dropped(rows[n])]
    /\ Replaces(c, n)
    /\ UNCHANGED <<worker, head, left, shared, revoked>>

-----------------------------------------------------------------------------
\* SyncWorkspace.  A worker that does not answer in time has no boot id.
Sync(c, n) ==
    /\ IF Registered(n)
       THEN Begins(c, [NewCall EXCEPT !.op = "sync", !.pc = "boot", !.name = n, !.rev = head])
       ELSE At(c, "new") /\ Ends(c, "failed")
    /\ UNCHANGED <<worker, rows, head, left, synced, shared, revoked>>

ReadBoot(c) == LET n == call[c].name  read(boot) == Goes(c, [call[c] EXCEPT !.pc = "check", !.boot = boot]) IN
    /\ At(c, "boot")
    /\ \/ read(IF Usable(n) THEN Worker(n).boot ELSE None) /\ UNCHANGED left
       \/ read(None) /\ Loses
    /\ UNCHANGED <<worker, rows, head, synced, shared, revoked>>

Skips(c) == LET row == rows[call[c].name] IN
    Registered(call[c].name) /\ row.rev = call[c].rev /\ row.boot # None /\ row.boot = call[c].boot
Check(c) ==
    /\ At(c, "check")
    /\ IF Skips(c) THEN Ends(c, "ok") ELSE Goes(c, [call[c] EXCEPT !.pc = "push"])
    /\ UNCHANGED <<worker, rows, head, left, synced, shared, revoked>>

Pushed(c) == worker' = [worker EXCEPT ![rows[call[c].name].addr].rev = call[c].rev]
Push(c) ==
    /\ At(c, "push")
    /\ IF Usable(call[c].name)
       THEN Pushed(c) /\ Goes(c, [call[c] EXCEPT !.pc = "mark"])
       ELSE Ends(c, "failed") /\ UNCHANGED worker
    /\ UNCHANGED <<rows, head, left, synced, shared, revoked>>

\* MarkSynced updates the row the name has by now, if any, with the boot id
\* that was read before the push.
MarkedLive(c) == IF Usable(call[c].name) THEN Worker(call[c].name).boot ELSE call[c].boot
Marked(c)     == call[c].boot
Mark(c) == LET n == call[c].name IN
    /\ At(c, "mark")
    /\ rows' = IF Registered(n) THEN [rows EXCEPT ![n].rev = call[c].rev, ![n].boot = Marked(c)] ELSE rows
    /\ synced' = IF call[c].alone THEN synced \cup {n} ELSE synced \ {n}
    /\ Ends(c, "ok")
    /\ UNCHANGED <<worker, head, left, shared, revoked>>

-----------------------------------------------------------------------------
\* A call on a worker, or on the registry, fails and leaves all as it was;
\* or it takes effect and its answer is lost.
Breaks(c) ==
    /\ call[c].pc \in {"claim", "verify", "save", "revoke", "drop", "push", "mark"}
    /\ Loses /\ Ends(c, "failed")
    /\ UNCHANGED <<worker, rows, head, synced, shared, revoked>>

AnswerLost(c) == LET w == call[c].addr IN
    /\ \/ /\ At(c, "claim") /\ worker[w].token = None
          /\ worker' = [worker EXCEPT ![w] = Claimed(w)] /\ UNCHANGED revoked
       \/ At(c, "revoke") /\ worker[w].token = call[c].token /\ Revokes(c)
       \/ At(c, "push") /\ Usable(call[c].name) /\ Pushed(c) /\ UNCHANGED revoked
    /\ Loses /\ Ends(c, "failed")
    /\ UNCHANGED <<rows, head, synced, shared>>

\* A worker that restarts has another boot id, and nothing of any push.
Restart(w) ==
    /\ left.restarts > 0 /\ left' = [left EXCEPT !.restarts = @ - 1]
    /\ worker' = [worker EXCEPT ![w].boot = <<w, @[2] + 1>>, ![w].rev = NoRev]
    /\ UNCHANGED <<rows, head, call, synced, shared, revoked>>

Commit ==
    /\ left.commits > 0 /\ left' = [left EXCEPT !.commits = @ - 1]
    /\ head' = head + 1
    /\ UNCHANGED <<worker, rows, call, synced, shared, revoked>>

-----------------------------------------------------------------------------
Init ==
    /\ \E given \in SUBSET Workers :  \* those that were started with a token
         worker = [w \in Workers |-> [token |-> IF w \in given THEN <<w, 0>> ELSE None,
                                      boot |-> <<w, 1>>, rev |-> NoRev, claims |-> 0]]
    /\ rows = [n \in Names |-> NoRow]
    /\ head = 1
    /\ call = [c \in Calls |-> NewCall]
    /\ left = [commits |-> MaxCommits, restarts |-> MaxRestarts, losses |-> MaxLosses]
    /\ synced = {}
    /\ shared = {} /\ revoked = {}

CallStep(c) ==
    \/ \E n \in Names : Sync(c, n) \/ Release(c, n) \/ \E w \in Workers : Register(c, n, w)
    \/ Claim(c) \/ Verify(c) \/ Save(c)
    \/ Revoke(c) \/ Drop(c)
    \/ ReadBoot(c) \/ Check(c) \/ Push(c) \/ Mark(c)
    \/ Breaks(c) \/ AnswerLost(c)

Next == (\E c \in Calls : CallStep(c)) \/ (\E w \in Workers : Restart(w)) \/ Commit
Spec == Init /\ [][Next]_vars

-----------------------------------------------------------------------------
\* A registration has a token and a boot id; a call that will save, or has
\* pushed, has what it takes.
Revs   == 0..(MaxCommits + 1)
Tokens == Workers \X Nat
TypeOK ==
    /\ \A w \in Workers :
         /\ worker[w].token \in {None} \cup Minted(w) /\ worker[w].boot \in Minted(w)
         /\ worker[w].rev \in Revs /\ worker[w].claims \in Nat
    /\ \A n \in Names :
         \/ rows[n] = NoRow
         \/ /\ rows[n].addr \in Workers /\ rows[n].token \in Minted(rows[n].addr)
            /\ rows[n].rev \in Revs /\ rows[n].boot \in {None} \cup Tokens
    /\ head \in Revs
    /\ \A c \in Calls :
         /\ call[c].pc \in {"new", "claim", "verify", "save", "revoke", "drop",
                            "boot", "check", "push", "mark", "ok", "failed"}
         /\ call[c].name \in Names /\ call[c].rev \in Revs /\ call[c].alone \in BOOLEAN
         /\ call[c].pc \in {"claim", "verify", "save", "revoke", "drop"} => call[c].addr \in Workers
         /\ call[c].pc \in {"verify", "save", "revoke", "drop"} => call[c].token \in Minted(call[c].addr)
         /\ call[c].pc = "save" => call[c].boot \in Minted(call[c].addr)
         /\ call[c].boot \in {None} \cup Tokens
    /\ left.commits \in 0..MaxCommits /\ left.restarts \in 0..MaxRestarts /\ left.losses \in 0..MaxLosses
    /\ synced \subseteq Names /\ shared \cup revoked \subseteq Tokens

(* As long as no call on a worker or the registry fails, what is listed is  *)
(* reachable, its token the one its worker knows ("the token + address are  *)
(* persisted so easylab's worker passthroughs keep working",                *)
(* connsandbox.go:540), whatever registrations and releases overlap and     *)
(* wherever names move, with two exceptions.  The row is about to go with   *)
(* the release that revoked its token.  Or RegisterExternalSandbox was      *)
(* given its token (connsandbox.go:552) while a registration had it, and a  *)
(* release has revoked it: of two registrations with one token, the release *)
(* of either leaves the other listed and out of reach.                      *)
RowsUsable ==
    left.losses = MaxLosses =>
      \A n \in Names : Registered(n) =>
        \/ ShownReachable(n)
        \/ rows[n].token \in shared \cap revoked
        \/ \E c \in Calls : At(c, "drop") /\ call[c].name = n /\ call[c].token = rows[n].token

(* If a row that MarkSynced wrote has the boot id its worker has now, the   *)
(* worker was sent a tree since it booted, whatever restarts came between   *)
(* the push and the mark, unless the name was registered or released        *)
(* during the sync (syncSandboxWorkspace reads the boot id first).          *)
BootMeansPushed ==
    \A n \in synced : Usable(n) /\ rows[n].boot = Worker(n).boot => Worker(n).rev # NoRev

(* "A sync is only needed when the branch head changed or the worker        *)
(* restarted" (sandboxsync.go:25-26): a sync that is skipped leaves a       *)
(* worker that still runs as it did with the tree of the revision.          *)
SkipMeansPushed ==
    [][\A c \in Calls : At(c, "check") /\ Skips(c) /\ call'[c].pc = "ok" /\ Usable(call[c].name)
           /\ Worker(call[c].name).boot = call[c].boot
         => Worker(call[c].name).rev = call[c].rev]_vars
=============================================================================
