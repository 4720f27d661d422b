--------------------------- MODULE ExternalProofs ---------------------------
(***************************************************************************)
(* What TLAPS proves of module External, for any calls, names, workers and *)
(* bounds: types, and that a recorded sync was one.                        *)
(***************************************************************************)
EXTENDS External, TLAPS

Marks      == {None} \cup Tokens
WorkerRecs == [token : Marks, boot : Tokens, rev : Revs, claims : Nat]
RowRecs    == [addr : Workers \cup {Nowhere}, token : Marks, rev : Revs, boot : Marks]
CallRecs   == [op : {"none", "register", "release", "sync"},
               pc : {"new", "claim", "verify", "save", "revoke", "drop",
                     "boot", "check", "push", "mark", "ok", "failed"},
               name : Names, addr : Workers \cup {Nowhere}, token : Marks, rev : Revs,
               boot : Marks, alone : BOOLEAN]
Lefts      == [commits : 0..MaxCommits, restarts : 0..MaxRestarts, losses : 0..MaxLosses]

WorkerOK(w, x) == x \in WorkerRecs /\ x.token \in {None} \cup Minted(w) /\ x.boot \in Minted(w)
RowOK(x)       == x \in RowRecs /\ (x = NoRow \/ (x.addr \in Workers /\ x.token \in Minted(x.addr)))
CallOK(x) ==
    /\ x \in CallRecs
    /\ x.pc \in {"claim", "verify", "save", "revoke", "drop"} => x.addr \in Workers
    /\ x.pc \in {"verify", "save", "revoke", "drop"} => x.token \in Minted(x.addr)
    /\ x.pc = "save" => x.boot \in Minted(x.addr)
    /\ x.pc \in {"boot", "check", "push", "mark"} <=> x.op = "sync"
    /\ x.op = "sync" => x.rev # NoRev

\* A boot id b that was read of worker w, now x, is not newer than x's own.
Older(b, w, x) == b # None => b[1] = w /\ b[2] <= x.boot[2]
\* If it is x's own, x was sent a tree.
Sent(b, x)     == b = x.boot => x.rev # NoRev

\* What a sync that ran alone so far knows of its row and its worker.
SyncOK(x, rs, ws) ==
    x.op = "sync" /\ x.alone =>
      LET w == rs[x.name].addr IN
      /\ w \in Workers
      /\ x.pc # "boot" => Older(x.boot, w, ws[w])
      /\ x.pc = "mark" => Sent(x.boot, ws[w])

RecordOK(row, ws) ==
    row.addr \in Workers => Older(row.boot, row.addr, ws[row.addr]) /\ Sent(row.boot, ws[row.addr])

Types ==
    /\ worker \in [Workers -> WorkerRecs] /\ \A w \in Workers : WorkerOK(w, worker[w])
    /\ rows \in [Names -> RowRecs] /\ \A n \in Names : RowOK(rows[n])
    /\ call \in [Calls -> CallRecs] /\ \A c \in Calls : CallOK(call[c])
    /\ left \in Lefts /\ head = MaxCommits + 1 - left.commits
    /\ synced \subseteq Names /\ shared \cup revoked \subseteq Tokens

Inv == /\ Types
       /\ \A c \in Calls : SyncOK(call[c], rows, worker)
       /\ \A n \in synced : RecordOK(rows[n], worker)

-----------------------------------------------------------------------------
(* Workers only grow: a worker keeps its boot id, and a tree it was sent, or *)
(* it has a newer boot id.                                                   *)
Grows == \A w \in Workers :
           \/ /\ worker'[w].boot = worker[w].boot
              /\ worker'[w].rev = worker[w].rev \/ worker'[w].rev # NoRev
           \/ worker'[w].boot = <<w, worker[w].boot[2] + 1>>

LEMMA Nats == {MaxCommits, MaxRestarts, MaxLosses} \subseteq Nat /\ Revs \subseteq Nat /\ NoRev \in Revs
BY ExternalAssumption DEF Revs, NoRev

LEMMA GrowsKeeps ==
    ASSUME Types, Types', Grows, NEW w \in Workers, NEW b \in Marks
    PROVE  /\ Older(b, w, worker[w]) => Older(b, w, worker'[w])
           /\ Older(b, w, worker[w]) /\ Sent(b, worker[w]) => Sent(b, worker'[w])
<1>1. /\ worker[w].boot \in Tokens /\ worker'[w].boot \in Tokens
      /\ worker[w].boot[2] \in Nat /\ worker'[w].boot[2] \in Nat
      /\ worker[w].boot[1] = w
  BY DEF Types, WorkerOK, WorkerRecs, Minted, Tokens
<1>2. b = None \/ (b \in Tokens /\ b[2] \in Nat)
  BY DEF Marks, Tokens
<1>3. CASE b = None
  BY <1>1, <1>3 DEF Older, Sent, None, Tokens
<1>4. CASE /\ worker'[w].boot = worker[w].boot
           /\ worker'[w].rev = worker[w].rev \/ worker'[w].rev # NoRev
  BY <1>4 DEF Older, Sent
<1>5. CASE b # None /\ worker'[w].boot = <<w, worker[w].boot[2] + 1>>
  BY <1>1, <1>2, <1>5 DEF Older, Sent
<1> QED BY <1>3, <1>4, <1>5 DEF Grows

\* The steps that leave the rows as they are, or change no address.
LEMMA Keeps ==
    ASSUME Inv, Types', Grows, \A n \in Names : rows'[n].addr = rows[n].addr,
           \A c \in Calls : call'[c] = call[c] \/ SyncOK(call'[c], rows', worker'),
           \A n \in synced' : (n \in synced /\ rows'[n] = rows[n]) \/ RecordOK(rows'[n], worker')
    PROVE  Inv'
<1>1. ASSUME NEW c \in Calls PROVE SyncOK(call'[c], rows', worker')
  <2> SUFFICES ASSUME call'[c] = call[c], call[c].op = "sync", call[c].alone
               PROVE  SyncOK(call[c], rows', worker')
    BY DEF SyncOK
  <2> DEFINE x == call[c]
             w == rows[x.name].addr
  <2>1. x.name \in Names /\ x.boot \in Marks /\ rows'[x.name].addr = w
    BY DEF Inv, Types, CallRecs
  <2>2. /\ w \in Workers
        /\ x.pc # "boot" => Older(x.boot, w, worker[w])
        /\ x.pc = "mark" => Sent(x.boot, worker[w])
    BY DEF Inv, SyncOK
  <2>3. /\ Older(x.boot, w, worker[w]) => Older(x.boot, w, worker'[w])
        /\ Older(x.boot, w, worker[w]) /\ Sent(x.boot, worker[w]) => Sent(x.boot, worker'[w])
    BY <2>1, <2>2, GrowsKeeps DEF Inv
  <2> HIDE DEF x, w
  <2>4. SyncOK(x, rows', worker')
    BY <2>1, <2>2, <2>3 DEF SyncOK
  <2> QED BY <2>4 DEF x
<1>2. ASSUME NEW n \in synced' PROVE RecordOK(rows'[n], worker')
  <2>1. CASE n \in synced /\ rows'[n] = rows[n]
    <3>1. n \in Names /\ rows[n].boot \in Marks /\ RecordOK(rows[n], worker)
      BY <2>1 DEF Inv, Types, RowRecs
    <3> QED BY <2>1, <3>1, GrowsKeeps DEF RecordOK, Inv
  <2> QED BY <1>2, <2>1
<1> QED BY <1>1, <1>2 DEF Inv

\* The steps that replace a row: no sync of its name is alone any more.
LEMMA ReplacesKeeps ==
    ASSUME Inv, Types', NEW c \in Calls, NEW n \in Names, NEW R,
           rows' = [rows EXCEPT ![n] = R], Replaces(c, n), UNCHANGED worker
    PROVE  Inv'
<1>1. \A m \in Names \ {n} : rows'[m] = rows[m]
  BY DEF Inv, Types
<1>2. ASSUME NEW d \in Calls PROVE SyncOK(call'[d], rows', worker')
  <2> DEFINE x == call[d]
  <2>1. x \in CallRecs /\ SyncOK(x, rows, worker)
    BY DEF Inv, Types
  <2>2. CASE d = c
    <3>1. call'[d] = [NewCall EXCEPT !.pc = "ok"]
      BY <2>2 DEF Replaces
    <3>2. call'[d].op = "none"
      BY <3>1 DEF NewCall
    <3> QED BY <3>2 DEF SyncOK
  <2>3. CASE d # c /\ x.op = "sync" /\ x.name = n
    <3>1. call'[d] = [x EXCEPT !.alone = FALSE]
      BY <2>3 DEF Replaces
    <3>2. call'[d].alone = FALSE
      BY <2>1, <3>1 DEF CallRecs
    <3> QED BY <3>2 DEF SyncOK
  <2>4. CASE d # c /\ ~(x.op = "sync" /\ x.name = n)
    <3>1. call'[d] = x
      BY <2>4 DEF Replaces
    <3>2. x.op = "sync" => rows'[x.name] = rows[x.name]
      BY <1>1, <2>1, <2>4 DEF CallRecs
    <3> QED BY <2>1, <3>1, <3>2 DEF SyncOK
  <2> QED BY <2>2, <2>3, <2>4
<1>3. ASSUME NEW m \in synced' PROVE RecordOK(rows'[m], worker')
  <2>1. m \in synced /\ m # n /\ m \in Names
    BY <1>3 DEF Replaces, Inv, Types
  <2> QED BY <1>1, <2>1 DEF Inv
<1> QED BY <1>2, <1>3 DEF Inv

-----------------------------------------------------------------------------
(* Calls.                                                                   *)

LEMMA NewCallType == CallOK(NewCall)
<1>1. (CHOOSE n \in Names : TRUE) \in Names
  BY ExternalAssumption
<1> DEFINE n0 == CHOOSE n \in Names : TRUE
<1> HIDE DEF n0
<1>2. n0 \in Names
  BY <1>1 DEF n0
<1>3. NewCall = [op |-> "none", pc |-> "new", name |-> n0, addr |-> Nowhere,
                 token |-> None, rev |-> NoRev, boot |-> None, alone |-> TRUE]
  BY DEF NewCall, n0
<1> QED BY <1>2, <1>3, Nats DEF CallOK, CallRecs, Marks

LEMMA EndedOK == ASSUME NEW a \in {"ok", "failed"}
                 PROVE  CallOK([NewCall EXCEPT !.pc = a]) /\ [NewCall EXCEPT !.pc = a].op = "none"
<1>1. NewCall.op = "none"
  BY DEF NewCall
<1> QED BY <1>1, NewCallType DEF CallOK, CallRecs

\* One call steps.
LEMMA OneCall ==
    ASSUME Types, NEW c \in Calls, NEW to, Goes(c, to), CallOK(to)
    PROVE  /\ call' \in [Calls -> CallRecs] /\ \A d \in Calls : CallOK(call'[d])
           /\ call'[c] = to /\ \A d \in Calls : d # c => call'[d] = call[d]
BY DEF Types, Goes, CallOK

\* One call steps, and neither rows nor workers change.
LEMMA QuietCall ==
    ASSUME Inv, NEW c \in Calls, NEW to, Goes(c, to), CallOK(to), SyncOK(to, rows, worker),
           UNCHANGED <<worker, rows, head, synced>>, shared' \cup revoked' \subseteq Tokens,
           left' \in Lefts, left'.commits = left.commits
    PROVE  Inv'
<1>1. /\ call' \in [Calls -> CallRecs] /\ \A d \in Calls : CallOK(call'[d])
      /\ call'[c] = to /\ \A d \in Calls : d # c => call'[d] = call[d]
  BY OneCall DEF Inv
<1>2. Types'
  BY <1>1 DEF Inv, Types
<1>3. \A d \in Calls : SyncOK(call'[d], rows', worker')
  BY <1>1 DEF Inv
<1> QED BY <1>2, <1>3 DEF Inv

LEMMA Losing == ASSUME Types, left' = left \/ Loses
                PROVE  left' \in Lefts /\ left'.commits = left.commits
<1>1. left \in Lefts /\ MaxLosses \in Nat
  BY ExternalAssumption DEF Types
<1> QED BY <1>1 DEF Loses, Lefts

LEMMA QuietEnd ==
    ASSUME Inv, NEW c \in Calls, NEW a \in {"ok", "failed"}, Ends(c, a),
           UNCHANGED <<worker, rows, head, synced, shared, revoked>>,
           left' = left \/ Loses
    PROVE  Inv'
<1>1. left' \in Lefts /\ left'.commits = left.commits
  BY Losing DEF Inv
<1>2. SyncOK([NewCall EXCEPT !.pc = a], rows, worker)
  BY EndedOK DEF SyncOK
<1> QED BY <1>1, <1>2, EndedOK, QuietCall DEF Ends, Inv, Types

-----------------------------------------------------------------------------
(* RegisterExternalSandbox and ReleaseExternalSandbox.                      *)

LEMMA RegisterKeeps ==
    ASSUME Inv, NEW c \in Calls, NEW n \in Names, NEW w \in Workers, Register(c, n, w)
    PROVE  Inv'
<1> DEFINE new == [NewCall EXCEPT !.op = "register", !.name = n, !.addr = w]
<1>1. /\ new \in CallRecs /\ new.op = "register" /\ new.addr = w /\ new.name = n
      /\ new.alone \in BOOLEAN
  BY NewCallType DEF CallOK, CallRecs
<1>2. worker[w].token \in {None} \cup Minted(w) /\ worker[w].token \in Marks
  BY DEF Inv, Types, WorkerOK, WorkerRecs
<1> HIDE DEF new
<1>3. CASE Begins(c, [new EXCEPT !.pc = "claim"]) /\ UNCHANGED shared
  <2> DEFINE x == [new EXCEPT !.pc = "claim"]
  <2>1. CallOK(x) /\ x.op = "register"
    BY <1>1 DEF CallOK, CallRecs
  <2>2. SyncOK(x, rows, worker)
    BY <2>1 DEF SyncOK
  <2> HIDE DEF x
  <2>3. Goes(c, x)
    BY <1>3 DEF Begins, x
  <2> QED BY <1>3, <2>1, <2>2, <2>3, QuietCall DEF Register, Inv, Types
<1>4. CASE /\ worker[w].token # None
           /\ Begins(c, [new EXCEPT !.pc = "verify", !.token = worker[w].token])
           /\ shared' = shared \cup {t \in {worker[w].token} : Taken(t)}
  <2> DEFINE x == [new EXCEPT !.pc = "verify", !.token = worker[w].token]
  <2>1. CallOK(x) /\ x.op = "register"
    BY <1>1, <1>2, <1>4 DEF CallOK, CallRecs
  <2>2. SyncOK(x, rows, worker)
    BY <2>1 DEF SyncOK
  <2> HIDE DEF x
  <2>3. Goes(c, x)
    BY <1>4 DEF Begins, x
  <2>4. shared' \cup revoked' \subseteq Tokens
    BY <1>2, <1>4 DEF Register, Inv, Types, Minted, Tokens
  <2> QED BY <1>4, <2>1, <2>2, <2>3, <2>4, QuietCall DEF Register, Inv, Types
<1> QED BY <1>3, <1>4 DEF Register, new

\* A worker's token changes.
LEMMA TokenStep ==
    ASSUME Inv, NEW c \in Calls, NEW to, Goes(c, to), CallOK(to), to.op # "sync",
           NEW w \in Workers, NEW x, WorkerOK(w, x), worker' = [worker EXCEPT ![w] = x],
           x.boot = worker[w].boot, x.rev = worker[w].rev, revoked' \subseteq Tokens,
           UNCHANGED <<rows, head, synced, shared>>, left' = left \/ Loses
    PROVE  Inv'
<1>1. /\ call' \in [Calls -> CallRecs] /\ \A d \in Calls : CallOK(call'[d])
      /\ call'[c] = to /\ \A d \in Calls : d # c => call'[d] = call[d]
  BY OneCall DEF Inv
<1>2. Types' /\ Grows
  <2>1. worker' \in [Workers -> WorkerRecs] /\ \A v \in Workers : WorkerOK(v, worker'[v])
    BY DEF Inv, Types, WorkerOK
  <2>2. left' \in Lefts /\ left'.commits = left.commits
    BY Losing DEF Inv
  <2>3. Types'
    BY <1>1, <2>1, <2>2 DEF Inv, Types
  <2>4. Grows
    BY DEF Inv, Types, Grows
  <2> QED BY <2>3, <2>4
<1>3. SyncOK(to, rows', worker')
  BY DEF SyncOK
<1> QED BY <1>1, <1>2, <1>3, Keeps

LEMMA ClaimedOK ==
    ASSUME Inv, NEW w \in Workers
    PROVE  /\ WorkerOK(w, Claimed(w)) /\ Claimed(w).token \in Minted(w) /\ Claimed(w).token \in Marks
           /\ Claimed(w).boot = worker[w].boot /\ Claimed(w).rev = worker[w].rev
           /\ WorkerOK(w, Freed(w))
           /\ Freed(w).boot = worker[w].boot /\ Freed(w).rev = worker[w].rev
<1>1. WorkerOK(w, worker[w])
  BY DEF Inv, Types
<1>2. <<w, worker[w].claims + 1>> \in Minted(w) /\ <<w, worker[w].claims + 1>> \in Tokens
  BY <1>1 DEF WorkerOK, WorkerRecs, Minted, Tokens
<1>3. /\ WorkerOK(w, Claimed(w)) /\ Claimed(w).token = <<w, worker[w].claims + 1>>
      /\ Claimed(w).boot = worker[w].boot /\ Claimed(w).rev = worker[w].rev
  <2> DEFINE x == worker[w]
             t == <<w, x.claims + 1>>
             k == x.claims + 1
  <2>1. x \in WorkerRecs /\ x.boot \in Minted(w) /\ k \in Nat /\ t \in Minted(w) /\ t \in Marks
    BY <1>1, <1>2 DEF WorkerOK, WorkerRecs, Marks
  <2>2. Claimed(w) = [x EXCEPT !.token = t, !.claims = k]
    BY DEF Claimed
  <2> HIDE DEF x, t, k
  <2>3. /\ Claimed(w) \in WorkerRecs /\ Claimed(w).token = t
        /\ Claimed(w).boot = x.boot /\ Claimed(w).rev = x.rev
    BY <2>1, <2>2 DEF WorkerRecs
  <2> QED BY <2>1, <2>3 DEF WorkerOK, x, t
<1>4. WorkerOK(w, Freed(w)) /\ Freed(w).boot = worker[w].boot /\ Freed(w).rev = worker[w].rev
  BY <1>1 DEF Freed, WorkerOK, WorkerRecs, Marks
<1> QED BY <1>2, <1>3, <1>4 DEF Marks

LEMMA ClaimKeeps ==
    ASSUME Inv, NEW c \in Calls, Claim(c)
    PROVE  Inv'
<1> DEFINE w == call[c].addr
<1>1. CallOK(call[c]) /\ w \in Workers /\ call[c].pc = "claim"
  BY DEF Inv, Types, CallOK, Claim, At
<1>2. CASE worker[w].token = None
  <2> DEFINE to == [call[c] EXCEPT !.pc = "verify", !.token = Claimed(w).token]
  <2>1. CallOK(to) /\ to.op # "sync"
    BY <1>1, ClaimedOK DEF CallOK, CallRecs
  <2>2. worker' = [worker EXCEPT ![w] = Claimed(w)] /\ Goes(c, to)
    BY <1>2 DEF Claim
  <2>3. revoked' \subseteq Tokens
    BY DEF Claim, Inv, Types
  <2> HIDE DEF to, w
  <2> QED BY <1>1, <2>1, <2>2, <2>3, ClaimedOK, TokenStep DEF Claim
<1>3. CASE worker[w].token # None
  BY <1>3, QuietEnd DEF Claim
<1> QED BY <1>2, <1>3

LEMMA VerifyKeeps ==
    ASSUME Inv, NEW c \in Calls, Verify(c)
    PROVE  Inv'
<1> DEFINE w == call[c].addr
<1>1. /\ CallOK(call[c]) /\ w \in Workers /\ call[c].pc = "verify"
      /\ worker[w].boot \in Minted(w) /\ worker[w].boot \in Marks
  BY DEF Inv, Types, CallOK, Verify, At, WorkerOK, WorkerRecs, Marks
<1>2. CASE worker[w].token = call[c].token
  <2> DEFINE to == [call[c] EXCEPT !.pc = "save", !.boot = worker[w].boot]
  <2>1. CallOK(to) /\ to.op # "sync"
    BY <1>1 DEF CallOK, CallRecs
  <2>2. Goes(c, to)
    BY <1>2 DEF Verify
  <2> HIDE DEF to
  <2>3. SyncOK(to, rows, worker)
    BY <2>1 DEF SyncOK
  <2> QED BY <2>1, <2>2, <2>3, QuietCall DEF Verify, Inv, Types
<1>3. CASE worker[w].token # call[c].token
  BY <1>3, QuietEnd DEF Verify
<1> QED BY <1>2, <1>3

\* A row is saved or dropped.
LEMMA RowStep ==
    ASSUME Inv, NEW c \in Calls, NEW n \in Names, NEW R, RowOK(R),
           rows' = [rows EXCEPT ![n] = R], Replaces(c, n), UNCHANGED <<worker, head, left, shared, revoked>>
    PROVE  Inv'
<1>1. ASSUME NEW d \in Calls PROVE CallOK(call'[d])
  <2>1. CallOK(call[d])
    BY DEF Inv, Types
  <2>2. call'[d] \in {[NewCall EXCEPT !.pc = "ok"], [call[d] EXCEPT !.alone = FALSE], call[d]}
    BY DEF Replaces
  <2>3. CallOK([call[d] EXCEPT !.alone = FALSE])
    BY <2>1 DEF CallOK, CallRecs
  <2> QED BY <2>1, <2>2, <2>3, EndedOK
<1>2. call' \in [Calls -> CallRecs]
  BY <1>1 DEF Replaces, CallOK
<1>3. rows' \in [Names -> RowRecs] /\ \A m \in Names : RowOK(rows'[m])
  BY DEF RowOK, Inv, Types
<1>4. synced' \subseteq Names
  BY DEF Replaces, Inv, Types
<1>5. Types'
  BY <1>1, <1>2, <1>3, <1>4 DEF Inv, Types
<1> QED BY <1>5, ReplacesKeeps

LEMMA SaveDrop ==
    ASSUME Inv, NEW c \in Calls, Save(c) \/ Drop(c)
    PROVE  Inv'
<1> DEFINE n == call[c].name
<1>1. n \in Names /\ RowOK(rows[n]) /\ CallOK(call[c])
  BY DEF Inv, Types, CallRecs
<1>2. CASE Save(c)
  <2>1. RowOK(Upserted(rows[n], call[c]))
    BY <1>1, <1>2 DEF Save, At, Upserted, RowOK, RowRecs, CallOK, CallRecs
  <2> QED BY <1>1, <1>2, <2>1, RowStep DEF Save
<1>3. CASE Drop(c)
  <2>1. RowOK(NoRow)
    BY Nats DEF RowOK, NoRow, RowRecs, Marks
  <2> QED BY <1>1, <1>3, <2>1, RowStep DEF Drop, Dropped
<1> QED BY <1>2, <1>3

LEMMA ReleaseKeeps ==
    ASSUME Inv, NEW c \in Calls, NEW n \in Names, Release(c, n)
    PROVE  Inv'
<1>1. CASE Registered(n)
  <2> DEFINE x == [NewCall EXCEPT !.op = "release", !.pc = "revoke", !.name = n,
                                  !.addr = rows[n].addr, !.token = rows[n].token]
  <2>1. rows[n] \in RowRecs /\ rows[n].addr \in Workers /\ rows[n].token \in Minted(rows[n].addr)
    BY <1>1 DEF Inv, Types, RowOK, RowRecs, Registered, NoRow
  <2>2. CallOK(x) /\ x.op = "release"
    BY <2>1, NewCallType DEF CallOK, CallRecs, RowRecs
  <2>3. Goes(c, x)
    BY <1>1 DEF Release, Begins
  <2> HIDE DEF x
  <2>4. SyncOK(x, rows, worker)
    BY <2>2 DEF SyncOK
  <2> QED BY <2>2, <2>3, <2>4, QuietCall DEF Release, Inv, Types
<1>2. CASE ~Registered(n)
  BY <1>2, QuietEnd DEF Release
<1> QED BY <1>1, <1>2

LEMMA RevokesOK ==
    ASSUME Inv, NEW c \in Calls, call[c].pc = "revoke", Revokes(c)
    PROVE  revoked' \subseteq Tokens
<1>1. call[c].token \in Tokens
  BY DEF Inv, Types, CallOK, Minted, Tokens
<1> QED BY <1>1 DEF Revokes, Inv, Types

LEMMA RevokeKeeps ==
    ASSUME Inv, NEW c \in Calls, Revoke(c)
    PROVE  Inv'
<1> DEFINE w == call[c].addr
<1>1. CallOK(call[c]) /\ w \in Workers /\ call[c].pc = "revoke"
  BY DEF Inv, Types, CallOK, Revoke, At
<1>2. CASE worker[w].token = call[c].token
  <2> DEFINE to == [call[c] EXCEPT !.pc = "drop"]
  <2>1. CallOK(to) /\ to.op # "sync"
    BY <1>1 DEF CallOK, CallRecs
  <2>2. worker' = [worker EXCEPT ![w] = Freed(w)] /\ Goes(c, to)
    BY <1>2 DEF Revoke, Revokes
  <2>3. revoked' \subseteq Tokens
    BY <1>1, <1>2, RevokesOK DEF Revoke
  <2> HIDE DEF to, w
  <2> QED BY <1>1, <2>1, <2>2, <2>3, ClaimedOK, TokenStep DEF Revoke
<1>3. CASE worker[w].token # call[c].token
  BY <1>3, QuietEnd DEF Revoke
<1> QED BY <1>2, <1>3

-----------------------------------------------------------------------------
(* SyncWorkspace.                                                           *)

LEMMA SyncKeeps ==
    ASSUME Inv, NEW c \in Calls, NEW n \in Names, Sync(c, n)
    PROVE  Inv'
<1>1. CASE Registered(n)
  <2> DEFINE x == [NewCall EXCEPT !.op = "sync", !.pc = "boot", !.name = n, !.rev = head]
  <2>1. head \in Revs /\ head # NoRev
    BY ExternalAssumption DEF Inv, Types, Lefts, Revs, NoRev
  <2>2. CallOK(x) /\ x.name = n /\ x.pc = "boot"
    BY <2>1, NewCallType DEF CallOK, CallRecs
  <2>3. Goes(c, x) /\ rows[n].addr \in Workers
    BY <1>1 DEF Sync, Begins, Registered, Inv, Types, RowRecs
  <2> HIDE DEF x
  <2>4. SyncOK(x, rows, worker)
    BY <2>2, <2>3 DEF SyncOK
  <2> QED BY <2>2, <2>3, <2>4, QuietCall DEF Sync, Inv, Types
<1>2. CASE ~Registered(n)
  BY <1>2, QuietEnd DEF Sync
<1> QED BY <1>1, <1>2

LEMMA ReadBootKeeps ==
    ASSUME Inv, NEW c \in Calls, ReadBoot(c)
    PROVE  Inv'
<1> DEFINE n == call[c].name
           w == rows[n].addr
<1>1. PICK b : /\ Goes(c, [call[c] EXCEPT !.pc = "check", !.boot = b])
               /\ b = None \/ (Usable(n) /\ b = Worker(n).boot)
  BY DEF ReadBoot
<1>2. left' = left \/ Loses
  BY DEF ReadBoot
<1>3. /\ CallOK(call[c]) /\ n \in Names /\ call[c].pc = "boot" /\ call[c].op = "sync"
      /\ rows[n] \in RowRecs /\ SyncOK(call[c], rows, worker)
  BY DEF Inv, Types, CallOK, CallRecs, ReadBoot, At
<1>4. Usable(n) => w \in Workers /\ Worker(n) = worker[w] /\ WorkerOK(w, worker[w])
  BY <1>3 DEF Usable, Registered, Worker, RowRecs, Inv, Types
<1>5. b \in Marks /\ (w \in Workers => Older(b, w, worker[w]))
  BY <1>1, <1>4 DEF WorkerOK, WorkerRecs, Marks, Tokens, Minted, Older
<1> DEFINE to == [call[c] EXCEPT !.pc = "check", !.boot = b]
<1>6. /\ CallOK(to) /\ to.pc = "check" /\ to.boot = b /\ to.name = n /\ to.alone = call[c].alone
      /\ to.op = "sync"
  BY <1>3, <1>5 DEF CallOK, CallRecs
<1>7. Goes(c, to)
  BY <1>1
<1> HIDE DEF to
<1>8. SyncOK(to, rows, worker)
  BY <1>3, <1>5, <1>6 DEF SyncOK
<1>9. left' \in Lefts /\ left'.commits = left.commits
  BY <1>2, Losing DEF Inv
<1> QED BY <1>6, <1>7, <1>8, <1>9, QuietCall DEF ReadBoot, Inv, Types

LEMMA CheckKeeps ==
    ASSUME Inv, NEW c \in Calls, Check(c)
    PROVE  Inv'
<1>1. CASE Skips(c)
  BY <1>1, QuietEnd DEF Check
<1>2. CASE ~Skips(c)
  <2> DEFINE to == [call[c] EXCEPT !.pc = "push"]
             x == call[c]
  <2>1. CallOK(x) /\ SyncOK(x, rows, worker) /\ x.pc = "check"
    BY DEF Inv, Types, Check, At
  <2>2. /\ CallOK(to) /\ to.pc = "push" /\ to.boot = x.boot /\ to.name = x.name
        /\ to.alone = x.alone /\ to.op = x.op
    BY <2>1 DEF CallOK, CallRecs
  <2>3. Goes(c, to)
    BY <1>2 DEF Check
  <2> HIDE DEF to, x
  <2>4. SyncOK(to, rows, worker)
    BY <2>1, <2>2 DEF SyncOK
  <2> QED BY <2>2, <2>3, <2>4, QuietCall DEF Check, Inv, Types
<1> QED BY <1>1, <1>2

\* The push reaches the worker of the row; its answer may be lost.
LEMMA PushStep ==
    ASSUME Inv, NEW c \in Calls, call[c].pc = "push", Usable(call[c].name), Pushed(c),
           NEW to, Goes(c, to), CallOK(to),
           \/ to.op = "none"
           \/ /\ to.pc = "mark" /\ to.boot = call[c].boot /\ to.name = call[c].name
              /\ to.alone = call[c].alone,
           UNCHANGED <<rows, head, synced, shared, revoked>>, left' = left \/ Loses
    PROVE  Inv'
<1> DEFINE w == rows[call[c].name].addr
           r == call[c].rev
<1>1. /\ CallOK(call[c]) /\ SyncOK(call[c], rows, worker) /\ call[c].op = "sync"
      /\ call[c].name \in Names /\ r \in Revs /\ r # NoRev
  BY DEF Inv, Types, CallOK, CallRecs
<1>2. w \in Workers /\ WorkerOK(w, worker[w])
  BY <1>1 DEF Usable, Registered, Inv, Types, RowRecs
<1> DEFINE x == [worker[w] EXCEPT !.rev = r]
<1>3. WorkerOK(w, x) /\ x.rev = r /\ x.boot = worker[w].boot
  BY <1>1, <1>2 DEF WorkerOK, WorkerRecs
<1>4. worker' = [worker EXCEPT ![w] = x]
  BY DEF Pushed
<1> HIDE DEF x
<1>5. /\ worker'[w] = x /\ \A v \in Workers : v # w => worker'[v] = worker[v]
      /\ worker' \in [Workers -> WorkerRecs] /\ \A v \in Workers : WorkerOK(v, worker'[v])
  BY <1>2, <1>3, <1>4 DEF Inv, Types, WorkerOK
<1>6. Grows
  BY <1>1, <1>3, <1>5 DEF Grows
<1>7. /\ call' \in [Calls -> CallRecs] /\ \A d \in Calls : CallOK(call'[d])
      /\ call'[c] = to /\ \A d \in Calls : d # c => call'[d] = call[d]
  BY OneCall DEF Inv
<1>8. Types'
  <2>1. left' \in Lefts /\ left'.commits = left.commits
    BY Losing DEF Inv
  <2> QED BY <1>5, <1>7, <2>1 DEF Inv, Types
<1>9. SyncOK(to, rows', worker')
  <2>1. CASE to.op = "none"
    BY <2>1 DEF SyncOK
  <2>2. CASE /\ to.pc = "mark" /\ to.boot = call[c].boot /\ to.name = call[c].name
             /\ to.alone = call[c].alone
    <3>1. call[c].alone => Older(call[c].boot, w, worker[w])
      BY <1>1 DEF SyncOK
    <3>2. call[c].alone => Older(to.boot, w, worker'[w]) /\ Sent(to.boot, worker'[w])
      BY <1>1, <1>3, <1>5, <2>2, <3>1 DEF Older, Sent
    <3> QED BY <1>2, <2>2, <3>2 DEF SyncOK
  <2> QED BY <2>1, <2>2
<1> QED BY <1>6, <1>7, <1>8, <1>9, Keeps

LEMMA PushKeeps ==
    ASSUME Inv, NEW c \in Calls, Push(c)
    PROVE  Inv'
<1>1. CASE Usable(call[c].name)
  <2> DEFINE to == [call[c] EXCEPT !.pc = "mark"]
  <2>1. call[c].pc = "push" /\ CallOK(call[c])
    BY DEF Push, At, Inv, Types
  <2>2. /\ CallOK(to) /\ to.pc = "mark" /\ to.boot = call[c].boot /\ to.name = call[c].name
        /\ to.alone = call[c].alone
    BY <2>1 DEF CallOK, CallRecs
  <2>3. Pushed(c) /\ Goes(c, to)
    BY <1>1 DEF Push
  <2> HIDE DEF to
  <2> QED BY <1>1, <2>1, <2>2, <2>3, PushStep DEF Push
<1>2. CASE ~Usable(call[c].name)
  BY <1>2, QuietEnd DEF Push
<1> QED BY <1>1, <1>2

LEMMA MarkKeeps ==
    ASSUME Inv, NEW c \in Calls, Mark(c)
    PROVE  Inv'
<1> DEFINE n == call[c].name
           to == [NewCall EXCEPT !.pc = "ok"]
           R == [rows[n] EXCEPT !.rev = call[c].rev, !.boot = call[c].boot]
<1>1. /\ CallOK(call[c]) /\ SyncOK(call[c], rows, worker) /\ call[c].pc = "mark" /\ n \in Names
      /\ call[c].op = "sync" /\ call[c] \in CallRecs /\ rows[n] \in RowRecs /\ RowOK(rows[n])
  BY DEF Inv, Types, CallOK, CallRecs, Mark, At
<1>2. /\ R \in RowRecs /\ R.addr = rows[n].addr /\ R.token = rows[n].token /\ R.boot = call[c].boot
  BY <1>1 DEF RowRecs, CallRecs
<1>3. Registered(n) => RowOK(R)
  BY <1>1, <1>2 DEF RowOK, Registered, NoRow
<1>4. rows' = IF Registered(n) THEN [rows EXCEPT ![n] = R] ELSE rows
  <2>1. Registered(n) => rows' = [rows EXCEPT ![n].rev = call[c].rev, ![n].boot = call[c].boot]
    BY DEF Mark, Marked
  <2>2. ~Registered(n) => rows' = rows
    BY DEF Mark
  <2> QED BY <1>1, <2>1, <2>2 DEF Inv, Types
<1> HIDE DEF R
<1>5. /\ rows' \in [Names -> RowRecs] /\ \A m \in Names : RowOK(rows'[m])
      /\ \A m \in Names : rows'[m].addr = rows[m].addr
      /\ \A m \in Names : m # n => rows'[m] = rows[m]
      /\ rows'[n] = R \/ rows'[n].addr = Nowhere
  BY <1>1, <1>2, <1>3, <1>4 DEF Inv, Types, Registered
<1>6. Goes(c, to) /\ CallOK(to) /\ to.op = "none"
  BY EndedOK DEF Mark, Ends
<1> HIDE DEF to
<1>7. /\ call' \in [Calls -> CallRecs] /\ \A d \in Calls : CallOK(call'[d])
      /\ call'[c] = to /\ \A d \in Calls : d # c => call'[d] = call[d]
  BY <1>6, OneCall DEF Inv
<1>8. Types' /\ UNCHANGED worker
  BY <1>1, <1>5, <1>7 DEF Mark, Inv, Types
<1>9. Grows /\ SyncOK(to, rows', worker')
  BY <1>6, <1>8 DEF Grows, SyncOK
<1>10. \A m \in synced' : (m \in synced /\ rows'[m] = rows[m]) \/ RecordOK(rows'[m], worker')
  <2>1. CASE call[c].alone
    <3>1. RecordOK(rows'[n], worker')
      BY <1>1, <1>2, <1>5, <1>8, <2>1, ExternalAssumption DEF RecordOK, SyncOK
    <3> QED BY <1>5, <2>1, <3>1 DEF Mark, Inv, Types
  <2>2. CASE ~call[c].alone
    BY <1>5, <2>2 DEF Mark, Inv, Types
  <2> QED BY <2>1, <2>2
<1> QED BY <1>5, <1>7, <1>8, <1>9, <1>10, Keeps

-----------------------------------------------------------------------------
(* What fails, and the workers.                                             *)

LEMMA LostKeeps ==
    ASSUME Inv, NEW c \in Calls, AnswerLost(c)
    PROVE  Inv'
<1> DEFINE w == call[c].addr
           to == [NewCall EXCEPT !.pc = "failed"]
<1>1. Goes(c, to) /\ CallOK(to) /\ to.op = "none" /\ UNCHANGED <<rows, head, synced, shared>> /\ Loses
  BY EndedOK DEF AnswerLost, Ends
<1> HIDE DEF to
<1>2. CASE /\ At(c, "claim") /\ worker[w].token = None
           /\ worker' = [worker EXCEPT ![w] = Claimed(w)] /\ UNCHANGED revoked
  <2>1. w \in Workers /\ revoked' \subseteq Tokens
    BY <1>2 DEF Inv, Types, CallOK, At
  <2> QED BY <1>1, <1>2, <2>1, ClaimedOK, TokenStep
<1>3. CASE At(c, "revoke") /\ worker[w].token = call[c].token /\ Revokes(c)
  <2>1. w \in Workers /\ revoked' \subseteq Tokens
    BY <1>3, RevokesOK DEF Inv, Types, CallOK, At
  <2> QED BY <1>1, <1>3, <2>1, ClaimedOK, TokenStep DEF Revokes
<1>4. CASE At(c, "push") /\ Usable(call[c].name) /\ Pushed(c) /\ UNCHANGED revoked
  BY <1>1, <1>4, PushStep DEF At
<1> QED BY <1>2, <1>3, <1>4 DEF AnswerLost

LEMMA RestartKeeps ==
    ASSUME Inv, NEW w \in Workers, Restart(w)
    PROVE  Inv'
<1> DEFINE b == <<w, worker[w].boot[2] + 1>>
           x == [worker[w] EXCEPT !.boot = b, !.rev = NoRev]
<1>1. WorkerOK(w, worker[w]) /\ worker[w].boot[2] \in Nat
  BY DEF Inv, Types, WorkerOK, Minted
<1>2. b \in Minted(w) /\ b \in Tokens
  BY <1>1 DEF Minted, Tokens
<1>3. worker' = [worker EXCEPT ![w] = x]
  BY DEF Restart, Inv, Types
<1> HIDE DEF b
<1>4. WorkerOK(w, x) /\ x.boot = b
  BY <1>1, <1>2, Nats DEF WorkerOK, WorkerRecs
<1> HIDE DEF x
<1>5. /\ worker'[w] = x /\ \A v \in Workers : v # w => worker'[v] = worker[v]
      /\ worker' \in [Workers -> WorkerRecs] /\ \A v \in Workers : WorkerOK(v, worker'[v])
  BY <1>3, <1>4 DEF Inv, Types, WorkerOK
<1>6. Grows
  BY <1>4, <1>5 DEF Grows, b
<1>7. left' \in Lefts /\ left'.commits = left.commits
  <2>1. left \in Lefts /\ MaxRestarts \in Nat
    BY ExternalAssumption DEF Inv, Types
  <2> QED BY <2>1 DEF Restart, Lefts
<1>8. Types'
  BY <1>5, <1>7 DEF Restart, Inv, Types
<1> QED BY <1>6, <1>8, Keeps DEF Restart

LEMMA CommitKeeps == Inv /\ Commit => Inv'
<1> SUFFICES ASSUME Inv, Commit PROVE Inv'
  OBVIOUS
<1>1. left \in Lefts /\ head = MaxCommits + 1 - left.commits /\ MaxCommits \in Nat
  BY ExternalAssumption DEF Inv, Types
<1>2. left' \in Lefts /\ head' = MaxCommits + 1 - left'.commits
  BY <1>1 DEF Commit, Lefts
<1>3. Types'
  BY <1>2 DEF Commit, Inv, Types
<1>4. Grows
  BY DEF Commit, Grows
<1> QED BY <1>3, <1>4, Keeps DEF Commit

LEMMA InvStep == Inv /\ [Next]_vars => Inv'
<1> SUFFICES ASSUME Inv, [Next]_vars PROVE Inv'
  OBVIOUS
<1>1. CASE UNCHANGED vars
  BY <1>1 DEF vars, Inv, Types
<1>2. ASSUME NEW c \in Calls, CallStep(c) PROVE Inv'
  <2>1. CASE Breaks(c)
    BY <2>1, QuietEnd DEF Breaks
  <2> QED BY <1>2, <2>1, RegisterKeeps, ClaimKeeps, VerifyKeeps, SaveDrop, ReleaseKeeps, RevokeKeeps,
             SyncKeeps, ReadBootKeeps, CheckKeeps, PushKeeps, MarkKeeps, LostKeeps DEF CallStep
<1> QED BY <1>1, <1>2, RestartKeeps, CommitKeeps DEF Next

LEMMA InvInit == Init => Inv
<1> SUFFICES ASSUME Init PROVE Inv
  OBVIOUS
<1>1. ASSUME NEW w \in Workers, NEW t \in {None, <<w, 0>>}
      PROVE  WorkerOK(w, [token |-> t, boot |-> <<w, 1>>, rev |-> NoRev, claims |-> 0])
  BY Nats DEF WorkerOK, WorkerRecs, Marks, Tokens, Minted
<1>2. RowOK(NoRow)
  BY Nats DEF RowOK, NoRow, RowRecs, Marks
<1>3. NewCall.op = "none"
  BY DEF NewCall
<1>4. left \in Lefts /\ head = MaxCommits + 1 - left.commits
  BY ExternalAssumption DEF Init, Lefts
<1>5. worker \in [Workers -> WorkerRecs] /\ \A w \in Workers : WorkerOK(w, worker[w])
  <2>1. PICK given \in SUBSET Workers :
          worker = [w \in Workers |-> [token |-> IF w \in given THEN <<w, 0>> ELSE None,
                                       boot |-> <<w, 1>>, rev |-> NoRev, claims |-> 0]]
    BY DEF Init
  <2> QED BY <1>1, <2>1 DEF WorkerOK
<1>6. Types
  BY <1>2, <1>4, <1>5, NewCallType DEF Init, Types, RowOK, CallOK
<1>7. \A c \in Calls : SyncOK(call[c], rows, worker)
  BY <1>3 DEF Init, SyncOK
<1> QED BY <1>6, <1>7 DEF Init, Inv

LEMMA InvAlways == Spec => []Inv
BY InvInit, InvStep, PTL DEF Spec

(* Types: a call has what its next step takes, whatever calls it met, and a *)
(* registration has a token of the worker it names (connsandbox.go).        *)
THEOREM TypeCorrect == Spec => []TypeOK
<1>1. Inv => TypeOK
  <2> SUFFICES ASSUME Inv PROVE TypeOK
    OBVIOUS
  <2>1. head \in Revs /\ left.commits \in 0..MaxCommits
        /\ left.restarts \in 0..MaxRestarts /\ left.losses \in 0..MaxLosses
    BY ExternalAssumption DEF Inv, Types, Lefts, Revs
  <2>2. \A w \in Workers : WorkerOK(w, worker[w]) /\ worker[w] \in WorkerRecs
    BY DEF Inv, Types
  <2>3. \A n \in Names : RowOK(rows[n]) /\ rows[n] \in RowRecs
    BY DEF Inv, Types
  <2>4. \A c \in Calls : CallOK(call[c]) /\ call[c] \in CallRecs
    BY DEF Inv, Types
  <2>5. synced \subseteq Names /\ shared \cup revoked \subseteq Tokens
    BY DEF Inv, Types
  <2> QED BY <2>1, <2>2, <2>3, <2>4, <2>5
          DEF TypeOK, WorkerOK, WorkerRecs, RowOK, RowRecs, CallOK, CallRecs, Marks
<1> QED BY <1>1, InvAlways, PTL

(* A row that the last sync of its name wrote, alone, carries its worker's  *)
(* boot id only if the worker was sent a tree since that boot: the boot id  *)
(* is read before the push, and a worker's boot ids only grow               *)
(* (syncSandboxWorkspace).                                                  *)
THEOREM RecordedMeansSent == Spec => []BootMeansPushed
<1>1. Inv => BootMeansPushed
  <2> SUFFICES ASSUME Inv, NEW n \in synced, Usable(n), rows[n].boot = Worker(n).boot
               PROVE  Worker(n).rev # NoRev
    BY DEF BootMeansPushed
  <2>1. rows[n].addr \in Workers /\ RecordOK(rows[n], worker)
    BY DEF Inv, Types, Usable, Registered, RowRecs
  <2> QED BY <2>1 DEF RecordOK, Sent, Worker
<1> QED BY <1>1, InvAlways, PTL

-----------------------------------------------------------------------------
(* Who holds which token.  As long as nothing fails, a token that was never *)
(* given to a second registration is held by one call until it is saved,    *)
(* then by one row, and by the releases of that row.                        *)

Own(x)       == x \notin shared
Pending(c)   == call[c].pc \in {"verify", "save"}
Releasing(c) == call[c].pc \in {"revoke", "drop"}
Holds(c, w)  == (Pending(c) \/ Releasing(c)) /\ call[c].addr = w
RowOf(n, w)  == rows[n].addr = w
Going(n)     == \E c \in Calls : At(c, "drop") /\ call[c].name = n /\ call[c].token = rows[n].token

Minting(w) ==
    /\ worker[w].token # None => worker[w].token[2] <= worker[w].claims
    /\ \A n \in Names : RowOf(n, w) => rows[n].token[2] <= worker[w].claims
    /\ \A c \in Calls : Holds(c, w) => call[c].token[2] <= worker[w].claims
ClaimHeld(w) ==
    \A c \in Calls : Pending(c) /\ Holds(c, w) /\ Own(call[c].token) =>
      /\ worker[w].token = call[c].token
      /\ \A n \in Names : RowOf(n, w) => rows[n].token # call[c].token
      /\ \A d \in Calls : d # c /\ Holds(d, w) => call[d].token # call[c].token
RowsApart(w) ==
    /\ \A n, m \in Names : n # m /\ RowOf(n, w) /\ RowOf(m, w) /\ Own(rows[n].token)
                           => rows[n].token # rows[m].token
    /\ \A c \in Calls : Releasing(c) /\ Holds(c, w) /\ Own(call[c].token) =>
         \A m \in Names : m # call[c].name /\ RowOf(m, w) => rows[m].token # call[c].token
RowsKnown(w) ==
    \A n \in Names : RowOf(n, w) =>
      worker[w].token = rows[n].token \/ Going(n) \/ rows[n].token \in shared \cap revoked
\* A token that was given out is the worker's until a release revokes it.
Known(w)     == \A c \in Calls : Holds(c, w) => call[c].token \in revoked \cup {worker[w].token}

Sole(w)  == Minting(w) /\ ClaimHeld(w) /\ RowsApart(w) /\ RowsKnown(w) /\ Known(w)
SoleInv  == left.losses = MaxLosses => \A w \in Workers : Sole(w)
\* More tokens may be shared, or revoked.
Wider    == shared \subseteq shared' /\ revoked \subseteq revoked'

\* What a step leaves alone, of worker w and of what call d holds of it.
RowsSame(w)   == \A n \in Names : RowOf(n, w)' => RowOf(n, w) /\ rows'[n].token = rows[n].token
WorkerSame(w) == worker'[w].token = worker[w].token /\ worker'[w].claims = worker[w].claims
CallSame(d)   == /\ call'[d].pc = call[d].pc /\ call'[d].addr = call[d].addr
                 /\ call'[d].token = call[d].token /\ call'[d].name = call[d].name
OthersSame(c) == \A d \in Calls : d # c => CallSame(d)
\* Call d holds nothing of w after the step, or what it has claimed.
Idle(d, w) ==
    /\ call[d].pc = "drop" => \A n \in Names : RowOf(n, w)' => n # call[d].name
    /\ \/ ~Holds(d, w)'
       \/ /\ call[d].pc = "verify" /\ call'[d].pc = "save"
          /\ call'[d].addr = call[d].addr /\ call'[d].token = call[d].token

LEMMA QuietSole ==
    ASSUME NEW w, Sole(w), RowsSame(w), WorkerSame(w), Wider, \A d \in Calls : CallSame(d) \/ Idle(d, w)
    PROVE  Sole(w)'
<1>1. \A n \in Names : RowOf(n, w)' => RowOf(n, w) /\ rows'[n].token = rows[n].token
  BY DEF RowsSame
<1>2. \A d \in Calls : Holds(d, w)' => /\ Holds(d, w) /\ call'[d].token = call[d].token
                                       /\ Pending(d)' <=> Pending(d)
                                       /\ Releasing(d)' => Releasing(d) /\ call'[d].name = call[d].name
  BY DEF CallSame, Idle, Holds, Pending, Releasing
<1>3. \A x : Own(x)' => Own(x)
  BY DEF Wider, Own
<1>4. Minting(w)'
  BY <1>1, <1>2 DEF Sole, Minting, WorkerSame
<1>5. ClaimHeld(w)'
  BY <1>1, <1>2, <1>3 DEF Sole, ClaimHeld, WorkerSame
<1>6. RowsApart(w)'
  BY <1>1, <1>2, <1>3 DEF Sole, RowsApart
<1>7. RowsKnown(w)'
  <2>1. \A n \in Names : RowOf(n, w)' /\ Going(n) => Going(n)'
    <3> SUFFICES ASSUME NEW n \in Names, RowOf(n, w)', Going(n) PROVE Going(n)'
      OBVIOUS
    <3>1. PICK d \in Calls : call[d].pc = "drop" /\ call[d].name = n /\ call[d].token = rows[n].token
      BY DEF Going, At
    <3>2. CallSame(d)
      BY <3>1 DEF Idle, RowOf
    <3> QED BY <1>1, <3>1, <3>2 DEF Going, At, CallSame
  <2> QED BY <1>1, <2>1 DEF Sole, RowsKnown, WorkerSame, Wider
<1>8. Known(w)'
  BY <1>2 DEF Sole, Known, WorkerSame, Wider
<1> QED BY <1>4, <1>5, <1>6, <1>7, <1>8 DEF Sole

LEMMA SoleInit == Init => SoleInv
<1> SUFFICES ASSUME Init, NEW w \in Workers PROVE Sole(w)
  BY DEF SoleInv
<1>1. \A n \in Names : ~RowOf(n, w)
  BY ExternalAssumption DEF Init, RowOf, NoRow
<1>2. \A c \in Calls : ~Holds(c, w)
  BY DEF Init, Holds, Pending, Releasing, NewCall
<1>3. worker[w].token # None => worker[w].token[2] <= worker[w].claims
  <2>1. PICK given \in SUBSET Workers :
          worker = [v \in Workers |-> [token |-> IF v \in given THEN <<v, 0>> ELSE None,
                                       boot |-> <<v, 1>>, rev |-> NoRev, claims |-> 0]]
    BY DEF Init
  <2> QED BY <2>1
<1> QED BY <1>1, <1>2, <1>3 DEF Sole, Minting, ClaimHeld, RowsApart, RowsKnown, Known

\* What holds a token of w holds one that w has minted.
LEMMA Held ==
    ASSUME Inv, NEW w \in Workers
    PROVE  /\ w # Nowhere /\ worker[w].claims \in Nat /\ worker[w].token \in {None} \cup Minted(w)
           /\ \A n \in Names : RowOf(n, w) => rows[n].token \in Minted(w)
           /\ \A c \in Calls : Holds(c, w) => call[c].token \in Minted(w)
<1>1. w # Nowhere
  BY ExternalAssumption
<1>2. WorkerOK(w, worker[w])
  BY DEF Inv, Types
<1>3. \A n \in Names : RowOf(n, w) => rows[n].token \in Minted(w)
  BY <1>1 DEF Inv, Types, RowOK, RowOf, NoRow
<1>4. \A c \in Calls : Holds(c, w) => call[c].token \in Minted(w)
  BY DEF Inv, Types, CallOK, Holds, Pending, Releasing
<1> QED BY <1>1, <1>2, <1>3, <1>4 DEF WorkerOK, WorkerRecs

LEMMA MintedHas == ASSUME NEW w, NEW t \in Minted(w)
                   PROVE  t # None /\ t[2] \in Nat
BY DEF Minted, None

LEMMA OneGoes == ASSUME Inv, NEW c \in Calls, NEW to, Goes(c, to)
                 PROVE  call'[c] = to /\ OthersSame(c)
BY DEF Inv, Types, Goes, OthersSame, CallSame

LEMMA OneEnds == ASSUME Inv, NEW c \in Calls, NEW a \in {"ok", "failed"}, Ends(c, a)
                 PROVE  OthersSame(c) /\ call'[c].pc = a /\ \A w \in Workers : ~Holds(c, w)'
<1> DEFINE to == [NewCall EXCEPT !.pc = a]
<1>1. to.pc = a
  BY NewCallType DEF CallOK, CallRecs
<1>2. Goes(c, to)
  BY DEF Ends
<1> HIDE DEF to
<1> QED BY <1>1, <1>2, OneGoes DEF Holds, Pending, Releasing

-----------------------------------------------------------------------------
(* The steps that leave what is held of a worker as it is.                  *)

\* The call ends, or goes on without a token.
LEMMA IdleSole ==
    ASSUME Inv, NEW c \in Calls, OthersSame(c), NEW w \in Workers, Sole(w),
           call[c].pc # "drop", ~Holds(c, w)', UNCHANGED rows, WorkerSame(w), Wider
    PROVE  Sole(w)'
<1>1. RowsSame(w)
  BY DEF RowsSame, RowOf
<1>2. \A d \in Calls : CallSame(d) \/ Idle(d, w)
  BY DEF OthersSame, Idle
<1> QED BY <1>1, <1>2, QuietSole

LEMMA SyncSole ==
    ASSUME Inv, NEW c \in Calls, NEW w \in Workers, Sole(w),
           \/ \E n \in Names : Sync(c, n)
           \/ ReadBoot(c) \/ Check(c) \/ Push(c) \/ Mark(c)
    PROVE  Sole(w)'
<1>1. call[c].pc # "drop" /\ OthersSame(c) /\ ~Holds(c, w)'
  <2> DEFINE Idles == {"boot", "check", "push", "mark"}
  <2>1. ASSUME NEW to, Goes(c, to), to.pc \in Idles PROVE OthersSame(c) /\ ~Holds(c, w)'
    BY <2>1, OneGoes DEF Holds, Pending, Releasing
  <2>2. call[c] \in CallRecs /\ NewCall \in CallRecs
    BY NewCallType DEF Inv, Types, CallOK
  <2>3. ASSUME NEW n \in Names, Sync(c, n) PROVE call[c].pc # "drop" /\ OthersSame(c) /\ ~Holds(c, w)'
    BY <2>1, <2>2, <2>3, OneEnds DEF Sync, Begins, At, CallRecs
  <2>4. CASE ReadBoot(c)
    <3>1. PICK b : Goes(c, [call[c] EXCEPT !.pc = "check", !.boot = b])
      BY <2>4 DEF ReadBoot
    <3> QED BY <2>1, <2>2, <2>4, <3>1 DEF ReadBoot, At, CallRecs
  <2>5. CASE Check(c)
    BY <2>1, <2>2, <2>5, OneEnds DEF Check, At, CallRecs
  <2>6. CASE Push(c)
    BY <2>1, <2>2, <2>6, OneEnds DEF Push, At, CallRecs
  <2>7. CASE Mark(c)
    BY <2>7, OneEnds DEF Mark, At
  <2> QED BY <2>3, <2>4, <2>5, <2>6, <2>7
<1>2. WorkerSame(w)
  <2>1. CASE Push(c)
    <3>1. WorkerOK(w, worker[w]) /\ worker \in [Workers -> WorkerRecs]
      BY DEF Inv, Types
    <3>2. CASE Usable(call[c].name)
      BY <2>1, <3>1, <3>2 DEF Push, Pushed, WorkerSame, WorkerRecs, WorkerOK
    <3>3. CASE ~Usable(call[c].name)
      BY <2>1, <3>3 DEF Push, WorkerSame
    <3> QED BY <3>2, <3>3
  <2> QED BY <2>1 DEF Sync, ReadBoot, Check, Mark, WorkerSame
<1>3. RowsSame(w)
  <2>1. CASE Mark(c)
    <3>1. call[c].name \in Names /\ rows \in [Names -> RowRecs]
      BY DEF Inv, Types, CallRecs
    <3> QED BY <2>1, <3>1 DEF Mark, RowsSame, RowOf, RowRecs
  <2> QED BY <2>1 DEF Sync, ReadBoot, Check, Push, RowsSame, RowOf
<1>4. \A d \in Calls : CallSame(d) \/ Idle(d, w)
  BY <1>1 DEF OthersSame, Idle
<1>5. Wider
  BY DEF Wider, Sync, ReadBoot, Check, Push, Mark
<1> QED BY <1>2, <1>3, <1>4, <1>5, QuietSole

LEMMA WorldSole ==
    ASSUME Inv, NEW w \in Workers, Sole(w), Commit \/ \E v \in Workers : Restart(v)
    PROVE  Sole(w)'
<1>1. WorkerSame(w)
  <2>1. worker \in [Workers -> WorkerRecs]
    BY DEF Inv, Types
  <2>2. ASSUME NEW v \in Workers, Restart(v) PROVE WorkerSame(w)
    <3>1. worker' = [worker EXCEPT ![v] = [worker[v] EXCEPT !.boot = <<v, @[2] + 1>>, !.rev = NoRev]]
      BY <2>1, <2>2 DEF Restart
    <3> QED BY <2>1, <3>1 DEF WorkerSame, WorkerRecs
  <2> QED BY <2>2 DEF Commit, WorkerSame
<1>2. UNCHANGED <<rows, call>>
  BY DEF Commit, Restart
<1>3. RowsSame(w) /\ Wider /\ \A d \in Calls : CallSame(d)
  BY <1>2 DEF RowsSame, RowOf, CallSame, Wider, Commit, Restart
<1> QED BY <1>1, <1>3, QuietSole

-----------------------------------------------------------------------------
(* The steps that move a token of a worker.                                 *)

\* The token given to a registration is one nobody has, or is shared.
LEMMA RegisterSole ==
    ASSUME Inv, NEW c \in Calls, NEW n \in Names, NEW v \in Workers, Register(c, n, v),
           NEW w \in Workers, Sole(w)
    PROVE  Sole(w)'
<1> DEFINE new == [NewCall EXCEPT !.op = "register", !.name = n, !.addr = v]
           t   == worker[v].token
<1>1. new \in CallRecs /\ new.addr = v /\ call[c].pc = "new"
  BY NewCallType DEF CallOK, CallRecs, Register, Begins, At
<1> HIDE DEF new
<1>2. UNCHANGED <<rows, revoked>> /\ WorkerSame(w)
  BY DEF Register, WorkerSame
<1>3. CASE Goes(c, [new EXCEPT !.pc = "claim"]) /\ UNCHANGED shared
  <2>1. OthersSame(c) /\ call'[c] = [new EXCEPT !.pc = "claim"]
    BY <1>3, OneGoes
  <2>2. call'[c].pc = "claim"
    BY <1>1, <2>1 DEF CallRecs
  <2>3. ~Holds(c, w)' /\ Wider
    BY <1>2, <1>3, <2>2 DEF Holds, Pending, Releasing, Wider
  <2> QED BY <1>1, <1>2, <2>1, <2>3, IdleSole
<1>4. CASE /\ t # None
           /\ Goes(c, [new EXCEPT !.pc = "verify", !.token = t])
           /\ shared' = shared \cup {x \in {t} : Taken(x)}
  <2>1. OthersSame(c) /\ call'[c] = [new EXCEPT !.pc = "verify", !.token = t]
    BY <1>4, OneGoes
  <2>2. call'[c].addr = v /\ call'[c].pc = "verify" /\ call'[c].token = t
    <3>1. t \in Marks
      BY DEF Inv, Types, WorkerRecs
    <3> HIDE DEF t
    <3> QED BY <1>1, <2>1, <3>1 DEF CallRecs
  <2>3. Wider /\ \A x : Own(x)' => Own(x) /\ (x = t => ~Taken(t))
    BY <1>2, <1>4 DEF Wider, Own
  <2>4. CASE v # w
    <3>1. ~Holds(c, w)'
      BY <2>2, <2>4 DEF Holds
    <3> QED BY <1>1, <1>2, <2>1, <2>3, <3>1, IdleSole
  <2>5. CASE v = w
    <3>1. Pending(c)' /\ ~Releasing(c)' /\ ~Releasing(c)
      BY <1>1, <2>2 DEF Pending, Releasing
    <3>2. ASSUME NEW d \in Calls, d # c
          PROVE  /\ Holds(d, w)' <=> Holds(d, w)
                 /\ Pending(d)' <=> Pending(d)
                 /\ Releasing(d)' <=> Releasing(d)
                 /\ call'[d].token = call[d].token /\ call'[d].name = call[d].name
      BY <2>1, <3>2 DEF OthersSame, CallSame, Holds, Pending, Releasing
    <3>3. \A m \in Names : RowOf(m, w)' <=> RowOf(m, w)
      BY <1>2 DEF RowOf
    <3>4. worker'[w].token = t /\ worker[w].token = t /\ worker'[w].claims = worker[w].claims
      BY <1>2, <2>5 DEF WorkerSame
    <3>5. Minting(w)'
      <4>1. \A m \in Names : RowOf(m, w)' => rows'[m].token[2] <= worker'[w].claims
        BY <1>2, <3>3, <3>4 DEF Sole, Minting
      <4>2. t[2] <= worker'[w].claims
        BY <1>4, <3>4 DEF Sole, Minting
      <4>3. \A d \in Calls : Holds(d, w)' => call'[d].token[2] <= worker'[w].claims
        BY <2>2, <3>2, <3>4, <4>2 DEF Sole, Minting
      <4> QED BY <3>4, <4>1, <4>2, <4>3 DEF Minting
    <3>6. ClaimHeld(w)'
      <4> SUFFICES ASSUME NEW d \in Calls, Pending(d)', Holds(d, w)', Own(call[d].token)'
                   PROVE  /\ worker'[w].token = call'[d].token
                          /\ \A m \in Names : RowOf(m, w)' => rows'[m].token # call'[d].token
                          /\ \A e \in Calls : e # d /\ Holds(e, w)' => call'[e].token # call'[d].token
        BY DEF ClaimHeld
      <4>1. CASE d = c
        <5>1. ~Taken(t)
          BY <2>2, <2>3, <4>1
        <5> QED BY <1>2, <2>2, <3>2, <3>3, <3>4, <4>1, <5>1 DEF Taken
      <4>2. CASE d # c
        <5>1. Pending(d) /\ Holds(d, w) /\ call'[d].token = call[d].token /\ Own(call[d].token)
          BY <2>3, <3>2, <4>2
        <5>2. /\ worker[w].token = call[d].token
              /\ \A m \in Names : RowOf(m, w) => rows[m].token # call[d].token
              /\ \A e \in Calls : e # d /\ Holds(e, w) => call[e].token # call[d].token
          BY <5>1 DEF Sole, ClaimHeld
        <5>3. call[d].token # t
          BY <2>3, <5>1 DEF Taken
        <5> QED BY <1>2, <2>2, <3>2, <3>3, <3>4, <5>1, <5>2, <5>3
      <4> QED BY <4>1, <4>2
    <3>7. RowsApart(w)'
      <4>1. \A m, k \in Names : m # k /\ RowOf(m, w)' /\ RowOf(k, w)' /\ Own(rows[m].token)'
                             => rows'[m].token # rows'[k].token
        BY <1>2, <2>3, <3>3 DEF Sole, RowsApart
      <4>2. ASSUME NEW d \in Calls, Releasing(d)', Holds(d, w)', Own(call[d].token)',
                   NEW m \in Names, m # call'[d].name, RowOf(m, w)'
            PROVE  rows'[m].token # call'[d].token
        <5>1. d # c /\ Releasing(d) /\ Holds(d, w) /\ Own(call[d].token) /\ m # call[d].name
              /\ RowOf(m, w) /\ call'[d].token = call[d].token
          BY <2>3, <3>1, <3>2, <3>3, <4>2
        <5> QED BY <1>2, <5>1 DEF Sole, RowsApart
      <4> QED BY <4>1, <4>2 DEF RowsApart
    <3>8. RowsKnown(w)'
      <4>1. \A m \in Names : Going(m) => Going(m)'
        BY <1>1, <1>2, <2>1 DEF Going, At, OthersSame, CallSame
      <4> QED BY <1>2, <2>3, <3>3, <3>4, <4>1 DEF Sole, RowsKnown, Wider
    <3>9. Known(w)'
      BY <1>2, <2>2, <3>2, <3>4 DEF Sole, Known
    <3> QED BY <3>5, <3>6, <3>7, <3>8, <3>9 DEF Sole
  <2> QED BY <2>4, <2>5
<1> QED BY <1>3, <1>4 DEF Register, Begins, new

LEMMA VerifySole ==
    ASSUME Inv, NEW c \in Calls, Verify(c), NEW w \in Workers, Sole(w)
    PROVE  Sole(w)'
<1>1. call[c] \in CallRecs /\ call[c].pc = "verify" /\ UNCHANGED <<worker, rows>>
  BY DEF Inv, Types, Verify, At
<1>2. OthersSame(c) /\ Idle(c, w)
  <2>1. CASE Ends(c, "failed")
    BY <1>1, <2>1, OneEnds DEF Idle
  <2>2. CASE Goes(c, [call[c] EXCEPT !.pc = "save", !.boot = worker[call[c].addr].boot])
    <3>1. OthersSame(c) /\ call'[c] = [call[c] EXCEPT !.pc = "save", !.boot = worker[call[c].addr].boot]
      BY <2>2, OneGoes
    <3>2. call'[c].pc = "save" /\ call'[c].addr = call[c].addr /\ call'[c].token = call[c].token
      BY <1>1, <3>1 DEF CallRecs
    <3> QED BY <1>1, <3>1, <3>2 DEF Idle
  <2> QED BY <2>1, <2>2 DEF Verify
<1>3. RowsSame(w) /\ WorkerSame(w) /\ Wider /\ \A d \in Calls : CallSame(d) \/ Idle(d, w)
  BY <1>1, <1>2 DEF RowsSame, RowOf, WorkerSame, OthersSame, Wider, Verify
<1> QED BY <1>3, QuietSole

\* A claim succeeds only when nobody holds the worker's token, and the token
\* it gets is a new one.
LEMMA ClaimSole ==
    ASSUME Inv, NEW c \in Calls, Claim(c), NEW w \in Workers, Sole(w)
    PROVE  Sole(w)'
<1> DEFINE v == call[c].addr
           t == Claimed(v).token
           to == [call[c] EXCEPT !.pc = "verify", !.token = t]
<1>1. CallOK(call[c]) /\ v \in Workers /\ call[c].pc = "claim" /\ UNCHANGED rows
  BY DEF Inv, Types, CallOK, Claim, At
<1>2. to.pc = "verify" /\ to.addr = v /\ to.token = t
  BY <1>1 DEF CallOK, CallRecs
<1>3. worker[v] \in WorkerRecs /\ t = <<v, worker[v].claims + 1>> /\ Claimed(v).claims = worker[v].claims + 1
  <2>1. worker[v] \in WorkerRecs
    BY <1>1 DEF Inv, Types
  <2> QED BY <2>1 DEF Claimed, WorkerRecs
<1> HIDE DEF to, t
<1>4. UNCHANGED <<shared, revoked>> /\ Wider
  BY DEF Claim, Wider
<1>5. CASE worker[v].token # None
  <2>1. Ends(c, "failed") /\ UNCHANGED worker
    BY <1>5 DEF Claim
  <2> QED BY <1>1, <1>4, <2>1, OneEnds, IdleSole DEF WorkerSame
<1>6. CASE worker[v].token = None
  <2>1. Goes(c, to) /\ worker' = [worker EXCEPT ![v] = Claimed(v)]
    BY <1>6 DEF Claim, to, t
  <2>2. call'[c] = to /\ OthersSame(c)
    BY <2>1, OneGoes
  <2>3. CASE v # w
    <3>1. ~Holds(c, w)' /\ WorkerSame(w)
      BY <1>2, <2>1, <2>2, <2>3 DEF Holds, WorkerSame, Inv, Types
    <3> QED BY <1>1, <1>4, <2>2, <3>1, IdleSole
  <2>4. CASE v = w
    <3>1. /\ worker'[w].token = t /\ worker'[w].claims = worker[w].claims + 1
          /\ t[2] = worker[w].claims + 1 /\ worker[w].claims \in Nat
      BY <1>3, <2>1, <2>4, Held DEF Inv, Types, t
    <3>2. \A n \in Names : RowOf(n, w) =>
             rows[n].token # None /\ rows[n].token[2] \in Nat /\ rows[n].token[2] <= worker[w].claims
      BY Held, MintedHas DEF Sole, Minting
    <3>3. \A d \in Calls : Holds(d, w) =>
             call[d].token # None /\ call[d].token[2] \in Nat /\ call[d].token[2] <= worker[w].claims
      BY Held, MintedHas DEF Sole, Minting
    <3>4. \A d \in Calls : Pending(d) /\ Holds(d, w) => ~Own(call[d].token)
      BY <1>6, <2>4, <3>3 DEF Sole, ClaimHeld
    <3>5. ASSUME NEW d \in Calls, d # c, Holds(d, w)'
          PROVE  /\ Holds(d, w) /\ call'[d].token = call[d].token /\ call'[d].name = call[d].name
                 /\ Pending(d)' => Pending(d)
                 /\ Releasing(d)' => Releasing(d)
      BY <2>2, <3>5 DEF OthersSame, CallSame, Holds, Pending, Releasing
    <3>6. call'[c].token = t /\ ~Releasing(c)'
      BY <1>2, <2>2 DEF Releasing
    <3>7. \A n \in Names : RowOf(n, w)' <=> RowOf(n, w)
      BY <1>1 DEF RowOf
    <3>8. Minting(w)'
      <4>1. \A n \in Names : RowOf(n, w)' => rows'[n].token[2] <= worker'[w].claims
        BY <1>1, <3>1, <3>2, <3>7
      <4>2. \A d \in Calls : Holds(d, w)' => call'[d].token[2] <= worker'[w].claims
        <5> SUFFICES ASSUME NEW d \in Calls, Holds(d, w)' PROVE call'[d].token[2] <= worker'[w].claims
          OBVIOUS
        <5>1. CASE d = c
          BY <3>1, <3>6, <5>1
        <5>2. CASE d # c
          BY <3>1, <3>3, <3>5, <5>2
        <5> QED BY <5>1, <5>2
      <4>3. worker'[w].token[2] <= worker'[w].claims
        BY <3>1
      <4> QED BY <4>1, <4>2, <4>3 DEF Minting
    <3>9. ClaimHeld(w)'
      <4>1. \A d \in Calls : Pending(d)' /\ Holds(d, w)' /\ Own(call[d].token)' => d = c
        BY <1>4, <3>4, <3>5 DEF Own
      <4>2. \A n \in Names : RowOf(n, w)' => rows'[n].token # t
        BY <1>1, <3>1, <3>2, <3>7
      <4>3. \A d \in Calls : d # c /\ Holds(d, w)' => call'[d].token # t
        BY <3>1, <3>3, <3>5
      <4> QED BY <3>1, <3>6, <4>1, <4>2, <4>3 DEF ClaimHeld
    <3>10. RowsApart(w)'
      BY <1>1, <1>4, <3>5, <3>6, <3>7 DEF Sole, RowsApart, Own
    <3>11. RowsKnown(w)'
      <4> SUFFICES ASSUME NEW n \in Names, RowOf(n, w), rows[n].token \notin shared \cap revoked
                   PROVE  Going(n)'
        BY <1>1, <1>4, <3>7 DEF RowsKnown
      <4>1. Going(n)
        BY <1>6, <2>4, <3>2 DEF Sole, RowsKnown
      <4> QED BY <1>1, <2>2, <4>1 DEF Going, At, OthersSame, CallSame
    <3>12. Known(w)'
      <4>1. \A d \in Calls : d # c /\ Holds(d, w)' => call'[d].token \in revoked
        BY <1>6, <2>4, <3>3, <3>5 DEF Sole, Known
      <4> QED BY <1>4, <3>1, <3>6, <4>1 DEF Known
    <3> QED BY <3>8, <3>9, <3>10, <3>11, <3>12 DEF Sole
  <2> QED BY <2>3, <2>4
<1> QED BY <1>5, <1>6

\* What Replaces leaves of the calls.
LEMMA ReplacedCalls ==
    ASSUME Inv, NEW c \in Calls, NEW n \in Names, Replaces(c, n)
    PROVE  OthersSame(c) /\ \A w \in Workers : ~Holds(c, w)'
<1>1. call'[c] = [NewCall EXCEPT !.pc = "ok"]
  BY DEF Replaces
<1>2. call'[c].pc = "ok"
  BY <1>1, NewCallType DEF CallOK, CallRecs
<1>3. ASSUME NEW d \in Calls, d # c PROVE CallSame(d)
  <2>1. call[d] \in CallRecs /\ call'[d] \in {call[d], [call[d] EXCEPT !.alone = FALSE]}
    BY <1>3 DEF Replaces, Inv, Types
  <2> QED BY <2>1 DEF CallSame, CallRecs
<1> QED BY <1>2, <1>3 DEF OthersSame, Holds, Pending, Releasing

LEMMA DropSole ==
    ASSUME Inv, NEW c \in Calls, Drop(c), NEW w \in Workers, Sole(w)
    PROVE  Sole(w)'
<1> DEFINE n == call[c].name
<1>1. n \in Names /\ rows' = [rows EXCEPT ![n] = NoRow] /\ rows \in [Names -> RowRecs] /\ Replaces(c, n)
  BY DEF Inv, Types, CallRecs, Drop, Dropped
<1>2. \A m \in Names : RowOf(m, w)' => m # n /\ rows'[m] = rows[m]
  BY <1>1, ExternalAssumption DEF RowOf, NoRow
<1>3. RowsSame(w) /\ WorkerSame(w)
  BY <1>2 DEF RowsSame, RowOf, WorkerSame, Drop
<1>4. OthersSame(c) /\ ~Holds(c, w)'
  BY <1>1, ReplacedCalls
<1>5. Wider /\ \A d \in Calls : CallSame(d) \/ Idle(d, w)
  BY <1>2, <1>4 DEF OthersSame, Idle, Wider, Drop
<1> QED BY <1>3, <1>5, QuietSole

\* The row that is saved is the only holder of the token the worker has, or
\* the token is shared.
LEMMA SaveSole ==
    ASSUME Inv, NEW c \in Calls, Save(c), NEW w \in Workers, Sole(w)
    PROVE  Sole(w)'
<1> DEFINE n == call[c].name
           t == call[c].token
<1>1. /\ n \in Names /\ call[c].pc = "save" /\ Replaces(c, n) /\ rows \in [Names -> RowRecs]
      /\ rows' = [rows EXCEPT ![n] = Upserted(rows[n], call[c])]
  BY DEF Inv, Types, CallRecs, Save, At
<1>2. /\ rows'[n].addr = call[c].addr /\ rows'[n].token = t
      /\ \A m \in Names : m # n => rows'[m] = rows[m]
  BY <1>1 DEF Upserted
<1>3. OthersSame(c) /\ ~Holds(c, w)' /\ WorkerSame(w) /\ UNCHANGED <<shared, revoked>> /\ Wider
  BY <1>1, ReplacedCalls DEF Save, WorkerSame, Wider
<1>4. CASE call[c].addr # w
  <2>1. RowsSame(w)
    BY <1>2, <1>4 DEF RowsSame, RowOf
  <2>2. \A d \in Calls : CallSame(d) \/ Idle(d, w)
    BY <1>1, <1>3 DEF OthersSame, Idle
  <2> QED BY <1>3, <2>1, <2>2, QuietSole
<1>5. CASE call[c].addr = w
  <2>1. Pending(c) /\ Holds(c, w)
    BY <1>1, <1>5 DEF Pending, Holds
  <2>2. /\ t[2] <= worker[w].claims /\ t \in revoked \cup {worker[w].token}
        /\ Own(t) => /\ worker[w].token = t
                     /\ \A m \in Names : RowOf(m, w) => rows[m].token # t
                     /\ \A d \in Calls : d # c /\ Holds(d, w) => call[d].token # t
    BY <2>1 DEF Sole, ClaimHeld, Minting, Known
  <2>3. ASSUME NEW d \in Calls, Holds(d, w)'
        PROVE  /\ d # c /\ Holds(d, w) /\ (Pending(d)' <=> Pending(d)) /\ (Releasing(d)' <=> Releasing(d))
               /\ call'[d].token = call[d].token /\ call'[d].name = call[d].name
               /\ Own(call[d].token) => (Pending(d) => call[d].token # t)
               /\ Own(t) => call[d].token # t
    <3>1. d # c /\ Holds(d, w) /\ CallSame(d)
      BY <1>3, <2>3 DEF OthersSame, CallSame, Holds, Pending, Releasing
    <3>2. Own(call[d].token) /\ Pending(d) => call[d].token # t
      BY <2>1, <3>1 DEF Sole, ClaimHeld
    <3> QED BY <2>2, <3>1, <3>2 DEF CallSame, Pending, Releasing
  <2>4. \A m \in Names : m # n => (RowOf(m, w)' <=> RowOf(m, w))
    BY <1>2 DEF RowOf
  <2> HIDE DEF n, t
  <2>5. Minting(w)'
    <3>1. \A m \in Names : RowOf(m, w)' => rows'[m].token[2] <= worker'[w].claims
      BY <1>2, <1>3, <2>2, <2>4 DEF Sole, Minting, WorkerSame
    <3>2. \A d \in Calls : Holds(d, w)' => call'[d].token[2] <= worker'[w].claims
      BY <1>3, <2>3 DEF Sole, Minting, WorkerSame
    <3> QED BY <1>3, <3>1, <3>2 DEF Sole, Minting, WorkerSame
  <2>6. ClaimHeld(w)'
    <3> SUFFICES ASSUME NEW d \in Calls, Pending(d)', Holds(d, w)', Own(call[d].token)'
                 PROVE  /\ worker'[w].token = call'[d].token
                        /\ \A m \in Names : RowOf(m, w)' => rows'[m].token # call'[d].token
                        /\ \A e \in Calls : e # d /\ Holds(e, w)' => call'[e].token # call'[d].token
      BY DEF ClaimHeld
    <3>1. Pending(d) /\ Holds(d, w) /\ Own(call[d].token) /\ call'[d].token = call[d].token /\ call[d].token # t
      BY <1>3, <2>3 DEF Own
    <3>2. /\ worker[w].token = call[d].token
          /\ \A m \in Names : RowOf(m, w) => rows[m].token # call[d].token
          /\ \A e \in Calls : e # d /\ Holds(e, w) => call[e].token # call[d].token
      BY <3>1 DEF Sole, ClaimHeld
    <3>3. \A m \in Names : RowOf(m, w)' => rows'[m].token # call'[d].token
      BY <1>2, <2>4, <3>1, <3>2
    <3>4. \A e \in Calls : e # d /\ Holds(e, w)' => call'[e].token # call'[d].token
      BY <2>3, <3>1, <3>2
    <3> QED BY <1>3, <3>1, <3>2, <3>3, <3>4 DEF WorkerSame
  <2>7. RowsApart(w)'
    <3>1. \A m, k \in Names : m # k /\ RowOf(m, w)' /\ RowOf(k, w)' /\ Own(rows[m].token)'
                           => rows'[m].token # rows'[k].token
      <4> SUFFICES ASSUME NEW m \in Names, NEW k \in Names, m # k, RowOf(m, w)', RowOf(k, w)',
                          Own(rows[m].token)', rows'[m].token = rows'[k].token
                   PROVE  FALSE
        OBVIOUS
      <4>1. Own(rows'[m].token)
        BY <1>3 DEF Own
      <4>2. CASE m = n
        <5>1. RowOf(k, w) /\ rows[k].token = t /\ Own(t)
          BY <1>2, <2>4, <4>1, <4>2
        <5> QED BY <2>2, <5>1
      <4>3. CASE k = n
        <5>1. RowOf(m, w) /\ rows[m].token = t /\ Own(t)
          BY <1>2, <2>4, <4>1, <4>3
        <5> QED BY <2>2, <5>1
      <4>4. CASE m # n /\ k # n
        <5>1. RowOf(m, w) /\ RowOf(k, w) /\ rows[m].token = rows[k].token /\ Own(rows[m].token)
          BY <1>2, <2>4, <4>1, <4>4
        <5> QED BY <5>1 DEF Sole, RowsApart
      <4> QED BY <4>2, <4>3, <4>4
    <3>2. ASSUME NEW d \in Calls, Releasing(d)', Holds(d, w)', Own(call[d].token)',
                 NEW m \in Names, m # call'[d].name, RowOf(m, w)'
          PROVE  rows'[m].token # call'[d].token
      <4>1. /\ Releasing(d) /\ Holds(d, w) /\ call'[d].token = call[d].token /\ call'[d].name = call[d].name
            /\ Own(call[d].token) /\ (Own(t) => call[d].token # t)
        BY <1>3, <2>3, <3>2 DEF Own
      <4>2. CASE m = n
        BY <1>2, <4>1, <4>2
      <4>3. CASE m # n
        BY <1>2, <2>4, <3>2, <4>1, <4>3 DEF Sole, RowsApart
      <4> QED BY <4>2, <4>3
    <3> QED BY <3>1, <3>2 DEF RowsApart
  <2>8. RowsKnown(w)'
    <3> SUFFICES ASSUME NEW m \in Names, RowOf(m, w)'
                 PROVE  \/ worker'[w].token = rows'[m].token \/ Going(m)'
                        \/ rows'[m].token \in shared' \cap revoked'
      BY DEF RowsKnown
    <3>1. CASE m = n
      BY <1>2, <1>3, <2>2, <3>1 DEF WorkerSame, Own
    <3>2. CASE m # n
      <4>1. RowOf(m, w) /\ rows'[m] = rows[m]
        BY <1>2, <2>4, <3>2
      <4>2. Going(m) => Going(m)'
        BY <1>1, <1>3, <4>1 DEF Going, At, OthersSame, CallSame
      <4> QED BY <1>3, <4>1, <4>2 DEF Sole, RowsKnown, WorkerSame
    <3> QED BY <3>1, <3>2
  <2>9. Known(w)'
    BY <1>3, <2>3 DEF Sole, Known, WorkerSame
  <2> QED BY <2>5, <2>6, <2>7, <2>8, <2>9 DEF Sole
<1> QED BY <1>4, <1>5

\* A release reads the token of a row.
LEMMA ReleaseSole ==
    ASSUME Inv, NEW c \in Calls, NEW n \in Names, Release(c, n), NEW w \in Workers, Sole(w)
    PROVE  Sole(w)'
<1>1. call[c].pc = "new" /\ UNCHANGED <<worker, rows, shared, revoked>> /\ WorkerSame(w) /\ Wider
  BY DEF Release, Begins, At, WorkerSame, Wider
<1>2. CASE ~Registered(n)
  BY <1>1, <1>2, OneEnds, IdleSole DEF Release
<1>3. CASE Registered(n)
  <2> DEFINE x == [NewCall EXCEPT !.op = "release", !.pc = "revoke", !.name = n,
                                  !.addr = rows[n].addr, !.token = rows[n].token]
  <2>1. /\ x.pc = "revoke" /\ x.name = n /\ x.addr = rows[n].addr /\ x.token = rows[n].token
    BY NewCallType DEF CallOK, CallRecs
  <2>2. Goes(c, x)
    BY <1>3 DEF Release, Begins
  <2> HIDE DEF x
  <2>3. call'[c] = x /\ OthersSame(c)
    BY <2>2, OneGoes
  <2>4. CASE ~RowOf(n, w)
    BY <1>1, <2>1, <2>3, <2>4, IdleSole DEF Holds, RowOf
  <2>5. CASE RowOf(n, w)
    <3>1. \A m \in Names : RowOf(m, w)' <=> RowOf(m, w)
      BY <1>1 DEF RowOf
    <3>2. call'[c].token = rows[n].token /\ call'[c].name = n /\ ~Pending(c)'
      BY <2>1, <2>3 DEF Pending
    <3>3. ASSUME NEW d \in Calls, d # c
          PROVE  /\ Holds(d, w)' <=> Holds(d, w)
                 /\ Pending(d)' <=> Pending(d)
                 /\ Releasing(d)' <=> Releasing(d)
                 /\ call'[d].token = call[d].token /\ call'[d].name = call[d].name
      BY <2>3, <3>3 DEF OthersSame, CallSame, Holds, Pending, Releasing
    <3>4. Minting(w)'
      <4>1. \A m \in Names : RowOf(m, w)' => rows'[m].token[2] <= worker'[w].claims
        BY <1>1, <3>1 DEF Sole, Minting
      <4>2. \A d \in Calls : Holds(d, w)' => call'[d].token[2] <= worker'[w].claims
        BY <1>1, <2>5, <3>2, <3>3 DEF Sole, Minting
      <4> QED BY <1>1, <4>1, <4>2 DEF Sole, Minting
    <3>5. ClaimHeld(w)'
      <4> SUFFICES ASSUME NEW d \in Calls, Pending(d)', Holds(d, w)', Own(call[d].token)'
                   PROVE  /\ worker'[w].token = call'[d].token
                          /\ \A m \in Names : RowOf(m, w)' => rows'[m].token # call'[d].token
                          /\ \A e \in Calls : e # d /\ Holds(e, w)' => call'[e].token # call'[d].token
        BY DEF ClaimHeld
      <4>1. d # c /\ Pending(d) /\ Holds(d, w) /\ call'[d].token = call[d].token /\ Own(call[d].token)
        BY <1>1, <3>2, <3>3 DEF Own
      <4>2. /\ worker[w].token = call[d].token
            /\ \A m \in Names : RowOf(m, w) => rows[m].token # call[d].token
            /\ \A e \in Calls : e # d /\ Holds(e, w) => call[e].token # call[d].token
        BY <4>1 DEF Sole, ClaimHeld
      <4>3. \A e \in Calls : e # d /\ Holds(e, w)' => call'[e].token # call'[d].token
        BY <2>5, <3>2, <3>3, <4>1, <4>2
      <4> QED BY <1>1, <3>1, <4>1, <4>2, <4>3
    <3>6. RowsApart(w)'
      <4>1. \A m, k \in Names : m # k /\ RowOf(m, w)' /\ RowOf(k, w)' /\ Own(rows[m].token)'
                             => rows'[m].token # rows'[k].token
        BY <1>1, <3>1 DEF Sole, RowsApart, Own
      <4>2. ASSUME NEW d \in Calls, Releasing(d)', Holds(d, w)', Own(call[d].token)',
                   NEW m \in Names, m # call'[d].name, RowOf(m, w)'
            PROVE  rows'[m].token # call'[d].token
        <5>1. CASE d = c
          <6>1. m # n /\ RowOf(m, w) /\ Own(rows[n].token)
            BY <1>1, <3>1, <3>2, <4>2, <5>1 DEF Own
          <6> QED BY <1>1, <2>5, <3>2, <5>1, <6>1 DEF Sole, RowsApart
        <5>2. CASE d # c
          <6>1. /\ Releasing(d) /\ Holds(d, w) /\ Own(call[d].token) /\ m # call[d].name /\ RowOf(m, w)
                /\ call'[d].token = call[d].token
            BY <1>1, <3>1, <3>3, <4>2, <5>2 DEF Own
          <6> QED BY <1>1, <6>1 DEF Sole, RowsApart
        <5> QED BY <5>1, <5>2
      <4> QED BY <4>1, <4>2 DEF RowsApart
    <3>7. RowsKnown(w)'
      <4>1. \A m \in Names : Going(m) => Going(m)'
        BY <1>1, <2>3 DEF Going, At, OthersSame, CallSame
      <4> QED BY <1>1, <3>1, <4>1 DEF Sole, RowsKnown
    <3>8. Known(w)'
      <4>1. CASE Going(n)
        <5>1. PICK d \in Calls : call[d].pc = "drop" /\ call[d].token = rows[n].token
          BY <4>1 DEF Going, At
        <5>2. call[d].token \in Minted(call[d].addr) /\ rows[n].token \in Minted(w)
          BY <2>5, <5>1, Held DEF Inv, Types, CallOK
        <5>3. Holds(d, w)
          BY <5>1, <5>2 DEF Holds, Releasing, Minted
        <5>4. rows[n].token \in revoked \cup {worker[w].token}
          BY <5>1, <5>3 DEF Sole, Known
        <5> QED BY <1>1, <3>2, <3>3, <5>4 DEF Sole, Known
      <4>2. CASE ~Going(n)
        <5>1. rows[n].token \in revoked \cup {worker[w].token}
          BY <2>5, <4>2 DEF Sole, RowsKnown
        <5> QED BY <1>1, <3>2, <3>3, <5>1 DEF Sole, Known
      <4> QED BY <4>1, <4>2
    <3> QED BY <3>4, <3>5, <3>6, <3>7, <3>8 DEF Sole
  <2> QED BY <2>4, <2>5
<1> QED BY <1>2, <1>3

\* The row whose token is revoked is about to go, or the token is shared.
LEMMA RevokeSole ==
    ASSUME Inv, NEW c \in Calls, Revoke(c), NEW w \in Workers, Sole(w)
    PROVE  Sole(w)'
<1> DEFINE v == call[c].addr
           to == [call[c] EXCEPT !.pc = "drop"]
<1>1. CallOK(call[c]) /\ v \in Workers /\ call[c].pc = "revoke" /\ UNCHANGED rows
  BY DEF Inv, Types, CallOK, Revoke, At
<1>2. to.pc = "drop" /\ to.addr = v /\ to.token = call[c].token /\ to.name = call[c].name
  BY <1>1 DEF CallOK, CallRecs
<1> HIDE DEF to
<1>3. UNCHANGED shared /\ Wider
  BY DEF Revoke, Revokes, Wider
<1>4. CASE worker[v].token # call[c].token
  <2>1. Ends(c, "failed") /\ UNCHANGED worker
    BY <1>4 DEF Revoke
  <2> QED BY <1>1, <1>3, <2>1, OneEnds, IdleSole DEF WorkerSame
<1>5. CASE worker[v].token = call[c].token
  <2>1. /\ Goes(c, to) /\ worker' = [worker EXCEPT ![v] = Freed(v)]
        /\ revoked' = revoked \cup {call[c].token}
    BY <1>5 DEF Revoke, Revokes, to
  <2>2. call'[c] = to /\ OthersSame(c)
    BY <2>1, OneGoes
  <2>3. CASE v # w
    <3>1. ~Holds(c, w)' /\ WorkerSame(w)
      BY <1>2, <2>1, <2>2, <2>3 DEF Holds, WorkerSame, Inv, Types
    <3> QED BY <1>1, <1>3, <2>2, <3>1, IdleSole
  <2>4. CASE v = w
    <3>1. worker'[w].claims = worker[w].claims /\ worker'[w].token = None
      BY <2>1, <2>4 DEF Freed, Inv, Types, WorkerRecs
    <3>2. Releasing(c) /\ Holds(c, w) /\ ~Pending(c)
      BY <1>1, <2>4 DEF Releasing, Holds, Pending
    <3>3. \A d \in Calls : Pending(d) /\ Holds(d, w) => ~Own(call[d].token)
      BY <1>5, <2>4, <3>2 DEF Sole, ClaimHeld
    <3>4. ASSUME NEW d \in Calls, Holds(d, w)'
          PROVE  /\ Holds(d, w) /\ (Pending(d)' <=> Pending(d)) /\ (Releasing(d)' <=> Releasing(d))
                 /\ call'[d].token = call[d].token /\ call'[d].name = call[d].name
      <4>1. CASE d = c
        BY <1>2, <2>2, <3>2, <4>1 DEF Pending, Releasing
      <4>2. CASE d # c
        BY <2>2, <3>4, <4>2 DEF OthersSame, CallSame, Holds, Pending, Releasing
      <4> QED BY <4>1, <4>2
    <3>5. \A m \in Names : RowOf(m, w)' <=> RowOf(m, w)
      BY <1>1 DEF RowOf
    <3>6. Minting(w)' /\ ClaimHeld(w)' /\ RowsApart(w)'
      <4>1. Minting(w)'
        BY <1>1, <3>1, <3>4, <3>5 DEF Sole, Minting
      <4>2. ClaimHeld(w)'
        BY <1>3, <3>3, <3>4 DEF ClaimHeld, Own
      <4>3. RowsApart(w)'
        BY <1>1, <1>3, <3>4, <3>5 DEF Sole, RowsApart, Own
      <4> QED BY <4>1, <4>2, <4>3
    <3>7. RowsKnown(w)'
      <4> SUFFICES ASSUME NEW n \in Names, RowOf(n, w)
                   PROVE  Going(n)' \/ rows[n].token \in shared' \cap revoked'
        BY <1>1, <3>5 DEF RowsKnown
      <4>1. CASE rows[n].token = call[c].token
        <5>1. n = call[c].name \/ call[c].token \in shared
          BY <3>2, <4>1 DEF Sole, RowsApart, Own
        <5>2. CASE n = call[c].name
          BY <1>1, <1>2, <2>2, <4>1, <5>2 DEF Going, At
        <5>3. CASE call[c].token \in shared
          BY <1>3, <2>1, <4>1, <5>3
        <5> QED BY <5>1, <5>2, <5>3
      <4>2. CASE rows[n].token # call[c].token
        <5>1. Going(n) \/ rows[n].token \in shared \cap revoked
          BY <1>5, <2>4, <4>2 DEF Sole, RowsKnown
        <5>2. Going(n) => Going(n)'
          BY <1>1, <2>2, <4>2 DEF Going, At, OthersSame, CallSame
        <5> QED BY <1>3, <2>1, <5>1, <5>2
      <4> QED BY <4>1, <4>2
    <3>8. Known(w)'
      BY <1>5, <2>1, <2>4, <3>4 DEF Sole, Known
    <3> QED BY <3>6, <3>7, <3>8 DEF Sole
  <2> QED BY <2>3, <2>4
<1> QED BY <1>4, <1>5

-----------------------------------------------------------------------------
LEMMA SoleStep == Inv /\ SoleInv /\ [Next]_vars => SoleInv'
<1> SUFFICES ASSUME Inv, SoleInv, [Next]_vars, left'.losses = MaxLosses, NEW w \in Workers
             PROVE  Sole(w)'
  BY DEF SoleInv
<1>1. left \in Lefts /\ MaxLosses \in Nat
  BY ExternalAssumption DEF Inv, Types
<1>2. ~Loses
  BY <1>1 DEF Loses, Lefts
<1>3. CASE UNCHANGED vars
  <2>1. Sole(w)
    BY <1>3 DEF vars, SoleInv
  <2>2. RowsSame(w) /\ WorkerSame(w) /\ Wider /\ \A d \in Calls : CallSame(d)
    BY <1>3 DEF vars, RowsSame, RowOf, WorkerSame, CallSame, Wider
  <2> QED BY <2>1, <2>2, QuietSole
<1>4. ASSUME NEW c \in Calls, CallStep(c) PROVE Sole(w)'
  <2>1. left' = left
    BY <1>2, <1>4 DEF CallStep, Sync, Release, Register, Claim, Verify, Save, Revoke, Drop,
                      ReadBoot, Check, Push, Mark, Breaks, AnswerLost
  <2>2. Sole(w)
    BY <2>1 DEF SoleInv
  <2>3. ~Breaks(c) /\ ~AnswerLost(c)
    BY <1>2 DEF Breaks, AnswerLost
  <2> QED BY <1>4, <2>2, <2>3, SyncSole, RegisterSole, VerifySole, ClaimSole, SaveSole, DropSole,
             ReleaseSole, RevokeSole DEF CallStep
<1>5. CASE Commit \/ \E v \in Workers : Restart(v)
  <2>1. left'.losses = left.losses
    BY <1>1, <1>5 DEF Commit, Restart, Lefts
  <2> QED BY <1>5, <2>1, WorldSole DEF SoleInv
<1> QED BY <1>3, <1>4, <1>5 DEF Next

(* What is listed can be reached, for any calls on any names and workers,   *)
(* as long as none of them fails: a token is held by one claim, then by one *)
(* row and the releases of that row, so that nothing but the release of a   *)
(* row revokes its token, unless RegisterExternalSandbox was given the      *)
(* token of another registration; and then a release has revoked it         *)
(* (RegisterExternalSandbox, ReleaseExternalSandbox).                       *)
THEOREM ListedIsReachable == Spec => []RowsUsable
<1>1. Inv /\ SoleInv => RowsUsable
  <2> SUFFICES ASSUME Inv, SoleInv, left.losses = MaxLosses, NEW n \in Names, Registered(n),
                      rows[n].token \notin shared \cap revoked
               PROVE  ShownReachable(n) \/ Going(n)
    BY DEF RowsUsable, Going
  <2> DEFINE w == rows[n].addr
  <2>1. w \in Workers /\ RowOf(n, w)
    BY DEF Registered, RowOf, Inv, Types, RowRecs
  <2>2. rows[n].token # None
    BY <2>1, Held, MintedHas
  <2>3. worker[w].token = rows[n].token \/ Going(n)
    BY <2>1 DEF SoleInv, Sole, RowsKnown
  <2> QED BY <2>2, <2>3 DEF ShownReachable, Worker
<1> QED BY <1>1, InvAlways, SoleInit, SoleStep, InvInit, PTL DEF Spec
=============================================================================
