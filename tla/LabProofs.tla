------------------------------ MODULE LabProofs ------------------------------
(***************************************************************************)
(* What TLAPS proves of modules Lab and History, for any calls, branches,  *)
(* tags, files and destinations: a branch that exists resolves to a        *)
(* snapshot, no step changes what two branches hold, a write that nobody   *)
(* raced stays, a mirror that sees nothing to push is up to date, the      *)
(* types, the order of the graph, and what a clone has.                    *)
(***************************************************************************)
EXTENDS History, SequenceTheorems, FiniteSetTheorems, WellFoundedInduction, TLAPS

\* A target that resolves by itself among n snapshots of the revisions ids.
Sound(at, n, ids) == \/ \E h \in 1..n : at = <<"hash", h>>
                     \/ \E i \in ids : at = <<"rev", i>>

\* A record of the fields that a call has.
CallRecs(A) == [op : A, step : A, ref : A, file : A, content : A, base : A, source : A, raced : A]
IsCall(call) == \E A : call \in CallRecs(A)

\* A call that will set a ref has read a target that resolves.
Ready(call, n, ids) ==
    call.step = "land" =>
      /\ call.op = "branch" => call.base \in 1..n
      /\ call.op = "amend" => call.base \in ids
      /\ call.op = "recommit" => call.source \in ids

BranchInv ==
    /\ \E S : snaps \in Seq(S)
    /\ refs = [r \in Names |-> refs[r]]
    /\ calls = [c \in Calls |-> calls[c]]
    /\ \A r \in Names : IsBranch(r) /\ refs[r].at \notin given => Sound(refs[r].at, Len(snaps), RevIDs)
    /\ \A c \in Calls : IsCall(calls[c]) /\ Ready(calls[c], Len(snaps), RevIDs)

-----------------------------------------------------------------------------
(* Revisions and their hashes.                                              *)

\* A set of places in a sequence that is not empty has a last one.
LEMMA LastPlace ==
    ASSUME NEW n \in Nat, NEW P \in SUBSET (1..n), P # {}
    PROVE  \E h \in P : \A k \in P : k <= h
<1> DEFINE T == {n - h : h \in P}
<1>1. T \subseteq Nat /\ T # {}
  <2>1. PICK h \in P : TRUE
    OBVIOUS
  <2>2. n - h \in T
    BY <2>1
  <2>3. \A k \in P : n - k \in Nat
    OBVIOUS
  <2> QED BY <2>2, <2>3
<1>2. PICK x \in T : \A y \in T : ~(<<y, x>> \in OpToRel(<, Nat))
  BY <1>1, WFMin, NatLessThanWellFounded
<1>3. PICK h \in P : x = n - h
  OBVIOUS
<1>4. ASSUME NEW k \in P PROVE k <= h
  <2>1. n - k \in T /\ n - k \in Nat /\ x \in Nat
    OBVIOUS
  <2>2. ~(n - k < x)
    BY <1>2, <2>1 DEF OpToRel
  <2> QED BY <1>3, <2>2
<1> QED BY <1>4

LEMMA RevHashIs ==
    ASSUME \E S : snaps \in Seq(S), NEW i \in RevIDs
    PROVE  RevHash(i) \in 1..Len(snaps) /\ snaps[RevHash(i)].rev = i
<1> DEFINE P == {h \in 1..Len(snaps) : snaps[h].rev = i}
<1>1. Len(snaps) \in Nat /\ P \in SUBSET (1..Len(snaps)) /\ P # {}
  BY DEF RevIDs
<1>2. \E h \in P : \A k \in P : k <= h
  BY <1>1, LastPlace
<1>3. \E h \in 1..Len(snaps) :
        snaps[h].rev = i /\ \A k \in 1..Len(snaps) : snaps[k].rev = i => k <= h
  BY <1>2
<1> QED BY <1>3 DEF RevHash

LEMMA SoundResolves ==
    ASSUME BranchInv, NEW b \in Branches, IsBranch(b), refs[b].at \notin given
    PROVE  Resolve(b) # 0
<1> DEFINE at == refs[b].at
<1>1. Sound(at, Len(snaps), RevIDs) /\ Len(snaps) \in Nat
  <2>1. PICK S : snaps \in Seq(S)
    BY DEF BranchInv
  <2>2. Sound(at, Len(snaps), RevIDs)
    BY DEF BranchInv, Names
  <2> QED BY <2>1, <2>2
<1>2. Hop(Hop(at)) = at
  BY <1>1 DEF Sound, Hop
<1>3. ASSUME NEW h \in 1..Len(snaps), at = <<"hash", h>> PROVE Resolve(b) # 0
  BY <1>1, <1>2, <1>3 DEF Resolve, Direct
<1>4. ASSUME NEW i \in RevIDs, at = <<"rev", i>> PROVE Resolve(b) # 0
  <2>1. RevHash(i) # 0
    BY <1>1, <1>4, RevHashIs DEF BranchInv
  <2> QED BY <1>2, <1>4, <2>1 DEF Resolve, Direct
<1> QED BY <1>1, <1>3, <1>4 DEF Sound

\* Whatever resolves is a snapshot.
LEMMA ResolvesToSnap ==
    ASSUME BranchInv, NEW r \in Names, Resolve(r) # 0
    PROVE  Resolve(r) \in 1..Len(snaps)
<1>1. \E S : snaps \in Seq(S)
  BY DEF BranchInv
<1> QED BY <1>1, RevHashIs DEF Resolve, Direct

-----------------------------------------------------------------------------
(* Steps.                                                                   *)

\* A step of the repository, a fetch included.
LabStep == [Next]_labVars \/ \E c \in Calls : Fetch(c)

LEMMA FetchReads ==
    ASSUME NEW c \in Calls, Fetch(c)
    PROVE  /\ UNCHANGED <<snaps, refs, mr, fails, kept>> /\ UnchangedOthers
           /\ Ends(c) /\ calls[c].step # "done"
BY DEF Fetch, Does

LEMMA HistStep == [HistNext]_histVars => LabStep
BY DEF HistNext, histVars, labVars, LabStep

\* Snapshots are added, if anything.
Grows == snaps' = snaps \/ \E s : snaps' = Append(snaps, s)

LEMMA GrowsKeeps ==
    ASSUME BranchInv, Grows
    PROVE  /\ \E S : snaps' \in Seq(S)
           /\ 1..Len(snaps) \subseteq 1..Len(snaps')
           /\ RevIDs \subseteq RevIDs'
<1>1. PICK S : snaps \in Seq(S)
  BY DEF BranchInv
<1>2. CASE snaps' = snaps
  BY <1>1, <1>2 DEF RevIDs
<1>3. ASSUME NEW s, snaps' = Append(snaps, s)
      PROVE  /\ \E T : snaps' \in Seq(T)
             /\ 1..Len(snaps) \subseteq 1..Len(snaps')
             /\ RevIDs \subseteq RevIDs'
  <2> DEFINE T == S \cup {s}
  <2>1. snaps \in Seq(T) /\ s \in T
    BY <1>1
  <2> HIDE DEF T
  <2>2. /\ snaps' \in Seq(T) /\ Len(snaps') = Len(snaps) + 1 /\ Len(snaps) \in Nat
        /\ \A h \in 1..Len(snaps) : snaps'[h] = snaps[h]
    BY <1>3, <2>1, AppendProperties
  <2> QED BY <2>2 DEF RevIDs
<1> QED BY <1>1, <1>2, <1>3 DEF Grows

\* A ref is set, or deleted, if anything: a branch to a target that resolves,
\* or to one that a REST client has named.
SetsSound ==
    \/ refs' = refs
    \/ \E r, kind, at : /\ refs' = [refs EXCEPT ![r] = [kind |-> kind, at |-> at]]
                        /\ kind = "branch" => at \in given' \/ Sound(at, Len(snaps'), RevIDs')

\* One call moves, if any, and knows what it has to.
MovesReady ==
    \/ calls' = calls
    \/ \E c \in Calls : \E call : Becomes(c, call) /\ IsCall(call) /\ Ready(call, Len(snaps'), RevIDs')

LEMMA StepKeeps ==
    ASSUME BranchInv, Grows, given \subseteq given', SetsSound, MovesReady
    PROVE  BranchInv'
<1> DEFINE n == Len(snaps)
           m == Len(snaps')
           I == RevIDs
           J == RevIDs'
<1>1. /\ \E S : snaps' \in Seq(S)
      /\ 1..n \subseteq 1..m /\ I \subseteq J
  BY GrowsKeeps
<1> HIDE DEF n, m, I, J
<1>2. ASSUME NEW at, Sound(at, n, I) PROVE Sound(at, m, J)
  BY <1>1, <1>2 DEF Sound
<1>3. ASSUME NEW call, Ready(call, n, I) PROVE Ready(call, m, J)
  BY <1>1, <1>3 DEF Ready
<1>4. \A r \in Names : refs[r].kind = "branch" /\ refs[r].at \notin given => Sound(refs[r].at, n, I)
  BY DEF BranchInv, IsBranch, n, I
<1>5. /\ refs' = [r \in Names |-> refs'[r]]
      /\ \A r \in Names : refs'[r].kind = "branch" /\ refs'[r].at \notin given' => Sound(refs'[r].at, m, J)
  <2>1. CASE refs' = refs
    BY <1>2, <1>4, <2>1 DEF BranchInv
  <2>2. ASSUME NEW r, NEW kind, NEW at, refs' = [refs EXCEPT ![r] = [kind |-> kind, at |-> at]],
               kind = "branch" => at \in given' \/ Sound(at, m, J)
        PROVE  /\ refs' = [q \in Names |-> refs'[q]]
               /\ \A q \in Names : refs'[q].kind = "branch" /\ refs'[q].at \notin given'
                                     => Sound(refs'[q].at, m, J)
    <3>1. refs' = [q \in Names |-> refs'[q]] /\ \A q \in Names \ {r} : refs'[q] = refs[q]
      BY <2>2 DEF BranchInv
    <3>2. r \in Names => refs'[r] = [kind |-> kind, at |-> at]
      BY <2>2 DEF BranchInv
    <3> QED BY <1>2, <1>4, <2>2, <3>1, <3>2
  <2> QED BY <2>1, <2>2 DEF SetsSound, m, J
<1>6. /\ calls' = [d \in Calls |-> calls'[d]]
      /\ \A d \in Calls : IsCall(calls'[d]) /\ Ready(calls'[d], m, J)
  <2>1. \A d \in Calls : IsCall(calls[d]) /\ Ready(calls[d], m, J)
    BY <1>3 DEF BranchInv, n, I
  <2>2. CASE calls' = calls
    BY <2>1, <2>2 DEF BranchInv
  <2>3. ASSUME NEW c \in Calls, NEW call, Becomes(c, call), IsCall(call), Ready(call, m, J)
        PROVE  /\ calls' = [d \in Calls |-> calls'[d]]
               /\ \A d \in Calls : IsCall(calls'[d]) /\ Ready(calls'[d], m, J)
    <3>1. calls' = [d \in Calls |-> calls'[d]]
      BY <2>3 DEF Becomes
    <3>2. ASSUME NEW d \in Calls PROVE IsCall(calls'[d]) /\ Ready(calls'[d], m, J)
      <4>1. calls'[d] \in {call, calls[d], [calls[d] EXCEPT !.raced = TRUE]}
        BY <2>3 DEF Becomes
      <4>2. /\ IsCall([calls[d] EXCEPT !.raced = TRUE])
            /\ Ready([calls[d] EXCEPT !.raced = TRUE], m, J)
        <5> DEFINE x == calls[d]
        <5>1. IsCall(x) /\ Ready(x, m, J)
          BY <2>1
        <5> HIDE DEF x
        <5>2. PICK A : x \in CallRecs(A)
          BY <5>1 DEF IsCall
        <5>3. /\ [x EXCEPT !.raced = TRUE] \in CallRecs(A \cup {TRUE})
              /\ [x EXCEPT !.raced = TRUE].op = x.op
              /\ [x EXCEPT !.raced = TRUE].step = x.step
              /\ [x EXCEPT !.raced = TRUE].base = x.base
              /\ [x EXCEPT !.raced = TRUE].source = x.source
          BY <5>2 DEF CallRecs
        <5>4. IsCall([x EXCEPT !.raced = TRUE]) /\ Ready([x EXCEPT !.raced = TRUE], m, J)
          BY <5>1, <5>3 DEF IsCall, Ready
        <5> QED BY <5>4 DEF x
      <4> QED BY <2>1, <2>3, <4>1, <4>2
    <3> QED BY <3>1, <3>2
  <2> QED BY <2>2, <2>3 DEF MovesReady, m, J
<1> QED BY <1>1, <1>5, <1>6 DEF BranchInv, IsBranch, m, J

-----------------------------------------------------------------------------
(* The calls.                                                               *)

LEMMA EndsMoves ==
    ASSUME BranchInv, NEW c \in Calls, Ends(c)
    PROVE  MovesReady
<1> DEFINE x == calls[c]
           y == [x EXCEPT !.step = "done"]
<1>1. PICK A : x \in CallRecs(A)
  BY DEF BranchInv, IsCall
<1>2. y \in CallRecs(A \cup {"done"}) /\ y.step = "done"
  BY <1>1 DEF CallRecs
<1>3. Becomes(c, y)
  BY DEF Ends
<1> HIDE DEF y
<1>4. IsCall(y) /\ Ready(y, Len(snaps'), RevIDs')
  BY <1>2 DEF IsCall, Ready
<1> QED BY <1>3, <1>4 DEF MovesReady

\* A call that opens with fields of NewCall, and lands what need not resolve
\* or does.
LEMMA OpensMoves ==
    ASSUME NEW c \in Calls, NEW op, NEW r, NEW f, NEW t, NEW b, Opened(c, op, r, f, t, b),
           op = "branch" => b \in 1..Len(snaps'),
           op = "amend" => b \in RevIDs', op # "recommit"
    PROVE  MovesReady
<1> DEFINE A == {"none", "new", Main, <<>>, {}, 0, FALSE}
           B == A \cup {op, "land", r, f, t, b}
           y == [NewCall EXCEPT !.op = op, !.step = "land", !.ref = r, !.file = f,
                                !.content = t, !.base = b]
<1>1. NewCall \in CallRecs(B)
  BY DEF NewCall, CallRecs
<1>2. {op, "land", r, f, t, b} \subseteq B
  OBVIOUS
<1> HIDE DEF B
<1>3. y \in CallRecs(B) /\ y.op = op /\ y.base = b
  BY <1>1, <1>2 DEF CallRecs
<1>4. Becomes(c, y)
  BY DEF Opened
<1> HIDE DEF y
<1>5. IsCall(y) /\ Ready(y, Len(snaps'), RevIDs')
  BY <1>3 DEF IsCall, Ready
<1> QED BY <1>4, <1>5 DEF MovesReady

\* The other calls that open.
LEMMA ReadsMove ==
    ASSUME BranchInv, NEW c \in Calls,
           \/ \E r \in Branches, f \in Files :
                WriteFiles(c, r, f) \/ EditTool(c, r, f) \/ PostCommit(c, r, f) \/ PostRecommit(c, r, f)
           \/ EditOpens(c)
           \/ MergeMergeRequest(c)
    PROVE  MovesReady /\ UNCHANGED <<refs, snaps>>
<1> DEFINE A == {"none", "new", Main, <<>>, {}, 0, FALSE}
<1>1. ASSUME NEW y, Becomes(c, y), IsCall(y), y.op \notin {"branch", "amend"},
             y.op = "recommit" => y.source \in RevIDs'
      PROVE  MovesReady
  BY <1>1 DEF MovesReady, Ready
<1>2. ASSUME NEW r \in Branches, NEW f \in Files, EditTool(c, r, f)
      PROVE  MovesReady /\ UNCHANGED <<refs, snaps>>
  <2> DEFINE t == Edited(TreeOf(Resolve(r))[f], c)
             B == A \cup {"edit", "open", r, f, t}
             y == [NewCall EXCEPT !.op = "edit", !.step = "open", !.ref = r, !.file = f, !.content = t]
  <2>1. NewCall \in CallRecs(B) /\ {"edit", "open", r, f, t} \subseteq B
    BY DEF NewCall, CallRecs
  <2>2. Becomes(c, y)
    BY <1>2 DEF EditTool
  <2> HIDE DEF B, t
  <2>3. y \in CallRecs(B) /\ y.op = "edit"
    BY <2>1 DEF CallRecs
  <2> HIDE DEF y
  <2> QED BY <1>1, <1>2, <2>2, <2>3 DEF EditTool, IsCall
<1>3. ASSUME NEW r \in Branches, NEW f \in Files, PostCommit(c, r, f)
      PROVE  MovesReady /\ UNCHANGED <<refs, snaps>>
  <2>1. PICK b \in {Resolve(r)} \cup 1..Len(snaps) :
          /\ UNCHANGED <<refs, snaps>>
          /\ Becomes(c, [NewCall EXCEPT !.op = "commit", !.step = "land", !.ref = r, !.file = f,
                          !.content = {c}, !.base = b, !.raced = b # Resolve(r)])
    BY <1>3 DEF PostCommit
  <2> DEFINE z == b # Resolve(r)
             B == A \cup {"commit", "land", r, f, {c}, b, z}
             y == [NewCall EXCEPT !.op = "commit", !.step = "land", !.ref = r, !.file = f,
                                  !.content = {c}, !.base = b, !.raced = z]
  <2>2. NewCall \in CallRecs(B) /\ {"commit", "land", r, f, {c}, b, z} \subseteq B
    BY DEF NewCall, CallRecs
  <2>3. Becomes(c, y)
    BY <2>1
  <2> HIDE DEF B, z
  <2>4. y \in CallRecs(B) /\ y.op = "commit"
    BY <2>2 DEF CallRecs
  <2> HIDE DEF y
  <2> QED BY <1>1, <2>1, <2>3, <2>4 DEF IsCall
<1>6. ASSUME NEW r \in Branches, NEW f \in Files, WriteFiles(c, r, f)
      PROVE  MovesReady /\ UNCHANGED <<refs, snaps>>
  <2>1. PICK b \in 0..Len(snaps), t \in {Written(c), Deleted} :
          /\ UNCHANGED <<refs, snaps>>
          /\ Becomes(c, [NewCall EXCEPT !.op = "write", !.step = "land", !.ref = r, !.file = f,
                          !.content = t, !.base = b, !.raced = b # Resolve(r)])
    BY <1>6 DEF WriteFiles
  <2> DEFINE z == b # Resolve(r)
             B == A \cup {"write", "land", r, f, t, b, z}
             y == [NewCall EXCEPT !.op = "write", !.step = "land", !.ref = r, !.file = f,
                                  !.content = t, !.base = b, !.raced = z]
  <2>2. NewCall \in CallRecs(B) /\ {"write", "land", r, f, t, b, z} \subseteq B
    BY DEF NewCall, CallRecs
  <2>3. Becomes(c, y)
    BY <2>1
  <2> HIDE DEF B, z
  <2>4. y \in CallRecs(B) /\ y.op = "write"
    BY <2>2 DEF CallRecs
  <2> HIDE DEF y
  <2> QED BY <1>1, <2>1, <2>3, <2>4 DEF IsCall
<1>7. ASSUME NEW r \in Branches, NEW f \in Files, PostRecommit(c, r, f)
      PROVE  MovesReady /\ UNCHANGED <<refs, snaps>>
  <2>1. PICK b \in {Resolve(r)} \cup 1..Len(snaps), i \in RevIDs :
          /\ UNCHANGED <<refs, snaps>>
          /\ Becomes(c, [NewCall EXCEPT !.op = "recommit", !.step = "land", !.ref = r, !.file = f,
                          !.content = {c}, !.base = b, !.source = i, !.raced = b # Resolve(r)])
    BY <1>7 DEF PostRecommit
  <2> DEFINE z == b # Resolve(r)
             B == A \cup {"recommit", "land", r, f, {c}, b, i, z}
             y == [NewCall EXCEPT !.op = "recommit", !.step = "land", !.ref = r, !.file = f,
                                  !.content = {c}, !.base = b, !.source = i, !.raced = z]
  <2>2. NewCall \in CallRecs(B) /\ {"recommit", "land", r, f, {c}, b, i, z} \subseteq B
    BY DEF NewCall, CallRecs
  <2>3. Becomes(c, y)
    BY <2>1
  <2> HIDE DEF B, z
  <2>4. y \in CallRecs(B) /\ y.op = "recommit" /\ y.source = i
    BY <2>2 DEF CallRecs
  <2>5. i \in RevIDs'
    BY <2>1 DEF RevIDs
  <2> HIDE DEF y
  <2> QED BY <1>1, <2>1, <2>3, <2>4, <2>5 DEF IsCall
<1>4. CASE EditOpens(c)
  <2> DEFINE x == calls[c]
  <2>1. PICK b \in 1..Len(snaps) :
          UNCHANGED <<refs, snaps>> /\ Becomes(c, [x EXCEPT !.step = "land", !.base = b])
    BY <1>4 DEF EditOpens
  <2>2. PICK B : x \in CallRecs(B)
    BY DEF BranchInv, IsCall
  <2> DEFINE y == [x EXCEPT !.step = "land", !.base = b]
  <2>3. y \in CallRecs(B \cup {"land", b}) /\ y.op = x.op
    BY <2>2 DEF CallRecs
  <2>4. x.op = "edit" /\ Becomes(c, y)
    BY <1>4, <2>1 DEF EditOpens
  <2> HIDE DEF y
  <2> QED BY <1>1, <2>1, <2>3, <2>4 DEF IsCall
<1>5. CASE MergeMergeRequest(c)
  <2> DEFINE b == Resolve(mr.target)
             u == Resolve(mr.source)
             r == mr.target
             B == A \cup {"merge", "land", r, b, u}
             y == [NewCall EXCEPT !.op = "merge", !.step = "land", !.ref = r, !.base = b, !.source = u]
  <2>1. NewCall \in CallRecs(B) /\ {"merge", "land", r, b, u} \subseteq B
    BY DEF NewCall, CallRecs
  <2>2. Becomes(c, y) /\ UNCHANGED <<refs, snaps>>
    BY <1>5 DEF MergeMergeRequest
  <2> HIDE DEF B, b, u, r
  <2>3. y \in CallRecs(B) /\ y.op = "merge"
    BY <2>1 DEF CallRecs
  <2> HIDE DEF y
  <2> QED BY <1>1, <2>2, <2>3 DEF IsCall
<1> QED BY <1>2, <1>3, <1>4, <1>5, <1>6, <1>7

-----------------------------------------------------------------------------
(* The actions.                                                             *)

LEMMA NewSnapshot ==
    ASSUME BranchInv, NEW i, NEW parents, NEW tree, Committed(i, parents, tree)
    PROVE  /\ Grows
           /\ Next1 \in 1..Len(snaps') /\ i \in RevIDs'
<1> DEFINE x == [rev |-> i, parents |-> parents, tree |-> tree]
<1>1. snaps' = Append(snaps, x) /\ x.rev = i
  BY DEF Committed
<1> HIDE DEF x
<1>2. PICK S : snaps \in Seq(S)
  BY DEF BranchInv
<1>3. snaps \in Seq(S \cup {x}) /\ x \in S \cup {x}
  BY <1>2
<1>4. Len(snaps') = Len(snaps) + 1 /\ Len(snaps) \in Nat /\ snaps'[Len(snaps) + 1] = x
  BY <1>1, <1>3, AppendProperties
<1>5. Grows
  BY <1>1 DEF Grows
<1>6. Next1 \in 1..Len(snaps')
  BY <1>4 DEF Next1
<1>7. snaps'[Next1].rev = i
  BY <1>1, <1>4 DEF Next1
<1> QED BY <1>5, <1>6, <1>7 DEF RevIDs

LEMMA Sets ==
    ASSUME NEW r, NEW kind, NEW at, SetRef(r, kind, at),
           kind = "branch" => at \in given' \/ Sound(at, Len(snaps'), RevIDs')
    PROVE  SetsSound
BY DEF SetRef, SetsSound

LEMMA WriteSteps ==
    ASSUME BranchInv, NEW c \in Calls, given \subseteq given', Writes(c)
    PROVE  BranchInv'
<1>2. CASE \E r \in Branches, f \in Files : AmendFiles(c, r, f)
  <2>1. PICK r \in Branches, f \in Files : AmendFiles(c, r, f)
    BY <1>2
  <2>2. PICK i \in RevIDs : Opened(c, "amend", r, f, {c}, i)
    BY <2>1 DEF AmendFiles
  <2>3. UNCHANGED <<refs, snaps>> /\ RevIDs' = RevIDs
    BY <2>1 DEF AmendFiles, RevIDs
  <2>4. MovesReady
    BY <2>2, <2>3, OpensMoves
  <2> QED BY <2>3, <2>4, StepKeeps DEF Grows, SetsSound
<1>3. CASE \E r \in Names, f \in Files : WriteBlob(c, r, f)
  <2>1. MovesReady /\ UNCHANGED <<refs, snaps>>
    BY <1>3, OpensMoves DEF WriteBlob
  <2> QED BY <2>1, StepKeeps DEF Grows, SetsSound
<1>4. CASE \/ \E r \in Branches, f \in Files :
                WriteFiles(c, r, f) \/ EditTool(c, r, f) \/ PostCommit(c, r, f) \/ PostRecommit(c, r, f)
           \/ EditOpens(c)
  BY <1>4, ReadsMove, StepKeeps DEF Grows, SetsSound
<1>5. CASE WriteLands(c)
  <2>1. /\ Committed(Next1, Root(calls[c].base),
                     [TreeOf(calls[c].base) EXCEPT ![calls[c].file] = calls[c].content])
        /\ SetRef(calls[c].ref, "branch", TargetOf(calls[c].op))
        /\ Ends(c)
    BY <1>5 DEF WriteLands, MovesRef
  <2>2. Grows /\ Next1 \in 1..Len(snaps') /\ Next1 \in RevIDs'
    BY <2>1, NewSnapshot
  <2>3. Sound(TargetOf(calls[c].op), Len(snaps'), RevIDs')
    BY <2>2 DEF TargetOf, Sound
  <2>4. SetsSound
    BY <2>1, <2>3, Sets
  <2> QED BY <2>1, <2>2, <2>4, EndsMoves, StepKeeps
<1>6. CASE WriteDetached(c)
  <2>1. /\ Committed(Next1, Root(calls[c].base),
                     [TreeOf(calls[c].base) EXCEPT ![calls[c].file] = calls[c].content])
        /\ UNCHANGED refs /\ Ends(c)
    BY <1>6 DEF WriteDetached
  <2> QED BY <2>1, NewSnapshot, EndsMoves, StepKeeps DEF SetsSound
<1>7. CASE AmendLands(c)
  <2> DEFINE i == calls[c].base
             tip == RevHash(i)
  <2>1. /\ Committed(i, snaps[tip].parents, [snaps[tip].tree EXCEPT ![calls[c].file] = calls[c].content])
        /\ SetRef(calls[c].ref, "branch", <<"rev", i>>)
        /\ Ends(c)
    BY <1>7 DEF AmendLands
  <2>2. Grows /\ i \in RevIDs'
    BY <2>1, NewSnapshot
  <2>3. SetsSound
    <3>1. Sound(<<"rev", i>>, Len(snaps'), RevIDs')
      BY <2>2 DEF Sound
    <3> QED BY <2>1, <3>1, Sets
  <2> QED BY <2>1, <2>2, <2>3, EndsMoves, StepKeeps
<1>8. CASE RecommitLands(c)
  <2>1. /\ \E i, parents, tree : Committed(i, parents, tree)
        /\ SetRef(calls[c].ref, "branch", <<"hash", Next1>>)
        /\ Ends(c)
    BY <1>8 DEF RecommitLands, MovesRef
  <2>2. Grows /\ Next1 \in 1..Len(snaps')
    BY <2>1, NewSnapshot
  <2>3. SetsSound
    <3>1. Sound(<<"hash", Next1>>, Len(snaps'), RevIDs')
      BY <2>2 DEF Sound
    <3> QED BY <2>1, <3>1, Sets
  <2> QED BY <2>1, <2>2, <2>3, EndsMoves, StepKeeps
<1>9. CASE PostTree(c)
  <2>1. /\ \E i, parents, tree : Committed(i, parents, tree)
        /\ UNCHANGED refs /\ Ends(c)
    BY <1>9 DEF PostTree
  <2> QED BY <2>1, NewSnapshot, EndsMoves, StepKeeps DEF SetsSound
<1> QED BY <1>2, <1>3, <1>4, <1>5, <1>6, <1>7, <1>8, <1>9 DEF Writes

LEMMA RebaseKeeps ==
    ASSUME BranchInv, NEW c \in Calls, given \subseteq given', NEW i, NEW parents, Rebased(c, i, parents)
    PROVE  BranchInv'
<1>1. Grows
  BY NewSnapshot DEF Rebased
<1>2. SetsSound /\ MovesReady
  BY EndsMoves DEF Rebased, SetsSound
<1> QED BY <1>1, <1>2, StepKeeps

LEMMA RefSteps ==
    ASSUME BranchInv, NEW c \in Calls, given \subseteq given', MovesRefs(c)
    PROVE  BranchInv'
<1>1. CASE \E r \in Branches, from \in Names : CreateBranch(c, r, from)
  <2>1. PICK r \in Branches, from \in Names : CreateBranch(c, r, from)
    BY <1>1
  <2>2. Resolve(from) \in 1..Len(snaps) /\ UNCHANGED <<refs, snaps>>
    BY <2>1, ResolvesToSnap DEF CreateBranch
  <2>3. Opened(c, "branch", r, <<>>, {}, Resolve(from))
    BY <2>1 DEF CreateBranch
  <2>4. MovesReady
    BY <2>2, <2>3, OpensMoves
  <2> QED BY <2>2, <2>4, StepKeeps DEF Grows, SetsSound
<1>2. CASE BranchLands(c)
  <2>1. /\ UNCHANGED snaps /\ Ends(c)
        /\ SetRef(calls[c].ref, "branch", <<"hash", calls[c].base>>)
        /\ calls[c].base \in 1..Len(snaps')
    BY <1>2 DEF BranchLands, BranchTarget, BranchInv, Ready
  <2>2. SetsSound
    <3>1. Sound(<<"hash", calls[c].base>>, Len(snaps'), RevIDs')
      BY <2>1 DEF Sound
    <3> QED BY <2>1, <3>1, Sets
  <2> QED BY <2>1, <2>2, EndsMoves, StepKeeps DEF Grows
<1>3. CASE \E r \in Names : DeleteRef(c, r)
  <2>1. PICK r \in Names : DeleteRef(c, r)
    BY <1>3
  <2>2. refs' = [refs EXCEPT ![r] = [kind |-> "none", at |-> <<"hash", 0>>]] /\ UNCHANGED snaps /\ Ends(c)
    BY <2>1 DEF DeleteRef, NoRef
  <2>3. SetsSound
    <3>1. SetRef(r, "none", <<"hash", 0>>)
      BY <2>2 DEF SetRef
    <3> QED BY <3>1, Sets
  <2> QED BY <2>2, <2>3, EndsMoves, StepKeeps DEF Grows
<1>4. CASE \E r \in Names : SetTag(c, r)
  <2>1. PICK r \in Names : SetTag(c, r)
    BY <1>4
  <2>2. UNCHANGED snaps /\ Ends(c) /\ \E at : SetRef(r, "tag", at)
    BY <2>1 DEF SetTag
  <2>3. SetsSound
    BY <2>2, Sets
  <2> QED BY <2>2, <2>3, EndsMoves, StepKeeps DEF Grows
<1>5. CASE \E r \in Names, kind \in {"branch", "tag"}, at \in Targets : PostRef(c, r, kind, at)
  <2>1. PICK r \in Names, kind \in {"branch", "tag"}, at \in Targets :
          SetRef(r, kind, at) /\ UNCHANGED snaps /\ Ends(c)
                              /\ given' = IF Elusive(at) THEN given \cup {at} ELSE given
    BY <1>5 DEF PostRef
  <2>2. SetsSound
    <3>1. Elusive(at) \/ Sound(at, Len(snaps'), RevIDs')
      <4>1. Len(snaps) \in Nat /\ 0..Len(snaps) = 1..Len(snaps) \cup {0}
        BY DEF BranchInv
      <4>2. (\E h \in 0..Len(snaps) : at = <<"hash", h>>) \/ Elusive(at)
        BY DEF Targets, Elusive
      <4> QED BY <2>1, <4>1, <4>2 DEF Elusive, Sound
    <3> QED BY <2>1, <3>1, Sets
  <2> QED BY <2>1, <2>2, EndsMoves, StepKeeps DEF Grows
<1>6. CASE Rebase(c) \/ RebaseToolLands(c)
  BY <1>6, RebaseKeeps DEF Rebase, RebaseToolLands
<1>7. CASE RebaseTool(c)
  <2>1. MovesReady /\ UNCHANGED <<refs, snaps>>
    BY <1>7, OpensMoves DEF RebaseTool
  <2> QED BY <2>1, StepKeeps DEF Grows, SetsSound
<1> QED BY <1>1, <1>2, <1>3, <1>4, <1>5, <1>6, <1>7 DEF MovesRefs

LEMMA RequestSteps ==
    ASSUME BranchInv, NEW c \in Calls, given \subseteq given', Requests(c)
    PROVE  BranchInv'
<1>1. CASE \/ \E a, b \in Branches : CreateMergeRequest(c, a, b)
           \/ \E b, t \in Branches, s \in Branches \cup {<<>>} : MergeRequestTool(c, b, s, t)
           \/ \E state \in {"open", "closed", "merged"} : UpdateMergeRequest(c, state)
  <2>1. UNCHANGED <<refs, snaps>> /\ Ends(c)
    BY <1>1 DEF CreateMergeRequest, MergeRequestTool, UpdateMergeRequest
  <2> QED BY <2>1, EndsMoves, StepKeeps DEF Grows, SetsSound
<1>2. CASE MergeMergeRequest(c) \/ \E b \in Branches : MergeTool(c, b)
  BY <1>2, ReadsMove, StepKeeps DEF MergeTool, Grows, SetsSound
<1>3. CASE MergeLands(c)
  <2>1. UNCHANGED refs /\ Ends(c) /\ Grows
    BY <1>3, NewSnapshot DEF MergeLands
  <2> QED BY <2>1, EndsMoves, StepKeeps DEF SetsSound
<1> QED BY <1>1, <1>2, <1>3 DEF Requests

LEMMA MirrorSteps ==
    ASSUME BranchInv, given \subseteq given', Mirrors
    PROVE  BranchInv'
<1>1. UNCHANGED <<refs, snaps>>
  BY DEF Mirrors, SyncMirror, DeleteMirror, SetMirror, LoopPushes, PushSent, PushRecorded, PushBreaks, PushFailed
<1>2. MovesReady
  <2>1. CASE \E c \in Calls : SyncMirror(c) \/ DeleteMirror(c) \/ \E u \in Urls : SetMirror(c, u)
    BY <2>1, EndsMoves DEF SyncMirror, DeleteMirror, SetMirror
  <2>2. CASE LoopPushes \/ \E p \in Calls \cup {Loop} :
               PushSent(p) \/ PushRecorded(p) \/ PushBreaks(p) \/ PushFailed(p)
    BY <2>2 DEF LoopPushes, PushSent, PushRecorded, PushBreaks, PushFailed, MovesReady
  <2> QED BY <2>1, <2>2 DEF Mirrors
<1> QED BY <1>1, <1>2, StepKeeps DEF Grows, SetsSound

LEMMA BranchesInit == Init => BranchInv
<1> SUFFICES ASSUME Init PROVE BranchInv
  OBVIOUS
<1>1. IsCall(NewCall) /\ NewCall.step = "new"
  <2>1. NewCall \in CallRecs({"none", "new", Main, <<>>, {}, 0, FALSE})
    BY DEF NewCall, CallRecs
  <2> QED BY <2>1 DEF IsCall, NewCall
<1>2. /\ calls = [c \in Calls |-> calls[c]]
      /\ \A c \in Calls : IsCall(calls[c]) /\ Ready(calls[c], Len(snaps), RevIDs)
  BY <1>1 DEF Init, Ready
<1>3. CASE snaps = <<>> /\ refs = [r \in Names |-> NoRef]
  <2>1. snaps \in Seq({})
    BY <1>3
  <2>2. \A r \in Names : ~IsBranch(r)
    BY <1>3 DEF IsBranch, NoRef
  <2> QED BY <1>2, <1>3, <2>1, <2>2 DEF BranchInv
<1>4. CASE snaps = Seeded /\ refs \in Seeds
  <2> DEFINE x == [rev |-> 1, parents |-> <<>>, tree |-> Empty]
  <2>1. snaps = <<x>> /\ x.rev = 1
    BY <1>4 DEF Seeded
  <2> HIDE DEF x
  <2>2. snaps \in Seq({x}) /\ Len(snaps) = 1 /\ snaps[1] = x
    BY <2>1
  <2>3. 1 \in RevIDs
    BY <2>1, <2>2 DEF RevIDs
  <2>4. PICK S \in SUBSET (Branches \ {Main}) :
          refs = [r \in Names |-> CASE r = Main -> [kind |-> "branch", at |-> <<"rev", 1>>]
                              [] r \in S  -> [kind |-> "branch", at |-> <<"hash", 1>>]
                              [] OTHER    -> NoRef]
    BY <1>4 DEF Seeds
  <2>5. ASSUME NEW r \in Names PROVE IsBranch(r) => Sound(refs[r].at, Len(snaps), RevIDs)
    <3>1. CASE r = Main
      BY <2>3, <2>4, <3>1 DEF Sound
    <3>2. CASE r # Main /\ r \in S
      BY <2>2, <2>4, <3>2 DEF Sound
    <3>3. CASE r # Main /\ r \notin S
      BY <2>4, <3>3 DEF IsBranch, NoRef
    <3> QED BY <3>1, <3>2, <3>3
  <2>6. refs = [r \in Names |-> refs[r]]
    BY <2>4
  <2> QED BY <1>2, <2>2, <2>5, <2>6 DEF BranchInv
<1> QED BY <1>3, <1>4 DEF Init

\* What a REST client has named stays named.
LEMMA GivenGrows ==
    ASSUME LabStep
    PROVE  given \subseteq given'
<1>1. CASE UNCHANGED labVars
  BY <1>1 DEF labVars
<1>2. ASSUME NEW c \in Calls, Fetch(c) PROVE given \subseteq given'
  BY <1>2, FetchReads DEF UnchangedOthers
<1>3. ASSUME NEW c \in Calls, Writes(c) PROVE given \subseteq given'
  BY <1>3 DEF Writes, WriteFiles, EditTool, AmendFiles, PostCommit, PostRecommit, WriteBlob, EditOpens,
              WriteLands, WriteDetached, AmendLands, RecommitLands, PostTree, UnchangedOthers
<1>4. ASSUME NEW c \in Calls, MovesRefs(c) PROVE given \subseteq given'
  BY <1>4 DEF MovesRefs, CreateBranch, BranchLands, DeleteRef, SetTag, PostRef, Rebase, RebaseTool,
              RebaseToolLands, Rebased, UnchangedOthers
<1>5. ASSUME NEW c \in Calls, Requests(c) PROVE given \subseteq given'
  BY <1>5 DEF Requests, CreateMergeRequest, UpdateMergeRequest, MergeRequestTool, MergeTool,
              MergeMergeRequest, MergeLands, UnchangedOthers
<1>6. CASE Mirrors
  BY <1>6 DEF Mirrors, SyncMirror, DeleteMirror, SetMirror, LoopPushes, PushSent, PushRecorded,
              PushBreaks, PushFailed
<1> QED BY <1>1, <1>2, <1>3, <1>4, <1>5, <1>6 DEF Next, LabStep

LEMMA BranchSteps ==
    ASSUME BranchInv, LabStep
    PROVE  BranchInv'
<1> given \subseteq given'
  BY GivenGrows
<1>1. CASE UNCHANGED labVars
  BY <1>1, StepKeeps DEF labVars, Grows, SetsSound, MovesReady
<1>2. ASSUME NEW c \in Calls, Fetch(c) PROVE BranchInv'
  BY <1>2, FetchReads, EndsMoves, StepKeeps DEF Grows, SetsSound
<1> QED BY <1>1, <1>2, WriteSteps, RefSteps, RequestSteps, MirrorSteps DEF Next, LabStep

\* Whatever was deleted, amended, rebased or moved, and however the calls
\* interleave, a branch that exists leads to a snapshot, unless it stores a
\* string that a REST client made a target: no other call leaves a branch
\* that every later call refuses (WriteFiles, CreateBranch; handleSetRef).
THEOREM BranchesLead == HistSpec => []BranchesResolve
<1>1. BranchInv /\ [HistNext]_histVars => BranchInv'
  BY BranchSteps, HistStep
<1>2. BranchInv => BranchesResolve
  BY SoundResolves DEF BranchesResolve
<1>3. HistInit => BranchInv
  BY BranchesInit DEF HistInit
<1> QED BY <1>1, <1>2, <1>3, PTL DEF HistSpec

-----------------------------------------------------------------------------
(* Branches are copies.  A new snapshot shows in a branch that is at its    *)
(* revision, so a revision may be the target of one branch only, also of    *)
(* one that an amend under way is about to set back to it; but for a        *)
(* revision that a REST client has named.                                   *)

Tip(r, i)     == IsBranch(r) /\ refs[r].at = <<"rev", i>>
Pending(r, i) == \E c \in Calls : /\ calls[c].step = "land" /\ calls[c].op = "amend"
                                  /\ calls[c].ref = r /\ calls[c].base = i
Claims(r, i)  == Tip(r, i) \/ Pending(r, i)

ClaimInv ==
    /\ BranchInv
    /\ RevIDs \subseteq 1..Len(snaps)
    /\ \A a, b \in Branches, i \in RevIDs :
         <<"rev", i>> \notin given /\ Claims(a, i) /\ Claims(b, i) => a = b

LEMMA ClaimsExist ==
    ASSUME BranchInv, NEW r \in Branches, NEW i, <<"rev", i>> \notin given, Claims(r, i)
    PROVE  i \in RevIDs
<1>1. CASE Tip(r, i)
  <2>1. Sound(<<"rev", i>>, Len(snaps), RevIDs)
    BY <1>1 DEF BranchInv, Tip, Names
  <2> QED BY <2>1 DEF Sound
<1>2. CASE Pending(r, i)
  BY <1>2 DEF BranchInv, Pending, Ready
<1> QED BY <1>1, <1>2 DEF Claims

\* The youngest place of revision i in a sequence of snapshots.
Youngest(s, i, h) == h \in 1..Len(s) /\ s[h].rev = i /\ \A k \in 1..Len(s) : s[k].rev = i => k <= h
HashIn(s, i)      == CHOOSE h \in 1..Len(s) : s[h].rev = i /\ \A k \in 1..Len(s) : s[k].rev = i => k <= h

LEMMA HashIsYoungest ==
    ASSUME NEW S, NEW s \in Seq(S), NEW i, NEW h, Youngest(s, i, h)
    PROVE  HashIn(s, i) = h
<1>1. Youngest(s, i, HashIn(s, i))
  BY DEF HashIn, Youngest
<1>2. Len(s) \in Nat
  OBVIOUS
<1> QED BY <1>1, <1>2 DEF Youngest

\* What a step does to revisions and claims: it moves ref x, if any, and
\* appends a snapshot of a new revision, of one that an amend of x claims or a
\* client has named, or of any while no ref moves.
Adds(j)   == \E s : snaps' = Append(snaps, s) /\ s.rev = j
Shows(x)  == \/ snaps' = snaps
             \/ Adds(Next1)
             \/ \E j \in RevIDs : Adds(j) /\ (Pending(x, j) \/ UNCHANGED refs \/ <<"rev", j>> \in given')
Footprint == \E x :
    /\ \A b \in Names \ {x} : refs'[b] = refs[b]
    /\ Shows(x)
    /\ x \in Branches => \A i : Tip(x, i)' => \/ Claims(x, i)
                                              \/ i = Next1 /\ Adds(Next1)
                                              \/ <<"rev", i>> \in given'
    /\ \A r \in Branches, i \in RevIDs \cup {Next1} : Pending(r, i)' => Claims(r, i)

LEMMA AddsOne ==
    ASSUME BranchInv, NEW j, Adds(j)
    PROVE  /\ \E S : snaps' \in Seq(S)
           /\ Len(snaps') = Len(snaps) + 1 /\ Len(snaps) \in Nat
           /\ \A h \in 1..Len(snaps) : snaps'[h] = snaps[h]
           /\ snaps'[Len(snaps')].rev = j
           /\ RevIDs' = RevIDs \cup {j}
<1>1. PICK S : snaps \in Seq(S)
  BY DEF BranchInv
<1>2. PICK s : snaps' = Append(snaps, s) /\ s.rev = j
  BY DEF Adds
<1> DEFINE T == S \cup {s}
<1>3. snaps \in Seq(T) /\ s \in T
  BY <1>1
<1> HIDE DEF T
<1>4. /\ snaps' \in Seq(T) /\ Len(snaps') = Len(snaps) + 1 /\ Len(snaps) \in Nat
      /\ \A h \in 1..Len(snaps) : snaps'[h] = snaps[h]
      /\ snaps'[Len(snaps) + 1] = s
  BY <1>2, <1>3, AppendProperties
<1>5. RevIDs' = RevIDs \cup {j}
  <2>1. 1..Len(snaps') = 1..Len(snaps) \cup {Len(snaps) + 1}
    BY <1>4
  <2> QED BY <1>2, <1>4, <2>1 DEF RevIDs
<1> QED BY <1>2, <1>4, <1>5

LEMMA RevHashStays ==
    ASSUME BranchInv, NEW i \in RevIDs,
           snaps' = snaps \/ \E j : Adds(j) /\ j # i
    PROVE  RevHash(i)' = RevHash(i)
<1> DEFINE h == RevHash(i)
<1>1. PICK S : snaps \in Seq(S)
  BY DEF BranchInv
<1>2. Youngest(snaps, i, h)
  <2>1. \E k \in 1..Len(snaps) : Youngest(snaps, i, k)
    <3> DEFINE P == {k \in 1..Len(snaps) : snaps[k].rev = i}
    <3>1. P \in SUBSET (1..Len(snaps)) /\ P # {} /\ Len(snaps) \in Nat
      BY <1>1 DEF RevIDs
    <3> QED BY <3>1, LastPlace DEF Youngest
  <2> QED BY <1>1, <2>1, HashIsYoungest DEF RevHash, HashIn
<1>3. CASE snaps' = snaps
  BY <1>3 DEF RevHash
<1>4. ASSUME NEW j, Adds(j), j # i PROVE RevHash(i)' = h
  <2>1. Youngest(snaps', i, h) /\ \E T : snaps' \in Seq(T)
    BY <1>2, <1>4, AddsOne DEF Youngest
  <2> HIDE DEF h
  <2>2. HashIn(snaps', i) = h
    BY <2>1, HashIsYoungest
  <2> QED BY <2>2 DEF RevHash, HashIn
<1> QED BY <1>3, <1>4

\* A branch that stays where it is shows what it did, unless the snapshot is
\* of its own revision.
LEMMA ContentStays ==
    ASSUME BranchInv, NEW b \in Branches, refs'[b] = refs[b], refs[b].at \notin given,
           snaps' = snaps \/ \E j : Adds(j) /\ ~Tip(b, j)
    PROVE  Content(b)' = Content(b)
<1> DEFINE at == refs[b].at
<1>1. PICK S : snaps \in Seq(S)
  BY DEF BranchInv
<1>2. CASE ~IsBranch(b)
  BY <1>2 DEF Content, IsBranch, Empty
<1>3. CASE IsBranch(b)
  <2>1. Sound(at, Len(snaps), RevIDs) /\ Len(snaps) \in Nat
    <3>1. Sound(at, Len(snaps), RevIDs)
      BY <1>3 DEF BranchInv, Names
    <3> QED BY <1>1, <3>1
  <2>2. Hop(Hop(at)) = at /\ Hop(Hop(at))' = at'
    BY <2>1 DEF Sound, Hop
  <2>3. /\ 1..Len(snaps) \subseteq 1..Len(snaps')
        /\ \A h \in 1..Len(snaps) : snaps'[h] = snaps[h]
        /\ RevIDs \subseteq RevIDs'
    <3>1. CASE snaps' = snaps
      BY <3>1 DEF RevIDs
    <3>2. CASE \E j : Adds(j)
      BY <3>2, AddsOne
    <3> QED BY <3>1, <3>2
  <2>4. ASSUME NEW k \in 1..Len(snaps), at = <<"hash", k>> PROVE Content(b)' = Content(b)
    <3>1. Resolve(b) = k /\ Resolve(b)' = k
      BY <2>2, <2>3, <2>4 DEF Resolve, Direct
    <3> QED BY <1>3, <2>1, <2>3, <2>4, <3>1 DEF Content, IsBranch, TreeOf, Empty
  <2>5. ASSUME NEW i \in RevIDs, at = <<"rev", i>> PROVE Content(b)' = Content(b)
    <3> DEFINE h == RevHash(i)
    <3>1. h \in 1..Len(snaps)
      BY <2>5, RevHashIs DEF BranchInv
    <3>2. RevHash(i)' = h
      BY <1>3, <2>5, RevHashStays DEF Tip
    <3>3. Resolve(b) = h /\ Resolve(b)' = h
      BY <2>2, <2>3, <2>5, <3>2 DEF Resolve, Direct
    <3> HIDE DEF h
    <3> QED BY <1>3, <2>1, <2>3, <3>1, <3>3 DEF Content, IsBranch, TreeOf, Empty
  <2> QED BY <2>1, <2>4, <2>5 DEF Sound
<1> QED BY <1>2, <1>3

LEMMA FreshRev ==
    ASSUME ClaimInv
    PROVE  Next1 \notin RevIDs /\ \A r \in Branches : Claims(r, Next1) => <<"rev", Next1>> \in given
<1>1. Len(snaps) \in Nat
  <2>1. PICK S : snaps \in Seq(S)
    BY DEF ClaimInv, BranchInv
  <2> QED BY <2>1
<1>2. Next1 \notin RevIDs
  BY <1>1 DEF ClaimInv, Next1
<1> QED BY <1>2, ClaimsExist DEF ClaimInv

\* The revision of a new snapshot shows in one branch at most.
LEMMA ShowsInOne ==
    ASSUME ClaimInv, given \subseteq given', Footprint
    PROVE  \E x : \A b \in Branches \ {x} :
             /\ refs'[b] = refs[b]
             /\ refs[b].at \notin given' => snaps' = snaps \/ \E j : Adds(j) /\ ~Tip(b, j)
<1>1. PICK x : (\A b \in Names \ {x} : refs'[b] = refs[b]) /\ Shows(x)
  BY DEF Footprint
<1>2. CASE snaps' = snaps
  BY <1>1, <1>2 DEF Names
<1>3. CASE Adds(Next1)
  <2>1. \A b \in Branches : refs[b].at \notin given' => ~Tip(b, Next1)
    BY FreshRev DEF Claims, Tip
  <2> QED BY <1>1, <1>3, <2>1 DEF Names
<1>4. ASSUME NEW j \in RevIDs, Adds(j), Pending(x, j), x \in Branches
      PROVE  \A b \in Branches \ {x} : refs[b].at \notin given' => ~Tip(b, j)
  <2>1. \A b \in Branches \ {x} : Tip(b, j) => <<"rev", j>> \in given
    BY <1>4 DEF ClaimInv, Claims
  <2> QED BY <2>1 DEF Tip
<1>5. ASSUME NEW j \in RevIDs, Adds(j)
      PROVE  \E y : \A b \in Branches \ {y} : refs[b].at \notin given' => ~Tip(b, j)
  <2>1. CASE <<"rev", j>> \notin given /\ \E y \in Branches : Tip(y, j)
    BY <2>1 DEF ClaimInv, Claims
  <2>2. CASE ~ \E y \in Branches : Tip(y, j)
    BY <2>2
  <2>3. CASE <<"rev", j>> \in given
    BY <2>3 DEF Tip
  <2> QED BY <2>1, <2>2, <2>3
<1> DEFINE Alone(y, j) == \A b \in Branches \ {y} : /\ refs'[b] = refs[b]
                                                    /\ refs[b].at \notin given' => ~Tip(b, j)
<1>6. ASSUME NEW j \in RevIDs, Adds(j), Pending(x, j) \/ UNCHANGED refs \/ <<"rev", j>> \in given'
      PROVE  \E y : Alone(y, j)
  <2>1. CASE UNCHANGED refs
    BY <1>5, <1>6, <2>1
  <2>2. CASE Pending(x, j) /\ x \in Branches
    BY <1>1, <1>4, <1>6, <2>2 DEF Names
  <2>3. CASE x \notin Branches
    <3>1. \A b \in Branches : refs'[b] = refs[b]
      BY <1>1, <2>3 DEF Names
    <3> QED BY <1>5, <1>6, <3>1
  <2>4. CASE <<"rev", j>> \in given'
    BY <1>1, <2>4 DEF Tip, Names
  <2> QED BY <1>6, <2>1, <2>2, <2>3, <2>4
<1>7. ASSUME NEW j \in RevIDs, Adds(j), Pending(x, j) \/ UNCHANGED refs \/ <<"rev", j>> \in given'
      PROVE  \E y : \A b \in Branches \ {y} :
               /\ refs'[b] = refs[b]
               /\ refs[b].at \notin given' => snaps' = snaps \/ \E k : Adds(k) /\ ~Tip(b, k)
  <2> HIDE DEF Alone
  <2>1. PICK y : Alone(y, j)
    BY <1>6, <1>7
  <2>2. ASSUME NEW b \in Branches \ {y}
        PROVE  refs'[b] = refs[b] /\ (refs[b].at \notin given' => \E k : Adds(k) /\ ~Tip(b, k))
    BY <1>7, <2>1 DEF Alone
  <2> QED BY <2>2
<1> QED BY <1>1, <1>2, <1>3, <1>7 DEF Shows

LEMMA FootprintKeeps ==
    ASSUME ClaimInv, BranchInv', given \subseteq given', Footprint
    PROVE  ClaimInv'
<1>1. PICK x : /\ \A b \in Names \ {x} : refs'[b] = refs[b]
               /\ Shows(x)
               /\ x \in Branches => \A i : Tip(x, i)' => \/ Claims(x, i)
                                                         \/ i = Next1 /\ Adds(Next1)
                                                         \/ <<"rev", i>> \in given'
  BY DEF Footprint
<1>2. \A r \in Branches, i \in RevIDs \cup {Next1} : Pending(r, i)' => Claims(r, i)
  BY DEF Footprint
<1>3. /\ RevIDs' \subseteq RevIDs \cup {Next1}
      /\ RevIDs' \subseteq 1..Len(snaps')
  <2>1. CASE snaps' = snaps
    BY <2>1 DEF RevIDs, ClaimInv
  <2>2. ASSUME NEW j \in RevIDs \cup {Next1}, Adds(j)
        PROVE  RevIDs' \subseteq RevIDs \cup {Next1} /\ RevIDs' \subseteq 1..Len(snaps')
    <3>1. RevIDs' = RevIDs \cup {j} /\ Len(snaps') = Len(snaps) + 1 /\ Len(snaps) \in Nat
      BY <2>2, AddsOne DEF ClaimInv
    <3>2. 1..Len(snaps) \subseteq 1..Len(snaps') /\ Next1 \in 1..Len(snaps')
      BY <3>1 DEF Next1
    <3> QED BY <3>1, <3>2 DEF ClaimInv
  <2> QED BY <1>1, <2>1, <2>2 DEF Shows
<1>4. \A b \in Branches \ {x}, i \in RevIDs' : Claims(b, i)' => Claims(b, i)
  BY <1>1, <1>2, <1>3 DEF Claims, Tip, IsBranch, Names
<1>5. x \in Branches => \A i \in RevIDs' : Claims(x, i)' => \/ Claims(x, i) \/ i = Next1
                                                            \/ <<"rev", i>> \in given'
  BY <1>1, <1>2, <1>3 DEF Claims
<1>6. \A b \in Branches : Claims(b, Next1) => <<"rev", Next1>> \in given'
  BY FreshRev
<1>7. ASSUME NEW a \in Branches, NEW b \in Branches, NEW i \in RevIDs', Claims(a, i)', Claims(b, i)',
             <<"rev", i>> \notin given'
      PROVE  a = b
  <2>1. CASE i = Next1
    BY <1>4, <1>6, <1>7, <2>1
  <2>2. CASE i # Next1
    <3>1. i \in RevIDs /\ Claims(a, i) /\ Claims(b, i) /\ <<"rev", i>> \notin given
      BY <1>3, <1>4, <1>5, <1>7, <2>2
    <3> QED BY <3>1 DEF ClaimInv
  <2> QED BY <2>1, <2>2
<1> QED BY <1>3, <1>7 DEF ClaimInv

\* A call that is not an amend, or is none that opens, pends nothing new.
LEMMA MovesPend ==
    ASSUME BranchInv, NEW c \in Calls, NEW call, Becomes(c, call),
           call.step = "land" /\ call.op = "amend" => Claims(call.ref, call.base)
    PROVE  \A r \in Branches, i \in RevIDs \cup {Next1} : Pending(r, i)' => Claims(r, i)
<1> SUFFICES ASSUME NEW r, NEW i, NEW d \in Calls,
                    calls'[d].step = "land", calls'[d].op = "amend",
                    calls'[d].ref = r, calls'[d].base = i
             PROVE  Claims(r, i)
  BY DEF Pending
<1>1. CASE d = c
  BY <1>1 DEF Becomes
<1>2. CASE d # c
  <2>1. calls'[d] \in {calls[d], [calls[d] EXCEPT !.raced = TRUE]}
    BY <1>2 DEF Becomes
  <2>2. PICK A : calls[d] \in CallRecs(A)
    BY DEF BranchInv, IsCall
  <2>3. /\ calls[d].step = calls'[d].step /\ calls[d].op = calls'[d].op
        /\ calls[d].ref = calls'[d].ref /\ calls[d].base = calls'[d].base
    BY <2>1, <2>2 DEF CallRecs
  <2> QED BY <2>3 DEF Claims, Pending
<1> QED BY <1>1, <1>2

LEMMA EndsPend ==
    ASSUME BranchInv, NEW c \in Calls, Ends(c)
    PROVE  \A r \in Branches, i \in RevIDs \cup {Next1} : Pending(r, i)' => Claims(r, i)
<1> DEFINE y == [calls[c] EXCEPT !.step = "done"]
<1>1. Becomes(c, y) /\ y.step # "land"
  BY DEF Ends, BranchInv, IsCall, CallRecs
<1> HIDE DEF y
<1> QED BY <1>1, MovesPend

LEMMA OpensPend ==
    ASSUME BranchInv, NEW c \in Calls, NEW op, NEW r, NEW f, NEW content, NEW base,
           Opened(c, op, r, f, content, base), op = "amend" => Claims(r, base)
    PROVE  \A s \in Branches, i \in RevIDs \cup {Next1} : Pending(s, i)' => Claims(s, i)
<1> DEFINE y == [NewCall EXCEPT !.op = op, !.step = "land", !.ref = r, !.file = f,
                                !.content = content, !.base = base]
<1>1. Becomes(c, y) /\ y.op = op /\ y.ref = r /\ y.base = base
  BY DEF Opened, NewCall
<1> HIDE DEF y
<1> QED BY <1>1, MovesPend

\* A step that makes no new snapshot and moves no ref.
LEMMA ReadsFootprint ==
    ASSUME UNCHANGED <<refs, snaps>>,
           \A r \in Branches, i \in RevIDs \cup {Next1} : Pending(r, i)' => Claims(r, i)
    PROVE  Footprint
BY DEF Footprint, Shows, Claims, Tip, IsBranch

\* A step that makes a snapshot and moves no ref.
LEMMA AddsFootprint ==
    ASSUME BranchInv, UNCHANGED refs, NEW j \in RevIDs \cup {Next1}, NEW parents, NEW tree,
           Committed(j, parents, tree), NEW c \in Calls, Ends(c)
    PROVE  Footprint
<1>1. Adds(j)
  BY DEF Committed, Adds
<1>2. \A r \in Branches, i \in RevIDs \cup {Next1} : Pending(r, i)' => Claims(r, i)
  BY EndsPend
<1> QED BY <1>1, <1>2 DEF Footprint, Shows, Claims, Tip, IsBranch

\* A step that sets one ref, and a branch only to what it claims or a client
\* has named.
LEMMA SetsFootprint ==
    ASSUME BranchInv, NEW x, NEW kind, NEW at, SetRef(x, kind, at), Shows(x),
           \/ kind # "branch" \/ at[1] # "rev" \/ x \notin Branches
           \/ Pending(x, at[2])
           \/ (at[2] = Next1 /\ Adds(Next1))
           \/ at \in given',
           NEW c \in Calls, Ends(c)
    PROVE  Footprint
<1>1. \A b \in Names \ {x} : refs'[b] = refs[b]
  BY DEF SetRef, BranchInv
<1>2. x \in Branches => refs'[x] = [kind |-> kind, at |-> at]
  BY DEF SetRef, BranchInv, Names
<1>3. x \in Branches => \A i : Tip(x, i)' => \/ Claims(x, i)
                                             \/ i = Next1 /\ Adds(Next1)
                                             \/ <<"rev", i>> \in given'
  BY <1>2 DEF Tip, IsBranch, Claims
<1>4. \A r \in Branches, i \in RevIDs \cup {Next1} : Pending(r, i)' => Claims(r, i)
  BY EndsPend
<1> QED BY <1>1, <1>3, <1>4 DEF Footprint

LEMMA WritesFootprint ==
    ASSUME BranchInv, NEW c \in Calls, Writes(c)
    PROVE  Footprint
<1>1. CASE \E r \in Names, f \in Files :
             (r \in Branches /\ AmendFiles(c, r, f)) \/ WriteBlob(c, r, f)
  <2>1. PICK r \in Names, f \in Files :
             (r \in Branches /\ AmendFiles(c, r, f)) \/ WriteBlob(c, r, f)
    BY <1>1
  <2>2. PICK op, content, base :
          Opened(c, op, r, f, content, base) /\ (op = "amend" => Claims(r, base))
    <3>2. CASE WriteBlob(c, r, f)
      BY <3>2 DEF WriteBlob
    <3>3. CASE AmendFiles(c, r, f)
      <4>1. PICK i \in RevIDs : refs[r].at = <<"rev", i>> /\ Opened(c, "amend", r, f, {c}, i)
        BY <3>3 DEF AmendFiles
      <4>2. Claims(r, i)
        BY <3>3, <4>1 DEF AmendFiles, Claims, Tip
      <4> QED BY <4>1, <4>2
    <3> QED BY <2>1, <3>2, <3>3
  <2>3. UNCHANGED <<refs, snaps>>
    BY <2>1 DEF AmendFiles, WriteBlob
  <2> QED BY <2>2, <2>3, OpensPend, ReadsFootprint
<1>2. CASE \E r \in Branches, f \in Files :
             WriteFiles(c, r, f) \/ EditTool(c, r, f) \/ PostCommit(c, r, f) \/ PostRecommit(c, r, f)
  <2>1. \E y : Becomes(c, y) /\ y.op # "amend"
    <3>1. CASE \E r \in Branches, f \in Files : EditTool(c, r, f)
      <4>1. PICK r \in Branches, f \in Files : EditTool(c, r, f)
        BY <3>1
      <4> DEFINE y == [NewCall EXCEPT !.op = "edit", !.step = "open", !.ref = r, !.file = f,
                                      !.content = Edited(TreeOf(Resolve(r))[f], c)]
      <4>2. Becomes(c, y) /\ y.op = "edit"
        BY <4>1 DEF EditTool, NewCall
      <4> HIDE DEF y
      <4> QED BY <4>2
    <3>2. CASE \E r \in Branches, f \in Files : PostCommit(c, r, f)
      <4>1. PICK r \in Branches, f \in Files : PostCommit(c, r, f)
        BY <3>2
      <4>2. PICK b \in {Resolve(r)} \cup 1..Len(snaps) :
              Becomes(c, [NewCall EXCEPT !.op = "commit", !.step = "land", !.ref = r, !.file = f,
                                         !.content = {c}, !.base = b, !.raced = b # Resolve(r)])
        BY <4>1 DEF PostCommit
      <4> DEFINE y == [NewCall EXCEPT !.op = "commit", !.step = "land", !.ref = r, !.file = f,
                                      !.content = {c}, !.base = b, !.raced = b # Resolve(r)]
      <4>3. Becomes(c, y) /\ y.op = "commit"
        BY <4>2 DEF NewCall
      <4> HIDE DEF y
      <4> QED BY <4>3
    <3>3. CASE \E r \in Branches, f \in Files : WriteFiles(c, r, f)
      <4>1. PICK r \in Branches, f \in Files : WriteFiles(c, r, f)
        BY <3>3
      <4>2. PICK b, t :
              Becomes(c, [NewCall EXCEPT !.op = "write", !.step = "land", !.ref = r, !.file = f,
                                         !.content = t, !.base = b, !.raced = b # Resolve(r)])
        BY <4>1 DEF WriteFiles
      <4> DEFINE y == [NewCall EXCEPT !.op = "write", !.step = "land", !.ref = r, !.file = f,
                                      !.content = t, !.base = b, !.raced = b # Resolve(r)]
      <4>3. Becomes(c, y) /\ y.op = "write"
        BY <4>2 DEF NewCall
      <4> HIDE DEF y
      <4> QED BY <4>3
    <3>4. CASE \E r \in Branches, f \in Files : PostRecommit(c, r, f)
      <4>1. PICK r \in Branches, f \in Files : PostRecommit(c, r, f)
        BY <3>4
      <4>2. PICK b, i :
              Becomes(c, [NewCall EXCEPT !.op = "recommit", !.step = "land", !.ref = r, !.file = f,
                                         !.content = {c}, !.base = b, !.source = i, !.raced = b # Resolve(r)])
        BY <4>1 DEF PostRecommit
      <4> DEFINE y == [NewCall EXCEPT !.op = "recommit", !.step = "land", !.ref = r, !.file = f,
                                      !.content = {c}, !.base = b, !.source = i, !.raced = b # Resolve(r)]
      <4>3. Becomes(c, y) /\ y.op = "recommit"
        BY <4>2 DEF NewCall
      <4> HIDE DEF y
      <4> QED BY <4>3
    <3> QED BY <1>2, <3>1, <3>2, <3>3, <3>4
  <2>2. UNCHANGED <<refs, snaps>>
    BY <1>2 DEF WriteFiles, EditTool, PostCommit, PostRecommit
  <2> QED BY <2>1, <2>2, MovesPend, ReadsFootprint
<1>3. CASE EditOpens(c)
  <2>1. PICK b \in 1..Len(snaps) : Becomes(c, [calls[c] EXCEPT !.step = "land", !.base = b])
    BY <1>3 DEF EditOpens
  <2> DEFINE y == [calls[c] EXCEPT !.step = "land", !.base = b]
  <2>2. Becomes(c, y) /\ y.op = "edit"
    BY <1>3, <2>1 DEF EditOpens, BranchInv, IsCall, CallRecs
  <2> HIDE DEF y
  <2> QED BY <1>3, <2>2, MovesPend, ReadsFootprint DEF EditOpens
<1>4. CASE WriteLands(c)
  <2>1. /\ Committed(Next1, Root(calls[c].base),
                     [TreeOf(calls[c].base) EXCEPT ![calls[c].file] = calls[c].content])
        /\ SetRef(calls[c].ref, "branch", TargetOf(calls[c].op))
        /\ Ends(c)
    BY <1>4 DEF WriteLands, MovesRef
  <2>2. Adds(Next1)
    BY <2>1 DEF Committed, Adds
  <2>3. TargetOf(calls[c].op)[1] # "rev" \/ TargetOf(calls[c].op)[2] = Next1
    BY DEF TargetOf
  <2> QED BY <2>1, <2>2, <2>3, SetsFootprint DEF Shows
<1>5. CASE WriteDetached(c)
  BY <1>5, AddsFootprint DEF WriteDetached
<1>6. CASE AmendLands(c)
  <2> DEFINE j == calls[c].base
             x == calls[c].ref
             at == <<"rev", j>>
  <2>1. /\ Committed(j, snaps[RevHash(j)].parents, [snaps[RevHash(j)].tree EXCEPT ![calls[c].file] = calls[c].content])
        /\ SetRef(x, "branch", at) /\ Ends(c)
    BY <1>6 DEF AmendLands
  <2>2. Adds(j) /\ j \in RevIDs /\ Pending(x, j)
    <3>1. Adds(j)
      BY <2>1 DEF Committed, Adds
    <3>2. calls[c].step = "land" /\ calls[c].op = "amend"
      BY <1>6 DEF AmendLands
    <3> QED BY <3>1, <3>2 DEF Pending, BranchInv, Ready
  <2>3. Shows(x) /\ Pending(x, at[2])
    BY <2>2 DEF Shows
  <2> HIDE DEF j, x, at
  <2> QED BY <2>1, <2>3, SetsFootprint
<1>7. CASE RecommitLands(c)
  <2> DEFINE j == calls[c].source
             x == calls[c].ref
             at == <<"hash", Next1>>
  <2>1. /\ \E parents, tree : Committed(j, parents, tree)
        /\ SetRef(x, "branch", at) /\ Ends(c)
        /\ <<"rev", j>> \in given'
    BY <1>7 DEF RecommitLands, MovesRef
  <2>2. Adds(j)
    BY <2>1 DEF Committed, Adds
  <2>3. j \in RevIDs
    BY <1>7 DEF RecommitLands, BranchInv, Ready
  <2>4. Shows(x) /\ at[1] # "rev"
    BY <2>1, <2>2, <2>3 DEF Shows
  <2> HIDE DEF j, x, at
  <2> QED BY <2>1, <2>4, SetsFootprint
<1>8. CASE PostTree(c)
  BY <1>8, AddsFootprint DEF PostTree
<1> QED BY <1>1, <1>2, <1>3, <1>4, <1>5, <1>6, <1>7, <1>8 DEF Writes, Names

LEMMA RefsFootprint ==
    ASSUME BranchInv, NEW c \in Calls, MovesRefs(c)
    PROVE  Footprint
<1>1. CASE (\E r \in Branches, from \in Names : CreateBranch(c, r, from)) \/ RebaseTool(c)
  <2>1. UNCHANGED <<refs, snaps>> /\ \E op, r, f, content, base :
          Opened(c, op, r, f, content, base) /\ op # "amend"
    <3>1. CASE RebaseTool(c)
      BY <3>1 DEF RebaseTool
    <3>2. CASE \E r \in Branches, from \in Names : CreateBranch(c, r, from)
      BY <3>2 DEF CreateBranch
    <3> QED BY <1>1, <3>1, <3>2
  <2> QED BY <2>1, OpensPend, ReadsFootprint
<1>2. CASE Rebase(c) \/ RebaseToolLands(c)
  BY <1>2, AddsFootprint DEF Rebase, RebaseToolLands, Rebased
<1>3. CASE \/ BranchLands(c) \/ (\E r \in Names : DeleteRef(c, r))
           \/ (\E r \in Names : SetTag(c, r))
           \/ (\E r \in Names, kind \in {"branch", "tag"}, at \in Targets : PostRef(c, r, kind, at))
  <2>1. PICK x, kind, at : /\ SetRef(x, kind, at)
                           /\ kind # "branch" \/ at[1] # "rev" \/ at \in given'
    <3>1. CASE BranchLands(c)
      BY <3>1 DEF BranchLands, BranchTarget
    <3>2. CASE \E r \in Names : DeleteRef(c, r)
      <4>1. PICK r \in Names : refs' = [refs EXCEPT ![r] = [kind |-> "none", at |-> <<"hash", 0>>]]
        BY <3>2 DEF DeleteRef, NoRef
      <4>2. SetRef(r, "none", <<"hash", 0>>)
        BY <4>1 DEF SetRef
      <4> QED BY <4>2
    <3>3. CASE \E r \in Names : SetTag(c, r)
      <4>1. PICK r, at : SetRef(r, "tag", at)
        BY <3>3 DEF SetTag
      <4> QED BY <4>1
    <3>4. CASE \E r \in Names, kind \in {"branch", "tag"}, at \in Targets : PostRef(c, r, kind, at)
      BY <3>4 DEF PostRef, Elusive
    <3> QED BY <1>3, <3>1, <3>2, <3>3, <3>4
  <2>2. UNCHANGED snaps /\ Ends(c)
    BY <1>3 DEF BranchLands, DeleteRef, SetTag, PostRef
  <2> QED BY <2>1, <2>2, SetsFootprint DEF Shows
<1> QED BY <1>1, <1>2, <1>3 DEF MovesRefs

LEMMA OthersFootprint ==
    ASSUME BranchInv, Mirrors \/ \E c \in Calls : Requests(c)
    PROVE  Footprint
<1>1. ASSUME NEW c \in Calls, MergeLands(c) PROVE Footprint
  BY <1>1, AddsFootprint DEF MergeLands
<1>2. ASSUME NEW c \in Calls, MergeMergeRequest(c) PROVE Footprint
  <2> DEFINE y == [NewCall EXCEPT !.op = "merge", !.step = "land", !.ref = mr.target,
                                  !.base = Resolve(mr.target), !.source = Resolve(mr.source)]
  <2>1. Becomes(c, y) /\ y.op = "merge"
    BY <1>2 DEF MergeMergeRequest, NewCall
  <2> HIDE DEF y
  <2> QED BY <1>2, <2>1, MovesPend, ReadsFootprint DEF MergeMergeRequest
<1>3. ASSUME NEW c \in Calls, Requests(c), ~MergeLands(c), ~MergeMergeRequest(c) PROVE Footprint
  <2>1. UNCHANGED <<refs, snaps>> /\ Ends(c)
    BY <1>3 DEF Requests, CreateMergeRequest, UpdateMergeRequest, MergeRequestTool, MergeTool
  <2> QED BY <2>1, EndsPend, ReadsFootprint
<1>4. CASE Mirrors
  <2>1. UNCHANGED <<refs, snaps>> /\ (UNCHANGED calls \/ \E c \in Calls : Ends(c))
    BY <1>4 DEF Mirrors, SyncMirror, DeleteMirror, SetMirror, LoopPushes, PushSent, PushRecorded,
                PushBreaks, PushFailed
  <2>2. \A r \in Branches, i \in RevIDs \cup {Next1} : Pending(r, i)' => Claims(r, i)
    <3>1. CASE UNCHANGED calls
      BY <3>1 DEF Pending, Claims
    <3> QED BY <2>1, <3>1, EndsPend
  <2> QED BY <2>1, <2>2, ReadsFootprint
<1> QED BY <1>1, <1>2, <1>3, <1>4

LEMMA ClaimsInit == Init => ClaimInv
<1> SUFFICES ASSUME Init PROVE ClaimInv
  OBVIOUS
<1>1. BranchInv
  BY BranchesInit
<1>2. \A r \in Branches, i \in RevIDs : ~Pending(r, i)
  BY DEF Init, Pending, NewCall
<1>3. CASE snaps = <<>>
  BY <1>1, <1>3 DEF ClaimInv, RevIDs
<1>4. CASE snaps = Seeded /\ refs \in Seeds
  <2>1. RevIDs \subseteq 1..Len(snaps)
    <3> DEFINE x == [rev |-> 1, parents |-> <<>>, tree |-> Empty]
    <3>1. snaps = <<x>> /\ x.rev = 1
      BY <1>4 DEF Seeded
    <3> HIDE DEF x
    <3>2. Len(snaps) = 1 /\ snaps[1] = x
      BY <3>1
    <3> QED BY <3>1, <3>2 DEF RevIDs
  <2>2. \A r \in Branches, i \in RevIDs : Tip(r, i) => r = Main
    <3>1. PICK S \in SUBSET (Branches \ {Main}) :
          refs = [r \in Names |-> CASE r = Main -> [kind |-> "branch", at |-> <<"rev", 1>>]
                              [] r \in S  -> [kind |-> "branch", at |-> <<"hash", 1>>]
                              [] OTHER    -> NoRef]
      BY <1>4 DEF Seeds
    <3>2. ASSUME NEW r \in Branches, r # Main PROVE ~IsBranch(r) \/ refs[r].at[1] = "hash"
      BY <3>1, <3>2 DEF IsBranch, NoRef, Names
    <3> QED BY <3>2 DEF Tip
  <2> QED BY <1>1, <1>2, <2>1, <2>2 DEF ClaimInv, Claims
<1> QED BY <1>3, <1>4 DEF Init

LEMMA StepFootprint ==
    ASSUME ClaimInv, LabStep
    PROVE  ClaimInv' /\ Footprint
<1>0. BranchInv
  BY DEF ClaimInv
<1>1. CASE UNCHANGED labVars
  <2>1. UNCHANGED <<refs, snaps, calls>>
    BY <1>1 DEF labVars
  <2>2. Footprint
    BY <2>1, ReadsFootprint DEF Pending, Claims
  <2>3. BranchInv'
    BY <1>0, <2>1, GivenGrows, StepKeeps DEF Grows, SetsSound, MovesReady
  <2> QED BY <2>2, <2>3, GivenGrows, FootprintKeeps
<1>2. CASE Next
  <2>1. Footprint
    BY <1>0, <1>2, WritesFootprint, RefsFootprint, OthersFootprint DEF Next
  <2> QED BY <1>0, <2>1, BranchSteps, GivenGrows, FootprintKeeps
<1>3. ASSUME NEW c \in Calls, Fetch(c) PROVE ClaimInv' /\ Footprint
  <2>1. Footprint
    BY <1>0, <1>3, FetchReads, EndsPend, ReadsFootprint
  <2> QED BY <1>0, <2>1, BranchSteps, GivenGrows, FootprintKeeps
<1> QED BY <1>1, <1>2, <1>3 DEF LabStep

\* A branch is a copy: whatever is written, amended, rebased or moved, and
\* however the calls interleave, no step changes what two branches hold,
\* unless one is at a revision or a name that a REST client has named
\* (CreateBranch stores a hash; an amend sets the branch it read back).
THEOREM BranchesAreCopies == HistSpec => BranchesIndependent
<1> DEFINE Apart == \A a, b \in Branches :
                      a # b /\ Own(a) /\ Own(b) => Content(a)' = Content(a) \/ Content(b)' = Content(b)
<1>1. ClaimInv /\ [HistNext]_histVars => Apart
  <2> SUFFICES ASSUME ClaimInv, LabStep PROVE Apart
    BY HistStep
  <2>1. PICK x : \A b \in Branches \ {x} :
             /\ refs'[b] = refs[b]
             /\ refs[b].at \notin given' => snaps' = snaps \/ \E j : Adds(j) /\ ~Tip(b, j)
    BY StepFootprint, GivenGrows, ShowsInOne
  <2>2. \A b \in Branches \ {x} : Own(b) => Content(b)' = Content(b)
    BY <2>1, GivenGrows, ContentStays DEF ClaimInv, Own
  <2> QED BY <2>2
<1>2. ClaimInv /\ [HistNext]_histVars => ClaimInv'
  BY StepFootprint, HistStep
<1>3. HistInit => ClaimInv
  BY ClaimsInit DEF HistInit
<1> QED BY <1>1, <1>2, <1>3, PTL DEF HistSpec, BranchesIndependent

-----------------------------------------------------------------------------
(* Lost updates.  A write reads the tip and sets the ref in two steps; the  *)
(* one whose ref nobody moved in between builds on the tip it replaces.     *)

FullTree(t)    == t = [f \in Files |-> t[f]]
AtOK(at)       == \/ at[1] = "hash" /\ at[2] \in 0..Len(snaps)
                  \/ at[1] = "rev" /\ at[2] \in RevIDs
                  \/ at[1] = "name" /\ at[2] \in Names

Landing(call)  == call.step = "land" /\ call.op \in {"write", "edit", "blob", "commit", "recommit"}
Amending(call) == call.step = "land" /\ call.op = "amend"
OnTip(call)    ==
    /\ Landing(call) => call.base = Resolve(call.ref)
    /\ Amending(call) => refs[call.ref].at = <<"rev", call.base>>
InStep(call)   ==
    /\ call.step = "open" \/ Landing(call) \/ Amending(call) => call.file \in Files
    /\ Landing(call) => call.base \in 0..Len(snaps)
    /\ ~call.raced /\ call.ref \in Names => OnTip(call)

Survives(r, d) == d \in Calls /\ calls[d].step = "done" /\ calls[d].file \in Files
                  /\ d \in TreeOf(Resolve(r))[calls[d].file]

WritesInv ==
    /\ BranchInv /\ RevIDs \subseteq 1..Len(snaps)
    /\ \A h \in 1..Len(snaps) : FullTree(snaps[h].tree)
    /\ \A r \in Names : AtOK(refs[r].at)
    /\ \A c \in Calls : InStep(calls[c])
    /\ \A r \in Names : \A d \in kept[r] : Survives(r, d)

LEMMA Places ==
    ASSUME WritesInv
    PROVE  Len(snaps) \in Nat /\ Next1 \notin RevIDs
<1>1. PICK S : snaps \in Seq(S)
  BY DEF WritesInv, BranchInv
<1>2. Len(snaps) \in Nat
  BY <1>1
<1> QED BY <1>2 DEF WritesInv, Next1

LEMMA ResolveIn ==
    ASSUME WritesInv, NEW r \in Names
    PROVE  Resolve(r) \in 0..Len(snaps)
BY Places, RevHashIs DEF WritesInv, BranchInv, Resolve, Direct

LEMMA FullTrees ==
    ASSUME WritesInv, NEW h \in 0..Len(snaps)
    PROVE  FullTree(TreeOf(h))
<1>1. CASE h = 0
  BY <1>1 DEF TreeOf, FullTree, Empty
<1>2. CASE h # 0
  BY <1>2, Places DEF TreeOf, WritesInv
<1> QED BY <1>1, <1>2

\* A ref leads to a snapshot, a revision, a name or nothing.
LEMMA HopsEnd ==
    ASSUME WritesInv, NEW r \in Names
    PROVE  AtOK(Hop(Hop(refs[r].at)))
<1>1. ASSUME NEW at, AtOK(at) PROVE AtOK(Hop(at))
  BY <1>1 DEF AtOK, WritesInv, Hop
<1> QED BY <1>1 DEF WritesInv

LEMMA ResolveStays ==
    ASSUME WritesInv, UNCHANGED refs, snaps' = snaps \/ Adds(Next1), NEW r \in Names
    PROVE  Resolve(r)' = Resolve(r)
<1>1. PICK at : at = Hop(Hop(refs[r].at)) /\ at = Hop(Hop(refs[r].at))'
  BY DEF Hop
<1>2. AtOK(at)
  BY <1>1, HopsEnd
<1>3. BranchInv /\ Len(snaps) \in Nat /\ Next1 \notin RevIDs
  BY Places DEF WritesInv
<1>4. /\ Len(snaps') \in {Len(snaps), Len(snaps) + 1}
      /\ RevIDs \subseteq RevIDs'
  <2>1. CASE snaps' = snaps
    BY <2>1 DEF RevIDs
  <2>2. CASE Adds(Next1)
    BY <1>3, <2>2, AddsOne
  <2> QED BY <2>1, <2>2
<1>5. CASE at[1] = "hash" /\ at[2] \in 0..Len(snaps)
  <2>1. at[2] \in 1..Len(snaps') <=> at[2] \in 1..Len(snaps)
    BY <1>3, <1>4, <1>5
  <2>2. Direct(at)' = Direct(at)
    BY <1>5, <2>1 DEF Direct
  <2> QED BY <1>1, <2>2 DEF Resolve
<1>6. CASE at[1] = "rev" /\ at[2] \in RevIDs
  <2>1. RevHash(at[2])' = RevHash(at[2])
    BY <1>3, <1>6, RevHashStays
  <2>2. Direct(at)' = Direct(at)
    BY <1>4, <1>6, <2>1 DEF Direct
  <2> QED BY <1>1, <2>2 DEF Resolve
<1>7. CASE at[1] = "name"
  BY <1>1, <1>7 DEF Resolve, Direct
<1> QED BY <1>2, <1>5, <1>6, <1>7 DEF AtOK

\* The hash of the revision that gets a new snapshot is that snapshot.
LEMMA NewestHash ==
    ASSUME BranchInv, NEW j, Adds(j)
    PROVE  RevHash(j)' = Next1 /\ Next1 \in 1..Len(snaps') /\ Next1 # 0
<1>1. /\ Len(snaps') = Len(snaps) + 1 /\ Len(snaps) \in Nat
      /\ snaps'[Len(snaps')].rev = j /\ \E S : snaps' \in Seq(S)
  BY AddsOne
<1>2. Next1 = Len(snaps') /\ Next1 \in 1..Len(snaps')
  BY <1>1 DEF Next1
<1>3. Youngest(snaps', j, Next1)
  BY <1>1, <1>2 DEF Youngest
<1>4. HashIn(snaps', j) = Next1
  BY <1>1, <1>3, HashIsYoungest
<1> QED BY <1>1, <1>2, <1>4 DEF RevHash, HashIn

\* What a step does, as far as writes can see it.
SnapsStep == \/ snaps' = snaps
             \/ \E j \in RevIDs \cup {Next1} : \E parents, tree : Committed(j, parents, tree) /\ FullTree(tree)
RefsStep  == \/ refs' = refs
             \/ \E x, kind, at : SetRef(x, kind, at) /\ AtOK(at)'
CallsStep == \/ UNCHANGED <<calls, refs, snaps>>
             \/ \E c \in Calls : \E call : /\ Becomes(c, call) /\ IsCall(call) /\ InStep(call)'
                                           /\ calls[c].step # "done"
KeptStep  == \A r \in Names : \/ kept'[r] = kept[r] /\ Resolve(r)' = Resolve(r)
                              \/ \A d \in kept'[r] : Survives(r, d)'

LEMMA SnapsGrow ==
    ASSUME WritesInv, SnapsStep
    PROVE  /\ \A h \in 1..Len(snaps) : snaps'[h] = snaps[h]
           /\ 0..Len(snaps) \subseteq 0..Len(snaps') /\ RevIDs \subseteq RevIDs'
           /\ RevIDs' \subseteq 1..Len(snaps')
           /\ \A h \in 1..Len(snaps') : FullTree(snaps'[h].tree)
           /\ \A h \in 0..Len(snaps) : TreeOf(h)' = TreeOf(h)
<1>1. BranchInv /\ Len(snaps) \in Nat
  BY Places DEF WritesInv
<1>2. CASE snaps' = snaps
  BY <1>2 DEF WritesInv, RevIDs, TreeOf, Empty
<1>3. ASSUME NEW j \in RevIDs \cup {Next1}, NEW parents, NEW tree,
             Committed(j, parents, tree), FullTree(tree)
      PROVE  /\ \A h \in 1..Len(snaps) : snaps'[h] = snaps[h]
             /\ 0..Len(snaps) \subseteq 0..Len(snaps') /\ RevIDs \subseteq RevIDs'
             /\ RevIDs' \subseteq 1..Len(snaps')
             /\ \A h \in 1..Len(snaps') : FullTree(snaps'[h].tree)
             /\ \A h \in 0..Len(snaps) : TreeOf(h)' = TreeOf(h)
  <2> DEFINE s == [rev |-> j, parents |-> parents, tree |-> tree]
  <2>1. snaps' = Append(snaps, s) /\ s.rev = j /\ s.tree = tree
    BY <1>3 DEF Committed
  <2> HIDE DEF s
  <2>2. Adds(j)
    BY <2>1 DEF Adds
  <2>3. /\ Len(snaps') = Len(snaps) + 1
        /\ \A h \in 1..Len(snaps) : snaps'[h] = snaps[h]
        /\ RevIDs' = RevIDs \cup {j}
    BY <1>1, <2>2, AddsOne
  <2>4. snaps'[Len(snaps')].tree = tree
    <3>1. PICK S : snaps \in Seq(S)
      BY <1>1 DEF BranchInv
    <3>2. snaps \in Seq(S \cup {s}) /\ s \in S \cup {s}
      BY <3>1
    <3> QED BY <2>1, <2>3, <3>2, AppendProperties
  <2>5. 0..Len(snaps) \subseteq 0..Len(snaps') /\ Next1 \in 1..Len(snaps')
        /\ 1..Len(snaps') = 1..Len(snaps) \cup {Len(snaps')} /\ 1..Len(snaps) \subseteq 1..Len(snaps')
    BY <1>1, <2>3 DEF Next1
  <2>6. \A h \in 0..Len(snaps) : TreeOf(h)' = TreeOf(h)
    BY <1>1, <2>3 DEF TreeOf, Empty
  <2>7. \A h \in 1..Len(snaps') : FullTree(snaps'[h].tree)
    BY <1>3, <2>3, <2>4, <2>5 DEF WritesInv
  <2>8. RevIDs \subseteq RevIDs' /\ RevIDs' \subseteq 1..Len(snaps')
    BY <2>3, <2>5 DEF WritesInv
  <2> QED BY <2>3, <2>5, <2>6, <2>7, <2>8
<1> QED BY <1>2, <1>3 DEF SnapsStep

LEMMA SameRef ==
    ASSUME WritesInv, SnapsStep, NEW r \in Names, refs'[r] = refs[r]
    PROVE  AtOK(refs[r].at)'
BY SnapsGrow DEF WritesInv, AtOK

LEMMA SameCall ==
    ASSUME WritesInv, SnapsStep, NEW call, InStep(call),
           ~call.raced /\ call.ref \in Names /\ (Landing(call) \/ Amending(call)) => ~Changed(call.ref)
    PROVE  InStep(call)'
<1>1. 0..Len(snaps) \subseteq 0..Len(snaps')
  BY SnapsGrow
<1>2. ~call.raced /\ call.ref \in Names => OnTip(call)'
  BY DEF InStep, OnTip, Changed, Landing, Amending
<1> QED BY <1>1, <1>2 DEF InStep, Landing, Amending

\* A call other than the one that moves is as it was, or has been raced.
LEMMA OtherCalls ==
    ASSUME WritesInv, NEW c \in Calls, NEW call, Becomes(c, call), NEW d \in Calls \ {c}
    PROVE  /\ calls'[d].step = calls[d].step /\ calls'[d].file = calls[d].file
           /\ \/ /\ calls'[d] = calls[d]
                 /\ calls[d].step \in {"open", "land"} /\ calls[d].ref \in Names => ~Changed(calls[d].ref)
              \/ /\ calls'[d].raced /\ calls'[d].op = calls[d].op
                 /\ calls'[d].ref = calls[d].ref /\ calls'[d].base = calls[d].base
<1>1. PICK A : calls[d] \in CallRecs(A)
  BY DEF WritesInv, BranchInv, IsCall
<1>2. CASE calls[d].step \in {"open", "land"} /\ \E r \in Names : calls[d].ref = r /\ Changed(r)
  <2>1. calls'[d] = [calls[d] EXCEPT !.raced = TRUE]
    BY <1>2 DEF Becomes
  <2> QED BY <1>1, <2>1 DEF CallRecs
<1>3. CASE ~(calls[d].step \in {"open", "land"} /\ \E r \in Names : calls[d].ref = r /\ Changed(r))
  <2>1. calls'[d] = calls[d]
    BY <1>3 DEF Becomes
  <2> QED BY <1>3, <2>1
<1> QED BY <1>2, <1>3

LEMMA WritesStep ==
    ASSUME WritesInv, BranchInv', SnapsStep, RefsStep, CallsStep, KeptStep
    PROVE  WritesInv'
<1>1. /\ RevIDs' \subseteq 1..Len(snaps')
      /\ \A h \in 1..Len(snaps') : FullTree(snaps'[h].tree)
      /\ 0..Len(snaps) \subseteq 0..Len(snaps')
      /\ \A h \in 0..Len(snaps) : TreeOf(h)' = TreeOf(h)
  BY SnapsGrow
<1>2. ASSUME NEW r \in Names PROVE AtOK(refs[r].at)'
  <2>1. CASE refs'[r] = refs[r]
    BY <2>1, SameRef
  <2>2. CASE refs'[r] # refs[r]
    <3>1. PICK x, kind, at : SetRef(x, kind, at) /\ AtOK(at)'
      BY <2>2 DEF RefsStep
    <3>2. r = x /\ refs'[r] = [kind |-> kind, at |-> at]
      BY <2>2, <3>1 DEF SetRef, WritesInv, BranchInv
    <3> QED BY <3>1, <3>2 DEF AtOK
  <2> QED BY <2>1, <2>2
<1>3. ASSUME NEW d \in Calls
      PROVE  InStep(calls[d])' /\ (calls[d].step = "done" => calls'[d].step = "done" /\ calls'[d].file = calls[d].file)
  <2> DEFINE Goal(y) == InStep(y)' /\ (calls[d].step = "done" => y.step = "done" /\ y.file = calls[d].file)
  <2>1. PICK x : x = calls[d] /\ InStep(x)
    BY DEF WritesInv
  <2>2. PICK y : y = calls'[d]
    OBVIOUS
  <2>3. ASSUME UNCHANGED <<calls, refs, snaps>> PROVE Goal(y)
    <3>1. \A r \in Names : ~Changed(r)
      BY <2>3 DEF Changed, Resolve, Direct, Hop, RevIDs, RevHash
    <3>2. y = x
      BY <2>1, <2>2, <2>3
    <3>3. InStep(x)'
      BY <2>1, <3>1, SameCall
    <3> QED BY <2>1, <3>2, <3>3
  <2>4. ASSUME NEW c \in Calls, NEW call, Becomes(c, call), IsCall(call), InStep(call)', calls[c].step # "done"
        PROVE  Goal(y)
    <3>1. CASE d = c
      <4>1. y = call
        BY <2>2, <2>4, <3>1 DEF Becomes
      <4> QED BY <2>4, <3>1, <4>1
    <3>2. CASE d # c
      <4>1. /\ y.step = x.step /\ y.file = x.file
            /\ \/ y = x /\ (x.step \in {"open", "land"} /\ x.ref \in Names => ~Changed(x.ref))
               \/ y.raced /\ y.op = x.op /\ y.ref = x.ref /\ y.base = x.base
        BY <2>1, <2>2, <2>4, <3>2, OtherCalls
      <4>2. CASE y = x /\ (x.step \in {"open", "land"} /\ x.ref \in Names => ~Changed(x.ref))
        <5>1. InStep(x)'
          BY <2>1, <4>2, SameCall DEF Landing, Amending
        <5> QED BY <2>1, <4>2, <5>1
      <4>3. CASE y.raced /\ y.op = x.op /\ y.ref = x.ref /\ y.base = x.base
        <5>1. InStep(y)'
          BY <1>1, <2>1, <4>1, <4>3 DEF InStep, Landing, Amending
        <5> QED BY <2>1, <4>1, <5>1
      <4> QED BY <4>1, <4>2, <4>3
    <3> QED BY <3>1, <3>2
  <2>5. Goal(y)
    BY <2>3, <2>4 DEF CallsStep
  <2>6. InStep(calls[d])'
    BY <2>2, <2>5 DEF InStep, Landing, Amending, OnTip
  <2> QED BY <2>2, <2>5, <2>6
<1>4. ASSUME NEW r \in Names, NEW d \in kept'[r] PROVE Survives(r, d)'
  <2>1. CASE kept'[r] = kept[r] /\ Resolve(r)' = Resolve(r)
    <3>1. Survives(r, d) /\ Resolve(r) \in 0..Len(snaps)
      BY <2>1, ResolveIn DEF WritesInv
    <3>2. TreeOf(Resolve(r))' = TreeOf(Resolve(r))
      BY <1>1, <2>1, <3>1 DEF TreeOf
    <3> QED BY <1>3, <3>1, <3>2 DEF Survives
  <2> QED BY <2>1 DEF KeptStep
<1> QED BY <1>1, <1>2, <1>3, <1>4 DEF WritesInv

Seen == SnapsStep /\ RefsStep /\ CallsStep /\ KeptStep

\* A call that ends, whatever it read, is one no ref waits for.
LEMMA EndsSeen ==
    ASSUME WritesInv, NEW c \in Calls, Ends(c), calls[c].step # "done"
    PROVE  CallsStep
<1> DEFINE x == calls[c]
           y == [x EXCEPT !.step = "done"]
<1>1. PICK A : x \in CallRecs(A)
  BY DEF WritesInv, BranchInv, IsCall
<1>2. y \in CallRecs(A \cup {"done"}) /\ y.step = "done"
  BY <1>1 DEF CallRecs
<1>3. Becomes(c, y)
  BY DEF Ends
<1> HIDE DEF y
<1>4. PICK z : z = y
  OBVIOUS
<1>5. IsCall(z) /\ InStep(z)'
  BY <1>2, <1>4 DEF IsCall, InStep, OnTip, Landing, Amending
<1> QED BY <1>3, <1>4, <1>5 DEF CallsStep

\* A step that moves no ref leaves what the branches hold.
LEMMA NoRefMoves ==
    ASSUME WritesInv, UNCHANGED <<refs, kept>>, snaps' = snaps \/ Adds(Next1)
    PROVE  RefsStep /\ KeptStep
BY ResolveStays DEF RefsStep, KeptStep

LEMMA SnapsSame == snaps' = snaps => SnapsStep
BY DEF SnapsStep

\* A call that reads knows the tip it read.
LEMMA ReadSeen ==
    ASSUME WritesInv, NEW c \in Calls, NEW call, Becomes(c, call), IsCall(call), InStep(call),
           calls[c].step # "done", UNCHANGED <<refs, snaps, kept>>
    PROVE  Seen
<1>1. \A r \in Names : ~Changed(r)
  BY ResolveStays DEF Changed
<1>2. SnapsStep
  BY SnapsSame
<1>3. InStep(call)'
  BY <1>1, <1>2, SameCall
<1> QED BY <1>2, <1>3, NoRefMoves DEF Seen, CallsStep

LEMMA OpenSeen ==
    ASSUME WritesInv, NEW c \in Calls, NEW op, NEW r, NEW f, NEW t, NEW b, Opened(c, op, r, f, t, b),
           op \in {"blob", "amend"} => f \in Files,
           op = "blob" => b \in 0..Len(snaps) /\ (r \in Names => b = Resolve(r)),
           op \notin {"write", "edit", "commit", "recommit"},
           op = "amend" /\ r \in Names => refs[r].at = <<"rev", b>>,
           calls[c].step # "done", UNCHANGED <<refs, snaps, kept>>
    PROVE  Seen
<1> DEFINE A == {"none", "new", Main, <<>>, {}, 0, FALSE}
           B == A \cup {op, "land", r, f, t, b}
           y == [NewCall EXCEPT !.op = op, !.step = "land", !.ref = r, !.file = f,
                                !.content = t, !.base = b]
<1>1. NewCall \in CallRecs(B)
  BY DEF NewCall, CallRecs
<1>2. {op, "land", r, f, t, b} \subseteq B
  OBVIOUS
<1> HIDE DEF B
<1>3. y \in CallRecs(B) /\ y.op = op /\ y.base = b /\ y.ref = r /\ y.file = f /\ y.step = "land"
  BY <1>1, <1>2 DEF CallRecs
<1>4. Becomes(c, y)
  BY DEF Opened
<1> HIDE DEF y
<1>5. IsCall(y) /\ InStep(y)
  BY <1>3 DEF IsCall, InStep, OnTip, Landing, Amending
<1> QED BY <1>4, <1>5, ReadSeen

\* A write opens on what it read, or has been raced.
LEMMA WriteOpens ==
    ASSUME WritesInv, NEW c \in Calls, calls[c].step # "done", UNCHANGED <<refs, snaps, kept>>,
           NEW r \in Names, NEW f \in Files, NEW op \in {"write", "commit", "recommit"}, NEW t,
           NEW b \in 0..Len(snaps), NEW i,
           LET z == b # Resolve(r)
           IN  \/ Becomes(c, [NewCall EXCEPT !.op = op, !.step = "land", !.ref = r, !.file = f,
                                             !.content = t, !.base = b, !.raced = z])
               \/ Becomes(c, [NewCall EXCEPT !.op = op, !.step = "land", !.ref = r, !.file = f,
                                             !.content = t, !.base = b, !.source = i, !.raced = z])
    PROVE  Seen
<1> DEFINE A == {"none", "new", Main, <<>>, {}, 0, FALSE}
           z == b # Resolve(r)
           B == A \cup {op, "land", r, f, t, b, i, z}
           x == [NewCall EXCEPT !.op = op, !.step = "land", !.ref = r, !.file = f,
                                !.content = t, !.base = b, !.raced = z]
           y == [NewCall EXCEPT !.op = op, !.step = "land", !.ref = r, !.file = f,
                                !.content = t, !.base = b, !.source = i, !.raced = z]
<1>1. NewCall \in CallRecs(B) /\ {op, "land", r, f, t, b, i, z} \subseteq B
  BY DEF NewCall, CallRecs
<1>2. (Becomes(c, x) \/ Becomes(c, y)) /\ (~z => b = Resolve(r))
  OBVIOUS
<1> HIDE DEF B, z
<1>3. /\ y \in CallRecs(B) /\ y.op = op /\ y.step = "land" /\ y.file = f
      /\ y.ref = r /\ y.base = b /\ y.raced = z
  BY <1>1 DEF CallRecs
<1>4. /\ x \in CallRecs(B) /\ x.op = op /\ x.step = "land" /\ x.file = f
      /\ x.ref = r /\ x.base = b /\ x.raced = z
  BY <1>1 DEF CallRecs
<1> HIDE DEF x, y
<1>5. IsCall(y) /\ InStep(y)
  BY <1>2, <1>3 DEF IsCall, InStep, OnTip, Landing, Amending
<1>6. IsCall(x) /\ InStep(x)
  BY <1>2, <1>4 DEF IsCall, InStep, OnTip, Landing, Amending
<1> QED BY <1>2, <1>5, <1>6, ReadSeen

LEMMA ReadsSeen ==
    ASSUME WritesInv, NEW c \in Calls,
           \/ \E r \in Branches, f \in Files :
                \/ WriteFiles(c, r, f) \/ EditTool(c, r, f) \/ AmendFiles(c, r, f)
                \/ PostCommit(c, r, f) \/ PostRecommit(c, r, f)
           \/ \E r \in Names, f \in Files : WriteBlob(c, r, f)
           \/ EditOpens(c)
    PROVE  Seen
<1> DEFINE A == {"none", "new", Main, <<>>, {}, 0, FALSE}
<1>1. ASSUME NEW r \in Branches, NEW f \in Files, WriteFiles(c, r, f) PROVE Seen
  <2>1. PICK b \in 0..Len(snaps), t \in {Written(c), Deleted} :
          Becomes(c, [NewCall EXCEPT !.op = "write", !.step = "land", !.ref = r, !.file = f,
                          !.content = t, !.base = b, !.raced = b # Resolve(r)])
    BY <1>1 DEF WriteFiles
  <2>2. calls[c].step # "done" /\ UNCHANGED <<refs, snaps, kept>> /\ r \in Names
    BY <1>1 DEF WriteFiles, Does, Names
  <2> QED BY <2>1, <2>2, WriteOpens
<1>2. ASSUME NEW r \in Branches, NEW f \in Files, EditTool(c, r, f) PROVE Seen
  <2> DEFINE t == Edited(TreeOf(Resolve(r))[f], c)
             B == A \cup {"edit", "open", r, f, t}
             y == [NewCall EXCEPT !.op = "edit", !.step = "open", !.ref = r, !.file = f, !.content = t]
  <2>1. NewCall \in CallRecs(B) /\ {"edit", "open", r, f, t} \subseteq B
    BY DEF NewCall, CallRecs
  <2>2. Becomes(c, y) /\ calls[c].step # "done" /\ UNCHANGED <<refs, snaps, kept>>
    BY <1>2 DEF EditTool, Does
  <2> HIDE DEF B, t
  <2>3. y \in CallRecs(B) /\ y.step = "open" /\ y.file = f
    BY <2>1 DEF CallRecs
  <2> HIDE DEF y
  <2>4. IsCall(y) /\ InStep(y)
    BY <2>3 DEF IsCall, InStep, OnTip, Landing, Amending
  <2> QED BY <2>2, <2>4, ReadSeen
<1>3. ASSUME NEW r \in Branches, NEW f \in Files, AmendFiles(c, r, f) PROVE Seen
  <2>1. calls[c].step # "done" /\ UNCHANGED <<refs, snaps, kept>>
    BY <1>3 DEF AmendFiles, Does
  <2>2. PICK i \in RevIDs : refs[r].at = <<"rev", i>> /\ Opened(c, "amend", r, f, {c}, i)
    BY <1>3 DEF AmendFiles
  <2> QED BY <2>1, <2>2, OpenSeen
<1>4. ASSUME NEW r \in Branches, NEW f \in Files, PostCommit(c, r, f) PROVE Seen
  <2>1. PICK b \in {Resolve(r)} \cup 1..Len(snaps) :
          Becomes(c, [NewCall EXCEPT !.op = "commit", !.step = "land", !.ref = r, !.file = f,
                          !.content = {c}, !.base = b, !.raced = b # Resolve(r)])
    BY <1>4 DEF PostCommit
  <2>2. calls[c].step # "done" /\ UNCHANGED <<refs, snaps, kept>> /\ r \in Names
    BY <1>4 DEF PostCommit, Does, Names
  <2>3. b \in 0..Len(snaps)
    BY <2>2, Places, ResolveIn
  <2> QED BY <2>1, <2>2, <2>3, WriteOpens
<1>7. ASSUME NEW r \in Branches, NEW f \in Files, PostRecommit(c, r, f) PROVE Seen
  <2>1. PICK b \in {Resolve(r)} \cup 1..Len(snaps), i \in RevIDs :
          Becomes(c, [NewCall EXCEPT !.op = "recommit", !.step = "land", !.ref = r, !.file = f,
                          !.content = {c}, !.base = b, !.source = i, !.raced = b # Resolve(r)])
    BY <1>7 DEF PostRecommit
  <2>2. calls[c].step # "done" /\ UNCHANGED <<refs, snaps, kept>> /\ r \in Names
    BY <1>7 DEF PostRecommit, Does, Names
  <2>3. b \in 0..Len(snaps)
    BY <2>2, Places, ResolveIn
  <2> QED BY <2>1, <2>2, <2>3, WriteOpens
<1>5. ASSUME NEW r \in Names, NEW f \in Files, WriteBlob(c, r, f) PROVE Seen
  <2>1. calls[c].step # "done" /\ UNCHANGED <<refs, snaps, kept>> /\ Opened(c, "blob", r, f, {c}, Resolve(r))
    BY <1>5 DEF WriteBlob, Does
  <2>2. PICK b : b = Resolve(r)
    OBVIOUS
  <2> QED BY <2>1, <2>2, ResolveIn, OpenSeen
<1>6. CASE EditOpens(c)
  <2> DEFINE x == calls[c]
  <2>1. PICK b \in 1..Len(snaps) :
          WriteParent(x.ref, FALSE, b) /\ Becomes(c, [x EXCEPT !.step = "land", !.base = b])
    BY <1>6 DEF EditOpens
  <2>2. PICK B : x \in CallRecs(B)
    BY DEF WritesInv, BranchInv, IsCall
  <2> DEFINE y == [x EXCEPT !.step = "land", !.base = b]
  <2>3. /\ y \in CallRecs(B \cup {"land", b}) /\ y.op = x.op /\ y.step = "land" /\ y.base = b
        /\ y.file = x.file /\ y.ref = x.ref
    BY <2>2 DEF CallRecs
  <2>4. x.op = "edit" /\ x.step = "open" /\ Becomes(c, y) /\ UNCHANGED <<refs, snaps, kept>>
    BY <1>6, <2>1 DEF EditOpens
  <2>5. InStep(x) /\ b = Resolve(x.ref) /\ b \in 0..Len(snaps)
    BY <2>1, Places DEF WritesInv, WriteParent
  <2> HIDE DEF y
  <2>6. IsCall(y) /\ InStep(y)
    BY <2>3, <2>4, <2>5 DEF IsCall, InStep, OnTip, Landing, Amending
  <2> QED BY <2>4, <2>6, ReadSeen
<1> QED BY <1>1, <1>2, <1>3, <1>4, <1>5, <1>6, <1>7

-----------------------------------------------------------------------------
\* KeptAt forgets the texts of every ref that moved but r.
LEMMA KeptAtSeen ==
    ASSUME NEW r, NEW ks, KeptAt(r, ks), \A d \in ks : r \in Names => Survives(r, d)'
    PROVE  KeptStep
<1> SUFFICES ASSUME NEW s \in Names
             PROVE  \/ kept'[s] = kept[s] /\ Resolve(s)' = Resolve(s)
                    \/ \A d \in kept'[s] : Survives(s, d)'
  BY DEF KeptStep
<1>1. kept'[s] = IF s = r THEN ks ELSE IF Changed(s) THEN {} ELSE kept[s]
  BY DEF KeptAt
<1>2. CASE s = r
  BY <1>1, <1>2
<1>3. CASE s # r
  BY <1>1, <1>3 DEF Changed
<1> QED BY <1>2, <1>3

\* What a step keeps of a tree when it builds on the tip and replaces a file.
LEMMA KeepingSurvives ==
    ASSUME WritesInv, NEW c \in Calls, Ends(c), calls[c].step # "done", calls[c].file \in Files,
           NEW r \in Names, NEW tree,
           tree = [TreeOf(Resolve(r)) EXCEPT ![calls[c].file] = calls[c].content],
           TreeOf(Resolve(r))' = tree
    PROVE  \A d \in Keeping(r, calls[c].file, calls[c].content, c) : Survives(r, d)'
<1> DEFINE x == calls[c]
<1>1. PICK t : t = TreeOf(Resolve(r)) /\ FullTree(t)
  BY ResolveIn, FullTrees
<1>2. PICK f, ks : f = x.file /\ ks = x.content
  OBVIOUS
<1>3. tree[f] = ks /\ \A g \in Files \ {f} : tree[g] = t[g]
  BY <1>1, <1>2 DEF FullTree
<1>4. calls'[c].step = "done" /\ calls'[c].file = f
  <2>1. PICK A : x \in CallRecs(A)
    BY DEF WritesInv, BranchInv, IsCall
  <2>2. calls'[c] = [x EXCEPT !.step = "done"]
    BY DEF Ends, Becomes
  <2> QED BY <1>2, <2>1, <2>2 DEF CallRecs
<1>5. ASSUME NEW d \in kept[r], calls[d].file = f => d \in ks
      PROVE  Survives(r, d)'
  <2>1. d \in Calls /\ calls[d].step = "done" /\ calls[d].file \in Files /\ d \in t[calls[d].file]
    BY <1>1 DEF WritesInv, Survives
  <2>2. calls'[d].step = "done" /\ calls'[d].file = calls[d].file
    BY <2>1, OtherCalls DEF Ends
  <2> QED BY <1>3, <1>5, <2>1, <2>2 DEF Survives
<1>6. ASSUME c \in ks PROVE Survives(r, c)'
  BY <1>2, <1>3, <1>4, <1>6 DEF Survives
<1> QED BY <1>2, <1>5, <1>6 DEF Keeping

LEMMA NewTree ==
    ASSUME WritesInv, NEW j, NEW parents, NEW tree, Committed(j, parents, tree)
    PROVE  Adds(j) /\ Next1 \in 1..Len(snaps') /\ j \in RevIDs' /\ \A h : h = Next1 => TreeOf(h)' = tree
<1> DEFINE s == [rev |-> j, parents |-> parents, tree |-> tree]
<1>1. snaps' = Append(snaps, s) /\ s.rev = j /\ s.tree = tree
  BY DEF Committed
<1> HIDE DEF s
<1>2. PICK S : snaps \in Seq(S)
  BY DEF WritesInv, BranchInv
<1>3. snaps \in Seq(S \cup {s}) /\ s \in S \cup {s}
  BY <1>2
<1>4. Len(snaps') = Len(snaps) + 1 /\ Len(snaps) \in Nat /\ snaps'[Len(snaps) + 1] = s
  BY <1>1, <1>3, AppendProperties
<1>5. Next1 \in 1..Len(snaps') /\ snaps'[Next1] = s /\ Next1 # 0
  BY <1>4 DEF Next1
<1>6. ASSUME NEW h, h = Next1 PROVE TreeOf(h)' = tree
  BY <1>1, <1>5, <1>6 DEF TreeOf
<1>7. Adds(j)
  BY <1>1 DEF Adds
<1>8. j \in RevIDs'
  BY <1>1, <1>5 DEF RevIDs
<1> QED BY <1>5, <1>6, <1>7, <1>8

LEMMA WriteLandsSeen ==
    ASSUME WritesInv, NEW c \in Calls, WriteLands(c)
    PROVE  Seen
<1> DEFINE x == calls[c]
<1>1. /\ x.step = "land" /\ x.op \in {"write", "edit", "blob", "commit"}
      /\ Committed(Next1, Root(x.base), [TreeOf(x.base) EXCEPT ![x.file] = x.content])
      /\ SetRef(x.ref, "branch", TargetOf(x.op))
      /\ KeptAt(x.ref, IF x.raced THEN {} ELSE Keeping(x.ref, x.file, x.content, c))
      /\ Ends(c)
  BY DEF WriteLands, MovesRef
<1>2. InStep(x) /\ Landing(x)
  BY <1>1 DEF WritesInv, Landing
<1>3. x.file \in Files /\ x.base \in 0..Len(snaps) /\ FullTree(TreeOf(x.base))
  BY <1>2, FullTrees DEF InStep
<1>4. PICK tree : tree = [TreeOf(x.base) EXCEPT ![x.file] = x.content] /\ FullTree(tree)
  BY <1>3 DEF FullTree
<1>5. PICK n : n = Next1
  OBVIOUS
<1>6. /\ Adds(n) /\ n \in 1..Len(snaps') /\ n \in RevIDs' /\ TreeOf(n)' = tree
      /\ Committed(n, Root(x.base), tree)
  BY <1>1, <1>4, <1>5, NewTree
<1>7. SnapsStep
  BY <1>4, <1>5, <1>6 DEF SnapsStep
<1>8. PICK r, at : r = x.ref /\ at = TargetOf(x.op)
  OBVIOUS
<1>9. at \in {<<"rev", n>>, <<"hash", n>>} /\ SetRef(r, "branch", at)
  BY <1>1, <1>5, <1>8 DEF TargetOf
<1>10. RefsStep
  <2>1. AtOK(at)'
    BY <1>6, <1>9 DEF AtOK
  <2> QED BY <1>9, <2>1 DEF RefsStep
<1>11. CallsStep
  BY <1>1, EndsSeen
<1>12. KeptStep
  <2>1. ASSUME r \in Names, ~x.raced
        PROVE  \A d \in Keeping(r, x.file, x.content, c) : Survives(r, d)'
    <3>1. x.base = Resolve(r)
      BY <1>2, <1>8, <2>1 DEF InStep, OnTip
    <3>2. refs'[r].at = at
      BY <1>9, <2>1 DEF SetRef, WritesInv, BranchInv
    <3>3. Resolve(r)' = n
      <4>1. Hop(Hop(refs[r].at))' = at
        BY <1>9, <3>2 DEF Hop
      <4>2. CASE at = <<"rev", n>>
        <5>1. RevHash(n)' = n
          BY <1>5, <1>6, NewestHash DEF WritesInv
        <5> QED BY <1>6, <4>1, <4>2, <5>1 DEF Resolve, Direct
      <4>3. CASE at = <<"hash", n>>
        BY <1>6, <4>1, <4>3 DEF Resolve, Direct
      <4> QED BY <1>9, <4>2, <4>3
    <3>4. TreeOf(Resolve(r))' = tree
      BY <1>6, <3>3 DEF TreeOf
    <3> QED BY <1>1, <1>3, <1>4, <2>1, <3>1, <3>4, KeepingSurvives
  <2>2. PICK ks : ks = IF x.raced THEN {} ELSE Keeping(r, x.file, x.content, c)
    OBVIOUS
  <2>3. KeptAt(r, ks) /\ \A d \in ks : r \in Names => Survives(r, d)'
    BY <1>1, <1>8, <2>1, <2>2
  <2> QED BY <2>3, KeptAtSeen
<1> QED BY <1>7, <1>10, <1>11, <1>12 DEF Seen

LEMMA AmendLandsSeen ==
    ASSUME WritesInv, NEW c \in Calls, AmendLands(c)
    PROVE  Seen
<1> DEFINE x == calls[c]
           tip == RevHash(x.base)
<1>1. /\ x.step = "land" /\ x.op = "amend"
      /\ Committed(x.base, snaps[tip].parents, [snaps[tip].tree EXCEPT ![x.file] = x.content])
      /\ SetRef(x.ref, "branch", <<"rev", x.base>>)
      /\ KeptAt(x.ref, IF x.raced THEN {} ELSE Keeping(x.ref, x.file, x.content, c))
      /\ Ends(c)
  BY DEF AmendLands
<1>2. InStep(x) /\ Amending(x) /\ x.base \in RevIDs /\ x.file \in Files
  BY <1>1 DEF WritesInv, BranchInv, Ready, InStep, Amending
<1>3. tip \in 1..Len(snaps) /\ tip # 0 /\ FullTree(snaps[tip].tree)
  BY <1>2, RevHashIs, Places DEF WritesInv, BranchInv
<1>4. PICK tree : tree = [snaps[tip].tree EXCEPT ![x.file] = x.content] /\ FullTree(tree)
  BY <1>3 DEF FullTree
<1>5. PICK i, r : i = x.base /\ r = x.ref
  OBVIOUS
<1>6. /\ Adds(i) /\ i \in RevIDs' /\ \A h : h = Next1 => TreeOf(h)' = tree
      /\ Committed(i, snaps[tip].parents, tree)
  BY <1>1, <1>4, <1>5, NewTree
<1>7. SnapsStep
  BY <1>2, <1>4, <1>5, <1>6 DEF SnapsStep
<1>8. SetRef(r, "branch", <<"rev", i>>) /\ RefsStep
  <2>1. SetRef(r, "branch", <<"rev", i>>)
    BY <1>1, <1>5
  <2>2. AtOK(<<"rev", i>>)'
    BY <1>6 DEF AtOK
  <2> QED BY <2>1, <2>2 DEF RefsStep
<1>9. CallsStep
  BY <1>1, EndsSeen
<1>10. KeptStep
  <2>1. ASSUME r \in Names, ~x.raced
        PROVE  \A d \in Keeping(r, x.file, x.content, c) : Survives(r, d)'
    <3>1. refs[r].at = <<"rev", i>>
      BY <1>2, <1>5, <2>1 DEF InStep, OnTip
    <3>2. Resolve(r) = tip
      BY <1>2, <1>5, <3>1 DEF Resolve, Direct, Hop
    <3>3. refs'[r].at = <<"rev", i>>
      BY <1>8, <2>1 DEF SetRef, WritesInv, BranchInv
    <3>4. Hop(Hop(refs[r].at))' = <<"rev", i>>
      BY <3>3 DEF Hop
    <3>5. RevHash(i)' = Next1
      BY <1>6, NewestHash DEF WritesInv
    <3>6. Resolve(r)' = Next1
      BY <1>6, <3>4, <3>5 DEF Resolve, Direct
    <3>7. TreeOf(Resolve(r))' = tree
      BY <1>6, <3>6 DEF TreeOf
    <3>8. tree = [TreeOf(Resolve(r)) EXCEPT ![x.file] = x.content]
      BY <1>3, <1>4, <3>2 DEF TreeOf
    <3> QED BY <1>1, <1>2, <2>1, <3>7, <3>8, KeepingSurvives
  <2>2. PICK ks : ks = IF x.raced THEN {} ELSE Keeping(r, x.file, x.content, c)
    OBVIOUS
  <2>3. KeptAt(r, ks) /\ \A d \in ks : r \in Names => Survives(r, d)'
    BY <1>1, <1>5, <2>1, <2>2
  <2> QED BY <2>3, KeptAtSeen
<1> QED BY <1>7, <1>8, <1>9, <1>10 DEF Seen

LEMMA RecommitLandsSeen ==
    ASSUME WritesInv, NEW c \in Calls, RecommitLands(c)
    PROVE  Seen
<1> DEFINE x == calls[c]
           tip == RevHash(x.source)
           base == IF x.base = 0 THEN tip ELSE x.base
<1>1. /\ x.step = "land" /\ x.op = "recommit"
      /\ \E parents : Committed(x.source, parents, [TreeOf(base) EXCEPT ![x.file] = x.content])
      /\ SetRef(x.ref, "branch", <<"hash", Next1>>)
      /\ KeptAt(x.ref, IF x.raced \/ x.base = 0 THEN {} ELSE Keeping(x.ref, x.file, x.content, c))
      /\ Ends(c)
  BY DEF RecommitLands, MovesRef
<1>2. InStep(x) /\ Landing(x) /\ x.source \in RevIDs
  BY <1>1 DEF WritesInv, BranchInv, Ready, Landing
<1>3. x.file \in Files /\ base \in 0..Len(snaps) /\ FullTree(TreeOf(base))
  <2>1. tip \in 0..Len(snaps)
    BY <1>2, RevHashIs, Places DEF WritesInv, BranchInv
  <2>2. base \in 0..Len(snaps)
    BY <1>2, <2>1 DEF InStep
  <2> HIDE DEF base
  <2> QED BY <1>2, <2>2, FullTrees DEF InStep
<1>4. PICK tree : tree = [TreeOf(base) EXCEPT ![x.file] = x.content] /\ FullTree(tree)
  BY <1>3 DEF FullTree
<1>5. PICK n, r, i : n = Next1 /\ r = x.ref /\ i = x.source
  OBVIOUS
<1>6. PICK parents : Committed(i, parents, tree)
  BY <1>1, <1>4, <1>5
<1>7. n \in 1..Len(snaps') /\ TreeOf(n)' = tree
  BY <1>5, <1>6, NewTree
<1>8. SnapsStep
  BY <1>2, <1>4, <1>5, <1>6 DEF SnapsStep
<1>9. SetRef(r, "branch", <<"hash", n>>) /\ RefsStep
  <2>1. SetRef(r, "branch", <<"hash", n>>)
    BY <1>1, <1>5
  <2>2. AtOK(<<"hash", n>>)'
    BY <1>7 DEF AtOK
  <2> QED BY <2>1, <2>2 DEF RefsStep
<1>10. CallsStep
  BY <1>1, EndsSeen
<1>11. KeptStep
  <2>1. ASSUME r \in Names, ~x.raced, x.base # 0
        PROVE  \A d \in Keeping(r, x.file, x.content, c) : Survives(r, d)'
    <3>1. base = Resolve(r)
      BY <1>2, <1>5, <2>1 DEF InStep, OnTip
    <3>2. refs'[r].at = <<"hash", n>>
      BY <1>9, <2>1 DEF SetRef, WritesInv, BranchInv
    <3>3. Hop(Hop(refs[r].at))' = <<"hash", n>>
      BY <3>2 DEF Hop
    <3>4. TreeOf(Resolve(r))' = tree
      BY <1>7, <3>3 DEF Resolve, Direct, TreeOf
    <3> QED BY <1>1, <1>3, <1>4, <2>1, <3>1, <3>4, KeepingSurvives
  <2>2. PICK ks : ks = IF x.raced \/ x.base = 0 THEN {} ELSE Keeping(r, x.file, x.content, c)
    OBVIOUS
  <2>3. KeptAt(r, ks) /\ \A d \in ks : r \in Names => Survives(r, d)'
    BY <1>1, <1>5, <2>1, <2>2
  <2> QED BY <2>3, KeptAtSeen
<1> QED BY <1>8, <1>9, <1>10, <1>11 DEF Seen

\* A snapshot that no call sets a ref to: the texts of the refs at its
\* revision are forgotten.
LEMMA AddedSeen ==
    ASSUME WritesInv, NEW c \in Calls, calls[c].step # "done", Ends(c), UNCHANGED refs,
           NEW i \in RevIDs \cup {Next1}, NEW parents, NEW tree, Committed(i, parents, tree), FullTree(tree),
           kept' = [s \in Names |-> IF Changed(s) THEN {} ELSE kept[s]]
    PROVE  Seen
<1>1. SnapsStep /\ RefsStep
  BY DEF SnapsStep, RefsStep
<1>2. CallsStep
  BY EndsSeen
<1>3. KeptStep
  BY DEF KeptStep, Changed
<1> QED BY <1>1, <1>2, <1>3 DEF Seen

LEMMA WritesSeen ==
    ASSUME WritesInv, NEW c \in Calls, Writes(c)
    PROVE  Seen
<1>1. CASE WriteDetached(c)
  <2> DEFINE x == calls[c]
  <2>1. /\ x.step = "land" /\ x.op \in {"write", "edit", "blob", "commit"}
        /\ Committed(Next1, Root(x.base), [TreeOf(x.base) EXCEPT ![x.file] = x.content])
        /\ UNCHANGED <<refs, kept>> /\ Ends(c)
    BY <1>1 DEF WriteDetached
  <2>2. x.base \in 0..Len(snaps)
    BY <2>1 DEF WritesInv, InStep, Landing
  <2>3. PICK tree : tree = [TreeOf(x.base) EXCEPT ![x.file] = x.content] /\ FullTree(tree)
    BY <2>2, FullTrees DEF FullTree
  <2>4. SnapsStep
    BY <2>1, <2>3 DEF SnapsStep
  <2>5. Adds(Next1)
    BY <2>1, <2>3, NewTree
  <2>6. CallsStep
    BY <2>1, EndsSeen
  <2> QED BY <2>1, <2>4, <2>5, <2>6, NoRefMoves DEF Seen
<1>2. CASE PostTree(c)
  <2>1. PICK i \in RevIDs \cup {Next1}, parents \in ParentLists, h \in 1..Len(snaps) :
          Committed(i, parents, TreeOf(h))
    BY <1>2 DEF PostTree
  <2>2. FullTree(TreeOf(h))
    BY Places, FullTrees
  <2>3. /\ calls[c].step # "done" /\ Ends(c) /\ UNCHANGED refs
        /\ kept' = [s \in Names |-> IF Changed(s) THEN {} ELSE kept[s]]
    BY <1>2 DEF PostTree, Does
  <2> QED BY <2>1, <2>2, <2>3, AddedSeen
<1> QED BY <1>1, <1>2, ReadsSeen, WriteLandsSeen, AmendLandsSeen, RecommitLandsSeen DEF Writes

\* A ref set to what resolves now: the texts it had to contain are forgotten.
LEMMA SetSeen ==
    ASSUME WritesInv, NEW c \in Calls, Ends(c), calls[c].step # "done", snaps' = snaps,
           NEW x, NEW kind, NEW at, SetRef(x, kind, at), KeptAt(x, {}),
           AtOK(at)
    PROVE  Seen
<1>1. AtOK(at)'
  BY SnapsSame, SnapsGrow DEF AtOK
<1>2. RefsStep
  BY <1>1 DEF RefsStep
<1>3. CallsStep
  BY EndsSeen
<1>4. KeptStep
  BY KeptAtSeen
<1> QED BY <1>2, <1>3, <1>4, SnapsSame DEF Seen

LEMMA RebasedSeen ==
    ASSUME WritesInv, NEW c \in Calls, calls[c].step # "done", NEW i \in RevIDs, NEW parents,
           Rebased(c, i, parents)
    PROVE  Seen
<1>1. PICK tree : tree = Merge3(TreeOf(FirstParent(RevHash(i))), TreeOf(First(parents)), TreeOf(RevHash(i)))
  OBVIOUS
<1>2. FullTree(tree) /\ Committed(i, parents, tree) /\ UNCHANGED refs /\ Ends(c)
  BY <1>1 DEF Rebased, Merge3, FullTree
<1>3. kept' = [s \in Names |-> IF Changed(s) THEN {} ELSE kept[s]]
  BY DEF Rebased
<1> QED BY <1>2, <1>3, AddedSeen

LEMMA RefsSeen ==
    ASSUME WritesInv, NEW c \in Calls, MovesRefs(c)
    PROVE  Seen
<1>0. Len(snaps) \in Nat
  BY Places
<1>1. CASE \E r \in Branches, from \in Names : CreateBranch(c, r, from)
  <2>1. PICK r \in Branches, from \in Names : CreateBranch(c, r, from)
    BY <1>1
  <2>2. Opened(c, "branch", r, <<>>, {}, Resolve(from)) /\ calls[c].step # "done" /\ UNCHANGED <<refs, snaps, kept>>
    BY <2>1 DEF CreateBranch, Does
  <2> QED BY <2>2, OpenSeen
<1>2. CASE BranchLands(c)
  <2>1. PICK x, h : x = calls[c].ref /\ h = calls[c].base
    OBVIOUS
  <2>2. h \in 1..Len(snaps)
    BY <1>2, <2>1 DEF BranchLands, WritesInv, BranchInv, Ready
  <2>3. /\ SetRef(x, "branch", <<"hash", h>>) /\ KeptAt(x, {}) /\ Ends(c)
        /\ calls[c].step # "done" /\ snaps' = snaps
    BY <1>2, <2>1 DEF BranchLands, BranchTarget
  <2>4. AtOK(<<"hash", h>>)
    BY <1>0, <2>2 DEF AtOK
  <2> QED BY <2>3, <2>4, SetSeen
<1>3. ASSUME NEW r \in Names, DeleteRef(c, r) PROVE Seen
  <2>1. /\ SetRef(r, "none", <<"hash", 0>>) /\ KeptAt(r, {}) /\ Ends(c)
        /\ calls[c].step # "done" /\ snaps' = snaps
    BY <1>3 DEF DeleteRef, SetRef, NoRef, Does
  <2>2. AtOK(<<"hash", 0>>)
    BY <1>0 DEF AtOK
  <2> QED BY <2>1, <2>2, SetSeen DEF NoRef
<1>9. ASSUME NEW at \in Targets PROVE AtOK(at)
  BY DEF Targets, AtOK
<1>4. ASSUME NEW r \in Names, SetTag(c, r) PROVE Seen
  <2>1. KeptAt(r, {}) /\ Ends(c) /\ calls[c].step # "done" /\ snaps' = snaps
    BY <1>4 DEF SetTag, Does
  <2>2. CASE Len(snaps) > 0 /\ SetRef(r, "tag", <<"rev", NewestRev>>)
    <3>1. RevIDs \in SUBSET (1..Len(snaps)) /\ RevIDs # {}
      BY <1>0, <2>2 DEF WritesInv, RevIDs
    <3>2. \E i \in RevIDs : \A k \in RevIDs : k <= i
      BY <1>0, <3>1, LastPlace
    <3>3. PICK i : i = NewestRev /\ i \in RevIDs
      BY <3>2 DEF NewestRev
    <3>4. SetRef(r, "tag", <<"rev", i>>) /\ AtOK(<<"rev", i>>)
      BY <2>2, <3>3 DEF AtOK
    <3> QED BY <2>1, <3>4, SetSeen
  <2>3. ASSUME NEW at \in Targets, SetRef(r, "tag", at) PROVE Seen
    BY <1>9, <2>1, <2>3, SetSeen
  <2> QED BY <1>4, <2>2, <2>3 DEF SetTag
<1>5. ASSUME NEW r \in Names, NEW kind \in {"branch", "tag"}, NEW at \in Targets, PostRef(c, r, kind, at)
      PROVE  Seen
  <2>1. /\ SetRef(r, kind, at) /\ KeptAt(r, {}) /\ Ends(c)
        /\ calls[c].step # "done" /\ snaps' = snaps
    BY <1>5 DEF PostRef, Does
  <2> QED BY <1>9, <2>1, SetSeen
<1>6. CASE Rebase(c)
  BY <1>6, RebasedSeen DEF Rebase, Does
<1>7. CASE RebaseTool(c)
  <2>1. PICK h : h = RevHash(NewestRev)
    OBVIOUS
  <2>2. Opened(c, "vcs-rebase", Main, <<>>, {}, h) /\ calls[c].step # "done" /\ UNCHANGED <<refs, snaps, kept>>
    BY <1>7, <2>1 DEF RebaseTool, Does
  <2> QED BY <2>2, OpenSeen
<1>8. CASE RebaseToolLands(c)
  <2>1. PICK i, p : i \in RevIDs /\ Rebased(c, i, p)
    BY <1>8 DEF RebaseToolLands
  <2>2. calls[c].step # "done"
    BY <1>8 DEF RebaseToolLands
  <2> QED BY <2>1, <2>2, RebasedSeen
<1> QED BY <1>1, <1>2, <1>3, <1>4, <1>5, <1>6, <1>7, <1>8 DEF MovesRefs

\* A call of the change request or of the mirror ends, and moves no ref.
LEMMA StaySeen ==
    ASSUME WritesInv, NEW c \in Calls, Ends(c), calls[c].step # "done", UNCHANGED <<refs, snaps, kept>>
    PROVE  Seen
BY EndsSeen, NoRefMoves, SnapsSame DEF Seen

LEMMA OthersSeen ==
    ASSUME WritesInv, Mirrors \/ \E c \in Calls : Requests(c)
    PROVE  Seen
<1>1. ASSUME NEW c \in Calls, NEW s, NEW t, CreateMergeRequest(c, s, t) PROVE Seen
  <2>1. Ends(c) /\ calls[c].step # "done" /\ UNCHANGED <<refs, snaps, kept>>
    BY <1>1 DEF CreateMergeRequest, Does
  <2> QED BY <2>1, StaySeen
<1>2. ASSUME NEW c \in Calls, NEW state, UpdateMergeRequest(c, state) PROVE Seen
  <2>1. Ends(c) /\ calls[c].step # "done" /\ UNCHANGED <<refs, snaps, kept>>
    BY <1>2 DEF UpdateMergeRequest, Does
  <2> QED BY <2>1, StaySeen
<1>3. ASSUME NEW c \in Calls, MergeMergeRequest(c) PROVE Seen
  <2> DEFINE A == {"none", "new", Main, <<>>, {}, 0, FALSE}
             b == Resolve(mr.target)
             u == Resolve(mr.source)
             r == mr.target
             B == A \cup {"merge", "land", r, b, u}
             y == [NewCall EXCEPT !.op = "merge", !.step = "land", !.ref = r, !.base = b, !.source = u]
  <2>1. NewCall \in CallRecs(B) /\ {"merge", "land", r, b, u} \subseteq B
    BY DEF NewCall, CallRecs
  <2>2. Becomes(c, y) /\ calls[c].step # "done" /\ UNCHANGED <<refs, snaps, kept>>
    BY <1>3 DEF MergeMergeRequest, Does
  <2> HIDE DEF B, b, u, r
  <2>3. y \in CallRecs(B) /\ y.op = "merge" /\ y.step = "land"
    BY <2>1 DEF CallRecs
  <2> HIDE DEF y
  <2>4. IsCall(y) /\ InStep(y)
    BY <2>3 DEF IsCall, InStep, OnTip, Landing, Amending
  <2> QED BY <2>2, <2>4, ReadSeen
<1>4. ASSUME NEW c \in Calls, MergeLands(c) PROVE Seen
  <2>1. PICK tree, h : /\ h = calls[c].base
                       /\ tree = Merge3(TreeOf(FirstParent(h)), MergeSides(c)[1], MergeSides(c)[2])
    OBVIOUS
  <2>2. FullTree(tree) /\ Committed(Next1, <<h>>, tree)
    BY <1>4, <2>1 DEF MergeLands, Merge3, FullTree
  <2>3. Ends(c) /\ calls[c].step # "done" /\ UNCHANGED <<refs, kept>>
    BY <1>4 DEF MergeLands
  <2>4. SnapsStep
    BY <2>2 DEF SnapsStep
  <2>5. Adds(Next1)
    BY <2>2, NewTree
  <2> QED BY <2>3, <2>4, <2>5, EndsSeen, NoRefMoves DEF Seen
<1>5. ASSUME NEW c \in Calls, SyncMirror(c) \/ DeleteMirror(c) \/ \E u \in Urls : SetMirror(c, u) PROVE Seen
  <2>1. Ends(c) /\ calls[c].step # "done" /\ UNCHANGED <<refs, snaps, kept>>
    BY <1>5 DEF SyncMirror, DeleteMirror, SetMirror, Does
  <2> QED BY <2>1, StaySeen
<1>6. ASSUME LoopPushes \/ \E p \in Calls \cup {Loop} : PushSent(p) \/ PushRecorded(p) \/ PushBreaks(p) \/ PushFailed(p)
      PROVE  Seen
  <2>1. UNCHANGED <<calls, refs, snaps, kept>>
    BY <1>6 DEF LoopPushes, PushSent, PushRecorded, PushBreaks, PushFailed
  <2> QED BY <2>1, NoRefMoves, SnapsSame DEF Seen, CallsStep
<1> QED BY <1>1, <1>2, <1>3, <1>4, <1>5, <1>6 DEF Mirrors, Requests, MergeRequestTool, MergeTool

LEMMA WritesInit == Init => WritesInv
<1> SUFFICES ASSUME Init PROVE WritesInv
  OBVIOUS
<1>1. BranchInv
  BY BranchesInit
<1>2. \A c \in Calls : InStep(calls[c])
  BY DEF Init, NewCall, InStep, OnTip, Landing, Amending
<1>3. \A r \in Names : kept[r] = {}
  BY DEF Init
<1>4. CASE snaps = <<>> /\ refs = [r \in Names |-> NoRef]
  <2>1. Len(snaps) = 0 /\ RevIDs = {}
    BY <1>4 DEF RevIDs
  <2>2. \A r \in Names : AtOK(refs[r].at)
    BY <1>4, <2>1 DEF AtOK, NoRef
  <2> QED BY <1>1, <1>2, <1>3, <2>1, <2>2 DEF WritesInv
<1>5. CASE snaps = Seeded /\ refs \in Seeds
  <2> DEFINE x == [rev |-> 1, parents |-> <<>>, tree |-> Empty]
  <2>1. snaps = <<x>> /\ x.rev = 1 /\ FullTree(x.tree)
    BY <1>5 DEF Seeded, FullTree, Empty
  <2> HIDE DEF x
  <2>2. Len(snaps) = 1 /\ snaps[1] = x
    BY <2>1
  <2>3. RevIDs = {1}
    BY <2>1, <2>2 DEF RevIDs
  <2>4. PICK S \in SUBSET (Branches \ {Main}) :
          refs = [r \in Names |-> CASE r = Main -> [kind |-> "branch", at |-> <<"rev", 1>>]
                              [] r \in S  -> [kind |-> "branch", at |-> <<"hash", 1>>]
                              [] OTHER    -> NoRef]
    BY <1>5 DEF Seeds
  <2>5. ASSUME NEW r \in Names PROVE AtOK(refs[r].at)
    <3>1. refs[r] \in {[kind |-> "branch", at |-> <<"rev", 1>>], [kind |-> "branch", at |-> <<"hash", 1>>], NoRef}
      BY <2>4
    <3>2. NoRef.at = <<"hash", 0>>
      BY DEF NoRef
    <3> QED BY <2>2, <2>3, <3>1, <3>2 DEF AtOK
  <2> QED BY <1>1, <1>2, <1>3, <2>1, <2>2, <2>3, <2>5 DEF WritesInv
<1> QED BY <1>4, <1>5 DEF Init

LEMMA WritesNext ==
    ASSUME WritesInv, LabStep
    PROVE  WritesInv' /\ Seen
<1>0. BranchInv
  BY DEF WritesInv
<1>1. CASE UNCHANGED labVars
  <2>1. UNCHANGED <<calls, refs, snaps, kept>>
    BY <1>1 DEF labVars
  <2>2. BranchInv'
    BY <1>0, <2>1, GivenGrows, StepKeeps DEF Grows, SetsSound, MovesReady
  <2>3. Seen
    BY <2>1, NoRefMoves, SnapsSame DEF Seen, CallsStep
  <2> QED BY <2>2, <2>3, WritesStep DEF Seen
<1>2. CASE Next
  <2>1. Seen
    BY <1>2, WritesSeen, RefsSeen, OthersSeen DEF Next
  <2> QED BY <1>0, <2>1, BranchSteps, WritesStep DEF Seen
<1>3. ASSUME NEW c \in Calls, Fetch(c) PROVE WritesInv' /\ Seen
  <2>1. Seen
    BY <1>3, FetchReads, StaySeen
  <2> QED BY <1>0, <2>1, BranchSteps, WritesStep DEF Seen
<1> QED BY <1>1, <1>2, <1>3 DEF LabStep

\* A write that answered OK on a ref that nobody moved between its read and
\* its SetRef stays there, for any number of writers, until the file is
\* replaced or the ref is moved (applyFileChanges, WriteBlob, handleCommit).
THEOREM SerialWritesStay == HistSpec => []SerialWritesSurvive
<1>1. WritesInv /\ [HistNext]_histVars => WritesInv'
  BY WritesNext, HistStep
<1>2. WritesInv => SerialWritesSurvive
  BY DEF WritesInv, SerialWritesSurvive, Survives
<1>3. HistInit => WritesInv
  BY WritesInit DEF HistInit
<1> QED BY <1>1, <1>2, <1>3, PTL DEF HistSpec

-----------------------------------------------------------------------------
(* The push mirror.  Its record says that the destination holds the tip as  *)
(* long as one push runs at a time, none while the record is replaced, and  *)
(* no revision that was pushed gets a new snapshot, or is set as the target *)
(* of the default branch over REST.                                         *)

Ps           == Calls \cup {Loop}
PushRecs(A)  == [step : A, url : A, last : A, seen : A]
Marked(last) == last = <<>> \/ \E i \in RevIDs : last = <<"rev", i>>
Busy(p)      == push[p].step # "idle"
AtRev(i)     == IsBranch(Main) /\ refs[Main].at = <<"rev", i>>
PushOK(x)    ==
    /\ \E A : x \in PushRecs(A)
    /\ x.seen \in 0..Len(snaps) /\ Marked(x.last)
    /\ x.step \in {"sending", "sent"} => x.seen # 0
\* What push p sends is the tip of its revision.
SeesTip(p)   == push[p].seen # 0 /\ AtRev(snaps[push[p].seen].rev)
                  => push[p].seen = RevHash(snaps[push[p].seen].rev)
PushClean(p) == Busy(p) =>
    /\ \A q \in Ps : Busy(q) => q = p
    /\ mirror.on => push[p].url = mirror.url /\ push[p].last = mirror.last
    /\ SeesTip(p)
    /\ push[p].step = "sent" /\ mirror.on => remote[mirror.url] = push[p].seen
Recorded == \A i \in RevIDs : mirror.last = <<"rev", i>> /\ AtRev(i) => remote[mirror.url] = RevHash(i)
Clean ==
    /\ \A p \in Ps : PushClean(p)
    /\ mirror.on /\ (\A p \in Ps : push[p].step # "sent") => Recorded

MirrorInv ==
    /\ WritesInv /\ refs[Main].at # <<>>
    /\ \E A : mirror \in [on : BOOLEAN, url : A, last : A]
    /\ mirror.on => mirror.url \in Urls
    /\ Marked(mirror.last)
    /\ remote = [u \in Urls |-> remote[u]] /\ push = [p \in Ps |-> push[p]]
    /\ \A p \in Ps : PushOK(push[p])
    /\ blind \in BOOLEAN /\ (~blind => Clean)

\* What the calls that are not the mirror's do to what the mirror reads.
Blinds(j) == Pushed(j) => blind'
Aside     == refs'[Main].kind # "branch" /\ \E a, b : refs'[Main].at = <<a, b>>
HeadStep  == \/ refs'[Main] = refs[Main]
             \/ \E h : refs'[Main].at = <<"hash", h>>
             \/ refs'[Main].at = <<"rev", Next1>>
             \/ \E s : refs'[Main].at = <<"name", s>>
             \/ \E j : refs'[Main].at = <<"rev", j>> /\ Blinds(j)
             \/ Aside
AddStep   == snaps' = snaps \/ Adds(Next1) \/ \E j : Adds(j) /\ Blinds(j)
Besides   == /\ HeadStep /\ AddStep /\ UNCHANGED <<mirror, remote, push>>
             /\ blind' \in BOOLEAN /\ (blind => blind')

LEMMA PairIsNotEmpty ==
    ASSUME NEW a, NEW b
    PROVE  <<a, b>> # <<>>
<1>1. Len(<<a, b>>) = 2 /\ Len(<<>>) = 0
  OBVIOUS
<1> QED BY <1>1

\* The revision of a snapshot that is pushed, or recorded as pushed, is the
\* one the default branch was at, and has the hash it had.
LEMMA PushedStays ==
    ASSUME MirrorInv, Besides, ~blind', NEW i \in RevIDs, Pushed(i)
    PROVE  (AtRev(i)' => AtRev(i)) /\ RevHash(i)' = RevHash(i)
<1>1. Next1 \notin RevIDs /\ BranchInv
  BY Places DEF MirrorInv, WritesInv
<1>2. ASSUME NEW j, Blinds(j) PROVE j # i
  BY <1>2 DEF Blinds
<1>3. AtRev(i)' => AtRev(i)
  BY <1>1, <1>2 DEF Besides, HeadStep, Aside, AtRev, IsBranch
<1>4. snaps' = snaps \/ \E j : Adds(j) /\ j # i
  BY <1>1, <1>2 DEF Besides, AddStep, Blinds
<1> QED BY <1>1, <1>3, <1>4, RevHashStays

LEMMA BesidesKeeps ==
    ASSUME MirrorInv, WritesInv', SnapsStep, Besides
    PROVE  MirrorInv'
<1>1. /\ \A h \in 1..Len(snaps) : snaps'[h] = snaps[h]
      /\ 0..Len(snaps) \subseteq 0..Len(snaps') /\ RevIDs \subseteq RevIDs'
  BY SnapsGrow DEF MirrorInv
<1>2. refs'[Main].at # <<>>
  BY PairIsNotEmpty DEF MirrorInv, Besides, HeadStep, Aside
<1>3. Marked(mirror.last)' /\ \A p \in Ps : PushOK(push[p])'
  BY <1>1 DEF MirrorInv, Besides, Marked, PushOK
<1>4. ASSUME ~blind' PROVE Clean'
  <2>1. Clean
    BY <1>4 DEF MirrorInv, Besides
  <2>2. ASSUME NEW p \in Ps PROVE PushClean(p)'
    <3>0. PICK h, i : h = push[p].seen /\ i = snaps[h].rev
      OBVIOUS
    <3>1. CASE h = 0
      BY <2>1, <3>0, <3>1 DEF Besides, Clean, PushClean, SeesTip, Busy
    <3>2. CASE h # 0
      <4>1. h \in 1..Len(snaps) /\ push'[p] = push[p]
        BY <3>0, <3>2, Places DEF MirrorInv, PushOK, Besides
      <4>2. i \in RevIDs /\ Pushed(i)
        BY <3>0, <3>2, <4>1 DEF RevIDs, Pushed, MirrorInv
      <4>3. (AtRev(i)' => AtRev(i)) /\ RevHash(i)' = RevHash(i)
        BY <1>4, <4>2, PushedStays DEF MirrorInv
      <4>4. SeesTip(p) => SeesTip(p)'
        BY <1>1, <3>0, <3>2, <4>1, <4>3 DEF SeesTip
      <4> QED BY <2>1, <4>4 DEF Besides, Clean, PushClean, Busy
    <3> QED BY <3>1, <3>2
  <2>3. ASSUME Recorded, NEW i \in RevIDs', mirror'.last = <<"rev", i>>, AtRev(i)'
        PROVE  remote'[mirror'.url] = RevHash(i)'
    <3>1. UNCHANGED <<mirror, remote>>
      BY DEF Besides
    <3>2. i \in RevIDs /\ Pushed(i)
      BY <2>3, <3>1 DEF MirrorInv, Marked, Pushed
    <3>3. AtRev(i) /\ RevHash(i)' = RevHash(i)
      BY <1>4, <2>3, <3>2, PushedStays
    <3> QED BY <2>3, <3>1, <3>2, <3>3 DEF Recorded
  <2>4. Recorded => Recorded'
    BY <2>3 DEF Recorded
  <2> QED BY <2>1, <2>2, <2>4 DEF Clean, Besides
<1> QED BY <1>2, <1>3, <1>4 DEF MirrorInv, Besides

LEMMA StillBesides ==
    ASSUME blind \in BOOLEAN, UnchangedOthers, snaps' = snaps \/ Adds(Next1),
           \/ refs'[Main] = refs[Main]
           \/ \E h : refs'[Main].at = <<"hash", h>>
           \/ refs'[Main].at = <<"rev", Next1>>
           \/ Aside
    PROVE  Besides
BY DEF UnchangedOthers, Besides, HeadStep, AddStep

\* A ref set to at: the default branch, or another.
LEMMA HeadSet ==
    ASSUME WritesInv, NEW r, NEW kind, NEW at, SetRef(r, kind, at)
    PROVE  refs'[Main] = refs[Main] \/ (r = Main /\ refs'[Main].at = at /\ refs'[Main].kind = kind)
<1>1. Main \in Names
  BY LabAssumption DEF Names
<1> QED BY <1>1 DEF SetRef, WritesInv, BranchInv

LEMMA RebasedBesides ==
    ASSUME MirrorInv, NEW c \in Calls, NEW i \in RevIDs, NEW parents, Rebased(c, i, parents)
    PROVE  Besides
<1>1. PICK tree : Committed(i, parents, tree)
  BY DEF Rebased
<1>2. Adds(i)
  BY <1>1, NewTree DEF MirrorInv
<1>3. blind' = (blind \/ Pushed(i)) /\ UNCHANGED <<mirror, remote, push, refs>>
  BY DEF Rebased
<1>4. blind' \in BOOLEAN /\ (blind => blind') /\ (Pushed(i) => blind')
  BY <1>3 DEF MirrorInv
<1> QED BY <1>2, <1>3, <1>4 DEF Besides, HeadStep, AddStep, Blinds

LEMMA WritesBesides ==
    ASSUME MirrorInv, NEW c \in Calls, Writes(c)
    PROVE  Besides
<1>0. WritesInv /\ blind \in BOOLEAN
  BY DEF MirrorInv
<1>1. CASE UNCHANGED <<refs, snaps>> /\ UnchangedOthers
  BY <1>0, <1>1, StillBesides
<1>2. CASE WriteLands(c)
  <2>1. /\ Committed(Next1, Root(calls[c].base), [TreeOf(calls[c].base) EXCEPT ![calls[c].file] = calls[c].content])
        /\ SetRef(calls[c].ref, "branch", TargetOf(calls[c].op)) /\ UnchangedOthers
    BY <1>2 DEF WriteLands, MovesRef
  <2>2. PICK r, at, n, parents, tree :
             /\ r = calls[c].ref /\ at = TargetOf(calls[c].op) /\ n = Next1
             /\ SetRef(r, "branch", at) /\ Committed(n, parents, tree)
    BY <2>1
  <2>3. Adds(Next1)
    BY <1>0, <2>2, NewTree
  <2>4. at = <<"rev", n>> \/ at = <<"hash", n>>
    BY <2>2 DEF TargetOf
  <2>5. refs'[Main] = refs[Main] \/ refs'[Main].at = at
    BY <1>0, <2>2, HeadSet
  <2> QED BY <1>0, <2>1, <2>2, <2>3, <2>4, <2>5, StillBesides
<1>3. CASE WriteDetached(c)
  <2>1. /\ Committed(Next1, Root(calls[c].base), [TreeOf(calls[c].base) EXCEPT ![calls[c].file] = calls[c].content])
        /\ UNCHANGED refs /\ UnchangedOthers
    BY <1>3 DEF WriteDetached
  <2>2. PICK n, parents, tree : n = Next1 /\ Committed(n, parents, tree)
    BY <2>1
  <2>3. Adds(Next1)
    BY <1>0, <2>2, NewTree
  <2> QED BY <1>0, <2>1, <2>3, StillBesides
<1>4. CASE AmendLands(c)
  <2> DEFINE tip == RevHash(calls[c].base)
  <2>1. /\ Committed(calls[c].base, snaps[tip].parents, [snaps[tip].tree EXCEPT ![calls[c].file] = calls[c].content])
        /\ SetRef(calls[c].ref, "branch", <<"rev", calls[c].base>>)
        /\ blind' = (blind \/ Pushed(calls[c].base)) /\ UNCHANGED <<mirror, remote, push>>
    BY <1>4 DEF AmendLands
  <2>2. PICK r, i, parents, tree :
             /\ SetRef(r, "branch", <<"rev", i>>) /\ Committed(i, parents, tree)
             /\ blind' = (blind \/ Pushed(i))
    BY <2>1
  <2>3. Adds(i)
    BY <1>0, <2>2, NewTree
  <2>4. blind' \in BOOLEAN /\ (blind => blind') /\ (Pushed(i) => blind')
    BY <1>0, <2>2
  <2>5. refs'[Main] = refs[Main] \/ refs'[Main].at = <<"rev", i>>
    BY <1>0, <2>2, HeadSet
  <2> QED BY <2>1, <2>3, <2>4, <2>5 DEF Besides, HeadStep, AddStep, Blinds
<1>5. CASE RecommitLands(c)
  <2>1. PICK r, n, i, parents, tree :
             /\ SetRef(r, "branch", <<"hash", n>>) /\ Committed(i, parents, tree)
             /\ blind' = (blind \/ Pushed(i)) /\ UNCHANGED <<mirror, remote, push>>
    BY <1>5 DEF RecommitLands, MovesRef
  <2>2. Adds(i)
    BY <1>0, <2>1, NewTree
  <2>3. blind' \in BOOLEAN /\ (blind => blind') /\ (Pushed(i) => blind')
    BY <1>0, <2>1
  <2>4. refs'[Main] = refs[Main] \/ refs'[Main].at = <<"hash", n>>
    BY <1>0, <2>1, HeadSet
  <2> QED BY <2>1, <2>2, <2>3, <2>4 DEF Besides, HeadStep, AddStep, Blinds
<1>6. CASE PostTree(c)
  <2>1. PICK i, parents, tree :
             /\ Committed(i, parents, tree) /\ blind' = (blind \/ Pushed(i))
             /\ UNCHANGED <<refs, mirror, remote, push>>
    BY <1>6 DEF PostTree
  <2>2. Adds(i)
    BY <1>0, <2>1, NewTree
  <2>3. blind' \in BOOLEAN /\ (blind => blind') /\ (Pushed(i) => blind')
    BY <1>0, <2>1
  <2> QED BY <2>1, <2>2, <2>3 DEF Besides, HeadStep, AddStep, Blinds
<1> QED BY <1>1, <1>2, <1>3, <1>4, <1>5, <1>6
        DEF Writes, WriteFiles, EditTool, AmendFiles, PostCommit, PostRecommit, WriteBlob, EditOpens

LEMMA RefsBesides ==
    ASSUME MirrorInv, NEW c \in Calls, MovesRefs(c)
    PROVE  Besides
<1>0. WritesInv /\ blind \in BOOLEAN
  BY DEF MirrorInv
<1>1. CASE UNCHANGED <<refs, snaps>> /\ UnchangedOthers
  BY <1>0, <1>1, StillBesides
<1>2. CASE BranchLands(c)
  <2>1. PICK r, h : r = calls[c].ref /\ h = calls[c].base
    OBVIOUS
  <2>2. SetRef(r, "branch", <<"hash", h>>) /\ UNCHANGED snaps /\ UnchangedOthers
    BY <1>2, <2>1 DEF BranchLands, BranchTarget
  <2>3. refs'[Main] = refs[Main] \/ refs'[Main].at = <<"hash", h>>
    BY <1>0, <2>2, HeadSet
  <2> QED BY <1>0, <2>2, <2>3, StillBesides
<1>3. ASSUME NEW r \in Names, DeleteRef(c, r) PROVE Besides
  <2>1. SetRef(r, "none", <<"hash", 0>>) /\ UNCHANGED snaps /\ UnchangedOthers
    BY <1>3 DEF DeleteRef, SetRef, NoRef
  <2>2. refs'[Main] = refs[Main] \/ refs'[Main].at = <<"hash", 0>>
    BY <1>0, <2>1, HeadSet
  <2> QED BY <1>0, <2>1, <2>2, StillBesides
<1>8. ASSUME NEW at \in Targets PROVE \E a, b : at = <<a, b>>
  BY DEF Targets
<1>4. ASSUME NEW r \in Names, SetTag(c, r) PROVE Besides
  <2>1. PICK at : SetRef(r, "tag", at) /\ \E a, b : at = <<a, b>>
    BY <1>4, <1>8 DEF SetTag
  <2>2. UNCHANGED snaps /\ UnchangedOthers
    BY <1>4 DEF SetTag
  <2>3. refs'[Main] = refs[Main] \/ Aside
    BY <1>0, <2>1, HeadSet DEF Aside
  <2> QED BY <1>0, <2>2, <2>3, StillBesides
<1>5. ASSUME NEW r \in Names, NEW kind \in {"branch", "tag"}, NEW at \in Targets, PostRef(c, r, kind, at)
      PROVE  Besides
  <2>1. /\ SetRef(r, kind, at) /\ UNCHANGED <<snaps, mirror, remote, push>>
        /\ blind' = (blind \/ (r = Main /\ at[1] = "rev" /\ Pushed(at[2])))
    BY <1>5 DEF PostRef
  <2>2. blind' \in BOOLEAN /\ (blind => blind')
    BY <1>0, <2>1
  <2>3. refs'[Main] = refs[Main] \/ (r = Main /\ refs'[Main].at = at)
    BY <1>0, <2>1, HeadSet
  <2>4. \/ \E h : at = <<"hash", h>>
        \/ \E j : at = <<"rev", j>>
        \/ \E s : at = <<"name", s>>
    BY DEF Targets
  <2>5. ASSUME NEW j, at = <<"rev", j>>, r = Main PROVE Blinds(j)
    BY <2>1, <2>5 DEF Blinds
  <2> QED BY <2>1, <2>2, <2>3, <2>4, <2>5 DEF Besides, HeadStep, AddStep
<1>6. CASE Rebase(c)
  BY <1>6, RebasedBesides DEF Rebase
<1>7. CASE RebaseToolLands(c)
  <2>1. PICK i, p : i \in RevIDs /\ Rebased(c, i, p)
    BY <1>7 DEF RebaseToolLands
  <2> QED BY <2>1, RebasedBesides
<1> QED BY <1>1, <1>2, <1>3, <1>4, <1>5, <1>6, <1>7
        DEF MovesRefs, CreateBranch, RebaseTool

LEMMA RequestsBesides ==
    ASSUME MirrorInv, NEW c \in Calls, Requests(c)
    PROVE  Besides
<1>0. WritesInv /\ blind \in BOOLEAN
  BY DEF MirrorInv
<1>1. CASE UNCHANGED <<refs, snaps>> /\ UnchangedOthers
  BY <1>0, <1>1, StillBesides
<1>2. CASE MergeLands(c)
  <2>1. PICK n, parents, tree : n = Next1 /\ Committed(n, parents, tree)
    BY <1>2 DEF MergeLands
  <2>2. Adds(Next1)
    BY <1>0, <2>1, NewTree
  <2>3. UNCHANGED refs /\ UnchangedOthers
    BY <1>2 DEF MergeLands
  <2> QED BY <1>0, <2>2, <2>3, StillBesides
<1> QED BY <1>1, <1>2
        DEF Requests, MergeRequestTool, MergeTool, CreateMergeRequest, UpdateMergeRequest, MergeMergeRequest

-----------------------------------------------------------------------------
\* The mirror's own steps change no ref and no snapshot.
LEMMA MirrorReads ==
    ASSUME UNCHANGED <<refs, snaps>>
    PROVE  /\ RevIDs' = RevIDs
           /\ \A i : RevHash(i)' = RevHash(i) /\ (AtRev(i)' <=> AtRev(i))
           /\ \A last : Marked(last) => Marked(last)'
           /\ \A x : PushOK(x) => PushOK(x)'
BY DEF RevIDs, RevHash, AtRev, IsBranch, Marked, PushOK

LEMMA RecordKeeps ==
    ASSUME MirrorInv, WritesInv', UNCHANGED <<refs, snaps, remote, push>>, blind' \in BOOLEAN,
           \E A : mirror' \in [on : BOOLEAN, url : A, last : A],
           mirror'.on => mirror'.url \in Urls,
           mirror'.last = <<>>,
           ~blind' /\ mirror'.on => \A p \in Ps : ~Busy(p),
           ~blind' => ~blind \/ \A p \in Ps : ~Busy(p)
    PROVE  MirrorInv'
<1>1. Marked(mirror.last)' /\ \A p \in Ps : PushOK(push[p])'
  BY MirrorReads DEF MirrorInv, Marked
<1>2. ASSUME ~blind' PROVE Clean'
  <2>1. \A p \in Ps : Busy(p)' <=> Busy(p)
    BY DEF Busy
  <2>2. \A p \in Ps : SeesTip(p) => SeesTip(p)'
    BY MirrorReads DEF SeesTip, AtRev
  <2>3. \A p \in Ps : PushClean(p)'
    <3>1. CASE \A p \in Ps : ~Busy(p)
      BY <2>1, <3>1 DEF PushClean
    <3>2. CASE ~blind /\ ~mirror'.on
      BY <2>1, <2>2, <3>2 DEF MirrorInv, Clean, PushClean
    <3> QED BY <1>2, <3>1, <3>2
  <2>4. Recorded'
    BY PairIsNotEmpty DEF Recorded
  <2> QED BY <2>3, <2>4 DEF Clean
<1> QED BY <1>1, <1>2 DEF MirrorInv

LEMMA SetsRecord ==
    ASSUME MirrorInv, WritesInv', NEW c \in Calls,
           DeleteMirror(c) \/ \E u \in Urls : SetMirror(c, u)
    PROVE  MirrorInv'
<1>1. InFlight <=> \E p \in Ps : Busy(p)
  <2>1. DOMAIN push = Ps
    BY DEF MirrorInv
  <2> QED BY <2>1 DEF InFlight, Busy
<1>2. CASE DeleteMirror(c)
  <2>1. mirror' = NoMirror /\ UNCHANGED <<refs, snaps, remote, push, blind>>
    BY <1>2 DEF DeleteMirror
  <2>2. mirror' \in [on : BOOLEAN, url : {<<>>}, last : {<<>>}] /\ mirror'.on = FALSE /\ mirror'.last = <<>>
    BY <2>1 DEF NoMirror
  <2> QED BY <2>1, <2>2, RecordKeeps DEF MirrorInv
<1>3. ASSUME NEW u \in Urls, SetMirror(c, u) PROVE MirrorInv'
  <2>1. /\ mirror' = [on |-> TRUE, url |-> u, last |-> <<>>] /\ blind' = InFlight
        /\ UNCHANGED <<refs, snaps, remote, push>>
    BY <1>3 DEF SetMirror
  <2>2. mirror' \in [on : BOOLEAN, url : {u, <<>>}, last : {u, <<>>}] /\ mirror'.url = u /\ mirror'.last = <<>>
    BY <2>1
  <2>3. blind' \in BOOLEAN /\ (~blind' => \A p \in Ps : ~Busy(p))
    BY <1>1, <2>1 DEF InFlight
  <2> QED BY <2>1, <2>2, <2>3, RecordKeeps
<1> QED BY <1>2, <1>3

\* A push starts from the record, and from the tip.
LEMMA StartKeeps ==
    ASSUME MirrorInv, WritesInv', NEW p \in Ps, StartsPush(p),
           UNCHANGED <<refs, snaps, mirror, remote>>
    PROVE  MirrorInv'
<1>0. WritesInv /\ Main \in Names
  BY LabAssumption DEF MirrorInv, Names
<1>1. PICK h, u, last : h = Resolve(Main) /\ u = mirror.url /\ last = mirror.last
  OBVIOUS
<1>2. h \in 0..Len(snaps) /\ Marked(last)
  BY <1>0, <1>1, ResolveIn DEF MirrorInv
<1>3. PICK y : y = [step |-> IF h = 0 THEN "failed" ELSE "sending", url |-> u, last |-> last, seen |-> h]
  OBVIOUS
<1>4. push' = [push EXCEPT ![p] = y] /\ blind' = (blind \/ InFlight)
  BY <1>1, <1>3 DEF StartsPush
<1>5. push' = [q \in Ps |-> push'[q]] /\ push'[p] = y /\ \A q \in Ps \ {p} : push'[q] = push[q]
  BY <1>4 DEF MirrorInv
<1>6. PushOK(y)
  <2>1. y \in PushRecs({y.step, u, last, h})
    BY <1>3 DEF PushRecs
  <2> QED BY <1>2, <1>3, <2>1 DEF PushOK
<1>7. \A q \in Ps : PushOK(push[q])'
  BY <1>5, <1>6, MirrorReads DEF MirrorInv
<1>8. blind' \in BOOLEAN
  BY <1>4 DEF MirrorInv, InFlight
<1>9. ASSUME ~blind' PROVE Clean'
  <2>1. ~blind /\ \A q \in Ps : ~Busy(q)
    <3>1. DOMAIN push = Ps
      BY DEF MirrorInv
    <3> QED BY <1>4, <1>9, <3>1 DEF InFlight, Busy
  <2>2. \A q \in Ps \ {p} : ~Busy(q)' /\ push'[q].step # "sent"
    BY <1>5, <2>1 DEF Busy
  <2>3. SeesTip(p)'
    <3>1. PICK i : i = snaps[h].rev
      OBVIOUS
    <3>2. ASSUME h # 0, AtRev(i) PROVE h = RevHash(i)
      <4>1. i \in RevIDs
        BY <1>0, <1>2, <3>1, <3>2, Places DEF RevIDs
      <4>2. Hop(Hop(refs[Main].at)) = <<"rev", i>>
        BY <3>2 DEF AtRev, Hop
      <4> QED BY <1>1, <4>1, <4>2 DEF Resolve, Direct
    <3> QED BY <1>3, <1>5, <3>1, <3>2, MirrorReads DEF SeesTip
  <2>4. PushClean(p)'
    BY <1>1, <1>3, <1>5, <2>2, <2>3 DEF PushClean, Busy
  <2>5. \A q \in Ps : PushClean(q)'
    BY <2>2, <2>4 DEF PushClean
  <2>6. mirror.on => Recorded
    BY <2>1 DEF MirrorInv, Clean, Busy
  <2>7. mirror'.on => Recorded'
    BY <2>6, MirrorReads DEF Recorded
  <2> QED BY <2>5, <2>7 DEF Clean
<1> QED BY <1>5, <1>7, <1>8, <1>9, MirrorReads DEF MirrorInv

\* A push that gets on, sent or broken.
LEMMA PushKeeps ==
    ASSUME MirrorInv, WritesInv', NEW p \in Ps, PushSent(p) \/ PushBreaks(p)
    PROVE  MirrorInv'
<1> DEFINE x == push[p]
<1>1. x.step = "sending" /\ UNCHANGED <<refs, snaps, mirror, blind>>
  BY DEF PushSent, PushBreaks
<1>2. PICK A : x \in PushRecs(A)
  BY DEF MirrorInv, PushOK
<1>3. PICK st \in {"sent", "failed"} :
           /\ push' = [push EXCEPT ![p].step = st]
           /\ remote' = IF st = "sent" THEN [remote EXCEPT ![x.url] = x.seen] ELSE remote
  BY DEF PushSent, PushBreaks
<1>4. PICK y : y = [x EXCEPT !.step = st]
  OBVIOUS
<1>5. /\ y \in PushRecs(A \cup {"sent", "failed"})
      /\ y.step = st /\ y.url = x.url /\ y.last = x.last /\ y.seen = x.seen
  BY <1>2, <1>4 DEF PushRecs
<1>6. push' = [q \in Ps |-> push'[q]] /\ push'[p] = y /\ \A q \in Ps \ {p} : push'[q] = push[q]
  BY <1>3, <1>4 DEF MirrorInv
<1>7. PushOK(y)
  BY <1>1, <1>5 DEF MirrorInv, PushOK
<1>8. \A q \in Ps : PushOK(push[q])'
  BY <1>1, <1>6, <1>7, MirrorReads DEF MirrorInv
<1>9. remote' = [u \in Urls |-> remote'[u]]
  BY <1>3 DEF MirrorInv
<1>10. ASSUME ~blind' PROVE Clean'
  <2>1. Clean /\ Busy(p)
    BY <1>1, <1>10 DEF MirrorInv, Busy
  <2>2. \A q \in Ps \ {p} : ~Busy(q)
    BY <2>1 DEF Clean, PushClean
  <2>3. \A q \in Ps \ {p} : ~Busy(q)'
    BY <1>6, <2>2 DEF Busy
  <2>4. SeesTip(p)'
    BY <1>1, <1>5, <1>6, <2>1, MirrorReads DEF SeesTip, Clean, PushClean
  <2>5. mirror.on => x.url = mirror.url /\ x.last = mirror.last
    BY <2>1 DEF Clean, PushClean
  <2>6. st = "sent" /\ mirror.on => remote'[mirror.url] = x.seen
    BY <1>3, <2>5 DEF MirrorInv
  <2>7. PushClean(p)'
    BY <1>1, <1>5, <1>6, <2>3, <2>4, <2>5, <2>6 DEF PushClean
  <2>8. \A q \in Ps : PushClean(q)'
    BY <2>3, <2>7 DEF PushClean
  <2>9. ASSUME mirror'.on, \A q \in Ps : push'[q].step # "sent" PROVE Recorded'
    <3>1. st = "failed" /\ remote' = remote
      BY <1>3, <1>5, <1>6, <2>9
    <3>2. \A q \in Ps : push[q].step # "sent"
      BY <1>1, <1>6, <2>9
    <3>3. Recorded
      BY <1>1, <2>1, <2>9, <3>2 DEF Clean
    <3> QED BY <1>1, <3>1, <3>3, MirrorReads DEF Recorded
  <2> QED BY <2>8, <2>9 DEF Clean
<1> QED BY <1>1, <1>8, <1>6, <1>9, <1>10, MirrorReads DEF MirrorInv

\* A push that is over: it records what it sent, or what was recorded.
LEMMA OverKeeps ==
    ASSUME MirrorInv, WritesInv', NEW p \in Ps, PushRecorded(p) \/ PushFailed(p)
    PROVE  MirrorInv'
<1> DEFINE x == push[p]
<1>1. /\ UNCHANGED <<refs, snaps, remote, blind>> /\ push' = [push EXCEPT ![p] = NoPush]
      /\ \/ x.step = "sent" /\ Records(Synced(p))
         \/ x.step = "failed" /\ Records(x.last)
  BY DEF PushRecorded, PushFailed
<1>2. PICK last : Records(last) /\ \/ x.step = "sent" /\ last = <<"rev", snaps[x.seen].rev>>
                                   \/ x.step = "failed" /\ last = x.last
  BY <1>1 DEF Synced
<1>3. PushOK(x) /\ Busy(p)
  BY <1>1 DEF MirrorInv, Busy
<1>4. Marked(last)
  <2>1. CASE x.step = "sent"
    <3>1. x.seen \in 1..Len(snaps)
      BY <1>3, <2>1, Places DEF PushOK, MirrorInv
    <3> QED BY <1>2, <2>1, <3>1 DEF Marked, RevIDs
  <2>2. CASE x.step = "failed"
    BY <1>2, <1>3, <2>2 DEF PushOK
  <2> QED BY <1>2, <2>1, <2>2
<1>5. /\ \E A : mirror' \in [on : BOOLEAN, url : A, last : A]
      /\ mirror'.on = mirror.on /\ mirror'.url = mirror.url
      /\ mirror.on => mirror'.last = last
      /\ Marked(mirror'.last)
  <2>1. PICK A : mirror \in [on : BOOLEAN, url : A, last : A]
    BY DEF MirrorInv
  <2>2. CASE mirror.on
    <3>1. mirror' = [mirror EXCEPT !.last = last]
      BY <1>2, <2>2 DEF Records
    <3>2. mirror' \in [on : BOOLEAN, url : A \cup {last}, last : A \cup {last}]
          /\ mirror'.on = mirror.on /\ mirror'.url = mirror.url /\ mirror'.last = last
      BY <2>1, <3>1
    <3> QED BY <1>4, <3>2
  <2>3. CASE ~mirror.on
    BY <1>2, <2>1, <2>3 DEF Records, MirrorInv
  <2> QED BY <2>2, <2>3
<1>6. push' = [q \in Ps |-> push'[q]] /\ push'[p] = NoPush /\ \A q \in Ps \ {p} : push'[q] = push[q]
  BY <1>1 DEF MirrorInv
<1>7. PushOK(NoPush)
  <2>1. NoPush \in PushRecs({"idle", <<>>, 0}) /\ NoPush.step = "idle" /\ NoPush.seen = 0 /\ NoPush.last = <<>>
    BY DEF NoPush, PushRecs
  <2>2. Len(snaps) \in Nat
    BY Places DEF MirrorInv
  <2> QED BY <2>1, <2>2 DEF PushOK, Marked
<1>8. \A q \in Ps : PushOK(push[q])'
  BY <1>1, <1>6, <1>7, MirrorReads DEF MirrorInv
<1>9. ASSUME ~blind' PROVE Clean'
  <2>1. Clean
    BY <1>1, <1>9 DEF MirrorInv
  <2>2. \A q \in Ps \ {p} : ~Busy(q)
    BY <1>3, <2>1 DEF Clean, PushClean
  <2>3. \A q \in Ps : ~Busy(q)'
    BY <1>6, <2>2 DEF Busy, NoPush
  <2>4. ASSUME mirror.on, NEW i \in RevIDs, last = <<"rev", i>>, AtRev(i)
        PROVE  remote[mirror.url] = RevHash(i)
    <3>1. CASE x.step = "sent"
      <4>1. i = snaps[x.seen].rev /\ x.seen # 0
        BY <1>2, <1>3, <2>4, <3>1 DEF PushOK
      <4>2. x.seen = RevHash(i) /\ remote[mirror.url] = x.seen
        BY <1>3, <2>1, <2>4, <3>1, <4>1 DEF Clean, PushClean, SeesTip
      <4> QED BY <4>2
    <3>2. CASE x.step = "failed"
      <4>1. last = mirror.last
        BY <1>2, <1>3, <2>1, <2>4, <3>2 DEF Clean, PushClean
      <4>2. \A q \in Ps : push[q].step # "sent"
        BY <2>2, <3>2 DEF Busy
      <4> QED BY <2>1, <2>4, <4>1, <4>2 DEF Clean, Recorded
    <3> QED BY <1>2, <3>1, <3>2
  <2>5. mirror'.on => Recorded'
    BY <1>1, <1>5, <2>4, MirrorReads DEF Recorded
  <2>6. \A q \in Ps : PushClean(q)'
    BY <2>3 DEF PushClean
  <2> QED BY <2>5, <2>6 DEF Clean
<1>10. Marked(mirror.last)'
  BY <1>1, <1>5, MirrorReads DEF Marked
<1> QED BY <1>1, <1>5, <1>6, <1>8, <1>9, <1>10 DEF MirrorInv

LEMMA MirrorInit == Init => MirrorInv
<1> SUFFICES ASSUME Init PROVE MirrorInv
  OBVIOUS
<1>1. WritesInv
  BY WritesInit
<1>2. refs[Main].at # <<>>
  <2>1. Main \in Names
    BY LabAssumption DEF Names
  <2>2. CASE refs = [r \in Names |-> NoRef]
    BY <2>1, <2>2, PairIsNotEmpty DEF NoRef
  <2>3. CASE refs \in Seeds
    <3>1. refs[Main].at = <<"rev", 1>>
      BY <2>1, <2>3 DEF Seeds
    <3> QED BY <3>1, PairIsNotEmpty
  <2> QED BY <2>2, <2>3 DEF Init
<1>3. mirror \in [on : BOOLEAN, url : {<<>>}, last : {<<>>}] /\ mirror.on = FALSE /\ mirror.last = <<>>
  BY DEF Init, NoMirror
<1>4. Len(snaps) \in Nat
  BY <1>1, Places
<1>5. \A p \in Ps : push[p] = NoPush
  BY DEF Init, Ps
<1>6. NoPush \in PushRecs({"idle", <<>>, 0}) /\ NoPush.step = "idle" /\ NoPush.seen = 0 /\ NoPush.last = <<>>
  BY DEF NoPush, PushRecs
<1>7. PushOK(NoPush)
  BY <1>4, <1>6 DEF PushOK, Marked
<1>8. remote = [u \in Urls |-> remote[u]] /\ push = [p \in Ps |-> push[p]] /\ blind = FALSE
  BY DEF Init, Ps
<1>9. Clean
  BY <1>3, <1>5, <1>6 DEF Clean, PushClean, Busy
<1> QED BY <1>1, <1>2, <1>3, <1>5, <1>7, <1>8, <1>9 DEF MirrorInv, Marked

LEMMA MirrorNext ==
    ASSUME MirrorInv, LabStep
    PROVE  MirrorInv'
<1>1. WritesInv' /\ SnapsStep
  BY WritesNext DEF MirrorInv, Seen
<1>2. ASSUME Besides PROVE MirrorInv'
  BY <1>1, <1>2, BesidesKeeps
<1>3. CASE UNCHANGED labVars
  <2>1. Besides
    BY <1>3 DEF labVars, Besides, HeadStep, AddStep, MirrorInv
  <2> QED BY <1>2, <2>1
<1>4. ASSUME NEW c \in Calls, Writes(c) \/ MovesRefs(c) \/ Requests(c) PROVE MirrorInv'
  BY <1>2, <1>4, WritesBesides, RefsBesides, RequestsBesides
<1>5. CASE Mirrors
  <2>1. ASSUME NEW c \in Calls, SyncMirror(c) PROVE MirrorInv'
    BY <1>1, <2>1, StartKeeps DEF SyncMirror, Ps
  <2>2. CASE LoopPushes
    BY <1>1, <2>2, StartKeeps DEF LoopPushes, Ps
  <2> QED BY <1>1, <1>5, <2>1, <2>2, SetsRecord, PushKeeps, OverKeeps DEF Mirrors, Ps
<1>6. ASSUME NEW c \in Calls, Fetch(c) PROVE MirrorInv'
  <2>1. Besides
    BY <1>6, FetchReads, StillBesides DEF MirrorInv
  <2> QED BY <1>2, <2>1
<1> QED BY <1>3, <1>4, <1>5, <1>6 DEF Next, LabStep

\* When the mirror loop sees nothing to push, because the record is the
\* target of the default branch, the destination holds the tip: for any
\* number of calls and destinations, while pushes do not overlap, the record
\* is not replaced during one and no pushed revision gets a new snapshot or
\* is set as the default branch's target over REST
\* (pushDirtyMirrors, UpdatePushMirrorSync).
THEOREM MirrorHoldsTip == HistSpec => []MirrorClean
<1>1. MirrorInv /\ [HistNext]_histVars => MirrorInv'
  BY MirrorNext, HistStep
<1>2. MirrorInv => MirrorClean
  <2> SUFFICES ASSUME MirrorInv, mirror.on, ~InFlight, IsBranch(Main), refs[Main].at = mirror.last, ~blind
               PROVE  remote[mirror.url] = Resolve(Main)
    BY DEF MirrorClean
  <2>1. PICK i \in RevIDs : mirror.last = <<"rev", i>>
    BY DEF MirrorInv, Marked
  <2>2. DOMAIN push = Ps
    BY DEF MirrorInv
  <2>3. \A p \in Ps : push[p].step # "sent"
    BY <2>2 DEF InFlight
  <2>4. remote[mirror.url] = RevHash(i)
    BY <2>1, <2>3 DEF MirrorInv, Clean, Recorded, AtRev
  <2>5. Hop(Hop(refs[Main].at)) = <<"rev", i>>
    BY <2>1 DEF Hop
  <2>6. Resolve(Main) = RevHash(i)
    BY <2>5 DEF Resolve, Direct
  <2> QED BY <2>4, <2>6
<1>3. HistInit => MirrorInv
  BY MirrorInit DEF HistInit
<1> QED BY <1>1, <1>2, <1>3, PTL DEF HistSpec

-----------------------------------------------------------------------------
(* Types.                                                                   *)

Trees       == [Files -> SUBSET Calls]
CallSet(n)  == [op : Ops \cup {"none", "recommit"}, step : {"new", "open", "land", "done"}, ref : Names,
                file : Files \cup {<<>>}, content : SUBSET Calls, base : 0..n,
                source : 0..n, raced : BOOLEAN]
Based(call, n) == call.step = "land" /\ call.op \in {"merge", "vcs-rebase"} => call.base \in 1..n
SnapsTyped  == \A h \in 1..Len(snaps) :
                 /\ snaps[h].rev \in 1..h /\ snaps[h].tree \in Trees
                 /\ snaps[h].parents \in Seq(1..(h - 1))
RefsTyped   == refs \in [Names -> [kind : {"none", "branch", "tag"}, at : Targets]]
CallsTyped  == calls \in [Calls -> CallSet(Len(snaps))] /\ \A c \in Calls : Based(calls[c], Len(snaps))
MRTyped     == mr \in [state : {"none", "open", "closed", "merged"}, source : Branches,
                       target : Branches, rev : 0..Len(snaps)]
PushTyped   == /\ mirror \in [on : BOOLEAN, url : Urls \cup {<<>>}, last : Marks]
               /\ remote \in [Urls -> 0..Len(snaps)]
               /\ push \in [Ps -> [step : {"idle", "sending", "sent", "failed"},
                                   url : Urls \cup {<<>>}, last : Marks, seen : 0..Len(snaps)]]
RestTyped   == fails \in 0..MaxFails /\ given \subseteq Targets /\ kept \in [Names -> SUBSET Calls]

TypeInv == /\ MirrorInv /\ SnapsTyped /\ RefsTyped /\ CallsTyped /\ MRTyped /\ PushTyped /\ RestTyped

\* What a step does, as far as types can see it.
SnapsT == \/ snaps' = snaps
          \/ \E i \in 1..Next1, parents \in Seq(1..Len(snaps)), tree \in Trees :
               Committed(i, parents, tree)
RefsT  == \/ refs' = refs
          \/ \E r : \E kind \in {"none", "branch", "tag"}, at \in Targets' : SetRef(r, kind, at)
CallsT == \/ calls' = calls
          \/ \E c \in Calls, call \in CallSet(Len(snaps)) : Becomes(c, call) /\ Based(call, Len(snaps))

LEMMA TypesGrow ==
    ASSUME TypeInv, SnapsT
    PROVE  /\ Len(snaps) \in Nat /\ Len(snaps') \in Nat /\ Len(snaps) <= Len(snaps')
           /\ RevIDs \subseteq RevIDs' /\ Targets \subseteq Targets' /\ Marks \subseteq Marks'
           /\ SnapsTyped'
<1>1. Len(snaps) \in Nat /\ BranchInv
  BY Places DEF TypeInv, MirrorInv, WritesInv
<1>2. CASE snaps' = snaps
  BY <1>1, <1>2 DEF RevIDs, Targets, Marks, TypeInv, SnapsTyped
<1>3. ASSUME NEW i \in 1..Next1, NEW parents \in Seq(1..Len(snaps)), NEW tree \in Trees,
             Committed(i, parents, tree)
      PROVE  /\ Len(snaps') \in Nat /\ Len(snaps) <= Len(snaps')
             /\ RevIDs \subseteq RevIDs' /\ Targets \subseteq Targets' /\ Marks \subseteq Marks'
             /\ SnapsTyped'
  <2> DEFINE s == [rev |-> i, parents |-> parents, tree |-> tree]
  <2>1. snaps' = Append(snaps, s) /\ s.rev = i /\ s.tree = tree /\ s.parents = parents
    BY <1>3 DEF Committed
  <2> HIDE DEF s
  <2>2. PICK S : snaps \in Seq(S)
    BY <1>1 DEF BranchInv
  <2>3. snaps \in Seq(S \cup {s}) /\ s \in S \cup {s}
    BY <2>2
  <2>4. /\ Len(snaps') = Len(snaps) + 1 /\ snaps'[Len(snaps) + 1] = s
        /\ \A h \in 1..Len(snaps) : snaps'[h] = snaps[h]
    BY <2>1, <2>3, AppendProperties
  <2>5. 1..Len(snaps') = 1..Len(snaps) \cup {Len(snaps) + 1} /\ 0..Len(snaps) \subseteq 0..Len(snaps')
    BY <1>1, <2>4
  <2>6. RevIDs \subseteq RevIDs'
    BY <2>4, <2>5 DEF RevIDs
  <2>7. Targets \subseteq Targets' /\ Marks \subseteq Marks'
    BY <2>5, <2>6 DEF Targets, Marks
  <2>8. SnapsTyped'
    <3>1. \A h \in 1..Len(snaps) : /\ snaps'[h].rev \in 1..h /\ snaps'[h].tree \in Trees
                                   /\ snaps'[h].parents \in Seq(1..(h - 1))
      BY <2>4 DEF TypeInv, SnapsTyped
    <3>2. PICK n : n = Len(snaps) + 1 /\ n - 1 = Len(snaps)
      BY <1>1
    <3>3. /\ snaps'[n].rev \in 1..n /\ snaps'[n].tree \in Trees
          /\ snaps'[n].parents \in Seq(1..(n - 1))
      BY <1>3, <2>1, <2>4, <3>2 DEF Next1
    <3> QED BY <2>5, <3>1, <3>2, <3>3 DEF SnapsTyped
  <2> QED BY <1>1, <2>4, <2>6, <2>7, <2>8
<1> QED BY <1>1, <1>2, <1>3 DEF SnapsT

LEMMA TypesKeep ==
    ASSUME TypeInv, MirrorInv', SnapsT, RefsT, CallsT, MRTyped', PushTyped', RestTyped'
    PROVE  TypeInv'
<1>1. /\ Len(snaps) \in Nat /\ Len(snaps') \in Nat /\ Len(snaps) <= Len(snaps')
      /\ Targets \subseteq Targets' /\ SnapsTyped'
  BY TypesGrow
<1>2. RefsTyped'
  <2>1. PICK T : T = Targets' /\ Targets \subseteq T
    BY <1>1
  <2>2. refs \in [Names -> [kind : {"none", "branch", "tag"}, at : T]]
    BY <2>1 DEF TypeInv, RefsTyped
  <2>3. refs' \in [Names -> [kind : {"none", "branch", "tag"}, at : T]]
    BY <2>1, <2>2 DEF RefsT, SetRef
  <2> QED BY <2>1, <2>3 DEF RefsTyped
<1>3. CallsTyped'
  <2>1. PICK n, m : n = Len(snaps) /\ m = Len(snaps') /\ n \in Nat /\ m \in Nat /\ n <= m
    BY <1>1
  <2>2. \A call \in CallSet(n) : call \in CallSet(m)
    <3>1. 0..n \subseteq 0..m
      BY <2>1
    <3> QED BY <3>1 DEF CallSet
  <2>3. \A call : Based(call, n) => Based(call, m)
    BY <2>1 DEF Based
  <2>4. \A d \in Calls : calls[d] \in CallSet(n) /\ Based(calls[d], n)
    BY <2>1 DEF TypeInv, CallsTyped
  <2>5. CASE calls' = calls
    BY <2>1, <2>2, <2>3, <2>5 DEF TypeInv, CallsTyped
  <2>6. ASSUME NEW c \in Calls, NEW call \in CallSet(n), Becomes(c, call), Based(call, n)
        PROVE  CallsTyped'
    <3>1. ASSUME NEW d \in Calls PROVE calls'[d] \in CallSet(m) /\ Based(calls'[d], m)
      <4>1. PICK x : x = calls[d] /\ x \in CallSet(n) /\ Based(x, n)
        BY <2>4
      <4>2. calls'[d] \in {call, x, [x EXCEPT !.raced = TRUE]}
        BY <2>6, <4>1 DEF Becomes
      <4>3. [x EXCEPT !.raced = TRUE] \in CallSet(n) /\ Based([x EXCEPT !.raced = TRUE], n)
        BY <4>1 DEF CallSet, Based
      <4> QED BY <2>2, <2>3, <2>6, <4>1, <4>2, <4>3
    <3>2. calls' = [d \in Calls |-> calls'[d]]
      BY <2>6 DEF Becomes
    <3> QED BY <2>1, <3>1, <3>2 DEF CallsTyped
  <2> QED BY <2>1, <2>5, <2>6 DEF CallsT
<1> QED BY <1>1, <1>2, <1>3 DEF TypeInv

\* The call that moves.
LEMMA EndTyped ==
    ASSUME TypeInv, NEW c \in Calls, Ends(c)
    PROVE  CallsT
<1>1. PICK n, x : n = Len(snaps) /\ x = calls[c] /\ x \in CallSet(n)
  BY DEF TypeInv, CallsTyped
<1>2. PICK y : y = [x EXCEPT !.step = "done"]
  OBVIOUS
<1>3. y \in CallSet(n) /\ Based(y, n) /\ Becomes(c, y)
  BY <1>1, <1>2 DEF CallSet, Based, Ends
<1> QED BY <1>1, <1>3 DEF CallsT

LEMMA NewTyped ==
    ASSUME TypeInv
    PROVE  NewCall \in CallSet(Len(snaps))
<1>1. Len(snaps) \in Nat
  BY Places DEF TypeInv, MirrorInv
<1> QED BY <1>1, LabAssumption DEF NewCall, CallSet, Names

LEMMA OpenTyped ==
    ASSUME TypeInv, NEW c \in Calls, NEW op \in Ops, NEW r \in Names, NEW f \in Files \cup {<<>>},
           NEW t \in SUBSET Calls, NEW b \in 0..Len(snaps), Opened(c, op, r, f, t, b),
           op \in {"merge", "vcs-rebase"} => b # 0
    PROVE  CallsT
<1>1. PICK n : n = Len(snaps) /\ NewCall \in CallSet(n) /\ n \in Nat
  BY NewTyped, Places DEF TypeInv, MirrorInv
<1>2. PICK y : y = [NewCall EXCEPT !.op = op, !.step = "land", !.ref = r, !.file = f, !.content = t, !.base = b]
  OBVIOUS
<1>3. y \in CallSet(n) /\ y.base = b /\ y.op = op
  BY <1>1, <1>2 DEF CallSet
<1>4. Based(y, n) /\ Becomes(c, y)
  BY <1>1, <1>2, <1>3 DEF Based, Opened
<1> QED BY <1>1, <1>3, <1>4 DEF CallsT

\* Trees that are read and merged.
LEMMA TreeTyped ==
    ASSUME TypeInv, NEW h \in 0..Len(snaps)
    PROVE  TreeOf(h) \in Trees
<1>1. CASE h = 0
  BY <1>1 DEF TreeOf, Trees, Empty
<1>2. CASE h # 0
  <2>1. h \in 1..Len(snaps)
    BY <1>2, Places DEF TypeInv, MirrorInv
  <2> QED BY <1>2, <2>1 DEF TreeOf, TypeInv, SnapsTyped
<1> QED BY <1>1, <1>2

LEMMA FirstIn ==
    ASSUME NEW n \in Nat, NEW ps \in Seq(1..n)
    PROVE  First(ps) \in 0..n
<1>1. CASE ps = <<>>
  BY <1>1 DEF First
<1>2. CASE ps # <<>>
  <2>1. ps[1] \in 1..n
    BY <1>2
  <2> QED BY <1>2, <2>1 DEF First
<1> QED BY <1>1, <1>2

LEMMA ShortLists == \A S : <<>> \in Seq(S) /\ \A x \in S : <<x>> \in Seq(S)
<1>1. ASSUME NEW S PROVE <<>> \in Seq(S)
  OBVIOUS
<1>2. ASSUME NEW S, NEW x \in S PROVE <<x>> \in Seq(S)
  OBVIOUS
<1> QED BY <1>1, <1>2

LEMMA ListsGrow ==
    ASSUME NEW m \in Nat, NEW n \in Nat, m <= n, NEW ps \in Seq(1..m)
    PROVE  ps \in Seq(1..n)
<1>1. 1..m \subseteq 1..n
  OBVIOUS
<1> QED BY <1>1

LEMMA ParentTyped ==
    ASSUME TypeInv, NEW h \in 1..Len(snaps)
    PROVE  FirstParent(h) \in 0..Len(snaps)
<1>1. snaps[h].parents \in Seq(1..(h - 1)) /\ Len(snaps) \in Nat
  BY Places DEF TypeInv, SnapsTyped, MirrorInv
<1>2. PICK ps : ps = snaps[h].parents /\ ps \in Seq(1..(h - 1))
  BY <1>1
<1>3. First(ps) \in 0..(h - 1)
  BY <1>1, <1>2, FirstIn
<1> QED BY <1>1, <1>2, <1>3 DEF FirstParent

LEMMA MergeTyped ==
    ASSUME NEW a \in Trees, NEW b \in Trees, NEW t \in Trees
    PROVE  Merge3(a, b, t) \in Trees
BY DEF Merge3, Trees

\* A step of a call that is not the mirror's.
LEMMA CallTypes ==
    ASSUME TypeInv, MirrorInv', SnapsT, RefsT, CallsT, UNCHANGED <<mirror, remote, push>>,
           mr' = mr \/ MRTyped', fails' = fails \/ fails' \in 0..MaxFails,
           given' \subseteq given \cup Targets', kept' = kept \/ kept' \in [Names -> SUBSET Calls]
    PROVE  TypeInv'
<1>1. /\ Len(snaps) \in Nat /\ Len(snaps') \in Nat /\ Len(snaps) <= Len(snaps')
      /\ Marks \subseteq Marks' /\ Targets \subseteq Targets'
  BY TypesGrow
<1>2. 0..Len(snaps) \subseteq 0..Len(snaps')
  BY <1>1
<1>3. MRTyped'
  BY <1>2 DEF TypeInv, MRTyped
<1>4. PushTyped'
  BY <1>1, <1>2 DEF TypeInv, PushTyped
<1>5. RestTyped'
  BY <1>1 DEF TypeInv, RestTyped
<1> QED BY <1>3, <1>4, <1>5, TypesKeep

\* A step that only reads.
LEMMA ReadTypes ==
    ASSUME TypeInv, MirrorInv', CallsT, UnchangedOthers, UNCHANGED <<refs, snaps, mr, fails, kept>>
    PROVE  TypeInv'
BY CallTypes DEF SnapsT, RefsT, UnchangedOthers

LEMMA KeptTyped ==
    ASSUME TypeInv, NEW r, NEW ks, KeptAt(r, ks), ks \in SUBSET Calls
    PROVE  kept' \in [Names -> SUBSET Calls]
<1>1. kept \in [Names -> SUBSET Calls]
  BY DEF TypeInv, RestTyped
<1> QED BY <1>1 DEF KeptAt

LEMMA KeepingTyped ==
    ASSUME TypeInv, NEW r \in Names, NEW f, NEW t, NEW c \in Calls
    PROVE  Keeping(r, f, t, c) \in SUBSET Calls
<1>1. kept[r] \in SUBSET Calls
  BY DEF TypeInv, RestTyped
<1> QED BY <1>1 DEF Keeping

\* A write that opens with what it has read.
LEMMA RacedTyped ==
    ASSUME TypeInv, NEW c \in Calls, NEW op \in Ops \cup {"recommit"}, op \notin {"merge", "vcs-rebase"},
           NEW r \in Names, NEW f \in Files, NEW t \in SUBSET Calls, NEW b \in 0..Len(snaps),
           NEW i \in 0..Len(snaps), NEW z \in BOOLEAN,
           \/ Becomes(c, [NewCall EXCEPT !.op = op, !.step = "land", !.ref = r, !.file = f,
                            !.content = t, !.base = b, !.raced = z])
           \/ Becomes(c, [NewCall EXCEPT !.op = op, !.step = "land", !.ref = r, !.file = f,
                            !.content = t, !.base = b, !.source = i, !.raced = z])
    PROVE  CallsT
<1>1. PICK n : n = Len(snaps) /\ NewCall \in CallSet(n) /\ n \in Nat
  BY NewTyped, Places DEF TypeInv, MirrorInv
<1>2. PICK y : /\ Becomes(c, y)
               /\ \/ y = [NewCall EXCEPT !.op = op, !.step = "land", !.ref = r, !.file = f,
                                          !.content = t, !.base = b, !.raced = z]
                  \/ y = [NewCall EXCEPT !.op = op, !.step = "land", !.ref = r, !.file = f,
                                          !.content = t, !.base = b, !.source = i, !.raced = z]
  OBVIOUS
<1>3. y \in CallSet(n) /\ y.op = op
  BY <1>1, <1>2 DEF CallSet
<1> QED BY <1>1, <1>2, <1>3 DEF CallsT, Based

LEMMA ReadsTyped ==
    ASSUME TypeInv, MirrorInv', NEW c \in Calls,
           \/ \E r \in Branches, f \in Files :
                WriteFiles(c, r, f) \/ EditTool(c, r, f) \/ AmendFiles(c, r, f)
                  \/ PostCommit(c, r, f) \/ PostRecommit(c, r, f)
           \/ \E r \in Names, f \in Files : WriteBlob(c, r, f)
           \/ EditOpens(c)
    PROVE  TypeInv'
<1>0. Branches \subseteq Names /\ Len(snaps) \in Nat /\ WritesInv
  BY Places DEF Names, TypeInv, MirrorInv
<1>1. PICK n : n = Len(snaps) /\ n \in Nat /\ NewCall \in CallSet(n)
  BY <1>0, NewTyped
<1>2. \A r \in Names : Resolve(r) \in 0..n
  BY <1>0, <1>1, ResolveIn
<1>3. ASSUME NEW r \in Branches, NEW f \in Files, WriteFiles(c, r, f) PROVE TypeInv'
  <2>1. PICK b \in 0..Len(snaps), t \in {Written(c), Deleted}, z \in BOOLEAN :
          Becomes(c, [NewCall EXCEPT !.op = "write", !.step = "land", !.ref = r, !.file = f,
                        !.content = t, !.base = b, !.raced = z])
    BY <1>3 DEF WriteFiles
  <2>2. t \in SUBSET Calls /\ "write" \in Ops /\ r \in Names
    BY <1>0, <1>3 DEF Written, Deleted, WriteFiles, Does
  <2>3. CallsT
    BY <2>1, <2>2, RacedTyped
  <2> QED BY <1>3, <2>3, ReadTypes DEF WriteFiles
<1>4. ASSUME NEW r \in Branches, NEW f \in Files, EditTool(c, r, f) PROVE TypeInv'
  <2>1. PICK h, t : h = Resolve(r) /\ t = Edited(TreeOf(h)[f], c)
    OBVIOUS
  <2>2. t \in SUBSET Calls /\ "edit" \in Ops /\ r \in Names
    <3>1. TreeOf(h) \in Trees
      BY <1>0, <1>1, <1>2, <2>1, TreeTyped
    <3>2. TreeOf(h)[f] \in SUBSET Calls
      BY <3>1 DEF Trees
    <3> QED BY <1>0, <1>4, <2>1, <3>2 DEF Edited, EditTool, Does
  <2>3. PICK y : y = [NewCall EXCEPT !.op = "edit", !.step = "open", !.ref = r, !.file = f, !.content = t]
    OBVIOUS
  <2>4. y \in CallSet(n) /\ Based(y, n)
    BY <1>1, <2>2, <2>3 DEF CallSet, Based
  <2>5. Becomes(c, y)
    BY <1>4, <2>1, <2>3 DEF EditTool
  <2>6. CallsT
    BY <1>1, <2>4, <2>5 DEF CallsT
  <2> QED BY <1>4, <2>6, ReadTypes DEF EditTool
<1>5. ASSUME NEW r \in Branches, NEW f \in Files, AmendFiles(c, r, f) PROVE TypeInv'
  <2>1. PICK b \in RevIDs : Opened(c, "amend", r, f, {c}, b)
    BY <1>5 DEF AmendFiles
  <2>2. b \in 0..Len(snaps)
    BY <1>0, <2>1 DEF WritesInv
  <2>3. "amend" \in Ops /\ r \in Names
    BY <1>0, <1>5 DEF AmendFiles, Does
  <2>4. CallsT
    BY <2>1, <2>2, <2>3, OpenTyped
  <2> QED BY <1>5, <2>4, ReadTypes DEF AmendFiles
<1>6. ASSUME NEW r \in Branches, NEW f \in Files, PostCommit(c, r, f) PROVE TypeInv'
  <2>1. PICK b \in {Resolve(r)} \cup 1..Len(snaps), z \in BOOLEAN :
          Becomes(c, [NewCall EXCEPT !.op = "commit", !.step = "land", !.ref = r, !.file = f,
                          !.content = {c}, !.base = b, !.raced = z])
    BY <1>6 DEF PostCommit
  <2>2. b \in 0..Len(snaps) /\ "commit" \in Ops /\ r \in Names /\ {c} \in SUBSET Calls
    <3>1. r \in Names /\ "commit" \in Ops
      BY <1>0, <1>6 DEF PostCommit, Does
    <3>2. Resolve(r) \in 0..Len(snaps) /\ 1..Len(snaps) \subseteq 0..Len(snaps)
      BY <1>1, <1>2, <3>1
    <3> QED BY <3>1, <3>2
  <2>3. PICK t : t = {c}
    OBVIOUS
  <2>4. CallsT
    BY <2>1, <2>2, <2>3, RacedTyped
  <2> QED BY <1>6, <2>4, ReadTypes DEF PostCommit
<1>9. ASSUME NEW r \in Branches, NEW f \in Files, PostRecommit(c, r, f) PROVE TypeInv'
  <2>1. PICK b \in {Resolve(r)} \cup 1..Len(snaps), i \in RevIDs, z \in BOOLEAN :
          Becomes(c, [NewCall EXCEPT !.op = "recommit", !.step = "land", !.ref = r, !.file = f,
                          !.content = {c}, !.base = b, !.source = i, !.raced = z])
    BY <1>9 DEF PostRecommit
  <2>2. b \in 0..Len(snaps) /\ i \in 0..Len(snaps) /\ r \in Names /\ {c} \in SUBSET Calls
    <3>1. r \in Names
      BY <1>0
    <3>2. Resolve(r) \in 0..Len(snaps) /\ 1..Len(snaps) \subseteq 0..Len(snaps)
      BY <1>1, <1>2, <3>1
    <3>3. RevIDs \subseteq 1..Len(snaps)
      BY <1>0 DEF WritesInv
    <3> QED BY <3>1, <3>2, <3>3
  <2>3. PICK t : t = {c}
    OBVIOUS
  <2>4. CallsT
    BY <2>1, <2>2, <2>3, RacedTyped
  <2> QED BY <1>9, <2>4, ReadTypes DEF PostRecommit
<1>7. ASSUME NEW r \in Names, NEW f \in Files, WriteBlob(c, r, f) PROVE TypeInv'
  <2>1. PICK b : b = Resolve(r) /\ Opened(c, "blob", r, f, {c}, b) /\ b \in 0..Len(snaps)
    BY <1>1, <1>2, <1>7 DEF WriteBlob
  <2>2. "blob" \in Ops
    BY <1>7 DEF WriteBlob, Does
  <2>3. CallsT
    BY <2>1, <2>2, OpenTyped
  <2> QED BY <1>7, <2>3, ReadTypes DEF WriteBlob
<1>8. CASE EditOpens(c)
  <2>1. PICK b \in 1..Len(snaps) : Becomes(c, [calls[c] EXCEPT !.step = "land", !.base = b])
    BY <1>8 DEF EditOpens
  <2>2. PICK x : x = calls[c] /\ x \in CallSet(n) /\ x.op = "edit"
    BY <1>1, <1>8 DEF TypeInv, CallsTyped, EditOpens
  <2>3. PICK y : y = [x EXCEPT !.step = "land", !.base = b]
    OBVIOUS
  <2>4. y \in CallSet(n) /\ Based(y, n)
    <3>1. b \in 0..n
      BY <1>1
    <3>2. y \in CallSet(n) /\ y.op = "edit"
      BY <2>2, <2>3, <3>1 DEF CallSet
    <3> QED BY <3>2 DEF Based
  <2>5. CallsT
    BY <1>1, <2>1, <2>2, <2>3, <2>4 DEF CallsT
  <2> QED BY <1>8, <2>5, ReadTypes DEF EditOpens
<1> QED BY <1>3, <1>4, <1>5, <1>6, <1>7, <1>8, <1>9

LEMMA ListsTyped ==
    ASSUME NEW parents \in ParentLists
    PROVE  parents \in Seq(1..Len(snaps))
<1>1. PICK k \in 0..MaxParents : parents \in [1..k -> 1..Len(snaps)]
  BY DEF ParentLists
<1>2. k \in Nat
  BY LabAssumption
<1> QED BY <1>1, <1>2

LEMMA WritesTyped ==
    ASSUME TypeInv, MirrorInv', NEW c \in Calls, Writes(c)
    PROVE  TypeInv'
<1>0. Len(snaps) \in Nat /\ WritesInv
  BY Places DEF TypeInv, MirrorInv
<1>1. PICK x : x = calls[c] /\ x \in CallSet(Len(snaps))
  BY DEF TypeInv, CallsTyped
<1>2. PICK r, f, b, t : r = x.ref /\ f = x.file /\ b = x.base /\ t = x.content
  OBVIOUS
<1>3. r \in Names /\ b \in 0..Len(snaps) /\ t \in SUBSET Calls
  BY <1>1, <1>2 DEF CallSet
<1>4. Keeping(r, f, t, c) \in SUBSET Calls
  BY <1>3, KeepingTyped
<1>5. CASE WriteLands(c) \/ WriteDetached(c)
  <2>1. PICK tree : tree = [TreeOf(b) EXCEPT ![f] = t]
    OBVIOUS
  <2>2. tree \in Trees
    BY <1>3, <2>1, TreeTyped DEF Trees
  <2>3. PICK n, parents : n = Next1 /\ parents = Root(b) /\ n \in 1..Next1
    BY <1>0 DEF Next1
  <2>4. parents \in Seq(1..Len(snaps))
    <3>1. b # 0 => b \in 1..Len(snaps)
      BY <1>0, <1>3
    <3> QED BY <2>3, <3>1, ShortLists DEF Root
  <2>5. Committed(n, parents, tree)
    BY <1>1, <1>2, <1>5, <2>1, <2>3 DEF WriteLands, WriteDetached
  <2>6. SnapsT
    BY <2>2, <2>3, <2>4, <2>5 DEF SnapsT
  <2>7. CallsT
    BY <1>5, EndTyped DEF WriteLands, WriteDetached
  <2>8. n \in 1..Len(snaps') /\ n \in RevIDs'
    BY <1>0, <2>3, <2>5, NewTree
  <2>9. CASE WriteLands(c)
    <3>1. PICK at : at = TargetOf(x.op) /\ at \in {<<"rev", n>>, <<"hash", n>>}
      BY <2>3 DEF TargetOf
    <3>2. at \in Targets'
      BY <2>8, <3>1 DEF Targets
    <3>3. SetRef(r, "branch", at)
      BY <1>1, <1>2, <2>9, <3>1 DEF WriteLands, MovesRef
    <3>4. RefsT
      BY <3>2, <3>3 DEF RefsT
    <3>5. PICK ks \in SUBSET Calls : KeptAt(r, ks)
      BY <1>1, <1>2, <1>4, <2>9 DEF WriteLands
    <3>6. kept' \in [Names -> SUBSET Calls]
      BY <3>5, KeptTyped
    <3> QED BY <2>6, <2>7, <2>9, <3>4, <3>6, CallTypes DEF WriteLands, UnchangedOthers
  <2>10. CASE WriteDetached(c)
    <3>1. fails' \in 0..MaxFails
      BY <2>10, LabAssumption DEF WriteDetached, TypeInv, RestTyped
    <3> QED BY <2>6, <2>7, <2>10, <3>1, CallTypes DEF WriteDetached, UnchangedOthers, RefsT
  <2> QED BY <1>5, <2>9, <2>10
<1>6. CASE AmendLands(c)
  <2>1. PICK tip : tip = RevHash(b)
    OBVIOUS
  <2>2. b \in RevIDs
    BY <1>0, <1>1, <1>2, <1>6 DEF AmendLands, WritesInv, BranchInv, Ready
  <2>3. tip \in 1..Len(snaps) /\ b \in 1..Len(snaps)
    BY <1>0, <2>1, <2>2, RevHashIs DEF WritesInv, BranchInv
  <2>4. PICK tree, parents : tree = [snaps[tip].tree EXCEPT ![f] = t] /\ parents = snaps[tip].parents
    OBVIOUS
  <2>5. snaps[tip].tree \in Trees /\ parents \in Seq(1..(tip - 1)) /\ tip - 1 \in Nat /\ tip - 1 <= Len(snaps)
    BY <1>0, <2>3, <2>4 DEF TypeInv, SnapsTyped
  <2>6. tree \in Trees /\ parents \in Seq(1..Len(snaps)) /\ b \in 1..Next1
    <3>1. tree \in Trees
      BY <1>3, <2>4, <2>5 DEF Trees
    <3>2. parents \in Seq(1..Len(snaps)) /\ b \in 1..Next1
      BY <1>0, <2>3, <2>5, ListsGrow DEF Next1
    <3> QED BY <3>1, <3>2
  <2>7. Committed(b, parents, tree) /\ SetRef(r, "branch", <<"rev", b>>)
    BY <1>1, <1>2, <1>6, <2>1, <2>4 DEF AmendLands
  <2>8. SnapsT
    BY <2>6, <2>7 DEF SnapsT
  <2>9. RefsT
    <3>1. b \in RevIDs'
      BY <1>0, <2>7, NewTree
    <3>2. <<"rev", b>> \in Targets'
      BY <3>1 DEF Targets
    <3> QED BY <2>7, <3>2 DEF RefsT
  <2>10. CallsT
    BY <1>6, EndTyped DEF AmendLands
  <2>11. PICK ks \in SUBSET Calls : KeptAt(r, ks)
    BY <1>1, <1>2, <1>4, <1>6 DEF AmendLands
  <2>12. kept' \in [Names -> SUBSET Calls]
    BY <2>11, KeptTyped
  <2> QED BY <1>6, <2>8, <2>9, <2>10, <2>12, CallTypes DEF AmendLands
<1>7. CASE RecommitLands(c)
  <2>1. PICK i, tip : i = x.source /\ i \in RevIDs /\ tip = RevHash(i)
    BY <1>0, <1>1, <1>7 DEF RecommitLands, WritesInv, BranchInv, Ready
  <2>2. tip \in 1..Len(snaps) /\ i \in 1..Next1
    BY <1>0, <2>1, RevHashIs DEF WritesInv, BranchInv, Next1
  <2>3. PICK base : base = (IF b = 0 THEN tip ELSE b) /\ base \in 1..Len(snaps) /\ base \in 0..Len(snaps)
    BY <1>0, <1>3, <2>2
  <2>4. PICK ps : ps = snaps[tip].parents /\ ps \in Seq(1..(tip - 1))
    BY <2>2 DEF TypeInv, SnapsTyped
  <2>5. PICK parents : parents = IF b = 0 THEN ps ELSE <<base>>
    OBVIOUS
  <2>6. parents \in Seq(1..Len(snaps))
    <3>1. tip - 1 \in Nat /\ tip - 1 <= Len(snaps)
      BY <1>0, <2>2
    <3>2. ps \in Seq(1..Len(snaps))
      BY <1>0, <2>4, <3>1, ListsGrow
    <3>3. <<base>> \in Seq(1..Len(snaps))
      BY <2>3, ShortLists
    <3> QED BY <2>5, <3>2, <3>3
  <2>7. PICK tree : tree = [TreeOf(base) EXCEPT ![f] = t] /\ tree \in Trees
    <3>1. PICK u : u = TreeOf(base) /\ u \in Trees
      BY <2>3, TreeTyped
    <3>2. PICK tree : tree = [u EXCEPT ![f] = t]
      OBVIOUS
    <3>3. tree \in Trees
      BY <1>3, <3>1, <3>2 DEF Trees
    <3> QED BY <3>1, <3>2, <3>3
  <2>8. Committed(i, parents, tree)
    BY <1>1, <1>2, <1>7, <2>1, <2>3, <2>4, <2>5, <2>7 DEF RecommitLands
  <2>9. SnapsT
    BY <2>2, <2>6, <2>7, <2>8 DEF SnapsT
  <2>10. i \in RevIDs' /\ <<"rev", i>> \in Targets'
    <3>1. i \in RevIDs'
      BY <1>0, <2>8, NewTree
    <3> QED BY <3>1 DEF Targets
  <2>11. PICK n : n = Next1 /\ <<"hash", n>> \in Targets'
    <3>1. Next1 \in 1..Len(snaps')
      BY <1>0, <2>8, NewTree
    <3>2. Len(snaps') \in Nat
      BY <2>9, TypesGrow
    <3>3. Next1 \in 0..Len(snaps')
      BY <3>1, <3>2
    <3> QED BY <3>3 DEF Targets
  <2>12. SetRef(r, "branch", <<"hash", n>>)
    BY <1>1, <1>2, <1>7, <2>11 DEF RecommitLands, MovesRef
  <2>13. RefsT
    BY <2>11, <2>12 DEF RefsT
  <2>14. CallsT
    BY <1>7, EndTyped DEF RecommitLands
  <2>15. kept' \in [Names -> SUBSET Calls]
    <3>1. PICK ks \in SUBSET Calls : KeptAt(r, ks)
      BY <1>1, <1>2, <1>4, <1>7 DEF RecommitLands
    <3> QED BY <3>1, KeptTyped
  <2>16. given' = given \cup {<<"rev", i>>} /\ UNCHANGED <<mr, mirror, remote, push, fails>>
    BY <1>1, <1>7, <2>1 DEF RecommitLands
  <2> QED BY <2>9, <2>10, <2>13, <2>14, <2>15, <2>16, CallTypes
<1>8. CASE PostTree(c)
  <2>1. PICK i \in RevIDs \cup {Next1}, parents \in ParentLists, h \in 1..Len(snaps) :
               Committed(i, parents, TreeOf(h))
    BY <1>8 DEF PostTree
  <2>2. i \in 1..Next1 /\ h \in 0..Len(snaps)
    BY <1>0 DEF WritesInv, Next1
  <2>3. PICK tree \in Trees : tree = TreeOf(h)
    BY <2>2, TreeTyped
  <2>4. SnapsT
    BY <2>1, <2>2, <2>3, ListsTyped DEF SnapsT
  <2>5. CallsT /\ kept' \in [Names -> SUBSET Calls]
    BY <1>8, EndTyped DEF PostTree, TypeInv, RestTyped
  <2> QED BY <1>8, <2>4, <2>5, CallTypes DEF PostTree, RefsT
<1> QED BY <1>5, <1>6, <1>7, <1>8, ReadsTyped DEF Writes

\* A ref that is set, and the texts it had to contain are forgotten.
LEMMA SetTyped ==
    ASSUME TypeInv, MirrorInv', NEW c \in Calls, Ends(c), UNCHANGED <<snaps, mr, fails, mirror, remote, push>>,
           given' \subseteq given \cup Targets',
           NEW r, NEW kind \in {"none", "branch", "tag"}, NEW at \in Targets, SetRef(r, kind, at), KeptAt(r, {})
    PROVE  TypeInv'
<1>1. SnapsT /\ CallsT
  BY EndTyped DEF SnapsT
<1>2. at \in Targets'
  BY <1>1, TypesGrow
<1>3. RefsT
  BY <1>2 DEF RefsT
<1>4. kept' \in [Names -> SUBSET Calls]
  BY KeptTyped
<1> QED BY <1>1, <1>3, <1>4, CallTypes

LEMMA NewestIs ==
    ASSUME TypeInv, Len(snaps) > 0
    PROVE  NewestRev \in RevIDs
<1>1. Len(snaps) \in Nat
  BY Places DEF TypeInv, MirrorInv
<1>2. RevIDs \in SUBSET (1..Len(snaps)) /\ RevIDs # {}
  <2>1. RevIDs \in SUBSET (1..Len(snaps))
    BY DEF TypeInv, MirrorInv, WritesInv
  <2>2. snaps[1].rev \in RevIDs
    BY <1>1 DEF RevIDs
  <2> QED BY <2>1, <2>2
<1>3. \E i \in RevIDs : \A k \in RevIDs : k <= i
  BY <1>1, <1>2, LastPlace
<1> QED BY <1>3 DEF NewestRev

LEMMA RebasedTyped ==
    ASSUME TypeInv, MirrorInv', NEW c \in Calls, NEW i \in RevIDs, NEW ps \in Seq(1..Len(snaps)), Rebased(c, i, ps)
    PROVE  TypeInv'
<1>0. Len(snaps) \in Nat /\ WritesInv
  BY Places DEF TypeInv, MirrorInv
<1>1. PICK h, g : h = RevHash(i) /\ g = FirstParent(h) /\ h \in 1..Len(snaps) /\ g \in 0..Len(snaps)
  BY <1>0, RevHashIs, ParentTyped DEF WritesInv, BranchInv
<1>2. PICK p : p = First(ps) /\ TreeOf(g) \in Trees /\ TreeOf(p) \in Trees /\ TreeOf(h) \in Trees
  <2>1. PICK p : p = First(ps) /\ p \in 0..Len(snaps) /\ h \in 0..Len(snaps)
    BY <1>0, <1>1, FirstIn
  <2> QED BY <1>1, <2>1, TreeTyped
<1>3. PICK tree : tree = Merge3(TreeOf(g), TreeOf(p), TreeOf(h)) /\ tree \in Trees
  BY <1>2, MergeTyped
<1>4. Committed(i, ps, tree) /\ UNCHANGED refs /\ Ends(c)
  BY <1>1, <1>2, <1>3 DEF Rebased
<1>5. i \in 1..Next1
  BY <1>0 DEF WritesInv, Next1
<1>6. SnapsT
  BY <1>3, <1>4, <1>5 DEF SnapsT
<1>7. kept' \in [Names -> SUBSET Calls]
  BY DEF Rebased, TypeInv, RestTyped
<1>8. CallsT /\ RefsT
  BY <1>4, EndTyped DEF RefsT
<1> QED BY <1>6, <1>7, <1>8, CallTypes DEF Rebased

LEMMA RefsMoveTyped ==
    ASSUME TypeInv, MirrorInv', NEW c \in Calls, MovesRefs(c)
    PROVE  TypeInv'
<1>0. Len(snaps) \in Nat /\ WritesInv /\ Branches \subseteq Names /\ Main \in Names
  BY Places, LabAssumption DEF TypeInv, MirrorInv, Names
<1>1. ASSUME NEW r \in Branches, NEW from \in Names, CreateBranch(c, r, from) PROVE TypeInv'
  <2>1. PICK b : b = Resolve(from) /\ b \in 0..Len(snaps) /\ Opened(c, "branch", r, <<>>, {}, b)
    BY <1>0, <1>1, ResolveIn DEF CreateBranch
  <2>2. "branch" \in Ops /\ r \in Names
    BY <1>0, <1>1 DEF CreateBranch, Does
  <2>3. CallsT
    BY <2>1, <2>2, OpenTyped
  <2> QED BY <1>1, <2>3, ReadTypes DEF CreateBranch
<1>2. CASE BranchLands(c)
  <2>1. PICK r, h : r = calls[c].ref /\ h = calls[c].base
    OBVIOUS
  <2>2. h \in 0..Len(snaps)
    BY <2>1 DEF TypeInv, CallsTyped, CallSet
  <2>3. <<"hash", h>> \in Targets
    BY <2>2 DEF Targets
  <2>4. /\ SetRef(r, "branch", <<"hash", h>>) /\ KeptAt(r, {}) /\ Ends(c)
        /\ UNCHANGED <<snaps, mr, fails>> /\ UnchangedOthers
    BY <1>2, <2>1 DEF BranchLands, BranchTarget
  <2> QED BY <2>3, <2>4, SetTyped DEF UnchangedOthers
<1>3. ASSUME NEW r \in Names, DeleteRef(c, r) PROVE TypeInv'
  <2>1. <<"hash", 0>> \in Targets
    BY <1>0 DEF Targets
  <2>2. /\ SetRef(r, "none", <<"hash", 0>>) /\ KeptAt(r, {}) /\ Ends(c)
        /\ UNCHANGED <<snaps, mr, fails>> /\ UnchangedOthers
    BY <1>3 DEF DeleteRef, SetRef, NoRef
  <2> QED BY <2>1, <2>2, SetTyped DEF UnchangedOthers
<1>4. ASSUME NEW r \in Names, SetTag(c, r) PROVE TypeInv'
  <2>1. KeptAt(r, {}) /\ Ends(c) /\ UNCHANGED <<snaps, mr, fails>> /\ UnchangedOthers
    BY <1>4 DEF SetTag
  <2>2. PICK at \in Targets : SetRef(r, "tag", at)
    <3>1. CASE Len(snaps) > 0 /\ SetRef(r, "tag", <<"rev", NewestRev>>)
      BY <3>1, NewestIs DEF Targets
    <3> QED BY <1>4, <3>1 DEF SetTag
  <2> QED BY <2>1, <2>2, SetTyped DEF UnchangedOthers
<1>5. ASSUME NEW r \in Names, NEW kind \in {"branch", "tag"}, NEW at \in Targets, PostRef(c, r, kind, at)
      PROVE  TypeInv'
  <2>1. /\ SetRef(r, kind, at) /\ KeptAt(r, {}) /\ Ends(c)
        /\ UNCHANGED <<snaps, mr, fails, mirror, remote, push>> /\ given' \subseteq given \cup {at}
    BY <1>5 DEF PostRef
  <2>2. at \in Targets'
    <3>1. SnapsT
      BY <2>1 DEF SnapsT
    <3> QED BY <3>1, TypesGrow
  <2> QED BY <2>1, <2>2, SetTyped
<1>6. CASE Rebase(c)
  BY <1>6, RebasedTyped, ListsTyped DEF Rebase
<1>7. CASE RebaseTool(c)
  <2>1. PICK h : h = RevHash(NewestRev) /\ h \in 1..Len(snaps)
    BY <1>0, <1>7, NewestIs, RevHashIs DEF RebaseTool, WritesInv, BranchInv
  <2>2. h \in 0..Len(snaps) /\ h # 0
    BY <1>0, <2>1
  <2>3. "vcs-rebase" \in Ops /\ Opened(c, "vcs-rebase", Main, <<>>, {}, h)
    BY <1>7, <2>1 DEF RebaseTool, Does
  <2>4. CallsT
    BY <1>0, <2>2, <2>3, OpenTyped
  <2> QED BY <1>7, <2>4, ReadTypes DEF RebaseTool
<1>8. CASE RebaseToolLands(c)
  <2>1. PICK p : p = calls[c].base /\ p \in 1..Len(snaps)
    BY <1>8 DEF RebaseToolLands, TypeInv, CallsTyped, Based
  <2>2. PICK i \in RevIDs : Rebased(c, i, <<p>>)
    BY <1>8, <2>1 DEF RebaseToolLands
  <2>3. <<p>> \in Seq(1..Len(snaps))
    BY <2>1
  <2> QED BY <2>2, <2>3, RebasedTyped
<1> QED BY <1>1, <1>2, <1>3, <1>4, <1>5, <1>6, <1>7, <1>8 DEF MovesRefs

LEMMA RequestsTyped ==
    ASSUME TypeInv, MirrorInv', NEW c \in Calls, Requests(c)
    PROVE  TypeInv'
<1>0. Len(snaps) \in Nat /\ WritesInv /\ Branches \subseteq Names
  BY Places DEF TypeInv, MirrorInv, Names
<1>1. ASSUME NEW s \in Branches, NEW t \in Branches, CreateMergeRequest(c, s, t) PROVE TypeInv'
  <2>1. MRTyped'
    BY <1>0, <1>1 DEF CreateMergeRequest, MRTyped
  <2> QED BY <1>1, <2>1, EndTyped, CallTypes DEF CreateMergeRequest, SnapsT, RefsT, UnchangedOthers
<1>2. ASSUME NEW state \in {"open", "closed", "merged"}, UpdateMergeRequest(c, state) PROVE TypeInv'
  <2>1. MRTyped'
    BY <1>2 DEF UpdateMergeRequest, TypeInv, MRTyped
  <2> QED BY <1>2, <2>1, EndTyped, CallTypes DEF UpdateMergeRequest, SnapsT, RefsT, UnchangedOthers
<1>3. ASSUME NEW b \in Branches, NEW t \in Branches, NEW s \in Branches \cup {<<>>}, MergeRequestTool(c, b, s, t)
      PROVE  TypeInv'
  <2>1. PICK u \in Branches : CreateMergeRequest(c, u, t)
    BY <1>3 DEF MergeRequestTool
  <2> QED BY <1>1, <2>1
<1>4. CASE MergeMergeRequest(c)
  <2>1. PICK n : n = Len(snaps) /\ n \in Nat /\ NewCall \in CallSet(n)
    BY <1>0, NewTyped
  <2>2. PICK r, b, u : r = mr.target /\ b = Resolve(r) /\ u = Resolve(mr.source)
    OBVIOUS
  <2>3. r \in Names /\ mr.source \in Names
    BY <1>0, <2>2 DEF TypeInv, MRTyped
  <2>4. b \in 0..n /\ u \in 0..n /\ b \in 1..n
    <3>1. b \in 0..n /\ u \in 0..n
      BY <1>0, <2>1, <2>2, <2>3, ResolveIn
    <3>2. b # 0
      BY <1>4, <2>2 DEF MergeMergeRequest
    <3> QED BY <2>1, <3>1, <3>2
  <2>5. PICK y : y = [NewCall EXCEPT !.op = "merge", !.step = "land", !.ref = r, !.base = b, !.source = u]
    OBVIOUS
  <2>6. "merge" \in Ops /\ Becomes(c, y)
    BY <1>4, <2>2, <2>5 DEF MergeMergeRequest, Does
  <2>7. y \in CallSet(n) /\ y.base = b
    BY <2>1, <2>3, <2>4, <2>5, <2>6 DEF CallSet
  <2>8. CallsT
    BY <2>1, <2>4, <2>6, <2>7 DEF CallsT, Based
  <2> QED BY <1>4, <2>8, ReadTypes DEF MergeMergeRequest
<1>5. CASE MergeLands(c)
  <2>1. PICK h, u : h = calls[c].base /\ u = calls[c].source
    OBVIOUS
  <2>2. h \in 1..Len(snaps) /\ h \in 0..Len(snaps) /\ u \in 0..Len(snaps)
    BY <1>5, <2>1 DEF MergeLands, TypeInv, CallsTyped, CallSet, Based
  <2>3. PICK g : g = FirstParent(h) /\ g \in 0..Len(snaps)
    BY <2>2, ParentTyped
  <2>4. PICK a, t, b : a = TreeOf(g) /\ t = TreeOf(u) /\ b = TreeOf(h)
    OBVIOUS
  <2>5. a \in Trees /\ t \in Trees /\ b \in Trees
    BY <2>2, <2>3, <2>4, TreeTyped
  <2>6. PICK tree : tree = Merge3(a, t, b) /\ tree \in Trees
    BY <2>5, MergeTyped
  <2>7. MergeSides(c)[1] = t /\ MergeSides(c)[2] = b
    BY <2>1, <2>4 DEF MergeSides
  <2>8. PICK n : n = Next1 /\ n \in 1..Next1 /\ Committed(n, <<h>>, tree)
    BY <1>0, <1>5, <2>1, <2>3, <2>4, <2>6, <2>7 DEF MergeLands, Next1
  <2>9. SnapsT
    <3>1. <<h>> \in Seq(1..Len(snaps))
      BY <2>2, ShortLists
    <3> QED BY <2>6, <2>8, <3>1 DEF SnapsT
  <2>10. n \in 0..Len(snaps')
    <3>1. n \in 1..Len(snaps')
      BY <1>0, <2>8, NewTree
    <3>2. Len(snaps') \in Nat
      BY <2>9, TypesGrow
    <3> QED BY <3>1, <3>2
  <2>11. MRTyped'
    BY <1>5, <2>8, <2>10 DEF MergeLands, TypeInv, MRTyped
  <2> QED BY <1>5, <2>9, <2>11, EndTyped, CallTypes DEF MergeLands, RefsT, UnchangedOthers
<1> QED BY <1>1, <1>2, <1>3, <1>4, <1>5 DEF Requests, MergeTool

LEMMA MirrorsTyped ==
    ASSUME TypeInv, MirrorInv', Mirrors
    PROVE  TypeInv'
<1>0. Len(snaps) \in Nat /\ WritesInv /\ Main \in Names
  BY Places, LabAssumption DEF TypeInv, MirrorInv, Names
<1>1. ASSUME UNCHANGED <<refs, snaps, mr, given, kept>>, CallsT, PushTyped', fails' = fails \/ fails' \in 0..MaxFails
      PROVE  TypeInv'
  <2>1. MRTyped' /\ RestTyped'
    BY <1>1 DEF TypeInv, MRTyped, RestTyped, Targets, RevIDs
  <2> QED BY <1>1, <2>1, TypesKeep DEF SnapsT, RefsT
<1>2. PICK n, M : n = Len(snaps) /\ M = Marks /\ <<>> \in M
  <2>1. <<>> \in Marks
    BY DEF Marks
  <2> QED BY <2>1
<1>3. ASSUME snaps' = snaps PROVE n = Len(snaps') /\ M = Marks'
  BY <1>2, <1>3 DEF Marks, RevIDs
<1>4. /\ mirror \in [on : BOOLEAN, url : Urls \cup {<<>>}, last : M]
      /\ remote \in [Urls -> 0..n]
      /\ push \in [Ps -> [step : {"idle", "sending", "sent", "failed"},
                          url : Urls \cup {<<>>}, last : M, seen : 0..n]]
  BY <1>2 DEF TypeInv, PushTyped
<1>5. ASSUME NEW c \in Calls, DeleteMirror(c) \/ \E u \in Urls : SetMirror(c, u) PROVE TypeInv'
  <2>1. mirror' \in [on : BOOLEAN, url : Urls \cup {<<>>}, last : M]
    <3>1. ASSUME NEW u \in Urls \cup {<<>>}, NEW on \in BOOLEAN, mirror' = [on |-> on, url |-> u, last |-> <<>>]
          PROVE  mirror' \in [on : BOOLEAN, url : Urls \cup {<<>>}, last : M]
      BY <1>2, <3>1
    <3>2. CASE DeleteMirror(c)
      BY <3>1, <3>2 DEF DeleteMirror, NoMirror
    <3>3. ASSUME NEW u \in Urls, SetMirror(c, u)
          PROVE  mirror' \in [on : BOOLEAN, url : Urls \cup {<<>>}, last : M]
      BY <3>1, <3>3 DEF SetMirror
    <3> QED BY <1>5, <3>2, <3>3
  <2>2. PushTyped'
    BY <1>3, <1>4, <1>5, <2>1 DEF DeleteMirror, SetMirror, PushTyped
  <2> QED BY <1>1, <1>5, <2>2, EndTyped DEF DeleteMirror, SetMirror
<1>6. ASSUME NEW p \in Ps, StartsPush(p), UNCHANGED <<snaps, mirror, remote>> PROVE PushTyped'
  <2>1. PICK h, st \in {"sending", "failed"} :
          push' = [push EXCEPT ![p] = [step |-> st, url |-> mirror.url, last |-> mirror.last, seen |-> Resolve(Main)]]
    BY <1>6 DEF StartsPush
  <2>2. Resolve(Main) \in 0..n
    BY <1>0, <1>2, ResolveIn
  <2> QED BY <1>3, <1>4, <1>6, <2>1, <2>2 DEF PushTyped
<1>7. ASSUME NEW c \in Calls, SyncMirror(c) PROVE TypeInv'
  <2>1. PushTyped'
    BY <1>6, <1>7 DEF SyncMirror, Ps
  <2> QED BY <1>1, <1>7, <2>1, EndTyped DEF SyncMirror
<1>8. CASE LoopPushes
  <2>1. PushTyped'
    BY <1>6, <1>8 DEF LoopPushes, Ps
  <2> QED BY <1>1, <1>8, <2>1 DEF LoopPushes, CallsT
<1>9. ASSUME NEW p \in Ps, PushSent(p) PROVE TypeInv'
  <2>1. PushTyped'
    BY <1>3, <1>4, <1>9 DEF PushSent, PushTyped
  <2> QED BY <1>1, <1>9, <2>1 DEF PushSent, CallsT
<1>10. ASSUME NEW p \in Ps, PushBreaks(p) PROVE TypeInv'
  <2>1. PushTyped'
    BY <1>3, <1>4, <1>10 DEF PushBreaks, PushTyped
  <2>2. fails' \in 0..MaxFails
    BY <1>10, LabAssumption DEF PushBreaks, TypeInv, RestTyped
  <2> QED BY <1>1, <1>10, <2>1, <2>2 DEF PushBreaks, CallsT
<1>11. ASSUME NEW p \in Ps, PushRecorded(p) \/ PushFailed(p) PROVE TypeInv'
  <2>1. PICK last \in M : Records(last)
    <3>1. CASE PushRecorded(p)
      <4>1. push[p].seen \in 1..Len(snaps)
        BY <1>0, <3>1 DEF PushRecorded, TypeInv, MirrorInv, PushOK
      <4>2. Synced(p) \in M
        BY <1>2, <4>1 DEF Synced, Marks, RevIDs
      <4> QED BY <3>1, <4>2 DEF PushRecorded
    <3>2. CASE PushFailed(p)
      BY <1>4, <3>2 DEF PushFailed
    <3> QED BY <1>11, <3>1, <3>2
  <2>2. mirror' \in [on : BOOLEAN, url : Urls \cup {<<>>}, last : M]
    BY <1>4, <2>1 DEF Records
  <2>3. NoPush \in [step : {"idle", "sending", "sent", "failed"}, url : Urls \cup {<<>>}, last : M, seen : 0..n]
    BY <1>0, <1>2 DEF NoPush
  <2>4. push' = [push EXCEPT ![p] = NoPush] /\ UNCHANGED <<snaps, remote>>
    BY <1>11 DEF PushRecorded, PushFailed
  <2>5. PushTyped'
    BY <1>3, <1>4, <2>2, <2>3, <2>4 DEF PushTyped
  <2> QED BY <1>1, <1>11, <2>5 DEF PushRecorded, PushFailed, CallsT
<1> QED BY <1>5, <1>7, <1>8, <1>9, <1>10, <1>11 DEF Mirrors, Ps

LEMMA TypesInit == Init => TypeInv
<1> SUFFICES ASSUME Init PROVE TypeInv
  OBVIOUS
<1>1. MirrorInv /\ Len(snaps) \in Nat /\ Main \in Names /\ Main \in Branches /\ Branches \subseteq Names
  BY MirrorInit, Places, LabAssumption DEF MirrorInv, Names
<1>2. CallsTyped
  <2>1. NewCall \in CallSet(Len(snaps)) /\ Based(NewCall, Len(snaps))
    BY <1>1 DEF NewCall, CallSet, Based
  <2> QED BY <2>1 DEF Init, CallsTyped
<1>3. PushTyped
  <2>1. <<>> \in Marks
    BY DEF Marks
  <2>2. NoPush \in [step : {"idle", "sending", "sent", "failed"}, url : Urls \cup {<<>>},
                    last : Marks, seen : 0..Len(snaps)]
    BY <1>1, <2>1 DEF NoPush
  <2>3. mirror \in [on : BOOLEAN, url : Urls \cup {<<>>}, last : Marks]
    BY <2>1 DEF Init, NoMirror
  <2> QED BY <1>1, <2>2, <2>3 DEF Init, PushTyped, Ps
<1>4. RestTyped
  BY LabAssumption DEF Init, RestTyped
<1>5. <<"hash", 0>> \in Targets /\ NoRef \in [kind : {"none", "branch", "tag"}, at : Targets]
  <2>1. <<"hash", 0>> \in Targets
    BY <1>1 DEF Targets
  <2> QED BY <2>1 DEF NoRef
<1>6. CASE snaps = <<>> /\ refs = [r \in Names |-> NoRef] /\ mr = NoMR
  <2>1. SnapsTyped
    BY <1>6 DEF SnapsTyped
  <2>2. RefsTyped
    BY <1>5, <1>6 DEF RefsTyped
  <2>3. MRTyped
    BY <1>1, <1>6 DEF MRTyped, NoMR
  <2> QED BY <1>1, <1>2, <1>3, <1>4, <2>1, <2>2, <2>3 DEF TypeInv
<1>7. CASE snaps = Seeded /\ refs \in Seeds /\ mr \in {NoMR} \cup Opens
  <2> DEFINE x == [rev |-> 1, parents |-> <<>>, tree |-> Empty]
  <2>1. snaps = <<x>> /\ x.rev = 1 /\ x.parents = <<>> /\ x.tree \in Trees
    BY <1>7 DEF Seeded, Trees, Empty
  <2> HIDE DEF x
  <2>2. Len(snaps) = 1 /\ snaps[1] = x
    BY <2>1
  <2>3. SnapsTyped
    <3>1. \A h : <<>> \in Seq(1..(h - 1))
      BY ShortLists
    <3>2. \A h \in 1..Len(snaps) : h = 1 /\ snaps[h] = x
      BY <2>2
    <3> QED BY <2>1, <3>1, <3>2 DEF SnapsTyped
  <2>4. <<"rev", 1>> \in Targets /\ <<"hash", 1>> \in Targets
    <3>1. 1 \in RevIDs
      BY <2>1, <2>2 DEF RevIDs
    <3> QED BY <2>2, <3>1 DEF Targets
  <2>5. PICK S \in SUBSET (Branches \ {Main}) :
          refs = [r \in Names |-> CASE r = Main -> [kind |-> "branch", at |-> <<"rev", 1>>]
                              [] r \in S  -> [kind |-> "branch", at |-> <<"hash", 1>>]
                              [] OTHER    -> NoRef]
    BY <1>7 DEF Seeds
  <2>6. ASSUME NEW r \in Names PROVE refs[r] \in [kind : {"none", "branch", "tag"}, at : Targets]
    <3>1. refs[r] \in {[kind |-> "branch", at |-> <<"rev", 1>>], [kind |-> "branch", at |-> <<"hash", 1>>], NoRef}
      BY <2>5
    <3> QED BY <1>5, <2>4, <3>1
  <2>7. RefsTyped
    BY <2>5, <2>6 DEF RefsTyped
  <2>8. MRTyped
    BY <1>1, <1>7, <2>2 DEF MRTyped, NoMR, Opens
  <2> QED BY <1>1, <1>2, <1>3, <1>4, <2>3, <2>7, <2>8 DEF TypeInv
<1> QED BY <1>6, <1>7 DEF Init

LEMMA TypesNext ==
    ASSUME TypeInv, LabStep
    PROVE  TypeInv'
<1>1. MirrorInv'
  BY MirrorNext DEF TypeInv
<1>2. CASE UNCHANGED labVars
  <2>1. UNCHANGED <<refs, snaps, calls, mr, mirror, remote, push, fails, given, kept>>
    BY <1>2 DEF labVars
  <2> QED BY <1>1, <2>1, CallTypes DEF SnapsT, RefsT, CallsT
<1>3. CASE Next
  BY <1>1, <1>3, WritesTyped, RefsMoveTyped, RequestsTyped, MirrorsTyped DEF Next
<1>4. ASSUME NEW c \in Calls, Fetch(c) PROVE TypeInv'
  <2>1. CallsT
    BY <1>4, FetchReads, EndTyped
  <2> QED BY <1>1, <1>4, <2>1, FetchReads, ReadTypes
<1> QED BY <1>2, <1>3, <1>4 DEF LabStep

\* No call stores a parent, a base or a record that names nothing, and no
\* other target that names nothing than a name or a string of the client's:
\* the types hold for any calls, branches, tags, files, destinations and
\* parents (every handler of connlab.go and connlab_repo.go that writes).
THEOREM TypeCorrect == HistSpec => []TypeOK
<1>1. TypeInv /\ [HistNext]_histVars => TypeInv'
  BY TypesNext, HistStep
<1>2. TypeInv => TypeOK
  <2> SUFFICES ASSUME TypeInv PROVE TypeOK
    OBVIOUS
  <2>1. calls \in [Calls -> CallSet(Len(snaps))] /\ blind \in BOOLEAN
    BY DEF TypeInv, CallsTyped, MirrorInv
  <2> QED BY <2>1 DEF TypeInv, TypeOK, SnapsTyped, RefsTyped, MRTyped, PushTyped, RestTyped, CallSet, Trees, Ps
<1>3. HistInit => TypeInv
  BY TypesInit DEF HistInit
<1> QED BY <1>1, <1>2, <1>3, PTL DEF HistSpec

-----------------------------------------------------------------------------
(* The history.  Its functions go up from a snapshot to its parents, which  *)
(* are older, so that each is defined and can be reasoned about by the      *)
(* first place where something would go wrong.                              *)

LEMMA FromBelow ==
    ASSUME NEW n \in Nat, NEW P \in SUBSET (0..n),
           \A m \in 0..n : (\A k \in 0..(m - 1) : k \in P) => m \in P
    PROVE  P = 0..n
<1> DEFINE T == {m \in 0..n : m \notin P}
<1> SUFFICES ASSUME T # {} PROVE FALSE
  OBVIOUS
<1>1. T \subseteq Nat
  OBVIOUS
<1>2. PICK x \in T : \A y \in T : ~(<<y, x>> \in OpToRel(<, Nat))
  BY <1>1, WFMin, NatLessThanWellFounded
<1>3. ASSUME NEW k \in 0..(x - 1) PROVE k \in P
  <2>1. x \in 0..n /\ k \in 0..n /\ k < x /\ k \in Nat /\ x \in Nat
    OBVIOUS
  <2>2. k \notin T
    BY <1>2, <2>1 DEF OpToRel
  <2> QED BY <2>1, <2>2
<1>4. x \in 0..n /\ x \notin P
  OBVIOUS
<1> QED BY <1>3, <1>4

\* A parent is older than its child.
Line == /\ \E S : snaps \in Seq(S)
        /\ \A h \in 1..Len(snaps) :
             snaps[h].rev \in 1..h /\ snaps[h].parents \in Seq(1..(h - 1))

LEMMA LineTyped == TypeInv => Line
BY DEF TypeInv, SnapsTyped, MirrorInv, WritesInv, BranchInv, Line

LEMMA OwnedIs ==
    ASSUME Line
    PROVE  /\ Len(snaps) \in Nat /\ RevIDs \subseteq 1..Len(snaps) /\ Owned \subseteq 1..Len(snaps)
           /\ \A i \in RevIDs : RevHash(i) \in Owned /\ Owner(RevHash(i)) = i
           /\ \A h \in 1..Len(snaps) : Owner(h) \in RevIDs
           /\ \A h \in Owned : RevHash(Owner(h)) = h
<1>1. Len(snaps) \in Nat
  BY DEF Line
<1>2. \A i \in RevIDs : RevHash(i) \in 1..Len(snaps) /\ snaps[RevHash(i)].rev = i
  BY RevHashIs DEF Line
<1>3. RevIDs \subseteq 1..Len(snaps)
  BY <1>1 DEF Line, RevIDs
<1>4. \A h \in 1..Len(snaps) : Owner(h) \in RevIDs
  BY DEF Owner, RevIDs
<1> QED BY <1>1, <1>2, <1>3, <1>4 DEF Owned, Owner

LEMMA ParentsOlder ==
    ASSUME Line, NEW h \in 1..Len(snaps)
    PROVE  /\ Range(snaps[h].parents) \subseteq 1..(h - 1) /\ Parents(h) \subseteq Owned
           /\ Parents(h) \subseteq Range(snaps[h].parents)
           /\ \A p \in Parents(h) : p \in 1..Len(snaps) /\ p \in 1..(h - 1)
<1>1. PICK ps : ps = snaps[h].parents /\ ps \in Seq(1..(h - 1)) /\ Len(snaps) \in Nat
  BY DEF Line
<1>2. Range(ps) \subseteq 1..(h - 1)
  BY <1>1 DEF Range
<1> QED BY <1>1, <1>2 DEF Parents

\* changeSetWithAncestors computes what its definition says.
LEMMA ReachedIs ==
    ASSUME Line, NEW have
    PROVE  Reached(have) = [h \in 1..Len(snaps) |->
             IF Owner(h) \in have THEN {}
             ELSE {Owner(h)} \cup UNION {Reached(have)[p] : p \in Parents(h)}]
<1> DEFINE N       == Len(snaps)
           B(f, h) == IF Owner(h) \in have THEN {} ELSE {Owner(h)} \cup UNION {f[p] : p \in Parents(h)}
           P       == {m \in 0..N : \E f : f = [h \in 1..m |-> B(f, h)]}
<1>1. N \in Nat
  BY OwnedIs
<1>2. ASSUME NEW m \in 0..N, \A k \in 0..(m - 1) : k \in P PROVE m \in P
  <2>1. PICK g : m # 0 => g = [h \in 1..(m - 1) |-> B(g, h)]
    <3>1. m # 0 => m - 1 \in 0..(m - 1)
      BY <1>1
    <3> QED BY <1>2, <3>1
  <2> DEFINE f == [h \in 1..m |-> IF h = m THEN B(g, m) ELSE g[h]]
  <2>2. ASSUME NEW h \in 1..m PROVE B(f, h) = B(g, h)
    <3>1. \A p \in Parents(h) : f[p] = g[p]
      BY <1>1, ParentsOlder
    <3>2. {f[p] : p \in Parents(h)} = {g[p] : p \in Parents(h)}
      BY <3>1
    <3> HIDE DEF f
    <3> QED BY <3>2
  <2>3. ASSUME NEW h \in 1..m PROVE f[h] = B(g, h)
    <3>1. CASE h = m
      BY <3>1
    <3>2. CASE h # m
      <4>1. h \in 1..(m - 1) /\ m # 0
        BY <1>1, <3>2
      <4> HIDE DEF B
      <4> QED BY <2>1, <3>2, <4>1
    <3> QED BY <3>1, <3>2
  <2>4. f = [h \in 1..m |-> f[h]]
    OBVIOUS
  <2> HIDE DEF f
  <2>5. f = [h \in 1..m |-> B(f, h)]
    BY <2>2, <2>3, <2>4
  <2> QED BY <2>5
<1>3. N \in P
  <2> HIDE DEF P
  <2>1. P \in SUBSET (0..N)
    BY DEF P
  <2>2. P = 0..N
    BY <1>1, <1>2, <2>1, FromBelow
  <2> QED BY <1>1, <2>2
<1>4. \E f : f = [h \in 1..N |-> B(f, h)]
  BY <1>3
<1> QED BY <1>4 DEF Reached

\* Graph's visit goes through the parents one by one.
Step(visit, parents, order, t, k) ==
    IF k = 0 THEN order
    ELSE IF parents[k] \in Owned THEN visit[parents[k]][t[k - 1]] ELSE t[k - 1]

Walk(visit, parents, order, t) ==
    /\ t = [k \in 0..Len(parents) |-> Step(visit, parents, order, t, k)]
    /\ Thru(visit, parents, order) = t[Len(parents)]

LEMMA ThruIs ==
    ASSUME NEW visit, NEW parents, NEW order, Len(parents) \in Nat
    PROVE  \E t : Walk(visit, parents, order, t)
<1> DEFINE N       == Len(parents)
           B(t, k) == Step(visit, parents, order, t, k)
           P       == {m \in 0..N : \E t : t = [k \in 0..m |-> B(t, k)]}
<1>1. N \in Nat
  OBVIOUS
<1>2. ASSUME NEW m \in 0..N, \A k \in 0..(m - 1) : k \in P PROVE m \in P
  <2>1. PICK g : m # 0 => g = [k \in 0..(m - 1) |-> B(g, k)]
    <3>1. m # 0 => m - 1 \in 0..(m - 1)
      BY <1>1
    <3> QED BY <1>2, <3>1
  <2> DEFINE t == [k \in 0..m |-> IF k = m THEN B(g, m) ELSE g[k]]
  <2>2. ASSUME NEW k \in 0..m PROVE B(t, k) = B(g, k)
    <3>1. CASE k = 0
      BY <3>1 DEF Step
    <3>2. CASE k # 0
      <4>1. k - 1 \in 0..m /\ k - 1 # m
        BY <1>1, <3>2
      <4>2. t[k - 1] = g[k - 1]
        BY <4>1
      <4> HIDE DEF t
      <4> QED BY <3>2, <4>2 DEF Step
    <3> QED BY <3>1, <3>2
  <2>3. ASSUME NEW k \in 0..m PROVE t[k] = B(g, k)
    <3>1. CASE k = m
      BY <3>1
    <3>2. CASE k # m
      <4>1. k \in 0..(m - 1) /\ m # 0
        BY <1>1, <3>2
      <4> HIDE DEF B
      <4> QED BY <2>1, <3>2, <4>1
    <3> QED BY <3>1, <3>2
  <2>4. t = [k \in 0..m |-> t[k]]
    OBVIOUS
  <2> HIDE DEF t
  <2>5. t = [k \in 0..m |-> B(t, k)]
    BY <2>2, <2>3, <2>4
  <2> QED BY <2>5
<1>3. N \in P
  <2> HIDE DEF P
  <2>1. P \in SUBSET (0..N)
    BY DEF P
  <2>2. P = 0..N
    BY <1>1, <1>2, <2>1, FromBelow
  <2> QED BY <1>1, <2>2
<1>4. \E t : t = [k \in 0..N |-> B(t, k)]
  BY <1>3
<1> QED BY <1>4 DEF Thru, Step, Walk

LEMMA ThruSame ==
    ASSUME NEW f, NEW g, NEW parents, NEW order, Len(parents) \in Nat,
           \A k \in 1..Len(parents) : f[parents[k]] = g[parents[k]]
    PROVE  Thru(f, parents, order) = Thru(g, parents, order)
<1> DEFINE N == Len(parents)
<1>1. PICK t : Walk(f, parents, order, t)
  BY ThruIs
<1>2. PICK u : Walk(g, parents, order, u)
  BY ThruIs
<1>3. \A k \in 0..N : t[k] = Step(f, parents, order, t, k)
  BY <1>1 DEF Walk
<1>4. \A k \in 0..N : u[k] = Step(g, parents, order, u, k)
  BY <1>2 DEF Walk
<1> DEFINE P == {k \in 0..N : t[k] = u[k]}
<1>5. ASSUME NEW m \in 0..N, \A k \in 0..(m - 1) : k \in P PROVE m \in P
  <2>1. CASE m = 0
    BY <1>3, <1>4, <2>1 DEF Step
  <2>2. CASE m # 0
    <3>1. m - 1 \in 0..(m - 1) /\ m \in 1..N
      BY <2>2
    <3>2. t[m - 1] = u[m - 1] /\ f[parents[m]] = g[parents[m]]
      BY <1>5, <3>1
    <3>3. t[m] = Step(f, parents, order, t, m) /\ u[m] = Step(g, parents, order, u, m)
      BY <1>3, <1>4
    <3> QED BY <2>2, <3>2, <3>3 DEF Step
  <2> QED BY <2>1, <2>2
<1>6. N \in P
  <2> HIDE DEF P
  <2>1. P \in SUBSET (0..N) /\ N \in Nat
    BY DEF P
  <2>2. P = 0..N
    BY <1>5, <2>1, FromBelow
  <2> QED BY <2>1, <2>2
<1> QED BY <1>1, <1>2, <1>6 DEF Walk

LEMMA VisitIs ==
    ASSUME Line
    PROVE  Visit = [h \in 1..Len(snaps) |-> [order \in Seq(RevIDs) |->
             IF Owner(h) \in Range(order) THEN order
             ELSE Append(Thru(Visit, snaps[h].parents, order), Owner(h))]]
<1> DEFINE N       == Len(snaps)
           B(f, h) == [order \in Seq(RevIDs) |->
                        IF Owner(h) \in Range(order) THEN order
                        ELSE Append(Thru(f, snaps[h].parents, order), Owner(h))]
           P       == {m \in 0..N : \E f : f = [h \in 1..m |-> B(f, h)]}
<1>1. N \in Nat
  BY OwnedIs
<1>2. ASSUME NEW m \in 0..N, \A k \in 0..(m - 1) : k \in P PROVE m \in P
  <2>1. PICK g : m # 0 => g = [h \in 1..(m - 1) |-> B(g, h)]
    <3>1. m # 0 => m - 1 \in 0..(m - 1)
      BY <1>1
    <3> QED BY <1>2, <3>1
  <2> DEFINE f == [h \in 1..m |-> IF h = m THEN B(g, m) ELSE g[h]]
  <2>2. ASSUME NEW h \in 1..m PROVE B(f, h) = B(g, h)
    <3>1. PICK ps : ps = snaps[h].parents /\ ps \in Seq(1..(h - 1)) /\ Len(ps) \in Nat
      BY <1>1 DEF Line
    <3>2. ASSUME NEW k \in 1..Len(ps) PROVE f[ps[k]] = g[ps[k]]
      <4>1. ps[k] \in 1..(h - 1)
        BY <3>1
      <4>2. ps[k] \in 1..m /\ ps[k] # m
        BY <1>1, <4>1
      <4> QED BY <4>2
    <3>3. PICK q : q = f
      OBVIOUS
    <3> HIDE DEF f
    <3>4. \A k \in 1..Len(ps) : q[ps[k]] = g[ps[k]]
      BY <3>2, <3>3
    <3>5. Len(ps) \in Nat
      BY <3>1
    <3>6. ASSUME NEW order PROVE Thru(q, ps, order) = Thru(g, ps, order)
      BY <3>4, <3>5, ThruSame
    <3> QED BY <3>1, <3>3, <3>6
  <2>3. ASSUME NEW h \in 1..m PROVE f[h] = B(g, h)
    <3> HIDE DEF B
    <3>1. CASE h = m
      BY <3>1
    <3>2. CASE h # m
      <4>1. h \in 1..(m - 1) /\ m # 0
        BY <1>1, <3>2
      <4> QED BY <2>1, <3>2, <4>1
    <3> QED BY <3>1, <3>2
  <2>4. f = [h \in 1..m |-> f[h]]
    OBVIOUS
  <2> HIDE DEF f, B
  <2>5. f = [h \in 1..m |-> B(f, h)]
    BY <2>2, <2>3, <2>4
  <2> QED BY <2>5
<1>3. N \in P
  <2> HIDE DEF P
  <2>1. P \in SUBSET (0..N)
    BY DEF P
  <2>2. P = 0..N
    BY <1>1, <1>2, <2>1, FromBelow
  <2> QED BY <1>1, <2>2
<1>4. \E f : f = [h \in 1..N |-> B(f, h)]
  BY <1>3
<1> QED BY <1>4 DEF Visit

LEMMA ListedIs ==
    ASSUME Line
    PROVE  Listed = [i \in 1..Next1 |->
             IF i = Next1 THEN <<>>
             ELSE IF i \in RevIDs THEN Visit[RevHash(i)][Listed[i + 1]] ELSE Listed[i + 1]]
<1> DEFINE N       == Next1
           B(f, i) == IF i = N THEN <<>>
                      ELSE IF i \in RevIDs THEN Visit[RevHash(i)][f[i + 1]] ELSE f[i + 1]
           P       == {m \in 0..(N - 1) : \E f : f = [i \in (N - m)..N |-> B(f, i)]}
<1>1. N \in Nat /\ N - 1 \in Nat
  BY OwnedIs DEF Next1
<1>2. ASSUME NEW m \in 0..(N - 1), \A k \in 0..(m - 1) : k \in P PROVE m \in P
  <2>1. PICK g : m # 0 => g = [i \in (N - (m - 1))..N |-> B(g, i)]
    <3>1. m # 0 => m - 1 \in 0..(m - 1)
      BY <1>1
    <3> QED BY <1>2, <3>1
  <2> DEFINE f == [i \in (N - m)..N |-> IF i = N - m THEN B(g, i) ELSE g[i]]
  <2>2. ASSUME NEW i \in (N - m)..N PROVE B(f, i) = B(g, i)
    <3>1. CASE i = N
      BY <3>1
    <3>2. CASE i # N
      <4>1. i + 1 \in (N - m)..N /\ i + 1 # N - m
        BY <1>1, <3>2
      <4>2. f[i + 1] = g[i + 1]
        BY <4>1
      <4> HIDE DEF f
      <4> QED BY <3>2, <4>2
    <3> QED BY <3>1, <3>2
  <2>3. ASSUME NEW i \in (N - m)..N PROVE f[i] = B(g, i)
    <3>1. CASE i = N - m
      BY <3>1
    <3>2. CASE i # N - m
      <4>1. i \in (N - (m - 1))..N /\ m # 0
        BY <1>1, <3>2
      <4> HIDE DEF B
      <4> QED BY <2>1, <3>2, <4>1
    <3> QED BY <3>1, <3>2
  <2>4. f = [i \in (N - m)..N |-> f[i]]
    OBVIOUS
  <2> HIDE DEF f
  <2>5. f = [i \in (N - m)..N |-> B(f, i)]
    BY <2>2, <2>3, <2>4
  <2> QED BY <2>5
<1>3. N - 1 \in P
  <2> HIDE DEF P
  <2>1. P \in SUBSET (0..(N - 1))
    BY DEF P
  <2>2. P = 0..(N - 1)
    BY <1>1, <1>2, <2>1, FromBelow
  <2> QED BY <1>1, <2>2
<1>4. \E f : f = [i \in 1..N |-> B(f, i)]
  <2>1. N - (N - 1) = 1
    BY <1>1
  <2> QED BY <1>3, <2>1
<1> QED BY <1>4 DEF Listed

\* Every revision of a list is there once and after its parents.
Ordered(order) ==
    /\ order \in Seq(RevIDs)
    /\ \A m, n \in 1..Len(order) : order[m] = order[n] => m = n
    /\ \A n \in 1..Len(order) : \A p \in Parents(RevHash(order[n])) :
         \E m \in 1..(n - 1) : order[m] = Owner(p)

LEMMA Listing ==
    ASSUME NEW order \in Seq(RevIDs)
    PROVE  /\ Len(order) \in Nat
           /\ \A i : i \in Range(order) <=> \E n \in 1..Len(order) : order[n] = i
BY DEF Range

LEMMA OneMoreListed ==
    ASSUME Line, NEW order, Ordered(order), NEW h \in Owned, Owner(h) \notin Range(order),
           \A p \in Parents(h) : Owner(p) \in Range(order)
    PROVE  /\ Ordered(Append(order, Owner(h)))
           /\ \A i : i \in Range(Append(order, Owner(h))) <=> i \in Range(order) \/ i = Owner(h)
<1> DEFINE v == Append(order, Owner(h))
           k == Len(order) + 1
<1>1. order \in Seq(RevIDs) /\ Owner(h) \in RevIDs /\ Len(order) \in Nat /\ RevHash(Owner(h)) = h
  BY OwnedIs, Listing DEF Ordered
<1>2. /\ v \in Seq(RevIDs) /\ Len(v) = k /\ v[k] = Owner(h)
      /\ \A n \in 1..Len(order) : v[n] = order[n]
  BY <1>1, AppendProperties
<1>3. /\ \A i : i \in Range(order) <=> \E n \in 1..Len(order) : order[n] = i
      /\ \A i : i \in Range(v) <=> \E n \in 1..Len(v) : v[n] = i
  BY <1>1, <1>2, Listing
<1> HIDE DEF v
<1>4. k \in Nat /\ k = Len(order) + 1 /\ \A n \in 1..k : n = k \/ n \in 1..Len(order)
  BY <1>1
<1> HIDE DEF k
<1>5. \A i : i \in Range(v) <=> i \in Range(order) \/ i = Owner(h)
  <2>1. k \in 1..Len(v) /\ \A n \in 1..Len(order) : n \in 1..Len(v)
    BY <1>1, <1>2, <1>4
  <2> QED BY <1>2, <1>3, <1>4, <2>1
<1>6. \A m, n \in 1..Len(v) : v[m] = v[n] => m = n
  <2>1. \A n \in 1..Len(order) : order[n] # Owner(h)
    BY <1>3
  <2> QED BY <1>2, <1>4, <2>1 DEF Ordered
<1>7. ASSUME NEW n \in 1..Len(v), NEW p \in Parents(RevHash(v[n]))
      PROVE  \E m \in 1..(n - 1) : v[m] = Owner(p)
  <2>1. CASE n = k
    <3>1. p \in Parents(h)
      BY <1>1, <1>2, <1>7, <2>1
    <3>2. PICK m \in 1..Len(order) : order[m] = Owner(p)
      BY <1>3, <3>1
    <3>3. m \in 1..(n - 1)
      BY <1>1, <1>4, <2>1
    <3> QED BY <1>2, <3>2, <3>3
  <2>2. CASE n \in 1..Len(order)
    <3>1. PICK m \in 1..(n - 1) : order[m] = Owner(p)
      BY <1>2, <1>7, <2>2 DEF Ordered
    <3>2. m \in 1..Len(order)
      BY <1>1, <2>2
    <3> QED BY <1>2, <3>1, <3>2
  <2> QED BY <1>2, <1>4, <2>1, <2>2
<1>8. Ordered(v)
  BY <1>2, <1>6, <1>7 DEF Ordered
<1> QED BY <1>5, <1>8 DEF v

LEMMA ListedAre ==
    ASSUME Line, NEW order, Ordered(order), NEW i \in Range(order)
    PROVE  RevHash(i) \in 1..Len(snaps)
<1>1. i \in RevIDs
  BY Listing DEF Ordered
<1> QED BY <1>1, OwnedIs

\* What a visit adds to the list is older than what it was called for.
Visits(order, v, h) ==
    /\ Ordered(v) /\ Owner(h) \in Range(v) /\ Range(order) \subseteq Range(v)
    /\ \A i \in Range(v) : i \in Range(order) \/ RevHash(i) <= h

LEMMA VisitOrders ==
    ASSUME Line, NEW o, Ordered(o), NEW g \in Owned
    PROVE  Visits(o, Visit[g][o], g)
<1> DEFINE N == Len(snaps)
           P == {m \in 0..N : m \in Owned => \A order : Ordered(order) => Visits(order, Visit[m][order], m)}
<1>1. N \in Nat /\ Owned \subseteq 1..N
  BY OwnedIs
<1>2. ASSUME NEW m \in 0..N, \A k \in 0..(m - 1) : k \in P PROVE m \in P
  <2> SUFFICES ASSUME m \in Owned, NEW order, Ordered(order) PROVE Visits(order, Visit[m][order], m)
    OBVIOUS
  <2>1. m \in 1..N /\ RevHash(Owner(m)) = m
    BY <1>1, OwnedIs
  <2>2. PICK ps : ps = snaps[m].parents /\ ps \in Seq(1..(m - 1)) /\ Len(ps) \in Nat
    BY <2>1 DEF Line
  <2>3. Visit[m][order] = IF Owner(m) \in Range(order) THEN order
                          ELSE Append(Thru(Visit, ps, order), Owner(m))
    <3>1. Visit[m] = [o2 \in Seq(RevIDs) |-> IF Owner(m) \in Range(o2) THEN o2
                                           ELSE Append(Thru(Visit, ps, o2), Owner(m))]
      BY <2>1, <2>2, VisitIs
    <3> QED BY <3>1 DEF Ordered
  <2>4. ASSUME Owner(m) \notin Range(order), NEW v, Ordered(v), Range(order) \subseteq Range(v),
               \A p \in Parents(m) : Owner(p) \in Range(v),
               \A i \in Range(v) : i \in Range(order) \/ RevHash(i) <= m - 1
        PROVE  Visits(order, Append(v, Owner(m)), m)
    <3>1. Owner(m) \notin Range(v)
      BY <1>1, <2>1, <2>4
    <3>2. /\ Ordered(Append(v, Owner(m)))
          /\ \A i : i \in Range(Append(v, Owner(m))) <=> i \in Range(v) \/ i = Owner(m)
      BY <2>4, <3>1, OneMoreListed
    <3>3. PICK w : w = Append(v, Owner(m))
      OBVIOUS
    <3>4. ASSUME NEW i \in Range(w) PROVE i \in Range(order) \/ RevHash(i) <= m
      <4>1. CASE i = Owner(m)
        BY <2>1, <4>1
      <4>2. CASE i \in Range(v)
        <5>1. RevHash(i) \in Nat
          BY <1>1, <2>4, <4>2, ListedAre
        <5> QED BY <2>1, <2>4, <4>2, <5>1
      <4> QED BY <3>2, <3>3, <4>1, <4>2
    <3> QED BY <2>4, <3>2, <3>3, <3>4 DEF Visits
  <2>5. PICK t : Walk(Visit, ps, order, t)
    BY <2>2, ThruIs
  <2>6. \A k \in 0..Len(ps) : t[k] = Step(Visit, ps, order, t, k)
    BY <2>5 DEF Walk
  <2> DEFINE Good(k) == /\ Ordered(t[k]) /\ Range(order) \subseteq Range(t[k])
                        /\ \A j \in 1..k : ps[j] \in Owned => Owner(ps[j]) \in Range(t[k])
                        /\ \A i \in Range(t[k]) : i \in Range(order) \/ RevHash(i) <= m - 1
             Q       == {k \in 0..Len(ps) : Good(k)}
  <2>7. ASSUME NEW k \in 0..Len(ps), \A j \in 0..(k - 1) : j \in Q PROVE k \in Q
    <3>1. CASE k = 0
      <4>1. t[k] = order
        BY <2>6, <3>1 DEF Step
      <4> QED BY <3>1, <4>1
    <3>2. CASE k # 0
      <4>1. k - 1 \in 0..(k - 1) /\ k \in 1..Len(ps)
        BY <2>2, <3>2
      <4>2. Good(k - 1)
        BY <2>7, <4>1
      <4>3. PICK u, p : /\ u = t[k - 1] /\ p = ps[k]
                        /\ t[k] = IF p \in Owned THEN Visit[p][u] ELSE u
        BY <2>6, <3>2 DEF Step
      <4>4. /\ Ordered(u) /\ Range(order) \subseteq Range(u)
            /\ \A j \in 1..(k - 1) : ps[j] \in Owned => Owner(ps[j]) \in Range(u)
            /\ \A i \in Range(u) : i \in Range(order) \/ RevHash(i) <= m - 1
        BY <4>2, <4>3
      <4>5. \A j \in 1..k : j = k \/ j \in 1..(k - 1)
        BY <2>2
      <4>6. CASE p \notin Owned
        <5>1. t[k] = u
          BY <4>3, <4>6
        <5> QED BY <4>3, <4>4, <4>5, <4>6, <5>1
      <4>7. CASE p \in Owned
        <5>1. p \in 1..(m - 1)
          BY <2>2, <4>1, <4>3
        <5>2. p \in P
          <6>1. p \in 0..(m - 1)
            BY <5>1
          <6> QED BY <1>2, <6>1
        <5>3. Visits(u, t[k], p)
          BY <4>3, <4>4, <4>7, <5>2
        <5>4. PICK v : v = t[k] /\ Visits(u, v, p)
          BY <5>3
        <5>5. \A i \in Range(v) : i \in Range(order) \/ RevHash(i) <= m - 1
          <6>1. \A i \in Range(v) : RevHash(i) \in 1..N
            BY <5>4, ListedAre DEF Visits
          <6> QED BY <1>1, <2>1, <4>4, <5>1, <5>4, <6>1 DEF Visits
        <5>6. \A j \in 1..k : ps[j] \in Owned => Owner(ps[j]) \in Range(v)
          BY <4>3, <4>4, <4>5, <5>4 DEF Visits
        <5> QED BY <4>4, <5>4, <5>5, <5>6 DEF Visits
      <4> QED BY <4>6, <4>7
    <3> QED BY <3>1, <3>2
  <2>8. Good(Len(ps))
    <3> HIDE DEF Good
    <3>1. Q \in SUBSET (0..Len(ps))
      OBVIOUS
    <3> HIDE DEF Q
    <3>2. Q = 0..Len(ps)
      BY <2>2, <2>7, <3>1, FromBelow
    <3>3. Len(ps) \in Q
      BY <2>2, <3>2
    <3> QED BY <3>3 DEF Q
  <2>9. \A p \in Parents(m) : \E j \in 1..Len(ps) : p = ps[j] /\ ps[j] \in Owned
    <3>1. DOMAIN ps = 1..Len(ps)
      BY <2>2
    <3> QED BY <2>2, <3>1 DEF Parents, Range
  <2>10. PICK v : /\ v = Thru(Visit, ps, order) /\ Ordered(v) /\ Range(order) \subseteq Range(v)
                  /\ \A p \in Parents(m) : Owner(p) \in Range(v)
                  /\ \A i \in Range(v) : i \in Range(order) \/ RevHash(i) <= m - 1
    BY <2>5, <2>8, <2>9 DEF Walk
  <2> HIDE DEF Good, Q
  <2>11. CASE Owner(m) \in Range(order)
    BY <2>3, <2>11 DEF Visits
  <2>12. CASE Owner(m) \notin Range(order)
    BY <2>3, <2>4, <2>10, <2>12
  <2> QED BY <2>11, <2>12
<1>3. g \in P
  <2> HIDE DEF P
  <2>1. P \in SUBSET (0..N)
    BY DEF P
  <2>2. P = 0..N
    BY <1>1, <1>2, <2>1, FromBelow
  <2> QED BY <1>1, <2>2
<1> QED BY <1>3

LEMMA ListedOrders ==
    ASSUME Line
    PROVE  Ordered(Order) /\ Range(Order) = RevIDs
<1> DEFINE N       == Len(snaps)
           Good(i) == Ordered(Listed[i]) /\ \A j \in RevIDs : j >= i => j \in Range(Listed[i])
           P       == {m \in 0..N : Good(Next1 - m)}
<1>1. N \in Nat /\ RevIDs \subseteq 1..N /\ Next1 = N + 1
  BY OwnedIs DEF Next1
<1>2. ASSUME NEW m \in 0..N, \A k \in 0..(m - 1) : k \in P PROVE m \in P
  <2>1. PICK i \in 1..Next1 : i = Next1 - m
    BY <1>1
  <2>2. CASE m = 0
    <3>1. Listed[i] = <<>>
      BY <1>1, <2>1, <2>2, ListedIs
    <3>2. Ordered(<<>>)
      BY DEF Ordered
    <3>3. \A j \in RevIDs : ~(j >= i)
      BY <1>1, <2>1, <2>2
    <3> QED BY <2>1, <3>1, <3>2, <3>3
  <2>3. CASE m # 0
    <3>1. m - 1 \in P /\ i + 1 = Next1 - (m - 1) /\ i # Next1
      BY <1>1, <1>2, <2>1, <2>3
    <3>2. PICK v : v = Listed[i + 1] /\ Ordered(v) /\ \A j \in RevIDs : j >= i + 1 => j \in Range(v)
      BY <3>1
    <3>3. Listed[i] = IF i \in RevIDs THEN Visit[RevHash(i)][v] ELSE v
      BY <3>1, <3>2, ListedIs
    <3>4. CASE i \in RevIDs
      <4>1. PICK h \in Owned : h = RevHash(i) /\ Owner(h) = i
        BY <3>4, OwnedIs
      <4>2. Visits(v, Listed[i], h)
        BY <3>2, <3>3, <3>4, <4>1, VisitOrders
      <4>3. \A j \in RevIDs : j >= i => j = i \/ j >= i + 1
        BY <1>1
      <4> QED BY <2>1, <3>2, <4>1, <4>2, <4>3 DEF Visits
    <3>5. CASE i \notin RevIDs
      <4>1. \A j \in RevIDs : j >= i => j >= i + 1
        BY <1>1, <3>5
      <4> QED BY <2>1, <3>2, <3>3, <3>5, <4>1
    <3> QED BY <3>4, <3>5
  <2> QED BY <2>2, <2>3
<1>3. N \in P
  <2> HIDE DEF P
  <2>1. P \in SUBSET (0..N)
    BY DEF P
  <2>2. P = 0..N
    BY <1>1, <1>2, <2>1, FromBelow
  <2> QED BY <1>1, <2>2
<1>4. Good(1)
  <2>1. Next1 - N = 1
    BY <1>1
  <2> QED BY <1>3, <2>1
<1>5. Order \in Seq(RevIDs) /\ \A j \in RevIDs : j \in Range(Order)
  BY <1>1, <1>4 DEF Order, Ordered
<1>6. \A j : j \in Range(Order) => j \in RevIDs
  BY <1>5, Listing
<1> QED BY <1>4, <1>5, <1>6 DEF Order

\* Every revision is an ancestor of a head, or one itself.
LEMMA AncestorsAreRevisions ==
    ASSUME Line, NEW have
    PROVE  \A h \in 1..Len(snaps) : Reached(have)[h] \subseteq RevIDs
<1> DEFINE N == Len(snaps)
           P == {m \in 0..N : m # 0 => Reached(have)[m] \subseteq RevIDs}
<1>1. N \in Nat
  BY OwnedIs
<1>2. ASSUME NEW m \in 0..N, \A k \in 0..(m - 1) : k \in P PROVE m \in P
  <2> SUFFICES ASSUME m # 0 PROVE Reached(have)[m] \subseteq RevIDs
    OBVIOUS
  <2>1. m \in 1..N /\ Owner(m) \in RevIDs
    BY <1>1, OwnedIs
  <2>2. \A p \in Parents(m) : Reached(have)[p] \subseteq RevIDs
    <3>1. \A p \in Parents(m) : p \in 0..(m - 1) /\ p # 0
      BY <1>1, <2>1, ParentsOlder
    <3> QED BY <1>2, <3>1
  <2>3. Reached(have)[m] = IF Owner(m) \in have THEN {}
                           ELSE {Owner(m)} \cup UNION {Reached(have)[p] : p \in Parents(m)}
    BY <2>1, ReachedIs
  <2>4. UNION {Reached(have)[p] : p \in Parents(m)} \subseteq RevIDs
    BY <2>2
  <2> QED BY <2>1, <2>3, <2>4
<1>3. P = 0..N
  <2> HIDE DEF P
  <2>1. P \in SUBSET (0..N)
    BY DEF P
  <2> QED BY <1>1, <1>2, <2>1, FromBelow
<1> QED BY <1>1, <1>3

LEMMA HeadsReachAll ==
    ASSUME Line
    PROVE  UNION {Reached({})[RevHash(i)] : i \in Heads} = RevIDs
<1> DEFINE all == Reached({})
<1>1. \A h \in 1..Len(snaps) : all[h] = {Owner(h)} \cup UNION {all[p] : p \in Parents(h)}
  BY ReachedIs
<1>2. Len(snaps) \in Nat /\ Owned \in SUBSET (1..Len(snaps)) /\ Heads \subseteq RevIDs
  BY OwnedIs DEF Heads
<1> HIDE DEF all
<1>3. ASSUME NEW i \in RevIDs PROVE \E j \in Heads : i \in all[RevHash(j)]
  <2> DEFINE K == {k \in Owned : i \in all[k]}
  <2>1. RevHash(i) \in K
    BY <1>1, <1>2, OwnedIs
  <2>2. PICK k \in K : \A l \in K : l <= k
    <3>1. K \in SUBSET (1..Len(snaps)) /\ K # {}
      BY <1>2, <2>1
    <3> HIDE DEF K
    <3> QED BY <1>2, <3>1, LastPlace
  <2>3. k \in Owned /\ i \in all[k] /\ k \in 1..Len(snaps) /\ Owner(k) \in RevIDs /\ RevHash(Owner(k)) = k
    BY <1>2, OwnedIs
  <2>4. ASSUME NEW h \in Owned, NEW p \in Parents(h), Owner(p) = Owner(k) PROVE FALSE
    <3>1. h \in 1..Len(snaps)
      BY <1>2
    <3>2. p \in Owned /\ p \in 1..(h - 1)
      BY <3>1, ParentsOlder
    <3>3. p = k
      BY <2>3, <2>4, <3>2, OwnedIs
    <3>4. i \in all[h]
      BY <1>1, <2>3, <3>1, <3>3
    <3>5. h \in K
      BY <3>4
    <3> QED BY <1>2, <2>2, <2>3, <3>1, <3>2, <3>3, <3>5
  <2>5. Owner(k) \in Heads
    BY <2>3, <2>4 DEF Heads
  <2> QED BY <2>3, <2>5
<1>4. ASSUME NEW j \in Heads PROVE all[RevHash(j)] \subseteq RevIDs
  BY <1>2, OwnedIs, AncestorsAreRevisions DEF all
<1> QED BY <1>3, <1>4 DEF all

LEMMA GraphIsSound == Line => GraphSound
<1> SUFFICES ASSUME Line PROVE GraphSound
  OBVIOUS
<1> DEFINE At(o, h) == CHOOSE n \in 1..Len(o) : o[n] = Owner(h)
<1>1. PICK o : o = Order /\ Ordered(o) /\ Range(o) = RevIDs
  BY ListedOrders
<1>2. o \in Seq(RevIDs) /\ Len(o) \in Nat /\ \A i \in RevIDs : \E n \in 1..Len(o) : o[n] = i
  BY <1>1, Listing DEF Ordered
<1>3. Len(o) = Cardinality(RevIDs)
  <2>1. o \in [1..Len(o) -> RevIDs]
    BY <1>2
  <2>2. o \in Bijection(1..Len(o), RevIDs)
    BY <1>1, <1>2, <2>1 DEF Bijection, Injection, Surjection, IsInjective, Ordered
  <2> QED BY <1>2, <2>2, FS_CountingElements DEF ExistsBijection
<1>4. ASSUME NEW h \in Owned, NEW p \in Parents(h) PROVE At(o, p) < At(o, h)
  <2>1. Owner(h) \in RevIDs /\ RevHash(Owner(h)) = h
    BY OwnedIs
  <2>2. PICK n \in 1..Len(o) : o[n] = Owner(h)
    BY <1>2, <2>1
  <2>3. PICK m \in 1..(n - 1) : o[m] = Owner(p)
    BY <1>1, <2>1, <2>2 DEF Ordered
  <2>4. m \in 1..Len(o) /\ m < n
    BY <1>2
  <2>5. At(o, h) = n /\ At(o, p) = m
    BY <1>1, <2>2, <2>3, <2>4 DEF Ordered
  <2> QED BY <2>4, <2>5
<1> QED BY <1>1, <1>3, <1>4, HeadsReachAll DEF GraphSound

-----------------------------------------------------------------------------
(* Clones.  Where no revision has two snapshots, every snapshot is its      *)
(* revision's, so the walk from a wanted revision stops only where the      *)
(* client has the snapshot and what is behind it.                           *)

Single    == \A h, k \in 1..Len(snaps) : snaps[h].rev = snaps[k].rev => h = k
Closed(C) == \A h \in C : Range(snaps[h].parents) \subseteq C
ClientInv == client \subseteq 1..Len(snaps) /\ (Single => Closed(client))

LEMMA SingleIs ==
    ASSUME Line, Cardinality(RevIDs) = Len(snaps)
    PROVE  Single
<1> DEFINE n == Len(snaps)
           f == [h \in 1..n |-> snaps[h].rev]
<1>1. n \in Nat
  BY OwnedIs
<1>2. IsFiniteSet(1..n) /\ Cardinality(1..n) = n
  <2> HIDE DEF n
  <2>1. n \in Int /\ 1 \in Int
    BY <1>1
  <2>2. IsFiniteSet(1..n) /\ Cardinality(1..n) = IF 1 > n THEN 0 ELSE n - 1 + 1
    BY <2>1, FS_Interval
  <2>3. (IF 1 > n THEN 0 ELSE n - 1 + 1) = n
    BY <1>1
  <2> QED BY <2>2, <2>3
<1>3. f \in Surjection(1..n, RevIDs)
  BY DEF RevIDs, Surjection
<1> HIDE DEF f
<1>4. f \in Injection(1..n, RevIDs)
  BY <1>2, <1>3, FS_SurjSameCardinalityImpliesInj
<1>5. \A h, k \in 1..n : f[h] = f[k] => h = k
  BY <1>4 DEF Injection, IsInjective
<1> QED BY <1>5 DEF f, Single

LEMMA SingleOwns ==
    ASSUME Line, Single, NEW h \in 1..Len(snaps)
    PROVE  /\ Owner(h) \in RevIDs /\ RevHash(Owner(h)) = h /\ h \in Owned
           /\ Parents(h) = Range(snaps[h].parents)
<1>1. \A k \in 1..Len(snaps) : Owner(k) \in RevIDs /\ RevHash(Owner(k)) = k
  <2>1. \A k \in 1..Len(snaps) : RevHash(Owner(k)) \in 1..Len(snaps) /\ snaps[RevHash(Owner(k))].rev = Owner(k)
    BY OwnedIs, RevHashIs DEF Line
  <2> QED BY <2>1, OwnedIs DEF Single, Owner
<1>2. \A k \in 1..Len(snaps) : k \in Owned
  BY <1>1 DEF Owned
<1>3. Range(snaps[h].parents) \subseteq 1..Len(snaps)
  <2>1. Range(snaps[h].parents) \subseteq 1..(h - 1) /\ Len(snaps) \in Nat
    BY OwnedIs, ParentsOlder
  <2>2. 1..(h - 1) \subseteq 1..Len(snaps)
    BY <2>1
  <2> QED BY <2>1, <2>2
<1> QED BY <1>1, <1>2, <1>3 DEF Parents

\* The walk takes the parents with it, but for those that the client has.
LEMMA ReachedClosed ==
    ASSUME Line, Single, NEW have
    PROVE  \A h \in 1..Len(snaps) : \A k \in 1..Len(snaps) :
             Owner(k) \in Reached(have)[h] =>
               \A p \in Range(snaps[k].parents) : Owner(p) \in have \/ Owner(p) \in Reached(have)[h]
<1> DEFINE N    == Len(snaps)
           R(h) == Reached(have)[h]
           C(h) == \A k \in 1..N : Owner(k) \in R(h) =>
                     \A p \in Range(snaps[k].parents) : Owner(p) \in have \/ Owner(p) \in R(h)
           P    == {m \in 0..N : m # 0 => C(m)}
<1>1. N \in Nat
  BY OwnedIs
<1>2. ASSUME NEW m \in 0..N, \A k \in 0..(m - 1) : k \in P PROVE m \in P
  <2> SUFFICES ASSUME m # 0 PROVE C(m)
    OBVIOUS
  <2>1. m \in 1..N
    BY <1>1
  <2>2. \A h \in 1..N : R(h) = IF Owner(h) \in have THEN {} ELSE {Owner(h)} \cup UNION {R(q) : q \in Parents(h)}
    BY ReachedIs
  <2>3. \A q \in Parents(m) : q \in 1..N /\ C(q)
    <3>1. \A q \in Parents(m) : q \in 0..(m - 1) /\ q # 0 /\ q \in 1..N
      BY <1>1, <2>1, ParentsOlder
    <3> QED BY <1>2, <3>1
  <2> HIDE DEF R
  <2>4. SUFFICES ASSUME NEW k \in 1..N, Owner(k) \in R(m), NEW p \in Range(snaps[k].parents), Owner(p) \notin have
                 PROVE  Owner(p) \in R(m)
    OBVIOUS
  <2>5. R(m) = {Owner(m)} \cup UNION {R(q) : q \in Parents(m)}
    BY <2>1, <2>2, <2>4
  <2>6. CASE Owner(k) = Owner(m)
    <3>1. k = m
      BY <2>1, <2>6 DEF Single, Owner
    <3>2. p \in Parents(m)
      BY <2>1, <2>4, <3>1, SingleOwns
    <3>3. Owner(p) \in R(p)
      BY <2>2, <2>3, <2>4, <3>2
    <3> QED BY <2>5, <3>2, <3>3
  <2>7. ASSUME NEW q \in Parents(m), Owner(k) \in R(q) PROVE Owner(p) \in R(m)
    <3>1. Owner(p) \in R(q)
      BY <2>3, <2>4, <2>7
    <3> QED BY <2>5, <2>7, <3>1
  <2> QED BY <2>4, <2>5, <2>6, <2>7
<1>3. P = 0..N
  <2> HIDE DEF P
  <2>1. P \in SUBSET (0..N)
    BY DEF P
  <2> QED BY <1>1, <1>2, <2>1, FromBelow
<1> QED BY <1>1, <1>3

LEMMA FetchKeepsClosed ==
    ASSUME Line, ClientInv, NEW c \in Calls, Fetch(c)
    PROVE  ClientInv'
<1> DEFINE have   == {Owner(h) : h \in client}
           news(w) == {RevHash(i) : i \in Bundle(w, have)}
<1>1. PICK w \in SUBSET RevIDs : client' = client \cup news(w)
  BY DEF Fetch
<1>2. UNCHANGED snaps /\ Len(snaps) \in Nat /\ client \subseteq 1..Len(snaps)
  BY OwnedIs DEF Fetch, ClientInv
<1>3. Bundle(w, have) \subseteq RevIDs
  BY DEF Bundle, Lacking
<1>4. news(w) \subseteq 1..Len(snaps)
  <2>1. \A i \in RevIDs : RevHash(i) \in 1..Len(snaps)
    BY OwnedIs
  <2> QED BY <1>3, <2>1
<1>5. ASSUME Single PROVE Closed(client')
  <2>1. \A k \in 1..Len(snaps) : Owner(k) \in have => k \in client
    BY <1>2, <1>5 DEF Single, Owner
  <2>2. \A k \in 1..Len(snaps) : Owner(k) \in RevIDs /\ RevHash(Owner(k)) = k
    BY <1>5, SingleOwns
  <2>3. ASSUME NEW h \in news(w), NEW p \in Range(snaps[h].parents) PROVE p \in client \cup news(w)
    <3>1. PICK i \in Bundle(w, have) : h = RevHash(i)
      BY <2>3
    <3>2. h \in 1..Len(snaps) /\ Owner(h) = i
      BY <1>3, <3>1, OwnedIs
    <3>3. p \in 1..Len(snaps)
      <4>1. p \in 1..(h - 1)
        BY <2>3, <3>2, ParentsOlder
      <4> QED BY <1>2, <3>2, <4>1
    <3> SUFFICES ASSUME Owner(p) \notin have PROVE p \in news(w)
      BY <2>1, <3>3
    <3> HIDE DEF have
    <3>4. Owner(p) \in Lacking(have)
      BY <2>2, <3>3 DEF Lacking
    <3>5. CASE WithAncestors(w, have) = {}
      <4>1. Owner(p) \in Bundle(w, have)
        BY <3>4, <3>5 DEF Bundle
      <4> QED BY <2>2, <3>3, <4>1
    <3>6. CASE WithAncestors(w, have) # {}
      <4>1. i \in WithAncestors(w, have)
        BY <3>1, <3>6 DEF Bundle
      <4>2. PICK j \in w : i \in Reached(have)[RevHash(j)]
        BY <4>1 DEF WithAncestors
      <4>3. RevHash(j) \in 1..Len(snaps)
        BY OwnedIs
      <4>4. Owner(p) \in Reached(have)[RevHash(j)]
        BY <1>5, <2>3, <3>2, <4>2, <4>3, ReachedClosed
      <4>5. Owner(p) \in WithAncestors(w, have)
        BY <4>4 DEF WithAncestors
      <4>6. Owner(p) \in Bundle(w, have)
        BY <3>4, <3>6, <4>5 DEF Bundle
      <4> QED BY <2>2, <3>3, <4>6
    <3> QED BY <3>5, <3>6
  <2> HIDE DEF have, news
  <2>4. \A h \in client : Range(snaps[h].parents) \subseteq client
    BY <1>5 DEF ClientInv, Closed
  <2>5. Closed(client') <=> \A h \in client \cup news(w) : Range(snaps[h].parents) \subseteq client \cup news(w)
    BY <1>1 DEF Closed
  <2> QED BY <2>3, <2>4, <2>5
<1> HIDE DEF have, news
<1>6. client' \subseteq 1..Len(snaps')
  BY <1>1, <1>2, <1>4
<1>7. Single' => Single
  BY <1>2 DEF Single
<1>8. Closed(client)' <=> Closed(client')
  BY <1>2 DEF Closed
<1> QED BY <1>5, <1>6, <1>7, <1>8 DEF ClientInv

LEMMA ClientSteps ==
    ASSUME TypeInv, ClientInv, LabStep, UNCHANGED client
    PROVE  ClientInv'
<1>1. SnapsStep /\ WritesInv
  BY WritesNext DEF TypeInv, MirrorInv, Seen
<1>2. /\ Len(snaps) \in Nat /\ Len(snaps') \in Nat /\ Len(snaps) <= Len(snaps')
      /\ \A h \in 1..Len(snaps) : snaps'[h] = snaps[h]
  BY <1>1, SnapsGrow DEF WritesInv
<1>3. \A h \in 1..Len(snaps) : h \in 1..Len(snaps')
  BY <1>2
<1>4. Single' => Single
  BY <1>2, <1>3 DEF Single
<1>5. client \subseteq 1..Len(snaps) /\ client' = client
  BY DEF ClientInv
<1>6. Closed(client) => Closed(client)'
  BY <1>2, <1>5 DEF Closed
<1> QED BY <1>3, <1>4, <1>5, <1>6 DEF ClientInv

HistInv == TypeInv /\ ClientInv

LEMMA HistInvariant == HistSpec => []HistInv
<1>1. HistInit => HistInv
  BY TypesInit DEF HistInit, HistInv, ClientInv, Closed
<1>2. HistInv /\ [HistNext]_histVars => HistInv'
  <2> SUFFICES ASSUME HistInv, [HistNext]_histVars PROVE HistInv'
    OBVIOUS
  <2>1. TypeInv'
    BY HistStep, TypesNext DEF HistInv
  <2>2. ASSUME NEW c \in Calls, Fetch(c) PROVE ClientInv'
    BY <2>2, LineTyped, FetchKeepsClosed DEF HistInv
  <2>3. ASSUME UNCHANGED client PROVE ClientInv'
    <3>1. LabStep
      BY HistStep
    <3> QED BY <2>3, <3>1, ClientSteps DEF HistInv
  <2> QED BY <2>1, <2>2, <2>3 DEF HistInv, HistNext, histVars
<1> QED BY <1>1, <1>2, PTL DEF HistSpec

\* However often revisions were amended and rebased, onto whatever parents,
\* the graph lists each revision once and after its parents, and every
\* revision is an ancestor of a head (connlab.go, Graph).
THEOREM GraphIsWhole == HistSpec => []GraphSound
<1>1. HistInv => GraphSound
  BY LineTyped, GraphIsSound DEF HistInv
<1> QED BY <1>1, HistInvariant, PTL

\* A clone of a repository that has amended and rebased nothing has what is
\* behind each of its snapshots, whatever it asked for, in any number of
\* fetches (handleFetch, changeSetWithAncestors, filterBundle).
THEOREM ClonesAreClosed == HistSpec => []FetchClosed
<1>1. HistInv => FetchClosed
  BY LineTyped, SingleIs DEF HistInv, ClientInv, Closed, FetchClosed
<1> QED BY <1>1, HistInvariant, PTL
=============================================================================
