--------------------------- MODULE JobLogHubProofs ---------------------------
(***************************************************************************)
(* What TLAPS proves of module JobLogHub, for any readers, any lengths of  *)
(* channels and tail and any number of lines: types, the order in which a  *)
(* reader gets its events, and that none is missing that it had room for.  *)
(***************************************************************************)
EXTENDS JobLogHub, SequenceTheorems, TLAPS

Numbers(s, n) == \A i \in 1..Len(s) : s[i] \in 1..n

LEMMA LastType ==
    ASSUME NEW S, NEW s \in Seq(S), NEW n \in Nat, n <= Len(s)
    PROVE  /\ Last(s, n) \in Seq(S)
           /\ Len(Last(s, n)) = n
           /\ \A i \in 1..n : Last(s, n)[i] = s[Len(s) - n + i]
BY DEF Last

LEMMA FirstType ==
    ASSUME NEW S, NEW s \in Seq(S), NEW n \in Nat, n <= Len(s)
    PROVE  /\ First(s, n) \in Seq(S)
           /\ Len(First(s, n)) = n
           /\ \A i \in 1..n : First(s, n)[i] = s[i]
BY DEF First

LEMMA TrimmedType ==
    ASSUME NEW S, NEW s \in Seq(S)
    PROVE  /\ Trimmed(s) \in Seq(S) /\ Len(Trimmed(s)) <= TailMax
           /\ \A i \in 1..Len(Trimmed(s)) : Trimmed(s)[i] = s[Len(s) - Len(Trimmed(s)) + i]
           /\ Len(Trimmed(s)) <= Len(s)
<1>1. CASE Len(s) > TailMax
  <2>1. Trimmed(s) = Last(s, TailMax)
    BY <1>1 DEF Trimmed
  <2>2. TailMax \in Nat /\ TailMax <= Len(s)
    BY <1>1, HubAssumption
  <2>3. /\ Last(s, TailMax) \in Seq(S)
        /\ Len(Last(s, TailMax)) = TailMax
        /\ \A i \in 1..TailMax : Last(s, TailMax)[i] = s[Len(s) - TailMax + i]
    BY <2>2, LastType
  <2> QED BY <2>1, <2>2, <2>3
<1>2. CASE ~(Len(s) > TailMax)
  <2>1. Trimmed(s) = s
    BY <1>2 DEF Trimmed
  <2>2. Len(s) \in Nat /\ TailMax \in Nat
    BY HubAssumption
  <2>3. \A i \in 1..Len(s) : Len(s) - Len(s) + i = i
    BY <2>2
  <2> QED BY <1>2, <2>1, <2>2, <2>3
<1> QED BY <1>1, <1>2

LEMMA FittingType ==
    ASSUME NEW S, NEW s \in Seq(S)
    PROVE  /\ Fitting(s) \in Seq(S) /\ Len(Fitting(s)) <= Cap
           /\ Len(Fitting(s)) <= Len(s)
           /\ \A i \in 1..Len(Fitting(s)) : Fitting(s)[i] = s[i]
<1>1. CASE Len(s) > Cap
  BY <1>1, FirstType, HubAssumption DEF Fitting
<1>2. CASE Len(s) <= Cap
  BY <1>2, HubAssumption DEF Fitting
<1> QED BY <1>1, <1>2, HubAssumption

-----------------------------------------------------------------------------
(* Types.                                                                   *)

LEMMA BufferType ==
    ASSUME TypeOK, NEW r \in Readers
    PROVE  /\ buf[r] \in Seq(Events) /\ got[r] \in Seq(Events)
           /\ Len(buf[r]) \in Nat /\ Len(buf[r]) <= Cap
BY DEF TypeOK

LEMMA OfferType ==
    ASSUME TypeOK, NEW e \in Events, Offer(e)
    PROVE  /\ buf' \in [Readers -> Seq(Events)]
           /\ \A r \in Readers : Len(buf'[r]) <= Cap
           /\ missed' \subseteq Readers
<1>1. ASSUME NEW r \in Readers
      PROVE  /\ Append(buf[r], e) \in Seq(Events)
             /\ ~Full(r) => Len(Append(buf[r], e)) <= Cap
  BY <1>1, BufferType, HubAssumption DEF Full
<1>2. \A r \in Readers : buf'[r] = IF r \in subs /\ ~Full(r) THEN Append(buf[r], e) ELSE buf[r]
  BY DEF Offer
<1>3. \A r \in Readers : buf'[r] \in Seq(Events) /\ Len(buf'[r]) <= Cap
  BY <1>1, <1>2, BufferType
<1>4. buf' \in [Readers -> Seq(Events)]
  BY <1>3 DEF Offer
<1>5. missed' \subseteq Readers
  BY DEF Offer, TypeOK
<1> QED BY <1>3, <1>4, <1>5

LEMMA TypeStep == TypeOK /\ [Next]_vars => TypeOK'
<1> SUFFICES ASSUME TypeOK, [Next]_vars PROVE TypeOK'
  OBVIOUS
<1> USE HubAssumption
<1>1. CASE Log
  <2>1. logged' \in 1..MaxLines /\ logged' \in Events
    BY <1>1 DEF Log, TypeOK, Events, Final
  <2>2. Append(lines, logged') \in Seq(1..MaxLines)
    BY <2>1 DEF TypeOK
  <2>3. lines' \in Seq(1..MaxLines) /\ Len(lines') <= TailMax
    BY <1>1, <2>2, TrimmedType DEF Log
  <2>4. Offer(logged')
    BY <1>1 DEF Log
  <2>5. /\ buf' \in [Readers -> Seq(Events)]
        /\ \A r \in Readers : Len(buf'[r]) <= Cap
        /\ missed' \subseteq Readers
    BY <2>1, <2>4, OfferType
  <2> QED BY <1>1, <2>1, <2>3, <2>5 DEF Log, TypeOK
<1>2. CASE Finish
  <2>1. Final \in Events
    BY DEF Events, Final
  <2>2. /\ buf' \in [Readers -> Seq(Events)]
        /\ \A r \in Readers : Len(buf'[r]) <= Cap
        /\ missed' \subseteq Readers
    BY <1>2, <2>1, OfferType DEF Finish
  <2> QED BY <1>2, <2>2 DEF Finish, TypeOK, Closed
<1>3. ASSUME NEW r \in Readers, Subscribe(r) PROVE TypeOK'
  <2>1. lines \in Seq(Events)
    BY DEF TypeOK, Events, Final
  <2>2. Backfilled \in Seq(Events) /\ Len(Backfilled) <= Cap
    BY <2>1, FittingType DEF Backfilled
  <2>3. /\ buf' \in [Readers -> Seq(Events)]
        /\ \A q \in Readers : Len(buf'[q]) <= Cap
    BY <1>3, <2>2 DEF Subscribe, TypeOK
  <2>4. missed' \subseteq Readers /\ subs' \subseteq Readers /\ lock' \in Readers \cup {Nobody}
    BY <1>3 DEF Subscribe, TypeOK
  <2>5. pc' \in [Readers -> {"new", "sending", "open", "ended", "left"}]
    BY <1>3 DEF Subscribe, TypeOK
  <2> QED BY <1>3, <2>3, <2>4, <2>5 DEF Subscribe, TypeOK
<1>4. ASSUME NEW r \in Readers, SendState(r) PROVE TypeOK'
  <2>1. Append(buf[r], Final) \in Seq(Events) /\ Len(Append(buf[r], Final)) <= Cap
    BY <1>4, BufferType DEF SendState, Full, Events, Final
  <2>2. /\ buf' \in [Readers -> Seq(Events)]
        /\ \A q \in Readers : Len(buf'[q]) <= Cap
    BY <1>4, <2>1 DEF SendState, TypeOK
  <2> QED BY <1>4, <2>2 DEF SendState, TypeOK
<1>5. ASSUME NEW r \in Readers, Receive(r) PROVE TypeOK'
  <2>1. /\ Tail(buf[r]) \in Seq(Events) /\ Len(Tail(buf[r])) <= Cap
        /\ Append(got[r], Head(buf[r])) \in Seq(Events)
    BY <1>5, BufferType DEF Receive
  <2>2. /\ buf' \in [Readers -> Seq(Events)]
        /\ \A q \in Readers : Len(buf'[q]) <= Cap
        /\ got' \in [Readers -> Seq(Events)]
    BY <1>5, <2>1 DEF Receive, TypeOK
  <2> QED BY <1>5, <2>2 DEF Receive, TypeOK
<1>6. ASSUME NEW r \in Readers, EndOfStream(r) PROVE TypeOK'
  BY <1>6 DEF EndOfStream, TypeOK
<1>7. ASSUME NEW r \in Readers, Leave(r) PROVE TypeOK'
  BY <1>7 DEF Leave, TypeOK
<1>8. CASE UNCHANGED vars
  BY <1>8 DEF vars, TypeOK
<1> QED BY <1>1, <1>2, <1>3, <1>4, <1>5, <1>6, <1>7, <1>8 DEF Next, Reader

LEMMA TypeInit == Init => TypeOK
<1> SUFFICES ASSUME Init PROVE TypeOK
  OBVIOUS
<1>1. <<>> \in Seq(Events) /\ <<>> \in Seq(1..MaxLines) /\ Len(<<>>) = 0
  OBVIOUS
<1> QED BY <1>1, HubAssumption DEF Init, TypeOK

(* TypeOK holds in every behaviour of the hub (runbus.go), for any channel  *)
(* and tail: no channel is ever filled beyond its capacity.                 *)
THEOREM TypeCorrect == Spec => []TypeOK
BY TypeInit, TypeStep, PTL DEF Spec

-----------------------------------------------------------------------------
(* Order.  A channel gets events while its reader is subscribed, so that it *)
(* is what such a reader has seen that must be older than the next line.    *)

Increasing(s) == \A i, k \in 1..Len(s) : i < k => s[i] < s[k]

OrderInv ==
    /\ Increasing(lines) /\ Numbers(lines, logged)
    /\ \A r \in Readers :
         /\ pc[r] = "new" => got[r] = <<>>
         /\ r \in subs => pc[r] \notin {"new", "sending"}
         /\ r \in subs \/ pc[r] = "sending" => Numbers(Seen(r), logged)
    /\ InOrder

LEMMA NumbersAppend ==
    ASSUME NEW s \in Seq(Nat), NEW n \in Nat, Numbers(s, n)
    PROVE  Numbers(Append(s, n + 1), n + 1)
BY DEF Numbers

LEMMA IncreasingAppend ==
    ASSUME NEW s \in Seq(Nat), NEW n \in Nat, Numbers(s, n), Increasing(s)
    PROVE  Increasing(Append(s, n + 1))
BY DEF Numbers, Increasing

LEMMA OrderedAppend ==
    ASSUME NEW s \in Seq(Nat), NEW n \in Nat, Numbers(s, n), Ordered(s),
           NEW e \in {Final, n + 1}
    PROVE  Ordered(Append(s, e))
BY DEF Numbers, Ordered, Final

LEMMA SeenType ==
    ASSUME TypeOK, NEW r \in Readers
    PROVE  Seen(r) \in Seq(Nat)
<1>1. got[r] \in Seq(Nat) /\ buf[r] \in Seq(Nat)
  BY HubAssumption DEF TypeOK, Events, Final
<1> QED BY <1>1 DEF Seen

LEMMA AppendAside ==
    ASSUME NEW g \in Seq(Nat), NEW b \in Seq(Nat), NEW e \in Nat
    PROVE  g \o Append(b, e) = Append(g \o b, e)
OBVIOUS

LEMMA MovedOver ==
    ASSUME NEW g \in Seq(Nat), NEW b \in Seq(Nat), b # <<>>
    PROVE  Append(g, Head(b)) \o Tail(b) = g \o b
OBVIOUS

\* What an offer does to what a reader has seen.
LEMMA SeenOffer ==
    ASSUME TypeOK, NEW e \in Nat, Offer(e), UNCHANGED got, NEW r \in Readers
    PROVE  \/ Seen(r)' = Seen(r)
           \/ r \in subs /\ Seen(r)' = Append(Seen(r), e)
<1>1. got[r] \in Seq(Nat) /\ buf[r] \in Seq(Nat)
  BY HubAssumption DEF TypeOK, Events, Final
<1>2. buf'[r] = IF r \in subs /\ ~Full(r) THEN Append(buf[r], e) ELSE buf[r]
  BY DEF Offer
<1> QED BY <1>1, <1>2, AppendAside DEF Seen

LEMMA LogOrder == TypeOK /\ OrderInv /\ Log => OrderInv'
<1> SUFFICES ASSUME TypeOK, OrderInv, Log PROVE OrderInv'
  OBVIOUS
<1>1. logged \in Nat /\ logged' = logged + 1 /\ logged' \in Nat
  BY HubAssumption DEF Log, TypeOK
<1>2. lines \in Seq(Nat) /\ Append(lines, logged') \in Seq(Nat)
  BY <1>1, HubAssumption DEF TypeOK
<1>3. Increasing(lines') /\ Numbers(lines', logged')
  <2>1. Increasing(Append(lines, logged')) /\ Numbers(Append(lines, logged'), logged')
    BY <1>1, <1>2, IncreasingAppend, NumbersAppend DEF OrderInv
  <2>2. lines' = Trimmed(Append(lines, logged'))
    BY DEF Log
  <2> DEFINE s == Append(lines, logged')
  <2>3. /\ lines' \in Seq(Nat) /\ Len(lines') <= Len(s)
        /\ \A i \in 1..Len(lines') : lines'[i] = s[Len(s) - Len(lines') + i]
    BY <1>2, <2>2, TrimmedType
  <2>4. s \in Seq(Nat) /\ Increasing(s) /\ Numbers(s, logged')
    BY <1>2, <2>1
  <2> HIDE DEF s
  <2>5. \A i \in 1..Len(lines') : Len(s) - Len(lines') + i \in 1..Len(s)
    BY <2>3, <2>4
  <2>6. Numbers(lines', logged')
    BY <2>3, <2>4, <2>5 DEF Numbers
  <2>7. Increasing(lines')
    <3> SUFFICES ASSUME NEW i \in 1..Len(lines'), NEW k \in 1..Len(lines'), i < k
                 PROVE  lines'[i] < lines'[k]
      BY DEF Increasing
    <3>1. Len(s) - Len(lines') + i < Len(s) - Len(lines') + k
      BY <2>3, <2>4
    <3> QED BY <2>3, <2>4, <2>5, <3>1 DEF Increasing
  <2> QED BY <2>6, <2>7
<1>4. ASSUME NEW r \in Readers
      PROVE  /\ r \in subs => Numbers(Seen(r)', logged')
             /\ pc[r] = "sending" => Numbers(Seen(r)', logged')
             /\ Ordered(Seen(r)')
  <2>1. \/ Seen(r)' = Seen(r)
        \/ r \in subs /\ Seen(r)' = Append(Seen(r), logged')
    BY <1>1, SeenOffer DEF Log
  <2>2. Seen(r) \in Seq(Nat)
    BY SeenType
  <2>3. CASE Seen(r)' = Seen(r)
    <3>1. Numbers(Seen(r), logged) => Numbers(Seen(r), logged')
      BY <1>1 DEF Numbers
    <3> QED BY <2>3, <3>1 DEF OrderInv, InOrder
  <2>4. CASE r \in subs /\ Seen(r)' = Append(Seen(r), logged')
    <3>1. Numbers(Seen(r), logged) /\ Ordered(Seen(r))
      BY <2>4 DEF OrderInv, InOrder
    <3> QED BY <1>1, <2>2, <2>4, <3>1, NumbersAppend, OrderedAppend
  <2> QED BY <2>1, <2>3, <2>4
<1>5. UNCHANGED <<subs, pc, got>>
  BY DEF Log
<1> QED BY <1>3, <1>4, <1>5 DEF OrderInv, InOrder

LEMMA FinishOrder == TypeOK /\ OrderInv /\ Finish => OrderInv'
<1> SUFFICES ASSUME TypeOK, OrderInv, Finish PROVE OrderInv'
  OBVIOUS
<1>1. logged \in Nat /\ UNCHANGED <<logged, lines, pc, got>> /\ subs' = {}
  BY HubAssumption DEF Finish, TypeOK
<1>2. ASSUME NEW r \in Readers PROVE Ordered(Seen(r)')
  <2>1. \/ Seen(r)' = Seen(r)
        \/ r \in subs /\ Seen(r)' = Append(Seen(r), Final)
    BY <1>1, SeenOffer DEF Finish, Final
  <2>2. r \in subs => Ordered(Append(Seen(r), Final))
    BY <1>1, SeenType, OrderedAppend DEF OrderInv, InOrder
  <2> QED BY <2>1, <2>2 DEF OrderInv, InOrder
<1>3. ASSUME NEW r \in Readers, pc[r] = "sending" PROVE Numbers(Seen(r)', logged)
  <2>1. r \notin subs => Seen(r)' = Seen(r)
    BY <1>1, SeenOffer DEF Finish, Final
  <2>2. CASE r \in subs
    BY <1>3, <2>2 DEF OrderInv
  <2> QED BY <1>3, <2>1, <2>2 DEF OrderInv
<1> QED BY <1>1, <1>2, <1>3 DEF OrderInv, InOrder

LEMMA SubscribeOrder ==
    ASSUME TypeOK, OrderInv, NEW r \in Readers, Subscribe(r)
    PROVE  OrderInv'
<1>1. lines \in Seq(Nat) /\ logged \in Nat
  BY HubAssumption DEF TypeOK
<1>2. /\ UNCHANGED <<logged, lines, got>> /\ pc[r] = "new" /\ got[r] = <<>>
      /\ buf' = [buf EXCEPT ![r] = Backfilled] /\ buf \in [Readers -> Seq(Events)]
      /\ pc \in [Readers -> {"new", "sending", "open", "ended", "left"}]
  BY DEF Subscribe, TypeOK, OrderInv
<1>3. Seen(r)' = Backfilled
  <2>1. Backfilled \in Seq(Nat)
    BY <1>1, FittingType DEF Backfilled
  <2> QED BY <1>2, <2>1 DEF Seen
<1>4. Numbers(Backfilled, logged) /\ Ordered(Backfilled)
  <2>1. /\ Backfilled \in Seq(Nat) /\ Len(Backfilled) <= Len(lines)
        /\ \A i \in 1..Len(Backfilled) : Backfilled[i] = lines[i]
    BY <1>1, FittingType DEF Backfilled
  <2>2. Increasing(lines) /\ Numbers(lines, logged)
    BY DEF OrderInv
  <2> DEFINE b == Backfilled
  <2>3. b \in Seq(Nat) /\ \A i \in 1..Len(b) : i \in 1..Len(lines) /\ b[i] = lines[i]
    BY <1>1, <2>1
  <2> HIDE DEF b
  <2>4. Numbers(b, logged)
    BY <2>2, <2>3 DEF Numbers
  <2>5. Ordered(b)
    <3> SUFFICES ASSUME NEW i \in 1..Len(b), NEW k \in 1..Len(b), i < k
                 PROVE  b[i] # Final /\ (b[k] = Final \/ b[i] < b[k])
      BY DEF Ordered
    <3>1. lines[i] < lines[k] /\ lines[i] # Final
      BY <1>1, <2>2, <2>3 DEF Increasing, Numbers, Final
    <3> QED BY <2>3, <3>1
  <2> QED BY <2>4, <2>5 DEF b
<1>5. \A q \in Readers \ {r} : Seen(q)' = Seen(q)
  BY <1>2 DEF Seen
<1>6. /\ \A q \in Readers \ {r} : pc'[q] = pc[q] /\ (q \in subs' <=> q \in subs)
      /\ \/ pc'[r] = "open"
         \/ pc'[r] = "sending" /\ subs' = subs
  BY <1>2 DEF Subscribe
<1>7. r \notin subs
  BY <1>2 DEF OrderInv
<1> QED BY <1>2, <1>3, <1>4, <1>5, <1>6, <1>7 DEF OrderInv, InOrder

LEMMA ReaderOrder ==
    ASSUME TypeOK, OrderInv, NEW r \in Readers, Reader(r) \/ Leave(r)
    PROVE  OrderInv'
<1>1. logged \in Nat /\ UNCHANGED <<logged, lines>>
  BY HubAssumption DEF TypeOK, Reader, SendState, Receive, EndOfStream, Leave
<1>2. /\ got[r] \in Seq(Nat) /\ buf[r] \in Seq(Nat)
      /\ got \in [Readers -> Seq(Events)] /\ buf \in [Readers -> Seq(Events)]
      /\ pc \in [Readers -> {"new", "sending", "open", "ended", "left"}]
  BY HubAssumption DEF TypeOK, Events, Final
<1>3. CASE SendState(r)
  <2>1. Seen(r)' = Append(Seen(r), Final)
    BY <1>2, <1>3, AppendAside DEF SendState, Seen, Final
  <2>2. Numbers(Seen(r), logged) /\ Ordered(Seen(r)) /\ r \notin subs
    BY <1>3 DEF SendState, OrderInv, InOrder
  <2>3. Ordered(Append(Seen(r), Final))
    BY <1>1, <2>2, SeenType, OrderedAppend
  <2>4. /\ \A q \in Readers \ {r} : Seen(q)' = Seen(q) /\ pc'[q] = pc[q]
        /\ UNCHANGED <<subs, got>> /\ pc'[r] = "open"
    BY <1>2, <1>3 DEF SendState, Seen
  <2> QED BY <1>1, <2>1, <2>2, <2>3, <2>4 DEF OrderInv, InOrder
<1>4. CASE Receive(r)
  <2>1. Seen(r)' = Seen(r)
    BY <1>2, <1>4, MovedOver DEF Receive, Seen
  <2>2. /\ \A q \in Readers \ {r} : Seen(q)' = Seen(q) /\ got'[q] = got[q]
        /\ UNCHANGED <<subs, pc>> /\ pc[r] = "open"
    BY <1>2, <1>4 DEF Receive, Seen
  <2> QED BY <1>1, <2>1, <2>2 DEF OrderInv, InOrder
<1>5. CASE EndOfStream(r)
  <2>1. /\ \A q \in Readers : Seen(q)' = Seen(q)
        /\ \A q \in Readers \ {r} : pc'[q] = pc[q]
        /\ UNCHANGED <<subs, got>> /\ pc'[r] = "ended"
    BY <1>2, <1>5 DEF EndOfStream, Seen
  <2> QED BY <1>1, <2>1 DEF OrderInv, InOrder
<1>6. CASE Leave(r)
  <2>1. /\ \A q \in Readers : Seen(q)' = Seen(q)
        /\ \A q \in Readers \ {r} : pc'[q] = pc[q]
        /\ UNCHANGED got /\ pc'[r] = "left" /\ subs' \subseteq subs
    BY <1>2, <1>6 DEF Leave, Seen
  <2> QED BY <1>1, <2>1 DEF OrderInv, InOrder
<1> QED BY <1>3, <1>4, <1>5, <1>6 DEF Reader

LEMMA OrderInit == Init => TypeOK /\ OrderInv
<1> SUFFICES ASSUME Init PROVE TypeOK /\ OrderInv
  OBVIOUS
<1>1. /\ lines = <<>> /\ Len(lines) = 0 /\ subs = {} /\ logged = 0
      /\ \A r \in Readers : got[r] = <<>> /\ pc[r] = "new"
  BY DEF Init
<1>2. \A r \in Readers : Len(Seen(r)) = 0
  BY DEF Init, Seen
<1> QED BY <1>1, <1>2, TypeInit DEF OrderInv, InOrder, Ordered, Increasing, Numbers

LEMMA OrderStep == TypeOK /\ OrderInv /\ [Next]_vars => OrderInv'
<1> SUFFICES ASSUME TypeOK, OrderInv, [Next]_vars PROVE OrderInv'
  OBVIOUS
<1>1. CASE UNCHANGED vars
  BY <1>1 DEF vars, OrderInv, InOrder, Seen
<1>2. CASE Next
  BY <1>2, LogOrder, FinishOrder, SubscribeOrder, ReaderOrder DEF Next
<1> QED BY <1>1, <1>2

(* However lines, subscriptions, slow readers and the end of the job        *)
(* interleave, a reader gets lines in the order they were logged, none      *)
(* twice, and nothing after the terminal event (Subscribe, Log, Finish).    *)
THEOREM EventsInOrder == Spec => []InOrder
<1>1. OrderInv => InOrder
  BY DEF OrderInv
<1> QED BY <1>1, OrderInit, OrderStep, TypeCorrect, PTL DEF Spec

-----------------------------------------------------------------------------
(* No gap.  Of a reader that has missed nothing, what it has seen are the   *)
(* newest lines, at least as many as the tail holds: while it is subscribed *)
(* or about to be sent the state, and up to the terminal event afterwards.  *)
Whole(s) == Len(s) >= Len(lines) /\ \A i \in 1..Len(s) : s[i] = logged - Len(s) + i

Phases(r) ==
    /\ r \in subs => pc[r] = "open" /\ state = Open /\ r \notin shut
    /\ pc[r] = "new" => got[r] = <<>> /\ r \notin shut
    /\ pc[r] = "sending" => state # Open /\ r \notin shut
    /\ pc[r] = "open" => r \in subs \/ r \in shut
    /\ r \in shut /\ pc[r] \in {"open", "ended"} => state # Open
    /\ pc[r] = "ended" => r \in shut

WholeSoFar(r) == Whole(Seen(r))
WholeToEnd(r) == \E t \in Seq(Nat) : Seen(r) = Append(t, Final) /\ Whole(t)
Gapless(r) ==
    r \notin missed =>
      /\ r \in subs \/ pc[r] = "sending" => WholeSoFar(r)
      /\ r \in shut /\ pc[r] \in {"open", "ended"} => WholeToEnd(r)

GapInv == Whole(lines) /\ \A r \in Readers : Phases(r) /\ Gapless(r)

LEMMA HubTypes ==
    ASSUME TypeOK
    PROVE  /\ logged \in Nat /\ lines \in Seq(Nat) /\ subs \subseteq Readers
           /\ got \in [Readers -> Seq(Nat)] /\ buf \in [Readers -> Seq(Nat)]
           /\ pc \in [Readers -> {"new", "sending", "open", "ended", "left"}]
           /\ \A r \in Readers : Seen(r) \in Seq(Nat)
<1>1. /\ got \in [Readers -> Seq(Nat)] /\ buf \in [Readers -> Seq(Nat)]
  <2>1. \A r \in Readers : got[r] \in Seq(Nat) /\ buf[r] \in Seq(Nat)
    BY HubAssumption DEF TypeOK, Events, Final
  <2> QED BY <2>1 DEF TypeOK
<1> QED BY <1>1, SeenType, HubAssumption DEF TypeOK

\* The newest lines and the next one are the newest lines.
LEMMA WholeAppend ==
    ASSUME NEW s \in Seq(Nat), NEW n \in Nat, \A i \in 1..Len(s) : s[i] = n - Len(s) + i
    PROVE  \A i \in 1..Len(Append(s, n + 1)) :
             Append(s, n + 1)[i] = (n + 1) - Len(Append(s, n + 1)) + i
<1>1. /\ Len(Append(s, n + 1)) = Len(s) + 1 /\ Append(s, n + 1)[Len(s) + 1] = n + 1
      /\ \A i \in 1..Len(s) : Append(s, n + 1)[i] = s[i]
  OBVIOUS
<1>2. Len(s) \in Nat /\ 1..(Len(s) + 1) = 1..Len(s) \cup {Len(s) + 1}
  OBVIOUS
<1>3. \A i \in 1..Len(s) : n - Len(s) + i = (n + 1) - (Len(s) + 1) + i
  BY <1>2
<1> QED BY <1>1, <1>2, <1>3

LEMMA LogGap == TypeOK /\ GapInv /\ Log => GapInv'
<1> SUFFICES ASSUME TypeOK, GapInv, Log PROVE GapInv'
  OBVIOUS
<1> USE HubTypes
<1>1. /\ logged' = logged + 1 /\ state = Open /\ Offer(logged') /\ UNCHANGED <<state, subs, shut, pc, got>>
      /\ lines' = Trimmed(Append(lines, logged'))
  BY DEF Log
<1>0. logged \in Nat /\ lines \in Seq(Nat) /\ Append(lines, logged + 1) \in Seq(Nat)
  <2>1. logged \in Nat /\ lines \in Seq(Nat)
    OBVIOUS
  <2> QED BY ONLY <2>1
<1>2. PICK s \in Seq(Nat) : s = Append(lines, logged + 1)
  BY ONLY <1>0
<1>3. /\ lines' \in Seq(Nat) /\ Len(lines') <= Len(s) /\ Len(s) = Len(lines) + 1
      /\ \A i \in 1..Len(lines') : lines'[i] = s[Len(s) - Len(lines') + i]
  <2>1. lines' = Trimmed(s) /\ s \in Seq(Nat) /\ lines \in Seq(Nat) /\ Len(s) = Len(lines) + 1
    BY <1>0, <1>1, <1>2
  <2> QED BY ONLY <2>1, TrimmedType
<1>4. \A i \in 1..Len(s) : s[i] = (logged + 1) - Len(s) + i
  BY <1>0, <1>2, WholeAppend DEF GapInv, Whole
<1>5. Whole(lines)'
  <2>1. \A i \in 1..Len(lines') : Len(s) - Len(lines') + i \in 1..Len(s)
    BY <1>3
  <2>2. \A i \in 1..Len(lines') : lines'[i] = (logged + 1) - Len(s) + (Len(s) - Len(lines') + i)
    BY <1>3, <1>4, <2>1
  <2>3. \A i \in 1..Len(lines') : lines'[i] = (logged + 1) - Len(lines') + i
    BY <1>3, <2>2
  <2> QED BY <1>1, <2>3 DEF Whole
<1>6. ASSUME NEW r \in Readers PROVE Phases(r)'
  BY <1>1 DEF GapInv, Phases
<1>7. ASSUME NEW r \in Readers PROVE Gapless(r)'
  <2> SUFFICES ASSUME r \notin missed', r \in subs PROVE WholeSoFar(r)'
    BY <1>1 DEF GapInv, Phases, Gapless
  <2>1. r \notin missed /\ ~Full(r)
    BY <1>1 DEF Offer
  <2>2. Whole(Seen(r))
    BY <2>1 DEF GapInv, Gapless, WholeSoFar
  <2>3. Seen(r)' = Append(Seen(r), logged + 1)
    <3>1. buf'[r] = Append(buf[r], logged + 1)
      BY <1>1, <2>1 DEF Offer
    <3> QED BY <1>1, <3>1, AppendAside DEF Seen
  <2>4. PICK t \in Seq(Nat) : t = Seen(r)
    OBVIOUS
  <2>5. Len(Append(t, logged + 1)) >= Len(lines')
    BY <1>3, <2>2, <2>4 DEF Whole
  <2>6. \A i \in 1..Len(Append(t, logged + 1)) :
          Append(t, logged + 1)[i] = (logged + 1) - Len(Append(t, logged + 1)) + i
    BY <1>0, <2>2, <2>4, WholeAppend DEF Whole
  <2> QED BY <1>1, <2>3, <2>4, <2>5, <2>6 DEF Whole, WholeSoFar
<1> QED BY <1>5, <1>6, <1>7 DEF GapInv

LEMMA FinishGap == TypeOK /\ GapInv /\ Finish => GapInv'
<1> SUFFICES ASSUME TypeOK, GapInv, Finish PROVE GapInv'
  OBVIOUS
<1> USE HubTypes
<1>1. /\ state = Open /\ state' # Open /\ Offer(Final) /\ UNCHANGED <<logged, lines, pc, got>>
      /\ subs' = {} /\ shut' = shut \cup subs
  BY DEF Finish, Closed, Open
<1>2. \A s : Whole(s)' = Whole(s)
  BY <1>1 DEF Whole
<1>3. ASSUME NEW r \in Readers PROVE Phases(r)'
  BY <1>1 DEF GapInv, Phases
<1>4. ASSUME NEW r \in Readers PROVE Gapless(r)'
  <2>1. CASE r \notin subs
    BY <1>1, <2>1 DEF GapInv, Phases, Gapless
  <2>2. CASE r \in subs /\ r \notin missed'
    <3>1. r \notin missed /\ ~Full(r) /\ pc[r] = "open"
      BY <1>1, <2>2 DEF Offer, GapInv, Phases
    <3>2. Whole(Seen(r)) /\ Seen(r) \in Seq(Nat)
      BY <2>2, <3>1 DEF GapInv, Gapless, WholeSoFar
    <3>3. Seen(r)' = Append(Seen(r), Final)
      <4>1. buf'[r] = Append(buf[r], Final)
        BY <1>1, <2>2, <3>1 DEF Offer
      <4> QED BY <1>1, <4>1, AppendAside DEF Seen, Final
    <3>4. WholeToEnd(r)'
      <4>1. PICK t \in Seq(Nat) : t = Seen(r)
        BY <3>2
      <4> QED BY <1>2, <3>2, <3>3, <4>1 DEF WholeToEnd
    <3> QED BY <1>1, <3>1, <3>4 DEF Gapless
  <2> QED BY <2>1, <2>2 DEF Gapless
<1>5. Whole(lines)'
  BY <1>1 DEF GapInv, Whole
<1> QED BY <1>3, <1>4, <1>5 DEF GapInv

LEMMA SubscribeGap ==
    ASSUME TypeOK, GapInv, NEW r \in Readers, Subscribe(r)
    PROVE  GapInv'
<1> USE HubTypes
<1>1. /\ UNCHANGED <<logged, lines, state, shut, got>> /\ pc[r] = "new" /\ got[r] = <<>>
      /\ buf' = [buf EXCEPT ![r] = Backfilled]
      /\ missed' = IF Len(lines) > Cap THEN missed \cup {r} ELSE missed
      /\ \A q \in Readers \ {r} : pc'[q] = pc[q] /\ (q \in subs' <=> q \in subs)
      /\ \/ pc'[r] = "open" /\ r \in subs' /\ state = Open
         \/ pc'[r] = "sending" /\ subs' = subs /\ state # Open
  BY DEF Subscribe, GapInv, Phases
<1>2. \A s : Whole(s)' = Whole(s)
  BY <1>1 DEF Whole
<1>3. r \notin subs /\ r \notin shut
  BY <1>1 DEF GapInv, Phases
<1>4. ASSUME NEW q \in Readers PROVE Phases(q)'
  BY <1>1, <1>3 DEF GapInv, Phases
<1>5. ASSUME NEW q \in Readers, q # r PROVE Gapless(q)'
  <2>1. Seen(q)' = Seen(q) /\ pc'[q] = pc[q] /\ (q \in subs' <=> q \in subs) /\ (q \in missed' <=> q \in missed)
    BY <1>1, <1>5 DEF Seen
  <2> QED BY <1>1, <1>2, <2>1 DEF GapInv, Gapless, WholeSoFar, WholeToEnd
<1>6. Gapless(r)'
  <2> SUFFICES ASSUME Len(lines) <= Cap PROVE WholeSoFar(r)'
    BY <1>1, <1>3, HubAssumption DEF Gapless
  <2>1. Backfilled = lines
    BY HubAssumption DEF Backfilled, Fitting
  <2>2. Seen(r)' = lines
    BY <1>1, <2>1 DEF Seen
  <2> QED BY <1>1, <2>2 DEF GapInv, Whole, WholeSoFar
<1>7. Whole(lines)'
  BY <1>1 DEF GapInv, Whole
<1> QED BY <1>4, <1>5, <1>6, <1>7 DEF GapInv

LEMMA ReaderGap ==
    ASSUME TypeOK, GapInv, NEW r \in Readers, Reader(r) \/ Leave(r)
    PROVE  GapInv'
<1> USE HubTypes
<1>1. UNCHANGED <<logged, lines, state, missed>> /\ Whole(lines)'
  BY DEF Reader, SendState, Receive, EndOfStream, Leave, GapInv, Whole
<1>2. \A s : Whole(s)' = Whole(s)
  BY <1>1 DEF Whole
<1>3. CASE SendState(r)
  <2>1. /\ pc[r] = "sending" /\ pc'[r] = "open" /\ shut' = shut \cup {r} /\ UNCHANGED <<subs, got>>
        /\ \A q \in Readers \ {r} : Seen(q)' = Seen(q) /\ pc'[q] = pc[q]
        /\ buf'[r] = Append(buf[r], Final)
    BY <1>3 DEF SendState, Seen
  <2>2. r \notin subs /\ state # Open /\ r \notin shut
    BY <2>1 DEF GapInv, Phases
  <2>3. \A q \in Readers : Phases(q)'
    BY <1>1, <2>1, <2>2 DEF GapInv, Phases
  <2>4. \A q \in Readers \ {r} : Gapless(q)'
    BY <1>1, <1>2, <2>1 DEF GapInv, Gapless, WholeSoFar, WholeToEnd
  <2>5. Gapless(r)'
    <3> SUFFICES ASSUME r \notin missed PROVE WholeToEnd(r)'
      BY <1>1, <2>1, <2>2 DEF Gapless
    <3>1. Whole(Seen(r)) /\ Seen(r) \in Seq(Nat)
      BY <2>1 DEF GapInv, Gapless, WholeSoFar
    <3>2. Seen(r)' = Append(Seen(r), Final)
      BY <2>1, AppendAside DEF Seen, Final
    <3>3. PICK t \in Seq(Nat) : t = Seen(r)
      BY <3>1
    <3> QED BY <1>2, <3>1, <3>2, <3>3 DEF WholeToEnd
  <2> QED BY <1>1, <2>3, <2>4, <2>5 DEF GapInv
<1>4. CASE Receive(r)
  <2>1. Seen(r)' = Seen(r)
    BY <1>4, MovedOver DEF Receive, Seen
  <2>2. /\ \A q \in Readers \ {r} : Seen(q)' = Seen(q) /\ got'[q] = got[q]
        /\ UNCHANGED <<subs, pc, shut>> /\ pc[r] = "open"
    BY <1>4 DEF Receive, Seen
  <2>3. \A q \in Readers : Phases(q)'
    BY <1>1, <2>2 DEF GapInv, Phases
  <2>4. \A q \in Readers : Gapless(q)'
    BY <1>1, <1>2, <2>1, <2>2 DEF GapInv, Gapless, WholeSoFar, WholeToEnd
  <2> QED BY <1>1, <2>3, <2>4 DEF GapInv
<1>5. CASE EndOfStream(r) \/ Leave(r)
  <2>1. /\ \A q \in Readers : Seen(q)' = Seen(q)
        /\ \A q \in Readers \ {r} : pc'[q] = pc[q] /\ (q \in subs' <=> q \in subs) /\ (q \in shut' <=> q \in shut)
        /\ UNCHANGED got /\ pc[r] = "open"
        /\ \/ pc'[r] = "ended" /\ r \in shut /\ UNCHANGED <<shut, subs>>
           \/ pc'[r] = "left" /\ r \notin subs'
    BY <1>5 DEF EndOfStream, Leave, Seen
  <2>2. \A q \in Readers : Phases(q)'
    BY <1>1, <2>1 DEF GapInv, Phases
  <2>3. \A q \in Readers : Gapless(q)'
    <3>1. \A q \in Readers \ {r} : Gapless(q)'
      BY <1>1, <1>2, <2>1 DEF GapInv, Gapless, WholeSoFar, WholeToEnd
    <3>2. Gapless(r)'
      BY <1>1, <1>2, <2>1 DEF GapInv, Phases, Gapless, WholeSoFar, WholeToEnd
    <3> QED BY <3>1, <3>2
  <2> QED BY <1>1, <2>2, <2>3 DEF GapInv
<1> QED BY <1>3, <1>4, <1>5 DEF Reader

\* What GapInv says of a reader is what NoGap says of it.
LEMMA GapInvMeans ==
    ASSUME TypeOK, OrderInv, GapInv, NEW r \in Readers \ missed, pc[r] \in {"open", "ended"}
    PROVE  LET s == Lines(Seen(r))
           IN  /\ \A i \in 1..Len(s) : s[i] = logged - Len(s) + i
               /\ Len(s) >= Len(lines)
               /\ r \in shut => Seen(r)[Len(Seen(r))] = Final
<1>1. CASE r \in shut
  <2>1. PICK t \in Seq(Nat) : Seen(r) = Append(t, Final) /\ Whole(t)
    BY <1>1 DEF GapInv, Gapless, WholeToEnd
  <2>2. Lines(Seen(r)) = t /\ Seen(r)[Len(Seen(r))] = Final
    <3>1. /\ Append(t, Final) # <<>> /\ Len(Append(t, Final)) = Len(t) + 1
          /\ Append(t, Final)[Len(t) + 1] = Final /\ First(Append(t, Final), Len(t)) = t
      BY DEF First, Final
    <3>2. (Len(t) + 1) - 1 = Len(t)
      OBVIOUS
    <3> QED BY <2>1, <3>1, <3>2 DEF Lines
  <2> QED BY <2>1, <2>2 DEF Whole
<1>2. CASE r \notin shut
  <2>1. r \in subs /\ Whole(Seen(r)) /\ Numbers(Seen(r), logged) /\ Seen(r) \in Seq(Nat)
    BY <1>2, HubTypes DEF GapInv, Phases, Gapless, WholeSoFar, OrderInv
  <2>2. PICK t \in Seq(Nat) : t = Seen(r)
    BY <2>1
  <2>3. t # <<>> => t[Len(t)] # Final
    <3>1. t # <<>> => Len(t) \in 1..Len(t)
      BY ONLY <2>2
    <3>2. logged \in Nat
      BY HubTypes
    <3> QED BY <2>1, <2>2, <3>1, <3>2 DEF Numbers, Final
  <2>4. Lines(Seen(r)) = Seen(r)
    BY <2>2, <2>3 DEF Lines
  <2> QED BY <1>2, <2>1, <2>4 DEF Whole
<1> QED BY <1>1, <1>2

(* A reader whose channel had room for every event has the newest lines     *)
(* without a hole, from the tail on, and the terminal event: nothing falls  *)
(* between the replay and the registration, for any channel and tail        *)
(* (Subscribe, Log, Finish).                                                *)
THEOREM NothingFallsBetween == Spec => []NoGap
<1>1. Init => TypeOK /\ OrderInv /\ GapInv
  <2> SUFFICES ASSUME Init PROVE TypeOK /\ OrderInv /\ GapInv
    OBVIOUS
  <2>1. TypeOK /\ OrderInv
    BY OrderInit
  <2>2. lines = <<>> /\ Len(lines) = 0 /\ subs = {} /\ shut = {} /\ \A r \in Readers : got[r] = <<>> /\ pc[r] = "new"
    BY DEF Init
  <2> QED BY <2>1, <2>2 DEF GapInv, Whole, Phases, Gapless
<1>2. TypeOK /\ GapInv /\ [Next]_vars => GapInv'
  <2> SUFFICES ASSUME TypeOK, GapInv, [Next]_vars PROVE GapInv'
    OBVIOUS
  <2>1. CASE UNCHANGED vars
    BY <2>1 DEF vars, GapInv, Whole, Phases, Gapless, WholeSoFar, WholeToEnd, Seen
  <2>2. CASE Next
    BY <2>2, LogGap, FinishGap, SubscribeGap, ReaderGap DEF Next
  <2> QED BY <2>1, <2>2
<1>3. TypeOK /\ OrderInv /\ GapInv => NoGap
  BY GapInvMeans DEF NoGap
<1> QED BY <1>1, <1>2, <1>3, TypeStep, OrderStep, PTL DEF Spec
=============================================================================
