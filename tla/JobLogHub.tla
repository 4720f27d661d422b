------------------------------ MODULE JobLogHub ------------------------------
(***************************************************************************)
(* The live log of one CI job (internal/ci/runbus.go) between the job's    *)
(* goroutine, which logs lines and finally closes the log, and the         *)
(* RunJobLog streams (connworkflow.go) that follow it.  The job log's      *)
(* mutex is held for one action, except by a Subscribe that waits to send  *)
(* on a full channel.                                                      *)
(***************************************************************************)
EXTENDS Integers, Sequences, FiniteSets

CONSTANTS
    Readers,   \* RunJobLog calls
    Cap,       \* capacity of a subscriber's channel (256)
    TailMax,   \* jobLogTail (500)
    MaxLines   \* bound: lines the job logs

ASSUME HubAssumption ==
    /\ Cap \in Nat \ {0} /\ TailMax \in Nat \ {0} /\ MaxLines \in Nat

VARIABLES
    logged,   \* number of lines logged so far; line n is the n-th one
    lines,    \* the bounded tail
    state,    \* the job's terminal state, or Open
    subs,     \* registered subscribers
    buf,      \* the content of each subscriber's channel
    shut,     \* channels that have been closed
    pc,       \* each reader: before, within and after its stream
    got,      \* the events each reader has received
    missed,   \* readers whose channel was full when an event was due
    lock      \* the reader that holds the mutex across actions, or Nobody

vars == <<logged, lines, state, subs, buf, shut, pc, got, missed, lock>>

Nobody == "nobody"
Open   == ""
Final  == 0                     \* the terminal state event; lines are 1, 2, ...
Events == Final..MaxLines

TypeOK ==
    /\ logged \in 0..MaxLines
    /\ lines \in Seq(1..MaxLines) /\ Len(lines) <= TailMax
    /\ state \in {Open, "closed"}
    /\ subs \subseteq Readers
    /\ buf \in [Readers -> Seq(Events)]
    /\ \A r \in Readers : Len(buf[r]) <= Cap
    /\ shut \subseteq Readers
    /\ pc \in [Readers -> {"new", "sending", "open", "ended", "left"}]
    /\ got \in [Readers -> Seq(Events)]
    /\ missed \subseteq Readers
    /\ lock \in Readers \cup {Nobody}

Init ==
    /\ logged = 0
    /\ lines = <<>>
    /\ state = Open
    /\ subs = {}
    /\ buf = [r \in Readers |-> <<>>]
    /\ shut = {}
    /\ pc = [r \in Readers |-> "new"]
    /\ got = [r \in Readers |-> <<>>]
    /\ missed = {}
    /\ lock = Nobody

Unlocked == lock = Nobody
Full(r)  == Len(buf[r]) >= Cap
Last(s, n) == SubSeq(s, Len(s) - n + 1, Len(s))
First(s, n) == SubSeq(s, 1, n)

-----------------------------------------------------------------------------
(* The job's goroutine.                                                     *)

OfferBlocking(e) ==
    /\ \A r \in subs : ~Full(r)
    /\ buf' = [r \in Readers |-> IF r \in subs THEN Append(buf[r], e) ELSE buf[r]]
    /\ UNCHANGED missed

\* A send that would block is dropped ("default").
Offer(e) ==
    /\ buf' = [r \in Readers |-> IF r \in subs /\ ~Full(r) THEN Append(buf[r], e) ELSE buf[r]]
    /\ missed' = missed \cup {r \in subs : Full(r)}

TailUntrimmed(s) == s
Trimmed(s)       == IF Len(s) > TailMax THEN Last(s, TailMax) ELSE s

Log ==
    /\ Unlocked /\ state = Open
    /\ logged < MaxLines
    /\ logged' = logged + 1
    /\ lines' = Trimmed(Append(lines, logged'))
    /\ Offer(logged')
    /\ UNCHANGED <<state, subs, shut, pc, got, lock>>

KeptOpen == shut
Closed   == shut \cup subs

\* runAsync closes the log once, when the job's run is over.
Finish ==
    /\ Unlocked /\ state = Open
    /\ state' = "closed"
    /\ Offer(Final)
    /\ shut' = Closed
    /\ subs' = {}
    /\ UNCHANGED <<logged, lines, pc, got, lock>>

-----------------------------------------------------------------------------
(* A reader: Subscribe, the loop over its channel, the deferred cancel.     *)

\* The tail goes into the fresh channel as far as it fits.  Unlocking happens
\* at once if the job is still running.
Fitting(s)      == IF Len(s) > Cap THEN First(s, Cap) ELSE s
BackfillNothing == <<>>
StateFirst      == IF state = Open THEN Fitting(lines) ELSE Fitting(<<Final>> \o lines)
Backfilled      == Fitting(lines)

Subscribe(r) ==
    /\ pc[r] = "new" /\ Unlocked
    /\ buf' = [buf EXCEPT ![r] = Backfilled]
    /\ missed' = IF Len(lines) > Cap THEN missed \cup {r} ELSE missed
    /\ \/ /\ state = Open
          /\ subs' = subs \cup {r}
          /\ pc' = [pc EXCEPT ![r] = "open"]
          /\ UNCHANGED lock
       \/ /\ state # Open
          /\ pc' = [pc EXCEPT ![r] = "sending"]
          /\ lock' = r
          /\ UNCHANGED subs
    /\ UNCHANGED <<logged, lines, state, shut, got>>

\* The terminal event of a finished job is sent with a plain send, which
\* waits for room, under the mutex.
SendState(r) ==
    /\ pc[r] = "sending" /\ ~Full(r)
    /\ buf' = [buf EXCEPT ![r] = Append(@, Final)]
    /\ shut' = shut \cup {r}
    /\ pc' = [pc EXCEPT ![r] = "open"]
    /\ lock' = Nobody
    /\ UNCHANGED <<logged, lines, state, subs, got, missed>>

Receive(r) ==
    /\ pc[r] = "open" /\ buf[r] # <<>>
    /\ got' = [got EXCEPT ![r] = Append(@, Head(buf[r]))]
    /\ buf' = [buf EXCEPT ![r] = Tail(@)]
    /\ UNCHANGED <<logged, lines, state, subs, shut, pc, missed, lock>>

\* The channel is drained and closed: the loop ends, cancel finds the
\* subscription gone.
EndOfStream(r) ==
    /\ pc[r] = "open" /\ buf[r] = <<>> /\ r \in shut
    /\ Unlocked
    /\ pc' = [pc EXCEPT ![r] = "ended"]
    /\ UNCHANGED <<logged, lines, state, subs, buf, shut, got, missed, lock>>

\* The client has gone (stream.Send fails): cancel unsubscribes.
Leave(r) ==
    /\ pc[r] = "open" /\ Unlocked
    /\ pc' = [pc EXCEPT ![r] = "left"]
    /\ subs' = subs \ {r}
    /\ shut' = shut \cup {r}
    /\ UNCHANGED <<logged, lines, state, buf, got, missed, lock>>

Reader(r) == SendState(r) \/ Receive(r) \/ EndOfStream(r)

Next == \/ Log \/ Finish
        \/ \E r \in Readers : Subscribe(r) \/ Reader(r) \/ Leave(r)
Spec == Init /\ [][Next]_vars

\* The job's run comes to its end and closes the log.
FairSpec == Spec /\ WF_vars(Finish)

\* A stream that has been opened is read as long as its client stays.
\* Nobody has to subscribe.
Reads == \A r \in Readers : WF_vars(Reader(r))
ReadingSpec == FairSpec /\ Reads

-----------------------------------------------------------------------------
Seen(r)   == got[r] \o buf[r]
Lines(s)  == IF s # <<>> /\ s[Len(s)] = Final THEN First(s, Len(s) - 1) ELSE s

(* A reader sees lines in the order they were logged, none twice, across    *)
(* the boundary between the backfilled tail and the live lines and however  *)
(* many are dropped, and nothing after the terminal event (Log, Finish and  *)
(* Subscribe of runbus.go).                                                 *)
Ordered(s) == \A i, k \in 1..Len(s) :
                 i < k => s[i] # Final /\ (s[k] = Final \/ s[i] < s[k])
InOrder == \A r \in Readers : Ordered(Seen(r))

(* "It replays the buffered tail, then streams live lines until the job's   *)
(* terminal state event" (connworkflow.go:195): a reader whose channel was  *)
(* never full has the newest lines without a hole, at least as many of them *)
(* as the tail holds, and the terminal event once its channel is closed:    *)
(* nothing falls between the replay and the registration (Subscribe).       *)
NoGap ==
    \A r \in Readers \ missed : pc[r] \in {"open", "ended"} =>
      LET s == Lines(Seen(r))
      IN  /\ \A i \in 1..Len(s) : s[i] = logged - Len(s) + i
          /\ Len(s) >= Len(lines)
          /\ r \in shut => Seen(r)[Len(Seen(r))] = Final

(* Whatever the readers do, read slowly, not at all or never leave, the     *)
(* job's goroutine gets through: neither Log nor Finish waits for them.     *)
JobNeverWaits == <>(state # Open)

(* The channel of a stream opened while the job runs is closed and, if its  *)
(* client reads, read to its end, also when it was full at the last event   *)
(* (Finish closes every subscriber).                                        *)
LiveStreamsDrain ==
    Reads => \A r \in Readers :
               r \in subs ~> pc[r] = "left" \/ (r \in shut /\ buf[r] = <<>>)

(* "A subscriber is backfilled with the tail first, then receives live      *)
(* lines until the job's terminal state event" (runbus.go:6-8): every       *)
(* RunJobLog call returns, also one for a job that is already finished.     *)
StreamsEnd ==
    \A r \in Readers : pc[r] \in {"sending", "open"} ~> pc[r] \in {"ended", "left"}
=============================================================================
