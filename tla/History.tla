------------------------------- MODULE History -------------------------------
(***************************************************************************)
(* What readers of a repository get of its history: the graph of the       *)
(* revisions, and the delta a clone fetches (cmd/easylab connlab.go Graph, *)
(* main.go handleFetch).  A revision is owned by the snapshot that is its  *)
(* youngest; a snapshot that an amend or a rebase replaced has no owner.   *)
(***************************************************************************)
EXTENDS Lab, Functions

VARIABLE client     \* the snapshots a clone holds

histVars == <<labVars, client>>

\* byID and snapOwner: the owned parents of a revision.
Owned      == {RevHash(i) : i \in RevIDs}
Owner(h)   == snaps[h].rev
Parents(h) == Range(snaps[h].parents) \cap Owned

-----------------------------------------------------------------------------
\* changeSetWithAncestors: the walk stops at what the client has.
Reached(have) ==
    LET walk[h \in 1..Len(snaps)] ==
          IF Owner(h) \in have THEN {}
          ELSE {Owner(h)} \cup UNION {walk[p] : p \in Parents(h)}
    IN  walk
WithoutAncestors(wants, have) == wants \ have
WithAncestors(wants, have) == UNION {Reached(have)[RevHash(i)] : i \in wants}

\* transfer.Collect (external): what the client lacks, by revision.
Lacking(have) == RevIDs \ have

\* filterBundle drops nothing when nothing is wanted any more.
Bundle(wants, have) ==
    LET wanted == WithAncestors(wants, have)
    IN  IF wanted = {} THEN Lacking(have) ELSE Lacking(have) \cap wanted

\* handleFetch by a client that has every revision it was sent.
Fetch(c) ==
    /\ Does(c, "fetch")
    /\ \E wants \in SUBSET RevIDs :
         client' = client \cup {RevHash(i) : i \in Bundle(wants, {Owner(h) : h \in client})}
    /\ UNCHANGED <<snaps, refs, mr, fails, kept>>
    /\ Ends(c)
    /\ UnchangedOthers

HistInit == Init /\ client = {}
HistNext == (Next /\ UNCHANGED client) \/ \E c \in Calls : Fetch(c)
HistSpec == HistInit /\ [][HistNext]_histVars

-----------------------------------------------------------------------------
\* Graph: visit appends the owner of snapshot h to what is listed, after its
\* parents in their order; a revision is visited once.  (The listed ones are
\* the visited ones: no walk comes back to a revision whose parents it is at.)
Thru(visit, parents, order) ==
    LET thru[k \in 0..Len(parents)] ==
          IF k = 0 THEN order
          ELSE IF parents[k] \in Owned THEN visit[parents[k]][thru[k - 1]] ELSE thru[k - 1]
    IN  thru[Len(parents)]
VisitAlways ==
    LET visit[h \in 1..Len(snaps)] == [order \in Seq(RevIDs) |->
          Append(Thru(visit, snaps[h].parents, order), Owner(h))]
    IN  visit
Visit ==
    LET visit[h \in 1..Len(snaps)] == [order \in Seq(RevIDs) |->
          IF Owner(h) \in Range(order) THEN order
          ELSE Append(Thru(visit, snaps[h].parents, order), Owner(h))]
    IN  visit
\* The newest revision starts.
Listed ==
    LET from[i \in 1..Next1] ==
          IF i = Next1 THEN <<>>
          ELSE IF i \in RevIDs THEN Visit[RevHash(i)][from[i + 1]] ELSE from[i + 1]
    IN  from
Order == Listed[1]
Heads == RevIDs \ {Owner(p) : p \in UNION {Parents(h) : h \in Owned}}

-----------------------------------------------------------------------------
\* However the revisions were amended and rebased, the graph lists each one
\* once and after its parents, so that no limit cuts a parent and keeps its
\* child, and every revision is a head's ancestor.
\* (connlab.go Graph: "parents before children")
GraphSound ==
    LET order == Order
        At(h) == CHOOSE n \in 1..Len(order) : order[n] = Owner(h)
    IN  /\ Len(order) = Cardinality(RevIDs) /\ Range(order) = RevIDs
        /\ \A h \in Owned : \A p \in Parents(h) : At(p) < At(h)
        /\ UNION {Reached({})[RevHash(i)] : i \in Heads} = RevIDs

\* A clone of a repository that has amended and rebased nothing holds the
\* parent of every snapshot it holds, whatever it asked for and had before.
\* (handleFetch, changeSetWithAncestors)
FetchClosed ==
    Cardinality(RevIDs) = Len(snaps) => \A h \in client : Range(snaps[h].parents) \subseteq client

\* handleFetch filters "to those changes and their ancestors": a clone holds
\* the parent of every snapshot it holds.
CloneHasAncestors == \A h \in client : Range(snaps[h].parents) \subseteq client
=============================================================================
