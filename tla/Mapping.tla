------------------------------ MODULE Mapping -------------------------------
(***************************************************************************)
(* What the handler of the lifecycle events promises of the mapping        *)
(* (internal/ext/repo/events_sub.go, "redeliveries converge"), without     *)
(* calls, tables and deliveries: the mapping follows the sessions, one     *)
(* change at a time, each once and in the order in which they were made.   *)
(***************************************************************************)
EXTENDS Sequences

CONSTANT Names   \* sessions, by tenant

VARIABLES
    live,     \* the sessions there are
    mapped,   \* the sessions the mapping knows
    todo      \* the changes the mapping has still to follow

mappingVars == <<live, mapped, todo>>

After(names, change) == (names \ change.gone) \cup change.come

Init == live = {} /\ mapped = {} /\ todo = <<>>

\* A session comes (created or forked), goes, or changes its name.
Change(gone, come) ==
    /\ gone \subseteq live /\ come \cap live = {}
    /\ live' = After(live, [gone |-> gone, come |-> come])
    /\ todo' = Append(todo, [gone |-> gone, come |-> come])
    /\ UNCHANGED mapped
Comes(x)      == Change({}, {x})
Goes(x)       == Change({x}, {})
Renames(x, y) == Change({x}, {y})

Follow ==
    /\ todo # <<>>
    /\ mapped' = After(mapped, Head(todo))
    /\ todo' = Tail(todo)
    /\ UNCHANGED live

Next == Follow \/ \E x \in Names : Comes(x) \/ Goes(x) \/ \E y \in Names : Renames(x, y)

Spec == Init /\ [][Next]_mappingVars
=============================================================================
