----------------------------- MODULE MirrorSync -----------------------------
(***************************************************************************)
(* What the Mirror Agent promises for a source, without batches, packs,    *)
(* sessions or handlers: epochs are applied one at a time, each from its   *)
(* base cursor to its frozen target, each once; the mirror only gains      *)
(* entries; a publish unit is released when the mirror holds all of it;    *)
(* the cursor advances when every entry of the epoch is held and every     *)
(* unit released.                                                          *)
(***************************************************************************)
CONSTANTS
    Epochs, Entries, Units,
    UnitOf,        \* [Entries -> Units]
    UnitEpoch,     \* [Units -> Epochs]
    Base, Target,  \* [Epochs -> cursors]
    InitialCursor,
    None

VARIABLES
    cursor,    \* the cursor the source has published
    open,      \* the epoch being applied, or None
    held,      \* the entries the mirror holds
    released,  \* the units clients of the mirror may see
    done       \* the epochs applied

vars == <<cursor, open, held, released, done>>

EntriesOfUnit(u) == {x \in Entries : UnitOf[x] = u}
EntriesOfEpoch(e) == {x \in Entries : UnitEpoch[UnitOf[x]] = e}
UnitsOfEpoch(e) == {u \in Units : UnitEpoch[u] = e}

Init ==
    /\ cursor = InitialCursor
    /\ open = None
    /\ held = {}
    /\ released = {}
    /\ done = {}

Open(e) ==
    /\ open = None
    /\ cursor = Base[e]
    /\ e \notin done
    /\ open' = e
    /\ UNCHANGED <<cursor, held, released, done>>

Hold(x) ==
    /\ open = UnitEpoch[UnitOf[x]]
    /\ held' = held \cup {x}
    /\ UNCHANGED <<cursor, open, released, done>>

Release(u) ==
    /\ open = UnitEpoch[u]
    /\ EntriesOfUnit(u) \subseteq held
    /\ released' = released \cup {u}
    /\ UNCHANGED <<cursor, open, held, done>>

Advance(e) ==
    /\ open = e
    /\ EntriesOfEpoch(e) \subseteq held
    /\ UnitsOfEpoch(e) \subseteq released
    /\ cursor' = Target[e]
    /\ open' = None
    /\ done' = done \cup {e}
    /\ UNCHANGED <<held, released>>

Next ==
    \/ \E e \in Epochs : Open(e) \/ Advance(e)
    \/ \E x \in Entries : Hold(x)
    \/ \E u \in Units : Release(u)

Spec == Init /\ [][Next]_vars
=============================================================================
