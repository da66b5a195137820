------------------------------ MODULE BlockCache ------------------------------
(* What a blocking, direct-mapped cache promises: at most one block of each  *)
(* set is present and at most one is being fetched; a block becomes present  *)
(* only by a fetch that ran to its end; a fetch ends, by its arrival or by   *)
(* being abandoned.  The data cache of DataCache.tla implements it.          *)
EXTENDS Naturals

CONSTANTS
    Blocks,         \* block numbers
    SetOf(_)        \* the set a block belongs to

VARIABLES
    present,        \* blocks that hit
    fetching        \* blocks on their way from memory

vars == <<present, fetching>>

SameSet(b) == {c \in Blocks : SetOf(c) = SetOf(b)}

Init == present = {} /\ fetching = {}

\* A miss starts a fetch unless one for the same set is under way.
Fetch(b) ==
    /\ b \notin present
    /\ SameSet(b) \cap fetching = {}
    /\ fetching' = fetching \cup {b}
    /\ UNCHANGED present

\* The block replaces the one its set held.
Arrive(b) ==
    /\ b \in fetching
    /\ fetching' = fetching \ {b}
    /\ present' = (present \ SameSet(b)) \cup {b}

\* Fetches of instructions that will not be needed end together.
Abandon(B) ==
    /\ B \subseteq fetching
    /\ fetching' = fetching \ B
    /\ UNCHANGED present

Next ==
    \/ \E b \in Blocks : Fetch(b) \/ Arrive(b)
    \/ \E B \in SUBSET fetching : Abandon(B)

Ends(b) == Arrive(b) \/ \E B \in SUBSET fetching : b \in B /\ Abandon(B)

Spec == Init /\ [][Next]_vars /\ \A b \in Blocks : WF_vars(Ends(b))
=============================================================================
