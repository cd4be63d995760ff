------------------------------- MODULE GxTable -------------------------------
(***************************************************************************)
(* The buffer table of gx_buffers.cpp: open addressing with linear probing *)
(* and backward-shift deletion, so that no tombstones pile up.  Only the   *)
(* keys matter here.  The table lock is held for a whole operation, so one *)
(* operation runs at a time; Erase is a step per turn of its loop.         *)
(***************************************************************************)
EXTENDS Integers

CONSTANTS Keys,         \* buffer addresses
          Empty,        \* the key 0
          TableSize     \* kTableSize

Slots == 0 .. TableSize - 1

VARIABLES hash,     \* HashKey: any function of the address
          table,    \* the key in each slot
          pc,       \* "idle", or "erase" while the loop of Erase runs
          key,      \* the key being erased
          i, j      \* the loop's hole and probe

vars == <<hash, table, pc, key, i, j>>

TypeOK == /\ hash \in [Keys -> Slots]
          /\ table \in [Slots -> Keys \cup {Empty}]
          /\ pc \in {"idle", "erase"}
          /\ key \in Keys \cup {Empty}
          /\ i \in Slots /\ j \in Slots

Init == /\ hash \in [Keys -> Slots]
        /\ table = [s \in Slots |-> Empty]
        /\ pc = "idle" /\ key = Empty /\ i = 0 /\ j = 0

\* The n-th slot a probe for key k looks at, and the first at which it stops:
\* the key itself or an empty slot.
Probe(k, n) == (hash[k] + n) % TableSize
Stops(k, n) == /\ table[Probe(k, n)] \in {k, Empty}
               /\ \A m \in 0 .. n - 1 : table[Probe(k, m)] \notin {k, Empty}

\* Find: some probe stops at the key.
Found(k) == \E n \in Slots : Stops(k, n) /\ table[Probe(k, n)] = k

\* Insert: into the slot the probe stops at; a full table leaves the buffer
\* untracked.
Insert(k) == /\ pc = "idle"
             /\ \/ \E n \in Slots : Stops(k, n) /\ table' = [table EXCEPT ![Probe(k, n)] = k]
                \/ ~(\E n \in Slots : Stops(k, n)) /\ UNCHANGED table
             /\ UNCHANGED <<hash, pc, key, i, j>>

\* Erase of a key the table holds: its slot is the first hole.
EraseBegin(k) == /\ pc = "idle"
                 /\ \E n \in Slots : /\ Stops(k, n) /\ table[Probe(k, n)] = k
                                     /\ i' = Probe(k, n) /\ j' = i'
                 /\ pc' = "erase" /\ key' = k
                 /\ UNCHANGED <<hash, table>>

\* Mutant: the comparison forgets that a probe can wrap past the last slot.
MovableUnwrapped(hole, probe, home) == home <= hole \/ home > probe

\* An entry may fill the hole unless its own slot lies between the hole and it.
Movable(hole, probe, home) == IF probe > hole THEN home <= hole \/ home > probe
                              ELSE home <= hole /\ home > probe

\* Mutant: the probe goes on from the hole.
NextSlotFromHole == (i + 1) % TableSize

NextSlot == (j + 1) % TableSize

\* The entry of slot s fills the hole if it may, and leaves a hole itself.
Shift(s) == IF Movable(i, s, hash[table[s]])
            THEN table' = [table EXCEPT ![i] = table[s]] /\ i' = s
            ELSE UNCHANGED <<table, i>>

EraseStep == /\ pc = "erase"
             /\ j' = NextSlot
             /\ IF table[j'] = Empty
                THEN /\ table' = [table EXCEPT ![i] = Empty]
                     /\ pc' = "idle"
                     /\ UNCHANGED i
                ELSE Shift(j') /\ UNCHANGED pc
             /\ UNCHANGED <<hash, key>>

Next == \/ \E k \in Keys : Insert(k) \/ EraseBegin(k)
        \/ EraseStep

Spec == Init /\ [][Next]_vars
FairSpec == Spec /\ WF_vars(EraseStep)

------------------------------------------------------------------------------

Held == {k \in Keys : \E s \in Slots : table[s] = k}

\* Between operations every key the table holds is found from its own slot and
\* sits in one slot only, whatever was erased before it (Find, Erase's shift).
EveryKeyIsFound ==
    pc = "idle" => /\ \A k \in Held : Found(k)
                   /\ \A r, s \in Slots : table[r] = table[s] /\ table[r] # Empty => r = s

\* Erase ends.  The loop stops at an empty slot and looks for nothing else
\* (Erase).
EraseEnds == pc = "erase" ~> pc = "idle"
=============================================================================
