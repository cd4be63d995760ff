------------------------------- MODULE GxTracked -------------------------------
(***************************************************************************)
(* GxBuffers and GxTable together: the entries of GxBuffers are kept in    *)
(* the table of gx_buffers.cpp, under the lock both threads take for it.   *)
(* Entering a buffer is one step; erasing one goes round the loop of Erase *)
(* while the other thread does what needs no table, and ends with the      *)
(* entry of GxBuffers.                                                     *)
(***************************************************************************)
EXTENDS GxBuffers

CONSTANT TableSize  \* kTableSize

\* The table has room for every buffer alive: Erase looks for an empty slot.
ASSUME TrackedAssumption == /\ IsFiniteSet(Addresses)
                            /\ TableSize \in Nat /\ TableSize > Cardinality(Addresses)

VARIABLES hash, slots, tpc, key, hole, probe    \* GxTable's

T == INSTANCE GxTable WITH Keys <- Addresses, Empty <- None, table <- slots, pc <- tpc,
                           i <- hole, j <- probe

tableVars == <<hash, slots, tpc, key, hole, probe>>
trackedVars == <<vars, tableVars>>

TrackedInit == Init /\ T!Init

\* g_tblLock is free.
TblUnlocked == tpc = "idle"

\* Track: Insert, unless the buffer is none of those tracked.
TrackInsert == /\ Track
               /\ IF table' = table THEN UNCHANGED tableVars ELSE T!Insert(mbuf)

\* T_BufRelease finds the entry of the buffer gone and starts to erase it, or has
\* none to erase.
EraseFind(a, GiveUp) ==
    /\ TblUnlocked
    /\ \/ T!Found(a) /\ T!EraseBegin(a) /\ UNCHANGED vars
       \/ ~T!Found(a) /\ GiveUp /\ UNCHANGED tableVars

\* The loop of Erase; the last turn is the end of the erasing thread's step.
EraseLoop ==
    /\ T!EraseStep
    /\ IF tpc' = "idle"
       THEN \/ mpc = "erase" /\ mbuf = key /\ EraseMain
            \/ rpc = "erase" /\ rbuf = key /\ EraseRender
       ELSE UNCHANGED vars

\* What looks into the table, and what does not.
Looking == \/ \E a \in Addresses : LockBegin(a) \/ Unlock(a)
           \/ LockEnd
Apart == \/ \E a \in Addresses : Create(a) \/ Release(a)
         \/ LockReal \/ PostPiece \/ PostEnd \/ Upload \/ UploadRelease

TrackedNext == \/ TblUnlocked /\ TrackInsert
               \/ TblUnlocked /\ Looking /\ UNCHANGED tableVars
               \/ Apart /\ UNCHANGED tableVars
               \/ mpc = "erase" /\ EraseFind(mbuf, EraseMain)
               \/ rpc = "erase" /\ EraseFind(rbuf, EraseRender)
               \/ EraseLoop

TrackedSpec == /\ TrackedInit /\ [][TrackedNext]_trackedVars
               /\ WF_trackedVars(EraseLoop)

------------------------------------------------------------------------------

\* Whenever the lock is free, the table finds exactly the buffers that are tracked,
\* each in one slot: whatever was erased between them, the shift loses, duplicates
\* and leaves behind none (Find, Insert, Erase).  A buffer destroyed by either thread
\* leaves no entry to the next one at its address (T_BufRelease).
TableIsEntries ==
    /\ TblUnlocked => /\ T!Held = {a \in Addresses : table[a] # "none"}
                      /\ T!EveryKeyIsFound
    /\ \A a \in Addresses : refs[a] = 0 /\ table[a] # "none" => a = mbuf \/ a = rbuf

\* Whoever holds the lock in Erase lets it go (TblLock spins for it).
EraseEnds == ~TblUnlocked ~> TblUnlocked
=============================================================================
