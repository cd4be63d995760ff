------------------------------- MODULE GxBuffers -------------------------------
(***************************************************************************)
(* The lives of vertex and index buffers under the D3D9 render thread      *)
(* (gx_buffers.cpp): creation and tracking, emulated locks, uploads that   *)
(* hold a reference, and a last reference dropped by either thread.        *)
(*                                                                         *)
(* A buffer is its address.  The runtime may hand out the address of a     *)
(* destroyed buffer again.  The table lock makes each use of the table one *)
(* step; what a thunk does between two uses of it is open to the other     *)
(* thread.  The client is a correct one: it holds one reference to each of *)
(* its buffers and releases none it has locked.                            *)
(***************************************************************************)
EXTENDS Integers, Sequences, FiniteSets

CONSTANTS Addresses, None,
          QueueMax,         \* commands in the ring
          ReuseEarly        \* an address may come back before its entry is erased

ASSUME BuffersAssumption == /\ QueueMax \in Nat \ {0}
                            /\ ReuseEarly \in BOOLEAN
                            /\ None \notin Addresses

VARIABLES
    refs,       \* references to the buffer at each address, 0 where there is none
    owned,      \* the buffers the client holds
    open,       \* those it has locked, with how its Lock was answered
    table,      \* entries: "none", or the emulated lock: "free" or "locked"
    realLock,   \* buffers really locked
    emulated,   \* g_emulatedLocks
    queue,      \* uploads in the ring
    mpc, mbuf,  \* where the main thread is, and the buffer it is there with
    rpc, rbuf   \* the same of the render thread

vars == <<refs, owned, open, table, realLock, emulated, queue, mpc, mbuf, rpc, rbuf>>

TypeOK ==
    /\ refs \in [Addresses -> 0 .. QueueMax + 2]
    /\ owned \subseteq Addresses
    /\ open \in [Addresses -> {"no", "emulated", "real"}]
    /\ table \in [Addresses -> {"none", "free", "locked"}]
    /\ realLock \subseteq Addresses
    /\ emulated \in Int
    /\ queue \in Seq(Addresses) /\ Len(queue) <= QueueMax
    /\ mpc \in {"idle", "track", "lock", "drain", "post", "erase"}
    /\ rpc \in {"idle", "upload", "erase"}
    /\ mbuf \in Addresses \cup {None} /\ rbuf \in Addresses \cup {None}

Init ==
    /\ refs = [a \in Addresses |-> 0] /\ owned = {}
    /\ open = [a \in Addresses |-> "no"]
    /\ table = [a \in Addresses |-> "none"]
    /\ realLock = {} /\ emulated = 0 /\ queue = <<>>
    /\ mpc = "idle" /\ mbuf = None /\ rpc = "idle" /\ rbuf = None

main == <<mpc, mbuf>>
render == <<rpc, rbuf>>
Go(p, a) == mpc' = p /\ mbuf' = a
Idle == Go("idle", None)

------------------------------------------------------------------------------
(* The main thread. *)

\* T_CreateVertexBuffer: the runtime creates, Track enters it in the table.
Create(a) == /\ mpc = "idle" /\ refs[a] = 0
             /\ ReuseEarly \/ table[a] = "none"
             /\ refs' = [refs EXCEPT ![a] = 1]
             /\ owned' = owned \cup {a}
             /\ Go("track", a)
             /\ UNCHANGED <<open, table, realLock, emulated, queue, render>>

Track == /\ mpc = "track"
         /\ \/ table' = [table EXCEPT ![mbuf] = "free"]
            \/ UNCHANGED table                        \* no room: it stays untracked
         /\ Idle
         /\ UNCHANGED <<refs, owned, open, realLock, emulated, queue, render>>

\* T_BufLock, to the first look at the table: a buffer with no record, of class
\* CLS_SYNC or with the arena full is locked for real after a drain.
LockBegin(a) == /\ mpc = "idle" /\ a \in owned /\ open[a] = "no"
                /\ table[a] # "locked"
                /\ \/ Go("drain", a)
                   \/ table[a] # "none" /\ Go("lock", a)
                /\ UNCHANGED <<refs, owned, open, table, realLock, emulated, queue, render>>

\* The second look: the entry may have gone meanwhile.
LockEnd == /\ mpc = "lock"
           /\ IF table[mbuf] = "none"
              THEN Go("drain", mbuf) /\ UNCHANGED <<open, table, emulated>>
              ELSE /\ table' = [table EXCEPT ![mbuf] = "locked"]
                   /\ open' = [open EXCEPT ![mbuf] = "emulated"]
                   /\ emulated' = emulated + 1
                   /\ Idle
           /\ UNCHANGED <<refs, owned, realLock, queue, render>>

LockReal == /\ mpc = "drain" /\ queue = <<>>
            /\ open' = [open EXCEPT ![mbuf] = "real"]
            /\ realLock' = realLock \cup {mbuf}
            /\ Idle
            /\ UNCHANGED <<refs, owned, table, emulated, queue, render>>

\* Mutant: the upload holds no reference.
PostWithoutRef(a) == Len(queue) < QueueMax /\ queue' = Append(queue, a) /\ UNCHANGED refs

\* Post: the upload holds a reference to its buffer.
Post(a) == /\ Len(queue) < QueueMax
           /\ refs' = [refs EXCEPT ![a] = @ + 1]
           /\ queue' = Append(queue, a)

\* The emulated lock is closed.
Close(a) == table' = [table EXCEPT ![a] = "free"] /\ emulated' = emulated - 1

\* T_BufUnlock: the entry decides, and is free again before anything is posted.
Unlock(a) ==
    /\ mpc = "idle" /\ open[a] # "no"
    /\ open' = [open EXCEPT ![a] = "no"]
    /\ IF table[a] = "locked"
       THEN Close(a) /\ Go("post", a) /\ UNCHANGED realLock
       ELSE realLock' = realLock \ {a} /\ UNCHANGED <<table, emulated, main>>
    /\ UNCHANGED <<refs, owned, queue, render>>

\* An upload of what was written: none of a lock for reading, one of a lock in the
\* arena, as many of a shadow as it has pieces.  Each waits for room.
PostPiece == /\ mpc = "post" /\ Post(mbuf)
             /\ UNCHANGED <<owned, open, table, realLock, emulated, main, render>>

PostEnd == /\ mpc = "post" /\ Idle
           /\ UNCHANGED <<refs, owned, open, table, realLock, emulated, queue, render>>

\* Mutant: every Release erases the entry.
LastAlways(n) == TRUE

\* T_BufRelease: the entry goes only after the runtime's own Release has
\* returned n = 0.
Last(n) == n = 0

\* The client drops its reference.
Release(a) == /\ mpc = "idle" /\ a \in owned /\ open[a] = "no"
              /\ owned' = owned \ {a}
              /\ refs' = [refs EXCEPT ![a] = @ - 1]
              /\ IF Last(refs'[a]) THEN Go("erase", a) ELSE UNCHANGED main
              /\ UNCHANGED <<open, table, realLock, emulated, queue, render>>

EraseMain == /\ mpc = "erase"
             /\ table' = [table EXCEPT ![mbuf] = "none"]
             /\ Idle
             /\ UNCHANGED <<refs, owned, open, realLock, emulated, queue, render>>

------------------------------------------------------------------------------
(* The render thread. *)

\* OP_BUFFER_UPLOAD: the real Lock, the copy, the real Unlock.
Upload == /\ rpc = "idle" /\ queue # <<>>
          /\ rpc' = "upload" /\ rbuf' = Head(queue)
          /\ UNCHANGED <<refs, owned, open, table, realLock, emulated, queue, main>>

\* The reference Post took is dropped, through the same thunk.
UploadRelease == /\ rpc = "upload"
                 /\ refs' = [refs EXCEPT ![rbuf] = @ - 1]
                 /\ queue' = Tail(queue)
                 /\ IF Last(refs'[rbuf])
                    THEN rpc' = "erase" /\ UNCHANGED rbuf
                    ELSE rpc' = "idle" /\ rbuf' = None
                 /\ UNCHANGED <<owned, open, table, realLock, emulated, main>>

EraseRender == /\ rpc = "erase"
               /\ table' = [table EXCEPT ![rbuf] = "none"]
               /\ rpc' = "idle" /\ rbuf' = None
               /\ UNCHANGED <<refs, owned, open, realLock, emulated, queue, main>>

Next == \/ \E a \in Addresses : Create(a) \/ LockBegin(a) \/ Unlock(a) \/ Release(a)
        \/ Track \/ LockEnd \/ LockReal \/ PostPiece \/ PostEnd \/ EraseMain
        \/ Upload \/ UploadRelease \/ EraseRender

Spec == Init /\ [][Next]_vars

------------------------------------------------------------------------------

\* The buffer of a queued or running upload exists until the upload has let
\* go of it, and the client's own reference keeps it too (Post, Execute).
UploadsKeepAlive ==
    \A a \in Addresses :
        refs[a] = Cardinality({k \in 1 .. Len(queue) : queue[k] = a})
                    + (IF a \in owned THEN 1 ELSE 0)

\* A lock answered from the arena or a shadow keeps its entry until the
\* Unlock: "erased under us: cannot happen for a locked buffer", and is counted in
\* g_emulatedLocks, which holds a switch to direct calls up (T_BufLock, T_BufUnlock).
LockedStaysTracked ==
    /\ \A a \in Addresses : open[a] = "emulated" => table[a] = "locked"
    /\ emulated = Cardinality({a \in Addresses : open[a] = "emulated"})
=============================================================================
