------------------------------- MODULE GxFrames -------------------------------
(***************************************************************************)
(* Frames, buffer locks and uploads of the D3D9 render thread              *)
(* (gx_render_thread.cpp, gx_buffers.cpp, FrameArena in gx_ring.h).        *)
(*                                                                         *)
(* The command ring is the queue GxQueue promises and GxRing implements:   *)
(* a command is accepted by one step and executed by another.  A full ring *)
(* makes the main thread wait, so Post is a guard as well as an effect.    *)
(*                                                                         *)
(* The contents of a buffer are Pieces values, a piece being what one      *)
(* upload carries at most (kMaxDirectLock).  A lock covers the whole       *)
(* buffer.  A block of a frame arena holds one piece.                      *)
(***************************************************************************)
EXTENDS Integers, Sequences, FiniteSets

CONSTANTS Scenarios,        \* the buffers and events an instance looks at
          Pieces,           \* upload pieces of a shadow buffer
          Data,             \* what the client writes into a piece
          Zero,             \* a fresh buffer and a fresh shadow hold this
          None,
          ArenaBlocks,      \* kArenaBytes, in blocks
          MaxFramesInFlight,\* kMaxFramesInFlight
          FrameWord         \* where the frame counters wrap (2^32)

\* "giveup": a Drain gives up; "switch": the governor or the A/B harness asks
\* for direct calls; "span": the client presents with a buffer locked; "fault":
\* the render thread faults; "loss": the device is lost.
Events == {"giveup", "switch", "span", "fault", "loss"}

\* A scenario gives every buffer its class and the ring its room, and says what may
\* happen.
AllBuffers == UNION {DOMAIN s.class : s \in Scenarios}

ASSUME FramesAssumption ==
    /\ \A s \in Scenarios : /\ s.class \in [DOMAIN s.class -> {"sync", "direct", "shadow"}]
                            /\ s.allowed \subseteq Events
                            /\ IsFiniteSet(DOMAIN s.class) /\ s.room \in Nat \ {0}
    /\ Pieces \in Nat \ {0} /\ ArenaBlocks \in Nat \ {0}
    /\ MaxFramesInFlight \in Nat \ {0}
    /\ FrameWord \in Nat /\ FrameWord > MaxFramesInFlight + 1
    /\ Zero \notin Data /\ None \notin Data \cup {Zero} /\ None \notin AllBuffers
    /\ None \notin [1 .. Pieces -> Data \cup {Zero, None}]      \* a copy is something

VARIABLES
    scenario,   \* chosen once
    mpc,        \* where the main thread is
    job,        \* the buffer and piece a multi-step buffer call is at
    queue,      \* the ring, oldest command first
    produced, consumed,     \* framesProduced, framesConsumed
    cur, used,  \* the arena being written and its blocks in use
    arena,      \* the blocks of both arenas
    entry,      \* the buffer table: the emulated lock of each buffer
    shadow,     \* the persistent copies
    realLock,   \* the buffers whose real Lock is open on the main thread
    emulated,   \* g_emulatedLocks
    real,       \* what the real buffers hold
    lost,       \* the device is lost
    hr,         \* g_lastPresentHr
    queueOff,   \* g_queueOff
    active, dead,   \* g_active, g_dead
    device      \* the last call the device received

mainVars == <<mpc, job>>
lockVars == <<entry, shadow, realLock, emulated>>
arenaVars == <<cur, used, arena>>
frameVars == <<produced, consumed>>
liveVars == <<queueOff, active, dead>>
vars == <<scenario, mainVars, queue, frameVars, arenaVars, lockVars, real, lost, hr, liveVars,
          device>>

Class == scenario.class
Buffers == DOMAIN Class
Allowed == scenario.allowed
QueueMax == scenario.room           \* kRingBytes, in commands

Block == {0, 1} \X (1 .. ArenaBlocks)
PiecesOf(b) == IF Class[b] = "shadow" THEN 1 .. Pieces ELSE {1}
Contents(b) == [PiecesOf(b) -> Data \cup {Zero, None}]

\* A device call, and the command that stands for it in the ring: an upload
\* names the arena block its data will be in.
Call(op, b, i, v, disc) == [op |-> op, buf |-> b, piece |-> i, data |-> v, disc |-> disc]
Calls == [op : {"draw", "present", "sync", "lock", "upload"}, buf : AllBuffers \cup {None},
          piece : 0 .. Pieces, data : Data \cup {Zero, None}, disc : BOOLEAN]
Plain(op) == Call(op, None, 0, None, FALSE)
Command == [op : {"draw", "present", "upload"}, buf : Buffers \cup {None},
            piece : 0 .. Pieces, block : Block \cup {None}, disc : BOOLEAN]
Resolve(c) == Call(c.op, c.buf, c.piece,
                   IF c.op = "upload" THEN arena[c.block] ELSE None, c.disc)

NoLock == [mode |-> "none", block |-> None, ro |-> FALSE, disc |-> FALSE]
NoJob == [buf |-> None, piece |-> 0, disc |-> FALSE]

TypeOK ==
    /\ scenario \in Scenarios
    /\ mpc \in {"idle", "lock", "pieces", "place", "sync", "reset", "switch",
                "present", "dirty", "throttle"}
    /\ job \in [buf : Buffers \cup {None}, piece : 0 .. Pieces, disc : BOOLEAN]
    /\ queue \in Seq(Command) /\ Len(queue) <= QueueMax
    /\ produced \in 0 .. FrameWord - 1 /\ consumed \in 0 .. FrameWord - 1
    /\ cur \in {0, 1} /\ used \in 0 .. ArenaBlocks
    /\ arena \in [Block -> Data \cup {Zero, None}]
    /\ entry \in [Buffers -> [mode : {"none", "arena", "shadow"}, block : Block \cup {None},
                              ro : BOOLEAN, disc : BOOLEAN]]
    /\ \A b \in Buffers : shadow[b] \in Contents(b) \cup {None} /\ real[b] \in Contents(b)
    /\ realLock \subseteq Buffers /\ emulated \in 0 .. Cardinality(Buffers)
    /\ lost \in BOOLEAN /\ hr \in {"ok", "lost"}
    /\ queueOff \in BOOLEAN /\ active \in BOOLEAN /\ dead \in BOOLEAN
    /\ device \in Calls \cup {None}

Init ==
    /\ scenario \in Scenarios
    /\ mpc = "idle" /\ job = NoJob /\ queue = <<>>
    /\ produced = 0 /\ consumed = 0 /\ cur = 0 /\ used = 0
    /\ arena = [s \in Block |-> None]
    /\ entry = [b \in Buffers |-> NoLock]
    /\ shadow = [b \in Buffers |-> None]
    /\ realLock = {} /\ emulated = 0
    /\ real = [b \in Buffers |-> [i \in PiecesOf(b) |-> Zero]]
    /\ lost = FALSE /\ hr = "ok"
    /\ queueOff = FALSE /\ active = TRUE /\ dead = FALSE
    /\ device = None

\* Live(), on the main thread.
Live == active /\ ~queueOff

\* The render thread has not faulted.
Alive == active

\* Drain has returned.  What follows it is a step of its own.
Drained == queue = <<>> \/ dead \/ "giveup" \in Allowed

\* Emit: a command enters the ring; nothing reads the ring of a dead thread.
Post(c) == IF dead THEN UNCHANGED queue
           ELSE Len(queue) < QueueMax /\ queue' = Append(queue, c)

------------------------------------------------------------------------------
(* Buffer locks: T_BufLock, the client's writes, T_BufUnlock. *)

Locked(b) == entry[b].mode # "none" \/ b \in realLock

\* T_BufLock.  A block of the arena, the shadow copy, or the real lock: at
\* once when nothing is queued, after a drain otherwise.
Lock(b, ro, disc) ==
    /\ mpc = "idle" /\ ~Locked(b) /\ ~(ro /\ disc)
    /\ \/ /\ ~Live                                  \* straight to the buffer
          /\ realLock' = realLock \cup {b}
          /\ device' = Call("lock", b, 0, None, FALSE)
          /\ UNCHANGED <<mainVars, arenaVars, entry, shadow, emulated>>
       \/ /\ Live                                   \* a drain comes first
          /\ \/ Class[b] = "sync"
             \/ Class[b] = "direct" /\ ~ro /\ used = ArenaBlocks
          /\ mpc' = "lock" /\ job' = [NoJob EXCEPT !.buf = b]
          /\ UNCHANGED <<arenaVars, lockVars, device>>
       \/ /\ Live /\ Class[b] = "direct" /\ ~ro /\ used < ArenaBlocks
          /\ used' = used + 1
          /\ entry' = [entry EXCEPT ![b] = [mode |-> "arena", block |-> <<cur, used + 1>>,
                                            ro |-> FALSE, disc |-> disc]]
          /\ emulated' = emulated + 1
          /\ UNCHANGED <<mainVars, cur, arena, shadow, realLock, device>>
       \/ /\ Live /\ (Class[b] = "shadow" \/ (Class[b] = "direct" /\ ro))
          /\ shadow' = IF shadow[b] = None
                       THEN [shadow EXCEPT ![b] = [i \in PiecesOf(b) |-> Zero]]
                       ELSE shadow
          /\ entry' = [entry EXCEPT ![b] = [mode |-> "shadow", block |-> None,
                                            ro |-> ro, disc |-> disc]]
          /\ emulated' = emulated + 1
          /\ UNCHANGED <<mainVars, arenaVars, realLock, device>>
    /\ UNCHANGED <<scenario, queue, frameVars, real, lost, hr, liveVars>>

\* The real lock of a buffer once the ring is empty.
LockReal == /\ mpc = "lock" /\ Drained
            /\ realLock' = realLock \cup {job.buf}
            /\ device' = Call("lock", job.buf, 0, None, FALSE)
            /\ mpc' = "idle" /\ job' = NoJob
            /\ UNCHANGED <<scenario, queue, frameVars, arenaVars, entry, shadow, emulated,
                           real, lost, hr, liveVars>>

\* The client writes through the pointer its Lock returned.
Write(b, v) ==
    /\ mpc = "idle" /\ Locked(b) /\ ~entry[b].ro
    /\ CASE entry[b].mode = "arena" ->
              /\ arena' = [arena EXCEPT ![entry[b].block] = v]
              /\ UNCHANGED <<shadow, real>>
         [] entry[b].mode = "shadow" ->
              /\ shadow' = [shadow EXCEPT ![b] = [i \in PiecesOf(b) |-> v]]
              /\ UNCHANGED <<arena, real>>
         [] OTHER ->
              /\ real' = [real EXCEPT ![b] = [i \in PiecesOf(b) |-> v]]
              /\ UNCHANGED <<arena, shadow>>
    /\ UNCHANGED <<scenario, mainVars, queue, frameVars, cur, used, entry, realLock,
                   emulated, lost, hr, liveVars, device>>

\* T_BufUnlock.  Not Live, it goes to the buffer and leaves the table alone.
Unlock(b) ==
    /\ mpc = "idle" /\ Locked(b)
    /\ IF ~Live \/ entry[b].mode = "none"
       THEN /\ realLock' = realLock \ {b}
            /\ UNCHANGED <<mainVars, queue, entry, emulated>>
       ELSE /\ entry' = [entry EXCEPT ![b] = NoLock]
            /\ emulated' = emulated - 1
            /\ UNCHANGED realLock
            /\ IF entry[b].ro
               THEN UNCHANGED <<mainVars, queue>>
               ELSE IF entry[b].mode = "arena"
               THEN /\ Post([op |-> "upload", buf |-> b, piece |-> 1,
                             block |-> entry[b].block, disc |-> entry[b].disc])
                    /\ UNCHANGED mainVars
               ELSE /\ mpc' = "pieces"
                    /\ job' = [buf |-> b, piece |-> 1, disc |-> entry[b].disc]
                    /\ UNCHANGED queue
    /\ UNCHANGED <<scenario, frameVars, arenaVars, shadow, real, lost, hr, liveVars,
                   device>>

\* Mutant: every piece of a shadow discards.
DiscardsEach == job.disc

\* The loop over the pieces of a shadow: only the first piece may discard.
Discards == job.disc /\ job.piece = 1
NextPiece == IF job.piece = Cardinality(PiecesOf(job.buf))
             THEN mpc' = "idle" /\ job' = NoJob
             ELSE mpc' = "pieces" /\ job' = [job EXCEPT !.piece = @ + 1]

Piece == /\ mpc = "pieces"
         /\ IF used < ArenaBlocks
            THEN /\ used' = used + 1
                 /\ arena' = [arena EXCEPT ![<<cur, used + 1>>] = shadow[job.buf][job.piece]]
                 /\ Post([op |-> "upload", buf |-> job.buf, piece |-> job.piece,
                          block |-> <<cur, used + 1>>, disc |-> Discards])
                 /\ NextPiece
            ELSE /\ mpc' = "place"
                 /\ UNCHANGED <<job, queue, used, arena>>
         /\ UNCHANGED <<scenario, frameVars, cur, lockVars, real, lost, hr, liveVars,
                        device>>

\* What an upload does to a buffer: a discarding lock leaves nothing defined
\* but what is written under it.
Uploaded(b, contents, i, v, disc) ==
    [j \in PiecesOf(b) |-> IF j = i THEN v ELSE IF disc THEN None ELSE contents[j]]

\* UploadInPlace: the arena is full, so drain and upload here.
Place == /\ mpc = "place" /\ Drained
         /\ LET b == job.buf  i == job.piece  v == shadow[b][i]
            IN  /\ real' = [real EXCEPT ![b] = Uploaded(b, @, i, v, Discards)]
                /\ device' = Call("upload", b, i, v, Discards)
         /\ NextPiece
         /\ UNCHANGED <<scenario, queue, frameVars, arenaVars, lockVars, lost, hr,
                        liveVars>>

------------------------------------------------------------------------------
(* Draws and the calls that are not queued. *)

Draw(b) == /\ mpc = "idle" /\ ~Locked(b)
           /\ IF Live
              THEN /\ Post([op |-> "draw", buf |-> b, piece |-> 0, block |-> None, disc |-> FALSE])
                   /\ UNCHANGED device
              ELSE device' = Call("draw", b, 0, None, FALSE) /\ UNCHANGED queue
           /\ UNCHANGED <<scenario, mainVars, frameVars, arenaVars, lockVars, real, lost,
                          hr, liveVars>>

\* A drain-then-direct slot of the vtable: SyncEnter, then the real function.
SyncCall == /\ mpc = "idle" /\ Live
            /\ mpc' = "sync"
            /\ UNCHANGED <<scenario, job, queue, frameVars, arenaVars, lockVars, real, lost,
                           hr, liveVars, device>>

Sync == /\ mpc = "sync" /\ Drained
        /\ device' = Plain("sync")
        /\ mpc' = "idle"
        /\ UNCHANGED <<scenario, job, queue, frameVars, arenaVars, lockVars, real, lost, hr,
                       liveVars>>

\* Reset of a lost device: a call like the others, but one that SyncEnter
\* knows.
ResetCall == /\ mpc = "idle" /\ lost
             /\ mpc' = "reset"
             /\ UNCHANGED <<scenario, job, queue, frameVars, arenaVars, lockVars, real,
                            lost, hr, liveVars, device>>

\* Mutant: a Reset leaves the last Present's result alone.
ResetEnterKeeps == (Live => Drained) /\ UNCHANGED hr

\* SyncEnter drains and forgets the last Present's result, but only for a call
\* it sees: one made while nothing is queued passes it by.
ResetEnter == IF Live THEN Drained /\ hr' = "ok" ELSE UNCHANGED hr

Reset == /\ mpc = "reset"
         /\ ResetEnter
         /\ lost' = FALSE
         /\ device' = Plain("sync")
         /\ mpc' = "idle"
         /\ UNCHANGED <<scenario, job, queue, frameVars, arenaVars, lockVars, real,
                        liveVars>>

\* The device is lost: another program took the display.
Lose == /\ "loss" \in Allowed /\ ~lost
        /\ lost' = TRUE
        /\ UNCHANGED <<scenario, mainVars, queue, frameVars, arenaVars, lockVars, real, hr,
                       liveVars, device>>

------------------------------------------------------------------------------
(* Present. *)

\* T_Present up to its Live() test: the switch between queueing and direct
\* calls the governor or the harness wants (SwitchTo).
PresentEnter(wantDirect) ==
    /\ mpc = "idle"
    /\ "span" \in Allowed \/ \A b \in Buffers : ~Locked(b)
    /\ wantDirect => "switch" \in Allowed
    /\ mpc' = IF active /\ wantDirect /\ ~queueOff /\ emulated = 0
              THEN "switch" ELSE "present"
    /\ queueOff' = (queueOff /\ (active => wantDirect))
    /\ UNCHANGED <<scenario, job, queue, frameVars, arenaVars, lockVars, real, lost, hr,
                   active, dead, device>>

\* Mutant: direct calls begin whatever the drain left in the ring.
SwitchAnyway == /\ mpc = "switch" /\ Drained
                /\ queueOff' = TRUE
                /\ mpc' = "present"
                /\ UNCHANGED <<scenario, job, queue, frameVars, arenaVars, lockVars, real,
                               lost, hr, active, dead, device>>

\* SwitchTo after its Drain: the ring must really be empty.
Switch == /\ mpc = "switch" /\ Drained
          /\ queueOff' = (queue = <<>>)
          /\ mpc' = "present"
          /\ UNCHANGED <<scenario, job, queue, frameVars, arenaVars, lockVars, real, lost,
                         hr, active, dead, device>>

\* A Present made here, on the main thread: its result goes to the client.
PresentHere == /\ \/ mpc = "present" /\ ~Live
                  \/ mpc = "dirty" /\ Drained
               /\ device' = Plain("present")
               /\ mpc' = "idle"
               /\ UNCHANGED <<scenario, job, queue, frameVars, arenaVars, lockVars, real,
                              lost, hr, liveVars>>

\* A dirty region is not carried by the ring.
PresentDirty == /\ mpc = "present" /\ Live
                /\ mpc' = "dirty"
                /\ UNCHANGED <<scenario, job, queue, frameVars, arenaVars, lockVars, real,
                               lost, hr, liveVars, device>>

PresentQueued == /\ mpc = "present" /\ Live
                 /\ Post([op |-> "present", buf |-> None, piece |-> 0, block |-> None,
                          disc |-> FALSE])
                 /\ produced' = (produced + 1) % FrameWord
                 /\ mpc' = "throttle"
                 /\ UNCHANGED <<scenario, job, consumed, arenaVars, lockVars, real, lost,
                                hr, liveVars, device>>

FramesInFlight == (produced - consumed) % FrameWord

\* Mutant: a dead render thread is waited for.
CaughtUpAlive == FramesInFlight <= MaxFramesInFlight

\* Mutant: one frame more than may be in flight.
CaughtUpLate == FramesInFlight <= MaxFramesInFlight + 1 \/ dead

\* What Throttle waits for.
CaughtUp == FramesInFlight <= MaxFramesInFlight \/ dead

\* FrameArena::Flip
Flip == cur' = 1 - cur /\ used' = 0

\* Throttle returns and the arena of the frame before last is taken.
Throttle == /\ mpc = "throttle"
            /\ CaughtUp
            /\ Flip
            /\ mpc' = "idle"
            /\ UNCHANGED <<scenario, job, queue, frameVars, arena, lockVars, real, lost, hr,
                           liveVars, device>>

------------------------------------------------------------------------------
(* The render thread. *)

Execute ==
    /\ queue # <<>> /\ active
    /\ LET c == Head(queue)
       IN  /\ device' = Resolve(c)
           /\ real' = IF c.op = "upload"
                      THEN [real EXCEPT ![c.buf] =
                              Uploaded(c.buf, @, c.piece, arena[c.block], c.disc)]
                      ELSE real
           /\ IF c.op = "present"
              THEN consumed' = (consumed + 1) % FrameWord /\ hr' = IF lost THEN "lost" ELSE "ok"
              ELSE UNCHANGED <<consumed, hr>>
    /\ queue' = Tail(queue)
    /\ UNCHANGED <<scenario, mainVars, produced, arenaVars, lockVars, lost, liveVars>>

Fault == /\ "fault" \in Allowed /\ queue # <<>> /\ active
         /\ active' = FALSE
         /\ UNCHANGED <<scenario, mainVars, queue, frameVars, arenaVars, lockVars, real,
                        lost, hr, queueOff, dead, device>>

Die == /\ ~active /\ ~dead
       /\ dead' = TRUE
       /\ UNCHANGED <<scenario, mainVars, queue, frameVars, arenaVars, lockVars, real, lost,
                      hr, queueOff, active, device>>

------------------------------------------------------------------------------

MainStep == LockReal \/ Piece \/ Place \/ Sync \/ Reset \/ Switch \/ PresentHere
            \/ PresentQueued \/ Throttle

Next == \/ \E b \in Buffers, ro, disc \in BOOLEAN : Lock(b, ro, disc)
        \/ \E b \in Buffers, v \in Data : Write(b, v)
        \/ \E b \in Buffers : Unlock(b) \/ Draw(b)
        \/ SyncCall \/ ResetCall \/ Lose
        \/ \E wantDirect \in BOOLEAN : PresentEnter(wantDirect)
        \/ PresentDirty
        \/ MainStep
        \/ Execute \/ Fault \/ Die

Spec == Init /\ [][Next]_vars

FairSpec == Spec /\ WF_vars(MainStep) /\ WF_vars(Execute) /\ WF_vars(Die)

------------------------------------------------------------------------------
(* Properties. *)

Pending == IF Alive THEN [k \in 1 .. Len(queue) |-> Resolve(queue[k])] ELSE <<>>

Promise == INSTANCE GxQueue WITH Payload <- Calls, pending <- Pending, alive <- Alive,
                            late <- "giveup" \in Allowed

\* The device receives every call in the client's order, an upload with the
\* data the client had written when it unlocked the buffer: no arena block is
\* written again while an upload from it is queued (FrameArena, T_BufUnlock,
\* T_Present's Flip), and no drain-then-direct call overtakes the queue.  This
\* is Promised, wherever each lock is closed before the next Present.
Promised  == Promise!Spec
Closed    == "span" \notin Allowed
CallOrder == (Closed => Promise!Init)
             /\ [][Closed => Promise!Next]_<<Pending, device, Alive>>

\* Direct calls are only switched to with the ring empty and no emulated lock
\* open, whose Unlock would reach a buffer that was never really locked
\* (SwitchTo, T_BufUnlock).
SwitchIsSafe == Alive /\ queueOff =>
                  queue = <<>> /\ \A b \in Buffers : entry[b].mode = "none"

\* The contents a buffer has once the queue has run.
Latest(b) ==
    LET f[k \in 0 .. Len(queue)] ==
          IF k = 0 THEN real[b]
          ELSE LET c == queue[k]
               IN  IF c.op = "upload" /\ c.buf = b
                   THEN Uploaded(b, f[k - 1], c.piece, arena[c.block], c.disc)
                   ELSE f[k - 1]
    IN  f[Len(queue)]

\* A lock of a readable buffer answered with the shadow shows the client the
\* contents the buffer has (T_BufLock, T_BufUnlock's loop over the pieces).
ShadowIsCopy ==
    [][\A b \in Buffers :
         Class[b] = "shadow" /\ entry[b].mode = "none" /\ entry'[b].mode = "shadow"
           => shadow'[b] = Latest(b)]_vars

\* A result "lost" that a Present can still return means the device has been
\* lost and not reset since (SyncEnter's S_Reset case, T_Present's result).
NoStaleLoss == Alive /\ hr = "lost" => lost

\* A Present returns, also when the render thread dies meanwhile (Throttle).
PresentReturns == mpc \in {"present", "throttle", "switch"} ~> mpc = "idle"
=============================================================================
