-------------------------------- MODULE GxRing --------------------------------
(***************************************************************************)
(* The command ring behind the D3D9 render thread (gx_ring.h) with its one *)
(* producer, the client's main thread, and its one consumer, the render    *)
(* thread (RenderThreadProc and Drain in gx_render_thread.cpp).            *)
(*                                                                         *)
(* A unit is the 8 bytes every command is a multiple of.  Cursors are      *)
(* machine words: they grow for ever and wrap at Word, and the slot of a   *)
(* cursor is its remainder modulo RingBytes.  One step is one access to    *)
(* memory the other thread can see.                                        *)
(*                                                                         *)
(* Memory is x86-TSO as far as the protocol depends on it: the producer's  *)
(* store to "pub" and the consumer's store to "sleeping" sit in the store  *)
(* buffer of their processor (pub # pubMem, sleeping # sleepMem) until     *)
(* they are committed, and a fence waits for that.  The stores to the ring *)
(* itself are older than the store to "pub" that publishes them, so no     *)
(* reader can tell them from immediate ones.                               *)
(***************************************************************************)
EXTENDS Integers, Sequences

CONSTANTS RingBytes,    \* kRingBytes, in units
          Word,         \* 2^32, in units
          FlushEvery,   \* kFlushEvery
          RdEvery,      \* the consumer publishes its cursor every 16 commands
          Sizes,        \* the sizes commands have
          Payload,      \* the arguments a command carries
          Carried,      \* those a command of each size may carry
          None          \* not an argument: what a slot not filled in yet holds

\* The ring is a power of two no larger than the word, and no command is as
\* large as half the ring (the largest is 4112 bytes of 4 MB).
ASSUME RingAssumption ==
    /\ RingBytes \in Nat \ {0}
    /\ Word \in Nat \ {0} /\ Word % RingBytes = 0 /\ Word >= 3 * RingBytes
    /\ FlushEvery \in Nat \ {0}
    /\ RdEvery \in Nat \ {0}
    /\ Sizes \subseteq Nat \ {0}
    /\ \A n \in Sizes : 2 * n - 1 <= RingBytes
    /\ None \notin Payload /\ Carried \in [Sizes -> SUBSET Payload]

VARIABLES
    \* producer
    ppc,          \* where the main thread is
    pret,         \* where it goes on after a Flush
    req,          \* the size of the command being emitted
    wr,           \* the private write cursor
    rdCache,      \* the consumer's cursor as last read
    unflushed,    \* commands since the last publication
    pub,          \* the last value stored to the published cursor
    \* shared
    mem,          \* the slots of the ring
    pubMem,       \* the published cursor as the consumer reads it
    rd,           \* the consumer finished up to here
    sleepMem,     \* the sleeping flag as the producer reads it
    evData,       \* the auto-reset event that wakes the consumer
    active,       \* g_active
    dead,         \* g_dead
    stop,         \* g_stop
    \* consumer
    cpc,          \* where the render thread is
    crd,          \* its private read cursor
    cpub,         \* the end of the batch it is running
    cn,           \* commands of the batch, modulo RdEvery
    sleeping,     \* the last value it stored to the sleeping flag
    \* the device
    device        \* the last call the real device received

producer == <<ppc, pret, req, wr, rdCache, unflushed, pub>>
consumer == <<cpc, crd, cpub, cn, sleeping>>
flags    == <<active, dead, stop>>
held     == <<pret, req, wr, rdCache, unflushed, pub>>  \* producer but its pc
shared   == <<mem, pubMem, rd, sleepMem, evData>>
vars     == <<producer, mem, pubMem, rd, sleepMem, evData, flags, consumer, device>>

Cursor == 0 .. Word - 1
Slot(c) == c % RingBytes
\* a - b in 32-bit arithmetic
Dist(a, b) == (a - b) % Word

Cell == [kind : {"wrap", "cmd", "body"}, bytes : 0 .. RingBytes,
         load : Payload \cup {None}]

PPc == {"idle", "fence", "wake", "reserve", "full", "refit", "fill",
        "drain", "shutdown", "stopping", "stopwake", "direct", "overtake"}
CPc == {"poll", "arm", "recheck", "wait", "run", "exec", "fault", "dead", "exited"}

TypeOK ==
    /\ ppc \in PPc /\ pret \in PPc /\ req \in Sizes \cup {0}
    /\ wr \in Cursor /\ rdCache \in Cursor /\ pub \in Cursor
    /\ unflushed \in 0 .. FlushEvery
    /\ mem \in [0 .. RingBytes - 1 -> Cell]
    /\ pubMem \in Cursor /\ rd \in Cursor
    /\ sleepMem \in BOOLEAN /\ evData \in BOOLEAN
    /\ active \in BOOLEAN /\ dead \in BOOLEAN /\ stop \in BOOLEAN
    /\ cpc \in CPc /\ crd \in Cursor /\ cpub \in Cursor
    /\ cn \in 0 .. RdEvery - 1 /\ sleeping \in BOOLEAN
    /\ device \in Payload \cup {None}

Init ==
    /\ ppc = "idle" /\ pret = "idle" /\ req = 0
    /\ wr = 0 /\ rdCache = 0 /\ unflushed = 0 /\ pub = 0
    /\ mem = [i \in 0 .. RingBytes - 1 |-> [kind |-> "wrap", bytes |-> 0, load |-> None]]
    /\ pubMem = 0 /\ rd = 0 /\ sleepMem = FALSE /\ evData = FALSE
    /\ active = TRUE /\ dead = FALSE /\ stop = FALSE
    /\ cpc = "poll" /\ crd = 0 /\ cpub = 0 /\ cn = 0 /\ sleeping = FALSE
    /\ device = None

------------------------------------------------------------------------------
(* Publication. *)

\* The first half of Flush: store the cursor.  Control goes on at "next" once
\* the fence and the look at the sleeping flag are done.
Publish(next) == /\ pub' = wr
                 /\ unflushed' = 0
                 /\ ppc' = "fence"
                 /\ pret' = next

\* The processor commits a buffered store on its own time.
CommitPub == /\ pubMem # pub
             /\ pubMem' = pub
             /\ UNCHANGED <<producer, mem, rd, sleepMem, evData, flags, consumer, device>>

CommitSleeping == /\ sleepMem # sleeping
                  /\ sleepMem' = sleeping
                  /\ UNCHANGED <<producer, mem, pubMem, rd, evData, flags, consumer, device>>

\* Mutant: no fence between the store and the look at the flag.
FenceMissing == /\ ppc = "fence"
                /\ ppc' = "wake"
                /\ UNCHANGED <<held, shared, flags, consumer, device>>

\* _mm_mfence: publish, then look at 'sleeping'.
FlushFence == /\ ppc = "fence"
              /\ pubMem = pub
              /\ ppc' = "wake"
              /\ UNCHANGED <<held, shared, flags, consumer, device>>

FlushWake == /\ ppc = "wake"
             /\ evData' = (evData \/ sleepMem)
             /\ ppc' = pret
             /\ UNCHANGED <<held, mem, pubMem, rd, sleepMem, flags, consumer, device>>

------------------------------------------------------------------------------
(* The producer: Emit, RingReserve and the caller that fills the command. *)

\* Publish before reserving, never after.
Emit(n) == /\ ppc = "idle" /\ active
           /\ req' = n
           /\ IF unflushed >= FlushEvery
              THEN Publish("reserve")
              ELSE ppc' = "reserve" /\ UNCHANGED <<pret, unflushed, pub>>
           /\ UNCHANGED <<wr, rdCache, shared, flags, consumer, device>>

\* A command is never split: what is left of the ring before its end is skipped.
Pad(n) == IF Slot(wr) + n > RingBytes THEN RingBytes - Slot(wr) ELSE 0

\* Mutant: the space test forgets the padding.
FitsUnpadded(n, cache) == Dist(wr + n, cache) <= RingBytes

\* The space test against a reading of the consumer's cursor.
Fits(n, cache) == Dist(wr + Pad(n) + n, cache) <= RingBytes

Start(n) == (wr + Pad(n)) % Word

NewCell(kind, bytes) == [kind |-> kind, bytes |-> bytes, load |-> None]

\* The wrap header, the command's header and the cursor.  The rest of the
\* command holds nothing until the caller fills it in.
Claim == /\ LET first == Slot(Start(req))
            IN  mem' = [i \in 0 .. RingBytes - 1 |->
                          IF Pad(req) > 0 /\ i = Slot(wr) THEN NewCell("wrap", Pad(req))
                          ELSE IF i = first THEN NewCell("cmd", req)
                          ELSE IF first < i /\ i < first + req THEN NewCell("body", 0)
                          ELSE mem[i]]
         /\ wr' = (Start(req) + req) % Word
         /\ unflushed' = unflushed + 1
         /\ ppc' = "fill"

\* RingReserve and, when the cached cursor is too close, the head of
\* RingReserveFull.
Reserve == /\ ppc = "reserve"
           /\ \/ Fits(req, rdCache) /\ Claim /\ UNCHANGED rdCache
              \/ /\ ~Fits(req, rdCache)
                 /\ rdCache' = rd
                 /\ IF Fits(req, rd)
                    THEN Claim
                    ELSE ppc' = "full" /\ UNCHANGED <<mem, wr, unflushed>>
           /\ UNCHANGED <<pret, req, pub, pubMem, rd, sleepMem, evData, flags, consumer, device>>

\* The wait for space: publish everything, read the cursor again.
RingFull == /\ ppc = "full"
            /\ Publish("refit")
            /\ UNCHANGED <<req, wr, rdCache, shared, flags, consumer, device>>

Refit == /\ ppc = "refit"
         /\ rdCache' = rd
         /\ IF Fits(req, rd) \/ dead
            THEN Claim
            ELSE ppc' = "full" /\ UNCHANGED <<mem, wr, unflushed>>
         /\ UNCHANGED <<pret, req, pub, pubMem, rd, sleepMem, evData, flags, consumer, device>>

\* The thunk stores the arguments; Present publishes the ring at once.
Fill(p) == /\ ppc = "fill" /\ p \in Carried[req]
           /\ LET first == Slot(wr - req)
              IN  mem' = [i \in 0 .. RingBytes - 1 |->
                            IF i \in first .. first + req - 1
                            THEN [mem[i] EXCEPT !.load = p] ELSE mem[i]]
           /\ req' = 0
           /\ \/ ppc' = "idle" /\ UNCHANGED <<pret, unflushed, pub>>
              \/ Publish("idle")
           /\ UNCHANGED <<wr, rdCache, pubMem, rd, sleepMem, evData, flags, consumer, device>>

------------------------------------------------------------------------------
(* The producer: Drain, the direct calls that follow it, and Shutdown. *)

\* The two callers of Drain modelled: a call that is not queued, and Shutdown.
AfterDrain(p) == IF p = "drain" THEN "direct" ELSE "stopping"

Drain(p) == /\ ppc = "idle" /\ active
            /\ IF rd = wr
               THEN ppc' = AfterDrain(p) /\ UNCHANGED <<pret, unflushed, pub>>
               ELSE Publish(p)
            /\ UNCHANGED <<req, wr, rdCache, shared, flags, consumer, device>>

Leave == UNCHANGED <<held, shared, flags, consumer, device>>

Drained == /\ ppc \in {"drain", "shutdown"}
           /\ rd = wr \/ dead
           /\ ppc' = AfterDrain(ppc)
           /\ Leave

\* kDrainGiveUpMs have passed.
GiveUp == /\ ppc \in {"drain", "shutdown"}
          /\ rd # wr /\ ~dead
          /\ ppc' = IF ppc = "drain" THEN "overtake" ELSE "stopping"
          /\ Leave

\* A call on the device itself, after a drain or because nothing is queued.
DirectCall(p) == /\ ppc \in {"direct", "overtake"} \/ (ppc = "idle" /\ ~active)
                 /\ device' = p
                 /\ ppc' = "idle"
                 /\ UNCHANGED <<held, shared, flags, consumer>>

\* Shutdown with nothing queued any more skips the drain.
ShutdownDead == /\ ppc = "idle" /\ ~active /\ ~stop
                /\ ppc' = "stopping"
                /\ UNCHANGED <<held, shared, flags, consumer, device>>

Stop == /\ ppc = "stopping"
        /\ active' = FALSE /\ stop' = TRUE
        /\ ppc' = "stopwake"
        /\ UNCHANGED <<held, shared, dead, consumer, device>>

\* Mutant: Shutdown does not set the event.
StopSilently == /\ ppc = "stopwake"
                /\ ppc' = "idle"
                /\ UNCHANGED <<held, shared, flags, consumer, device>>

StopWake == /\ ppc = "stopwake"
            /\ evData' = TRUE
            /\ ppc' = "idle"
            /\ UNCHANGED <<held, mem, pubMem, rd, sleepMem, flags, consumer, device>>

------------------------------------------------------------------------------
(* The consumer: RenderThreadProc. *)

\* The head of the loop: leave, run the batch published so far, or spin.
Poll == /\ cpc = "poll"
        /\ IF stop
           THEN cpc' = "exited" /\ UNCHANGED <<cpub, cn>>
           ELSE /\ cpub' = pubMem /\ cn' = 0
                /\ cpc' = IF pubMem = crd THEN "arm" ELSE "run"
        /\ UNCHANGED <<producer, shared, flags, crd, sleeping, device>>

\* The spin is over: announce the sleep, or go back for what has arrived.
Arm == /\ cpc = "arm"
       /\ IF pubMem = crd
          THEN sleeping' = TRUE /\ cpc' = "recheck"
          ELSE cpc' = "poll" /\ UNCHANGED sleeping
       /\ UNCHANGED <<producer, shared, flags, crd, cpub, cn, device>>

Awake == cpc' = "poll" /\ sleeping' = FALSE

\* Mutant: no second look at 'pub' after announcing the sleep.
RecheckNot == /\ cpc = "recheck" /\ sleepMem = sleeping
              /\ cpc' = "wait"
              /\ UNCHANGED <<producer, shared, flags, crd, cpub, cn, sleeping, device>>

\* _mm_mfence: store 'sleeping', then look at 'pub'.
Recheck == /\ cpc = "recheck"
           /\ sleepMem = sleeping
           /\ IF pubMem = crd /\ ~stop
              THEN cpc' = "wait" /\ UNCHANGED sleeping
              ELSE Awake
           /\ UNCHANGED <<producer, shared, flags, crd, cpub, cn, device>>

Woken == /\ cpc = "wait" /\ evData
         /\ evData' = FALSE
         /\ Awake
         /\ UNCHANGED <<producer, mem, pubMem, rd, sleepMem, flags, crd, cpub, cn, device>>

\* The wait is capped at a millisecond.
Timeout == /\ cpc = "wait"
           /\ Awake
           /\ UNCHANGED <<producer, shared, flags, crd, cpub, cn, device>>

\* Mutant: the whole batch is reported finished before it is run.
BeginReported == /\ cpc = "run"
                 /\ rd' = cpub
                 /\ cpc' = IF crd = cpub THEN "poll" ELSE "exec"
                 /\ UNCHANGED <<producer, mem, pubMem, sleepMem, evData, flags, crd, cpub, cn, sleeping, device>>

\* The batch loop: the next command, or the end of the batch.
Begin == /\ cpc = "run"
         /\ IF crd = cpub
            THEN rd' = crd /\ cpc' = "poll"
            ELSE cpc' = "exec" /\ UNCHANGED rd
         /\ UNCHANGED <<producer, mem, pubMem, sleepMem, evData, flags, crd, cpub, cn, sleeping, device>>

\* The arguments Execute finds in the command at cursor c of a ring m.
Content(m, c) == LET s == Slot(c)
                     p == m[s].load
                 IN  IF \A i \in s .. s + m[s].bytes - 1 :
                           i < RingBytes /\ m[i].load = p
                     THEN p ELSE None

\* Execute returns; the cursor moves on and is published every RdEvery commands.
Finish == /\ cpc = "exec"
          /\ crd' = (crd + mem[Slot(crd)].bytes) % Word
          /\ cn' = (cn + 1) % RdEvery
          /\ rd' = IF cn' = 0 THEN crd' ELSE rd
          /\ device' = IF mem[Slot(crd)].kind = "wrap" THEN device ELSE Content(mem, crd)
          /\ cpc' = "run"
          /\ UNCHANGED <<producer, mem, pubMem, sleepMem, evData, flags, cpub, sleeping>>

\* The command faulted: RenderFilter, then the thread stands down in two stores.
Fault == /\ cpc = "exec" /\ mem[Slot(crd)].kind # "wrap"
         /\ active' = FALSE
         /\ cpc' = "fault"
         /\ UNCHANGED <<producer, shared, dead, stop, crd, cpub, cn, sleeping, device>>

Die == /\ cpc = "fault"
       /\ dead' = TRUE
       /\ cpc' = "dead"
       /\ UNCHANGED <<producer, shared, active, stop, crd, cpub, cn, sleeping, device>>

------------------------------------------------------------------------------

\* An operation under way goes on by itself; which one starts is the client's choice.
ProducerStep == \/ FlushFence \/ FlushWake
                \/ Reserve \/ RingFull \/ Refit
                \/ \E p \in Payload : Fill(p)
                \/ Drained \/ Stop \/ StopWake

ConsumerStep == Poll \/ Arm \/ Recheck \/ Woken \/ Begin \/ Finish \/ Die

Next == \/ \E n \in Sizes : Emit(n)
        \/ Drain("drain") \/ Drain("shutdown") \/ ShutdownDead
        \/ \E p \in Payload : DirectCall(p)
        \/ ProducerStep \/ GiveUp
        \/ ConsumerStep \/ Timeout \/ Fault
        \/ CommitPub \/ CommitSleeping

Spec == Init /\ [][Next]_vars

\* Both threads run, the processors commit their stores and Execute returns or
\* faults.  The cap on the sleep is left out: no wake-up may depend on it.
FairSpec == /\ Spec
            /\ WF_vars(ProducerStep)
            /\ WF_vars(ConsumerStep)
            /\ WF_vars(CommitPub) /\ WF_vars(CommitSleeping)

------------------------------------------------------------------------------
(* Properties. *)

\* The render thread has not faulted.
Alive == cpc \notin {"fault", "dead"}

\* What the commands in the last n units of a ring m before cursor e carry, oldest
\* first, for every n.
Listing(m, e) ==
    LET f[n \in 0 .. RingBytes] ==
          IF n = 0 THEN <<>>
          ELSE LET h == m[Slot(e - n)]
               IN  IF h.bytes \notin 1 .. n THEN <<None>>
                   ELSE IF h.kind = "wrap" THEN f[n - h.bytes]
                   ELSE <<Content(m, e - n)>> \o f[n - h.bytes]
    IN  f

CommandsBefore(e, n) == IF n \in 0 .. RingBytes THEN Listing(mem, e)[n] ELSE <<None>>

\* Everything the producer has finished writing ends here.
Written == IF ppc = "fill" THEN (wr - req) % Word ELSE wr

Pending == IF Alive THEN CommandsBefore(Written, Dist(Written, crd)) ELSE <<>>

Promise == INSTANCE GxQueue WITH pending <- Pending, alive <- Alive, late <- ppc = "overtake" \/ stop

\* The ring implements the queue: what the device receives is what the client
\* called, in its order, however Emit, RingReserve, Flush, Drain and the render
\* thread's loop interleave (RingReserve, RenderThreadProc, Drain).  A call is late
\* only right after a drain that gave up, or once Shutdown is through.
Fifo == Promise!Spec

\* Between the consumer's published cursor and the write cursor lie, in this
\* order, the consumer's own cursor, the end of its batch and the published
\* cursor, and the whole span fits the ring, from the cursor the producer last
\* read, which is only ever behind the real one: nothing the consumer may still
\* read is reserved again (RingReserve's space test, RenderThreadProc's rd).
CursorOrder ==
    Alive => /\ Dist(crd, rd) <= Dist(cpub, rd)
             /\ Dist(cpub, rd) <= Dist(pubMem, rd)
             /\ Dist(pubMem, rd) <= Dist(pub, rd)
             /\ Dist(pub, rd) <= Dist(wr, rd)
             /\ Dist(rd, rdCache) + Dist(wr, rd) <= RingBytes

\* The consumer never sleeps on published commands unless the producer is
\* still between its fence and its look at the flag, or the event is set: the
\* pair of fences, not the millisecond cap, is what wakes it (Flush).
NoLostWakeup == cpc = "wait" /\ pubMem # crd => evData \/ ppc \in {"fence", "wake"}

\* A drain and a wait for ring space end, whatever the consumer was doing when
\* they began, also when it dies meanwhile, without the cap on its sleep (Drain,
\* RingReserveFull).
WaitsEnd == /\ ppc \in {"drain", "shutdown"} ~> ppc \in {"direct", "overtake", "stopping"}
            /\ ppc \in {"full", "refit"} ~> ppc = "fill"

\* After Shutdown the render thread leaves its loop (RenderThreadProc).
StopIsSeen == stop ~> cpc \in {"exited", "dead"}
=============================================================================
