----------------------------- MODULE GxRing_proof -----------------------------
(***************************************************************************)
(* Proofs about the command ring, for every ring size, word, command size  *)
(* and batch length GxRing allows.                                         *)
(***************************************************************************)
EXTENDS GxRing, SequenceTheorems, WellFoundedInduction, TLAPS

------------------------------------------------------------------------------
(* Machine words. *)

\* A remainder is below its divisor.
LEMMA ModInRange ==
    ASSUME NEW a \in Int, NEW w \in Nat \ {0}
    PROVE  a % w \in 0 .. w - 1
  BY SMT

\* The remainder is the one number below the divisor a multiple away.
LEMMA ModUnique ==
    ASSUME NEW w \in Nat \ {0}, NEW a \in Int, NEW q \in Int, NEW r \in 0 .. w - 1,
           a = q * w + r
    PROVE  a % w = r
  BY SMT

\* A number less than a turn away from its remainder.
LEMMA ModNear ==
    ASSUME NEW w \in Nat \ {0}, NEW a \in Int, NEW r \in 0 .. w - 1, a = r \/ a = r - w
    PROVE  a % w = r
  <1>1. a = 0 * w + r \/ a = (-1) * w + r
    OBVIOUS
  <1> QED
    BY <1>1, ModUnique

\* Quotient and remainder.
LEMMA ModDiv ==
    ASSUME NEW w \in Nat \ {0}, NEW a \in Int
    PROVE  a = w * (a \div w) + (a % w) /\ a % w \in 0 .. w - 1 /\ a \div w \in Int
  BY SMT

\* Whole turns do not change a remainder.
LEMMA ModTurns ==
    ASSUME NEW w \in Nat \ {0}, NEW a \in Int, NEW q \in Int
    PROVE  (a + q * w) % w = a % w
  <1>1. a = w * (a \div w) + (a % w) /\ a % w \in 0 .. w - 1 /\ a \div w \in Int
    BY ModDiv
  <1>2. a + q * w = (a \div w + q) * w + (a % w) /\ a \div w + q \in Int
    BY <1>1, SMT
  <1>3. a + q * w \in Int
    BY SMT
  <1> QED
    BY <1>1, <1>2, <1>3, ModUnique

\* The distance of two cursors.
LEMMA DistWord ==
    ASSUME NEW a \in Cursor, NEW b \in Cursor
    PROVE  Dist(a, b) = IF b <= a THEN a - b ELSE a - b + Word
  <1>1. Word \in Nat \ {0} /\ a \in 0 .. Word - 1 /\ b \in 0 .. Word - 1
    BY RingAssumption DEF Cursor
  <1>2. (IF b <= a THEN a - b ELSE a - b + Word) \in 0 .. Word - 1 /\ a - b \in Int
    BY <1>1
  <1> QED
    BY <1>1, <1>2, ModNear DEF Dist

\* A cursor that moves on.
LEMMA AddWord ==
    ASSUME NEW c \in Cursor, NEW n \in 0 .. Word
    PROVE  (c + n) % Word = IF c + n < Word THEN c + n ELSE c + n - Word
  <1>1. Word \in Nat \ {0} /\ c \in 0 .. Word - 1 /\ n \in Nat
    BY RingAssumption DEF Cursor
  <1>2. CASE c + n < Word
    BY <1>1, <1>2, ModNear
  <1>3. CASE ~(c + n < Word)
    <2>1. c + n = 1 * Word + (c + n - Word) /\ c + n - Word \in 0 .. Word - 1
      BY <1>1, <1>3
    <2> QED
      BY <1>1, <1>3, <2>1, ModUnique
  <1> QED
    BY <1>2, <1>3

\* The word is a whole number of rings: a cursor that wraps keeps its slot.
LEMMA SlotWord ==
    ASSUME NEW c \in Int
    PROVE  Slot(c % Word) = Slot(c)
  <1>1. Word \in Nat \ {0} /\ RingBytes \in Nat \ {0} /\ Word % RingBytes = 0
    BY RingAssumption
  <1>2. PICK k \in Int : Word = k * RingBytes
    BY <1>1, SMT
  <1>3. c % Word \in Int /\ c \div Word \in Int /\ c = Word * (c \div Word) + (c % Word)
    BY <1>1, ModDiv
  <1> DEFINE d == c \div Word
             r == c % Word
  <1>4. c = r + (k * d) * RingBytes /\ k * d \in Int
    <2> HIDE DEF d, r
    <2>1. d \in Int /\ r \in Int /\ k \in Int /\ RingBytes \in Int /\ c = Word * d + r
      BY <1>1, <1>3 DEF d, r
    <2>2. (k * RingBytes) * d = (k * d) * RingBytes /\ k * d \in Int
      BY <2>1, SMT
    <2> QED
      BY <1>2, <2>1, <2>2
  <1>5. r \in Int
    BY <1>3
  <1> HIDE DEF d, r
  <1>6. (r + (k * d) * RingBytes) % RingBytes = r % RingBytes
    BY <1>1, <1>4, <1>5, ModTurns
  <1> QED
    BY <1>4, <1>6 DEF Slot, r

\* The slot n units on.
LEMMA SlotAdd ==
    ASSUME NEW c \in Int, NEW n \in 0 .. RingBytes
    PROVE  Slot(c + n) = IF Slot(c) + n < RingBytes THEN Slot(c) + n ELSE Slot(c) + n - RingBytes
  <1>1. RingBytes \in Nat \ {0} /\ n \in Nat /\ n <= RingBytes
    BY RingAssumption
  <1>2. c % RingBytes \in 0 .. RingBytes - 1 /\ c \div RingBytes \in Int
        /\ c = RingBytes * (c \div RingBytes) + (c % RingBytes)
    BY <1>1, ModDiv
  <1> DEFINE d == c \div RingBytes
             r == c % RingBytes
  <1>3. d \in Int /\ r \in 0 .. RingBytes - 1 /\ c = d * RingBytes + r
    BY <1>1, <1>2, SMT
  <1> HIDE DEF d, r
  <1>4. CASE r + n < RingBytes
    <2>1. c + n = d * RingBytes + (r + n) /\ r + n \in 0 .. RingBytes - 1 /\ c + n \in Int
      BY <1>1, <1>3, <1>4, SMT
    <2> QED
      BY <1>1, <1>3, <1>4, <2>1, ModUnique DEF Slot, r
  <1>5. CASE ~(r + n < RingBytes)
    <2>1. (d + 1) * RingBytes = d * RingBytes + RingBytes /\ d + 1 \in Int
      BY <1>1, <1>3, SMT
    <2>2. d * RingBytes \in Int
      BY <1>1, <1>3, SMT
    <2>3. /\ c + n = (d + 1) * RingBytes + (r + n - RingBytes)
          /\ r + n - RingBytes \in 0 .. RingBytes - 1 /\ c + n \in Int
      BY <1>1, <1>3, <1>5, <2>1, <2>2
    <2> QED
      BY <1>1, <1>3, <1>5, <2>1, <2>3, ModUnique DEF Slot, r
  <1> QED
    BY <1>4, <1>5

\* What RingReserve and Emit compute with cursors stays a cursor, and a cursor
\* has a slot.
LEMMA CursorArithmetic ==
    ASSUME NEW c \in Cursor, NEW n \in Nat
    PROVE  /\ (c + n) % Word \in Cursor
           /\ (c - n) % Word \in Cursor
           /\ Slot(c) \in 0 .. RingBytes - 1
           /\ Slot(c - n) \in 0 .. RingBytes - 1
  <1>1. Word \in Nat \ {0} /\ RingBytes \in Nat \ {0} /\ c \in Int
    BY RingAssumption DEF Cursor
  <1> QED
    BY <1>1, ModInRange DEF Cursor, Slot

\* The padding before a command is less than the ring.
LEMMA PadInRange ==
    ASSUME NEW n \in Nat, wr \in Cursor
    PROVE  /\ Pad(n) \in 0 .. RingBytes
           /\ Start(n) \in Cursor
  <1>1. Slot(wr) \in 0 .. RingBytes - 1
    BY CursorArithmetic
  <1>2. Pad(n) \in 0 .. RingBytes
    BY <1>1, RingAssumption DEF Pad
  <1>3. Start(n) \in Cursor
    BY <1>2, CursorArithmetic DEF Start
  <1> QED
    BY <1>2, <1>3

\* Claim leaves a well-formed ring and cursor behind.
LEMMA ClaimType ==
    ASSUME TypeOK, Claim, req \in Sizes, unflushed < FlushEvery
    PROVE  /\ mem' \in [0 .. RingBytes - 1 -> Cell]
           /\ wr' \in Cursor
           /\ unflushed' \in 0 .. FlushEvery
           /\ ppc' = "fill"
  <1>1. req \in Nat \ {0} /\ req <= RingBytes
    BY RingAssumption
  <1>2. Pad(req) \in 0 .. RingBytes /\ Start(req) \in Cursor
    BY <1>1, PadInRange DEF TypeOK
  <1>3. \A kind \in {"wrap", "cmd", "body"}, n \in 0 .. RingBytes : NewCell(kind, n) \in Cell
    BY DEF NewCell, Cell
  <1>4. mem' \in [0 .. RingBytes - 1 -> Cell]
    BY <1>1, <1>2, <1>3, RingAssumption DEF Claim, TypeOK
  <1>5. wr' \in Cursor
    BY <1>1, <1>2, CursorArithmetic DEF Claim
  <1> QED
    BY <1>4, <1>5, RingAssumption DEF Claim, TypeOK

------------------------------------------------------------------------------
(* Types. *)

\* What TypeOK rests on: a command being reserved has a size, and the count of
\* unpublished commands is below kFlushEvery when one is added to it, because
\* Emit and the wait for space publish first.
EmitState ==
    /\ ppc \in {"reserve", "full", "refit", "fill"} => req \in Sizes
    /\ ppc \in {"reserve", "refit"} => unflushed < FlushEvery
    /\ ppc \in {"fence", "wake"} =>
         /\ pret \in {"idle", "reserve", "refit", "drain", "shutdown"}
         /\ pret \in {"reserve", "refit"} => req \in Sizes
         /\ unflushed = 0

TypeInv == TypeOK /\ EmitState

\* The initial states satisfy TypeInv.
LEMMA InitTypeInv == Init => TypeInv
  <1> SUFFICES ASSUME Init
               PROVE  TypeInv
    OBVIOUS
  <1>1. 0 \in Cursor
    BY RingAssumption DEF Cursor
  <1>2. mem \in [0 .. RingBytes - 1 -> Cell]
    BY RingAssumption DEF Init, Cell
  <1>3. {sleepMem, evData, active, dead, stop, sleeping} \subseteq BOOLEAN
    BY DEF Init
  <1>4. unflushed \in 0 .. FlushEvery /\ cn \in 0 .. RdEvery - 1
    BY RingAssumption DEF Init
  <1>5. ppc \in PPc /\ pret \in PPc /\ cpc \in CPc
    BY DEF Init, PPc, CPc
  <1>6. EmitState
    BY DEF Init, EmitState
  <1> QED
    BY <1>1, <1>2, <1>3, <1>4, <1>5, <1>6 DEF Init, TypeInv, TypeOK

\* Execute hands the device a payload or, were the command not filled in, None.
LEMMA ContentType ==
    ASSUME TypeOK, NEW c \in Cursor
    PROVE  Content(mem, c) \in Payload \cup {None}
  <1>1. Slot(c) \in 0 .. RingBytes - 1
    BY CursorArithmetic
  <1>2. mem[Slot(c)].load \in Payload \cup {None}
    BY <1>1 DEF TypeOK, Cell
  <1> QED
    BY <1>2 DEF Content

\* What a publication leaves behind.
LEMMA PublishType ==
    ASSUME TypeInv, NEW next, Publish(next),
           next \in {"idle", "reserve", "refit", "drain", "shutdown"}
    PROVE  /\ pub' \in Cursor /\ unflushed' = 0 /\ ppc' = "fence" /\ pret' = next
           /\ ppc' \in PPc /\ pret' \in PPc /\ unflushed' \in 0 .. FlushEvery
  BY RingAssumption DEF TypeInv, TypeOK, Publish, PPc

\* A step of the consumer that leaves the producer and the ring alone and keeps
\* its own types keeps TypeInv.
LEMMA ConsumerMoves ==
    ASSUME TypeInv, UNCHANGED <<producer, mem, pubMem, sleepMem>>,
           rd' \in Cursor, evData' \in BOOLEAN,
           active' \in BOOLEAN, dead' \in BOOLEAN, stop' \in BOOLEAN,
           cpc' \in CPc, crd' \in Cursor, cpub' \in Cursor,
           cn' \in 0 .. RdEvery - 1, sleeping' \in BOOLEAN, device' \in Payload \cup {None}
    PROVE  TypeInv'
  <1>1. /\ ppc' = ppc /\ pret' = pret /\ req' = req /\ wr' = wr /\ rdCache' = rdCache
        /\ unflushed' = unflushed /\ pub' = pub /\ mem' = mem /\ pubMem' = pubMem
        /\ sleepMem' = sleepMem
    BY DEF producer
  <1>2. EmitState'
    BY <1>1 DEF TypeInv, EmitState
  <1>3. TypeOK'
    BY <1>1 DEF TypeInv, TypeOK
  <1> QED
    BY <1>2, <1>3 DEF TypeInv

\* Every step keeps TypeInv.
LEMMA NextTypeInv == TypeInv /\ [Next]_vars => TypeInv'
  <1> SUFFICES ASSUME TypeInv, [Next]_vars
               PROVE  TypeInv'
    OBVIOUS
  <1> USE DEF TypeInv
  <1>1. ASSUME NEW n \in Sizes, Emit(n)
        PROVE  TypeInv'
    <2>1. CASE unflushed >= FlushEvery
      BY <1>1, <2>1, PublishType DEF Emit, TypeOK, EmitState, Cursor, Cell, PPc, shared, flags,
            consumer
    <2>2. CASE ~(unflushed >= FlushEvery)
      BY <1>1, <2>2, RingAssumption DEF Emit, TypeOK, EmitState, Cursor, Cell, PPc, shared,
            flags, consumer
    <2> QED
      BY <2>1, <2>2
  <1>2. ASSUME NEW p \in {"drain", "shutdown"}, Drain(p)
        PROVE  TypeInv'
    <2>1. CASE rd = wr
      BY <1>2, <2>1 DEF Drain, AfterDrain, TypeOK, EmitState, Cursor, Cell, PPc, shared, flags,
            consumer
    <2>2. CASE rd # wr
      BY <1>2, <2>2, PublishType DEF Drain, TypeOK, EmitState, Cursor, Cell, PPc, shared, flags,
            consumer
    <2> QED
      BY <2>1, <2>2
  <1>3. CASE ShutdownDead \/ Drained \/ GiveUp \/ Stop \/ StopWake \/ FlushFence
    <2>1. CASE ShutdownDead
      BY <2>1 DEF ShutdownDead, TypeOK, EmitState, PPc, held, shared, flags, consumer
    <2>2. CASE Drained
      BY <2>2 DEF Drained, Leave, AfterDrain, TypeOK, EmitState, PPc, held, shared, flags, consumer
    <2>3. CASE GiveUp
      BY <2>3 DEF GiveUp, Leave, AfterDrain, TypeOK, EmitState, PPc, held, shared, flags, consumer
    <2>4. CASE Stop
      BY <2>4 DEF Stop, TypeOK, EmitState, PPc, held, shared, flags, consumer
    <2>5. CASE StopWake
      BY <2>5 DEF StopWake, TypeOK, EmitState, PPc, held, flags, consumer
    <2>6. CASE FlushFence
      BY <2>6 DEF FlushFence, TypeOK, EmitState, PPc, held, shared, flags, consumer
    <2> QED
      BY <1>3, <2>1, <2>2, <2>3, <2>4, <2>5, <2>6
  <1>4. CASE FlushWake
    BY <1>4, RingAssumption DEF FlushWake, TypeOK, EmitState, Cursor, Cell, PPc, held, flags, consumer
  <1>5. ASSUME NEW p \in Payload, DirectCall(p)
        PROVE  TypeInv'
    BY <1>5 DEF DirectCall, TypeOK, EmitState, Cursor, Cell, PPc, held, shared, flags, consumer
  <1>6. ASSUME NEW p \in Payload, Fill(p)
        PROVE  TypeInv'
    <2>1. mem' \in [0 .. RingBytes - 1 -> Cell]
      BY <1>6 DEF Fill, TypeOK, Cell
    <2>2. CASE Publish("idle")
      BY <1>6, <2>1, <2>2, PublishType DEF Fill, TypeOK, EmitState, Cursor, PPc, flags, consumer
    <2>3. CASE ppc' = "idle" /\ UNCHANGED <<pret, unflushed, pub>>
      BY <1>6, <2>1, <2>3 DEF Fill, TypeOK, EmitState, Cursor, PPc, flags, consumer
    <2> QED
      BY <1>6, <2>2, <2>3 DEF Fill
  <1>7. CASE Reserve
    <2>1. CASE Claim
      BY <1>7, <2>1, ClaimType DEF Reserve, TypeOK, EmitState, Cursor, PPc, flags, consumer
    <2>2. CASE ppc' = "full" /\ UNCHANGED <<mem, wr, unflushed>>
      BY <1>7, <2>2 DEF Reserve, TypeOK, EmitState, Cursor, PPc, flags, consumer
    <2> QED
      BY <1>7, <2>1, <2>2 DEF Reserve
  <1>8. CASE RingFull
    BY <1>8, PublishType DEF RingFull, TypeOK, EmitState, Cursor, Cell, PPc, shared, flags,
          consumer
  <1>9. CASE Refit
    <2>1. CASE Claim
      BY <1>9, <2>1, ClaimType DEF Refit, TypeOK, EmitState, Cursor, PPc, flags, consumer
    <2>2. CASE ppc' = "full" /\ UNCHANGED <<mem, wr, unflushed>>
      BY <1>9, <2>2 DEF Refit, TypeOK, EmitState, Cursor, PPc, flags, consumer
    <2> QED
      BY <1>9, <2>1, <2>2 DEF Refit
  <1>10. CASE Poll \/ Arm \/ Recheck \/ Woken \/ Timeout
    <2>1. 0 \in 0 .. RdEvery - 1
      BY RingAssumption
    <2>2. UNCHANGED <<producer, mem, pubMem, sleepMem, flags>>
      BY <1>10 DEF Poll, Arm, Recheck, Woken, Timeout, shared
    <2>3. rd' = rd /\ crd' = crd /\ device' = device
      BY <1>10 DEF Poll, Arm, Recheck, Woken, Timeout, shared
    <2>4. evData' \in BOOLEAN
      BY <1>10 DEF Poll, Arm, Recheck, Woken, Timeout, shared, TypeOK
    <2>5. cpc' \in CPc /\ sleeping' \in BOOLEAN
      BY <1>10 DEF Poll, Arm, Recheck, Woken, Timeout, Awake, TypeOK, CPc
    <2>6. cpub' \in Cursor /\ cn' \in 0 .. RdEvery - 1
      BY <1>10, <2>1 DEF Poll, Arm, Recheck, Woken, Timeout, TypeOK
    <2> QED
      BY <2>2, <2>3, <2>4, <2>5, <2>6, ConsumerMoves DEF TypeOK, flags
  <1>11. CASE Begin \/ Fault \/ Die
    <2>1. UNCHANGED <<producer, mem, pubMem, sleepMem, evData, stop, crd, cpub, cn, sleeping, device>>
      BY <1>11 DEF Begin, Fault, Die, shared, flags
    <2>2. active' \in BOOLEAN /\ dead' \in BOOLEAN
      BY <1>11 DEF Begin, Fault, Die, flags, TypeOK
    <2>3. cpc' \in CPc /\ rd' \in Cursor
      BY <1>11 DEF Begin, Fault, Die, shared, TypeOK, CPc
    <2> QED
      BY <2>1, <2>2, <2>3, ConsumerMoves DEF TypeOK
  <1>12. CASE Finish
    <2>1. Slot(crd) \in 0 .. RingBytes - 1
      BY CursorArithmetic DEF TypeOK
    <2>2. mem[Slot(crd)].bytes \in Nat
      BY <2>1 DEF TypeOK, Cell
    <2>3. crd' \in Cursor
      BY <1>12, <2>2, CursorArithmetic DEF Finish, TypeOK
    <2>4. cn' \in 0 .. RdEvery - 1
      BY <1>12, RingAssumption, ModInRange DEF Finish, TypeOK
    <2>5. device' \in Payload \cup {None}
      BY <1>12, ContentType DEF Finish, TypeOK
    <2> QED
      BY <1>12, <2>3, <2>4, <2>5 DEF Finish, TypeOK, EmitState, CPc, producer, flags
  <1>13. CASE CommitPub \/ CommitSleeping
    BY <1>13 DEF CommitPub, CommitSleeping, TypeOK, EmitState, Cursor, Cell, producer, flags,
          consumer
  <1>14. CASE UNCHANGED vars
    BY <1>14 DEF vars, producer, consumer, flags, TypeOK, EmitState, Cursor, Cell
  <1> QED
    BY <1>1, <1>2, <1>3, <1>4, <1>5, <1>6, <1>7, <1>8, <1>9, <1>10, <1>11, <1>12, <1>13, <1>14
       DEF Next, ProducerStep, ConsumerStep

\* TypeInv holds in every reachable state.
LEMMA TypeInvHolds == Spec => []TypeInv
  BY InitTypeInv, NextTypeInv, PTL DEF Spec

\* Every variable of the ring protocol keeps its type: the cursors stay machine
\* words, and Emit never counts more than kFlushEvery unpublished commands.
THEOREM TypeCorrect == Spec => []TypeOK
  <1>1. TypeInv => TypeOK
    BY DEF TypeInv
  <1> QED
    BY <1>1, TypeInvHolds, PTL

------------------------------------------------------------------------------
(* The wake-up. *)

\* Only between the store to "pub" and its fence may the consumer see an old
\* published cursor.
FencedPub == pubMem # pub => ppc = "fence"

\* A consumer past its own fence is seen to be asleep.
FencedSleep == /\ cpc \in {"recheck", "wait"} => sleeping
               /\ cpc = "wait" => sleepMem

WakeInv == FencedPub /\ FencedSleep /\ NoLostWakeup

\* The initial states satisfy WakeInv.
LEMMA InitWakeInv == Init => WakeInv
  BY DEF Init, WakeInv, FencedPub, FencedSleep, NoLostWakeup

\* A step of the producer that neither publishes nor ends a publication leaves
\* the wake-up alone.
LEMMA QuietProducer ==
    ASSUME WakeInv, ppc # "fence", ppc # "wake",
           UNCHANGED <<pub, pubMem, sleepMem, evData, cpc, crd, sleeping>>
    PROVE  WakeInv'
  BY DEF WakeInv, FencedPub, FencedSleep, NoLostWakeup

\* A publication is followed by the fence and the look at the flag.
LEMMA Publication ==
    ASSUME WakeInv, ppc' = "fence",
           UNCHANGED <<pubMem, sleepMem, evData, cpc, crd, sleeping>>
    PROVE  WakeInv'
  BY DEF WakeInv, FencedPub, FencedSleep, NoLostWakeup

\* Every step keeps WakeInv.
LEMMA NextWakeInv == WakeInv /\ [Next]_vars => WakeInv'
  <1> SUFFICES ASSUME WakeInv, [Next]_vars
               PROVE  WakeInv'
    OBVIOUS
  <1>1. ASSUME NEW n \in Sizes, Emit(n)
        PROVE  WakeInv'
    BY <1>1, QuietProducer, Publication DEF Emit, Publish, shared, consumer
  <1>2. ASSUME NEW p \in {"drain", "shutdown"}, Drain(p)
        PROVE  WakeInv'
    BY <1>2, QuietProducer, Publication DEF Drain, Publish, shared, consumer
  <1>3. CASE ShutdownDead \/ Drained \/ GiveUp \/ Stop
    BY <1>3, QuietProducer DEF ShutdownDead, Drained, GiveUp, Leave, Stop, held, shared, consumer
  <1>4. CASE StopWake
    BY <1>4 DEF StopWake, held, consumer, WakeInv, FencedPub, FencedSleep, NoLostWakeup
  <1>5. CASE FlushFence
    BY <1>5 DEF FlushFence, held, shared, consumer, WakeInv, FencedPub, FencedSleep, NoLostWakeup
  <1>6. CASE FlushWake
    <2>1. FencedPub' /\ FencedSleep'
      BY <1>6 DEF FlushWake, held, consumer, WakeInv, FencedPub, FencedSleep
    <2>2. cpc' = "wait" => evData'
      BY <1>6 DEF FlushWake, consumer, WakeInv, FencedSleep
    <2> QED
      BY <2>1, <2>2 DEF WakeInv, NoLostWakeup
  <1>7. ASSUME NEW p \in Payload, DirectCall(p) \/ Fill(p)
        PROVE  WakeInv'
    BY <1>7, QuietProducer, Publication DEF DirectCall, Fill, Publish, held, shared, consumer
  <1>8. CASE Reserve \/ RingFull \/ Refit
    BY <1>8, QuietProducer, Publication DEF Reserve, RingFull, Refit, Publish, shared, consumer
  <1>9. CASE Poll \/ Arm
    BY <1>9 DEF Poll, Arm, producer, shared, WakeInv, FencedPub, FencedSleep, NoLostWakeup
  <1>10. CASE Recheck
    BY <1>10 DEF Recheck, Awake, producer, shared, WakeInv, FencedPub, FencedSleep, NoLostWakeup
  <1>11. CASE Woken \/ Timeout
    BY <1>11 DEF Woken, Timeout, Awake, producer, shared, WakeInv, FencedPub, FencedSleep,
          NoLostWakeup
  <1>12. CASE Begin \/ Finish
    BY <1>12 DEF Begin, Finish, producer, WakeInv, FencedPub, FencedSleep, NoLostWakeup
  <1>13. CASE Fault \/ Die
    BY <1>13 DEF Fault, Die, producer, shared, WakeInv, FencedPub, FencedSleep, NoLostWakeup
  <1>14. CASE CommitPub \/ CommitSleeping
    BY <1>14 DEF CommitPub, CommitSleeping, producer, consumer, WakeInv, FencedPub, FencedSleep,
          NoLostWakeup
  <1>15. CASE UNCHANGED vars
    BY <1>15 DEF vars, producer, consumer, WakeInv, FencedPub, FencedSleep, NoLostWakeup
  <1> QED
    BY <1>1, <1>2, <1>3, <1>4, <1>5, <1>6, <1>7, <1>8, <1>9, <1>10, <1>11, <1>12, <1>13, <1>14,
       <1>15
       DEF Next, ProducerStep, ConsumerStep

\* The render thread never sleeps on commands it could see unless the wake-up
\* is on its way: Flush's fence and RenderThreadProc's fence are enough, under
\* TSO, for every ring and every batch length.
THEOREM WakeupCorrect == Spec => []NoLostWakeup
  <1>1. WakeInv => NoLostWakeup
    BY DEF WakeInv
  <1> QED
    BY <1>1, InitWakeInv, NextWakeInv, PTL DEF Spec

------------------------------------------------------------------------------
(* The cursors and the commands between them. *)

\* How far a cursor is ahead of the consumer's.
Span(c) == Dist(c, crd)

\* What the main thread has finished writing reaches to Written, and is published
\* up to pub at most: a command not filled in yet is never published.
Order ==
    /\ Dist(wr, rd) = Dist(crd, rd) + Span(wr)
    /\ Dist(rd, rdCache) + Dist(wr, rd) <= RingBytes
    /\ Span(cpub) <= Span(pubMem) /\ Span(pubMem) <= Span(pub)
    /\ Span(pub) <= Span(Written) /\ Span(Written) <= Span(wr)

\* The command at c is in one piece and ends at the next cursor of B.
Whole(c, B) ==
    LET n == mem[Slot(c)].bytes
    IN  /\ n >= 1 /\ Slot(c) + n <= RingBytes
        /\ (c + n) % Word \in B /\ Span(c) + n <= Span(wr)
        /\ \A d \in B : Span(d) <= Span(c) \/ Span(d) >= Span(c) + n

\* B cuts what lies between the consumer's cursor and the producer's into
\* commands, and every cursor either of them keeps is one of the cuts.
Cut(B) == /\ {crd, cpub, pubMem, pub, Written, wr} \subseteq B
          /\ \A c \in B : Span(c) <= Span(wr)
          /\ \A c \in B \ {wr} : Whole(c, B)

\* The command being filled in.
Filling == ppc = "fill" => LET h == mem[Slot(Written)]
                           IN  h.kind = "cmd" /\ h.bytes = req

\* What the ring holds.
Held == Order /\ Filling /\ \E B \in SUBSET Cursor : Cut(B)

\* What is known of the steps in between.
Between == /\ dead => ~Alive
           /\ ~active => stop \/ ~Alive
           /\ ppc = "direct" /\ Alive => rd = wr
           /\ cpc = "exec" => crd # cpub

RingInv == /\ Between
           /\ Alive => Held

\* Distances add up as long as they stay below the word.
LEMMA DistChain ==
    ASSUME NEW a \in Cursor, NEW b \in Cursor, NEW c \in Cursor
    PROVE  /\ Dist(a, b) \in 0 .. Word - 1 /\ Dist(a, a) = 0
           /\ Dist(a, b) = 0 => a = b
           /\ Dist(a, c) = Dist(b, c) => a = b
           /\ Dist(a, b) + Dist(b, c) < Word => Dist(a, c) = Dist(a, b) + Dist(b, c)
           /\ Dist(b, c) <= Dist(a, c) => Dist(a, c) = Dist(a, b) + Dist(b, c)
  <1>1. Word \in Nat \ {0} /\ a \in 0 .. Word - 1 /\ b \in 0 .. Word - 1 /\ c \in 0 .. Word - 1
    BY RingAssumption DEF Cursor
  <1> QED
    BY <1>1, DistWord

\* A cursor that moves on moves away from those behind it.
LEMMA DistAdd ==
    ASSUME NEW a \in Cursor, NEW b \in Cursor, NEW n \in 0 .. RingBytes, Dist(a, b) <= RingBytes
    PROVE  /\ (a + n) % Word \in Cursor
           /\ Dist((a + n) % Word, b) = Dist(a, b) + n
           /\ Slot((a + n) % Word) = Slot(a + n)
  <1>1. /\ Word \in Nat \ {0} /\ a \in 0 .. Word - 1 /\ b \in 0 .. Word - 1
        /\ RingBytes \in Nat \ {0} /\ Word >= 3 * RingBytes /\ n \in 0 .. Word /\ n \in Nat
    BY RingAssumption DEF Cursor
  <1>2. (a + n) % Word \in Cursor
    BY CursorArithmetic
  <1>3. (a + n) % Word = IF a + n < Word THEN a + n ELSE a + n - Word
    BY <1>1, AddWord
  <1>4. Dist((a + n) % Word, b) = Dist(a, b) + n
    BY <1>1, <1>2, <1>3, DistWord
  <1>5. a + n \in Int
    BY <1>1
  <1> QED
    BY <1>2, <1>4, <1>5, SlotWord

\* A command and the padding before it are no larger than the ring, and the
\* command does not run over the ring's end.
LEMMA PadFacts ==
    ASSUME wr \in Cursor, NEW n \in Sizes
    PROVE  /\ n \in 1 .. RingBytes /\ Pad(n) \in 0 .. RingBytes /\ Pad(n) + n \in 1 .. RingBytes
           /\ Start(n) \in Cursor
           /\ Slot(wr) \in 0 .. RingBytes - 1
           /\ Pad(n) > 0 => Slot(wr) + Pad(n) = RingBytes
           /\ Slot(Start(n)) = IF Pad(n) > 0 THEN 0 ELSE Slot(wr)
           /\ Slot(Start(n)) + n <= RingBytes
  <1>1. n \in Nat \ {0} /\ 2 * n - 1 <= RingBytes /\ RingBytes \in Nat \ {0} /\ wr \in Int
    BY RingAssumption DEF Cursor
  <1>2. Slot(wr) \in 0 .. RingBytes - 1
    BY CursorArithmetic
  <1>3. /\ Pad(n) \in 0 .. RingBytes /\ Pad(n) + n \in 1 .. RingBytes
        /\ Pad(n) > 0 => Slot(wr) + Pad(n) = RingBytes
        /\ Pad(n) = 0 => Slot(wr) + n <= RingBytes
    BY <1>1, <1>2 DEF Pad
  <1>4. Start(n) \in Cursor
    BY <1>1, PadInRange
  <1>5. Slot(Start(n)) = Slot(wr + Pad(n))
    <2>1. wr + Pad(n) \in Int
      BY <1>1, <1>3
    <2> QED
      BY <2>1, SlotWord DEF Start
  <1>6. Slot(Start(n)) = IF Slot(wr) + Pad(n) < RingBytes THEN Slot(wr) + Pad(n)
                         ELSE Slot(wr) + Pad(n) - RingBytes
    BY <1>1, <1>3, <1>5, SlotAdd
  <1> QED
    BY <1>1, <1>2, <1>3, <1>4, <1>6

\* What RingReserve's test says: the padding and the command fit between the
\* producer's cursor and the reading of the consumer's.
LEMMA FitsMeans ==
    ASSUME wr \in Cursor, NEW cache \in Cursor, NEW n \in Sizes, Dist(wr, cache) <= RingBytes,
           Fits(n, cache)
    PROVE  Dist(wr, cache) + Pad(n) + n <= RingBytes
  <1>1. Pad(n) \in 0 .. RingBytes /\ n \in 1 .. RingBytes /\ Pad(n) + n \in 1 .. RingBytes
    BY PadFacts
  <1>2. /\ Word \in Nat \ {0} /\ RingBytes \in Nat \ {0} /\ Word >= 3 * RingBytes
        /\ wr \in 0 .. Word - 1 /\ cache \in 0 .. Word - 1
    BY RingAssumption DEF Cursor
  <1>3. Dist(wr, cache) \in Nat /\ Dist(wr, cache) + Pad(n) + n \in 0 .. Word - 1
    BY <1>1, <1>2, DistChain
  <1>4. /\ (wr + Pad(n) + n) - cache \in Int
        /\ \/ (wr + Pad(n) + n) - cache = Dist(wr, cache) + Pad(n) + n
           \/ (wr + Pad(n) + n) - cache = (Dist(wr, cache) + Pad(n) + n) - Word
    BY <1>1, <1>2, DistWord
  <1>5. ((wr + Pad(n) + n) - cache) % Word = Dist(wr, cache) + Pad(n) + n
    BY <1>2, <1>3, <1>4, ModNear
  <1> QED
    BY <1>5 DEF Fits, Dist

\* What every cursor and command of a cut ring is.
LEMMA CutFacts ==
    ASSUME TypeInv, NEW B \in SUBSET Cursor, Cut(B), Order
    PROVE  /\ Written \in Cursor
           /\ Dist(crd, rd) \in Nat /\ Dist(rd, rdCache) \in Nat
           /\ \A c \in B : Span(c) \in 0 .. RingBytes /\ Slot(c) \in 0 .. RingBytes - 1
           /\ \A c \in B : mem[Slot(c)].bytes \in 0 .. RingBytes
           /\ Span(crd) = 0 /\ \A c \in B : Span(c) = 0 => c = crd
           /\ \A c, d \in B : Span(c) = Span(d) => c = d
  <1>1. /\ wr \in Cursor /\ crd \in Cursor /\ rd \in Cursor /\ rdCache \in Cursor
        /\ Written \in Cursor /\ B \subseteq Cursor
    BY DEF TypeInv, TypeOK, Cut
  <1>2. Dist(crd, rd) \in Nat /\ Dist(rd, rdCache) \in Nat /\ Dist(wr, rd) \in Nat
    BY <1>1, DistChain
  <1>3. Span(wr) <= RingBytes
    <2>1. Span(wr) \in Nat /\ RingBytes \in Nat
      BY <1>1, DistChain, RingAssumption DEF Span
    <2> QED
      BY <1>2, <2>1 DEF Order
  <1>4. ASSUME NEW c \in B
        PROVE  Span(c) \in 0 .. RingBytes /\ (Span(c) = 0 => c = crd)
    <2>1. Span(c) \in Nat /\ Span(wr) \in Nat /\ (Span(c) = 0 => c = crd)
      BY <1>1, DistChain DEF Span
    <2> QED
      BY <1>3, <2>1, RingAssumption DEF Cut
  <1>5. ASSUME NEW c \in B
        PROVE  Slot(c) \in 0 .. RingBytes - 1 /\ mem[Slot(c)].bytes \in 0 .. RingBytes
    <2>1. Slot(c) \in 0 .. RingBytes - 1
      BY <1>1, CursorArithmetic
    <2>2. mem[Slot(c)] \in Cell
      BY <2>1 DEF TypeInv, TypeOK
    <2> QED
      BY <2>1, <2>2 DEF Cell
  <1>6. Span(crd) = 0
    BY <1>1, DistChain DEF Span
  <1>7. ASSUME NEW c \in B, NEW d \in B, Span(c) = Span(d)
        PROVE  c = d
    BY <1>1, <1>7, DistChain DEF Span
  <1> QED
    BY <1>1, <1>2, <1>4, <1>5, <1>6, <1>7

\* The same cuts do when no command and neither end of them changes.
LEMMA CutKept ==
    ASSUME NEW B \in SUBSET Cursor, Cut(B), UNCHANGED <<crd, wr>>,
           \A c \in B \ {wr} : mem'[Slot(c)].bytes = mem[Slot(c)].bytes,
           {cpub', pubMem', pub', Written'} \subseteq B
    PROVE  Cut(B)'
  <1>1. \A c \in B : Span(c)' = Span(c)
    BY DEF Span, Dist
  <1>2. Span(wr)' = Span(wr)
    BY DEF Span, Dist
  <1>3. \A c \in B \ {wr} : Slot(c)' = Slot(c)
    BY DEF Slot
  <1>4. \A c \in B \ {wr} : Whole(c, B)'
    BY <1>1, <1>2, <1>3 DEF Cut, Whole
  <1>5. {crd', wr'} \subseteq B
    BY DEF Cut
  <1> QED
    BY <1>1, <1>2, <1>4, <1>5 DEF Cut

\* The slot of a cursor, counted from the consumer's.
LEMMA SlotOfSpan ==
    ASSUME crd \in Cursor, NEW c \in Cursor, Span(c) <= RingBytes
    PROVE  /\ Slot(crd) \in 0 .. RingBytes - 1 /\ Span(c) \in 0 .. RingBytes
           /\ Slot(c) = IF Slot(crd) + Span(c) < RingBytes THEN Slot(crd) + Span(c)
                        ELSE Slot(crd) + Span(c) - RingBytes
  <1>1. /\ Word \in Nat \ {0} /\ RingBytes \in Nat \ {0} /\ Word >= 3 * RingBytes
        /\ crd \in 0 .. Word - 1 /\ c \in 0 .. Word - 1
    BY RingAssumption DEF Cursor
  <1>2. Slot(crd) \in 0 .. RingBytes - 1
    BY CursorArithmetic
  <1>3. Span(c) \in 0 .. RingBytes /\ Span(c) \in 0 .. Word
    BY <1>1, DistChain DEF Span
  <1>4. (crd + Span(c)) % Word = c
    <2>1. Span(c) = IF crd <= c THEN c - crd ELSE c - crd + Word
      BY DistWord DEF Span
    <2>2. (crd + Span(c)) % Word = IF crd + Span(c) < Word THEN crd + Span(c)
                                   ELSE crd + Span(c) - Word
      BY <1>3, AddWord
    <2> QED
      BY <1>1, <2>1, <2>2
  <1>5. Slot(c) = Slot(crd + Span(c))
    <2>1. crd + Span(c) \in Int
      BY <1>1, <1>3
    <2> QED
      BY <1>4, <2>1, SlotWord
  <1>6. crd \in Int /\ Span(c) \in 0 .. RingBytes
    BY <1>1, <1>3
  <1>7. Slot(crd + Span(c)) = IF Slot(crd) + Span(c) < RingBytes THEN Slot(crd) + Span(c)
                              ELSE Slot(crd) + Span(c) - RingBytes
    BY ONLY <1>6, SlotAdd
  <1> QED
    BY <1>2, <1>5, <1>6, <1>7

\* A command written n units from c ends where it started less n.
LEMMA BackAgain ==
    ASSUME NEW c \in Cursor, NEW n \in 0 .. RingBytes
    PROVE  (((c + n) % Word) - n) % Word = c
  <1>1. /\ Word \in Nat \ {0} /\ RingBytes \in Nat \ {0} /\ Word >= 3 * RingBytes
        /\ c \in 0 .. Word - 1 /\ n \in 0 .. Word /\ n \in Nat
    BY RingAssumption DEF Cursor
  <1>2. (c + n) % Word = IF c + n < Word THEN c + n ELSE c + n - Word
    BY <1>1, AddWord
  <1>3. ((c + n) % Word) - n = c \/ ((c + n) % Word) - n = c - Word
    BY <1>1, <1>2
  <1>4. ((c + n) % Word) - n \in Int
    BY <1>1, <1>2
  <1> QED
    BY <1>1, <1>3, <1>4, ModNear

\* Where a command of n units goes when it fits.
LEMMA StartFacts ==
    ASSUME TypeInv, Order, NEW B \in SUBSET Cursor, Cut(B), NEW n \in Sizes, NEW cache,
           cache \in {rdCache, rd}, Fits(n, cache)
    PROVE  /\ Dist(rd, cache) + Dist(wr, rd) + Pad(n) + n <= RingBytes
           /\ Dist(rd, cache) \in Nat /\ Dist(wr, rd) \in Nat
           /\ Dist(wr, rd) = Dist(crd, rd) + Span(wr)
           /\ Span(wr) \in Nat /\ Span(wr) + Pad(n) + n <= RingBytes
           /\ Span(Start(n)) = Span(wr) + Pad(n)
           /\ (Start(n) + n) % Word \in Cursor
           /\ Span((Start(n) + n) % Word) = Span(wr) + Pad(n) + n
           /\ Dist((Start(n) + n) % Word, rd) = Dist(wr, rd) + Pad(n) + n
           /\ (((Start(n) + n) % Word) - n) % Word = Start(n)
  <1>1. /\ wr \in Cursor /\ crd \in Cursor /\ rd \in Cursor /\ rdCache \in Cursor
        /\ RingBytes \in Nat \ {0} /\ Word \in Nat /\ Word >= 3 * RingBytes
    BY RingAssumption DEF TypeInv, TypeOK
  <1>2. /\ Dist(wr, rd) \in Nat /\ Dist(rd, rdCache) \in Nat /\ Dist(rd, rd) = 0
        /\ Dist(crd, rd) \in Nat /\ Span(wr) \in Nat
    BY <1>1, DistChain DEF Span
  <1>3. Dist(wr, cache) = Dist(wr, rd) + Dist(rd, cache) /\ Dist(wr, cache) <= RingBytes
    <2>1. CASE cache = rd
      BY <1>1, <1>2, <2>1 DEF Order
    <2>2. CASE cache = rdCache
      <3>1. Dist(wr, rd) + Dist(rd, rdCache) < Word
        BY <1>1, <1>2 DEF Order
      <3> QED
        BY <1>1, <1>2, <2>2, <3>1, DistChain DEF Order
    <2> QED
      BY <2>1, <2>2
  <1>4. Dist(wr, cache) + Pad(n) + n <= RingBytes
    BY <1>1, <1>3, FitsMeans
  <1>5. /\ n \in 1 .. RingBytes /\ Pad(n) \in 0 .. RingBytes /\ Start(n) \in Cursor
    BY <1>1, PadFacts
  <1>6. /\ Dist(rd, cache) \in Nat
        /\ Dist(rd, cache) + Dist(wr, rd) + Pad(n) + n <= RingBytes
    BY <1>1, <1>2, <1>3, <1>4, <1>5
  <1>7. Dist(wr, rd) = Dist(crd, rd) + Span(wr) /\ Span(wr) + Pad(n) + n <= RingBytes
    BY <1>2, <1>5, <1>6, <1>1 DEF Order
  <1>8. Span(Start(n)) = Span(wr) + Pad(n) /\ Dist(Start(n), rd) = Dist(wr, rd) + Pad(n)
    BY <1>1, <1>2, <1>5, <1>6, <1>7, DistAdd DEF Start, Span
  <1>9. /\ (Start(n) + n) % Word \in Cursor
        /\ Span((Start(n) + n) % Word) = Span(wr) + Pad(n) + n
        /\ Dist((Start(n) + n) % Word, rd) = Dist(wr, rd) + Pad(n) + n
    <2>1. Dist(Start(n), crd) <= RingBytes /\ Dist(Start(n), rd) <= RingBytes
      BY <1>1, <1>2, <1>5, <1>6, <1>7, <1>8 DEF Span
    <2>2. n \in 0 .. RingBytes
      BY <1>5
    <2>3. (Start(n) + n) % Word \in Cursor
          /\ Dist((Start(n) + n) % Word, crd) = Dist(Start(n), crd) + n
          /\ Dist((Start(n) + n) % Word, rd) = Dist(Start(n), rd) + n
      BY <1>1, <1>5, <2>1, <2>2, DistAdd
    <2> QED
      BY <1>8, <2>3 DEF Span
  <1>10. (((Start(n) + n) % Word) - n) % Word = Start(n)
    BY <1>5, BackAgain
  <1> QED
    BY <1>2, <1>6, <1>7, <1>8, <1>9, <1>10

\* Units of the ring less than a ring ahead of the consumer have slots of their own.
LEMMA Apart ==
    ASSUME crd \in Cursor, NEW c \in Cursor, NEW k \in Nat, NEW d \in Cursor, NEW m \in Nat,
           Slot(c) + k < RingBytes, Slot(d) + m < RingBytes,
           Span(c) + k < Span(d) + m, Span(d) + m < RingBytes
    PROVE  Slot(c) + k # Slot(d) + m
  <1>1. Span(c) \in Nat /\ Span(d) \in Nat /\ RingBytes \in Nat
    BY DistChain, RingAssumption DEF Span
  <1>2. Span(c) <= RingBytes /\ Span(d) <= RingBytes
    BY <1>1
  <1>3. /\ Slot(crd) \in 0 .. RingBytes - 1
        /\ Slot(c) = IF Slot(crd) + Span(c) < RingBytes THEN Slot(crd) + Span(c)
                     ELSE Slot(crd) + Span(c) - RingBytes
        /\ Slot(d) = IF Slot(crd) + Span(d) < RingBytes THEN Slot(crd) + Span(d)
                     ELSE Slot(crd) + Span(d) - RingBytes
    BY <1>2, SlotOfSpan
  <1> QED
    BY <1>1, <1>3

\* A claim leaves every command before it alone.
LEMMA ClaimApart ==
    ASSUME TypeInv, Order, NEW B \in SUBSET Cursor, Cut(B), NEW cache,
           req \in Sizes, cache \in {rdCache, rd}, Fits(req, cache), Claim,
           NEW c \in B \ {wr}, NEW k \in 0 .. mem[Slot(c)].bytes - 1
    PROVE  Slot(c) + k \in 0 .. RingBytes - 1 /\ mem'[Slot(c) + k] = mem[Slot(c) + k]
  <1>1. /\ wr \in Cursor /\ crd \in Cursor /\ c \in Cursor /\ wr \in B /\ c \in B
        /\ RingBytes \in Nat \ {0}
    BY RingAssumption DEF TypeInv, TypeOK, Cut
  <1>2. /\ Slot(c) \in 0 .. RingBytes - 1 /\ mem[Slot(c)].bytes \in 0 .. RingBytes
        /\ Slot(c) + mem[Slot(c)].bytes <= RingBytes
        /\ Span(c) + mem[Slot(c)].bytes <= Span(wr) /\ Span(c) \in Nat
    BY CutFacts, <1>1 DEF Cut, Whole
  <1>3. k \in Nat /\ Slot(c) + k \in 0 .. RingBytes - 1 /\ Span(c) + k < Span(wr)
    BY <1>1, <1>2, CutFacts
  <1>4. /\ req \in 1 .. RingBytes /\ Pad(req) \in 0 .. RingBytes /\ Start(req) \in Cursor
        /\ Slot(wr) \in 0 .. RingBytes - 1
        /\ Slot(Start(req)) + req <= RingBytes
    BY <1>1, PadFacts
  <1>5. Span(wr) \in Nat /\ Span(wr) + Pad(req) + req <= RingBytes
        /\ Span(Start(req)) = Span(wr) + Pad(req)
    BY StartFacts
  <1>6. Slot(c) + k # Slot(wr)
    <2>1. Span(c) + k < Span(wr) + 0 /\ Span(wr) + 0 < RingBytes /\ Slot(wr) + 0 < RingBytes
      BY <1>1, <1>2, <1>3, <1>4, <1>5
    <2>2. Slot(c) + k < RingBytes /\ 0 \in Nat
      BY <1>1, <1>3
    <2>3. Slot(c) + k # Slot(wr) + 0
      BY <1>1, <1>3, <2>1, <2>2, Apart
    <2> QED
      BY <1>4, <2>3
  <1>7. ASSUME NEW m \in 0 .. req - 1
        PROVE  Slot(c) + k # Slot(Start(req)) + m
    <2>1. m \in Nat /\ Slot(c) + k < RingBytes
      BY <1>1, <1>3, <1>4
    <2>2. Slot(Start(req)) \in 0 .. RingBytes - 1
      BY <1>4, CursorArithmetic
    <2>3. Slot(Start(req)) + m < RingBytes
      BY <1>1, <1>4, <2>1, <2>2
    <2>4. Span(c) + k < Span(Start(req)) + m /\ Span(Start(req)) + m < RingBytes
      BY <1>1, <1>2, <1>3, <1>4, <1>5, <2>1
    <2> QED
      BY <1>1, <1>3, <1>4, <2>1, <2>3, <2>4, Apart
  <1>8. Slot(c) + k \notin Slot(Start(req)) .. Slot(Start(req)) + req - 1
    <2>1. Slot(Start(req)) \in Int
      BY <1>1, <1>4, CursorArithmetic
    <2> SUFFICES ASSUME Slot(c) + k \in Slot(Start(req)) .. Slot(Start(req)) + req - 1
                 PROVE  FALSE
      OBVIOUS
    <2>2. (Slot(c) + k) - Slot(Start(req)) \in 0 .. req - 1
      BY <1>1, <1>2, <1>3, <1>4, <2>1
    <2>3. Slot(c) + k = Slot(Start(req)) + ((Slot(c) + k) - Slot(Start(req)))
      BY <1>2, <1>3, <2>1
    <2> QED
      BY <1>7, <2>2, <2>3
  <1>9. Slot(Start(req)) \in 0 .. RingBytes - 1
    BY <1>4, CursorArithmetic
  <1> QED
    BY <1>3, <1>4, <1>6, <1>8, <1>9 DEF Claim

\* A claim adds one command to the ring, and the padding before it if there is any.
LEMMA ClaimKeeps ==
    ASSUME TypeInv, Order, NEW B \in SUBSET Cursor, Cut(B),
           ppc \in {"reserve", "refit"}, rdCache' \in {rdCache, rd}, Fits(req, rdCache'), Claim,
           UNCHANGED <<req, crd, cpub, pubMem, pub, rd>>,
           NEW s \in Cursor, s = Start(req), NEW w, w = wr'
    PROVE  /\ Order' /\ Filling' /\ Written' = s /\ Written = wr
           /\ Cut(B \cup {s, w})' /\ B \cup {s, w} \subseteq Cursor
           /\ Pad(req) > 0 => mem'[Slot(wr)] = NewCell("wrap", Pad(req))
  <1> DEFINE D == B \cup {s, w}
  <1>1. /\ wr \in Cursor /\ crd \in Cursor /\ rd \in Cursor /\ wr \in B /\ crd \in B
        /\ cpub \in B /\ pubMem \in B /\ pub \in B
        /\ RingBytes \in Nat \ {0} /\ req \in Sizes /\ Written = wr
    BY RingAssumption DEF TypeInv, TypeOK, EmitState, Cut, Written
  <1>2. /\ req \in 1 .. RingBytes /\ Pad(req) \in 0 .. RingBytes /\ Start(req) \in Cursor
        /\ Pad(req) + req <= RingBytes /\ Slot(wr) \in 0 .. RingBytes - 1
        /\ Pad(req) > 0 => Slot(wr) + Pad(req) = RingBytes
        /\ Slot(Start(req)) = IF Pad(req) > 0 THEN 0 ELSE Slot(wr)
        /\ Slot(Start(req)) + req <= RingBytes
    BY <1>1, PadFacts
  <1>3. /\ Dist(rd, rdCache') + Dist(wr, rd) + Pad(req) + req <= RingBytes
        /\ Dist(rd, rdCache') \in Nat /\ Dist(wr, rd) \in Nat
        /\ Dist(wr, rd) = Dist(crd, rd) + Span(wr)
        /\ Span(wr) \in Nat /\ Span(wr) + Pad(req) + req <= RingBytes
        /\ Span(Start(req)) = Span(wr) + Pad(req)
        /\ (Start(req) + req) % Word \in Cursor
        /\ Span((Start(req) + req) % Word) = Span(wr) + Pad(req) + req
        /\ Dist((Start(req) + req) % Word, rd) = Dist(wr, rd) + Pad(req) + req
        /\ (((Start(req) + req) % Word) - req) % Word = Start(req)
    BY <1>1, StartFacts
  <1>4. wr' = (Start(req) + req) % Word /\ ppc' = "fill" /\ req' = req
    BY DEF Claim
  <1>5. Written' = Start(req)
    BY <1>3, <1>4 DEF Written
  <1>6. \A c : Span(c)' = Dist(c', crd)
    BY DEF Span, Dist
  <1>7. Span(wr)' = Span(wr) + Pad(req) + req /\ Span(Written)' = Span(wr) + Pad(req)
    BY <1>3, <1>4, <1>5 DEF Span, Dist
  <1>8. Order'
    <2>1. Dist(wr, rd)' = Dist(wr, rd) + Pad(req) + req /\ Dist(crd, rd)' = Dist(crd, rd)
      BY <1>3, <1>4 DEF Dist
    <2>2. Dist(rd, rdCache)' = Dist(rd, rdCache')
      BY DEF Dist
    <2>3. /\ Span(cpub)' = Span(cpub) /\ Span(pubMem)' = Span(pubMem) /\ Span(pub)' = Span(pub)
      BY DEF Span, Dist
    <2>4. /\ Dist(wr, rd)' = Dist(crd, rd)' + Span(wr)'
          /\ Dist(rd, rdCache)' + Dist(wr, rd)' <= RingBytes
      <3>1. Dist(crd, rd) \in Nat
        BY <1>1, DistChain
      <3> QED
        BY <1>1, <1>2, <1>3, <1>7, <2>1, <2>2, <3>1
    <2>5. Span(pub)' <= Span(Written)' /\ Span(Written)' <= Span(wr)'
      <3>1. Span(pub) \in Nat /\ Span(pub) <= Span(wr)
        BY <1>1, CutFacts DEF Order
      <3> QED
        BY <1>2, <1>3, <1>7, <2>3, <3>1
    <2> QED
      BY <2>3, <2>4, <2>5 DEF Order
  <1>9. Slot(Start(req)) \in 0 .. RingBytes - 1
    BY <1>2, CursorArithmetic
  <1>10. mem'[Slot(Start(req))] = NewCell("cmd", req)
    BY <1>1, <1>2, <1>9 DEF Claim
  <1>11. Pad(req) > 0 => mem'[Slot(wr)] = NewCell("wrap", Pad(req))
    BY <1>1, <1>2 DEF Claim
  <1>12. Filling'
    BY <1>4, <1>5, <1>10 DEF Filling, NewCell, Slot
  <1>13. Cut(D)'
    <2>1. /\ Span(s)' = Span(wr) + Pad(req) /\ Span(w)' = Span(wr) + Pad(req) + req
          /\ w = (s + req) % Word /\ w \in Cursor
      BY <1>3, <1>4 DEF Span, Dist
    <2>2. \A c \in B : Span(c)' = Span(c) /\ Span(c) \in Nat /\ Span(c) <= Span(wr)
      BY CutFacts DEF Span, Dist, Cut
    <2>3. {crd', cpub', pubMem', pub', Written', wr'} \subseteq D
      BY <1>1, <1>5
    <2>4. \A c \in D : Span(c)' <= Span(wr)'
      BY <1>2, <1>3, <1>7, <2>1, <2>2
    <2>5. ASSUME NEW c \in B, c # wr
          PROVE  Whole(c, D)'
      <3>1. Whole(c, B)
        BY <2>5 DEF Cut
      <3>2. mem'[Slot(c)] = mem[Slot(c)]
        <4>1. 0 \in 0 .. mem[Slot(c)].bytes - 1 /\ Slot(c) + 0 = Slot(c)
          BY <3>1, CutFacts DEF Whole
        <4> QED
          BY <1>1, <2>5, <4>1, ClaimApart
      <3>3. mem[Slot(c)].bytes \in Nat /\ (c + mem[Slot(c)].bytes) % Word \in B
            /\ Span(c) + mem[Slot(c)].bytes <= Span(wr)
        BY <3>1, CutFacts DEF Whole
      <3>4. \A d \in D : Span(d)' <= Span(c)' \/ Span(d)' >= Span(c)' + mem[Slot(c)].bytes
        BY <1>2, <1>3, <2>1, <2>2, <3>1, <3>3 DEF Whole
      <3>5. Span(c)' + mem[Slot(c)].bytes <= Span(wr)'
        BY <1>2, <1>3, <1>7, <2>2, <3>3
      <3> QED
        BY <3>1, <3>2, <3>3, <3>4, <3>5 DEF Whole, Slot
    <2>6. Whole(s, D)'
      <3>1. mem'[Slot(s)].bytes = req
        BY <1>10 DEF NewCell
      <3>2. \A d \in D : Span(d)' <= Span(s)' \/ Span(d)' >= Span(s)' + req
        BY <1>2, <1>3, <2>1, <2>2
      <3>3. Slot(s)' = Slot(s) /\ Slot(s) + req <= RingBytes
        BY <1>2 DEF Slot
      <3>4. Span(s)' + req <= Span(wr)'
        BY <1>2, <1>3, <1>7, <2>1
      <3> QED
        BY <1>2, <2>1, <3>1, <3>2, <3>3, <3>4 DEF Whole
    <2>7. CASE Pad(req) = 0
      <3>1. s = wr
        BY <1>1, <1>2, <2>7, AddWord, DistChain, <1>3 DEF Span
      <3> QED
        BY <1>4, <2>1, <2>3, <2>4, <2>5, <2>6, <3>1 DEF Cut
    <2>8. CASE Pad(req) > 0
      <3>1. PICK v \in B : v = wr
        BY <1>1
      <3>2. mem'[Slot(v)].bytes = Pad(req) /\ Slot(v)' = Slot(v) /\ Slot(v) + Pad(req) <= RingBytes
        BY <1>2, <1>11, <2>8, <3>1 DEF NewCell, Slot
      <3>3. (v + Pad(req)) % Word = s /\ Span(v)' = Span(wr)
        BY <2>2, <3>1 DEF Start
      <3>4. \A d \in D : Span(d)' <= Span(v)' \/ Span(d)' >= Span(v)' + Pad(req)
        BY <1>2, <1>3, <2>1, <2>2, <3>3
      <3>5. Pad(req) >= 1 /\ Span(v)' + Pad(req) <= Span(wr)'
        BY <1>2, <1>3, <1>7, <2>8, <3>3
      <3>6. Whole(v, D)'
        BY <1>2, <3>2, <3>3, <3>4, <3>5 DEF Whole
      <3> QED
        BY <1>4, <2>1, <2>3, <2>4, <2>5, <2>6, <3>1, <3>6 DEF Cut
    <2> QED
      BY <1>2, <2>7, <2>8
  <1> QED
    BY <1>1, <1>3, <1>4, <1>5, <1>8, <1>11, <1>12, <1>13

\* The command about to be run lies in front of everything published, and so of
\* what the main thread is writing.
LEMMA NextCommand ==
    ASSUME TypeInv, Between, Order, NEW B \in SUBSET Cursor, Cut(B), cpc = "exec"
    PROVE  LET n == mem[Slot(crd)].bytes
           IN  /\ crd # wr /\ crd # Written
               /\ n \in 1 .. RingBytes /\ Slot(crd) \in 0 .. RingBytes - 1
               /\ Slot(crd) + n <= RingBytes
               /\ (crd + n) % Word \in B /\ Dist((crd + n) % Word, rd) = Dist(crd, rd) + n
               /\ \A d \in B \ {crd} : /\ Span(d) >= n
                                       /\ Dist(d, (crd + n) % Word) = Span(d) - n
               /\ {cpub, pubMem, pub, Written, wr} \subseteq B \ {crd}
  <1> DEFINE n == mem[Slot(crd)].bytes
  <1>1. /\ crd \in Cursor /\ rd \in Cursor /\ RingBytes \in Nat \ {0}
        /\ {crd, cpub, pubMem, pub, Written, wr} \subseteq B
    BY RingAssumption DEF TypeInv, TypeOK, Cut
  <1>2. /\ \A c \in B : Span(c) \in 0 .. RingBytes /\ (Span(c) = 0 => c = crd)
        /\ Span(crd) = 0
    BY CutFacts
  <1>3. Span(cpub) > 0
    BY <1>1, <1>2 DEF Between
  <1>4. Span(pubMem) > 0 /\ Span(pub) > 0 /\ Span(Written) > 0 /\ Span(wr) > 0
    <2>1. /\ Span(cpub) \in Nat /\ Span(pubMem) \in Nat /\ Span(pub) \in Nat
          /\ Span(Written) \in Nat /\ Span(wr) \in Nat
      BY <1>1, <1>2
    <2> QED
      BY <1>3, <2>1 DEF Order
  <1>5. {cpub, pubMem, pub, Written, wr} \subseteq B \ {crd}
    BY <1>1, <1>2, <1>3, <1>4
  <1>6. Whole(crd, B)
    BY <1>1, <1>5 DEF Cut
  <1>7. n \in 1 .. RingBytes /\ Slot(crd) \in 0 .. RingBytes - 1 /\ Slot(crd) + n <= RingBytes
        /\ (crd + n) % Word \in B
    BY <1>1, <1>6, CutFacts DEF Whole
  <1>8. Span((crd + n) % Word) = n
    <2>1. Dist(crd, crd) = 0
      BY <1>1, DistChain
    <2> QED
      BY <1>1, <1>7, <2>1, DistAdd DEF Span
  <1>9. Dist((crd + n) % Word, rd) = Dist(crd, rd) + n
    <2>1. Dist(crd, rd) <= RingBytes
      <3>1. Dist(crd, rd) \in Nat /\ Dist(rd, rdCache) \in Nat /\ Span(wr) \in Nat
        BY <1>1, <1>2, CutFacts
      <3> QED
        BY <1>1, <3>1 DEF Order
    <2> QED
      BY <1>1, <1>7, <2>1, DistAdd
  <1>10. ASSUME NEW d \in B \ {crd}
         PROVE  Span(d) >= n /\ Dist(d, (crd + n) % Word) = Span(d) - n
    <2>1. Span(d) >= n
      BY <1>2, <1>6, <1>7 DEF Whole
    <2>2. (crd + n) % Word \in Cursor /\ d \in Cursor
      BY <1>7
    <2>3. Dist(d, crd) = Dist(d, (crd + n) % Word) + Dist((crd + n) % Word, crd)
      BY <1>1, <1>8, <2>1, <2>2, DistChain DEF Span
    <2>4. Dist(d, (crd + n) % Word) \in Int
      BY <2>2, DistChain
    <2> QED
      BY <1>7, <1>8, <2>1, <2>3, <2>4 DEF Span
  <1> QED
    BY <1>1, <1>2, <1>5, <1>7, <1>9, <1>10

\* The command that was run leaves the ring.
LEMMA FinishKeeps ==
    ASSUME TypeInv, Between, Order, Filling, NEW B \in SUBSET Cursor, Cut(B), Finish,
           NEW c0, c0 = crd
    PROVE  Order' /\ Filling' /\ Cut(B \ {c0})'
  <1> DEFINE n == mem[Slot(crd)].bytes
             D == B \ {c0}
  <1>1. /\ crd \in Cursor /\ rd \in Cursor /\ rdCache \in Cursor /\ RingBytes \in Nat \ {0}
        /\ {crd, cpub, pubMem, pub, Written, wr} \subseteq B /\ Word \in Nat /\ Word >= 3 * RingBytes
    BY RingAssumption DEF TypeInv, TypeOK, Cut
  <1>2. /\ n \in 1 .. RingBytes /\ (crd + n) % Word \in B
        /\ Dist((crd + n) % Word, rd) = Dist(crd, rd) + n
        /\ \A d \in D : Span(d) >= n /\ Dist(d, (crd + n) % Word) = Span(d) - n
        /\ {cpub, pubMem, pub, Written, wr} \subseteq D
    BY NextCommand DEF Finish
  <1>3. /\ \A c \in B : Span(c) \in 0 .. RingBytes /\ (Span(c) = 0 => c = crd)
        /\ Span(crd) = 0 /\ Dist(crd, rd) \in Nat /\ Dist(rd, rdCache) \in Nat
        /\ \A c \in B : mem[Slot(c)].bytes \in 0 .. RingBytes
    BY CutFacts
  <1>4. /\ crd' = (crd + n) % Word /\ rd' \in {rd, crd'} /\ mem' = mem
        /\ UNCHANGED <<ppc, req, wr, pub, pubMem, cpub, rdCache>>
    BY DEF Finish, producer
  <1>5. Written' = Written
    BY <1>4 DEF Written
  <1>6. \A d \in D : Span(d)' = Span(d) - n
    BY <1>2, <1>4 DEF Span, Dist
  <1>7. /\ Span(cpub)' = Span(cpub) - n /\ Span(pubMem)' = Span(pubMem) - n
        /\ Span(pub)' = Span(pub) - n /\ Span(Written)' = Span(Written) - n
        /\ Span(wr)' = Span(wr) - n
    BY <1>2, <1>4, <1>5, <1>6 DEF Span, Dist
  <1>8. Order'
    <2>1. /\ Span(cpub)' <= Span(pubMem)' /\ Span(pubMem)' <= Span(pub)'
          /\ Span(pub)' <= Span(Written)' /\ Span(Written)' <= Span(wr)'
      <3>1. {Span(cpub), Span(pubMem), Span(pub), Span(Written), Span(wr)} \subseteq Nat
        BY <1>1, <1>3
      <3> QED
        BY <1>2, <1>7, <3>1 DEF Order
    <2>2. CASE rd' = rd
      <3>1. /\ Dist(wr, rd)' = Dist(wr, rd) /\ Dist(crd, rd)' = Dist(crd, rd) + n
            /\ Dist(rd, rdCache)' = Dist(rd, rdCache)
        BY <1>2, <1>4, <2>2 DEF Dist
      <3>2. Span(wr) \in Nat
        BY <1>1, <1>3
      <3> QED
        BY <1>2, <1>3, <1>7, <2>1, <3>1, <3>2 DEF Order
    <2>3. CASE rd' = crd'
      <3>1. (crd + n) % Word \in Cursor
        BY <1>2
      <3>2. Dist(crd, rd)' = 0
        BY <1>4, <2>3, <3>1, DistChain DEF Dist
      <3>3. Dist(wr, rd)' = Span(wr)'
        BY <2>3 DEF Span, Dist
      <3>4. Dist(rd, rdCache)' = Dist(crd, rd) + n + Dist(rd, rdCache)
        <4>1. Dist(crd, rd) + n + Dist(rd, rdCache) < Word
          <5>1. Span(wr) \in Nat /\ Span(wr) >= n
            BY <1>1, <1>2, <1>3
          <5> QED
            BY <1>1, <1>2, <1>3, <5>1 DEF Order
        <4>2. Dist((crd + n) % Word, rdCache) = Dist((crd + n) % Word, rd) + Dist(rd, rdCache)
          BY <1>1, <1>2, <3>1, <4>1, DistChain
        <4> QED
          BY <1>2, <1>4, <2>3, <4>2 DEF Dist
      <3>5. Span(wr) \in Nat
        BY <1>1, <1>3
      <3> QED
        BY <1>2, <1>3, <1>7, <2>1, <3>2, <3>3, <3>4, <3>5 DEF Order
    <2> QED
      BY <1>4, <2>2, <2>3
  <1>9. Filling'
    BY <1>4, <1>5 DEF Filling, Slot
  <1>10. Cut(D)'
    <2>1. {crd', cpub', pubMem', pub', Written', wr'} \subseteq D
      <3>1. Span((crd + n) % Word) # 0
        <4>1. Dist(crd, crd) = 0 /\ n \in 0 .. RingBytes /\ 0 <= RingBytes
          BY <1>1, <1>2, DistChain
        <4>2. Dist((crd + n) % Word, crd) = Dist(crd, crd) + n
          BY <1>1, <4>1, DistAdd
        <4> QED
          BY <1>2, <4>1, <4>2 DEF Span
      <3> QED
        BY <1>2, <1>3, <1>4, <1>5, <3>1
    <2>2. \A c \in D : Span(c)' <= Span(wr)'
      BY <1>1, <1>2, <1>3, <1>6, <1>7 DEF Cut
    <2>3. ASSUME NEW c \in D \ {wr'}
          PROVE  Whole(c, D)'
      <3> DEFINE m == mem[Slot(c)].bytes
      <3>1. Whole(c, B) /\ c \in B /\ c # wr
        BY <1>4, <2>3 DEF Cut
      <3>2. m >= 1 /\ m \in Nat /\ Span(c) \in Nat /\ Span(wr) \in Nat
        BY <1>1, <1>3, <3>1 DEF Whole
      <3>3. (c + m) % Word \in D
        <4>1. Span((c + m) % Word) = Span(c) + m
          <5>1. c \in Cursor /\ m \in 0 .. RingBytes /\ Dist(c, crd) <= RingBytes
            BY <1>1, <1>3, <3>1, <3>2 DEF Span
          <5> QED
            BY <1>1, <5>1, DistAdd DEF Span
        <4> QED
          BY <1>3, <3>1, <3>2, <4>1 DEF Whole
      <3>4. Span(c)' + m <= Span(wr)'
        BY <1>2, <1>6, <1>7, <3>1, <3>2 DEF Whole
      <3>5. \A d \in D : Span(d)' <= Span(c)' \/ Span(d)' >= Span(c)' + m
        BY <1>2, <1>3, <1>6, <3>1, <3>2 DEF Whole
      <3>6. Slot(c)' = Slot(c) /\ mem' = mem
        BY <1>4 DEF Slot
      <3> QED
        BY <3>1, <3>3, <3>4, <3>5, <3>6 DEF Whole
    <2> QED
      BY <2>1, <2>2, <2>3 DEF Cut
  <1> QED
    BY <1>8, <1>9, <1>10

\* A step that writes nothing to the ring and finishes no command may pass a
\* published cursor on, or read the consumer's.
LEMMA CalmStep ==
    ASSUME TypeInv, Held,
           mem' = mem /\ crd' = crd /\ wr' = wr /\ rd' = rd,
           rdCache' \in {rdCache, rd} /\ cpub' \in {cpub, pubMem} /\ pubMem' \in {pubMem, pub},
           pub' = pub \/ (pub' = wr /\ ppc # "fill"),
           (ppc' = ppc /\ req' = req) \/ (ppc # "fill" /\ ppc' # "fill")
    PROVE  Held'
  <1> PICK B \in SUBSET Cursor : Cut(B)
    BY DEF Held
  <1>1. Order /\ Filling
    BY DEF Held
  <1>2. /\ {crd, cpub, pubMem, pub, Written, wr} \subseteq B
        /\ crd \in Cursor /\ rd \in Cursor /\ rdCache \in Cursor
    BY DEF Cut, TypeInv, TypeOK
  <1>3. /\ \A c \in B : Span(c) \in 0 .. RingBytes
        /\ Dist(crd, rd) \in Nat /\ Dist(rd, rdCache) \in Nat /\ Dist(rd, rd) = 0
    BY <1>1, <1>2, CutFacts, DistChain
  <1>4. Written' = Written /\ (ppc # "fill" => Written = wr)
    BY DEF Written
  <1>5. Cut(B)'
    BY <1>2, <1>4, CutKept
  <1>6. Order'
    <2>1. Span(cpub)' \in {Span(cpub), Span(pubMem)} /\ Span(pubMem)' \in {Span(pubMem), Span(pub)}
      BY DEF Span, Dist
    <2>2. /\ Span(pub)' = Span(pub) \/ Span(pub)' = Span(Written)
          /\ Span(Written)' = Span(Written) /\ Span(wr)' = Span(wr)
      <3>1. pub' = pub \/ pub' = Written
        BY <1>4
      <3> QED
        BY <1>4, <3>1 DEF Span, Dist
    <2>3. {Span(cpub), Span(pubMem), Span(pub), Span(Written), Span(wr)} \subseteq Nat
      BY <1>2, <1>3
    <2>4. /\ Span(cpub)' <= Span(pubMem)' /\ Span(pubMem)' <= Span(pub)'
          /\ Span(pub)' <= Span(Written)' /\ Span(Written)' <= Span(wr)'
      BY <1>1, <2>1, <2>2, <2>3 DEF Order
    <2>5. /\ Dist(wr, rd)' = Dist(wr, rd) /\ Dist(crd, rd)' = Dist(crd, rd)
          /\ Dist(rd, rdCache)' \in {Dist(rd, rdCache), 0}
      BY <1>3 DEF Dist
    <2> QED
      BY <1>1, <1>2, <1>3, <2>2, <2>3, <2>4, <2>5, RingAssumption DEF Order
  <1>7. Filling'
    BY <1>1, <1>4 DEF Filling, Slot
  <1> QED
    BY <1>5, <1>6, <1>7 DEF Held

\* The end of a batch is published.
LEMMA BeginHeld ==
    ASSUME TypeInv, Held, Begin
    PROVE  Held'
  <1> PICK B \in SUBSET Cursor : Cut(B)
    BY DEF Held
  <1>1. /\ UNCHANGED <<producer, mem, pubMem, crd, cpub>> /\ rd' \in {rd, crd}
        /\ Order /\ Filling
    BY DEF Begin, Held
  <1>2. CASE rd' = rd
    <2>1. UNCHANGED <<mem, crd, wr, rd, rdCache, cpub, pubMem, pub, ppc, req>>
      BY <1>1, <1>2 DEF producer
    <2> QED
      BY <2>1, CalmStep
  <1>3. CASE rd' = crd
    <2>1. Written' = Written /\ UNCHANGED <<ppc, req, wr, pub, rdCache>>
      BY <1>1 DEF Written, producer
    <2>2. /\ {crd, cpub, pubMem, pub, Written, wr} \subseteq B
          /\ crd \in Cursor /\ rd \in Cursor /\ rdCache \in Cursor /\ wr \in Cursor
          /\ RingBytes \in Nat /\ Word \in Nat \ {0} /\ Word >= 3 * RingBytes
      BY RingAssumption DEF Cut, TypeInv, TypeOK
    <2>3. Cut(B)'
      BY <1>1, <2>1, <2>2, CutKept
    <2>4. /\ Dist(crd, rd) \in Nat /\ Dist(rd, rdCache) \in Nat /\ Span(wr) \in Nat
          /\ Dist(crd, crd) = 0 /\ Dist(crd, rdCache) \in Int
      BY <2>2, DistChain DEF Span
    <2>5. Dist(crd, rdCache) = Dist(crd, rd) + Dist(rd, rdCache)
      <3>1. Dist(crd, rd) + Dist(rd, rdCache) < Word
        BY <1>1, <2>2, <2>4 DEF Order
      <3> QED
        BY <2>2, <3>1, DistChain
    <2>6. /\ Dist(wr, rd)' = Span(wr) /\ Dist(crd, rd)' = 0 /\ Span(wr)' = Span(wr)
          /\ Dist(rd, rdCache)' = Dist(crd, rd) + Dist(rd, rdCache)
      BY <1>1, <1>3, <2>1, <2>4, <2>5 DEF Span, Dist
    <2>7. Order'
      <3>1. /\ Span(cpub)' = Span(cpub) /\ Span(pubMem)' = Span(pubMem)
            /\ Span(pub)' = Span(pub) /\ Span(Written)' = Span(Written)
        BY <1>1, <2>1 DEF Span, Dist
      <3> QED
        BY <1>1, <2>2, <2>4, <2>6, <3>1 DEF Order
    <2>8. Filling'
      BY <1>1, <2>1 DEF Filling, Slot
    <2> QED
      BY <2>3, <2>7, <2>8 DEF Held
  <1> QED
    BY <1>1, <1>2, <1>3

\* A command filled in is written.
LEMMA FillHeld ==
    ASSUME TypeInv, Held, NEW p \in Payload, Fill(p)
    PROVE  Held' /\ Written' = wr
  <1> PICK B \in SUBSET Cursor : Cut(B)
    BY DEF Held
  <1>1. /\ Order /\ Filling /\ ppc = "fill" /\ ppc' \in {"idle", "fence"}
        /\ UNCHANGED <<wr, rdCache, pubMem, rd, consumer>> /\ pub' \in {pub, wr}
    BY DEF Held, Fill, Publish
  <1>2. Written' = wr
    BY <1>1 DEF Written
  <1>3. /\ {crd, cpub, pubMem, pub, Written, wr} \subseteq B
        /\ \A c \in B : Span(c) \in 0 .. RingBytes /\ Slot(c) \in 0 .. RingBytes - 1
    BY <1>1, CutFacts DEF Cut
  <1>4. \A c \in B \ {wr} : mem'[Slot(c)].bytes = mem[Slot(c)].bytes
    <2>1. mem \in [0 .. RingBytes - 1 -> Cell]
      BY DEF TypeInv, TypeOK
    <2>2. \A i \in 0 .. RingBytes - 1 : mem'[i].bytes = mem[i].bytes
      BY <2>1 DEF Fill, Cell
    <2> QED
      BY <1>3, <2>2
  <1>5. Cut(B)'
    BY <1>1, <1>2, <1>3, <1>4, CutKept DEF consumer
  <1>6. Order'
    <2>1. /\ Dist(wr, rd)' = Dist(wr, rd) /\ Dist(crd, rd)' = Dist(crd, rd)
          /\ Dist(rd, rdCache)' = Dist(rd, rdCache)
          /\ Span(cpub)' = Span(cpub) /\ Span(pubMem)' = Span(pubMem)
          /\ Span(pub)' \in {Span(pub), Span(wr)}
          /\ Span(Written)' = Span(wr) /\ Span(wr)' = Span(wr)
      BY <1>1, <1>2 DEF Span, Dist, consumer
    <2>2. {Span(cpub), Span(pubMem), Span(pub), Span(Written), Span(wr)} \subseteq Nat
      BY <1>3
    <2> QED
      BY <1>1, <2>1, <2>2 DEF Order
  <1>7. Filling'
    BY <1>1 DEF Filling
  <1> QED
    BY <1>2, <1>5, <1>6, <1>7 DEF Held

\* The initial states satisfy RingInv.
LEMMA InitRingInv == Init => RingInv
  <1> SUFFICES ASSUME Init
               PROVE  RingInv
    OBVIOUS
  <1>1. 0 \in Cursor /\ RingBytes \in Nat
    BY RingAssumption DEF Cursor
  <1>2. /\ wr = 0 /\ crd = 0 /\ cpub = 0 /\ pubMem = 0 /\ pub = 0 /\ rd = 0 /\ rdCache = 0
        /\ Written = 0 /\ ppc = "idle" /\ cpc = "poll" /\ active /\ ~dead
    BY DEF Init, Written
  <1>3. Dist(0, 0) = 0
    BY <1>1, DistChain
  <1>4. Order
    BY <1>1, <1>2, <1>3 DEF Order, Span
  <1>5. Cut({0}) /\ {0} \in SUBSET Cursor
    BY <1>1, <1>2, <1>3 DEF Cut, Span
  <1>6. Filling /\ Between
    BY <1>2 DEF Filling, Between
  <1> QED
    BY <1>4, <1>5, <1>6 DEF RingInv, Held

\* Nothing is queued or being run when the producer finds the ring drained.
LEMMA NothingLeft ==
    ASSUME TypeInv, Held, rd = wr
    PROVE  crd = wr /\ cpub = wr
  <1>1. PICK B \in SUBSET Cursor : Cut(B)
    BY DEF Held
  <1>2. /\ wr \in Cursor /\ crd \in Cursor /\ {cpub, wr, pub, pubMem, Written} \subseteq B
        /\ Dist(wr, wr) = 0 /\ Order
    BY <1>1, DistChain DEF TypeInv, TypeOK, Cut, Held
  <1>3. /\ Dist(wr, wr) = Dist(crd, wr) + Span(wr)
        /\ Dist(crd, wr) \in Nat /\ Span(wr) \in Nat
    BY <1>2, DistChain DEF Order, Span
  <1>4. crd = wr
    BY <1>2, <1>3, DistChain
  <1>5. {Span(cpub), Span(pubMem), Span(pub), Span(Written), Span(wr)} \subseteq Nat
    BY <1>1, <1>2, CutFacts
  <1>6. Span(cpub) = 0
    BY <1>2, <1>3, <1>4, <1>5 DEF Order, Span
  <1> QED
    BY <1>1, <1>2, <1>4, <1>6, CutFacts

\* The threads' program counters and flags keep what Between says of them.
LEMMA NextBetween ==
    ASSUME TypeInv, RingInv, [Next]_vars
    PROVE  Between' /\ (Alive' => Alive)
  <1> USE DEF Between, Alive
  <1>1. Between
    BY DEF RingInv
  <1>2. ASSUME NEW n \in Sizes, Emit(n)
        PROVE  Between' /\ (Alive' => Alive)
    BY <1>1, <1>2 DEF Emit, Publish, shared, flags, consumer
  <1>3. ASSUME NEW p \in {"drain", "shutdown"}, Drain(p)
        PROVE  Between' /\ (Alive' => Alive)
    BY <1>1, <1>3 DEF Drain, AfterDrain, Publish, shared, flags, consumer
  <1>4. CASE ShutdownDead \/ Drained \/ GiveUp \/ Stop
    BY <1>1, <1>4 DEF ShutdownDead, Drained, GiveUp, Stop, AfterDrain, Leave, held, shared,
          flags, consumer
  <1>5. CASE StopWake \/ FlushFence \/ FlushWake
    <2>1. ppc' # "direct"
      BY <1>5 DEF StopWake, FlushFence, FlushWake, TypeInv, EmitState
    <2> QED
      BY <1>1, <1>5, <2>1 DEF StopWake, FlushFence, FlushWake, held, shared, flags, consumer
  <1>6. ASSUME NEW p \in Payload, DirectCall(p) \/ Fill(p)
        PROVE  Between' /\ (Alive' => Alive)
    BY <1>1, <1>6 DEF DirectCall, Fill, Publish, held, shared, flags, consumer
  <1>7. CASE Reserve \/ RingFull \/ Refit
    BY <1>1, <1>7 DEF Reserve, RingFull, Refit, Claim, Publish, shared, flags, consumer
  <1>8. CASE Poll \/ Arm \/ Recheck \/ Woken \/ Timeout
    <2>1. cpc' # "exec" /\ UNCHANGED <<ppc, wr, rd, flags>> /\ Alive
      BY <1>8 DEF Poll, Arm, Recheck, Woken, Timeout, Awake, producer, shared
    <2> QED
      BY <1>1, <2>1 DEF flags
  <1>9. CASE Begin
    <2>1. CASE crd = cpub
      <3>1. rd' = crd /\ cpc' = "poll" /\ UNCHANGED <<ppc, wr, flags>>
        BY <1>9, <2>1 DEF Begin, producer
      <3>2. ppc = "direct" => crd = wr
        BY <1>1, <1>9, NothingLeft DEF Begin, RingInv
      <3> QED
        BY <1>1, <1>9, <3>1, <3>2 DEF Begin, flags
    <2>2. CASE crd # cpub
      <3>1. rd' = rd /\ cpc' = "exec" /\ UNCHANGED <<ppc, wr, flags, crd, cpub>>
        BY <1>9, <2>2 DEF Begin, producer
      <3> QED
        BY <1>1, <1>9, <2>2, <3>1 DEF Begin, flags
    <2> QED
      BY <2>1, <2>2
  <1>10. CASE Finish
    <2>1. cpc = "exec" /\ cpc' = "run" /\ UNCHANGED <<ppc, wr, flags>>
      BY <1>10 DEF Finish, producer
    <2>2. ppc # "direct"
      <3> SUFFICES ASSUME ppc = "direct"
                   PROVE  FALSE
        OBVIOUS
      <3>1. rd = wr /\ Held
        BY <1>1, <2>1 DEF RingInv
      <3> QED
        BY <1>1, <2>1, <3>1, NothingLeft
    <2> QED
      BY <1>1, <2>1, <2>2 DEF flags
  <1>11. CASE Fault \/ Die
    BY <1>1, <1>11 DEF Fault, Die, producer, shared
  <1>12. CASE CommitPub \/ CommitSleeping
    BY <1>1, <1>12 DEF CommitPub, CommitSleeping, producer, flags, consumer
  <1>13. CASE UNCHANGED vars
    BY <1>1, <1>13 DEF vars, producer, flags, consumer
  <1> QED
    BY <1>2, <1>3, <1>4, <1>5, <1>6, <1>7, <1>8, <1>9, <1>10, <1>11, <1>12, <1>13
       DEF Next, ProducerStep, ConsumerStep

\* Every step of the two threads keeps the ring whole, as long as the render
\* thread has not faulted.
LEMMA NextHeld ==
    ASSUME TypeInv, Between, Held, Alive, Alive', [Next]_vars
    PROVE  Held'
  <1>1. ASSUME NEW n \in Sizes, Emit(n)
        PROVE  Held'
    BY <1>1, CalmStep DEF Emit, Publish, shared, consumer
  <1>2. ASSUME NEW p \in {"drain", "shutdown"}, Drain(p)
        PROVE  Held'
    BY <1>2, CalmStep DEF Drain, AfterDrain, Publish, shared, consumer
  <1>3. CASE ShutdownDead \/ Drained \/ GiveUp \/ Stop
    BY <1>3, CalmStep DEF ShutdownDead, Drained, GiveUp, Stop, AfterDrain, Leave, held, shared,
          consumer
  <1>4. CASE StopWake \/ FlushFence \/ FlushWake
    <2>1. ppc # "fill" /\ ppc' # "fill"
      BY <1>4 DEF StopWake, FlushFence, FlushWake, TypeInv, EmitState
    <2> QED
      BY <1>4, <2>1, CalmStep DEF StopWake, FlushFence, FlushWake, held, shared, consumer
  <1>5. ASSUME NEW p \in Payload, DirectCall(p)
        PROVE  Held'
    BY <1>5, CalmStep DEF DirectCall, held, shared, consumer
  <1>6. ASSUME NEW p \in Payload, Fill(p)
        PROVE  Held'
    BY <1>6, FillHeld
  <1>7. CASE RingFull
    BY <1>7, CalmStep DEF RingFull, Publish, shared, consumer
  <1>8. CASE Reserve \/ Refit
    <2>1. /\ ppc \in {"reserve", "refit"} /\ rdCache' \in {rdCache, rd}
          /\ UNCHANGED <<req, crd, cpub, pubMem, pub, rd>>
      BY <1>8 DEF Reserve, Refit, consumer
    <2>2. CASE ppc' = "full" /\ UNCHANGED <<mem, wr>>
      BY <2>1, <2>2, CalmStep
    <2>3. CASE Fits(req, rdCache') /\ Claim
      <3>1. PICK B \in SUBSET Cursor : Cut(B)
        BY DEF Held
      <3>2. PICK s \in Cursor : s = Start(req)
        BY <2>1, PadInRange, RingAssumption DEF TypeInv, TypeOK, EmitState
      <3>3. PICK w : w = wr'
        OBVIOUS
      <3> QED
        BY <2>1, <2>3, <3>1, <3>2, <3>3, ClaimKeeps DEF Held
    <2> QED
      BY <1>8, <2>2, <2>3 DEF Reserve, Refit, Between
  <1>9. CASE Poll \/ Arm \/ Recheck \/ Woken \/ Timeout
    <2>1. /\ UNCHANGED <<mem, crd, wr, rd, rdCache, pubMem, pub, ppc, req>>
          /\ cpub' \in {cpub, pubMem}
      BY <1>9 DEF Poll, Arm, Recheck, Woken, Timeout, Awake, producer, shared
    <2> QED
      BY <2>1, CalmStep
  <1>10. CASE Begin
    BY <1>10, BeginHeld
  <1>11. CASE Finish
    <2>1. PICK B \in SUBSET Cursor : Cut(B)
      BY DEF Held
    <2>2. PICK c0 : c0 = crd
      OBVIOUS
    <2> QED
      BY <1>11, <2>1, <2>2, FinishKeeps DEF Held
  <1>12. CASE Fault \/ Die
    BY <1>12 DEF Fault, Die, Alive
  <1>13. CASE CommitPub \/ CommitSleeping
    BY <1>13, CalmStep DEF CommitPub, CommitSleeping, producer, consumer
  <1>14. CASE UNCHANGED vars
    BY <1>14, CalmStep DEF vars, producer, consumer
  <1> QED
    BY <1>1, <1>2, <1>3, <1>4, <1>5, <1>6, <1>7, <1>8, <1>9, <1>10, <1>11, <1>12, <1>13, <1>14
       DEF Next, ProducerStep, ConsumerStep

\* RingInv holds in every reachable state.
LEMMA RingInvHolds == Spec => [](TypeInv /\ RingInv)
  <1>1. TypeInv /\ RingInv /\ [Next]_vars => RingInv'
    BY NextBetween, NextHeld DEF RingInv
  <1> QED
    BY <1>1, InitTypeInv, NextTypeInv, InitRingInv, PTL DEF Spec

\* The space the producer takes is space the consumer has finished with: between
\* the consumer's published cursor and the write cursor lie, in order, its own
\* cursor, the end of its batch and the published cursor, all within one ring of
\* the producer's stale reading, for every size of the ring, of the word and of
\* the commands (RingReserve's test, RenderThreadProc's rd).
THEOREM CursorsCorrect == Spec => []CursorOrder
  <1>1. TypeInv /\ RingInv => CursorOrder
    <2> SUFFICES ASSUME TypeInv, Order, Alive, NEW B \in SUBSET Cursor, Cut(B)
                 PROVE  CursorOrder
      BY DEF RingInv, Held, CursorOrder
    <2>1. /\ {crd, cpub, pubMem, pub, Written, wr} \subseteq B /\ crd \in Cursor /\ rd \in Cursor
          /\ \A c \in B : Span(c) <= Span(wr)
          /\ RingBytes \in Nat /\ Word \in Nat /\ Word >= 3 * RingBytes
      BY RingAssumption DEF TypeInv, TypeOK, Cut
    <2>2. /\ \A c \in B : Span(c) \in 0 .. RingBytes
          /\ Dist(crd, rd) \in Nat /\ Dist(rd, rdCache) \in Nat /\ Span(crd) = 0
      BY CutFacts
    <2>3. ASSUME NEW c \in B
          PROVE  Dist(c, rd) = Span(c) + Dist(crd, rd)
      <3>1. /\ Span(c) \in Nat /\ Span(wr) \in Nat /\ Span(c) <= Span(wr)
            /\ Dist(crd, rd) \in Nat /\ Dist(rd, rdCache) \in Nat
            /\ RingBytes \in Nat \ {0} /\ Word \in Nat /\ Word >= 3 * RingBytes
        BY <2>1, <2>2, RingAssumption
      <3>2. Span(c) + Dist(crd, rd) < Word
        BY <3>1 DEF Order
      <3> QED
        BY <2>1, <3>2, DistChain DEF Span
    <2>4. /\ Dist(crd, rd) = Span(crd) + Dist(crd, rd) /\ Dist(cpub, rd) = Span(cpub) + Dist(crd, rd)
          /\ Dist(pubMem, rd) = Span(pubMem) + Dist(crd, rd)
          /\ Dist(pub, rd) = Span(pub) + Dist(crd, rd) /\ Dist(wr, rd) = Span(wr) + Dist(crd, rd)
      BY <2>1, <2>2, <2>3
    <2>5. {Span(cpub), Span(pubMem), Span(pub), Span(Written), Span(wr)} \subseteq Nat
      BY <2>1, <2>2
    <2> QED
      BY <2>1, <2>2, <2>4, <2>5 DEF Order, CursorOrder
  <1> QED
    BY <1>1, RingInvHolds, PTL

------------------------------------------------------------------------------
(* Induction on the natural numbers, from the well-foundedness of <. *)

\* The order < as a set of pairs.
Less == {p \in Nat \X Nat : p[1] < p[2]}

\* A set of natural numbers that is not empty has a least element.
LEMMA LeastNumber ==
    ASSUME NEW T \in SUBSET Nat, T # {}
    PROVE  \E n \in T : \A m \in T : n <= m
  <1>1. IsWellFoundedOn(Less, Nat)
    <2>1. Less = OpToRel(<, Nat)
      BY Zenon DEF Less, OpToRel
    <2> QED
      BY <2>1, NatLessThanWellFounded
  <1>2. PICK n \in T : \A m \in T : ~(<<m, n>> \in Less)
    BY <1>1, WFMin
  <1>3. ASSUME NEW m \in T
        PROVE  n <= m
    <2>1. <<m, n>> \in Nat \X Nat /\ n \in Nat /\ m \in Nat
      OBVIOUS
    <2>2. ~(m < n)
      BY <1>2, <2>1 DEF Less
    <2> QED
      BY <2>1, <2>2
  <1> QED
    BY <1>2, <1>3

------------------------------------------------------------------------------
(* The list of commands in the ring. *)

\* One step of Listing: the command that starts n units before e, then the rest,
\* which g lists.
Entry(m, e, g, n) ==
    IF n = 0 THEN <<>>
    ELSE LET h == m[Slot(e - n)]
         IN  IF h.bytes \notin 1 .. n THEN <<None>>
             ELSE IF h.kind = "wrap" THEN g[n - h.bytes]
             ELSE <<Content(m, e - n)>> \o g[n - h.bytes]

\* An entry depends on shorter lists only.
LEMMA EntryLocal ==
    ASSUME NEW m, NEW e, NEW g, NEW g2, NEW n \in Nat, \A i \in 0 .. n - 1 : g[i] = g2[i]
    PROVE  Entry(m, e, g, n) = Entry(m, e, g2, n)
  <1>1. CASE n # 0 /\ m[Slot(e - n)].bytes \in 1 .. n
    <2>1. n - m[Slot(e - n)].bytes \in 0 .. n - 1
      BY <1>1
    <2> QED
      BY <2>1 DEF Entry
  <1> QED
    BY <1>1 DEF Entry

\* Lists of every length up to k exist, and so does the function Listing chooses.
LEMMA ListingExists ==
    ASSUME NEW m, NEW e, NEW k \in Nat
    PROVE  \E g : g = [n \in 0 .. k |-> Entry(m, e, g, n)]
  <1> DEFINE Good(i) == \E g : g = [n \in 0 .. i |-> Entry(m, e, g, n)]
             Bad == {i \in Nat : ~Good(i)}
  <1> SUFFICES ASSUME Bad # {}
               PROVE  FALSE
    BY Zenon
  <1>1. PICK i \in Bad : \A j \in Bad : i <= j
    BY LeastNumber
  <1>2. CASE i = 0
    <2> DEFINE g == [n \in 0 .. 0 |-> <<>>]
    <2>1. \A n \in 0 .. 0 : Entry(m, e, g, n) = <<>>
      BY DEF Entry
    <2>2. g = [n \in 0 .. 0 |-> Entry(m, e, g, n)]
      BY <2>1
    <2> QED
      BY <1>2, <2>2
  <1>3. CASE i # 0
    <2>1. i - 1 \in Nat /\ i \in Nat /\ i - 1 < i
      BY <1>3
    <2>2. Good(i - 1)
      BY <1>1, <2>1
    <2>3. PICK g : g = [n \in 0 .. i - 1 |-> Entry(m, e, g, n)]
      BY <2>2
    <2> DEFINE g2 == [n \in 0 .. i |-> IF n = i THEN Entry(m, e, g, i) ELSE g[n]]
    <2>4. ASSUME NEW n \in 0 .. i
          PROVE  g2[n] = Entry(m, e, g2, n)
      <3>1. \A j \in 0 .. n - 1 : g[j] = g2[j]
        BY <2>1
      <3>2. Entry(m, e, g, n) = Entry(m, e, g2, n)
        BY <3>1, EntryLocal
      <3>3. n # i => g[n] = Entry(m, e, g, n)
        BY <2>1, <2>3
      <3> QED
        BY <3>2, <3>3
    <2>5. g2 = [n \in 0 .. i |-> Entry(m, e, g2, n)]
      BY <2>4
    <2> QED
      BY <2>5
  <1> QED
    BY <1>2, <1>3

\* Listing satisfies its recursive definition.
LEMMA ListingAt ==
    ASSUME NEW m, NEW e, NEW n \in 0 .. RingBytes
    PROVE  Listing(m, e)[n] = Entry(m, e, Listing(m, e), n)
  <1> DEFINE IsListing(g) == g = [i \in 0 .. RingBytes |-> Entry(m, e, g, i)]
  <1>1. Listing(m, e) = CHOOSE g : IsListing(g)
    BY DEF Listing, Entry
  <1>2. \E g : IsListing(g)
    <2>1. RingBytes \in Nat
      BY RingAssumption
    <2> QED
      BY <2>1, ListingExists, Zenon
  <1>3. IsListing(Listing(m, e))
    <2> HIDE DEF IsListing
    <2> QED
      BY <1>1, <1>2, Zenon
  <1> QED
    BY <1>3

\* Stepping back from e to a cursor behind it reaches the cursor's slot.
LEMMA SlotBack ==
    ASSUME NEW e \in Cursor, NEW c \in Cursor, NEW m
    PROVE  /\ Slot(e - Dist(e, c)) = Slot(c)
           /\ Content(m, e - Dist(e, c)) = Content(m, c)
  <1>1. /\ Word \in Nat \ {0} /\ RingBytes \in Nat \ {0} /\ Word % RingBytes = 0
        /\ e \in 0 .. Word - 1 /\ c \in 0 .. Word - 1
    BY RingAssumption DEF Cursor
  <1>2. e - Dist(e, c) = c \/ e - Dist(e, c) = c - Word
    BY <1>1, DistWord
  <1>3. Slot(c - Word) = Slot(c)
    <2>1. (c - Word) % Word = c /\ c - Word \in Int
      BY <1>1, ModNear
    <2> QED
      BY <2>1, SlotWord
  <1>4. Slot(e - Dist(e, c)) = Slot(c)
    BY <1>2, <1>3
  <1> QED
    BY <1>4 DEF Content

\* The commands that start at the cursors of C follow each other up to e.
Chain(m, e, C) ==
    \A c \in C : /\ Dist(e, c) <= RingBytes
                 /\ c # e => LET n == m[Slot(c)].bytes
                             IN  /\ n \in 1 .. Dist(e, c)
                                 /\ (c + n) % Word \in C
                                 /\ Dist(e, (c + n) % Word) = Dist(e, c) - n

\* What a command may carry, also one not filled in.
Load == Payload \cup {None}

\* One more load before a list.
LEMMA Prepend ==
    ASSUME NEW x \in Load, NEW s \in Seq(Load), NEW t \in Seq(Load)
    PROVE  /\ <<x>> \o s \in Seq(Load)
           /\ (<<x>> \o s) \o t = <<x>> \o (s \o t)
           /\ <<x>> \o s # <<>> /\ Head(<<x>> \o s) = x /\ Tail(<<x>> \o s) = s
  <1>1. <<x>> \in Seq(Load)
    OBVIOUS
  <1>2. <<x>> \o s \in Seq(Load)
    BY <1>1, ConcatProperties
  <1>3. (<<x>> \o s) \o t = <<x>> \o (s \o t)
    BY <1>1, ConcatAssociative
  <1>4. <<x>> \o s # <<>> /\ Head(<<x>> \o s) = x /\ Tail(<<x>> \o s) = s
    <2>1. /\ Len(<<x>> \o s) = 1 + Len(s) /\ Len(s) \in Nat
          /\ \A i \in 1 .. 1 + Len(s) : (<<x>> \o s)[i] = IF i = 1 THEN x ELSE s[i - 1]
      BY <1>1, ConcatProperties
    <2>2. <<x>> \o s # <<>> /\ Head(<<x>> \o s) = x
      BY <1>2, <2>1
    <2>3. /\ Tail(<<x>> \o s) \in Seq(Load) /\ Len(Tail(<<x>> \o s)) = Len(s)
          /\ \A i \in 1 .. Len(s) : Tail(<<x>> \o s)[i] = s[i]
      BY <1>2, <2>1, <2>2, HeadTailProperties
    <2>4. Tail(<<x>> \o s) = s
      BY <2>3, SeqEqual
    <2> QED
      BY <2>2, <2>4
  <1> QED
    BY <1>2, <1>3, <1>4

\* One list, then another: \o under a name, for provers that would take it apart.
Then(s, t) == s \o t

\* The ring m2 ends k units behind e, at e2, and holds the same commands before e.
Extended(m, e, C, m2, e2, k) ==
    /\ \A c \in C : Dist(e2, c) = Dist(e, c) + k /\ Dist(e, c) + k <= RingBytes
    /\ \A c \in C \ {e} : /\ m2[Slot(c)].bytes = m[Slot(c)].bytes
                          /\ m2[Slot(c)].kind = m[Slot(c)].kind
                          /\ Content(m2, c) = Content(m, c) /\ Content(m, c) \in Load

\* It lists what was listed before and then what lies in those k units.
LEMMA ListingGrows ==
    ASSUME NEW m, NEW m2, NEW e \in Cursor, NEW e2 \in Cursor, NEW k \in Nat,
           NEW C \in SUBSET Cursor, Chain(m, e, C), Extended(m, e, C, m2, e2, k),
           Listing(m2, e2)[k] \in Seq(Load), NEW from \in C
    PROVE  /\ Listing(m, e)[Dist(e, from)] \in Seq(Load)
           /\ Listing(m2, e2)[Dist(e2, from)] =
                Then(Listing(m, e)[Dist(e, from)], Listing(m2, e2)[k])
  <1> DEFINE f == Listing(m, e)
             f2 == Listing(m2, e2)
             Same(c) == f[Dist(e, c)] \in Seq(Load) /\ f2[Dist(e2, c)] = Then(f[Dist(e, c)], f2[k])
             Bad == {i \in Nat : \E c \in C : Dist(e, c) = i /\ ~Same(c)}
  <1>1. /\ RingBytes \in Nat /\ \A c \in C : Dist(e, c) <= RingBytes
        /\ \A c \in C : Dist(e, c) \in Nat /\ (Dist(e, c) = 0 => c = e)
    <2>1. \A c \in C : Dist(e, c) \in Nat /\ (Dist(e, c) = 0 => c = e)
      BY DistChain, RingAssumption
    <2> QED
      BY <2>1, RingAssumption DEF Chain
  <1> SUFFICES ASSUME Bad # {}
               PROVE  FALSE
    BY <1>1
  <1>2. PICK i \in Bad : \A j \in Bad : i <= j
    BY LeastNumber
  <1>3. PICK c \in C : Dist(e, c) = i /\ ~Same(c)
    BY <1>2
  <1>4. /\ i \in 0 .. RingBytes /\ Dist(e2, c) = i + k /\ i + k \in 0 .. RingBytes
        /\ f[i] = Entry(m, e, f, i) /\ f2[i + k] = Entry(m2, e2, f2, i + k)
    BY <1>1, <1>3, ListingAt DEF Extended
  <1>5. CASE i = 0
    <2>1. f[i] = <<>>
      BY <1>4, <1>5 DEF Entry
    <2>2. f[i] \in Seq(Load) /\ f2[i + k] = Then(f[i], f2[k])
      <3>1. <<>> \in Seq(Load) /\ Then(<<>>, f2[k]) = f2[k]
        BY ConcatEmptySeq DEF Then
      <3>2. i + k = k
        BY <1>5
      <3> QED
        BY <2>1, <3>1, <3>2
    <2> QED
      BY <1>3, <1>4, <2>2
  <1>6. CASE i # 0
    <2> DEFINE n == m[Slot(c)].bytes
               d == (c + n) % Word
    <2>1. c # e
      BY <1>3, <1>4, <1>6, DistChain
    <2>2. n \in 1 .. i /\ d \in C /\ Dist(e, d) = i - n
      BY <1>3, <2>1 DEF Chain
    <2>3. Same(d)
      <3>1. i - n \in Nat /\ i - n < i
        BY <1>4, <2>2
      <3> HIDE DEF Same
      <3>2. i - n \in Bad => i <= i - n
        BY <1>2
      <3> QED
        BY <1>4, <2>2, <3>1, <3>2
    <2>4. f[i - n] \in Seq(Load) /\ f2[(i + k) - n] = Then(f[i - n], f2[k])
      <3>1. Dist(e2, d) = (i + k) - n
        BY <1>4, <2>2 DEF Extended
      <3> QED
        BY <2>2, <2>3, <3>1
    <2>5. /\ Slot(e - i) = Slot(c) /\ Content(m, e - i) = Content(m, c)
          /\ Slot(e2 - (i + k)) = Slot(c) /\ Content(m2, e2 - (i + k)) = Content(m2, c)
      BY <1>3, <1>4, SlotBack
    <2>6. /\ m2[Slot(c)].bytes = n /\ m2[Slot(c)].kind = m[Slot(c)].kind
          /\ Content(m2, c) = Content(m, c) /\ Content(m, c) \in Load
      BY <2>1 DEF Extended
    <2>7. i + k # 0 /\ n \in 1 .. i + k
      BY <1>4, <1>6, <2>2
    <2>8. CASE m[Slot(c)].kind = "wrap"
      <3>1. f[i] = f[i - n] /\ f2[i + k] = f2[(i + k) - n]
        BY <1>4, <1>6, <2>2, <2>5, <2>6, <2>7, <2>8 DEF Entry
      <3> QED
        BY <1>3, <1>4, <2>4, <3>1
    <2>9. CASE m[Slot(c)].kind # "wrap"
      <3>1. /\ f[i] = <<Content(m, c)>> \o f[i - n]
            /\ f2[i + k] = <<Content(m, c)>> \o f2[(i + k) - n]
        BY <1>4, <1>6, <2>2, <2>5, <2>6, <2>7, <2>9 DEF Entry
      <3>2. f[i] \in Seq(Load) /\ Then(f[i], f2[k]) = <<Content(m, c)>> \o Then(f[i - n], f2[k])
        <4>1. Content(m, c) \in Load /\ f[i - n] \in Seq(Load) /\ f2[k] \in Seq(Load)
          BY <2>4, <2>6
        <4> HIDE DEF f, f2, n
        <4>2. <<Content(m, c)>> \o f[i - n] \in Seq(Load)
          BY <4>1, Prepend
        <4>3. (<<Content(m, c)>> \o f[i - n]) \o f2[k] = <<Content(m, c)>> \o (f[i - n] \o f2[k])
          BY <4>1, Prepend
        <4> QED
          BY <3>1, <4>2, <4>3 DEF Then
      <3> QED
        BY <1>3, <1>4, <2>4, <3>1, <3>2
    <2> QED
      BY <2>8, <2>9
  <1> QED
    BY <1>5, <1>6

\* The cuts up to what the producer has finished writing.
Before(B) == {c \in B : Span(c) <= Span(Written)}

\* How far two cursors ahead of the consumer are apart.
LEMMA SpanDist ==
    ASSUME crd \in Cursor, NEW c \in Cursor, NEW d \in Cursor, Span(c) <= Span(d)
    PROVE  Dist(d, c) = Span(d) - Span(c) /\ Span(c) \in Nat /\ Span(d) \in Nat
  <1>1. /\ Dist(d, crd) = Dist(d, c) + Dist(c, crd)
        /\ Dist(d, c) \in 0 .. Word - 1 /\ Dist(c, crd) \in 0 .. Word - 1
        /\ Dist(d, crd) \in 0 .. Word - 1
    BY DistChain DEF Span
  <1> QED
    BY <1>1 DEF Span

\* What the producer has finished writing is cut into commands.
LEMMA WrittenChain ==
    ASSUME TypeInv, Order, NEW B \in SUBSET Cursor, Cut(B)
    PROVE  /\ Chain(mem, Written, Before(B)) /\ Before(B) \in SUBSET Cursor
           /\ crd \in Before(B) /\ Written \in Before(B)
           /\ Span(Written) \in 0 .. RingBytes /\ Dist(Written, crd) = Span(Written)
           /\ \A c \in Before(B) : Dist(Written, c) = Span(Written) - Span(c)
  <1>1. /\ {crd, Written, wr} \subseteq B /\ crd \in Cursor
        /\ RingBytes \in Nat /\ Written \in Cursor
    BY CutFacts, RingAssumption DEF Cut, TypeInv, TypeOK
  <1>2. /\ \A c \in B : Span(c) \in 0 .. RingBytes /\ Span(crd) = 0
        /\ \A c, d \in B : Span(c) = Span(d) => c = d
        /\ \A c \in B : mem[Slot(c)].bytes \in 0 .. RingBytes
    BY CutFacts
  <1>3. Before(B) \in SUBSET Cursor /\ crd \in Before(B) /\ Written \in Before(B)
    BY <1>1, <1>2 DEF Before
  <1>4. \A c \in Before(B) : Dist(Written, c) = Span(Written) - Span(c)
    BY <1>1, SpanDist DEF Before
  <1>5. ASSUME NEW c \in Before(B), c # Written
        PROVE  LET n == mem[Slot(c)].bytes
               IN  /\ n \in 1 .. Dist(Written, c) /\ (c + n) % Word \in Before(B)
                   /\ Dist(Written, (c + n) % Word) = Dist(Written, c) - n
    <2> DEFINE n == mem[Slot(c)].bytes
               d == (c + n) % Word
    <2>1. c \in B /\ Span(c) \in Nat /\ Span(Written) \in Nat /\ Span(c) < Span(Written)
      BY <1>1, <1>2, <1>5 DEF Before
    <2>2. c # wr
      <3>1. Span(wr) \in Nat /\ Span(Written) <= Span(wr)
        BY <1>1, <1>2 DEF Order
      <3> QED
        BY <2>1, <3>1
    <2>3. Whole(c, B) /\ n \in 0 .. RingBytes
      BY <1>2, <2>1, <2>2 DEF Cut
    <2>4. n >= 1 /\ d \in B /\ Span(Written) >= Span(c) + n
      BY <1>1, <2>1, <2>3 DEF Whole
    <2>5. Span(d) = Span(c) + n
      <3>1. c \in Cursor /\ Dist(c, crd) <= RingBytes
        BY <1>2, <2>1 DEF Span
      <3> QED
        BY <1>1, <2>3, <3>1, DistAdd DEF Span
    <2>6. d \in Before(B)
      BY <2>4, <2>5 DEF Before
    <2> QED
      BY <1>4, <1>5, <2>1, <2>3, <2>4, <2>5, <2>6
  <1>6. \A c \in Before(B) : Dist(Written, c) <= RingBytes
    <2>1. ASSUME NEW c \in Before(B)
          PROVE  Dist(Written, c) <= RingBytes
      <3>1. Span(c) \in 0 .. RingBytes /\ Span(Written) \in 0 .. RingBytes
        BY <1>1, <1>2 DEF Before
      <3> QED
        BY <1>1, <1>4, <3>1
    <2> QED
      BY <2>1
  <1>7. Chain(mem, Written, Before(B))
    BY <1>5, <1>6 DEF Chain
  <1>8. Dist(Written, crd) = Span(Written)
    BY DEF Span
  <1> QED
    BY <1>1, <1>2, <1>3, <1>4, <1>7, <1>8

\* What is pending is the list of the commands written, and a list of loads.
LEMMA PendingList ==
    ASSUME TypeInv, Order, NEW B \in SUBSET Cursor, Cut(B), Alive
    PROVE  /\ Pending = Listing(mem, Written)[Dist(Written, crd)]
           /\ \A c \in Before(B) : Listing(mem, Written)[Dist(Written, c)] \in Seq(Load)
           /\ Pending \in Seq(Load)
  <1>1. /\ Chain(mem, Written, Before(B)) /\ Before(B) \in SUBSET Cursor
        /\ crd \in Before(B) /\ Written \in Before(B)
        /\ Dist(Written, crd) \in 0 .. RingBytes
    BY WrittenChain
  <1>2. Pending = Listing(mem, Written)[Dist(Written, crd)]
    BY <1>1 DEF Pending, CommandsBefore
  <1>3. \A c \in Before(B) : Content(mem, c) \in Load
    BY <1>1, ContentType DEF TypeInv, Load
  <1>4. Listing(mem, Written)[0] = <<>> /\ <<>> \in Seq(Load)
    <2>1. 0 \in 0 .. RingBytes
      BY RingAssumption
    <2>2. Listing(mem, Written)[0] = Entry(mem, Written, Listing(mem, Written), 0)
      BY <2>1, ListingAt
    <2> QED
      BY <2>2 DEF Entry
  <1>5. \A c \in Before(B) : /\ Dist(Written, c) = Dist(Written, c) + 0
                            /\ Dist(Written, c) + 0 <= RingBytes
    <2>1. ASSUME NEW c \in Before(B)
          PROVE  Dist(Written, c) = Dist(Written, c) + 0 /\ Dist(Written, c) + 0 <= RingBytes
      <3>1. Dist(Written, c) \in 0 .. Word - 1 /\ Dist(Written, c) <= RingBytes
        BY <1>1, DistChain DEF Chain
      <3> QED
        BY <3>1
    <2> QED
      BY <2>1
  <1>6. \A c \in Before(B) : Listing(mem, Written)[Dist(Written, c)] \in Seq(Load)
    <2>1. Written \in Cursor /\ 0 \in Nat /\ Listing(mem, Written)[0] \in Seq(Load)
      BY <1>1, <1>4
    <2>2. Extended(mem, Written, Before(B), mem, Written, 0)
      BY <1>3, <1>5 DEF Extended
    <2> QED
      BY <1>1, <2>1, <2>2, ListingGrows
  <1> QED
    BY <1>1, <1>2, <1>6

\* A command none of whose slots is written keeps what it carries.
LEMMA ContentKept ==
    ASSUME NEW m, NEW m2, NEW c \in Cursor, m[Slot(c)].bytes \in Nat \ {0},
           \A k \in 0 .. m[Slot(c)].bytes - 1 : m2[Slot(c) + k].load = m[Slot(c) + k].load,
           m2[Slot(c)].bytes = m[Slot(c)].bytes
    PROVE  Content(m2, c) = Content(m, c)
  <1> DEFINE s == Slot(c)
             n == m[s].bytes
  <1>1. s \in Int
    BY CursorArithmetic, RingAssumption
  <1>2. m2[s].load = m[s].load
    <2>1. 0 \in 0 .. n - 1 /\ s + 0 = s
      BY <1>1
    <2> QED
      BY <2>1
  <1>3. \A i \in s .. s + n - 1 : m2[i].load = m[i].load
    <2>1. ASSUME NEW i \in s .. s + n - 1
          PROVE  m2[i].load = m[i].load
      <3>1. i - s \in 0 .. n - 1 /\ s + (i - s) = i
        BY <1>1
      <3> QED
        BY <3>1
    <2> QED
      BY <2>1
  <1> QED
    BY <1>2, <1>3 DEF Content

\* Nothing is listed in no units.
LEMMA ListingNone ==
    ASSUME NEW m, NEW e
    PROVE  Listing(m, e)[0] = <<>> /\ <<>> \in Seq(Load)
  <1>1. 0 \in 0 .. RingBytes
    BY RingAssumption
  <1>2. Listing(m, e)[0] = Entry(m, e, Listing(m, e), 0)
    BY <1>1, ListingAt
  <1> QED
    BY <1>2 DEF Entry

\* What is pending after a step that leaves the render thread alive.
LEMMA PendingAfter ==
    ASSUME Alive', NEW e, NEW c, NEW m, Written' = e, crd' = c, mem' = m, Dist(e, c) \in 0 .. RingBytes
    PROVE  Pending' = Listing(m, e)[Dist(e, c)]
  <1>1. Dist(Written, crd)' = Dist(e, c)
    BY DEF Dist
  <1> QED
    BY <1>1 DEF Pending, CommandsBefore

\* Reserving space queues nothing: the padding is skipped and the command is not
\* written yet.
LEMMA ClaimQueues ==
    ASSUME TypeInv, Order, NEW B \in SUBSET Cursor, Cut(B), Alive, Alive',
           ppc \in {"reserve", "refit"}, rdCache' \in {rdCache, rd}, Fits(req, rdCache'), Claim,
           UNCHANGED <<req, crd, cpub, pubMem, pub, rd>>,
           NEW s \in Cursor, s = Start(req)
    PROVE  Pending' = Pending
  <1> DEFINE C == Before(B)
             pad == Pad(req)
  <1>1. PICK m : m = mem'
    OBVIOUS
  <1>2. /\ Written' = s /\ Written = wr /\ wr \in Cursor /\ crd \in Cursor /\ req \in Sizes
        /\ wr \in B /\ (pad > 0 => m[Slot(wr)] = NewCell("wrap", pad))
    <2>1. PICK w : w = wr'
      OBVIOUS
    <2>2. /\ Written' = s /\ Written = wr /\ (pad > 0 => m[Slot(wr)] = NewCell("wrap", pad))
      BY <1>1, <2>1, ClaimKeeps
    <2> QED
      BY <2>2 DEF TypeInv, TypeOK, EmitState, Cut
  <1>3. /\ Chain(mem, wr, C) /\ C \in SUBSET Cursor /\ crd \in C /\ C \subseteq B
        /\ \A c \in C : Dist(wr, c) = Span(wr) - Span(c) /\ Span(c) <= Span(wr)
    BY <1>2, WrittenChain DEF Before
  <1>4. /\ Span(wr) \in Nat /\ Span(s) = Span(wr) + pad /\ Span(wr) + pad <= RingBytes
        /\ pad \in 0 .. RingBytes
    <2>1. /\ Span(wr) \in Nat /\ Span(s) = Span(wr) + pad
          /\ Span(wr) + pad + req <= RingBytes
      BY <1>2, StartFacts
    <2>2. pad \in 0 .. RingBytes /\ req \in 1 .. RingBytes /\ RingBytes \in Nat
      BY <1>2, PadFacts, RingAssumption
    <2> QED
      BY <2>1, <2>2
  <1>5. ASSUME NEW c \in C
        PROVE  Dist(s, c) = Dist(wr, c) + pad /\ Dist(wr, c) + pad <= RingBytes
    <2>1. c \in Cursor /\ Dist(wr, c) = Span(wr) - Span(c) /\ Span(c) <= Span(wr)
      BY <1>3
    <2>2. Span(c) \in Nat
      BY <1>2, <2>1, SpanDist
    <2>3. Span(c) <= Span(s)
      BY <1>4, <2>1, <2>2
    <2>4. Dist(s, c) = Span(s) - Span(c)
      BY <1>2, <2>1, <2>3, SpanDist
    <2> QED
      BY <1>4, <2>1, <2>2, <2>4, RingAssumption
  <1>6. ASSUME NEW c \in C \ {wr}
        PROVE  /\ m[Slot(c)].bytes = mem[Slot(c)].bytes /\ m[Slot(c)].kind = mem[Slot(c)].kind
               /\ Content(m, c) = Content(mem, c) /\ Content(mem, c) \in Load
    <2>1. c \in B \ {wr} /\ c \in Cursor
      BY <1>3
    <2>2. mem[Slot(c)].bytes \in Nat \ {0}
      BY <2>1, CutFacts DEF Cut, Whole
    <2>3. \A k \in 0 .. mem[Slot(c)].bytes - 1 : m[Slot(c) + k] = mem[Slot(c) + k]
      BY <1>1, <1>2, <2>1, ClaimApart
    <2>4. m[Slot(c)] = mem[Slot(c)]
      <3>1. 0 \in 0 .. mem[Slot(c)].bytes - 1 /\ Slot(c) + 0 = Slot(c)
        BY <2>1, <2>2, CutFacts
      <3> QED
        BY <2>3, <3>1
    <2>5. Content(m, c) = Content(mem, c)
      BY <2>1, <2>2, <2>3, <2>4, ContentKept
    <2>6. Content(mem, c) \in Load
      BY <2>1, ContentType DEF TypeInv, Load
    <2> QED
      BY <2>4, <2>5, <2>6
  <1>7. Listing(m, s)[pad] = <<>>
    <2>1. CASE pad = 0
      BY <2>1, ListingNone
    <2>2. CASE pad # 0
      <3>1. Dist(s, wr) = pad
        BY <1>2, <1>4, SpanDist
      <3>2. Slot(s - pad) = Slot(wr)
        BY <1>2, <3>1, SlotBack
      <3>3. m[Slot(s - pad)].kind = "wrap" /\ m[Slot(s - pad)].bytes = pad
        BY <1>2, <1>4, <2>2, <3>2 DEF NewCell
      <3>4. Listing(m, s)[pad] = Entry(m, s, Listing(m, s), pad)
        BY <1>4, ListingAt
      <3>5. pad \in 1 .. pad /\ pad - pad = 0
        BY <1>4, <2>2
      <3> QED
        BY <2>2, <3>3, <3>4, <3>5, ListingNone DEF Entry
    <2> QED
      BY <2>1, <2>2
  <1>8. /\ Listing(mem, wr)[Dist(wr, crd)] \in Seq(Load)
        /\ Listing(m, s)[Dist(s, crd)] = Then(Listing(mem, wr)[Dist(wr, crd)], <<>>)
    <2>1. Listing(m, s)[pad] \in Seq(Load) /\ pad \in Nat
      BY <1>4, <1>7, ListingNone
    <2>2. Extended(mem, wr, C, m, s, pad)
      BY <1>5, <1>6 DEF Extended
    <2> HIDE DEF pad
    <2> HIDE DEF C
    <2>3. /\ Listing(mem, wr)[Dist(wr, crd)] \in Seq(Load)
          /\ Listing(m, s)[Dist(s, crd)] = Then(Listing(mem, wr)[Dist(wr, crd)], Listing(m, s)[pad])
      BY <1>2, <1>3, <2>1, <2>2, ListingGrows
    <2> QED
      BY <1>7, <2>3
  <1>9. Pending = Listing(mem, wr)[Dist(wr, crd)]
    BY <1>2, PendingList
  <1>10. Pending' = Listing(m, s)[Dist(s, crd)]
    <2>1. Dist(s, crd) \in 0 .. RingBytes
      BY <1>4, RingAssumption DEF Span
    <2>2. PICK c : c = crd
      OBVIOUS
    <2> QED
      BY <1>1, <1>2, <2>1, <2>2, PendingAfter
  <1> QED
    BY <1>8, <1>9, <1>10, ConcatEmptySeq DEF Then

\* A command filled in is queued behind everything pending.
LEMMA FillQueues ==
    ASSUME TypeInv, Held, Alive, Alive', NEW p \in Payload, Fill(p)
    PROVE  Pending \in Seq(Load) /\ Pending' = Then(Pending, <<p>>)
  <1>1. PICK B \in SUBSET Cursor : Cut(B)
    BY DEF Held
  <1> DEFINE C == Before(B)
  <1>2. PICK m : m = mem'
    OBVIOUS
  <1>3. PICK e : e = Written
    OBVIOUS
  <1>4. /\ Order /\ Filling /\ Written' = wr /\ ppc = "fill" /\ crd' = crd /\ e = (wr - req) % Word
        /\ req \in Sizes /\ wr \in Cursor /\ crd \in Cursor /\ {wr, Written} \subseteq B
    <2>1. Written' = wr
      BY FillHeld
    <2>2. {wr, Written} \subseteq B
      BY <1>1 DEF Cut
    <2>3. ppc = "fill" /\ crd' = crd
      BY DEF Fill, consumer
    <2>4. e = (wr - req) % Word
      BY <1>3, <2>3 DEF Written
    <2>5. req \in Sizes /\ wr \in Cursor /\ crd \in Cursor
      BY <2>3 DEF TypeInv, TypeOK, EmitState
    <2> QED
      BY <2>1, <2>2, <2>3, <2>4, <2>5 DEF Held
  <1>5. /\ Chain(mem, e, C) /\ C \in SUBSET Cursor /\ crd \in C /\ C \subseteq B
        /\ \A c \in C : Dist(e, c) = Span(e) - Span(c) /\ Span(c) <= Span(e)
        /\ Span(e) \in Nat /\ e \in Cursor /\ e \in B
    <2>1. /\ Chain(mem, e, C) /\ C \in SUBSET Cursor /\ crd \in C /\ e \in C
          /\ Span(e) \in 0 .. RingBytes /\ \A c \in C : Dist(e, c) = Span(e) - Span(c)
      BY <1>1, <1>3, <1>4, WrittenChain
    <2>2. C \subseteq B /\ \A c \in C : Span(c) <= Span(e)
      BY <1>3 DEF Before
    <2> QED
      BY <2>1, <2>2
  <1>6. req \in 1 .. RingBytes /\ RingBytes \in Nat /\ Word \in Nat /\ Word >= 3 * RingBytes
    BY <1>4, PadFacts, RingAssumption
  <1>7. (e + req) % Word = wr /\ wr # e
    <2>1. e = IF req <= wr THEN wr - req ELSE wr - req + Word
      <3>1. /\ wr \in 0 .. Word - 1 /\ wr - req \in Int /\ Word \in Nat \ {0}
            /\ (IF req <= wr THEN wr - req ELSE wr - req + Word) \in 0 .. Word - 1
        BY <1>4, <1>6 DEF Cursor
      <3> QED
        BY <1>4, <3>1, ModNear
    <2>2. wr \in 0 .. Word - 1 /\ Word \in Nat \ {0} /\ e + req \in Int
      BY <1>4, <1>6, <2>1 DEF Cursor
    <2>3. (e + req) % Word = IF e + req < Word THEN e + req ELSE e + req - Word
      BY <1>5, <1>6, AddWord
    <2> QED
      BY <1>6, <2>1, <2>2, <2>3
  <1>8. mem[Slot(e)].bytes = req /\ mem[Slot(e)].kind = "cmd"
    BY <1>3, <1>4 DEF Filling
  <1>9. /\ Slot(e) + req <= RingBytes /\ Slot(e) \in 0 .. RingBytes - 1
        /\ Span(wr) = Span(e) + req /\ Span(wr) \in 0 .. RingBytes
    <2>1. Whole(e, B)
      BY <1>1, <1>5, <1>7 DEF Cut
    <2>2. /\ Slot(e) \in 0 .. RingBytes - 1 /\ Span(e) \in 0 .. RingBytes
          /\ Span(wr) \in 0 .. RingBytes
      BY <1>1, <1>4, <1>5, CutFacts
    <2>3. Span(wr) = Span(e) + req
      <3>1. req \in 0 .. RingBytes /\ Dist(e, crd) <= RingBytes
        BY <1>6, <2>2 DEF Span
      <3> QED
        BY <1>4, <1>5, <1>7, <3>1, DistAdd DEF Span
    <2> QED
      BY <1>8, <2>1, <2>2, <2>3 DEF Whole
  <1>10. /\ m = [i \in 0 .. RingBytes - 1 |->
                   IF i \in Slot(e) .. Slot(e) + req - 1
                   THEN [mem[i] EXCEPT !.load = p] ELSE mem[i]]
         /\ mem \in [0 .. RingBytes - 1 -> Cell]
    <2>1. Slot(e) = Slot(wr - req)
      BY <1>4, SlotWord, RingAssumption DEF Cursor
    <2> QED
      BY <1>2, <2>1 DEF Fill, TypeInv, TypeOK
  <1>11. /\ \A i \in 0 .. RingBytes - 1 : m[i].bytes = mem[i].bytes /\ m[i].kind = mem[i].kind
         /\ \A i \in Slot(e) .. Slot(e) + req - 1 : m[i].load = p
         /\ \A i \in 0 .. RingBytes - 1 :
               i \notin Slot(e) .. Slot(e) + req - 1 => m[i] = mem[i]
    BY <1>6, <1>9, <1>10 DEF Cell
  <1>12. ASSUME NEW c \in C
         PROVE  Dist(wr, c) = Dist(e, c) + req /\ Dist(e, c) + req <= RingBytes
    <2>1. c \in Cursor /\ Dist(e, c) = Span(e) - Span(c) /\ Span(c) <= Span(e)
      BY <1>5
    <2>2. Span(c) \in Nat
      BY <1>4, <1>5, <2>1, SpanDist
    <2>3. Span(c) <= Span(wr)
      BY <1>5, <1>6, <1>9, <2>1, <2>2
    <2>4. Dist(wr, c) = Span(wr) - Span(c)
      BY <1>4, <2>1, <2>3, SpanDist
    <2> QED
      BY <1>5, <1>6, <1>9, <2>1, <2>2, <2>4
  <1>13. ASSUME NEW c \in C \ {e}
         PROVE  /\ m[Slot(c)].bytes = mem[Slot(c)].bytes /\ m[Slot(c)].kind = mem[Slot(c)].kind
                /\ Content(m, c) = Content(mem, c) /\ Content(mem, c) \in Load
    <2>1. c \in B /\ c \in Cursor /\ Span(c) <= Span(e)
      BY <1>5
    <2>2. Slot(c) \in 0 .. RingBytes - 1 /\ Span(c) \in Nat
      BY <1>1, <1>4, <2>1, CutFacts
    <2>3. c # wr
      BY <1>5, <1>6, <1>9, <2>1, <2>2
    <2> DEFINE n == mem[Slot(c)].bytes
    <2>4. n \in 1 .. RingBytes /\ Slot(c) + n <= RingBytes /\ Span(e) >= Span(c) + n
      <3>1. Whole(c, B) /\ n \in 0 .. RingBytes
        BY <1>1, <1>4, <2>1, <2>3, CutFacts DEF Cut
      <3>2. ~(Span(e) <= Span(c))
        <4>1. Span(e) = Span(c) => e = c
          BY <1>1, <1>4, <1>5, <2>1, CutFacts
        <4> QED
          BY <1>5, <2>1, <2>2, <4>1
      <3> QED
        BY <1>5, <1>6, <3>1, <3>2 DEF Whole
    <2>5. ASSUME NEW k \in 0 .. n - 1
          PROVE  m[Slot(c) + k].load = mem[Slot(c) + k].load
      <3>1. k \in Nat /\ Slot(c) + k \in 0 .. RingBytes - 1 /\ Slot(c) + k < RingBytes
        BY <1>6, <2>2, <2>4
      <3>2. \A j \in 0 .. req - 1 : Slot(c) + k # Slot(e) + j
        <4>1. ASSUME NEW j \in 0 .. req - 1
              PROVE  Slot(c) + k # Slot(e) + j
          <5>1. j \in Nat /\ Slot(e) + j < RingBytes
            BY <1>6, <1>9
          <5>2. Span(c) + k < Span(e) + j /\ Span(e) + j < RingBytes
            BY <1>5, <1>6, <1>9, <2>2, <2>4, <3>1, <5>1
          <5> QED
            BY <1>4, <1>5, <2>1, <3>1, <5>1, <5>2, Apart
        <4> QED
          BY <4>1
      <3>3. Slot(c) + k \notin Slot(e) .. Slot(e) + req - 1
        <4> SUFFICES ASSUME Slot(c) + k \in Slot(e) .. Slot(e) + req - 1
                     PROVE  FALSE
          OBVIOUS
        <4>1. (Slot(c) + k) - Slot(e) \in 0 .. req - 1
          BY <1>6, <1>9, <3>1
        <4>2. Slot(c) + k = Slot(e) + ((Slot(c) + k) - Slot(e))
          BY <1>9, <3>1
        <4> QED
          BY <3>2, <4>1, <4>2
      <3> QED
        BY <1>11, <3>1, <3>3
    <2>6. Content(m, c) = Content(mem, c)
      BY <1>11, <2>1, <2>2, <2>4, <2>5, ContentKept
    <2>7. Content(mem, c) \in Load
      BY <2>1, ContentType DEF TypeInv, Load
    <2> QED
      BY <1>11, <2>2, <2>6, <2>7
  <1>14. Listing(m, wr)[req] = <<p>>
    <2>1. Dist(wr, e) = req
      BY <1>4, <1>5, <1>6, <1>9, SpanDist
    <2>2. Slot(wr - req) = Slot(e) /\ Content(m, wr - req) = Content(m, e)
      BY <1>4, <1>5, <2>1, SlotBack
    <2>3. m[Slot(e)].bytes = req /\ m[Slot(e)].kind = "cmd"
      BY <1>8, <1>9, <1>11
    <2>4. Content(m, e) = p
      <3>1. Slot(e) \in Slot(e) .. Slot(e) + req - 1
        BY <1>6, <1>9
      <3>2. \A i \in Slot(e) .. Slot(e) + req - 1 : i < RingBytes /\ m[i].load = p
        BY <1>6, <1>9, <1>11
      <3> QED
        BY <1>11, <2>3, <3>1, <3>2 DEF Content
    <2>5. Listing(m, wr)[req] = Entry(m, wr, Listing(m, wr), req)
      BY <1>6, ListingAt
    <2>6. req \in 1 .. req /\ req # 0 /\ req - req = 0
      BY <1>6
    <2>7. Listing(m, wr)[req] = <<p>> \o Listing(m, wr)[0]
      BY <2>2, <2>3, <2>4, <2>5, <2>6 DEF Entry
    <2>8. <<p>> \in Seq(Load)
      BY DEF Load
    <2> QED
      BY <2>7, <2>8, ListingNone, ConcatEmptySeq
  <1>15. /\ Listing(mem, e)[Dist(e, crd)] \in Seq(Load)
         /\ Listing(m, wr)[Dist(wr, crd)] = Then(Listing(mem, e)[Dist(e, crd)], <<p>>)
    <2>1. Listing(m, wr)[req] \in Seq(Load) /\ req \in Nat
      BY <1>6, <1>14 DEF Load
    <2>2. Extended(mem, e, C, m, wr, req)
      BY <1>12, <1>13 DEF Extended
    <2> HIDE DEF C
    <2>3. /\ Listing(mem, e)[Dist(e, crd)] \in Seq(Load)
          /\ Listing(m, wr)[Dist(wr, crd)] = Then(Listing(mem, e)[Dist(e, crd)], Listing(m, wr)[req])
      BY <1>4, <1>5, <2>1, <2>2, ListingGrows
    <2> QED
      BY <1>14, <2>3
  <1>16. Pending = Listing(mem, e)[Dist(e, crd)]
    BY <1>1, <1>3, <1>4, PendingList
  <1>17. Pending' = Listing(m, wr)[Dist(wr, crd)]
    <2>1. Dist(wr, crd) \in 0 .. RingBytes
      BY <1>9 DEF Span
    <2>2. PICK c : c = crd
      OBVIOUS
    <2>3. PICK w : w = wr
      OBVIOUS
    <2> QED
      BY <1>2, <1>4, <2>1, <2>2, <2>3, PendingAfter
  <1> QED
    BY <1>15, <1>16, <1>17

\* A command that was run was the first one pending, and the device received what it
\* carries; the padding is skipped and carries nothing.
LEMMA FinishQueues ==
    ASSUME TypeInv, Between, Held, Alive, Alive', Finish
    PROVE  \/ Pending' = Pending /\ device' = device
           \/ Pending # <<>> /\ device' = Head(Pending) /\ Pending' = Tail(Pending)
  <1>1. PICK B \in SUBSET Cursor : Cut(B)
    BY DEF Held
  <1> DEFINE n == mem[Slot(crd)].bytes
             d == (crd + n) % Word
             f == Listing(mem, Written)
             k == Dist(Written, crd)
  <1>2. Order /\ cpc = "exec"
    BY DEF Held, Finish
  <1>3. /\ crd # Written /\ Dist(Written, d) = k - n
    <2>1. Written \in B \ {crd} /\ Dist(Written, d) = Span(Written) - n /\ crd # Written
      BY <1>1, <1>2, NextCommand
    <2> QED
      BY <2>1 DEF Span
  <1>4. /\ Chain(mem, Written, Before(B)) /\ crd \in Before(B) /\ k \in 0 .. RingBytes
        /\ Before(B) \in SUBSET Cursor /\ Written \in Cursor /\ crd \in Cursor
    <2>1. /\ Chain(mem, Written, Before(B)) /\ crd \in Before(B) /\ k \in 0 .. RingBytes
          /\ Before(B) \in SUBSET Cursor /\ Written \in Before(B)
      BY <1>1, <1>2, WrittenChain
    <2> QED
      BY <2>1
  <1>5. n \in 1 .. k /\ d \in Before(B)
    BY <1>3, <1>4 DEF Chain
  <1>6. /\ Pending = f[k] /\ f[k - n] \in Seq(Load)
    BY <1>1, <1>2, <1>3, <1>5, PendingList
  <1>7. Pending' = f[k - n]
    <2>1. k - n \in 0 .. RingBytes
      <3> HIDE DEF n, k
      <3> QED
        BY <1>4, <1>5, RingAssumption
    <2>2. PICK c \in Cursor : c = d
      BY <1>4, <1>5
    <2>3. PICK m : m = mem
      OBVIOUS
    <2>4. PICK e : e = Written
      OBVIOUS
    <2>5. Written' = e /\ crd' = c /\ mem' = m
      BY <2>2, <2>3, <2>4 DEF Finish, Written, producer
    <2> QED
      BY <1>3, <2>1, <2>2, <2>3, <2>4, <2>5, PendingAfter
  <1>8. f[k] = IF mem[Slot(crd)].kind = "wrap" THEN f[k - n] ELSE <<Content(mem, crd)>> \o f[k - n]
    <2>1. f[k] = Entry(mem, Written, f, k)
      BY <1>4, ListingAt
    <2>2. Slot(Written - k) = Slot(crd) /\ Content(mem, Written - k) = Content(mem, crd)
      BY <1>4, SlotBack
    <2>3. k # 0
      BY <1>4, <1>5
    <2> QED
      BY <1>5, <2>1, <2>2, <2>3 DEF Entry
  <1>9. CASE mem[Slot(crd)].kind = "wrap"
    BY <1>6, <1>7, <1>8, <1>9 DEF Finish
  <1>10. CASE mem[Slot(crd)].kind # "wrap"
    <2>1. device' = Content(mem, crd) /\ Content(mem, crd) \in Load
      BY <1>4, <1>10, ContentType DEF Finish, TypeInv, Load
    <2>2. Pending = <<Content(mem, crd)>> \o f[k - n]
      BY <1>6, <1>8, <1>10
    <2>3. Pending # <<>> /\ Head(Pending) = Content(mem, crd) /\ Tail(Pending) = f[k - n]
      <3> HIDE DEF f, k, n
      <3>1. PICK x \in Load : x = Content(mem, crd)
        BY <2>1
      <3>2. PICK t \in Seq(Load) : t = f[k - n]
        BY <1>6
      <3>3. Pending = <<x>> \o t
        BY <2>2, <3>1, <3>2
      <3> QED
        BY <3>1, <3>2, <3>3, Prepend
    <2> QED
      BY <1>7, <2>1, <2>3
  <1> QED
    BY <1>9, <1>10

------------------------------------------------------------------------------
(* The ring implements the queue. *)

\* A step that leaves the ring and the consumer's cursor alone queues nothing.
LEMMA QuietStep ==
    ASSUME UNCHANGED <<mem, crd, device, wr>>, Alive' = Alive,
           (ppc' = ppc /\ req' = req) \/ (ppc # "fill" /\ ppc' # "fill")
    PROVE  UNCHANGED Promise!vars
  <1>1. Written' = Written
    BY DEF Written
  <1>2. Dist(Written, crd)' = Dist(Written, crd)
    BY <1>1 DEF Dist
  <1>3. Pending' = Pending
    BY <1>1, <1>2 DEF Pending, CommandsBefore
  <1> QED
    BY <1>3 DEF Promise!vars

\* Every step of the ring is a step of the queue or leaves the queue alone.
LEMMA QueueStep ==
    ASSUME TypeInv, RingInv, [Next]_vars
    PROVE  [Promise!Next]_(Promise!vars)
  <1> DEFINE Step == [Promise!Next]_(Promise!vars)
  <1> SUFFICES Step
    OBVIOUS
  <1> USE DEF Alive
  <1>1. ASSUME NEW n \in Sizes, Emit(n)
        PROVE  Step
    BY <1>1, QuietStep DEF Emit, Publish, shared, consumer
  <1>2. ASSUME NEW p \in {"drain", "shutdown"}, Drain(p)
        PROVE  Step
    BY <1>2, QuietStep DEF Drain, AfterDrain, Publish, shared, consumer
  <1>3. CASE ShutdownDead \/ Drained \/ GiveUp \/ Stop
    BY <1>3, QuietStep DEF ShutdownDead, Drained, GiveUp, Stop, AfterDrain, Leave, held, shared,
          consumer
  <1>4. CASE StopWake \/ FlushFence \/ FlushWake
    <2>1. ppc # "fill" /\ ppc' # "fill"
      BY <1>4 DEF StopWake, FlushFence, FlushWake, TypeInv, EmitState
    <2> QED
      BY <1>4, <2>1, QuietStep DEF StopWake, FlushFence, FlushWake, held, shared, consumer
  <1>5. CASE RingFull
    BY <1>5, QuietStep DEF RingFull, Publish, shared, consumer
  <1>6. CASE Poll \/ Arm \/ Recheck \/ Woken \/ Timeout
    BY <1>6, QuietStep DEF Poll, Arm, Recheck, Woken, Timeout, Awake, producer, shared
  <1>7. CASE Begin \/ Die \/ CommitPub \/ CommitSleeping
    BY <1>7, QuietStep DEF Begin, Die, CommitPub, CommitSleeping, producer, shared, consumer
  <1>8. CASE Reserve \/ Refit
    <2>1. /\ ppc \in {"reserve", "refit"} /\ rdCache' \in {rdCache, rd}
          /\ UNCHANGED <<req, crd, cpub, pubMem, pub, rd, cpc, device>>
      BY <1>8 DEF Reserve, Refit, consumer
    <2>2. CASE ppc' = "full" /\ UNCHANGED <<mem, wr>>
      BY <2>1, <2>2, QuietStep
    <2>3. CASE Alive /\ Fits(req, rdCache') /\ Claim
      <3>1. PICK B \in SUBSET Cursor : Cut(B)
        BY <2>3 DEF RingInv, Held
      <3>2. PICK s \in Cursor : s = Start(req)
        BY <2>1, PadInRange, RingAssumption DEF TypeInv, TypeOK, EmitState
      <3>3. Order /\ Alive'
        BY <2>1, <2>3 DEF RingInv, Held
      <3>4. Pending' = Pending
        BY <2>1, <2>3, <3>1, <3>2, <3>3, ClaimQueues
      <3> QED
        BY <2>1, <2>3, <3>3, <3>4 DEF Promise!vars
    <2>4. CASE ~Alive
      BY <2>1, <2>4 DEF Pending, Promise!vars
    <2> QED
      BY <1>8, <2>2, <2>3, <2>4 DEF Reserve, Refit, RingInv, Between
  <1>9. ASSUME NEW p \in Payload, Fill(p)
        PROVE  Step
    <2>1. UNCHANGED <<cpc, device>>
      BY <1>9 DEF Fill, consumer
    <2>2. CASE ~Alive
      BY <2>1, <2>2 DEF Pending, Promise!vars
    <2>3. CASE Alive
      <3>1. Pending \in Seq(Load) /\ Pending' = Pending \o <<p>> /\ <<p>> \in Seq(Load)
        BY <1>9, <2>1, <2>3, FillQueues DEF RingInv, Then, Load
      <3>2. /\ Len(Pending') = Len(Pending) + 1
            /\ SubSeq(Pending', 1, Len(Pending)) = Pending
            /\ Pending'[Len(Pending')] \in Payload
        BY <3>1
      <3> QED
        BY <2>1, <2>3, <3>2 DEF Promise!Next, Promise!Enqueue
    <2> QED
      BY <2>2, <2>3
  <1>10. ASSUME NEW p \in Payload, DirectCall(p)
         PROVE  Step
    <2>1. device' \in Payload /\ UNCHANGED <<mem, crd, wr, cpc>> /\ ppc # "fill" /\ ppc' # "fill"
      BY <1>10 DEF DirectCall, held, shared, consumer
    <2>2. Written' = Written /\ Written = wr
      BY <2>1 DEF Written
    <2>3. Pending' = Pending /\ Alive' = Alive
      BY <2>1, <2>2 DEF Pending, CommandsBefore, Dist
    <2>4. Pending = <<>> \/ ppc = "overtake" \/ stop
      <3>1. ~Alive => Pending = <<>>
        BY DEF Pending
      <3>2. ASSUME Alive, ppc = "direct"
            PROVE  Pending = <<>>
        <4>1. crd = wr
          BY <3>2, NothingLeft DEF RingInv, Between
        <4>2. Dist(Written, crd) = 0 /\ 0 \in 0 .. RingBytes
          BY <2>2, <4>1, DistChain, RingAssumption DEF TypeInv, TypeOK
        <4> QED
          BY <4>2, ListingNone DEF Pending, CommandsBefore
      <3> QED
        BY <1>10, <3>1, <3>2 DEF DirectCall, RingInv, Between
    <2> QED
      BY <2>1, <2>3, <2>4 DEF Promise!Next, Promise!Direct
  <1>11. CASE Finish
    <2>1. Alive /\ Alive'
      BY <1>11 DEF Finish
    <2>2. \/ Pending' = Pending /\ device' = device
          \/ Pending # <<>> /\ device' = Head(Pending) /\ Pending' = Tail(Pending)
      BY <1>11, <2>1, FinishQueues DEF RingInv
    <2> QED
      BY <2>1, <2>2 DEF Promise!Next, Promise!Execute, Promise!vars
  <1>12. CASE Fault
    BY <1>12 DEF Fault, Pending, Promise!Next, Promise!Abandon
  <1>13. CASE UNCHANGED vars
    BY <1>13, QuietStep DEF vars, producer, consumer
  <1> QED
    BY <1>1, <1>2, <1>3, <1>4, <1>5, <1>6, <1>7, <1>8, <1>9, <1>10, <1>11, <1>12, <1>13
       DEF Next, ProducerStep, ConsumerStep

\* The ring implements the queue for every size of the ring, the word and the
\* commands: whatever the interleaving of Emit, RingReserve, Flush, Drain and
\* RenderThreadProc, the device receives what the client called, in its order, once,
\* with the arguments it was called with; only a call that follows an abandoned
\* drain, or Shutdown, may be late.
THEOREM FifoCorrect == Spec => Fifo
  <1>1. Init => Promise!Init
    <2> SUFFICES ASSUME Init
                 PROVE  Promise!Init
      OBVIOUS
    <2>1. Dist(0, 0) = 0 /\ 0 \in 0 .. RingBytes
      BY DistChain, RingAssumption DEF Cursor
    <2>2. Pending = <<>>
      BY <2>1, ListingNone DEF Init, Pending, CommandsBefore, Written
    <2> QED
      BY <2>2 DEF Init, Alive, Promise!Init
  <1>2. TypeInv /\ RingInv /\ [Next]_vars => [Promise!Next]_(Promise!vars)
    BY QueueStep
  <1> QED
    BY <1>1, <1>2, RingInvHolds, PTL DEF Spec, Fifo, Promise!Spec
=============================================================================
