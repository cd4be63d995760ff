---------------------------- MODULE GxFrames_proof ----------------------------
(* Frames, buffer locks and switches to direct calls, for every number of     *)
(* buffers, pieces, blocks and commands and every choice of events.           *)
EXTENDS GxFrames, FiniteSetTheorems, SequenceTheorems, NaturalsInduction,
        WellFoundedInduction, TLAPS

\* What a piece of a buffer, or a block of an arena, may hold.
Value == Data \cup {Zero, None}

\* The buffers under an emulated lock.
Open == {b \in Buffers : entry[b].mode # "none"}

\* The types, in groups of variables that change together.
Control ==
    /\ scenario \in Scenarios
    /\ mpc \in {"idle", "lock", "pieces", "place", "sync", "reset", "switch",
                "present", "dirty", "throttle"}
    /\ produced \in 0 .. FrameWord - 1 /\ consumed \in 0 .. FrameWord - 1
    /\ cur \in {0, 1} /\ used \in 0 .. ArenaBlocks
    /\ realLock \subseteq Buffers
    /\ lost \in BOOLEAN /\ hr \in {"ok", "lost"}
    /\ queueOff \in BOOLEAN /\ active \in BOOLEAN /\ dead \in BOOLEAN
    /\ device \in Calls \cup {None}

\* An upload in the ring names a buffer and a block.
QueueOK(q) ==
    /\ q \in Seq(Command) /\ Len(q) <= QueueMax
    /\ \A k \in 1 .. Len(q) : q[k].op = "upload" => q[k].buf \in Buffers /\ q[k].block \in Block

Store ==
    /\ arena \in [Block -> Value]
    /\ DOMAIN shadow = Buffers /\ DOMAIN real = Buffers
    /\ \A b \in Buffers : shadow[b] \in Contents(b) \cup {None} /\ real[b] \in Contents(b)

\* A lock answered with a block has one, and one answered with the shadow too.
Locks ==
    /\ entry \in [Buffers -> [mode : {"none", "arena", "shadow"}, block : Block \cup {None},
                              ro : BOOLEAN, disc : BOOLEAN]]
    /\ \A b \in Buffers : /\ entry[b].mode = "arena" => entry[b].block \in Block
                          /\ entry[b].mode = "shadow" => shadow[b] \in Contents(b)

\* A call of several steps knows its buffer and the piece it is at.
Job ==
    /\ job \in [buf : Buffers \cup {None}, piece : 0 .. Pieces, disc : BOOLEAN]
    /\ mpc = "lock" => job.buf \in Buffers
    /\ mpc \in {"pieces", "place"} => /\ job.buf \in Buffers /\ job.piece \in PiecesOf(job.buf)
                                      /\ shadow[job.buf] \in Contents(job.buf)

Types == Control /\ QueueOK(queue) /\ Store /\ Locks /\ Job

\* g_emulatedLocks counts the emulated locks.
Counted == IsFiniteSet(Open) /\ emulated = Cardinality(Open)

\* Direct calls begin with the ring empty and no emulated lock open, and neither
\* changes while they last: only a Present takes them back.
Off ==
    /\ dead => ~active
    /\ queueOff => queue = <<>> /\ Open = {} /\ "switch" \in Allowed
    /\ mpc = "switch" => Open = {} /\ "switch" \in Allowed
    /\ mpc \in {"lock", "pieces", "place", "sync", "dirty", "throttle", "switch"} => ~queueOff

FramesInv == Types /\ Counted /\ Off

------------------------------------------------------------------------------
(* The operators. *)

LEMMA ScenarioFacts ==
    ASSUME scenario \in Scenarios
    PROVE  /\ Class \in [Buffers -> {"sync", "direct", "shadow"}] /\ IsFiniteSet(Buffers)
           /\ Buffers \subseteq AllBuffers /\ None \notin Buffers
  <1>1. scenario.class \in [DOMAIN scenario.class -> {"sync", "direct", "shadow"}]
        /\ IsFiniteSet(DOMAIN scenario.class)
    BY FramesAssumption DEF FramesAssumption
  <1>2. Buffers \subseteq AllBuffers
    BY DEF AllBuffers, Buffers, Class
  <1>3. None \notin AllBuffers
    BY FramesAssumption DEF FramesAssumption
  <1> QED
    BY <1>1, <1>2, <1>3 DEF Class, Buffers

LEMMA RoomFacts ==
    ASSUME scenario \in Scenarios
    PROVE  QueueMax \in Nat \ {0}
  BY FramesAssumption DEF FramesAssumption, QueueMax

\* The scenario is chosen once, and with it what depends on it.
LEMMA SameScenario ==
    ASSUME scenario' = scenario
    PROVE  /\ Class' = Class /\ Buffers' = Buffers /\ Allowed' = Allowed /\ Command' = Command
           /\ Closed' = Closed /\ QueueMax' = QueueMax
           /\ \A b : PiecesOf(b)' = PiecesOf(b) /\ Contents(b)' = Contents(b)
           /\ \A q : QueueOK(q)' = QueueOK(q)
  BY DEF Class, Buffers, Allowed, QueueMax, Command, PiecesOf, Contents, QueueOK, Closed

LEMMA PiecesFacts ==
    ASSUME NEW b
    PROVE  /\ PiecesOf(b) \subseteq 1 .. Pieces /\ 1 \in PiecesOf(b)
           /\ \A i \in PiecesOf(b) : i # Cardinality(PiecesOf(b)) => i + 1 \in PiecesOf(b)
  <1>1. Pieces \in Nat \ {0}
    BY FramesAssumption DEF FramesAssumption
  <1>2. CASE Class[b] = "shadow"
    <2>1. PiecesOf(b) = 1 .. Pieces
      BY <1>2 DEF PiecesOf
    <2>2. Cardinality(1 .. Pieces) = Pieces
      BY <1>1, FS_Interval
    <2> QED
      BY <1>1, <2>1, <2>2
  <1>3. CASE Class[b] # "shadow"
    <2>1. PiecesOf(b) = {1}
      BY <1>3 DEF PiecesOf
    <2>2. Cardinality({1}) = 1
      BY FS_Singleton
    <2> QED
      BY <1>1, <2>1, <2>2
  <1> QED
    BY <1>2, <1>3

LEMMA UploadedType ==
    ASSUME NEW b, NEW contents \in Contents(b), NEW i, NEW v \in Value, NEW disc \in BOOLEAN
    PROVE  Uploaded(b, contents, i, v, disc) \in Contents(b)
  BY DEF Contents, Uploaded, Value

\* A command enters the ring, unless the render thread is dead.
LEMMA PostFacts ==
    ASSUME scenario \in Scenarios, QueueOK(queue), NEW c \in Command, Post(c),
           c.op = "upload" => c.buf \in Buffers /\ c.block \in Block
    PROVE  /\ QueueOK(queue')
           /\ dead => queue' = queue
           /\ ~dead => /\ queue' = Append(queue, c) /\ Len(queue') = Len(queue) + 1
                       /\ Len(queue) \in Nat
                       /\ \A k \in 1 .. Len(queue) : queue'[k] = queue[k]
                       /\ queue'[Len(queue) + 1] = c
  <1>1. CASE dead
    BY <1>1 DEF Post
  <1>2. CASE ~dead
    <2>1. queue' = Append(queue, c) /\ Len(queue) < QueueMax /\ queue \in Seq(Command)
      BY <1>2 DEF Post, QueueOK
    <2>2. /\ queue' \in Seq(Command) /\ Len(queue') = Len(queue) + 1 /\ Len(queue) \in Nat
          /\ \A k \in 1 .. Len(queue) : queue'[k] = queue[k]
          /\ queue'[Len(queue) + 1] = c
      BY <2>1
    <2>3. \A k \in 1 .. Len(queue') :
            queue'[k].op = "upload" => queue'[k].buf \in Buffers /\ queue'[k].block \in Block
      <3> SUFFICES ASSUME NEW k \in 1 .. Len(queue'), queue'[k].op = "upload"
                   PROVE  queue'[k].buf \in Buffers /\ queue'[k].block \in Block
        OBVIOUS
      <3>1. k \in 1 .. Len(queue) \/ k = Len(queue) + 1
        BY <2>2
      <3> QED
        BY <2>2, <3>1 DEF QueueOK
    <2>4. Len(queue') <= QueueMax
      BY <2>1, <2>2, RoomFacts
    <2> QED
      BY <1>2, <2>1, <2>2, <2>3, <2>4 DEF QueueOK
  <1> QED
    BY <1>1, <1>2

LEMMA PlainType == \A op \in {"present", "sync"} : Plain(op) \in Calls
  <1>1. Pieces \in Nat \ {0}
    BY FramesAssumption DEF FramesAssumption
  <1> QED
    BY <1>1 DEF Plain, Call, Calls

LEMMA BufferCallType ==
    ASSUME scenario \in Scenarios, NEW b \in Buffers, NEW op \in {"draw", "lock"}
    PROVE  Call(op, b, 0, None, FALSE) \in Calls
  <1>1. Pieces \in Nat \ {0} /\ b \in AllBuffers
    BY FramesAssumption, ScenarioFacts DEF FramesAssumption
  <1> QED
    BY <1>1 DEF Call, Calls

LEMMA UploadCallType ==
    ASSUME scenario \in Scenarios, NEW b \in Buffers, NEW i \in 0 .. Pieces, NEW v \in Value,
           NEW disc \in BOOLEAN
    PROVE  Call("upload", b, i, v, disc) \in Calls
  <1>1. b \in AllBuffers
    BY ScenarioFacts
  <1> QED
    BY <1>1 DEF Call, Calls, Value

LEMMA NextBlock ==
    ASSUME Control, used < ArenaBlocks
    PROVE  <<cur, used + 1>> \in Block /\ used + 1 \in 0 .. ArenaBlocks
  <1>1. ArenaBlocks \in Nat /\ used \in 0 .. ArenaBlocks /\ cur \in {0, 1}
    BY FramesAssumption DEF FramesAssumption, Control
  <1> QED
    BY <1>1 DEF Block

------------------------------------------------------------------------------
(* The actions keep the invariant. *)

\* An emulated lock is opened, or closed.
LEMMA OpenOne ==
    ASSUME Types, Counted, NEW b \in Buffers, b \notin Open, scenario' = scenario,
           NEW e, e.mode # "none", entry' = [entry EXCEPT ![b] = e], emulated' = emulated + 1
    PROVE  Counted' /\ Open' = Open \cup {b}
  <1>1. Buffers' = Buffers
    BY SameScenario
  <1>2. Open' = Open \cup {b}
    BY <1>1 DEF Open, Types, Locks
  <1>3. IsFiniteSet(Open \cup {b}) /\ Cardinality(Open \cup {b}) = Cardinality(Open) + 1
    BY FS_AddElement DEF Counted
  <1> QED
    BY <1>2, <1>3 DEF Counted

LEMMA CloseOne ==
    ASSUME Types, Counted, NEW b \in Open, scenario' = scenario,
           entry' = [entry EXCEPT ![b] = NoLock], emulated' = emulated - 1
    PROVE  Counted' /\ Open' = Open \ {b}
  <1>1. Buffers' = Buffers /\ NoLock.mode = "none"
    BY SameScenario DEF NoLock
  <1>2. Open' = Open \ {b}
    BY <1>1 DEF Open, Types, Locks
  <1>3. IsFiniteSet(Open \ {b}) /\ Cardinality(Open \ {b}) = Cardinality(Open) - 1
    BY FS_RemoveElement DEF Counted
  <1> QED
    BY <1>2, <1>3 DEF Counted

\* A step that opens and closes no lock.
LEMMA SameLocks ==
    ASSUME UNCHANGED <<scenario, entry, emulated>>
    PROVE  Open' = Open /\ (Counted => Counted')
  <1>1. Open' = Open
    BY SameScenario DEF Open
  <1> QED
    BY <1>1 DEF Counted

LEMMA LockKeeps ==
    ASSUME FramesInv, NEW b \in Buffers, NEW ro \in BOOLEAN, NEW disc \in BOOLEAN,
           Lock(b, ro, disc)
    PROVE  FramesInv'
  <1>1. /\ mpc = "idle" /\ entry[b].mode = "none"
        /\ scenario' = scenario /\ queue' = queue /\ produced' = produced /\ consumed' = consumed
        /\ real' = real /\ lost' = lost /\ hr' = hr
        /\ queueOff' = queueOff /\ active' = active /\ dead' = dead
    BY DEF Lock, Locked, frameVars, liveVars
  <1>2. Control /\ QueueOK(queue) /\ Store /\ Locks /\ Job /\ Counted /\ Off
    BY DEF FramesInv, Types
  <1>3. b \notin Open /\ (Live => ~queueOff) /\ Pieces \in Nat \ {0}
    BY <1>1, FramesAssumption DEF Open, Live, FramesAssumption
  <1>4. /\ Buffers' = Buffers /\ Allowed' = Allowed /\ QueueOK(queue)' = QueueOK(queue)
        /\ \A d : PiecesOf(d)' = PiecesOf(d) /\ Contents(d)' = Contents(d)
    BY <1>1, SameScenario
  <1>5. CASE ~Live /\ realLock' = realLock \cup {b} /\ device' = Call("lock", b, 0, None, FALSE)
             /\ UNCHANGED <<mainVars, arenaVars, entry, shadow, emulated>>
    <2>1. device' \in Calls
      BY <1>2, <1>5, BufferCallType DEF Control
    <2>2. Control' /\ QueueOK(queue)' /\ Store' /\ Locks' /\ Job'
      BY <1>1, <1>2, <1>4, <1>5, <2>1 DEF Control, Store, Locks, Job, mainVars, arenaVars
    <2>3. Open' = Open /\ Counted'
      BY <1>1, <1>2, <1>5, SameLocks
    <2>4. Off'
      BY <1>1, <1>2, <1>4, <1>5, <2>3 DEF Off, mainVars
    <2> QED
      BY <2>2, <2>3, <2>4, <1>1 DEF FramesInv, Types
  <1>6. CASE Live /\ mpc' = "lock" /\ job' = [NoJob EXCEPT !.buf = b]
             /\ UNCHANGED <<arenaVars, lockVars, device>>
    <2>1. job' = [buf |-> b, piece |-> 0, disc |-> FALSE]
      BY <1>6 DEF NoJob
    <2>2. Control' /\ QueueOK(queue)' /\ Store' /\ Locks' /\ Job'
      <3>1. Control' /\ QueueOK(queue)' /\ Store'
        BY <1>1, <1>2, <1>4, <1>6 DEF Control, Store, lockVars, arenaVars
      <3>2. Locks'
        BY <1>1, <1>2, <1>4, <1>6 DEF Locks, lockVars
      <3>3. job' \in [buf : Buffers \cup {None}, piece : 0 .. Pieces, disc : BOOLEAN] /\ job'.buf = b
        BY <1>3, <2>1
      <3>4. Job'
        BY <1>4, <1>6, <3>3 DEF Job
      <3> QED
        BY <3>1, <3>2, <3>4
    <2>3. Open' = Open /\ Counted'
      BY <1>1, <1>2, <1>6, SameLocks DEF lockVars
    <2>4. Off'
      BY <1>1, <1>2, <1>3, <1>4, <1>6, <2>3 DEF Off
    <2> QED
      BY <2>2, <2>3, <2>4, <1>1 DEF FramesInv, Types
  <1>7. CASE /\ Live /\ used < ArenaBlocks /\ used' = used + 1
             /\ entry' = [entry EXCEPT ![b] = [mode |-> "arena", block |-> <<cur, used + 1>>,
                                               ro |-> FALSE, disc |-> disc]]
             /\ emulated' = emulated + 1
             /\ UNCHANGED <<mainVars, cur, arena, shadow, realLock, device>>
    <2> DEFINE e == [mode |-> "arena", block |-> <<cur, used + 1>>, ro |-> FALSE, disc |-> disc]
    <2>1. <<cur, used + 1>> \in Block /\ used' \in 0 .. ArenaBlocks
      BY <1>2, <1>7, NextBlock
    <2>2. e \in [mode : {"none", "arena", "shadow"}, block : Block \cup {None},
                 ro : BOOLEAN, disc : BOOLEAN] /\ e.mode = "arena" /\ e.block \in Block
      BY <2>1
    <2>3. entry' = [entry EXCEPT ![b] = e]
      BY <1>7
    <2> HIDE DEF e
    <2>4. Control' /\ QueueOK(queue)' /\ Store' /\ Job'
      BY <1>1, <1>2, <1>4, <1>7, <2>1 DEF Control, Store, Job, mainVars
    <2>5. Locks'
      BY <1>2, <1>4, <1>7, <2>2, <2>3 DEF Locks
    <2>6. Counted'
      BY <1>1, <1>2, <1>3, <1>7, <2>2, <2>3, OpenOne DEF FramesInv
    <2>7. Off'
      BY <1>1, <1>2, <1>3, <1>4, <1>7 DEF Off, mainVars
    <2> QED
      BY <2>4, <2>5, <2>6, <2>7, <1>1 DEF FramesInv, Types
  <1>8. CASE /\ Live
             /\ shadow' = IF shadow[b] = None
                          THEN [shadow EXCEPT ![b] = [i \in PiecesOf(b) |-> Zero]]
                          ELSE shadow
             /\ entry' = [entry EXCEPT ![b] = [mode |-> "shadow", block |-> None,
                                               ro |-> ro, disc |-> disc]]
             /\ emulated' = emulated + 1
             /\ UNCHANGED <<mainVars, arenaVars, realLock, device>>
    <2> DEFINE e == [mode |-> "shadow", block |-> None, ro |-> ro, disc |-> disc]
               z == [i \in PiecesOf(b) |-> Zero]
    <2>1. z \in Contents(b)
      BY DEF Contents
    <2>2. e \in [mode : {"none", "arena", "shadow"}, block : Block \cup {None},
                 ro : BOOLEAN, disc : BOOLEAN] /\ e.mode = "shadow"
      OBVIOUS
    <2>3. entry' = [entry EXCEPT ![b] = e] /\ shadow' = IF shadow[b] = None THEN [shadow EXCEPT ![b] = z] ELSE shadow
      BY <1>8
    <2> HIDE DEF e, z
    <2>4. /\ DOMAIN shadow' = Buffers /\ shadow'[b] \in Contents(b)
          /\ \A d \in Buffers : d # b => shadow'[d] = shadow[d]
      BY <1>2, <2>1, <2>3 DEF Store
    <2>5. Control' /\ QueueOK(queue)' /\ Job'
      BY <1>1, <1>2, <1>4, <1>8 DEF Control, Job, mainVars, arenaVars
    <2>6. Store'
      BY <1>1, <1>2, <1>4, <1>8, <2>4 DEF Store, arenaVars
    <2>7. Locks'
      BY <1>2, <1>4, <1>8, <2>2, <2>3, <2>4 DEF Locks
    <2>8. Counted'
      BY <1>1, <1>2, <1>3, <1>8, <2>2, <2>3, OpenOne DEF FramesInv
    <2>9. Off'
      BY <1>1, <1>2, <1>3, <1>4, <1>8 DEF Off, mainVars
    <2> QED
      BY <2>5, <2>6, <2>7, <2>8, <2>9, <1>1 DEF FramesInv, Types
  <1> QED
    BY <1>5, <1>6, <1>7, <1>8, Zenon DEF Lock

\* A step that leaves the buffers, their locks and the call in hand alone.
LEMMA StillTyped ==
    ASSUME FramesInv, UNCHANGED <<scenario, arena, real, job, lockVars>>, QueueOK(queue'), Control',
           \/ mpc' = mpc
           \/ mpc' \notin {"lock", "pieces", "place"}
    PROVE  Types' /\ Counted' /\ Open' = Open
  <1>1. Store /\ Locks /\ Job /\ Counted
    BY DEF FramesInv, Types
  <1>2. /\ Buffers' = Buffers /\ (\A q : QueueOK(q)' = QueueOK(q))
        /\ \A d : PiecesOf(d)' = PiecesOf(d) /\ Contents(d)' = Contents(d)
    BY SameScenario
  <1>3. QueueOK(queue)'
    BY <1>2
  <1>4. Store'
    BY <1>1, <1>2 DEF Store, lockVars
  <1>5. Locks'
    BY <1>1, <1>2 DEF Locks, lockVars
  <1>6. Job'
    BY <1>1, <1>2 DEF Job, lockVars
  <1>7. Open' = Open /\ Counted'
    BY <1>1, SameLocks DEF lockVars
  <1> QED
    BY <1>3, <1>4, <1>5, <1>6, <1>7 DEF Types

LEMMA QuietKeeps ==
    ASSUME FramesInv, SyncCall \/ Sync \/ ResetCall \/ Reset \/ Lose \/ PresentHere \/ PresentDirty
                      \/ Throttle \/ Fault \/ Die
    PROVE  FramesInv'
  <1>1. Control /\ QueueOK(queue) /\ Off
    BY DEF FramesInv, Types
  <1>2. /\ UNCHANGED <<scenario, arena, real, job, lockVars, queue, frameVars, queueOff>>
        /\ (mpc' = mpc \/ mpc' \in {"idle", "reset"} \/ (mpc' \in {"sync", "dirty"} /\ Live))
    BY DEF SyncCall, Sync, ResetCall, Reset, Lose, PresentHere, PresentDirty, Throttle, Fault, Die,
           arenaVars, mainVars, liveVars
  <1>a. lost' \in {lost, TRUE, FALSE} /\ hr' \in {hr, "ok"}
    BY DEF SyncCall, Sync, ResetCall, Reset, ResetEnter, Lose, PresentHere, PresentDirty, Throttle,
           Fault, Die
  <1>b. \/ active' = active /\ dead' = dead
        \/ active' = FALSE /\ dead' = dead
        \/ ~active /\ active' = active /\ dead' = TRUE
    BY DEF SyncCall, Sync, ResetCall, Reset, Lose, PresentHere, PresentDirty, Throttle, Fault, Die,
           liveVars
  <1>3. device' \in Calls \cup {None}
    <2>1. device' \in {device, Plain("sync"), Plain("present")}
      BY DEF SyncCall, Sync, ResetCall, Reset, Lose, PresentHere, PresentDirty, Throttle, Fault, Die
    <2> QED
      BY <1>1, <2>1, PlainType DEF Control
  <1>4. cur' \in {0, 1} /\ used' \in 0 .. ArenaBlocks
    <2>1. (cur' = cur /\ used' = used) \/ (cur' = 1 - cur /\ used' = 0)
      BY DEF SyncCall, Sync, ResetCall, Reset, Lose, PresentHere, PresentDirty, Throttle, Flip,
             Fault, Die, arenaVars
    <2>2. ArenaBlocks \in Nat
      BY FramesAssumption DEF FramesAssumption
    <2> QED
      BY <1>1, <2>1, <2>2 DEF Control
  <1>5. Buffers' = Buffers /\ Allowed' = Allowed
    BY <1>2, SameScenario
  <1>6. Control'
    BY <1>1, <1>2, <1>a, <1>b, <1>3, <1>4, <1>5 DEF Control, frameVars, lockVars
  <1>7. Types' /\ Counted' /\ Open' = Open
    BY <1>1, <1>2, <1>6, StillTyped
  <1>8. Off'
    BY <1>1, <1>2, <1>b, <1>5, <1>7 DEF Off, Live
  <1> QED
    BY <1>7, <1>8 DEF FramesInv

LEMMA SwitchKeeps ==
    ASSUME FramesInv, Switch \/ \E wantDirect \in BOOLEAN : PresentEnter(wantDirect)
    PROVE  FramesInv'
  <1>1. Control /\ QueueOK(queue) /\ Off /\ Counted
    BY DEF FramesInv, Types
  <1>2. UNCHANGED <<scenario, arenaVars, real, job, lockVars, queue, frameVars, lost, hr, active, dead, device>>
        /\ mpc' \in {"switch", "present"} /\ queueOff' \in BOOLEAN
    BY <1>1 DEF Switch, PresentEnter, Control
  <1>3. Buffers' = Buffers /\ Allowed' = Allowed
    BY <1>2, SameScenario
  <1>4. Control'
    BY <1>1, <1>2, <1>3 DEF Control, frameVars, lockVars, arenaVars
  <1>5. Types' /\ Counted' /\ Open' = Open
    BY <1>1, <1>2, <1>4, StillTyped DEF arenaVars
  <1>6. ASSUME Switch
        PROVE  Off'
    <2>1. mpc = "switch" /\ mpc' = "present" /\ (queueOff' => queue = <<>>)
      BY <1>6 DEF Switch
    <2> QED
      BY <1>1, <1>2, <1>3, <1>5, <2>1 DEF Off
  <1>7. ASSUME NEW wantDirect \in BOOLEAN, PresentEnter(wantDirect)
        PROVE  Off'
    <2>1. /\ mpc' = "switch" => emulated = 0 /\ ~queueOff /\ "switch" \in Allowed
          /\ queueOff' => queueOff
          /\ mpc' = "switch" => ~queueOff'
      BY <1>7 DEF PresentEnter
    <2>2. emulated = 0 => Open = {}
      BY <1>1, FS_EmptySet DEF Counted
    <2> QED
      BY <1>1, <1>2, <1>3, <1>5, <2>1, <2>2 DEF Off
  <1> QED
    BY <1>5, <1>6, <1>7 DEF FramesInv

LEMMA FrameWordFacts ==
    /\ FrameWord \in Nat \ {0}
    /\ \A n \in 0 .. FrameWord - 1 : (n + 1) % FrameWord \in 0 .. FrameWord - 1
  <1>1. FrameWord \in Nat /\ FrameWord > MaxFramesInFlight + 1 /\ MaxFramesInFlight \in Nat
    BY FramesAssumption DEF FramesAssumption
  <1> QED
    BY <1>1

\* The steps that put a command without data into the ring.
LEMMA CommandKeeps ==
    ASSUME FramesInv, PresentQueued \/ \E b \in Buffers : Draw(b)
    PROVE  FramesInv'
  <1>1. Control /\ QueueOK(queue) /\ Off
    BY DEF FramesInv, Types
  <1>2. /\ UNCHANGED <<scenario, job, consumed, arenaVars, lockVars, real, lost, hr, liveVars>>
        /\ (mpc' = mpc \/ (mpc' = "throttle" /\ Live))
    BY DEF PresentQueued, Draw, mainVars, frameVars
  <1>3. QueueOK(queue') /\ device' \in Calls \cup {None} /\ (~Live => queue' = queue)
    <2>1. Pieces \in Nat
      BY FramesAssumption DEF FramesAssumption
    <2>2. CASE PresentQueued
      <3> DEFINE c == [op |-> "present", buf |-> None, piece |-> 0, block |-> None, disc |-> FALSE]
      <3>1. c \in Command /\ c.op # "upload"
        BY <2>1 DEF Command
      <3>2. Post(c) /\ device' = device /\ Live
        BY <2>2 DEF PresentQueued
      <3> HIDE DEF c
      <3> QED
        BY <1>1, <3>1, <3>2, PostFacts DEF Control
    <2>3. ASSUME NEW b \in Buffers, Draw(b)
          PROVE  QueueOK(queue') /\ device' \in Calls \cup {None} /\ (~Live => queue' = queue)
      <3> DEFINE c == [op |-> "draw", buf |-> b, piece |-> 0, block |-> None, disc |-> FALSE]
      <3>1. c \in Command /\ c.op # "upload"
        BY <2>1 DEF Command
      <3>2. IF Live THEN Post(c) /\ device' = device
            ELSE device' = Call("draw", b, 0, None, FALSE) /\ queue' = queue
        BY <2>3 DEF Draw
      <3> HIDE DEF c
      <3>3. Call("draw", b, 0, None, FALSE) \in Calls
        BY <1>1, BufferCallType DEF Control
      <3> QED
        BY <1>1, <3>1, <3>2, <3>3, PostFacts DEF Control
    <2> QED
      BY <2>2, <2>3
  <1>4. produced' \in 0 .. FrameWord - 1
    <2>1. produced' = produced \/ produced' = (produced + 1) % FrameWord
      BY DEF PresentQueued, Draw, frameVars
    <2> QED
      BY <1>1, <2>1, FrameWordFacts DEF Control
  <1>5. Buffers' = Buffers /\ Allowed' = Allowed
    BY <1>2, SameScenario
  <1>6. Control'
    BY <1>1, <1>2, <1>3, <1>4, <1>5 DEF Control, arenaVars, lockVars, liveVars
  <1>7. Types' /\ Counted' /\ Open' = Open
    BY <1>1, <1>2, <1>3, <1>6, StillTyped DEF arenaVars
  <1>8. Off'
    BY <1>1, <1>2, <1>3, <1>5, <1>7 DEF Off, Live, liveVars
  <1> QED
    BY <1>7, <1>8 DEF FramesInv

LEMMA LockRealKeeps ==
    ASSUME FramesInv, LockReal
    PROVE  FramesInv'
  <1>1. Control /\ QueueOK(queue) /\ Store /\ Locks /\ Job /\ Counted /\ Off
    BY DEF FramesInv, Types
  <1>2. /\ mpc = "lock" /\ job.buf \in Buffers /\ realLock' = realLock \cup {job.buf}
        /\ device' = Call("lock", job.buf, 0, None, FALSE)
        /\ mpc' = "idle" /\ job' = NoJob
        /\ UNCHANGED <<scenario, queue, frameVars, arenaVars, entry, shadow, emulated, real, lost, hr, liveVars>>
    BY <1>1 DEF LockReal, Job
  <1>3. /\ Buffers' = Buffers /\ Allowed' = Allowed /\ QueueOK(queue)' = QueueOK(queue)
        /\ \A d : PiecesOf(d)' = PiecesOf(d) /\ Contents(d)' = Contents(d)
    BY <1>2, SameScenario
  <1>4. device' \in Calls
    BY <1>1, <1>2, BufferCallType DEF Control
  <1>5. Control' /\ QueueOK(queue)' /\ Store' /\ Locks'
    BY <1>1, <1>2, <1>3, <1>4 DEF Control, Store, Locks, frameVars, arenaVars, liveVars
  <1>6. Job'
    <2>1. Pieces \in Nat
      BY FramesAssumption DEF FramesAssumption
    <2> QED
      BY <1>2, <1>3, <2>1 DEF Job, NoJob
  <1>7. Open' = Open /\ Counted'
    BY <1>1, <1>2, SameLocks
  <1>8. Off'
    BY <1>1, <1>2, <1>3, <1>7 DEF Off, liveVars
  <1> QED
    BY <1>5, <1>6, <1>7, <1>8, <1>2 DEF FramesInv, Types

LEMMA WriteKeeps ==
    ASSUME FramesInv, NEW b \in Buffers, NEW v \in Data, Write(b, v)
    PROVE  FramesInv'
  <1>1. Control /\ QueueOK(queue) /\ Store /\ Locks /\ Job /\ Counted /\ Off
    BY DEF FramesInv, Types
  <1>2. UNCHANGED <<scenario, mainVars, queue, frameVars, cur, used, entry, realLock,
                    emulated, lost, hr, liveVars, device>>
        /\ mpc = "idle"
    BY DEF Write
  <1>3. /\ Buffers' = Buffers /\ Allowed' = Allowed /\ QueueOK(queue)' = QueueOK(queue)
        /\ \A d : PiecesOf(d)' = PiecesOf(d) /\ Contents(d)' = Contents(d)
    BY <1>2, SameScenario
  <1> DEFINE z == [i \in PiecesOf(b) |-> v]
  <1>4. z \in Contents(b) /\ v \in Value
    BY DEF Contents, Value
  <1>5. /\ \/ entry[b].mode = "arena" /\ arena' = [arena EXCEPT ![entry[b].block] = v]
           \/ arena' = arena
        /\ shadow' = [shadow EXCEPT ![b] = z] \/ shadow' = shadow
        /\ real' = [real EXCEPT ![b] = z] \/ real' = real
    BY DEF Write
  <1> HIDE DEF z
  <1>6. arena' \in [Block -> Value]
    BY <1>1, <1>4, <1>5 DEF Store, Locks
  <1>7. /\ DOMAIN shadow' = Buffers /\ DOMAIN real' = Buffers
        /\ \A d \in Buffers : /\ shadow'[d] \in Contents(d) \cup {None} /\ real'[d] \in Contents(d)
                              /\ shadow[d] \in Contents(d) => shadow'[d] \in Contents(d)
    BY <1>1, <1>4, <1>5 DEF Store
  <1>8. Control' /\ QueueOK(queue)' /\ Store'
    BY <1>1, <1>2, <1>3, <1>6, <1>7 DEF Control, Store, mainVars, frameVars, liveVars
  <1>9. Locks'
    BY <1>1, <1>2, <1>3, <1>7 DEF Locks
  <1>10. Job'
    BY <1>1, <1>2, <1>3, <1>7 DEF Job, mainVars
  <1>11. Open' = Open /\ Counted'
    BY <1>1, <1>2, SameLocks
  <1>12. Off'
    BY <1>1, <1>2, <1>3, <1>11 DEF Off, mainVars, liveVars
  <1> QED
    BY <1>2, <1>8, <1>9, <1>10, <1>11, <1>12 DEF FramesInv, Types

LEMMA UnlockKeeps ==
    ASSUME FramesInv, NEW b \in Buffers, Unlock(b)
    PROVE  FramesInv'
  <1>1. Control /\ QueueOK(queue) /\ Store /\ Locks /\ Job /\ Counted /\ Off
    BY DEF FramesInv, Types
  <1>2. UNCHANGED <<scenario, frameVars, arenaVars, shadow, real, lost, hr, liveVars, device>>
        /\ mpc = "idle"
    BY DEF Unlock
  <1>3. /\ Buffers' = Buffers /\ Allowed' = Allowed /\ (\A q : QueueOK(q)' = QueueOK(q))
        /\ \A d : PiecesOf(d)' = PiecesOf(d) /\ Contents(d)' = Contents(d)
    BY <1>2, SameScenario
  <1>4. CASE ~Live \/ entry[b].mode = "none"
    <2>1. realLock' = realLock \ {b} /\ UNCHANGED <<mainVars, queue, entry, emulated>>
      BY <1>4 DEF Unlock
    <2>2. Control' /\ QueueOK(queue)' /\ Store'
      BY <1>1, <1>2, <1>3, <2>1 DEF Control, Store, mainVars, frameVars, arenaVars, liveVars
    <2>3. Locks'
      BY <1>1, <1>2, <1>3, <2>1 DEF Locks
    <2>4. Job'
      BY <1>1, <1>2, <1>3, <2>1 DEF Job, mainVars
    <2>5. Open' = Open /\ Counted'
      BY <1>1, <1>2, <2>1, SameLocks
    <2>6. Off'
      BY <1>1, <1>2, <1>3, <2>1, <2>5 DEF Off, mainVars, liveVars
    <2> QED
      BY <2>2, <2>3, <2>4, <2>5, <2>6 DEF FramesInv, Types
  <1>5. CASE Live /\ entry[b].mode # "none"
    <2>1. /\ entry' = [entry EXCEPT ![b] = NoLock] /\ emulated' = emulated - 1 /\ realLock' = realLock
          /\ IF entry[b].ro
             THEN UNCHANGED <<mainVars, queue>>
             ELSE IF entry[b].mode = "arena"
             THEN /\ Post([op |-> "upload", buf |-> b, piece |-> 1,
                           block |-> entry[b].block, disc |-> entry[b].disc])
                  /\ UNCHANGED mainVars
             ELSE /\ mpc' = "pieces"
                  /\ job' = [buf |-> b, piece |-> 1, disc |-> entry[b].disc]
                  /\ UNCHANGED queue
      BY <1>5 DEF Unlock
    <2>2. /\ Pieces \in Nat /\ 1 \in 0 .. Pieces
          /\ entry[b].disc \in BOOLEAN /\ entry[b].mode \in {"none", "arena", "shadow"}
          /\ (entry[b].mode = "arena" => entry[b].block \in Block)
          /\ (entry[b].mode = "shadow" => shadow[b] \in Contents(b))
      BY <1>1, FramesAssumption DEF FramesAssumption, Locks
    <2>3. QueueOK(queue')
      <3>1. CASE queue' = queue
        BY <1>1, <3>1
      <3>2. CASE entry[b].mode = "arena"
                 /\ Post([op |-> "upload", buf |-> b, piece |-> 1,
                          block |-> entry[b].block, disc |-> entry[b].disc])
        <4> DEFINE c == [op |-> "upload", buf |-> b, piece |-> 1,
                         block |-> entry[b].block, disc |-> entry[b].disc]
        <4>1. c \in Command /\ c.buf \in Buffers /\ c.block \in Block
          BY <2>2, <3>2 DEF Command
        <4>2. Post(c)
          BY <3>2
        <4>3. scenario \in Scenarios
          BY <1>1 DEF FramesInv, Types, Control
        <4> HIDE DEF c
        <4> QED
          BY <1>1, <4>1, <4>2, <4>3, PostFacts
      <3> QED
        BY <2>1, <3>1, <3>2
    <2>4. \/ mpc' = mpc /\ job' = job
          \/ /\ mpc' = "pieces" /\ job' = [buf |-> b, piece |-> 1, disc |-> entry[b].disc]
             /\ entry[b].mode = "shadow"
      BY <1>5, <2>1, <2>2 DEF mainVars
    <2>5. (~ (mpc' = mpc)) => Live
      BY <1>5
    <2>6. QueueOK(queue)'
      BY <1>3, <2>3
    <2>7. Control' /\ Store'
      BY <1>1, <1>2, <1>3, <2>1, <2>4 DEF Control, Store, frameVars, arenaVars, liveVars
    <2>8. Locks'
      BY <1>1, <1>2, <1>3, <2>1 DEF Locks, NoLock
    <2>9. Job'
      <3>1. CASE mpc' = mpc /\ job' = job
        BY <1>2, <1>1, <1>3, <3>1 DEF Job
      <3>2. CASE /\ mpc' = "pieces" /\ job' = [buf |-> b, piece |-> 1, disc |-> entry[b].disc]
                 /\ entry[b].mode = "shadow"
        BY <1>2, <1>3, <2>2, <3>2, PiecesFacts DEF Job
      <3> QED
        BY <2>4, <3>1, <3>2
    <2>10. Counted' /\ Open' \subseteq Open
      <3>1. b \in Open
        BY <1>5 DEF Open
      <3> QED
        BY <1>2, <2>1, <3>1, CloseOne DEF FramesInv
    <2>11. Off'
      BY <1>1, <1>2, <1>3, <1>5, <2>4, <2>10 DEF Off, Live, liveVars
    <2> QED
      BY <2>6, <2>7, <2>8, <2>9, <2>10, <2>11 DEF FramesInv, Types
  <1> QED
    BY <1>4, <1>5

\* The loop over the pieces goes on to the next piece, or is done.
LEMMA NextPieceKeeps ==
    ASSUME Job, mpc \in {"pieces", "place"}, NextPiece, scenario' = scenario, shadow' = shadow
    PROVE  Job' /\ mpc' \in {"idle", "pieces"}
  <1>1. /\ Buffers' = Buffers
        /\ \A d : PiecesOf(d)' = PiecesOf(d) /\ Contents(d)' = Contents(d)
    BY SameScenario
  <1>2. /\ job \in [buf : Buffers \cup {None}, piece : 0 .. Pieces, disc : BOOLEAN]
        /\ job.buf \in Buffers /\ job.piece \in PiecesOf(job.buf)
        /\ shadow[job.buf] \in Contents(job.buf) /\ Pieces \in Nat
    BY FramesAssumption DEF Job, FramesAssumption
  <1>3. CASE job.piece = Cardinality(PiecesOf(job.buf))
    <2>1. mpc' = "idle" /\ job' = [buf |-> None, piece |-> 0, disc |-> FALSE]
      BY <1>3 DEF NextPiece, NoJob
    <2> QED
      BY <1>1, <1>2, <2>1 DEF Job
  <1>4. CASE job.piece # Cardinality(PiecesOf(job.buf))
    <2>1. mpc' = "pieces" /\ job' = [job EXCEPT !.piece = job.piece + 1]
      BY <1>4 DEF NextPiece
    <2>2. job.piece + 1 \in PiecesOf(job.buf) /\ PiecesOf(job.buf) \subseteq 1 .. Pieces
      BY <1>2, <1>4, PiecesFacts
    <2>3. /\ job' \in [buf : Buffers \cup {None}, piece : 0 .. Pieces, disc : BOOLEAN]
          /\ job'.buf = job.buf /\ job'.piece = job.piece + 1
      BY <1>2, <2>1, <2>2
    <2> QED
      BY <1>1, <1>2, <2>1, <2>2, <2>3 DEF Job
  <1> QED
    BY <1>3, <1>4

\* The data of the piece in hand.
LEMMA PieceValue ==
    ASSUME Job, mpc \in {"pieces", "place"}
    PROVE  /\ job.buf \in Buffers /\ job.piece \in PiecesOf(job.buf) /\ job.piece \in 1 .. Pieces
           /\ shadow[job.buf][job.piece] \in Value /\ Discards \in BOOLEAN
  <1>1. /\ job.buf \in Buffers /\ job.piece \in PiecesOf(job.buf) /\ job.disc \in BOOLEAN
        /\ shadow[job.buf] \in [PiecesOf(job.buf) -> Value]
    BY DEF Job, Contents, Value
  <1> QED
    BY <1>1, PiecesFacts DEF Discards

LEMMA PieceKeeps ==
    ASSUME FramesInv, Piece
    PROVE  FramesInv'
  <1>1. Control /\ QueueOK(queue) /\ Store /\ Locks /\ Job /\ Counted /\ Off
    BY DEF FramesInv, Types
  <1>2. /\ mpc = "pieces"
        /\ UNCHANGED <<scenario, frameVars, cur, lockVars, real, lost, hr, liveVars, device>>
    BY DEF Piece
  <1>3. /\ Buffers' = Buffers /\ Allowed' = Allowed /\ (\A q : QueueOK(q)' = QueueOK(q))
        /\ \A d : PiecesOf(d)' = PiecesOf(d) /\ Contents(d)' = Contents(d)
    BY <1>2, SameScenario
  <1>4. Open' = Open /\ Counted'
    BY <1>1, <1>2, SameLocks DEF lockVars
  <1>5. CASE used < ArenaBlocks
    <2> DEFINE c == [op |-> "upload", buf |-> job.buf, piece |-> job.piece,
                     block |-> <<cur, used + 1>>, disc |-> Discards]
               v == shadow[job.buf][job.piece]
    <2>1. used' = used + 1 /\ arena' = [arena EXCEPT ![<<cur, used + 1>>] = v] /\ Post(c) /\ NextPiece
      BY <1>5 DEF Piece
    <2>2. /\ job.buf \in Buffers /\ job.piece \in 0 .. Pieces /\ v \in Value /\ Discards \in BOOLEAN
          /\ <<cur, used + 1>> \in Block /\ used + 1 \in 0 .. ArenaBlocks
      BY <1>1, <1>2, <1>5, PieceValue, NextBlock
    <2>3. c \in Command /\ c.buf \in Buffers /\ c.block \in Block
      BY <2>2 DEF Command
    <2>s. scenario \in Scenarios
      BY <1>1 DEF FramesInv, Types, Control
    <2> HIDE DEF c, v
    <2>4. QueueOK(queue)'
      BY <1>1, <1>3, <2>1, <2>3, <2>s, PostFacts
    <2>5. Job' /\ mpc' \in {"idle", "pieces"}
      BY <1>1, <1>2, <2>1, NextPieceKeeps DEF lockVars
    <2>6. Control'
      BY <1>1, <1>2, <1>3, <2>1, <2>2, <2>5 DEF Control, frameVars, lockVars, liveVars
    <2>7. Store'
      BY <1>1, <1>2, <1>3, <2>1, <2>2 DEF Store, lockVars
    <2>8. Locks'
      BY <1>1, <1>2, <1>3 DEF Locks, lockVars
    <2>9. Off'
      BY <1>1, <1>2, <1>3, <1>4, <2>5 DEF Off, liveVars
    <2> QED
      BY <1>4, <2>4, <2>5, <2>6, <2>7, <2>8, <2>9 DEF FramesInv, Types
  <1>6. CASE ~(used < ArenaBlocks)
    <2>1. mpc' = "place" /\ UNCHANGED <<job, queue, used, arena>>
      BY <1>6 DEF Piece
    <2>2. Control' /\ QueueOK(queue)' /\ Store'
      BY <1>1, <1>2, <1>3, <2>1 DEF Control, Store, frameVars, lockVars, liveVars
    <2>3. Locks'
      BY <1>1, <1>2, <1>3 DEF Locks, lockVars
    <2>4. Job'
      BY <1>1, <1>2, <1>3, <2>1 DEF Job, lockVars
    <2>5. Off'
      BY <1>1, <1>2, <1>3, <1>4, <2>1 DEF Off, liveVars
    <2> QED
      BY <1>4, <2>2, <2>3, <2>4, <2>5 DEF FramesInv, Types
  <1> QED
    BY <1>5, <1>6

LEMMA PlaceKeeps ==
    ASSUME FramesInv, Place
    PROVE  FramesInv'
  <1>1. Control /\ QueueOK(queue) /\ Store /\ Locks /\ Job /\ Counted /\ Off
    BY DEF FramesInv, Types
  <1> DEFINE b == job.buf
             v == shadow[b][job.piece]
             u == Uploaded(b, real[b], job.piece, v, Discards)
  <1>2. /\ mpc = "place" /\ real' = [real EXCEPT ![b] = u]
        /\ device' = Call("upload", b, job.piece, v, Discards) /\ NextPiece
        /\ UNCHANGED <<scenario, queue, frameVars, arenaVars, lockVars, lost, hr, liveVars>>
    BY DEF Place
  <1>3. /\ Buffers' = Buffers /\ Allowed' = Allowed /\ QueueOK(queue)' = QueueOK(queue)
        /\ \A d : PiecesOf(d)' = PiecesOf(d) /\ Contents(d)' = Contents(d)
    BY <1>2, SameScenario
  <1>4. Open' = Open /\ Counted'
    BY <1>1, <1>2, SameLocks DEF lockVars
  <1>5. b \in Buffers /\ job.piece \in 0 .. Pieces /\ v \in Value /\ Discards \in BOOLEAN
    BY <1>1, <1>2, PieceValue
  <1>6. real[b] \in Contents(b)
    BY <1>1, <1>5 DEF Store
  <1>7. u \in Contents(b)
    BY <1>5, <1>6, UploadedType
  <1>8. device' \in Calls
    BY <1>1, <1>2, <1>5, UploadCallType DEF Control
  <1>9. Job' /\ mpc' \in {"idle", "pieces"}
    BY <1>1, <1>2, NextPieceKeeps DEF lockVars
  <1> HIDE DEF u, v
  <1>10. Control' /\ QueueOK(queue)'
    BY <1>1, <1>2, <1>3, <1>8, <1>9 DEF Control, frameVars, arenaVars, lockVars, liveVars
  <1>11. Store'
    BY <1>1, <1>2, <1>3, <1>5, <1>7 DEF Store, arenaVars, lockVars
  <1>12. Locks'
    BY <1>1, <1>2, <1>3 DEF Locks, lockVars
  <1>13. Off'
    BY <1>1, <1>2, <1>3, <1>4, <1>9 DEF Off, liveVars
  <1> QED
    BY <1>2, <1>4, <1>9, <1>10, <1>11, <1>12, <1>13 DEF FramesInv, Types

\* What the head of the ring stands for.
LEMMA ResolveType ==
    ASSUME Control, Store, NEW c \in Command, c.op = "upload" => c.buf \in Buffers /\ c.block \in Block
    PROVE  Resolve(c) \in Calls
  <1>1. /\ c.op \in {"draw", "present", "upload"} /\ c.buf \in AllBuffers \cup {None}
        /\ c.piece \in 0 .. Pieces /\ c.disc \in BOOLEAN
    BY ScenarioFacts DEF Command, Control
  <1>2. (IF c.op = "upload" THEN arena[c.block] ELSE None) \in Value
    BY DEF Store, Value
  <1> QED
    BY <1>1, <1>2 DEF Resolve, Call, Calls, Value

LEMMA ExecuteKeeps ==
    ASSUME FramesInv, Execute
    PROVE  FramesInv'
  <1>1. Control /\ QueueOK(queue) /\ Store /\ Locks /\ Job /\ Counted /\ Off
    BY DEF FramesInv, Types
  <1> DEFINE c == Head(queue)
             u == Uploaded(c.buf, real[c.buf], c.piece, arena[c.block], c.disc)
  <1>2. /\ queue # <<>> /\ queue' = Tail(queue) /\ device' = Resolve(c)
        /\ real' = IF c.op = "upload" THEN [real EXCEPT ![c.buf] = u] ELSE real
        /\ consumed' = consumed \/ consumed' = (consumed + 1) % FrameWord
        /\ hr' \in {hr, "lost", "ok"}
        /\ UNCHANGED <<scenario, mainVars, produced, arenaVars, lockVars, lost, liveVars>>
    BY DEF Execute
  <1>3. /\ Buffers' = Buffers /\ Allowed' = Allowed /\ (\A q : QueueOK(q)' = QueueOK(q))
        /\ \A d : PiecesOf(d)' = PiecesOf(d) /\ Contents(d)' = Contents(d)
    BY <1>2, SameScenario
  <1>4. Open' = Open /\ Counted'
    BY <1>1, <1>2, SameLocks DEF lockVars
  <1>5. /\ queue \in Seq(Command) /\ Len(queue) \in Nat \ {0} /\ c = queue[1] /\ 1 \in 1 .. Len(queue)
        /\ c \in Command /\ QueueMax \in Nat
        /\ Tail(queue) \in Seq(Command) /\ Len(Tail(queue)) = Len(queue) - 1
        /\ \A k \in 1 .. Len(queue) - 1 : Tail(queue)[k] = queue[k + 1] /\ k + 1 \in 1 .. Len(queue)
    BY <1>1, <1>2, RoomFacts DEF QueueOK, Control
  <1>6. c.op = "upload" => c.buf \in Buffers /\ c.block \in Block
    BY <1>1, <1>5 DEF QueueOK
  <1>7. QueueOK(queue)'
    <2>1. QueueOK(Tail(queue))
      BY <1>1, <1>5 DEF QueueOK
    <2> QED
      BY <1>2, <1>3, <2>1
  <1>8. device' \in Calls
    BY <1>1, <1>2, <1>5, <1>6, ResolveType
  <1>9. c.op = "upload" => u \in Contents(c.buf)
    <2> SUFFICES ASSUME c.op = "upload"
                 PROVE  u \in Contents(c.buf)
      OBVIOUS
    <2>1. real[c.buf] \in Contents(c.buf) /\ arena[c.block] \in Value /\ c.disc \in BOOLEAN
      BY <1>1, <1>5, <1>6 DEF Store, Command
    <2> QED
      BY <2>1, UploadedType
  <1>10. consumed' \in 0 .. FrameWord - 1
    BY <1>1, <1>2, FrameWordFacts DEF Control
  <1> HIDE DEF c, u
  <1>11. Control'
    BY <1>1, <1>2, <1>3, <1>8, <1>10 DEF Control, mainVars, arenaVars, lockVars, liveVars
  <1>12. Store'
    BY <1>1, <1>2, <1>3, <1>6, <1>9 DEF Store, arenaVars, lockVars
  <1>13. Locks'
    BY <1>1, <1>2, <1>3 DEF Locks, lockVars
  <1>14. Job'
    BY <1>1, <1>2, <1>3 DEF Job, mainVars, lockVars
  <1>15. Off'
    BY <1>1, <1>2, <1>3, <1>4 DEF Off, mainVars, liveVars
  <1> QED
    BY <1>4, <1>7, <1>11, <1>12, <1>13, <1>14, <1>15 DEF FramesInv, Types

------------------------------------------------------------------------------
(* What holds in every run. *)

LEMMA FramesInvInit == Init => FramesInv
  <1> SUFFICES ASSUME Init
               PROVE  FramesInv
    OBVIOUS
  <1>1. /\ scenario \in Scenarios
        /\ mpc = "idle" /\ job = [buf |-> None, piece |-> 0, disc |-> FALSE] /\ queue = <<>>
        /\ produced = 0 /\ consumed = 0 /\ cur = 0 /\ used = 0
        /\ arena = [s \in Block |-> None]
        /\ entry = [b \in Buffers |-> NoLock]
        /\ shadow = [b \in Buffers |-> None]
        /\ realLock = {} /\ emulated = 0
        /\ real = [b \in Buffers |-> [i \in PiecesOf(b) |-> Zero]]
        /\ lost = FALSE /\ hr = "ok"
        /\ queueOff = FALSE /\ active = TRUE /\ dead = FALSE /\ device = None
    BY DEF Init, NoJob
  <1>2. Pieces \in Nat /\ ArenaBlocks \in Nat /\ QueueMax \in Nat
    BY <1>1, FramesAssumption, RoomFacts DEF FramesAssumption
  <1>w. 0 \in 0 .. FrameWord - 1 /\ 0 \in 0 .. ArenaBlocks
    BY <1>2, FrameWordFacts
  <1>3. Control
    BY <1>1, <1>2, <1>w DEF Control
  <1>4. QueueOK(queue)
    BY <1>1, <1>2 DEF QueueOK
  <1>5. Store
    BY <1>1 DEF Store, Value, Contents
  <1>6. Locks
    BY <1>1 DEF Locks, NoLock
  <1>7. Job
    BY <1>1, <1>2 DEF Job
  <1>8. Open = {}
    BY <1>1 DEF Open, NoLock
  <1>9. Counted
    BY <1>1, <1>8, FS_EmptySet DEF Counted
  <1>10. Off
    BY <1>1 DEF Off
  <1> QED
    BY <1>3, <1>4, <1>5, <1>6, <1>7, <1>9, <1>10 DEF FramesInv, Types

LEMMA FramesInvStep == FramesInv /\ [Next]_vars => FramesInv'
  <1> SUFFICES ASSUME FramesInv, [Next]_vars
               PROVE  FramesInv'
    OBVIOUS
  <1>1. CASE Next
    <2>1. CASE \E b \in Buffers, ro, disc \in BOOLEAN : Lock(b, ro, disc)
      BY <2>1, LockKeeps
    <2>2. CASE \E b \in Buffers, v \in Data : Write(b, v)
      BY <2>2, WriteKeeps
    <2>3. CASE \E b \in Buffers : Unlock(b)
      BY <2>3, UnlockKeeps
    <2>4. CASE \E b \in Buffers : Draw(b)
      BY <2>4, CommandKeeps
    <2>5. CASE SyncCall \/ ResetCall \/ Lose \/ PresentDirty \/ Fault \/ Die
      BY <2>5, QuietKeeps
    <2>6. CASE \E wantDirect \in BOOLEAN : PresentEnter(wantDirect)
      BY <2>6, SwitchKeeps
    <2>7. CASE MainStep
      <3>1. CASE LockReal
        BY <3>1, LockRealKeeps
      <3>2. CASE Piece
        BY <3>2, PieceKeeps
      <3>3. CASE Place
        BY <3>3, PlaceKeeps
      <3>4. CASE Sync \/ Reset \/ PresentHere \/ Throttle
        BY <3>4, QuietKeeps
      <3>5. CASE Switch
        BY <3>5, SwitchKeeps
      <3>6. CASE PresentQueued
        BY <3>6, CommandKeeps
      <3> QED
        BY <2>7, <3>1, <3>2, <3>3, <3>4, <3>5, <3>6 DEF MainStep
    <2>8. CASE Execute
      BY <2>8, ExecuteKeeps
    <2> QED
      BY <1>1, <2>1, <2>2, <2>3, <2>4, <2>5, <2>6, <2>7, <2>8 DEF Next
  <1>2. CASE UNCHANGED vars
    <2>1. /\ UNCHANGED <<scenario, arena, real, job, lockVars, queue, frameVars, queueOff, mpc, lost, hr,
                         active, dead, device, cur, used>>
      BY <1>2 DEF vars, mainVars, arenaVars, liveVars
    <2>2. Control /\ QueueOK(queue) /\ Off /\ Buffers' = Buffers /\ Allowed' = Allowed
      BY <2>1, SameScenario DEF FramesInv, Types
    <2>3. Control'
      BY <2>1, <2>2 DEF Control, frameVars, lockVars
    <2>4. Types' /\ Counted' /\ Open' = Open
      BY <2>1, <2>2, <2>3, StillTyped
    <2>5. Off'
      BY <2>1, <2>2, <2>4 DEF Off
    <2> QED
      BY <2>4, <2>5 DEF FramesInv
  <1> QED
    BY <1>1, <1>2

LEMMA FramesInvHolds == Spec => []FramesInv
  BY FramesInvInit, FramesInvStep, PTL DEF Spec

\* Every variable keeps its type, and there are never more emulated locks than
\* buffers.
THEOREM FramesTypeCorrect == Spec => []TypeOK
  <1>1. FramesInv => TypeOK
    <2> SUFFICES ASSUME FramesInv
                 PROVE  TypeOK
      OBVIOUS
    <2>1. Control /\ QueueOK(queue) /\ Store /\ Locks /\ Job /\ Counted
      BY DEF FramesInv, Types
    <2>2. emulated \in 0 .. Cardinality(Buffers)
      <3>1. Open \subseteq Buffers /\ IsFiniteSet(Buffers)
        BY <2>1, ScenarioFacts DEF Open, Control
      <3>2. Cardinality(Open) <= Cardinality(Buffers)
        BY <3>1, FS_Subset
      <3>3. Cardinality(Open) \in Nat /\ Cardinality(Buffers) \in Nat
        BY <2>1, <3>1, FS_CardinalityType DEF Counted
      <3> QED
        BY <2>1, <3>2, <3>3 DEF Counted
    <2> QED
      BY <2>1, <2>2 DEF TypeOK, Control, QueueOK, Store, Locks, Job, Value
  <1> QED
    BY <1>1, FramesInvHolds, PTL

\* Direct calls are only switched to with the ring empty and no emulated lock
\* open: Switch looks at the ring again after its drain, and no buffer can be
\* locked between the count of emulated locks and the switch (SwitchTo).
THEOREM SwitchCorrect == Spec => []SwitchIsSafe
  <1>1. FramesInv => SwitchIsSafe
    BY DEF FramesInv, Off, SwitchIsSafe, Open
  <1> QED
    BY <1>1, FramesInvHolds, PTL

\* A Present's result "lost" is a loss no Reset has answered yet, and both need
\* a device that can be lost.
Answered == /\ active /\ hr = "lost" => lost
            /\ lost \/ hr = "lost" => "loss" \in Allowed

\* What a step does to the two, and to what SyncEnter asks before it forgets.
LEMMA LossSteps ==
    ASSUME [Next]_vars
    PROVE  /\ scenario' = scenario /\ (active' => active)
           /\ \/ lost' = lost /\ hr' = hr
              \/ lost' = TRUE /\ hr' = hr /\ "loss" \in Allowed
              \/ lost' = FALSE /\ ((Live /\ hr' = "ok") \/ (~Live /\ hr' = hr))
              \/ lost' = lost /\ hr' \in {hr, IF lost THEN "lost" ELSE "ok"}
  <1>1. CASE \E b \in Buffers, ro, disc \in BOOLEAN : Lock(b, ro, disc)
    BY <1>1 DEF Lock, liveVars
  <1>2. CASE \E b \in Buffers, v \in Data : Write(b, v)
    BY <1>2 DEF Write, liveVars
  <1>3. ASSUME NEW b \in Buffers, Unlock(b) \/ Draw(b)
        PROVE  scenario' = scenario /\ active' = active /\ lost' = lost /\ hr' = hr
    <2>1. CASE Unlock(b)
      BY <2>1 DEF Unlock, liveVars
    <2>2. CASE Draw(b)
      BY <2>2 DEF Draw, liveVars
    <2> QED
      BY <1>3, <2>1, <2>2
  <1>4. CASE SyncCall \/ ResetCall \/ Lose \/ PresentDirty
    BY <1>4 DEF SyncCall, ResetCall, Lose, PresentDirty, liveVars
  <1>5. CASE \E wantDirect \in BOOLEAN : PresentEnter(wantDirect)
    BY <1>5 DEF PresentEnter
  <1>6. ASSUME LockReal \/ Piece \/ Place \/ Sync
        PROVE  scenario' = scenario /\ active' = active /\ lost' = lost /\ hr' = hr
    <2>1. CASE LockReal
      BY <2>1 DEF LockReal, liveVars
    <2>2. CASE Piece
      BY <2>2 DEF Piece, liveVars
    <2>3. CASE Place
      BY <2>3 DEF Place, liveVars
    <2>4. CASE Sync
      BY <2>4 DEF Sync, liveVars
    <2> QED
      BY <1>6, <2>1, <2>2, <2>3, <2>4
  <1>7. CASE Reset
    BY <1>7 DEF Reset, ResetEnter, liveVars
  <1>8. CASE Switch \/ PresentHere \/ PresentQueued \/ Throttle
    BY <1>8 DEF Switch, PresentHere, PresentQueued, Throttle, liveVars
  <1>9. CASE Execute
    BY <1>9 DEF Execute, liveVars
  <1>10. CASE Fault \/ Die
    BY <1>10 DEF Fault, Die
  <1>11. CASE UNCHANGED vars
    BY <1>11 DEF vars, liveVars
  <1>12. CASE \E b \in Buffers : Unlock(b) \/ Draw(b)
    BY <1>3, <1>12
  <1>13. CASE LockReal \/ Piece \/ Place \/ Sync
    BY <1>6, <1>13
  <1> QED
    BY <1>1, <1>2, <1>12, <1>4, <1>5, <1>13, <1>7, <1>8, <1>9, <1>10, <1>11 DEF Next, MainStep

\* A result "lost" that a Present can still return means the device has been
\* lost and not reset since, in every scenario that does not both lose the
\* device and switch to direct calls: a Reset made while nothing is queued
\* passes SyncEnter by and leaves the result (SyncEnter's S_Reset case,
\* T_Present's result).
THEOREM LossCorrect ==
    ASSUME \A s \in Scenarios : ~ ({"switch", "loss"} \subseteq s.allowed)
    PROVE  Spec => []NoStaleLoss
  <1>1. Init => Answered
    BY DEF Init, Answered
  <1>2. FramesInv /\ Answered /\ [Next]_vars => Answered'
    <2> SUFFICES ASSUME FramesInv, Answered, [Next]_vars
                 PROVE  Answered'
      OBVIOUS
    <2>1. /\ scenario' = scenario /\ (active' => active)
          /\ \/ lost' = lost /\ hr' = hr
             \/ lost' = TRUE /\ hr' = hr /\ "loss" \in Allowed
             \/ lost' = FALSE /\ ((Live /\ hr' = "ok") \/ (~Live /\ hr' = hr))
             \/ lost' = lost /\ hr' \in {hr, IF lost THEN "lost" ELSE "ok"}
      BY LossSteps
    <2>2. Allowed' = Allowed
      BY <2>1, SameScenario
    <2>3. "loss" \in Allowed => ~queueOff
      BY DEF FramesInv, Off, Types, Control, Allowed
    <2>4. (active /\ hr = "lost" => lost) /\ (lost \/ hr = "lost" => "loss" \in Allowed)
      BY DEF Answered
    <2>5. (active' /\ hr' = "lost" => lost') /\ (lost' \/ hr' = "lost" => "loss" \in Allowed)
      BY <2>1, <2>3, <2>4 DEF Live
    <2> QED
      BY <2>2, <2>5 DEF Answered
  <1>3. Answered => NoStaleLoss
    BY DEF Answered, NoStaleLoss, Alive
  <1> QED
    BY <1>1, <1>2, <1>3, FramesInvHolds, PTL DEF Spec

------------------------------------------------------------------------------
(* The frames in the ring and the two arenas.                                 *)
(*                                                                            *)
(* With at most one frame in flight the ring holds the end of the frame       *)
(* before, up to and with its Present, and the frame being recorded.  The     *)
(* uploads of the one are in the other arena, those of the other in the       *)
(* blocks of this arena already handed out.                                   *)

Cut(q, m, c, u, t) ==
    /\ m \in 0 .. Len(q)
    /\ \A k \in 1 .. Len(q) :
         /\ q[k].op = "upload" => q[k].block[1] = IF k <= m THEN 1 - c ELSE c
         /\ q[k].op = "upload" /\ k > m => q[k].block[2] <= u
         /\ q[k].op = "present" <=> (k = m \/ (t /\ k = Len(q)))
    /\ t /\ q # <<>> => m < Len(q)

\* The Presents among the commands of a ring cut at m.
Outstanding(q, m, t) == (IF m > 0 THEN 1 ELSE 0) + (IF t /\ q # <<>> THEN 1 ELSE 0)

Throttling == mpc = "throttle"

Parted == \E m \in 0 .. Len(queue) : /\ Cut(queue, m, cur, used, Throttling)
                                     /\ FramesInFlight = Outstanding(queue, m, Throttling)

\* The block of an open lock is the client's alone.
Own ==
    \A b \in Buffers : entry[b].mode = "arena" =>
        /\ entry[b].block[1] = cur /\ entry[b].block[2] <= used
        /\ \A k \in 1 .. Len(queue) : queue[k].op = "upload" => queue[k].block # entry[b].block
        /\ \A d \in Buffers : entry[d].mode = "arena" /\ entry[d].block = entry[b].block => d = b

Presenting == mpc \in {"switch", "present", "dirty", "throttle"}

Arenas == Closed /\ active => Parted /\ Own /\ (Presenting => Open = {})

\* Frame counters that wrap differ by what they differed by.
LEMMA FrameCounts ==
    ASSUME NEW p \in 0 .. FrameWord - 1, NEW c \in 0 .. FrameWord - 1, NEW n \in 0 .. 2,
           MaxFramesInFlight = 1, (p - c) % FrameWord = n
    PROVE  /\ n < 2 => (((p + 1) % FrameWord) - c) % FrameWord = n + 1
           /\ n > 0 => (p - ((c + 1) % FrameWord)) % FrameWord = n - 1
  <1>1. FrameWord \in Nat /\ FrameWord >= 3
    BY FramesAssumption DEF FramesAssumption
  <1>2. \A a \in 0 .. FrameWord - 1, b \in 0 .. FrameWord - 1 :
          (a - b) % FrameWord = IF b <= a THEN a - b ELSE a - b + FrameWord
    BY <1>1, SMT
  <1>3. \A a \in 0 .. FrameWord - 1 :
          (a + 1) % FrameWord = IF a = FrameWord - 1 THEN 0 ELSE a + 1
    BY <1>1, SMT
  <1>4. n = IF c <= p THEN p - c ELSE p - c + FrameWord
    BY <1>2
  <1> DEFINE p1 == IF p = FrameWord - 1 THEN 0 ELSE p + 1
             c1 == IF c = FrameWord - 1 THEN 0 ELSE c + 1
  <1>5. /\ (p + 1) % FrameWord = p1 /\ (c + 1) % FrameWord = c1
        /\ p1 \in 0 .. FrameWord - 1 /\ c1 \in 0 .. FrameWord - 1
    BY <1>1, <1>3
  <1>6. /\ (p1 - c) % FrameWord = (IF c <= p1 THEN p1 - c ELSE p1 - c + FrameWord)
        /\ (p - c1) % FrameWord = (IF c1 <= p THEN p - c1 ELSE p - c1 + FrameWord)
    BY <1>2, <1>5
  <1>7. n < 2 => (IF c <= p1 THEN p1 - c ELSE p1 - c + FrameWord) = n + 1
    BY <1>1, <1>4
  <1>8. n > 0 => (IF c1 <= p THEN p - c1 ELSE p - c1 + FrameWord) = n - 1
    BY <1>1, <1>4
  <1> QED
    BY <1>5, <1>6, <1>7, <1>8

\* A command of the frame being recorded enters the ring.
LEMMA CutAppend ==
    ASSUME NEW q \in Seq(Command), NEW e \in Command, NEW m, NEW c, NEW u \in Nat, NEW v \in Nat, u <= v,
           Cut(q, m, c, u, FALSE), \A k \in 1 .. Len(q) : q[k].op = "upload" => q[k].block \in Block,
           \/ e.op = "draw"
           \/ e.op = "upload" /\ e.block[1] = c /\ e.block[2] <= v
    PROVE  Cut(Append(q, e), m, c, v, FALSE) /\ Outstanding(Append(q, e), m, FALSE) = Outstanding(q, m, FALSE)
  <1> DEFINE r == Append(q, e)
  <1>1. /\ Len(r) = Len(q) + 1 /\ Len(q) \in Nat
        /\ (\A k \in 1 .. Len(q) : r[k] = q[k]) /\ r[Len(q) + 1] = e
    OBVIOUS
  <1>2. /\ m \in 0 .. Len(q)
        /\ \A k \in 1 .. Len(q) :
             /\ q[k].op = "upload" => q[k].block[1] = IF k <= m THEN 1 - c ELSE c
             /\ q[k].op = "upload" /\ k > m => q[k].block[2] <= u
             /\ q[k].op = "present" <=> k = m
    BY DEF Cut
  <1>3. \A k \in 1 .. Len(q) : q[k].op = "upload" => q[k].block[2] \in Nat
    BY FramesAssumption DEF Block, FramesAssumption
  <1> HIDE DEF r
  <1>4. ASSUME NEW k \in 1 .. Len(r)
        PROVE  /\ r[k].op = "upload" => r[k].block[1] = IF k <= m THEN 1 - c ELSE c
               /\ r[k].op = "upload" /\ k > m => r[k].block[2] <= v
               /\ r[k].op = "present" <=> k = m
    <2>1. CASE k \in 1 .. Len(q)
      BY <1>1, <1>2, <1>3, <2>1
    <2>2. CASE k = Len(q) + 1
      BY <1>1, <1>2, <2>2
    <2> QED
      BY <1>1, <2>1, <2>2
  <1>5. m \in 0 .. Len(r)
    BY <1>1, <1>2
  <1>6. Cut(r, m, c, v, FALSE)
    BY <1>4, <1>5 DEF Cut
  <1> QED
    BY <1>6 DEF r, Outstanding

\* A Present enters the ring.
LEMMA CutPresent ==
    ASSUME NEW q \in Seq(Command), NEW e \in Command, NEW m, NEW c, NEW u, e.op = "present",
           Cut(q, m, c, u, FALSE)
    PROVE  /\ Cut(Append(q, e), m, c, u, TRUE)
           /\ Outstanding(Append(q, e), m, TRUE) = Outstanding(q, m, FALSE) + 1
  <1> DEFINE r == Append(q, e)
  <1>1. /\ Len(r) = Len(q) + 1 /\ Len(q) \in Nat /\ r # <<>>
        /\ (\A k \in 1 .. Len(q) : r[k] = q[k]) /\ r[Len(q) + 1] = e
    OBVIOUS
  <1>2. /\ m \in 0 .. Len(q)
        /\ \A k \in 1 .. Len(q) :
             /\ q[k].op = "upload" => q[k].block[1] = IF k <= m THEN 1 - c ELSE c
             /\ q[k].op = "upload" /\ k > m => q[k].block[2] <= u
             /\ q[k].op = "present" <=> k = m
    BY DEF Cut
  <1> HIDE DEF r
  <1>3. ASSUME NEW k \in 1 .. Len(r)
        PROVE  /\ r[k].op = "upload" => r[k].block[1] = IF k <= m THEN 1 - c ELSE c
               /\ r[k].op = "upload" /\ k > m => r[k].block[2] <= u
               /\ r[k].op = "present" <=> (k = m \/ k = Len(r))
    <2>1. CASE k \in 1 .. Len(q)
      BY <1>1, <1>2, <2>1
    <2>2. CASE k = Len(q) + 1
      BY <1>1, <1>2, <2>2
    <2> QED
      BY <1>1, <2>1, <2>2
  <1>4. m \in 0 .. Len(r) /\ m < Len(r)
    BY <1>1, <1>2
  <1>5. Cut(r, m, c, u, TRUE)
    BY <1>3, <1>4 DEF Cut
  <1>6. Outstanding(r, m, TRUE) = Outstanding(q, m, FALSE) + 1
    BY <1>1, <1>2 DEF Outstanding
  <1> QED
    BY <1>5, <1>6 DEF r

\* The oldest command leaves the ring.
LEMMA CutTail ==
    ASSUME NEW q \in Seq(Command), q # <<>>, NEW m, NEW c, NEW u, NEW t \in BOOLEAN, Cut(q, m, c, u, t)
    PROVE  \E n \in 0 .. Len(Tail(q)) :
             /\ Cut(Tail(q), n, c, u, t)
             /\ Outstanding(q, m, t) = Outstanding(Tail(q), n, t) + (IF q[1].op = "present" THEN 1 ELSE 0)
  <1> DEFINE r == Tail(q)
             n == IF m = 0 THEN 0 ELSE m - 1
  <1>1. /\ Len(r) = Len(q) - 1 /\ Len(q) \in Nat \ {0} /\ (r = <<>> <=> Len(r) = 0)
        /\ \A k \in 1 .. Len(r) : r[k] = q[k + 1] /\ k + 1 \in 1 .. Len(q)
    <2>1. /\ r \in Seq(Command) /\ Len(q) \in Nat \ {0} /\ Len(r) = Len(q) - 1
          /\ \A k \in 1 .. Len(q) - 1 : r[k] = q[k + 1]
      OBVIOUS
    <2>2. r = <<>> <=> Len(r) = 0
      BY <2>1
    <2> QED
      BY <2>1, <2>2
  <1>2. /\ m \in 0 .. Len(q) /\ (t => m < Len(q))
        /\ \A k \in 1 .. Len(q) :
             /\ q[k].op = "upload" => q[k].block[1] = IF k <= m THEN 1 - c ELSE c
             /\ q[k].op = "upload" /\ k > m => q[k].block[2] <= u
             /\ q[k].op = "present" <=> (k = m \/ (t /\ k = Len(q)))
    BY DEF Cut
  <1> HIDE DEF r
  <1>3. n \in 0 .. Len(r) /\ (t /\ r # <<>> => n < Len(r))
    BY <1>1, <1>2
  <1>4. ASSUME NEW k \in 1 .. Len(r)
        PROVE  /\ r[k].op = "upload" => r[k].block[1] = IF k <= n THEN 1 - c ELSE c
               /\ r[k].op = "upload" /\ k > n => r[k].block[2] <= u
               /\ r[k].op = "present" <=> (k = n \/ (t /\ k = Len(r)))
    <2>1. /\ r[k] = q[k + 1] /\ k + 1 \in 1 .. Len(q)
          /\ (k + 1 <= m <=> k <= n) /\ (k + 1 > m <=> k > n) /\ (k + 1 = m <=> k = n)
          /\ (k + 1 = Len(q) <=> k = Len(r))
      BY <1>1, <1>2
    <2> QED
      BY <1>2, <2>1
  <1>5. Cut(r, n, c, u, t)
    BY <1>3, <1>4 DEF Cut
  <1>6. Outstanding(q, m, t) = Outstanding(r, n, t) + (IF q[1].op = "present" THEN 1 ELSE 0)
    <2>1. q[1].op = "present" <=> (m = 1 \/ (t /\ Len(q) = 1))
      BY <1>1, <1>2
    <2> QED
      BY <1>1, <1>2, <2>1 DEF Outstanding
  <1> QED
    BY <1>3, <1>5, <1>6 DEF r

\* Throttle has seen at most one frame in flight: everything in the ring is of
\* the frame before when the next begins in the other arena.
LEMMA CutFlip ==
    ASSUME NEW q \in Seq(Command), NEW m, NEW c \in {0, 1}, NEW u, Cut(q, m, c, u, TRUE),
           Outstanding(q, m, TRUE) <= 1
    PROVE  /\ Cut(q, Len(q), 1 - c, 0, FALSE)
           /\ Outstanding(q, Len(q), FALSE) = Outstanding(q, m, TRUE)
  <1>1. Len(q) \in Nat /\ (q = <<>> <=> Len(q) = 0)
    OBVIOUS
  <1>2. /\ m \in 0 .. Len(q) /\ (q # <<>> => m < Len(q))
        /\ \A k \in 1 .. Len(q) :
             /\ q[k].op = "upload" => q[k].block[1] = IF k <= m THEN 1 - c ELSE c
             /\ q[k].op = "present" <=> (k = m \/ k = Len(q))
    BY DEF Cut
  <1>3. m = 0
    BY <1>1, <1>2 DEF Outstanding
  <1>4. \A k \in 1 .. Len(q) :
             /\ q[k].op = "upload" => q[k].block[1] = IF k <= Len(q) THEN 1 - (1 - c) ELSE 1 - c
             /\ q[k].op = "upload" /\ k > Len(q) => q[k].block[2] <= 0
             /\ q[k].op = "present" <=> k = Len(q)
    BY <1>1, <1>2, <1>3
  <1>5. Cut(q, Len(q), 1 - c, 0, FALSE)
    BY <1>1, <1>4 DEF Cut
  <1>6. Outstanding(q, Len(q), FALSE) = Outstanding(q, m, TRUE)
    BY <1>1, <1>3 DEF Outstanding
  <1> QED
    BY <1>5, <1>6

\* A step that leaves the ring and the arenas alone and opens no block.
LEMMA ArenasKept ==
    ASSUME FramesInv, Arenas, UNCHANGED <<scenario, queue, cur, used, frameVars>>, active' => active,
           mpc' = "throttle" <=> mpc = "throttle",
           \A b \in Buffers : entry'[b].mode = "arena" => entry'[b] = entry[b],
           Closed /\ active' /\ Presenting' => Open' = {}
    PROVE  Arenas'
  <1> SUFFICES ASSUME Closed, active'
               PROVE  Arenas'
    BY SameScenario DEF Arenas
  <1>1. Parted /\ Own /\ Buffers' = Buffers
    BY SameScenario DEF Arenas
  <1>2. Throttling' = Throttling /\ FramesInFlight' = FramesInFlight
    BY DEF Throttling, FramesInFlight, frameVars
  <1>3. Parted'
    <2>1. PICK m \in 0 .. Len(queue) : /\ Cut(queue, m, cur, used, Throttling)
                                      /\ FramesInFlight = Outstanding(queue, m, Throttling)
      BY <1>1 DEF Parted
    <2>2. m \in 0 .. Len(queue') /\ Cut(queue', m, cur', used', Throttling')
          /\ FramesInFlight' = Outstanding(queue', m, Throttling')
      BY <1>2, <2>1
    <2> QED
      BY <2>2 DEF Parted
  <1>4. Own'
    BY <1>1 DEF Own
  <1> QED
    BY <1>3, <1>4 DEF Arenas

LEMMA ArenasQuiet ==
    ASSUME FramesInv, Arenas, UNCHANGED <<scenario, queue, cur, used, frameVars, entry>>,
           active' => active, mpc' = "throttle" <=> mpc = "throttle",
           mpc' \in {"switch", "present", "dirty"} => Presenting \/ (Closed => Open = {})
    PROVE  Arenas'
  <1>1. Closed /\ active' /\ Presenting' => Open' = {}
    BY SameScenario DEF Presenting, Arenas, Open
  <1> QED
    BY <1>1, ArenasKept

\* The actions that do so.
LEMMA QuietArenas ==
    ASSUME FramesInv, Arenas,
           \/ LockReal \/ Place \/ SyncCall \/ Sync \/ ResetCall \/ Reset \/ Lose \/ Switch
           \/ PresentHere \/ PresentDirty \/ Fault \/ Die
           \/ \E b \in Buffers, v \in Data : Write(b, v)
           \/ \E wantDirect \in BOOLEAN : PresentEnter(wantDirect)
    PROVE  Arenas'
  <1>1. CASE LockReal \/ SyncCall \/ Sync \/ ResetCall \/ PresentHere
    <2>1. /\ mpc \in {"lock", "idle", "sync", "present", "dirty"} /\ mpc' \in {"idle", "sync", "reset"}
          /\ UNCHANGED <<scenario, queue, cur, used, frameVars, entry, active>>
      BY <1>1 DEF LockReal, SyncCall, Sync, ResetCall, PresentHere, arenaVars, lockVars, liveVars
    <2> QED
      BY <2>1, ArenasQuiet
  <1>2. CASE Reset
    BY <1>2, ArenasQuiet DEF Reset, arenaVars, lockVars, liveVars
  <1>3. CASE Lose \/ Fault \/ Die
    BY <1>3, ArenasQuiet DEF Lose, Fault, Die, arenaVars, lockVars, liveVars, mainVars, Presenting
  <1>4. CASE Switch \/ PresentDirty
    BY <1>4, ArenasQuiet DEF Switch, PresentDirty, arenaVars, lockVars, liveVars, Presenting
  <1>5. CASE Place
    <2>1. /\ mpc = "place" /\ mpc' \in {"idle", "pieces"}
          /\ UNCHANGED <<scenario, queue, cur, used, frameVars, entry, active>>
      BY <1>5 DEF Place, NextPiece, arenaVars, lockVars, liveVars
    <2> QED
      BY <2>1, ArenasQuiet
  <1>6. ASSUME NEW b \in Buffers, NEW v \in Data, Write(b, v)
        PROVE  Arenas'
    <2>1. mpc' = "idle" /\ mpc = "idle" /\ UNCHANGED <<scenario, queue, cur, used, frameVars, entry, active>>
      BY <1>6 DEF Write, mainVars, liveVars
    <2> QED
      BY <2>1, ArenasQuiet
  <1>7. ASSUME NEW wantDirect \in BOOLEAN, PresentEnter(wantDirect)
        PROVE  Arenas'
    <2>1. /\ mpc = "idle" /\ mpc' \in {"switch", "present"} /\ (Closed => Open = {})
          /\ UNCHANGED <<scenario, queue, cur, used, frameVars, entry, active>>
      BY <1>7 DEF PresentEnter, arenaVars, lockVars, Closed, Open, Locked
    <2> QED
      BY <2>1, ArenasQuiet
  <1> QED
    BY <1>1, <1>2, <1>3, <1>4, <1>5, <1>6, <1>7

\* The frame being recorded grows: a block is handed out, or a command enters.
LEMMA PartedGrows ==
    ASSUME FramesInv, FramesInv', Parted, mpc # "throttle", mpc' # "throttle",
           UNCHANGED <<frameVars, cur>>, used <= used',
           \/ queue' = queue
           \/ \E e \in Command : /\ queue' = Append(queue, e)
                                 /\ \/ e.op = "draw"
                                    \/ e.op = "upload" /\ e.block[1] = cur /\ e.block[2] <= used'
    PROVE  Parted'
  <1>1. PICK m \in 0 .. Len(queue) : /\ Cut(queue, m, cur, used, Throttling)
                                    /\ FramesInFlight = Outstanding(queue, m, Throttling)
    BY DEF Parted
  <1>2. ~Throttling /\ ~Throttling' /\ Throttling = FALSE /\ Throttling' = FALSE
        /\ FramesInFlight' = FramesInFlight
    BY DEF Throttling, FramesInFlight, frameVars
  <1>3. /\ queue \in Seq(Command) /\ used \in Nat /\ used' \in Nat /\ Len(queue) \in Nat
        /\ \A k \in 1 .. Len(queue) : queue[k].op = "upload" => queue[k].block \in Block
    <2>1. Control /\ Control' /\ QueueOK(queue)
      BY DEF FramesInv, Types
    <2> QED
      BY <2>1, FramesAssumption DEF Control, QueueOK, FramesAssumption
  <1>4. CASE queue' = queue
    <2>1. Cut(queue, m, cur, used', FALSE)
      <3>1. \A k \in 1 .. Len(queue) : queue[k].op = "upload" => queue[k].block[2] \in Nat
        BY <1>3, FramesAssumption DEF Block, FramesAssumption
      <3> QED
        BY <1>1, <1>2, <1>3, <3>1 DEF Cut
    <2> QED
      BY <1>1, <1>2, <1>4, <2>1 DEF Parted
  <1>5. ASSUME NEW e \in Command, queue' = Append(queue, e),
               \/ e.op = "draw"
               \/ e.op = "upload" /\ e.block[1] = cur /\ e.block[2] <= used'
        PROVE  Parted'
    <2>1. /\ Cut(queue', m, cur, used', FALSE)
          /\ Outstanding(queue', m, FALSE) = Outstanding(queue, m, FALSE)
      BY <1>1, <1>2, <1>3, <1>5, CutAppend
    <2>2. m \in 0 .. Len(queue')
      BY <2>1 DEF Cut
    <2> QED
      BY <1>1, <1>2, <2>1, <2>2 DEF Parted
  <1> QED
    BY <1>4, <1>5

\* The next block of the current arena is nobody's yet.
LEMMA NextBlockIsFree ==
    ASSUME FramesInv, Parted, Own
    PROVE  /\ \A k \in 1 .. Len(queue) : queue[k].op = "upload" => queue[k].block # <<cur, used + 1>>
           /\ \A b \in Buffers : entry[b].mode = "arena" => entry[b].block # <<cur, used + 1>>
  <1>1. PICK m \in 0 .. Len(queue) : Cut(queue, m, cur, used, Throttling)
    BY DEF Parted
  <1>2. cur \in {0, 1} /\ used \in Nat
    BY FramesAssumption DEF FramesInv, Types, Control, FramesAssumption
  <1>3. ASSUME NEW k \in 1 .. Len(queue), queue[k].op = "upload", queue[k].block = <<cur, used + 1>>
        PROVE  FALSE
    <2>1. queue[k].block[1] = cur /\ queue[k].block[2] = used + 1
      BY <1>3
    <2>2. CASE k <= m
      BY <1>1, <1>2, <1>3, <2>1, <2>2 DEF Cut
    <2>3. CASE k > m
      BY <1>1, <1>2, <1>3, <2>1, <2>3 DEF Cut
    <2> QED
      BY <2>2, <2>3
  <1>4. ASSUME NEW b \in Buffers, entry[b].mode = "arena", entry[b].block = <<cur, used + 1>>
        PROVE  FALSE
    <2>1. entry[b].block[2] = used + 1 /\ entry[b].block[2] <= used
      BY <1>4 DEF Own
    <2> QED
      BY <1>2, <2>1
  <1> QED
    BY <1>3, <1>4

LEMMA LockArenas ==
    ASSUME FramesInv, FramesInv', Arenas, NEW b \in Buffers, NEW ro \in BOOLEAN, NEW disc \in BOOLEAN,
           Lock(b, ro, disc)
    PROVE  Arenas'
  <1>1. /\ mpc = "idle" /\ entry[b].mode = "none"
        /\ UNCHANGED <<scenario, queue, frameVars, cur, active>> /\ mpc' \in {"idle", "lock"}
    BY DEF Lock, Locked, liveVars, mainVars, arenaVars
  <1>2. /\ entry \in [Buffers -> [mode : {"none", "arena", "shadow"}, block : Block \cup {None},
                                  ro : BOOLEAN, disc : BOOLEAN]]
        /\ used \in Nat /\ Buffers' = Buffers
    BY <1>1, SameScenario, FramesAssumption DEF FramesInv, Types, Control, Locks, FramesAssumption
  <1>3. \/ UNCHANGED <<used, entry>>
        \/ used' = used /\ \E e : e.mode = "shadow" /\ entry' = [entry EXCEPT ![b] = e]
        \/ /\ used' = used + 1
           /\ \E e : /\ e.mode = "arena" /\ e.block = <<cur, used + 1>>
                     /\ entry' = [entry EXCEPT ![b] = e]
    BY DEF Lock, arenaVars, lockVars
  <1>4. CASE UNCHANGED <<used, entry>>
    BY <1>1, <1>4, ArenasQuiet
  <1>5. CASE used' = used /\ \E e : e.mode = "shadow" /\ entry' = [entry EXCEPT ![b] = e]
    <2>1. \A d \in Buffers : entry'[d].mode = "arena" => entry'[d] = entry[d]
      BY <1>2, <1>5
    <2>2. ~Presenting'
      BY <1>1 DEF Presenting
    <2> QED
      BY <1>1, <1>5, <2>1, <2>2, ArenasKept
  <1>6. CASE /\ used' = used + 1
             /\ \E e : /\ e.mode = "arena" /\ e.block = <<cur, used + 1>>
                       /\ entry' = [entry EXCEPT ![b] = e]
    <2> SUFFICES ASSUME Closed, active
                 PROVE  Arenas'
      BY <1>1, SameScenario DEF Arenas
    <2>1. Parted /\ Own
      BY DEF Arenas
    <2>2. Parted'
      BY <1>1, <1>2, <1>6, <2>1, PartedGrows
    <2>3. /\ entry'[b].mode = "arena" /\ entry'[b].block = <<cur, used + 1>>
          /\ \A d \in Buffers : d # b => entry'[d] = entry[d]
      BY <1>2, <1>6
    <2>4. /\ \A k \in 1 .. Len(queue) : queue[k].op = "upload" => queue[k].block # <<cur, used + 1>>
          /\ \A d \in Buffers : entry[d].mode = "arena" => entry[d].block # <<cur, used + 1>>
      BY <2>1, NextBlockIsFree
    <2>5. \A d \in Buffers : entry[d].mode = "arena" => entry[d].block[2] <= used + 1
      <3> SUFFICES ASSUME NEW d \in Buffers, entry[d].mode = "arena"
                   PROVE  entry[d].block[2] <= used + 1
        OBVIOUS
      <3>1. entry[d].block \in Block /\ entry[d].block[2] <= used
        BY <2>1 DEF Own, FramesInv, Types, Locks
      <3>2. entry[d].block[2] \in Nat
        BY <3>1, FramesAssumption DEF Block, FramesAssumption
      <3> QED
        BY <1>2, <3>1, <3>2
    <2>6. <<cur, used + 1>>[1] = cur /\ <<cur, used + 1>>[2] = used + 1
      OBVIOUS
    <2>7. Own'
      <3> SUFFICES ASSUME NEW d \in Buffers, entry'[d].mode = "arena"
                   PROVE  /\ entry'[d].block[1] = cur /\ entry'[d].block[2] <= used + 1
                          /\ \A k \in 1 .. Len(queue) : queue[k].op = "upload" => queue[k].block # entry'[d].block
                          /\ \A f \in Buffers : entry'[f].mode = "arena" /\ entry'[f].block = entry'[d].block => f = d
        BY <1>1, <1>2, <1>6 DEF Own
      <3>1. CASE d = b
        BY <1>2, <2>3, <2>4, <2>6, <3>1
      <3>2. CASE d # b
        <4>1. entry'[d] = entry[d] /\ entry[d].mode = "arena"
          BY <2>3, <3>2
        <4>2. /\ entry[d].block[1] = cur
              /\ \A k \in 1 .. Len(queue) : queue[k].op = "upload" => queue[k].block # entry[d].block
              /\ \A f \in Buffers : entry[f].mode = "arena" /\ entry[f].block = entry[d].block => f = d
          BY <2>1, <4>1 DEF Own
        <4>3. \A f \in Buffers : entry'[f].mode = "arena" /\ entry'[f].block = entry[d].block => f = d
          BY <2>3, <2>4, <4>1, <4>2
        <4> QED
          BY <2>5, <4>1, <4>2, <4>3
      <3> QED
        BY <3>1, <3>2
    <2>8. ~Presenting'
      BY <1>1 DEF Presenting
    <2> QED
      BY <2>2, <2>7, <2>8 DEF Arenas
  <1> QED
    BY <1>3, <1>4, <1>5, <1>6

LEMMA UnlockArenas ==
    ASSUME FramesInv, FramesInv', Arenas, NEW b \in Buffers, Unlock(b)
    PROVE  Arenas'
  <1>1. /\ mpc = "idle" /\ mpc' \in {"idle", "pieces"}
        /\ UNCHANGED <<scenario, frameVars, cur, used, active>>
    BY DEF Unlock, liveVars, mainVars, arenaVars
  <1>2. /\ entry \in [Buffers -> [mode : {"none", "arena", "shadow"}, block : Block \cup {None},
                                  ro : BOOLEAN, disc : BOOLEAN]]
        /\ used \in Nat /\ Buffers' = Buffers /\ Pieces \in Nat \ {0} /\ queue \in Seq(Command)
        /\ (entry[b].mode = "arena" => entry[b].block \in Block)
    BY <1>1, SameScenario, FramesAssumption DEF FramesInv, Types, Control, Locks, QueueOK, FramesAssumption
  <1> DEFINE c == [op |-> "upload", buf |-> b, piece |-> 1, block |-> entry[b].block,
                   disc |-> entry[b].disc]
  <1>3. \/ UNCHANGED <<queue, entry>>
        \/ /\ entry' = [entry EXCEPT ![b] = NoLock]
           /\ queue' = queue \/ (entry[b].mode = "arena" /\ Post(c))
    BY DEF Unlock
  <1>4. CASE UNCHANGED <<queue, entry>>
    BY <1>1, <1>4, ArenasQuiet
  <1>5. ASSUME entry' = [entry EXCEPT ![b] = NoLock]
        PROVE  /\ \A d \in Buffers : entry'[d].mode = "arena" => d # b /\ entry'[d] = entry[d]
               /\ ~Presenting'
    BY <1>1, <1>2, <1>5 DEF NoLock, Presenting
  <1>6. CASE entry' = [entry EXCEPT ![b] = NoLock] /\ queue' = queue
    <2>1. \A d \in Buffers : entry'[d].mode = "arena" => entry'[d] = entry[d]
      BY <1>5, <1>6
    <2>2. ~Presenting'
      BY <1>5, <1>6
    <2> QED
      BY <1>1, <1>6, <2>1, <2>2, ArenasKept
  <1>7. CASE entry' = [entry EXCEPT ![b] = NoLock] /\ entry[b].mode = "arena" /\ Post(c)
    <2> SUFFICES ASSUME Closed, active
                 PROVE  Arenas'
      BY <1>1, SameScenario DEF Arenas
    <2>1. Parted /\ Own /\ ~dead
      BY DEF Arenas, FramesInv, Off
    <2>2. c \in Command /\ c.op = "upload" /\ c.block = entry[b].block
      BY <1>2, <1>7 DEF Command
    <2>3. c.block[1] = cur /\ c.block[2] <= used
      BY <1>7, <2>1, <2>2 DEF Own
    <2>4. Post(c)
      BY <1>7
    <2> HIDE DEF c
    <2>5. queue' = Append(queue, c)
      BY <2>1, <2>4 DEF Post
    <2>6. Parted'
      BY <1>1, <1>2, <2>1, <2>2, <2>3, <2>5, PartedGrows
    <2>7. Own'
      <3>1. /\ Len(queue') = Len(queue) + 1 /\ Len(queue) \in Nat
            /\ (\A k \in 1 .. Len(queue) : queue'[k] = queue[k]) /\ queue'[Len(queue) + 1] = c
        BY <1>2, <2>2, <2>5
      <3> SUFFICES ASSUME NEW d \in Buffers, entry'[d].mode = "arena"
                   PROVE  /\ entry'[d].block[1] = cur /\ entry'[d].block[2] <= used
                          /\ \A k \in 1 .. Len(queue') : queue'[k].op = "upload" => queue'[k].block # entry'[d].block
                          /\ \A f \in Buffers : entry'[f].mode = "arena" /\ entry'[f].block = entry'[d].block => f = d
        BY <1>1, <1>2 DEF Own
      <3>2. d # b /\ entry'[d] = entry[d] /\ entry[d].mode = "arena"
        BY <1>5, <1>7
      <3>3. /\ entry[d].block[1] = cur /\ entry[d].block[2] <= used
            /\ \A k \in 1 .. Len(queue) : queue[k].op = "upload" => queue[k].block # entry[d].block
            /\ \A f \in Buffers : entry[f].mode = "arena" /\ entry[f].block = entry[d].block => f = d
        BY <2>1, <3>2 DEF Own
      <3>4. c.block # entry[d].block
        BY <1>7, <2>2, <3>2, <3>3
      <3>5. \A k \in 1 .. Len(queue') : queue'[k].op = "upload" => queue'[k].block # entry[d].block
        <4> SUFFICES ASSUME NEW k \in 1 .. Len(queue'), queue'[k].op = "upload"
                     PROVE  queue'[k].block # entry[d].block
          OBVIOUS
        <4>1. k \in 1 .. Len(queue) \/ k = Len(queue) + 1
          BY <3>1
        <4> QED
          BY <3>1, <3>3, <3>4, <4>1
      <3>6. \A f \in Buffers : entry'[f].mode = "arena" /\ entry'[f].block = entry[d].block => f = d
        BY <1>5, <1>7, <3>3
      <3> QED
        BY <3>2, <3>3, <3>5, <3>6
    <2>8. ~Presenting'
      BY <1>5, <1>7
    <2> QED
      BY <2>6, <2>7, <2>8 DEF Arenas
  <1> QED
    BY <1>3, <1>4, <1>6, <1>7

\* A command that names no open block leaves them the client's.
LEMMA OwnAppend ==
    ASSUME FramesInv, Own, UNCHANGED <<scenario, entry, cur>>, used' \in Nat, used <= used',
           NEW c \in Command, queue' = Append(queue, c),
           c.op = "upload" => \A b \in Buffers : entry[b].mode = "arena" => entry[b].block # c.block
    PROVE  Own'
  <1>1. /\ queue \in Seq(Command) /\ used \in Nat /\ Buffers' = Buffers
        /\ \A b \in Buffers : entry[b].mode = "arena" => entry[b].block \in Block
    BY SameScenario, FramesAssumption DEF FramesInv, Types, Control, Locks, QueueOK, FramesAssumption
  <1>2. /\ Len(queue') = Len(queue) + 1 /\ Len(queue) \in Nat
        /\ (\A k \in 1 .. Len(queue) : queue'[k] = queue[k]) /\ queue'[Len(queue) + 1] = c
    BY <1>1
  <1> SUFFICES ASSUME NEW d \in Buffers, entry[d].mode = "arena"
               PROVE  /\ entry[d].block[1] = cur /\ entry[d].block[2] <= used'
                      /\ \A k \in 1 .. Len(queue') : queue'[k].op = "upload" => queue'[k].block # entry[d].block
                      /\ \A f \in Buffers : entry[f].mode = "arena" /\ entry[f].block = entry[d].block => f = d
    BY <1>1 DEF Own
  <1>3. /\ entry[d].block[1] = cur /\ entry[d].block[2] <= used
        /\ \A k \in 1 .. Len(queue) : queue[k].op = "upload" => queue[k].block # entry[d].block
        /\ \A f \in Buffers : entry[f].mode = "arena" /\ entry[f].block = entry[d].block => f = d
    BY DEF Own
  <1>4. entry[d].block[2] <= used'
    <2>1. entry[d].block[2] \in Nat
      BY <1>1, FramesAssumption DEF Block, FramesAssumption
    <2> QED
      BY <1>1, <1>3, <2>1
  <1>5. ASSUME NEW k \in 1 .. Len(queue'), queue'[k].op = "upload"
        PROVE  queue'[k].block # entry[d].block
    <2>1. k \in 1 .. Len(queue) \/ k = Len(queue) + 1
      BY <1>2
    <2> QED
      BY <1>2, <1>3, <1>5, <2>1
  <1> QED
    BY <1>3, <1>4, <1>5

LEMMA PieceArenas ==
    ASSUME FramesInv, FramesInv', Arenas, Piece
    PROVE  Arenas'
  <1>1. /\ mpc = "pieces" /\ mpc' \in {"idle", "pieces", "place"}
        /\ UNCHANGED <<scenario, frameVars, cur, entry, active>>
    BY DEF Piece, NextPiece, liveVars, lockVars
  <1>2. CASE used < ArenaBlocks
    <2> SUFFICES ASSUME Closed, active
                 PROVE  Arenas'
      BY <1>1, SameScenario DEF Arenas
    <2>1. Parted /\ Own /\ ~dead /\ Control /\ Job
      BY DEF Arenas, FramesInv, Off, Types
    <2> DEFINE c == [op |-> "upload", buf |-> job.buf, piece |-> job.piece,
                     block |-> <<cur, used + 1>>, disc |-> Discards]
    <2>2. used' = used + 1 /\ Post(c)
      BY <1>2 DEF Piece
    <2>3. /\ job.buf \in Buffers /\ job.piece \in 0 .. Pieces /\ Discards \in BOOLEAN
          /\ <<cur, used + 1>> \in Block /\ used \in Nat
      BY <1>1, <1>2, <2>1, PieceValue, NextBlock, FramesAssumption DEF Control, FramesAssumption
    <2>4. c \in Command /\ c.op = "upload" /\ c.block = <<cur, used + 1>>
          /\ c.block[1] = cur /\ c.block[2] <= used + 1
      BY <2>3 DEF Command
    <2> HIDE DEF c
    <2>5. queue' = Append(queue, c)
      BY <2>1, <2>2 DEF Post
    <2>6. \A b \in Buffers : entry[b].mode = "arena" => entry[b].block # c.block
      BY <2>1, <2>4, NextBlockIsFree
    <2>7. used <= used' /\ used' \in Nat
      BY <2>2, <2>3
    <2>8. Parted'
      BY <1>1, <2>1, <2>2, <2>4, <2>5, <2>7, PartedGrows
    <2>9. Own'
      BY <1>1, <2>1, <2>4, <2>5, <2>6, <2>7, OwnAppend
    <2>10. ~Presenting'
      BY <1>1 DEF Presenting
    <2> QED
      BY <2>8, <2>9, <2>10 DEF Arenas
  <1>3. CASE ~(used < ArenaBlocks)
    <2>1. UNCHANGED <<queue, used>>
      BY <1>3 DEF Piece
    <2> QED
      BY <1>1, <2>1, ArenasQuiet
  <1> QED
    BY <1>2, <1>3

LEMMA DrawArenas ==
    ASSUME FramesInv, FramesInv', Arenas, NEW b \in Buffers, Draw(b)
    PROVE  Arenas'
  <1>1. /\ mpc = "idle" /\ mpc' = "idle"
        /\ UNCHANGED <<scenario, frameVars, cur, used, entry, active>>
    BY DEF Draw, liveVars, mainVars, arenaVars, lockVars
  <1> DEFINE c == [op |-> "draw", buf |-> b, piece |-> 0, block |-> None, disc |-> FALSE]
  <1>2. Post(c) \/ queue' = queue
    BY DEF Draw
  <1>3. c \in Command /\ c.op = "draw"
    BY FramesAssumption DEF Command, FramesAssumption
  <1> HIDE DEF c
  <1>4. CASE queue' = queue
    BY <1>1, <1>4, ArenasQuiet
  <1>5. CASE Post(c)
    <2> SUFFICES ASSUME Closed, active
                 PROVE  Arenas'
      BY <1>1, SameScenario DEF Arenas
    <2>1. Parted /\ Own /\ ~dead /\ used \in Nat
      BY FramesAssumption DEF Arenas, FramesInv, Off, Types, Control, FramesAssumption
    <2>2. queue' = Append(queue, c)
      BY <1>5, <2>1 DEF Post
    <2>3. used <= used' /\ used' \in Nat
      BY <1>1, <2>1
    <2>4. Parted'
      BY <1>1, <1>3, <2>1, <2>2, <2>3, PartedGrows
    <2>5. Own'
      BY <1>1, <1>3, <2>1, <2>2, <2>3, OwnAppend
    <2>6. ~Presenting'
      BY <1>1 DEF Presenting
    <2> QED
      BY <2>4, <2>5, <2>6 DEF Arenas
  <1> QED
    BY <1>2, <1>4, <1>5

\* A Present ends the frame being recorded.
LEMMA PresentArenas ==
    ASSUME FramesInv, FramesInv', Arenas, PresentQueued, MaxFramesInFlight = 1
    PROVE  Arenas'
  <1>1. /\ mpc = "present" /\ mpc' = "throttle" /\ produced' = (produced + 1) % FrameWord
        /\ UNCHANGED <<scenario, consumed, cur, used, entry, active>>
    BY DEF PresentQueued, liveVars, arenaVars, lockVars
  <1> SUFFICES ASSUME Closed, active
               PROVE  Arenas'
    BY <1>1, SameScenario DEF Arenas
  <1>2. /\ Parted /\ Own /\ Open = {} /\ ~dead /\ used \in Nat
        /\ queue \in Seq(Command) /\ produced \in 0 .. FrameWord - 1 /\ consumed \in 0 .. FrameWord - 1
    BY <1>1, FramesAssumption
       DEF Arenas, FramesInv, Off, Types, Control, QueueOK, FramesAssumption, Presenting
  <1> DEFINE c == [op |-> "present", buf |-> None, piece |-> 0, block |-> None, disc |-> FALSE]
  <1>3. c \in Command /\ c.op = "present"
    BY FramesAssumption DEF Command, FramesAssumption
  <1>4. Post(c)
    BY DEF PresentQueued
  <1> HIDE DEF c
  <1>5. queue' = Append(queue, c)
    BY <1>2, <1>4 DEF Post
  <1>6. PICK m \in 0 .. Len(queue) : /\ Cut(queue, m, cur, used, Throttling)
                                    /\ FramesInFlight = Outstanding(queue, m, Throttling)
    BY <1>2 DEF Parted
  <1>7. Throttling = FALSE /\ Throttling' = TRUE
    BY <1>1 DEF Throttling
  <1>8. /\ Cut(queue', m, cur, used, TRUE)
        /\ Outstanding(queue', m, TRUE) = Outstanding(queue, m, FALSE) + 1
    BY <1>2, <1>3, <1>5, <1>6, <1>7, CutPresent
  <1>9. FramesInFlight' = FramesInFlight + 1
    <2>1. FramesInFlight \in 0 .. 1
      BY <1>6, <1>7 DEF Outstanding
    <2> QED
      BY <1>1, <1>2, <2>1, FrameCounts DEF FramesInFlight
  <1>10. m \in 0 .. Len(queue')
    BY <1>8 DEF Cut
  <1>11. Parted'
    BY <1>1, <1>6, <1>7, <1>8, <1>9, <1>10 DEF Parted
  <1>12. Own'
    BY <1>1, <1>2, <1>3, <1>5, OwnAppend
  <1>13. Open' = {}
    BY <1>1, <1>2, SameScenario DEF Open
  <1> QED
    BY <1>11, <1>12, <1>13 DEF Arenas

LEMMA ThrottleArenas ==
    ASSUME FramesInv, Arenas, Throttle, MaxFramesInFlight = 1
    PROVE  Arenas'
  <1>1. /\ mpc = "throttle" /\ mpc' = "idle" /\ cur' = 1 - cur /\ used' = 0
        /\ (FramesInFlight <= 1 \/ dead)
        /\ UNCHANGED <<scenario, queue, frameVars, entry, active>>
    BY DEF Throttle, Flip, CaughtUp, liveVars, lockVars
  <1> SUFFICES ASSUME Closed, active
               PROVE  Arenas'
    BY <1>1, SameScenario DEF Arenas
  <1>2. Parted /\ Open = {} /\ ~dead /\ cur \in {0, 1} /\ queue \in Seq(Command)
    BY <1>1 DEF Arenas, FramesInv, Off, Types, Control, QueueOK, Presenting
  <1>3. PICK m \in 0 .. Len(queue) : /\ Cut(queue, m, cur, used, Throttling)
                                    /\ FramesInFlight = Outstanding(queue, m, Throttling)
    BY <1>2 DEF Parted
  <1>4. Throttling = TRUE /\ Throttling' = FALSE /\ FramesInFlight' = FramesInFlight
    BY <1>1 DEF Throttling, FramesInFlight, frameVars
  <1>5. /\ Cut(queue, Len(queue), 1 - cur, 0, FALSE)
        /\ Outstanding(queue, Len(queue), FALSE) = Outstanding(queue, m, TRUE)
    BY <1>1, <1>2, <1>3, <1>4, CutFlip
  <1>6. Len(queue) \in 0 .. Len(queue)
    BY <1>2
  <1>7. Parted'
    BY <1>1, <1>3, <1>4, <1>5, <1>6 DEF Parted
  <1>8. Open' = {}
    BY <1>1, <1>2, SameScenario DEF Open
  <1>9. Own'
    BY <1>8 DEF Own, Open
  <1> QED
    BY <1>7, <1>8, <1>9 DEF Arenas

LEMMA ExecuteArenas ==
    ASSUME FramesInv, Arenas, Execute, MaxFramesInFlight = 1
    PROVE  Arenas'
  <1>1. /\ queue # <<>> /\ queue' = Tail(queue)
        /\ consumed' = IF Head(queue).op = "present" THEN (consumed + 1) % FrameWord ELSE consumed
        /\ UNCHANGED <<scenario, mpc, produced, cur, used, entry, active>>
    BY DEF Execute, mainVars, arenaVars, lockVars, liveVars
  <1> SUFFICES ASSUME Closed, active
               PROVE  Arenas'
    BY <1>1, SameScenario DEF Arenas
  <1>2. /\ Parted /\ Own /\ Buffers' = Buffers /\ queue \in Seq(Command)
        /\ produced \in 0 .. FrameWord - 1 /\ consumed \in 0 .. FrameWord - 1
    BY <1>1, SameScenario DEF Arenas, FramesInv, Types, Control, QueueOK
  <1>3. PICK m \in 0 .. Len(queue) : /\ Cut(queue, m, cur, used, Throttling)
                                    /\ FramesInFlight = Outstanding(queue, m, Throttling)
    BY <1>2 DEF Parted
  <1>4. Throttling \in BOOLEAN /\ Throttling' = Throttling
    BY <1>1 DEF Throttling
  <1>5. PICK n \in 0 .. Len(Tail(queue)) :
          /\ Cut(Tail(queue), n, cur, used, Throttling)
          /\ Outstanding(queue, m, Throttling)
               = Outstanding(Tail(queue), n, Throttling) + (IF queue[1].op = "present" THEN 1 ELSE 0)
    BY <1>1, <1>2, <1>3, <1>4, CutTail
  <1>6. FramesInFlight' = Outstanding(Tail(queue), n, Throttling)
    <2>1. Head(queue) = queue[1]
      BY <1>1, <1>2
    <2>2. /\ Outstanding(queue, m, Throttling) \in 0 .. 2
          /\ Outstanding(Tail(queue), n, Throttling) \in 0 .. 2
      BY DEF Outstanding
    <2>3. CASE queue[1].op = "present"
      <3>1. FramesInFlight > 0 /\ FramesInFlight \in 0 .. 2
            /\ Outstanding(Tail(queue), n, Throttling) = FramesInFlight - 1
        BY <1>3, <1>5, <2>2, <2>3
      <3>2. FramesInFlight' = FramesInFlight - 1
        BY <1>1, <1>2, <2>1, <2>3, <3>1, FrameCounts DEF FramesInFlight
      <3> QED
        BY <3>1, <3>2
    <2>4. CASE queue[1].op # "present"
      <3>1. FramesInFlight' = FramesInFlight
        BY <1>1, <2>1, <2>4 DEF FramesInFlight
      <3> QED
        BY <1>3, <1>5, <2>2, <2>4, <3>1
    <2> QED
      BY <2>3, <2>4
  <1>7. Parted'
    BY <1>1, <1>4, <1>5, <1>6 DEF Parted
  <1>8. Own'
    <2>1. \A k \in 1 .. Len(Tail(queue)) : Tail(queue)[k] = queue[k + 1] /\ k + 1 \in 1 .. Len(queue)
      BY <1>1, <1>2
    <2> QED
      BY <1>1, <1>2, <2>1 DEF Own
  <1>9. Presenting' => Open' = {}
    BY <1>1, SameScenario DEF Arenas, Presenting, Open
  <1> QED
    BY <1>7, <1>8, <1>9 DEF Arenas

LEMMA ArenasInit == Init => Arenas
  <1> SUFFICES ASSUME Init
               PROVE  Arenas
    OBVIOUS
  <1>1. /\ mpc = "idle" /\ queue = <<>> /\ produced = 0 /\ consumed = 0
        /\ entry = [b \in Buffers |-> NoLock]
    BY DEF Init
  <1>2. Throttling = FALSE /\ Len(queue) = 0
    BY <1>1 DEF Throttling
  <1>3. Cut(queue, 0, cur, used, Throttling)
    BY <1>1, <1>2 DEF Cut
  <1>4. FramesInFlight = 0
    <2>1. FrameWord \in Nat \ {0}
      BY FrameWordFacts
    <2>2. (0 - 0) % FrameWord = 0
      BY <2>1
    <2> QED
      BY <1>1, <2>2 DEF FramesInFlight
  <1>5. Parted
    BY <1>2, <1>3, <1>4 DEF Parted, Outstanding
  <1>6. Own /\ Open = {}
    BY <1>1 DEF Own, Open, NoLock
  <1> QED
    BY <1>5, <1>6 DEF Arenas

LEMMA ArenasStep ==
    ASSUME FramesInv, FramesInv', Arenas, [Next]_vars, MaxFramesInFlight = 1
    PROVE  Arenas'
  <1>1. CASE \E b \in Buffers, ro, disc \in BOOLEAN : Lock(b, ro, disc)
    BY <1>1, LockArenas
  <1>2. CASE \E b \in Buffers : Unlock(b)
    BY <1>2, UnlockArenas
  <1>3. CASE \E b \in Buffers : Draw(b)
    BY <1>3, DrawArenas
  <1>4. CASE Piece
    BY <1>4, PieceArenas
  <1>5. CASE PresentQueued
    BY <1>5, PresentArenas
  <1>6. CASE Throttle
    BY <1>6, ThrottleArenas
  <1>7. CASE Execute
    BY <1>7, ExecuteArenas
  <1>8. CASE \/ LockReal \/ Place \/ SyncCall \/ Sync \/ ResetCall \/ Reset \/ Lose \/ Switch
             \/ PresentHere \/ PresentDirty \/ Fault \/ Die
             \/ \E b \in Buffers, v \in Data : Write(b, v)
             \/ \E wantDirect \in BOOLEAN : PresentEnter(wantDirect)
    BY <1>8, QuietArenas
  <1>9. CASE UNCHANGED vars
    <2>1. UNCHANGED <<scenario, queue, cur, used, frameVars, entry, active, mpc>>
      BY <1>9 DEF vars, mainVars, arenaVars, lockVars, liveVars
    <2> QED
      BY <2>1, ArenasQuiet DEF Presenting
  <1> QED
    BY <1>1, <1>2, <1>3, <1>4, <1>5, <1>6, <1>7, <1>8, <1>9 DEF Next, MainStep

------------------------------------------------------------------------------
(* The calls the device receives. *)

\* What a command stands for while the arenas hold a.
Meaning(c, a) == Call(c.op, c.buf, c.piece, IF c.op = "upload" THEN a[c.block] ELSE None, c.disc)

Meanings(q, a) == [k \in 1 .. Len(q) |-> Meaning(q[k], a)]

LEMMA PendingIs ==
    /\ Pending = IF active THEN Meanings(queue, arena) ELSE <<>>
    /\ Pending' = IF active' THEN Meanings(queue', arena') ELSE <<>>
  BY DEF Pending, Alive, Resolve, Meanings, Meaning

\* The data of queued uploads is left alone.
LEMMA SamePending ==
    ASSUME QueueOK(queue), active' = active, queue' = queue,
           active => \A k \in 1 .. Len(queue) : queue[k].op = "upload" =>
                       arena'[queue[k].block] = arena[queue[k].block]
    PROVE  Pending' = Pending
  <1>1. active => \A k \in 1 .. Len(queue) : Meaning(queue[k], arena') = Meaning(queue[k], arena)
    BY DEF Meaning
  <1>2. active => Meanings(queue, arena') = Meanings(queue, arena)
    BY <1>1 DEF Meanings
  <1> QED
    BY <1>2, PendingIs

\* A call is accepted.
LEMMA EnqueueStep ==
    ASSUME QueueOK(queue), active, active' = active, device' = device, NEW c \in Command,
           queue' = Append(queue, c), Meaning(c, arena') \in Calls,
           \A k \in 1 .. Len(queue) : queue[k].op = "upload" =>
             arena'[queue[k].block] = arena[queue[k].block]
    PROVE  Promise!Next
  <1>1. /\ queue \in Seq(Command) /\ Len(queue') = Len(queue) + 1 /\ Len(queue) \in Nat
        /\ (\A k \in 1 .. Len(queue) : queue'[k] = queue[k]) /\ queue'[Len(queue) + 1] = c
    BY DEF QueueOK
  <1>2. Pending = Meanings(queue, arena) /\ Pending' = Meanings(queue', arena')
    BY PendingIs
  <1> DEFINE P == Pending
             R == Pending'
  <1>3. /\ DOMAIN P = 1 .. Len(queue) /\ DOMAIN R = 1 .. Len(queue) + 1
        /\ \A k \in 1 .. Len(queue) : P[k] = Meaning(queue[k], arena)
        /\ \A k \in 1 .. Len(queue) + 1 : R[k] = Meaning(queue'[k], arena')
        /\ P = [k \in 1 .. Len(queue) |-> P[k]] /\ R = [k \in 1 .. Len(queue) + 1 |-> R[k]]
    BY <1>1, <1>2 DEF Meanings
  <1>4. \A k \in 1 .. Len(queue) : R[k] = P[k]
    <2> SUFFICES ASSUME NEW k \in 1 .. Len(queue)
                 PROVE  R[k] = P[k]
      OBVIOUS
    <2>1. Meaning(queue[k], arena') = Meaning(queue[k], arena)
      BY DEF Meaning
    <2> QED
      BY <1>1, <1>3, <2>1
  <1>5. R[Len(queue) + 1] \in Calls
    BY <1>1, <1>3
  <1> HIDE DEF P, R
  <1>6. Len(P) = Len(queue) /\ Len(R) = Len(queue) + 1
    BY <1>1, <1>3
  <1>7. SubSeq(R, 1, Len(P)) = P
    <2>1. SubSeq(R, 1, Len(queue)) = [k \in 1 .. Len(queue) |-> R[k]]
      BY <1>1
    <2> QED
      BY <1>3, <1>4, <1>6, <2>1
  <1>8. Len(R) = Len(P) + 1 /\ SubSeq(R, 1, Len(P)) = P /\ R[Len(R)] \in Calls
    BY <1>5, <1>6, <1>7
  <1>9. Alive /\ Alive' = Alive
    BY DEF Alive
  <1> QED
    BY <1>8, <1>9 DEF P, R, Promise!Next, Promise!Enqueue

\* The oldest call is executed.
LEMMA ExecuteStep ==
    ASSUME FramesInv, Execute
    PROVE  Promise!Next
  <1>1. /\ queue # <<>> /\ active /\ active' = active /\ queue' = Tail(queue) /\ arena' = arena
        /\ device' = Meaning(Head(queue), arena)
    BY DEF Execute, liveVars, arenaVars, Resolve, Meaning
  <1>2. /\ queue \in Seq(Command) /\ Len(queue) \in Nat \ {0} /\ Head(queue) = queue[1]
        /\ Len(Tail(queue)) = Len(queue) - 1
        /\ \A k \in 1 .. Len(queue) - 1 : Tail(queue)[k] = queue[k + 1]
    BY <1>1 DEF FramesInv, Types, QueueOK
  <1>3. Pending = Meanings(queue, arena) /\ Pending' = Meanings(Tail(queue), arena)
    BY <1>1, PendingIs
  <1> DEFINE P == Meanings(queue, arena)
             R == Meanings(Tail(queue), arena)
             C == {Meaning(queue[k], arena) : k \in 1 .. Len(queue)}
  <1>4. /\ P \in [1 .. Len(queue) -> C] /\ P[1] = Meaning(queue[1], arena)
        /\ \A k \in 1 .. Len(queue) : P[k] = Meaning(queue[k], arena)
        /\ R = [k \in 1 .. Len(queue) - 1 |-> Meaning(queue[k + 1], arena)]
    BY <1>2 DEF Meanings
  <1> HIDE DEF P, R, C
  <1>5. P \in Seq(C) /\ Len(P) = Len(queue) /\ P # <<>>
    BY <1>2, <1>4
  <1>6. /\ Head(P) = P[1] /\ Tail(P) \in Seq(C) /\ Len(Tail(P)) = Len(queue) - 1
        /\ \A k \in 1 .. Len(queue) - 1 : Tail(P)[k] = P[k + 1]
    BY <1>2, <1>5
  <1>7. Tail(P) = R
    <2> DEFINE T == Tail(P)
    <2>a. T \in [1 .. Len(T) -> C] /\ Len(T) = Len(queue) - 1
      BY <1>6, LenProperties
    <2> HIDE DEF T
    <2>1. T = [k \in 1 .. Len(queue) - 1 |-> T[k]]
      BY <2>a
    <2>2. \A k \in 1 .. Len(queue) - 1 : Tail(P)[k] = Meaning(queue[k + 1], arena)
      BY <1>2, <1>4, <1>6
    <2> QED
      BY <1>4, <2>1, <2>2 DEF T
  <1>8. Pending = P /\ Pending' = R /\ device' = Head(P)
    BY <1>1, <1>2, <1>3, <1>4, <1>6 DEF P, R
  <1>9. Pending # <<>> /\ device' = Head(Pending) /\ Pending' = Tail(Pending) /\ Alive' = Alive
    BY <1>1, <1>5, <1>7, <1>8 DEF Alive
  <1> QED
    BY <1>9 DEF Promise!Next, Promise!Execute

\* A call is made here and now: nothing is queued, or a drain has given up.
LEMMA DirectStep ==
    ASSUME QueueOK(queue), UNCHANGED <<active, queue, arena>>, device' \in Calls,
           queue = <<>> \/ ~active \/ "giveup" \in Allowed
    PROVE  Promise!Next
  <1>1. Pending' = Pending
    BY SamePending
  <1>2. Pending = <<>> \/ "giveup" \in Allowed
    <2>1. CASE queue = <<>>
      <3>1. Meanings(<<>>, arena) = <<>>
        BY DEF Meanings
      <3> QED
        BY <2>1, <3>1, PendingIs
    <2>2. CASE ~active
      BY <2>2, PendingIs
    <2> QED
      BY <2>1, <2>2
  <1>3. Alive' = Alive
    BY DEF Alive
  <1> QED
    BY <1>1, <1>2, <1>3 DEF Promise!Next, Promise!Direct

\* The promise is kept, or nothing it speaks of changes.
Kept == Promise!Next \/ UNCHANGED <<Pending, device, Alive>>

LEMMA QuietStep ==
    ASSUME QueueOK(queue), UNCHANGED <<active, queue, arena, device>>
    PROVE  Kept
  BY SamePending DEF Kept, Alive

\* What a Drain that has returned says.
LEMMA DrainedFacts ==
    ASSUME FramesInv, Drained
    PROVE  queue = <<>> \/ ~active \/ "giveup" \in Allowed
  BY DEF FramesInv, Off, Drained

\* What calls that go past the queue say.
LEMMA NotLiveFacts ==
    ASSUME FramesInv, ~Live
    PROVE  queue = <<>> \/ ~active
  BY DEF FramesInv, Off, Live

LEMMA LockPromise ==
    ASSUME FramesInv, NEW b \in Buffers, NEW ro \in BOOLEAN, NEW disc \in BOOLEAN, Lock(b, ro, disc)
    PROVE  Kept
  <1>1. Control /\ QueueOK(queue) /\ UNCHANGED <<active, queue, arena>>
    BY DEF FramesInv, Types, Lock, liveVars, arenaVars
  <1>2. device' = device \/ (~Live /\ device' = Call("lock", b, 0, None, FALSE))
    BY DEF Lock
  <1>3. Call("lock", b, 0, None, FALSE) \in Calls
    BY <1>1, BufferCallType DEF Control
  <1> QED
    BY <1>1, <1>2, <1>3, QuietStep, DirectStep, NotLiveFacts DEF Kept

\* The calls of the main thread that are made here.
LEMMA HerePromise ==
    ASSUME FramesInv, LockReal \/ Place \/ Sync \/ Reset \/ PresentHere
    PROVE  Kept
  <1>1. Control /\ QueueOK(queue) /\ Job /\ Store
    BY DEF FramesInv, Types
  <1>2. ASSUME LockReal
        PROVE  UNCHANGED <<active, queue, arena>> /\ Drained /\ device' \in Calls
    <2>1. job.buf \in Buffers
      BY <1>1, <1>2 DEF LockReal, Job
    <2> QED
      BY <1>1, <1>2, <2>1, BufferCallType DEF LockReal, Control, liveVars, arenaVars
  <1>3. ASSUME Place
        PROVE  UNCHANGED <<active, queue, arena>> /\ Drained /\ device' \in Calls
    <2>1. mpc = "place"
      BY <1>3 DEF Place
    <2>2. /\ job.buf \in Buffers /\ job.piece \in 0 .. Pieces
          /\ shadow[job.buf][job.piece] \in Value /\ Discards \in BOOLEAN
      BY <1>1, <2>1, PieceValue
    <2>3. device' = Call("upload", job.buf, job.piece, shadow[job.buf][job.piece], Discards)
      BY <1>3 DEF Place
    <2>4. device' \in Calls
      BY <1>1, <2>2, <2>3, UploadCallType DEF Control
    <2> QED
      BY <1>3, <2>4 DEF Place, liveVars, arenaVars
  <1>4. ASSUME Sync
        PROVE  UNCHANGED <<active, queue, arena>> /\ Drained /\ device' \in Calls
    BY <1>4, PlainType DEF Sync, liveVars, arenaVars
  <1>5. ASSUME Reset
        PROVE  UNCHANGED <<active, queue, arena>> /\ (Live => Drained) /\ device' \in Calls
    BY <1>5, PlainType DEF Reset, ResetEnter, liveVars, arenaVars
  <1>6. ASSUME PresentHere
        PROVE  UNCHANGED <<active, queue, arena>> /\ (Live => Drained) /\ device' \in Calls
    BY <1>6, PlainType DEF PresentHere, liveVars, arenaVars
  <1>7. UNCHANGED <<active, queue, arena>> /\ (Live => Drained) /\ device' \in Calls
    BY <1>2, <1>3, <1>4, <1>5, <1>6
  <1> QED
    BY <1>1, <1>7, DirectStep, DrainedFacts, NotLiveFacts DEF Kept

\* The client writes under a lock: what it wrote before is queued, or elsewhere.
LEMMA WritePromise ==
    ASSUME FramesInv, Arenas, Closed, NEW b \in Buffers, NEW v \in Data, Write(b, v)
    PROVE  Kept
  <1>1. Types /\ QueueOK(queue) /\ UNCHANGED <<active, queue, device>>
    BY DEF FramesInv, Types, Write, liveVars
  <1>2. arena' = arena \/ (entry[b].mode = "arena" /\ arena' = [arena EXCEPT ![entry[b].block] = v])
    BY DEF Write
  <1>3. active => \A k \in 1 .. Len(queue) : queue[k].op = "upload" =>
                    arena'[queue[k].block] = arena[queue[k].block]
    <2> SUFFICES ASSUME active, NEW k \in 1 .. Len(queue), queue[k].op = "upload"
                 PROVE  arena'[queue[k].block] = arena[queue[k].block]
      OBVIOUS
    <2>1. queue[k].block \in Block /\ arena \in [Block -> Value]
      BY <1>1 DEF Types, QueueOK, Store
    <2>2. entry[b].mode = "arena" => queue[k].block # entry[b].block
      BY DEF Arenas, Own
    <2> QED
      BY <1>2, <2>1, <2>2
  <1>4. Pending' = Pending
    BY <1>1, <1>3, SamePending
  <1> QED
    BY <1>1, <1>4 DEF Kept, Alive

\* Nothing is queued for a render thread that has faulted.
LEMMA DeadPost ==
    ASSUME ~active, active' = active, device' = device
    PROVE  Kept
  BY PendingIs DEF Kept, Alive

LEMMA UnlockPromise ==
    ASSUME FramesInv, NEW b \in Buffers, Unlock(b)
    PROVE  Kept
  <1>1. /\ QueueOK(queue) /\ Control /\ Store /\ Locks /\ (dead => ~active)
        /\ UNCHANGED <<active, arena, device>>
    BY DEF FramesInv, Types, Off, Unlock, liveVars, arenaVars
  <1> DEFINE c == [op |-> "upload", buf |-> b, piece |-> 1, block |-> entry[b].block,
                   disc |-> entry[b].disc]
  <1>2. queue' = queue \/ (entry[b].mode = "arena" /\ Post(c))
    BY DEF Unlock
  <1>3. CASE queue' = queue
    BY <1>1, <1>3, QuietStep
  <1>4. CASE entry[b].mode = "arena" /\ Post(c) /\ active
    <2>1. /\ 1 \in 0 .. Pieces /\ entry[b].block \in Block /\ entry[b].disc \in BOOLEAN
          /\ arena[entry[b].block] \in Value
      BY <1>1, <1>4, FramesAssumption DEF Locks, Store, FramesAssumption
    <2>2. c \in Command /\ Meaning(c, arena) = Call("upload", b, 1, arena[entry[b].block], entry[b].disc)
      BY <2>1 DEF Command, Meaning
    <2>3. Meaning(c, arena') \in Calls
      BY <1>1, <2>1, <2>2, UploadCallType DEF Control
    <2>4. Post(c)
      BY <1>4
    <2> HIDE DEF c
    <2>5. queue' = Append(queue, c)
      BY <1>1, <1>4, <2>4 DEF Post
    <2> QED
      BY <1>1, <1>4, <2>2, <2>3, <2>5, EnqueueStep DEF Kept
  <1> QED
    BY <1>1, <1>2, <1>3, <1>4, DeadPost

LEMMA PiecePromise ==
    ASSUME FramesInv, Arenas, Closed, Piece
    PROVE  Kept
  <1>1. /\ QueueOK(queue) /\ Control /\ Store /\ Job /\ (dead => ~active)
        /\ mpc = "pieces" /\ UNCHANGED <<active, device>>
    BY DEF FramesInv, Types, Off, Piece, liveVars
  <1>2. CASE ~(used < ArenaBlocks)
    <2>1. UNCHANGED <<queue, arena>>
      BY <1>2 DEF Piece
    <2> QED
      BY <1>1, <2>1, QuietStep
  <1>3. CASE used < ArenaBlocks /\ active
    <2> DEFINE c == [op |-> "upload", buf |-> job.buf, piece |-> job.piece,
                     block |-> <<cur, used + 1>>, disc |-> Discards]
               v == shadow[job.buf][job.piece]
    <2>1. arena' = [arena EXCEPT ![<<cur, used + 1>>] = v] /\ Post(c)
      BY <1>3 DEF Piece
    <2>2. /\ job.buf \in Buffers /\ job.piece \in 0 .. Pieces /\ v \in Value /\ Discards \in BOOLEAN
          /\ <<cur, used + 1>> \in Block
      BY <1>1, <1>3, PieceValue, NextBlock
    <2>3. arena'[<<cur, used + 1>>] = v
      BY <1>1, <2>1, <2>2 DEF Store
    <2>4. c \in Command /\ Meaning(c, arena') = Call("upload", job.buf, job.piece, v, Discards)
      BY <2>2, <2>3 DEF Command, Meaning
    <2>5. Meaning(c, arena') \in Calls
      BY <1>1, <2>2, <2>4, UploadCallType DEF Control
    <2> HIDE DEF c, v
    <2>6. queue' = Append(queue, c)
      BY <1>1, <1>3, <2>1 DEF Post
    <2>7. \A k \in 1 .. Len(queue) : queue[k].op = "upload" =>
            arena'[queue[k].block] = arena[queue[k].block]
      <3> SUFFICES ASSUME NEW k \in 1 .. Len(queue), queue[k].op = "upload"
                   PROVE  arena'[queue[k].block] = arena[queue[k].block]
        OBVIOUS
      <3>1. queue[k].block # <<cur, used + 1>>
        BY <1>3, NextBlockIsFree DEF Arenas
      <3>2. queue[k].block \in Block /\ arena \in [Block -> Value]
        BY <1>1 DEF QueueOK, Store
      <3> QED
        BY <2>1, <3>1, <3>2
    <2> QED
      BY <1>1, <1>3, <2>4, <2>5, <2>6, <2>7, EnqueueStep DEF Kept
  <1> QED
    BY <1>1, <1>2, <1>3, DeadPost

LEMMA CommandPromise ==
    ASSUME FramesInv, PresentQueued \/ \E b \in Buffers : Draw(b)
    PROVE  Kept
  <1>1. QueueOK(queue) /\ Control /\ (dead => ~active) /\ Pieces \in Nat
    BY FramesAssumption DEF FramesInv, Types, Off, FramesAssumption
  <1>2. ASSUME NEW c \in Command, Post(c), c.op # "upload", Meaning(c, arena) \in Calls,
               UNCHANGED <<active, arena, device>>
        PROVE  Kept
    <2>1. CASE active
      <3>1. queue' = Append(queue, c)
        BY <1>1, <1>2, <2>1 DEF Post
      <3> QED
        BY <1>1, <1>2, <2>1, <3>1, EnqueueStep DEF Kept
    <2> QED
      BY <1>2, <2>1, DeadPost
  <1>3. CASE PresentQueued
    <2> DEFINE c == [op |-> "present", buf |-> None, piece |-> 0, block |-> None, disc |-> FALSE]
    <2>1. c \in Command /\ c.op # "upload" /\ Meaning(c, arena) = Plain("present")
      BY <1>1 DEF Command, Meaning, Plain
    <2>2. Post(c) /\ UNCHANGED <<active, arena, device>>
      BY <1>3 DEF PresentQueued, liveVars, arenaVars
    <2> HIDE DEF c
    <2>3. Meaning(c, arena) \in Calls
      BY <2>1, PlainType
    <2> QED
      BY <1>2, <2>1, <2>2, <2>3
  <1>4. ASSUME NEW b \in Buffers, Draw(b)
        PROVE  Kept
    <2> DEFINE c == [op |-> "draw", buf |-> b, piece |-> 0, block |-> None, disc |-> FALSE]
               d == Call("draw", b, 0, None, FALSE)
    <2>1. c \in Command /\ c.op # "upload" /\ Meaning(c, arena) = d
      BY <1>1 DEF Command, Meaning
    <2>2. d \in Calls
      BY <1>1, BufferCallType DEF Control
    <2>3. /\ UNCHANGED <<active, arena>>
          /\ (Post(c) /\ device' = device) \/ (~Live /\ device' = d /\ queue' = queue)
      BY <1>4 DEF Draw, liveVars, arenaVars
    <2> HIDE DEF c, d
    <2>4. CASE Post(c) /\ device' = device
      BY <1>2, <2>1, <2>2, <2>3, <2>4
    <2>5. CASE ~Live /\ device' = d /\ queue' = queue
      BY <1>1, <2>2, <2>3, <2>5, DirectStep, NotLiveFacts DEF Kept
    <2> QED
      BY <2>3, <2>4, <2>5
  <1> QED
    BY <1>3, <1>4

\* The render thread faults: what is queued is lost.
LEMMA FaultPromise ==
    ASSUME Fault
    PROVE  Kept
  <1>1. active /\ active' = FALSE /\ device' = device
    BY DEF Fault
  <1>2. Pending' = <<>> /\ Alive /\ Alive' = FALSE
    BY <1>1, PendingIs DEF Alive
  <1> QED
    BY <1>1, <1>2 DEF Kept, Promise!Next, Promise!Abandon

LEMMA PromiseStep ==
    ASSUME FramesInv, Arenas, Closed, [Next]_vars
    PROVE  Kept
  <1>1. CASE \E b \in Buffers, ro, disc \in BOOLEAN : Lock(b, ro, disc)
    BY <1>1, LockPromise
  <1>2. CASE \E b \in Buffers, v \in Data : Write(b, v)
    BY <1>2, WritePromise
  <1>3. CASE \E b \in Buffers : Unlock(b)
    BY <1>3, UnlockPromise
  <1>4. CASE PresentQueued \/ \E b \in Buffers : Draw(b)
    BY <1>4, CommandPromise
  <1>5. CASE LockReal \/ Place \/ Sync \/ Reset \/ PresentHere
    BY <1>5, HerePromise
  <1>6. CASE Piece
    BY <1>6, PiecePromise
  <1>7. CASE Execute
    BY <1>7, ExecuteStep DEF Kept
  <1>8. CASE Fault
    BY <1>8, FaultPromise
  <1>9. CASE \/ SyncCall \/ ResetCall \/ Lose \/ PresentDirty \/ Switch \/ Throttle \/ Die
             \/ \E wantDirect \in BOOLEAN : PresentEnter(wantDirect)
    <2>1. UNCHANGED <<active, queue, arena, device>>
      BY <1>9 DEF SyncCall, ResetCall, Lose, PresentDirty, Switch, Throttle, Flip, Die, PresentEnter,
                  liveVars, arenaVars
    <2> QED
      BY <2>1, QuietStep DEF FramesInv, Types
  <1>10. CASE UNCHANGED vars
    <2>1. UNCHANGED <<active, queue, arena, device>>
      BY <1>10 DEF vars, liveVars, arenaVars
    <2> QED
      BY <2>1, QuietStep DEF FramesInv, Types
  <1> QED
    BY <1>1, <1>2, <1>3, <1>4, <1>5, <1>6, <1>7, <1>8, <1>9, <1>10 DEF Next, MainStep

\* The device receives every call in the client's order, an upload with the data
\* the client had written when it unlocked the buffer, wherever each lock is
\* closed before the next Present.  Two arenas are enough for one frame in
\* flight, which is kMaxFramesInFlight (FrameArena, T_BufUnlock, T_Present,
\* Throttle).
THEOREM CallsCorrect ==
    ASSUME MaxFramesInFlight = 1
    PROVE  Spec => CallOrder
  <1>1. Init => Arenas
    BY ArenasInit
  <1>2. FramesInv /\ FramesInv' /\ Arenas /\ [Next]_vars => Arenas'
    BY ArenasStep
  <1>3. Init => (Closed => Promise!Init)
    <2> SUFFICES ASSUME Init
                 PROVE  Promise!Init
      OBVIOUS
    <2>1. queue = <<>> /\ device = None /\ active = TRUE
      BY DEF Init
    <2>2. Meanings(<<>>, arena) = <<>>
      BY DEF Meanings
    <2>3. Pending = <<>>
      BY <2>1, <2>2, PendingIs
    <2> QED
      BY <2>1, <2>3 DEF Promise!Init, Alive
  <1>4. FramesInv /\ Arenas /\ [Next]_vars => [Closed => Promise!Next]_<<Pending, device, Alive>>
    BY PromiseStep DEF Kept
  <1> QED
    BY <1>1, <1>2, <1>3, <1>4, FramesInvHolds, PTL DEF Spec, CallOrder

------------------------------------------------------------------------------
(* What a buffer holds once a queue has run, command by command.              *)

\* The order of the natural numbers.
Less == {p \in Nat \X Nat : p[1] < p[2]}

\* A set of natural numbers that is not empty has a least element.
LEMMA LeastNumber ==
    ASSUME NEW T \in SUBSET Nat, T # {}
    PROVE  \E n \in T : \A m \in T : n <= m
  <1>1. IsWellFoundedOn(Less, Nat)
    <2>1. Less = OpToRel(<, Nat)
      BY Zenon DEF Less, OpToRel
    <2> QED
      BY <2>1, NatLessThanWellFounded
  <1>2. PICK n \in T : \A m \in T : ~(<<m, n>> \in Less)
    BY <1>1, WFMin
  <1>3. ASSUME NEW m \in T
        PROVE  n <= m
    <2>1. <<m, n>> \in Nat \X Nat /\ n \in Nat /\ m \in Nat
      OBVIOUS
    <2>2. ~(m < n)
      BY <1>2, <2>1 DEF Less
    <2> QED
      BY <2>1, <2>2
  <1> QED
    BY <1>2, <1>3

\* One command, for a buffer b of the pieces P that holds r.
Put(P, r, i, v, disc) == [j \in P |-> IF j = i THEN v ELSE IF disc THEN None ELSE r[j]]
Ran(P, b, c, a, r) ==
    IF c.op = "upload" /\ c.buf = b THEN Put(P, r, c.piece, a[c.block], c.disc) ELSE r

\* What it holds after k commands of q, when f is what it held before.
Upto(P, b, q, a, r, f, k) == IF k = 0 THEN r ELSE Ran(P, b, q[k], a, f[k - 1])

After(P, b, q, a, r) ==
    LET f[k \in 0 .. Len(q)] == Upto(P, b, q, a, r, f, k) IN f[Len(q)]

\* f is such a run over the first n commands.
Runs(P, b, q, a, r, f, n) == \A k \in 0 .. n : f[k] = Upto(P, b, q, a, r, f, k)

LEMMA UptoLocal ==
    ASSUME NEW P, NEW b, NEW q, NEW a, NEW r, NEW f, NEW g, NEW k \in Nat, k > 0 => f[k - 1] = g[k - 1]
    PROVE  Upto(P, b, q, a, r, f, k) = Upto(P, b, q, a, r, g, k)
  <1>1. k = 0 \/ k > 0
    OBVIOUS
  <1> QED
    BY <1>1, Zenon DEF Upto

LEMMA UptoExists ==
    ASSUME NEW P, NEW b, NEW q, NEW a, NEW r, NEW n \in Nat
    PROVE  \E f : f = [k \in 0 .. n |-> Upto(P, b, q, a, r, f, k)]
  <1> DEFINE U(f, k) == Upto(P, b, q, a, r, f, k)
  <1>l. ASSUME NEW f, NEW g, NEW k \in Nat, k > 0 => f[k - 1] = g[k - 1]
        PROVE  U(f, k) = U(g, k)
    BY <1>l, UptoLocal, Zenon
  <1>z. \A f : U(f, 0) = r
    BY DEF Upto
  <1> SUFFICES \E f : f = [k \in 0 .. n |-> U(f, k)]
    OBVIOUS
  <1> HIDE DEF U
  <1> DEFINE Good(i) == \E f : f = [k \in 0 .. i |-> U(f, k)]
             Bad == {i \in Nat : ~Good(i)}
  <1> SUFFICES ASSUME Bad # {}
               PROVE  FALSE
    BY Zenon
  <1>1. PICK i \in Bad : \A j \in Bad : i <= j
    BY LeastNumber
  <1>2. CASE i = 0
    <2> DEFINE g == [k \in 0 .. 0 |-> r]
    <2>1. \A k \in 0 .. 0 : U(g, k) = r
      BY <1>z
    <2>2. g = [k \in 0 .. 0 |-> U(g, k)]
      BY <2>1
    <2> QED
      BY <1>2, <2>2
  <1>3. CASE i # 0
    <2>1. i - 1 \in Nat /\ i \in Nat /\ i - 1 < i
      BY <1>3
    <2>2. Good(i - 1)
      BY <1>1, <2>1
    <2>3. PICK g : g = [k \in 0 .. i - 1 |-> U(g, k)]
      BY <2>2
    <2> DEFINE h == [k \in 0 .. i |-> IF k = i THEN U(g, i) ELSE g[k]]
    <2>4. ASSUME NEW k \in 0 .. i
          PROVE  h[k] = U(h, k)
      <3>1. k > 0 => g[k - 1] = h[k - 1]
        BY <2>1
      <3>2. U(g, k) = U(h, k)
        BY <3>1, <1>l
      <3>3. CASE k = i
        BY <3>2, <3>3
      <3>4. CASE k # i
        <4>1. k \in 0 .. i - 1
          BY <2>1, <3>4
        <4>2. g[k] = U(g, k)
          BY <2>3, <4>1, Zenon
        <4> QED
          BY <3>2, <3>4, <4>2
      <3> QED
        BY <3>3, <3>4
    <2>5. h = [k \in 0 .. i |-> U(h, k)]
      BY <2>4
    <2> QED
      BY <2>1, <2>5
  <1> QED
    BY <1>2, <1>3

LEMMA AfterIs ==
    ASSUME NEW P, NEW b, NEW q, NEW a, NEW r, Len(q) \in Nat
    PROVE  \E f : Runs(P, b, q, a, r, f, Len(q)) /\ After(P, b, q, a, r) = f[Len(q)]
  <1> DEFINE IsRun(f) == f = [k \in 0 .. Len(q) |-> Upto(P, b, q, a, r, f, k)]
             run == CHOOSE f : IsRun(f)
  <1>1. After(P, b, q, a, r) = run[Len(q)]
    BY DEF After
  <1>2. \E f : IsRun(f)
    <2>1. PICK f : f = [k \in 0 .. Len(q) |-> Upto(P, b, q, a, r, f, k)]
      BY UptoExists
    <2>2. IsRun(f)
      BY <2>1
    <2> HIDE DEF IsRun
    <2> QED
      BY <2>2, Zenon
  <1>3. IsRun(run)
    <2> HIDE DEF IsRun
    <2> QED
      BY <1>2, Zenon
  <1>4. Runs(P, b, q, a, r, run, Len(q))
    BY <1>3, Zenon DEF Runs
  <1> QED
    BY <1>1, <1>4, Zenon

\* A run goes on by one command.
LEMMA RunStep ==
    ASSUME NEW P, NEW b, NEW q, NEW a, NEW r, NEW f, NEW n \in Nat, Runs(P, b, q, a, r, f, n)
    PROVE  f[0] = r /\ \A k \in 1 .. n : f[k] = Ran(P, b, q[k], a, f[k - 1])
  <1>1. 0 \in 0 .. n /\ \A k \in 1 .. n : k \in 0 .. n /\ k # 0
    OBVIOUS
  <1>2. f[0] = Upto(P, b, q, a, r, f, 0)
    BY <1>1, Zenon DEF Runs
  <1>3. \A k \in 1 .. n : f[k] = Upto(P, b, q, a, r, f, k)
    BY <1>1, Zenon DEF Runs
  <1> QED
    BY <1>1, <1>2, <1>3, Zenon DEF Upto

\* What is equal and stays so is equal at the end.
LEMMA StayEqual ==
    ASSUME NEW n \in Nat, NEW d \in Nat, NEW f, NEW g, f[0] = g[d],
           \A k \in 1 .. n : f[k - 1] = g[(k + d) - 1] => f[k] = g[k + d]
    PROVE  f[n] = g[n + d]
  <1> DEFINE Bad == {k \in Nat : k <= n /\ f[k] # g[k + d]}
  <1> SUFFICES ASSUME Bad # {}
               PROVE  FALSE
    OBVIOUS
  <1>1. PICK k \in Bad : \A j \in Bad : k <= j
    BY LeastNumber
  <1>2. k # 0
    <2>1. 0 + d = d
      OBVIOUS
    <2> QED
      BY <2>1
  <1>3. /\ k - 1 \in Nat /\ k - 1 <= n /\ k - 1 < k /\ k \in 1 .. n
        /\ (k - 1) + d = (k + d) - 1
    BY <1>2
  <1>4. f[k - 1] = g[(k + d) - 1]
    BY <1>1, <1>3
  <1>5. f[k] = g[k + d]
    BY <1>3, <1>4
  <1> QED
    BY <1>5

LEMMA AfterNone == \A P, b, a, r : After(P, b, <<>>, a, r) = r
  <1> SUFFICES ASSUME NEW P, NEW b, NEW a, NEW r
               PROVE  After(P, b, <<>>, a, r) = r
    OBVIOUS
  <1>1. Len(<<>>) = 0
    OBVIOUS
  <1>2. PICK f : /\ Runs(P, b, <<>>, a, r, f, 0)
                 /\ After(P, b, <<>>, a, r) = f[0]
    BY <1>1, AfterIs
  <1>3. f[0] = Upto(P, b, <<>>, a, r, f, 0)
    BY <1>2 DEF Runs
  <1> QED
    BY <1>2, <1>3 DEF Upto

\* A command more.
LEMMA AfterAppend ==
    ASSUME NEW S, NEW q \in Seq(S), NEW c \in S, NEW P, NEW b, NEW a, NEW r
    PROVE  After(P, b, Append(q, c), a, r) = Ran(P, b, c, a, After(P, b, q, a, r))
  <1> DEFINE e == Append(q, c)
             n == Len(q)
  <1>1. n \in Nat /\ Len(e) = n + 1 /\ (\A k \in 1 .. n : e[k] = q[k]) /\ e[n + 1] = c
    OBVIOUS
  <1> HIDE DEF e, n
  <1>2. PICK f : /\ Runs(P, b, q, a, r, f, n)
                 /\ After(P, b, q, a, r) = f[n]
    BY <1>1, AfterIs DEF n
  <1>l. Len(e) \in Nat
    BY <1>1
  <1>g. PICK g : Runs(P, b, e, a, r, g, Len(e)) /\ After(P, b, e, a, r) = g[Len(e)]
    BY <1>l, AfterIs
  <1>3. Runs(P, b, e, a, r, g, n + 1) /\ After(P, b, e, a, r) = g[n + 1]
    BY <1>1, <1>g
  <1>4. f[0] = r /\ \A k \in 1 .. n : f[k] = Ran(P, b, q[k], a, f[k - 1])
    BY <1>1, <1>2, RunStep
  <1>5. g[0] = r /\ \A k \in 1 .. n + 1 : g[k] = Ran(P, b, e[k], a, g[k - 1])
    <2>1. n + 1 \in Nat
      BY <1>1
    <2> QED
      BY <1>3, <2>1, RunStep
  <1>6. f[n] = g[n]
    <2>1. \A k \in 1 .. n : k + 0 = k /\ k \in 1 .. n + 1
      BY <1>1
    <2>2. \A k \in 1 .. n : f[k - 1] = g[(k + 0) - 1] => f[k] = g[k + 0]
      BY <1>1, <1>4, <1>5, <2>1
    <2>3. f[0] = g[0] /\ 0 \in Nat /\ n + 0 = n /\ n \in Nat
      BY <1>1, <1>4, <1>5
    <2>4. f[n] = g[n + 0]
      BY <2>2, <2>3, StayEqual
    <2> QED
      BY <2>3, <2>4
  <1>7. g[n + 1] = Ran(P, b, c, a, g[n])
    <2>1. n + 1 \in 1 .. n + 1 /\ (n + 1) - 1 = n
      BY <1>1
    <2> QED
      BY <1>1, <1>5, <2>1
  <1> QED
    BY <1>2, <1>3, <1>6, <1>7, Zenon DEF e

\* A command fewer.
LEMMA AfterTail ==
    ASSUME NEW S, NEW q \in Seq(S), q # <<>>, NEW P, NEW b, NEW a, NEW r
    PROVE  After(P, b, q, a, r) = After(P, b, Tail(q), a, Ran(P, b, Head(q), a, r))
  <1> DEFINE t == Tail(q)
             n == Len(t)
             s == Ran(P, b, Head(q), a, r)
  <1>1. /\ n \in Nat /\ Len(q) = n + 1 /\ Head(q) = q[1]
        /\ \A k \in 1 .. n : t[k] = q[k + 1]
    <2>1. /\ t \in Seq(S) /\ Len(q) \in Nat \ {0} /\ Len(t) = Len(q) - 1 /\ Head(q) = q[1]
          /\ \A k \in 1 .. Len(q) - 1 : t[k] = q[k + 1]
      OBVIOUS
    <2> QED
      BY <2>1
  <1>r. s = Ran(P, b, q[1], a, r)
    BY <1>1
  <1> HIDE DEF t, n, s
  <1>2. PICK f : /\ Runs(P, b, t, a, s, f, n)
                 /\ After(P, b, t, a, s) = f[n]
    BY <1>1, AfterIs DEF n
  <1>l. Len(q) \in Nat
    BY <1>1
  <1>g. PICK g : Runs(P, b, q, a, r, g, Len(q)) /\ After(P, b, q, a, r) = g[Len(q)]
    BY <1>l, AfterIs
  <1>3. Runs(P, b, q, a, r, g, n + 1) /\ After(P, b, q, a, r) = g[n + 1]
    BY <1>1, <1>g
  <1>4. f[0] = s /\ \A k \in 1 .. n : f[k] = Ran(P, b, t[k], a, f[k - 1])
    BY <1>1, <1>2, RunStep
  <1>5. g[0] = r /\ \A k \in 1 .. n + 1 : g[k] = Ran(P, b, q[k], a, g[k - 1])
    <2>1. n + 1 \in Nat
      BY <1>1
    <2> QED
      BY <1>3, <2>1, RunStep
  <1>6. f[0] = g[1]
    <2>1. 1 \in 1 .. n + 1 /\ 1 - 1 = 0
      BY <1>1
    <2> QED
      BY <1>r, <1>4, <1>5, <2>1
  <1>7. \A k \in 1 .. n : f[k - 1] = g[(k + 1) - 1] => f[k] = g[k + 1]
    <2>1. \A k \in 1 .. n : k + 1 \in 1 .. n + 1
      BY <1>1
    <2> QED
      BY <1>1, <1>4, <1>5, <2>1
  <1>8. f[n] = g[n + 1]
    BY <1>1, <1>6, <1>7, StayEqual
  <1> QED
    BY <1>2, <1>3, <1>8, Zenon DEF s, t

\* The arenas matter where the uploads are.
LEMMA AfterSame ==
    ASSUME NEW S, NEW q \in Seq(S), NEW P, NEW b, NEW a, NEW c, NEW r,
           \A k \in 1 .. Len(q) : q[k].op = "upload" => a[q[k].block] = c[q[k].block]
    PROVE  After(P, b, q, a, r) = After(P, b, q, c, r)
  <1> DEFINE n == Len(q)
  <1>1. n \in Nat
    OBVIOUS
  <1>2. PICK f : /\ Runs(P, b, q, a, r, f, n)
                 /\ After(P, b, q, a, r) = f[n]
    BY <1>1, AfterIs
  <1>3. PICK g : /\ Runs(P, b, q, c, r, g, n)
                 /\ After(P, b, q, c, r) = g[n]
    BY <1>1, AfterIs
  <1>x. \A k \in 1 .. n : \A x : Ran(P, b, q[k], a, x) = Ran(P, b, q[k], c, x)
    BY DEF Ran
  <1> HIDE DEF n
  <1>4. /\ f[0] = r /\ \A k \in 1 .. n : f[k] = Ran(P, b, q[k], a, f[k - 1])
        /\ g[0] = r /\ \A k \in 1 .. n : g[k] = Ran(P, b, q[k], c, g[k - 1])
    BY <1>1, <1>2, <1>3, RunStep
  <1>5. f[n] = g[n]
    <2>1. \A k \in 1 .. n : k + 0 = k
      BY <1>1
    <2>2. \A k \in 1 .. n : f[k - 1] = g[(k + 0) - 1] => f[k] = g[k + 0]
      BY <1>4, <1>x, <2>1
    <2>3. f[0] = g[0] /\ 0 \in Nat /\ n + 0 = n
      BY <1>1, <1>4
    <2>4. f[n] = g[n + 0]
      BY <1>1, <2>2, <2>3, StayEqual
    <2> QED
      BY <2>3, <2>4
  <1> QED
    BY <1>2, <1>3, <1>5

\* Contents stay contents.
LEMMA AfterType ==
    ASSUME NEW S, NEW q \in Seq(S), NEW P, NEW b, NEW a, NEW V, NEW r \in [P -> V], None \in V,
           \A k \in 1 .. Len(q) : q[k].op = "upload" => a[q[k].block] \in V
    PROVE  After(P, b, q, a, r) \in [P -> V]
  <1> DEFINE n == Len(q)
  <1>1. n \in Nat
    OBVIOUS
  <1>2. PICK f : /\ Runs(P, b, q, a, r, f, n)
                 /\ After(P, b, q, a, r) = f[n]
    BY <1>1, AfterIs
  <1>x. \A k \in 1 .. n : \A x \in [P -> V] : Ran(P, b, q[k], a, x) \in [P -> V]
    BY DEF Ran, Put
  <1> HIDE DEF n
  <1> DEFINE Bad == {k \in Nat : k <= n /\ f[k] \notin [P -> V]}
  <1> SUFFICES ASSUME Bad # {}
               PROVE  FALSE
    BY <1>1, <1>2
  <1>3. PICK k \in Bad : \A j \in Bad : k <= j
    BY LeastNumber
  <1>4. f[0] = r /\ \A i \in 1 .. n : f[i] = Ran(P, b, q[i], a, f[i - 1])
    BY <1>1, <1>2, RunStep
  <1>5. k \in 1 .. n /\ k - 1 \in Nat /\ k - 1 <= n /\ k - 1 < k
    BY <1>1, <1>4
  <1>6. f[k - 1] \in [P -> V]
    BY <1>3, <1>5
  <1> QED
    BY <1>4, <1>5, <1>6, <1>x

\* What the buffer will hold, now and after a step.
LEMMA LatestAfter ==
    ASSUME NEW b
    PROVE  /\ Latest(b) = After(PiecesOf(b), b, queue, arena, real[b])
           /\ Latest(b)' = After(PiecesOf(b)', b, queue', arena', real'[b])
  BY DEF Latest, After, Upto, Ran, Put, Uploaded

------------------------------------------------------------------------------
(* The shadows.                                                               *)

\* The queue of a state and the arenas are of the right kind.
LEMMA RunTypes ==
    ASSUME FramesInv, NEW b \in Buffers
    PROVE  /\ queue \in Seq(Command) /\ Len(queue) \in Nat
           /\ \A k \in 1 .. Len(queue) : queue[k].op = "upload" => arena[queue[k].block] \in Value
           /\ real[b] \in [PiecesOf(b) -> Value] /\ None \in Value
  BY DEF FramesInv, Types, QueueOK, Store, Contents, Value

LEMMA LatestType ==
    ASSUME FramesInv, NEW b \in Buffers
    PROVE  Latest(b) \in [PiecesOf(b) -> Value]
  <1>1. Latest(b) = After(PiecesOf(b), b, queue, arena, real[b])
    BY LatestAfter
  <1> QED
    BY <1>1, RunTypes, AfterType

\* A step that leaves the queue, the blocks in it and the buffer alone.
LEMMA LatestKept ==
    ASSUME FramesInv, NEW b \in Buffers, scenario' = scenario, queue' = queue, real'[b] = real[b],
           \A k \in 1 .. Len(queue) :
             queue[k].op = "upload" => arena'[queue[k].block] = arena[queue[k].block]
    PROVE  Latest(b)' = Latest(b)
  <1>1. PiecesOf(b)' = PiecesOf(b) /\ queue \in Seq(Command)
    BY SameScenario, RunTypes
  <1>2. \A r : After(PiecesOf(b), b, queue, arena', r) = After(PiecesOf(b), b, queue, arena, r)
    BY <1>1, AfterSame
  <1> QED
    BY <1>1, <1>2, LatestAfter

\* A command enters the queue.
LEMMA LatestPosted ==
    ASSUME FramesInv, NEW b \in Buffers, scenario' = scenario, real'[b] = real[b],
           NEW c \in Command, queue' = Append(queue, c),
           \A k \in 1 .. Len(queue) :
             queue[k].op = "upload" => arena'[queue[k].block] = arena[queue[k].block]
    PROVE  Latest(b)' = Ran(PiecesOf(b), b, c, arena', Latest(b))
  <1>1. PiecesOf(b)' = PiecesOf(b) /\ queue \in Seq(Command)
    BY SameScenario, RunTypes
  <1>2. \A r : After(PiecesOf(b), b, queue, arena', r) = After(PiecesOf(b), b, queue, arena, r)
    BY <1>1, AfterSame
  <1>3. \A r : After(PiecesOf(b), b, Append(queue, c), arena', r)
                 = Ran(PiecesOf(b), b, c, arena', After(PiecesOf(b), b, queue, arena', r))
    BY <1>1, AfterAppend
  <1>4. /\ Latest(b) = After(PiecesOf(b), b, queue, arena, real[b])
        /\ Latest(b)' = After(PiecesOf(b), b, Append(queue, c), arena', real[b])
    BY <1>1, LatestAfter
  <1> QED
    BY <1>2, <1>3, <1>4

\* The oldest command is executed: what the buffer will hold stays.
LEMMA LatestExecuted ==
    ASSUME FramesInv, NEW b \in Buffers, Execute
    PROVE  Latest(b)' = Latest(b)
  <1> DEFINE c == Head(queue)
  <1>1. /\ queue # <<>> /\ queue' = Tail(queue) /\ scenario' = scenario /\ arena' = arena
        /\ real' = IF c.op = "upload"
                   THEN [real EXCEPT ![c.buf] =
                           Uploaded(c.buf, real[c.buf], c.piece, arena[c.block], c.disc)]
                   ELSE real
    BY DEF Execute, arenaVars
  <1>2. PiecesOf(b)' = PiecesOf(b) /\ queue \in Seq(Command) /\ DOMAIN real = Buffers
    BY <1>1, SameScenario, RunTypes DEF FramesInv, Types, Store
  <1>3. real'[b] = Ran(PiecesOf(b), b, c, arena, real[b])
    <2>1. CASE c.op = "upload" /\ c.buf = b
      <3>1. real'[b] = Uploaded(b, real[b], c.piece, arena[c.block], c.disc)
        BY <1>1, <1>2, <2>1
      <3> QED
        BY <2>1, <3>1 DEF Ran, Put, Uploaded
    <2>2. CASE ~(c.op = "upload" /\ c.buf = b)
      <3>1. real'[b] = real[b]
        BY <1>1, <1>2, <2>2
      <3> QED
        BY <2>2, <3>1 DEF Ran
    <2> QED
      BY <2>1, <2>2
  <1>4. \A r : After(PiecesOf(b), b, queue, arena, r)
                 = After(PiecesOf(b), b, Tail(queue), arena, Ran(PiecesOf(b), b, c, arena, r))
    BY <1>1, <1>2, AfterTail
  <1> QED
    BY <1>1, <1>2, <1>3, <1>4, LatestAfter

\* The main thread is in the upload of buffer b.
Uploading(b) == mpc \in {"pieces", "place"} /\ job.buf = b

\* What holds of a readable buffer: it is never under a real lock, and its shadow,
\* once it has one, is what the buffer will hold, save for what the client is
\* writing and for the pieces not uploaded yet.
Copy(b) ==
    /\ b \notin realLock /\ (mpc = "lock" => job.buf # b) /\ entry[b].mode # "arena"
    /\ shadow[b] = None => Latest(b) = [i \in PiecesOf(b) |-> Zero]
    /\ Uploading(b) => /\ entry[b].mode = "none"
                       /\ \A j \in PiecesOf(b) : j < job.piece => Latest(b)[j] = shadow[b][j]
    /\ ~Uploading(b) /\ shadow[b] # None /\ (entry[b].mode = "none" \/ entry[b].ro)
         => Latest(b) = shadow[b]

Copies == active => \A b \in Buffers : Class[b] = "shadow" => Copy(b)

\* Drains do not give up, and the client's calls are queued and its locks closed
\* within the frame, wherever there is a readable buffer.
Disturbing == {"giveup", "switch", "span"}

\* A readable buffer in an undisturbed session, queueing.
Safe(b) == /\ FramesInv /\ Parted /\ Own /\ active /\ Allowed \cap Disturbing = {}
           /\ b \in Buffers /\ Class[b] = "shadow" /\ Copy(b)

LEMMA SafeFacts ==
    ASSUME NEW b, Safe(b)
    PROVE  /\ Live /\ ~dead /\ (Drained => queue = <<>>) /\ b \in Buffers
           /\ PiecesOf(b) = 1 .. Pieces /\ Pieces \in Nat \ {0} /\ None \notin Contents(b)
           /\ shadow[b] \in Contents(b) \cup {None}
           /\ (entry[b].mode = "shadow" \/ Uploading(b) => shadow[b] # None)
           /\ Latest(b) \in [PiecesOf(b) -> Value]
  <1>1. FramesInv /\ active /\ b \in Buffers /\ Class[b] = "shadow" /\ "switch" \notin Allowed
        /\ "giveup" \notin Allowed
    BY DEF Safe, Disturbing
  <1>2. Live /\ ~dead
    BY <1>1 DEF FramesInv, Off, Live
  <1>3. PiecesOf(b) = 1 .. Pieces /\ Pieces \in Nat \ {0} /\ None \notin Contents(b)
    BY <1>1, FramesAssumption DEF FramesAssumption, PiecesOf, Contents
  <1>4. shadow[b] \in Contents(b) \cup {None} /\ (entry[b].mode = "shadow" => shadow[b] \in Contents(b))
    BY <1>1 DEF FramesInv, Types, Store, Locks
  <1>5. Uploading(b) => shadow[b] \in Contents(b)
    BY <1>1 DEF FramesInv, Types, Job, Uploading
  <1>6. Latest(b) \in [PiecesOf(b) -> Value]
    BY <1>1, LatestType
  <1> QED
    BY <1>1, <1>2, <1>3, <1>4, <1>5, <1>6 DEF Drained

\* A step that is none of this buffer's.
LEMMA CopyKept ==
    ASSUME NEW b, Safe(b), scenario' = scenario, entry'[b] = entry[b], shadow'[b] = shadow[b],
           Latest(b)' = Latest(b), b \notin realLock', mpc' = "lock" => job'.buf # b,
           \/ mpc' = mpc /\ job' = job
           \/ ~Uploading(b) /\ ~(mpc' \in {"pieces", "place"} /\ job'.buf = b)
    PROVE  Copy(b)'
  <1>1. PiecesOf(b)' = PiecesOf(b) /\ Copy(b)
    BY SameScenario DEF Safe
  <1>2. Uploading(b)' <=> Uploading(b)
    BY DEF Uploading
  <1>3. Uploading(b) => job' = job
    OBVIOUS
  <1> QED
    BY <1>1, <1>2, <1>3 DEF Copy

\* Steps that leave buffers, arenas and the ring alone.
LEMMA QuietCopy ==
    ASSUME NEW b, Safe(b),
           \/ LockReal \/ SyncCall \/ Sync \/ ResetCall \/ Reset \/ Lose \/ Switch
           \/ PresentHere \/ PresentDirty \/ Throttle \/ Fault \/ Die
           \/ \E wantDirect \in BOOLEAN : PresentEnter(wantDirect)
           \/ UNCHANGED vars
    PROVE  Copy(b)'
  <1>0. FramesInv /\ b \in Buffers /\ b \notin realLock /\ (mpc = "lock" => job.buf # b)
    BY DEF Safe, Copy
  <1>1. CASE LockReal
    <2>1. /\ mpc = "lock" /\ mpc' = "idle" /\ realLock' = realLock \cup {job.buf}
          /\ UNCHANGED <<scenario, queue, arena, entry, shadow, real>>
      BY <1>1 DEF LockReal, arenaVars
    <2>2. Latest(b)' = Latest(b)
      BY <1>0, <2>1, LatestKept
    <2> QED
      BY <1>0, <2>1, <2>2, CopyKept DEF Uploading
  <1>2. CASE \/ SyncCall \/ Sync \/ ResetCall \/ Reset \/ Lose \/ Switch
             \/ PresentHere \/ PresentDirty \/ Throttle \/ Fault \/ Die
             \/ \E wantDirect \in BOOLEAN : PresentEnter(wantDirect)
             \/ UNCHANGED vars
    <2>1. /\ UNCHANGED <<scenario, queue, arena, job, real, entry, shadow, realLock>>
          /\ \/ mpc' = mpc
             \/ mpc \notin {"pieces", "place"} /\ mpc' \notin {"pieces", "place", "lock"}
      <3>1. CASE SyncCall \/ Sync \/ ResetCall \/ Reset \/ Lose \/ Switch
        BY <3>1 DEF SyncCall, Sync, ResetCall, Reset, Lose, Switch, arenaVars, lockVars, mainVars
      <3>2. CASE PresentHere \/ PresentDirty \/ Throttle \/ Fault \/ Die
        BY <3>2 DEF PresentHere, PresentDirty, Throttle, Fault, Die, arenaVars, lockVars, mainVars
      <3>3. CASE \E wantDirect \in BOOLEAN : PresentEnter(wantDirect)
        BY <3>3 DEF PresentEnter, arenaVars, lockVars
      <3>4. CASE UNCHANGED vars
        BY <3>4 DEF vars, arenaVars, lockVars, mainVars
      <3> QED
        BY <1>2, <3>1, <3>2, <3>3, <3>4
    <2>2. Latest(b)' = Latest(b)
      BY <1>0, <2>1, LatestKept
    <2> QED
      BY <1>0, <2>1, <2>2, CopyKept DEF Uploading
  <1> QED
    BY <1>1, <1>2

\* A command that is no upload enters the ring, or one leaves it.
LEMMA CommandCopy ==
    ASSUME NEW b, Safe(b), PresentQueued \/ Execute \/ \E d \in Buffers : Draw(d)
    PROVE  Copy(b)'
  <1>0. /\ FramesInv /\ b \in Buffers /\ b \notin realLock /\ (mpc = "lock" => job.buf # b)
        /\ ~dead /\ Live
    BY SafeFacts DEF Safe, Copy
  <1>1. CASE Execute
    <2>1. UNCHANGED <<scenario, mpc, job, entry, shadow, realLock>>
      BY <1>1 DEF Execute, mainVars, lockVars
    <2>2. Latest(b)' = Latest(b)
      BY <1>0, <1>1, LatestExecuted
    <2> QED
      BY <1>0, <2>1, <2>2, CopyKept
  <1>2. ASSUME NEW c \in Command, c.op # "upload", Post(c), mpc \in {"idle", "present"},
               mpc' \in {"idle", "throttle"}, UNCHANGED <<scenario, arena, job, real, entry, shadow, realLock>>
        PROVE  Copy(b)'
    <2>1. queue' = Append(queue, c)
      BY <1>0, <1>2 DEF Post
    <2>2. Latest(b)' = Ran(PiecesOf(b), b, c, arena', Latest(b))
      BY <1>0, <1>2, <2>1, LatestPosted
    <2>3. Latest(b)' = Latest(b)
      BY <1>2, <2>2 DEF Ran
    <2> QED
      BY <1>0, <1>2, <2>3, CopyKept DEF Uploading
  <1>3. CASE PresentQueued
    <2> DEFINE c == [op |-> "present", buf |-> None, piece |-> 0, block |-> None, disc |-> FALSE]
    <2>1. c \in Command /\ c.op # "upload"
      BY FramesAssumption DEF Command, FramesAssumption
    <2>2. Post(c) /\ mpc = "present" /\ mpc' = "throttle"
          /\ UNCHANGED <<scenario, arena, job, real, entry, shadow, realLock>>
      BY <1>3 DEF PresentQueued, arenaVars, lockVars
    <2> HIDE DEF c
    <2> QED
      BY <1>2, <2>1, <2>2
  <1>4. ASSUME NEW d \in Buffers, Draw(d)
        PROVE  Copy(b)'
    <2> DEFINE c == [op |-> "draw", buf |-> d, piece |-> 0, block |-> None, disc |-> FALSE]
    <2>1. c \in Command /\ c.op # "upload"
      BY FramesAssumption DEF Command, FramesAssumption
    <2>2. Post(c) /\ mpc = "idle" /\ mpc' = "idle"
          /\ UNCHANGED <<scenario, arena, job, real, entry, shadow, realLock>>
      BY <1>0, <1>4 DEF Draw, mainVars, arenaVars, lockVars
    <2> HIDE DEF c
    <2> QED
      BY <1>2, <2>1, <2>2
  <1> QED
    BY <1>1, <1>3, <1>4

\* The client writes: no block that is queued, and its own shadow only.
LEMMA WriteCopy ==
    ASSUME NEW b, Safe(b), NEW d \in Buffers, NEW v \in Data, Write(d, v)
    PROVE  Copy(b)'
  <1>0. /\ FramesInv /\ Own /\ b \in Buffers /\ b \notin realLock /\ entry[b].mode # "arena"
        /\ None \notin Contents(b) /\ DOMAIN shadow = Buffers /\ DOMAIN real = Buffers
    BY SafeFacts DEF Safe, Copy, FramesInv, Types, Store
  <1>1. /\ mpc = "idle" /\ UNCHANGED <<scenario, mpc, job, queue, entry, realLock>>
        /\ (entry[d].mode # "none" \/ d \in realLock) /\ ~entry[d].ro
        /\ entry[d].mode \in {"none", "arena", "shadow"}
    BY DEF Write, mainVars, Locked, FramesInv, Types, Locks, Safe
  <1>2. CASE entry[d].mode = "arena"
    <2>1. arena' = [arena EXCEPT ![entry[d].block] = v] /\ UNCHANGED <<shadow, real>>
      BY <1>2 DEF Write
    <2>2. \A k \in 1 .. Len(queue) : queue[k].op = "upload" => queue[k].block # entry[d].block
      BY <1>0, <1>2 DEF Own
    <2>3. \A k \in 1 .. Len(queue) :
             queue[k].op = "upload" => arena'[queue[k].block] = arena[queue[k].block]
      BY <1>0, <2>1, <2>2 DEF FramesInv, Types, Store, QueueOK
    <2>4. Latest(b)' = Latest(b)
      BY <1>0, <1>1, <2>1, <2>3, LatestKept
    <2> QED
      BY <1>0, <1>1, <2>1, <2>4, CopyKept
  <1>3. CASE entry[d].mode = "shadow"
    <2>1. shadow' = [shadow EXCEPT ![d] = [i \in PiecesOf(d) |-> v]] /\ UNCHANGED <<arena, real>>
      BY <1>3 DEF Write
    <2>2. Latest(b)' = Latest(b)
      BY <1>0, <1>1, <2>1, LatestKept
    <2>3. CASE d # b
      <3>1. shadow'[b] = shadow[b]
        BY <1>0, <2>1, <2>3
      <3> QED
        BY <1>0, <1>1, <2>2, <3>1, CopyKept
    <2>4. CASE d = b
      <3>1. shadow'[b] \in Contents(b)
        BY <1>0, <2>1, <2>4 DEF Contents
      <3> QED
        BY <1>0, <1>1, <1>3, <2>2, <2>4, <3>1 DEF Copy, Uploading
    <2> QED
      BY <2>3, <2>4
  <1>4. CASE entry[d].mode = "none"
    <2>1. real' = [real EXCEPT ![d] = [i \in PiecesOf(d) |-> v]] /\ UNCHANGED <<arena, shadow>>
      BY <1>4 DEF Write
    <2>2. d # b
      BY <1>0, <1>1, <1>4
    <2>3. real'[b] = real[b]
      BY <1>0, <2>1, <2>2
    <2>4. Latest(b)' = Latest(b)
      BY <1>0, <1>1, <2>1, <2>3, LatestKept
    <2> QED
      BY <1>0, <1>1, <2>1, <2>4, CopyKept
  <1> QED
    BY <1>1, <1>2, <1>3, <1>4

\* What a lock answered with the shadow of b shows.
LEMMA LockShows ==
    ASSUME NEW b, Safe(b), NEW d \in Buffers, NEW ro \in BOOLEAN, NEW disc \in BOOLEAN, Lock(d, ro, disc)
    PROVE  /\ Copy(b)'
           /\ entry[b].mode = "none" /\ entry'[b].mode = "shadow" => shadow'[b] = Latest(b)
  <1>0. /\ FramesInv /\ Live /\ b \in Buffers /\ b \notin realLock /\ Class[b] = "shadow" /\ Copy(b)
        /\ None \notin Contents(b) /\ DOMAIN shadow = Buffers /\ DOMAIN entry = Buffers
    BY SafeFacts DEF Safe, Copy, FramesInv, Types, Store, Locks
  <1>1. /\ mpc = "idle" /\ entry[d].mode = "none"
        /\ UNCHANGED <<scenario, queue, real>>
    BY DEF Lock, Locked
  <1>2. CASE /\ Class[d] \in {"sync", "direct"} /\ mpc' = "lock" /\ job' = [NoJob EXCEPT !.buf = d]
             /\ UNCHANGED <<arena, entry, shadow, realLock>>
    <2>1. d # b /\ job'.buf = d
      BY <1>0, <1>2 DEF NoJob
    <2>2. Latest(b)' = Latest(b)
      BY <1>0, <1>1, <1>2, LatestKept
    <2>3. Copy(b)'
      BY <1>0, <1>1, <1>2, <2>1, <2>2, CopyKept DEF Uploading
    <2> QED
      BY <1>2, <2>3
  <1>3. CASE /\ Class[d] = "direct"
             /\ \E e : entry' = [entry EXCEPT ![d] = e]
             /\ UNCHANGED <<mpc, job, arena, shadow, realLock>>
    <2>1. d # b /\ entry'[b] = entry[b]
      BY <1>0, <1>3
    <2>2. Latest(b)' = Latest(b)
      BY <1>0, <1>1, <1>3, LatestKept
    <2>3. Copy(b)'
      BY <1>0, <1>1, <1>3, <2>1, <2>2, CopyKept
    <2> QED
      BY <2>1, <2>3
  <1>4. CASE /\ shadow' = IF shadow[d] = None
                          THEN [shadow EXCEPT ![d] = [i \in PiecesOf(d) |-> Zero]]
                          ELSE shadow
             /\ entry' = [entry EXCEPT ![d] = [mode |-> "shadow", block |-> None,
                                               ro |-> ro, disc |-> disc]]
             /\ UNCHANGED <<mpc, job, arena, realLock>>
    <2>1. Latest(b)' = Latest(b)
      BY <1>0, <1>1, <1>4, LatestKept
    <2>2. CASE d # b
      <3>1. shadow'[b] = shadow[b] /\ entry'[b] = entry[b]
        BY <1>0, <1>4, <2>2
      <3>2. Copy(b)'
        BY <1>0, <1>1, <1>4, <2>1, <3>1, CopyKept
      <3> QED
        BY <3>1, <3>2
    <2>3. CASE d = b
      <3>1. ~Uploading(b)
        BY <1>1 DEF Uploading
      <3>2. shadow'[b] = Latest(b)
        <4>1. CASE shadow[b] = None
          BY <1>0, <1>4, <2>3, <4>1 DEF Copy
        <4>2. CASE shadow[b] # None
          BY <1>0, <1>1, <1>4, <2>3, <3>1, <4>2 DEF Copy
        <4> QED
          BY <4>1, <4>2
      <3>3. shadow'[b] # None
        <4>1. [i \in PiecesOf(b) |-> Zero] \in Contents(b)
          BY DEF Contents
        <4> QED
          BY <1>0, <1>4, <2>3, <4>1
      <3>4. entry'[b].mode = "shadow"
        BY <1>0, <1>4, <2>3
      <3>5. ~Uploading(b)' /\ mpc' # "lock"
        BY <1>1, <1>4 DEF Uploading
      <3>6. Copy(b)'
        BY <1>0, <1>4, <2>1, <3>2, <3>3, <3>4, <3>5 DEF Copy
      <3> QED
        BY <3>2, <3>6
    <2> QED
      BY <2>2, <2>3
  <1>5. \/ /\ Class[d] \in {"sync", "direct"} /\ mpc' = "lock" /\ job' = [NoJob EXCEPT !.buf = d]
           /\ UNCHANGED <<arena, entry, shadow, realLock>>
        \/ /\ Class[d] = "direct"
           /\ \E e : entry' = [entry EXCEPT ![d] = e]
           /\ UNCHANGED <<mpc, job, arena, shadow, realLock>>
        \/ /\ shadow' = IF shadow[d] = None
                        THEN [shadow EXCEPT ![d] = [i \in PiecesOf(d) |-> Zero]]
                        ELSE shadow
           /\ entry' = [entry EXCEPT ![d] = [mode |-> "shadow", block |-> None,
                                             ro |-> ro, disc |-> disc]]
           /\ UNCHANGED <<mpc, job, arena, realLock>>
    BY <1>0, Zenon DEF Lock, mainVars, arenaVars, lockVars
  <1> QED
    BY <1>2, <1>3, <1>4, <1>5

LEMMA UnlockCopy ==
    ASSUME NEW b, Safe(b), NEW d \in Buffers, Unlock(d)
    PROVE  Copy(b)'
  <1>0. /\ FramesInv /\ Live /\ ~dead /\ b \in Buffers /\ b \notin realLock /\ Copy(b)
        /\ entry[b].mode # "arena" /\ DOMAIN entry = Buffers
        /\ (entry[b].mode = "shadow" => shadow[b] # None)
        /\ \A x \in Buffers : entry[x].mode \in {"none", "arena", "shadow"}
    BY SafeFacts DEF Safe, Copy, FramesInv, Types, Locks
  <1>1. /\ mpc = "idle" /\ (entry[d].mode # "none" \/ d \in realLock)
        /\ UNCHANGED <<scenario, arena, shadow, real>>
    BY DEF Unlock, Locked, arenaVars
  <1>2. CASE entry[d].mode = "none"
    <2>1. realLock' = realLock \ {d} /\ UNCHANGED <<mpc, job, queue, entry>>
      BY <1>2 DEF Unlock, mainVars
    <2>2. Latest(b)' = Latest(b)
      BY <1>0, <1>1, <2>1, LatestKept
    <2> QED
      BY <1>0, <1>1, <2>1, <2>2, CopyKept
  <1>3. CASE entry[d].mode # "none"
    <2>1. /\ entry' = [entry EXCEPT ![d] = NoLock] /\ realLock' = realLock
          /\ IF entry[d].ro
             THEN UNCHANGED <<mpc, job, queue>>
             ELSE IF entry[d].mode = "arena"
             THEN /\ Post([op |-> "upload", buf |-> d, piece |-> 1,
                           block |-> entry[d].block, disc |-> entry[d].disc])
                  /\ UNCHANGED <<mpc, job>>
             ELSE /\ mpc' = "pieces"
                  /\ job' = [buf |-> d, piece |-> 1, disc |-> entry[d].disc]
                  /\ UNCHANGED queue
      BY <1>0, <1>3 DEF Unlock, mainVars
    <2>2. CASE d # b
      <3>1. entry'[b] = entry[b]
        BY <1>0, <2>1, <2>2
      <3>2. CASE queue' = queue
        <4>1. Latest(b)' = Latest(b)
          BY <1>0, <1>1, <3>2, LatestKept
        <4>2. mpc' # "lock" /\ ~Uploading(b) /\ ~(mpc' \in {"pieces", "place"} /\ job'.buf = b)
          BY <1>1, <2>1, <2>2 DEF Uploading
        <4> QED
          BY <1>0, <1>1, <2>1, <3>1, <4>1, <4>2, CopyKept
      <3>3. CASE /\ ~entry[d].ro /\ entry[d].mode = "arena" /\ UNCHANGED <<mpc, job>>
                 /\ Post([op |-> "upload", buf |-> d, piece |-> 1,
                          block |-> entry[d].block, disc |-> entry[d].disc])
        <4> DEFINE c == [op |-> "upload", buf |-> d, piece |-> 1,
                         block |-> entry[d].block, disc |-> entry[d].disc]
        <4>1. c \in Command /\ c.buf # b
          <5>1. /\ entry[d].disc \in BOOLEAN /\ entry[d].block \in Block
                /\ Pieces \in Nat \ {0}
            BY <1>0, <3>3, FramesAssumption DEF FramesInv, Types, Locks, FramesAssumption
          <5> QED
            BY <2>2, <5>1 DEF Command
        <4>2. queue' = Append(queue, c)
          BY <1>0, <3>3 DEF Post
        <4> HIDE DEF c
        <4>3. Latest(b)' = Ran(PiecesOf(b), b, c, arena', Latest(b))
          BY <1>0, <1>1, <4>1, <4>2, LatestPosted
        <4>4. Latest(b)' = Latest(b)
          BY <4>1, <4>3 DEF Ran
        <4> QED
          BY <1>0, <1>1, <2>1, <3>1, <3>3, <4>4, CopyKept
      <3> QED
        BY <2>1, <3>2, <3>3
    <2>3. CASE d = b
      <3>1. entry[b].mode = "shadow" /\ entry'[b].mode = "none" /\ shadow[b] # None /\ ~Uploading(b)
        BY <1>0, <1>1, <1>3, <2>1, <2>3 DEF NoLock, Uploading
      <3>2. queue' = queue
        BY <2>1, <2>3, <3>1
      <3>3. Latest(b)' = Latest(b)
        BY <1>0, <1>1, <3>2, LatestKept
      <3>4. CASE entry[b].ro
        <4>1. UNCHANGED <<mpc, job>> /\ Latest(b) = shadow[b]
          BY <1>0, <2>1, <2>3, <3>1, <3>4 DEF Copy
        <4> QED
          BY <1>0, <1>1, <2>1, <3>1, <3>3, <4>1 DEF Copy, Uploading
      <3>5. CASE ~entry[b].ro
        <4>1. mpc' = "pieces" /\ job' = [buf |-> b, piece |-> 1, disc |-> entry[b].disc]
          BY <2>1, <2>3, <3>1, <3>5
        <4>2. \A j \in PiecesOf(b)' : ~(j < job'.piece)
          <5>1. PiecesOf(b)' = 1 .. Pieces /\ Pieces \in Nat
            BY <1>1, SameScenario, SafeFacts
          <5> QED
            BY <4>1, <5>1
        <4>3. Uploading(b)'
          BY <4>1 DEF Uploading
        <4> QED
          BY <1>0, <1>1, <2>1, <3>1, <4>1, <4>2, <4>3 DEF Copy
      <3> QED
        BY <3>4, <3>5
    <2> QED
      BY <2>2, <2>3
  <1> QED
    BY <1>2, <1>3

\* A piece of the shadow is uploaded, and the loop goes on.
LEMMA UploadNext ==
    ASSUME NEW b, Safe(b), Uploading(b), NextPiece, UNCHANGED <<scenario, entry, shadow, realLock>>,
           Latest(b)' = Put(PiecesOf(b), Latest(b), job.piece, shadow[b][job.piece], Discards)
    PROVE  Copy(b)'
  <1>1. /\ PiecesOf(b) = 1 .. Pieces /\ Pieces \in Nat \ {0} /\ PiecesOf(b)' = PiecesOf(b)
        /\ shadow[b] \in Contents(b) /\ shadow[b] # None
        /\ Latest(b) \in [PiecesOf(b) -> Value]
        /\ Copy(b) /\ entry[b].mode = "none" /\ b \notin realLock
        /\ \A j \in PiecesOf(b) : j < job.piece => Latest(b)[j] = shadow[b][j]
    BY SafeFacts, SameScenario DEF Safe, Copy
  <1>2. job.piece \in PiecesOf(b) /\ job.buf = b /\ mpc \in {"pieces", "place"}
    BY DEF Uploading, Safe, FramesInv, Types, Job
  <1>3. \A j \in PiecesOf(b) : j <= job.piece => Latest(b)'[j] = shadow[b][j]
    <2> SUFFICES ASSUME NEW j \in PiecesOf(b), j <= job.piece
                 PROVE  Latest(b)'[j] = shadow[b][j]
      OBVIOUS
    <2>1. Latest(b)'[j] = IF j = job.piece THEN shadow[b][job.piece]
                          ELSE IF Discards THEN None ELSE Latest(b)[j]
      BY DEF Put
    <2>2. CASE j = job.piece
      BY <2>1, <2>2
    <2>3. CASE j # job.piece
      <3>1. j < job.piece /\ job.piece # 1
        BY <1>1, <1>2, <2>3
      <3>2. ~Discards
        BY <3>1 DEF Discards
      <3> QED
        BY <1>1, <2>1, <2>3, <3>1, <3>2
    <2> QED
      BY <2>2, <2>3
  <1>4. CASE job.piece = Cardinality(PiecesOf(b))
    <2>1. mpc' = "idle"
      BY <1>2, <1>4 DEF NextPiece
    <2>2. job.piece = Pieces
      BY <1>1, <1>4, FS_Interval
    <2>3. \A j \in PiecesOf(b) : Latest(b)'[j] = shadow[b][j]
      BY <1>1, <1>3, <2>2
    <2>4. Latest(b)' = shadow[b]
      <3>1. Latest(b)' \in [PiecesOf(b) -> Value \cup {shadow[b][job.piece]}]
        BY <1>1 DEF Put, Value
      <3> QED
        BY <1>1, <2>3, <3>1 DEF Contents
    <2> QED
      BY <1>1, <2>1, <2>4 DEF Copy, Uploading
  <1>5. CASE job.piece # Cardinality(PiecesOf(b))
    <2>1. mpc' = "pieces" /\ job' = [job EXCEPT !.piece = job.piece + 1]
      BY <1>2, <1>5 DEF NextPiece
    <2>2. job'.piece = job.piece + 1 /\ job'.buf = b
      BY <1>2, <2>1 DEF Safe, FramesInv, Types, Job
    <2>3. \A j \in PiecesOf(b) : j < job'.piece => Latest(b)'[j] = shadow'[b][j]
      BY <1>1, <1>2, <1>3, <2>2
    <2>4. Uploading(b)'
      BY <2>1, <2>2 DEF Uploading
    <2> QED
      BY <1>1, <2>1, <2>3, <2>4 DEF Copy
  <1> QED
    BY <1>4, <1>5

\* The loop over another buffer's pieces.
LEMMA OtherNext ==
    ASSUME NEW b, Safe(b), mpc \in {"pieces", "place"}, job.buf # b,
           NextPiece \/ (mpc' = "place" /\ job' = job),
           UNCHANGED <<scenario, entry, shadow, realLock>>, Latest(b)' = Latest(b)
    PROVE  Copy(b)'
  <1>1. mpc' # "lock" /\ ~Uploading(b)
    BY DEF NextPiece, Uploading
  <1>2. ~(mpc' \in {"pieces", "place"} /\ job'.buf = b)
    <2>1. mpc' = "idle" \/ job'.buf = job.buf
      BY DEF NextPiece, Safe, FramesInv, Types, Job
    <2> QED
      BY <2>1
  <1>3. b \notin realLock
    BY DEF Safe, Copy
  <1> QED
    BY <1>1, <1>2, <1>3, CopyKept

LEMMA PieceCopy ==
    ASSUME NEW b, Safe(b), Piece \/ Place
    PROVE  Copy(b)'
  <1>0. /\ FramesInv /\ Parted /\ Own /\ ~dead /\ b \in Buffers /\ (Drained => queue = <<>>) /\ Copy(b)
        /\ PiecesOf(b) = 1 .. Pieces /\ Pieces \in Nat
    BY SafeFacts DEF Safe
  <1>1. /\ mpc \in {"pieces", "place"}
        /\ UNCHANGED <<scenario, entry, shadow, realLock>>
    BY DEF Piece, Place, lockVars
  <1>2. /\ job.buf \in Buffers /\ job.piece \in PiecesOf(job.buf) /\ job.piece \in 1 .. Pieces
        /\ shadow[job.buf][job.piece] \in Value /\ Discards \in BOOLEAN
    BY <1>0, <1>1, PieceValue DEF FramesInv, Types
  <1>3. CASE Piece /\ used < ArenaBlocks
    <2> DEFINE c == [op |-> "upload", buf |-> job.buf, piece |-> job.piece,
                     block |-> <<cur, used + 1>>, disc |-> Discards]
               v == shadow[job.buf][job.piece]
    <2>1. arena' = [arena EXCEPT ![<<cur, used + 1>>] = v] /\ Post(c) /\ NextPiece /\ real' = real
      BY <1>3 DEF Piece
    <2>2. <<cur, used + 1>> \in Block /\ DOMAIN arena = Block
      BY <1>0, <1>3, NextBlock DEF FramesInv, Types, Store
    <2>3. c \in Command
      BY <1>0, <1>2, <2>2 DEF Command
    <2>4. /\ c.op = "upload" /\ c.buf = job.buf /\ c.piece = job.piece /\ c.disc = Discards
          /\ arena'[c.block] = v
      BY <2>1, <2>2
    <2>5. queue' = Append(queue, c)
      BY <1>0, <2>1 DEF Post
    <2> HIDE DEF c, v
    <2>6. \A k \in 1 .. Len(queue) :
             queue[k].op = "upload" => arena'[queue[k].block] = arena[queue[k].block]
      BY <1>0, <2>1, <2>2, NextBlockIsFree DEF FramesInv, Types, QueueOK
    <2>7. Latest(b)' = Ran(PiecesOf(b), b, c, arena', Latest(b))
      BY <1>0, <1>1, <2>1, <2>3, <2>5, <2>6, LatestPosted
    <2>8. CASE job.buf = b
      <3>1. Latest(b)' = Put(PiecesOf(b), Latest(b), job.piece, shadow[b][job.piece], Discards)
        BY <2>4, <2>7, <2>8 DEF Ran, v
      <3> QED
        BY <1>1, <2>1, <2>8, <3>1, UploadNext DEF Uploading
    <2>9. CASE job.buf # b
      <3>1. Latest(b)' = Latest(b)
        BY <2>4, <2>7, <2>9 DEF Ran
      <3> QED
        BY <1>1, <2>1, <2>9, <3>1, OtherNext
    <2> QED
      BY <2>8, <2>9
  <1>4. CASE Piece /\ ~(used < ArenaBlocks)
    <2>1. mpc = "pieces" /\ mpc' = "place" /\ UNCHANGED <<job, queue, arena, real>>
      BY <1>4 DEF Piece
    <2>2. Latest(b)' = Latest(b)
      BY <1>0, <1>1, <2>1, LatestKept
    <2>3. CASE job.buf = b
      <3>1. Uploading(b) /\ Uploading(b)' /\ PiecesOf(b)' = PiecesOf(b)
        BY <1>1, <2>1, <2>3, SameScenario DEF Uploading
      <3> QED
        BY <1>0, <1>1, <2>1, <2>2, <3>1 DEF Copy
    <2>4. CASE job.buf # b
      BY <1>1, <2>1, <2>2, <2>4, OtherNext
    <2> QED
      BY <2>3, <2>4
  <1>5. CASE Place
    <2>1. /\ queue = <<>> /\ queue' = queue /\ NextPiece
          /\ real' = [real EXCEPT ![job.buf] = Uploaded(job.buf, real[job.buf], job.piece,
                                                        shadow[job.buf][job.piece], Discards)]
      BY <1>0, <1>5 DEF Place
    <2>2. Latest(b) = real[b] /\ Latest(b)' = real'[b] /\ DOMAIN real = Buffers
      BY <1>0, <2>1, LatestAfter, AfterNone DEF FramesInv, Types, Store
    <2>3. CASE job.buf = b
      <3>1. Latest(b)' = Put(PiecesOf(b), Latest(b), job.piece, shadow[b][job.piece], Discards)
        BY <1>2, <2>1, <2>2, <2>3 DEF Put, Uploaded
      <3> QED
        BY <1>1, <2>1, <2>3, <3>1, UploadNext DEF Uploading
    <2>4. CASE job.buf # b
      <3>1. Latest(b)' = Latest(b)
        BY <1>0, <1>2, <2>1, <2>2, <2>4
      <3> QED
        BY <1>1, <2>1, <2>4, <3>1, OtherNext
    <2> QED
      BY <2>3, <2>4
  <1> QED
    BY <1>3, <1>4, <1>5

LEMMA CopiesInit == Init => Copies
  <1> SUFFICES ASSUME Init, NEW b \in Buffers
               PROVE  Copy(b)
    BY DEF Copies
  <1>1. /\ mpc = "idle" /\ queue = <<>> /\ realLock = {} /\ entry[b] = NoLock /\ shadow[b] = None
        /\ real[b] = [i \in PiecesOf(b) |-> Zero]
    BY DEF Init
  <1>2. Latest(b) = [i \in PiecesOf(b) |-> Zero]
    BY <1>1, LatestAfter, AfterNone
  <1> QED
    BY <1>1, <1>2 DEF Copy, Uploading, NoLock

\* A step opens at most one emulated lock, and that is a Lock queueing.
LEMMA EntrySteps ==
    ASSUME [Next]_vars
    PROVE  /\ scenario' = scenario /\ (active' => active)
           /\ \/ entry' = entry
              \/ \E d \in Buffers : entry' = [entry EXCEPT ![d] = NoLock]
              \/ Live /\ \E d \in Buffers, ro, disc \in BOOLEAN : Lock(d, ro, disc)
  <1>1. scenario' = scenario /\ (active' => active)
    BY LossSteps
  <1>2. CASE \E d \in Buffers, ro, disc \in BOOLEAN : Lock(d, ro, disc)
    <2>1. Live \/ entry' = entry
      BY <1>2 DEF Lock
    <2> QED
      BY <1>1, <1>2, <2>1
  <1>3. CASE \E d \in Buffers : Unlock(d)
    <2>1. PICK d \in Buffers : Unlock(d)
      BY <1>3
    <2>2. entry' = entry \/ entry' = [entry EXCEPT ![d] = NoLock]
      BY <2>1 DEF Unlock
    <2> QED
      BY <1>1, <2>2
  <1>4. CASE \/ LockReal \/ Piece \/ Place \/ SyncCall \/ Sync \/ ResetCall \/ Reset \/ Lose \/ Switch
             \/ PresentHere \/ PresentDirty \/ PresentQueued \/ Throttle \/ Execute \/ Fault \/ Die
             \/ \E d \in Buffers : Draw(d)
             \/ \E d \in Buffers, v \in Data : Write(d, v)
             \/ \E wantDirect \in BOOLEAN : PresentEnter(wantDirect)
             \/ UNCHANGED vars
    <2> SUFFICES entry' = entry
      BY <1>1
    <2>1. CASE LockReal \/ Piece \/ Place \/ SyncCall \/ Sync \/ ResetCall \/ Reset
      BY <2>1 DEF LockReal, Piece, Place, SyncCall, Sync, ResetCall, Reset, lockVars
    <2>2. CASE Lose \/ Switch \/ PresentHere \/ PresentDirty \/ PresentQueued \/ Throttle
      BY <2>2 DEF Lose, Switch, PresentHere, PresentDirty, PresentQueued, Throttle, lockVars
    <2>3. CASE Execute \/ Fault \/ Die \/ \E d \in Buffers : Draw(d)
      BY <2>3 DEF Execute, Fault, Die, Draw, lockVars
    <2>4. CASE \/ \E d \in Buffers, v \in Data : Write(d, v)
               \/ \E wantDirect \in BOOLEAN : PresentEnter(wantDirect)
      BY <2>4 DEF Write, PresentEnter, lockVars
    <2>5. CASE UNCHANGED vars
      BY <2>5 DEF vars, lockVars
    <2> QED
      BY <1>4, <2>1, <2>2, <2>3, <2>4, <2>5
  <1> QED
    BY <1>2, <1>3, <1>4 DEF Next, MainStep

LEMMA CopyStep ==
    ASSUME NEW b, Safe(b), [Next]_vars
    PROVE  Copy(b)'
  <1>1. CASE \E d \in Buffers, ro, disc \in BOOLEAN : Lock(d, ro, disc)
    BY <1>1, LockShows
  <1>2. CASE \E d \in Buffers, v \in Data : Write(d, v)
    BY <1>2, WriteCopy
  <1>3. CASE \E d \in Buffers : Unlock(d)
    BY <1>3, UnlockCopy
  <1>4. CASE Piece \/ Place
    BY <1>4, PieceCopy
  <1>5. CASE PresentQueued \/ Execute \/ \E d \in Buffers : Draw(d)
    BY <1>5, CommandCopy
  <1>6. CASE \/ LockReal \/ SyncCall \/ Sync \/ ResetCall \/ Reset \/ Lose \/ Switch
             \/ PresentHere \/ PresentDirty \/ Throttle \/ Fault \/ Die
             \/ \E wantDirect \in BOOLEAN : PresentEnter(wantDirect)
             \/ UNCHANGED vars
    BY <1>6, QuietCopy
  <1> QED
    BY <1>1, <1>2, <1>3, <1>4, <1>5, <1>6 DEF Next, MainStep

\* A lock of a readable buffer answered with the shadow shows the client the
\* contents the buffer has once the queue has run: wherever drains do not give
\* up, no direct calls are switched to and each lock is closed before the next
\* Present (T_BufLock, T_BufUnlock's loop over the pieces, UploadInPlace).  Each
\* of the three breaks it, and two arenas are enough for one frame in flight.
THEOREM ShadowCorrect ==
    ASSUME MaxFramesInFlight = 1,
           \A s \in Scenarios : (\E b \in DOMAIN s.class : s.class[b] = "shadow")
                                  => s.allowed \cap {"giveup", "switch", "span"} = {}
    PROVE  Spec => ShadowIsCopy
  <1>1. ASSUME FramesInv, Arenas, Copies, active, NEW b \in Buffers, Class[b] = "shadow"
        PROVE  Safe(b)
    <2>1. Allowed \cap Disturbing = {}
      BY <1>1 DEF FramesInv, Types, Control, Allowed, Class, Buffers, Disturbing
    <2>2. Closed
      BY <2>1 DEF Closed, Disturbing
    <2> QED
      BY <1>1, <2>1, <2>2 DEF Safe, Arenas, Copies
  <1>2. FramesInv /\ Arenas /\ Copies /\ [Next]_vars => Copies'
    <2> SUFFICES ASSUME FramesInv, Arenas, Copies, [Next]_vars, active', NEW b \in Buffers',
                        Class'[b] = "shadow"
                 PROVE  Copy(b)'
      BY DEF Copies
    <2>1. scenario' = scenario /\ active
      BY EntrySteps
    <2>2. b \in Buffers /\ Class[b] = "shadow"
      BY <2>1, SameScenario
    <2> QED
      BY <1>1, <2>1, <2>2, CopyStep
  <1>3. FramesInv /\ Arenas /\ Copies /\ [Next]_vars
          => [\A b \in Buffers :
                Class[b] = "shadow" /\ entry[b].mode = "none" /\ entry'[b].mode = "shadow"
                  => shadow'[b] = Latest(b)]_vars
    <2> SUFFICES ASSUME FramesInv, Arenas, Copies, [Next]_vars, NEW b \in Buffers,
                        Class[b] = "shadow", entry[b].mode = "none", entry'[b].mode = "shadow"
                 PROVE  shadow'[b] = Latest(b)
      OBVIOUS
    <2>1. PICK d \in Buffers, ro \in BOOLEAN, disc \in BOOLEAN : Live /\ Lock(d, ro, disc)
      <3>1. DOMAIN entry = Buffers
        BY DEF FramesInv, Types, Locks
      <3>2. ASSUME NEW d \in Buffers, entry' = [entry EXCEPT ![d] = NoLock]
            PROVE  FALSE
        BY <3>1, <3>2 DEF NoLock
      <3>3. entry' # entry
        OBVIOUS
      <3> QED
        BY <3>2, <3>3, EntrySteps
    <2>2. Safe(b)
      BY <1>1, <2>1 DEF Live
    <2> QED
      BY <2>1, <2>2, LockShows
  <1>4. FramesInv /\ FramesInv' /\ Arenas /\ [Next]_vars => Arenas'
    BY ArenasStep
  <1> QED
    BY <1>2, <1>3, <1>4, ArenasInit, CopiesInit, FramesInvHolds, PTL DEF Spec, ShadowIsCopy

=============================================================================
