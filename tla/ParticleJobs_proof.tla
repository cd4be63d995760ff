-------------------------- MODULE ParticleJobs_proof --------------------------
(***************************************************************************)
(* Proofs about the fork-join workers: the particle fill, for every number *)
(* of workers, every emitter and every choice of thresholds ParticleJobs   *)
(* allows; and, from "Lists" on, the animation pass, for every number of   *)
(* workers in either pool, every tree of models and every length of pass   *)
(* M2Scene allows.                                                         *)
(***************************************************************************)
EXTENDS ParticleJobs, M2Scene, FiniteSetTheorems, SequenceTheorems,
        NaturalsInduction, WellFoundedInduction, TLAPS

------------------------------------------------------------------------------
(* The partition. *)

\* What an integer quotient is.
LEMMA Quotient ==
    ASSUME NEW a \in Nat, NEW n \in Nat \ {0}
    PROVE  /\ a \div n \in Nat
           /\ n * (a \div n) <= a
           /\ a < n * (a \div n) + n
  OBVIOUS

\* A quotient is at most i exactly when what is divided is below i + 1 divisors.
LEMMA QuotientAtMost ==
    ASSUME NEW a \in Nat, NEW n \in Nat \ {0}, NEW i \in Nat
    PROVE  a \div n <= i <=> a < n * (i + 1)
  <1> DEFINE q == a \div n
  <1>1. q \in Nat /\ n * q <= a /\ a < n * q + n
    BY Quotient
  <1> HIDE DEF q
  <1>2. ASSUME q <= i PROVE a < n * (i + 1)
    <2>1. n * q <= n * i
      BY <1>1, <1>2, SMT
    <2> QED
      BY <1>1, <2>1, SMT
  <1>3. ASSUME q > i PROVE ~(a < n * (i + 1))
    <2>1. n * (i + 1) <= n * q
      BY <1>1, <1>3, SMT
    <2> QED
      BY <1>1, <2>1, SMT
  <1> QED
    BY <1>1, <1>2, <1>3 DEF q

\* Every particle is in some chunk: Parallel's lo and hi leave none out.
LEMMA ChunksCover ==
    ASSUME NEW count \in Nat \ {0}, NEW n \in Nat \ {0}, NEW i \in 0 .. count - 1
    PROVE  \E c \in 0 .. n - 1 : i \in Particles(count, n, c)
  <1> DEFINE a == n * (i + 1) - 1
             c == a \div count
  <1>1. a \in Nat /\ a < n * count
    <2>1. n * (i + 1) <= n * count /\ n * (i + 1) \in Nat \ {0}
      BY SMT
    <2> QED
      BY <2>1, SMT
  <1>2. c \in Nat /\ count * c <= a /\ a < count * c + count
    BY <1>1, Quotient
  <1> HIDE DEF c
  <1>3. c < n
    <2>1. CASE c >= n
      <3>1. count * n <= count * c
        BY <1>2, <2>1, SMT
      <3>2. count * n = n * count
        BY SMT
      <3> QED
        BY <1>1, <1>2, <3>1, <3>2, SMT
    <2> QED
      BY <1>2, <2>1, SMT
  <1>4. count * c \in Nat /\ count * (c + 1) \in Nat /\ count * (c + 1) = count * c + count
    BY <1>2, SMT
  <1>5. Lo(count, n, c) <= i
    <2>1. count * c < n * (i + 1)
      BY <1>1, <1>2, <1>4, SMT
    <2> QED
      BY <1>4, <2>1, QuotientAtMost DEF Lo
  <1>6. ~(Lo(count, n, c + 1) <= i)
    <2>1. ~(count * (c + 1) < n * (i + 1))
      BY <1>1, <1>2, <1>4, SMT
    <2> QED
      BY <1>4, <2>1, QuotientAtMost DEF Lo
  <1>7. Lo(count, n, c) \in Nat /\ Lo(count, n, c + 1) \in Nat
    BY <1>4, Quotient DEF Lo
  <1>8. i \in Particles(count, n, c)
    BY <1>5, <1>6, <1>7 DEF Particles
  <1> QED
    BY <1>2, <1>3, <1>8

------------------------------------------------------------------------------
(* Types. *)

\* The constants, where a step needs them.
LEMMA ThreadSets ==
    /\ Main \in Threads /\ Workers \subseteq Threads
    /\ \A w \in Workers : w # Main
    /\ MaxChunks \in Nat \ {0}
    /\ \A g \in Gens : (g + 1) % GenWord \in Gens
    /\ NoClaim \in ClaimWord
  BY ParticleAssumption DEF Main, Threads, Workers, MaxChunks, Gens, NoClaim, ClaimWord

\* The initial states are well typed.
LEMMA InitType == Init => TypeOK
  <1> SUFFICES ASSUME Init PROVE TypeOK
    OBVIOUS
  <1>1. scenario \in Scenarios /\ scenario.emitters # {}
    BY ParticleAssumption DEF Init
  <1>2. job \in [em : scenario.emitters, chunks : 0 .. MaxChunks, compared : BOOLEAN]
    BY <1>1, ThreadSets DEF Init
  <1>3. pc \in [Threads -> Points]
    BY DEF Init, Points
  <1>4. gen \in Gens /\ seen \in [Threads -> Gens] /\ cur \in [Threads -> ClaimWord]
    BY ThreadSets, ParticleAssumption DEF Init, Gens
  <1>5. DOMAIN out = Chunks
    BY DEF Init
  <1> QED
    <2>1. at \in 0 .. NWorkers /\ checked \in 0 .. Learn /\ emitters \in 0 .. Resample - 1
      BY ParticleAssumption DEF Init
    <2>2. sleeping \in [Workers -> BOOLEAN] /\ wake \in [Workers -> BOOLEAN]
      BY DEF Init
    <2> QED
      BY <1>1, <1>2, <1>3, <1>4, <1>5, <2>1, <2>2, ThreadSets DEF Init, TypeOK

\* Every step keeps the types.
LEMMA NextType == TypeOK /\ [Next]_vars => TypeOK'
  <1> SUFFICES ASSUME TypeOK, [Next]_vars PROVE TypeOK'
    OBVIOUS
  <1> USE ThreadSets DEF TypeOK, words, books
  <1>1. ASSUME NEW e \in scenario.emitters, FillAlone(e) PROVE TypeOK'
    BY <1>1, ParticleAssumption DEF FillAlone, CountEmitter
  <1>2. ASSUME NEW e \in scenario.emitters, Prepare(e) PROVE TypeOK'
    <2>1. job' \in [em : scenario.emitters, chunks : 0 .. MaxChunks, compared : BOOLEAN]
      BY <1>2, ParticleAssumption DEF Prepare
    <2>2. pc' \in [Threads -> Points]
      BY <1>2 DEF Prepare, Points
    <2>3. emitters' \in 0 .. Resample - 1
      BY <1>2, ParticleAssumption DEF Prepare, CountEmitter
    <2> QED
      BY <1>2, <2>1, <2>2, <2>3 DEF Prepare
  <1>3. CASE PublishClaim
    <2>1. claim' \in ClaimWord
      BY <1>3 DEF PublishClaim, ClaimWord
    <2> QED
      BY <1>3, <2>1 DEF PublishClaim, Points
  <1>4. CASE PublishGen
    BY <1>4, ParticleAssumption DEF PublishGen, Points
  <1>5. CASE CallSleeper
    <2>1. at + 1 \in 0 .. NWorkers /\ at + 1 \in Workers
      BY <1>5, ParticleAssumption DEF CallSleeper, Workers
    <2> QED
      BY <1>5, <2>1 DEF CallSleeper
  <1>6. CASE AllCalled
    BY <1>6 DEF AllCalled, Points
  <1>7. CASE Collect
    <2>1. dead' \in BOOLEAN
      BY <1>7 DEF Collect
    <2>2. checked' \in 0 .. Learn
      <3>1. Learn \in Nat
        BY ParticleAssumption
      <3>2. checked' = checked \/ (checked < Learn /\ checked' = checked + 1)
        BY <1>7 DEF Collect
      <3> QED
        BY <3>1, <3>2
    <2> QED
      BY <1>7, <2>1, <2>2 DEF Collect, Points
  <1>8. CASE Shutdown
    BY <1>8, ParticleAssumption DEF Shutdown, Points
  <1>9. CASE StopCall
    <2>1. at + 1 \in 0 .. NWorkers /\ at + 1 \in Workers
      BY <1>9, ParticleAssumption DEF StopCall, Workers
    <2> QED
      BY <1>9, <2>1 DEF StopCall
  <1>10. ASSUME NEW t \in Threads, RunChunks(t) PROVE TypeOK'
    <2>1. CASE Look(t)
      BY <2>1 DEF Look, Home, Points
    <2>2. CASE Claim(t)
      <3>1. claim' \in ClaimWord
        BY <2>2 DEF Claim, ClaimWord
      <3> QED
        BY <2>2, <3>1 DEF Claim, Points
    <2>3. CASE Fill(t)
      <3>1. DOMAIN out' = Chunks
        BY <2>3 DEF Fill
      <3>2. done' \in Nat
        BY <2>3 DEF Fill
      <3> QED
        BY <2>3, <3>1, <3>2 DEF Fill, Points
    <2> QED
      BY <1>10, <2>1, <2>2, <2>3 DEF RunChunks
  <1>11. ASSUME NEW w \in Workers, WorkerNext(w) PROVE TypeOK'
    <2>1. CASE Awake(w)
      BY <2>1 DEF Awake, Points
    <2>2. CASE Arm(w)
      BY <2>2 DEF Arm, Points
    <2>3. CASE Recheck(w)
      <3>1. pc' \in [Threads -> Points]
        BY <2>3 DEF Recheck, Points
      <3>2. sleeping' \in [Workers -> BOOLEAN]
        BY <2>3 DEF Recheck
      <3> QED
        BY <2>3, <3>1, <3>2 DEF Recheck
    <2>4. CASE Wait(w)
      BY <2>4 DEF Wait, Points
    <2>5. CASE Woken(w)
      BY <2>5 DEF Woken, Points
    <2> QED
      BY <1>11, <2>1, <2>2, <2>3, <2>4, <2>5 DEF WorkerNext
  <1>12. CASE UNCHANGED vars
    BY <1>12 DEF vars
  <1> QED
    BY <1>1, <1>2, <1>3, <1>4, <1>5, <1>6, <1>7, <1>8, <1>9, <1>10, <1>11, <1>12
       DEF Next, MainNext

------------------------------------------------------------------------------
(* Sleepers. *)

\* A worker on its way to sleep is marked as sleeping, or its event is set.
Marked == \A w \in Workers : pc[w] \in {"recheck", "wait"} => sleeping[w] \/ wake[w]

SleepInv == TypeOK /\ Marked /\ NoSleepThrough

\* Every step keeps SleepInv.
LEMMA NextSleepInv == SleepInv /\ [Next]_vars => SleepInv'
  <1> SUFFICES ASSUME SleepInv, [Next]_vars PROVE Marked' /\ NoSleepThrough'
    BY NextType DEF SleepInv
  <1> USE ThreadSets DEF SleepInv, TypeOK, Marked, NoSleepThrough, words, books
  <1>1. ASSUME NEW e \in scenario.emitters, FillAlone(e) \/ Prepare(e)
        PROVE  Marked' /\ NoSleepThrough'
    BY <1>1 DEF FillAlone, Prepare
  <1>2. CASE PublishClaim
    BY <1>2 DEF PublishClaim
  <1>3. CASE PublishGen
    <2>1. \A w \in Workers : 0 < w
      BY DEF Workers
    <2> QED
      BY <1>3, <2>1 DEF PublishGen
  <1>4. CASE CallSleeper
    <2>1. at + 1 \in Workers /\ \A w \in Workers : w \in Int /\ (at < w /\ w # at + 1 => at + 1 < w)
      BY <1>4, ParticleAssumption DEF CallSleeper, Workers
    <2> QED
      BY <1>4, <2>1 DEF CallSleeper
  <1>5. CASE AllCalled
    <2>1. \A w \in Workers : ~(at < w)
      BY <1>5, ParticleAssumption DEF AllCalled, Workers
    <2> QED
      BY <1>5, <2>1 DEF AllCalled
  <1>6. CASE Collect \/ Shutdown
    BY <1>6 DEF Collect, Shutdown
  <1>7. CASE StopCall
    <2>1. at + 1 \in Workers
      BY <1>7, ParticleAssumption DEF StopCall, Workers
    <2> QED
      BY <1>7, <2>1 DEF StopCall
  <1>8. ASSUME NEW t \in Threads, RunChunks(t) PROVE Marked' /\ NoSleepThrough'
    <2>1. pc[t] \in {"look", "cas", "fill"} /\ pc'[t] \notin {"recheck", "wait", "call"}
      BY <1>8 DEF RunChunks, Look, Claim, Fill, Home
    <2>2. \A u \in Threads \ {t} : pc'[u] = pc[u]
      BY <1>8 DEF RunChunks, Look, Claim, Fill
    <2>3. UNCHANGED <<gen, sleeping, wake, seen, at>>
      BY <1>8 DEF RunChunks, Look, Claim, Fill
    <2> QED
      BY <2>1, <2>2, <2>3
  <1>9. ASSUME NEW w \in Workers, WorkerNext(w) PROVE Marked' /\ NoSleepThrough'
    <2>1. CASE Awake(w)
      BY <2>1 DEF Awake
    <2>2. CASE Arm(w)
      BY <2>2 DEF Arm
    <2>3. CASE Recheck(w)
      BY <2>3 DEF Recheck
    <2>4. CASE Wait(w)
      BY <2>4 DEF Wait
    <2>5. CASE Woken(w)
      BY <2>5 DEF Woken
    <2> QED
      BY <1>9, <2>1, <2>2, <2>3, <2>4, <2>5 DEF WorkerNext
  <1>10. CASE UNCHANGED vars
    BY <1>10 DEF vars
  <1> QED
    BY <1>1, <1>2, <1>3, <1>4, <1>5, <1>6, <1>7, <1>8, <1>9, <1>10 DEF Next, MainNext

\* No worker sleeps through a job, however many there are.
THEOREM WorkersAreCalled == Spec => []NoSleepThrough
  <1>1. Init => SleepInv
    BY InitType, ThreadSets DEF Init, SleepInv, Marked, NoSleepThrough
  <1>2. SleepInv => NoSleepThrough
    BY DEF SleepInv
  <1> QED
    BY <1>1, <1>2, NextSleepInv, PTL DEF Spec

------------------------------------------------------------------------------
(* Chunks. *)

Fillers == {t \in Threads : pc[t] = "fill"}

\* What the claim word says of the threads: a chunk someone is about to take was
\* free when it was read, the chunks being filled were all handed out and are
\* different, and outside RunJob every chunk was handed out and none is being
\* filled.
Handed ==
    /\ claim.next <= claim.chunks
    /\ \A t \in Threads : pc[t] = "cas" => cur[t].next < cur[t].chunks
    /\ \A t \in Fillers : cur[t].next < claim.next
    /\ \A t, u \in Fillers : t # u => cur[t].next # cur[u].next

\* The count RunJob waits for: what was handed out is done or being filled.
Counted ==
    /\ Running => /\ claim.chunks = job.chunks
                  /\ done + Cardinality(Fillers) = claim.next
    /\ ~Running => Fillers = {} /\ claim.next = claim.chunks
    /\ pc[Main] = "claim" => done = 0

ClaimInv == TypeOK /\ Handed /\ Counted

\* The fillers are finitely many: a thread that begins adds one, a thread that
\* reports takes one away.
LEMMA FillerCount ==
    ASSUME TypeOK
    PROVE  /\ IsFiniteSet(Fillers) /\ Cardinality(Fillers) \in Nat
           /\ Cardinality(Fillers) = 0 <=> Fillers = {}
           /\ \A t \in Threads \ Fillers :
                Cardinality(Fillers \cup {t}) = Cardinality(Fillers) + 1
           /\ \A t \in Fillers : Cardinality(Fillers \ {t}) = Cardinality(Fillers) - 1
  <1>1. IsFiniteSet(0 .. NWorkers) /\ Fillers \subseteq 0 .. NWorkers
    BY FS_Interval, ParticleAssumption DEF Fillers, Threads, Main, Workers
  <1>2. IsFiniteSet(Fillers)
    BY <1>1, FS_Subset
  <1>3. Cardinality(Fillers) \in Nat /\ (Cardinality(Fillers) = 0 <=> Fillers = {})
    BY <1>2, FS_CardinalityType, FS_EmptySet
  <1>4. \A t \in Threads \ Fillers : Cardinality(Fillers \cup {t}) = Cardinality(Fillers) + 1
    BY <1>2, FS_AddElement
  <1>5. \A t \in Fillers : Cardinality(Fillers \ {t}) = Cardinality(Fillers) - 1
    BY <1>2, FS_RemoveElement
  <1> QED
    BY <1>2, <1>3, <1>4, <1>5

\* The initial states satisfy ClaimInv.
LEMMA InitClaimInv == Init => ClaimInv
  <1> SUFFICES ASSUME Init PROVE Handed /\ Counted
    BY InitType DEF ClaimInv
  <1>1. \A t \in Threads : pc[t] # "fill" /\ pc[t] # "cas"
    BY DEF Init
  <1>2. Fillers = {} /\ pc[Main] = "idle"
    BY <1>1, ThreadSets DEF Fillers, Init
  <1> QED
    BY <1>1, <1>2 DEF Init, Handed, Counted, Running, NoClaim

\* A step that neither takes, reports nor hands out a chunk leaves the fillers.
LEMMA SameFillers ==
    ASSUME TypeOK, TypeOK', ClaimInv,
           \A t \in Threads : pc'[t] = pc[t] \/ {pc[t], pc'[t]} \cap {"cas", "fill"} = {},
           UNCHANGED <<claim, cur>>
    PROVE  Handed' /\ Fillers' = Fillers
  <1>1. Fillers' = Fillers
    BY DEF Fillers
  <1>2. \A t \in Threads : pc'[t] = "cas" => pc[t] = "cas"
    OBVIOUS
  <1> QED
    BY <1>1, <1>2 DEF ClaimInv, Handed

\* Every step keeps ClaimInv.
LEMMA NextClaimInv == ClaimInv /\ [Next]_vars => ClaimInv'
  <1> SUFFICES ASSUME ClaimInv, [Next]_vars PROVE ClaimInv'
    OBVIOUS
  <1>t. TypeOK /\ TypeOK'
    BY NextType DEF ClaimInv
  <1>c. claim.next \in Nat /\ claim.chunks \in Nat /\ done \in Nat
    BY <1>t DEF TypeOK, ClaimWord
  <1>f. Cardinality(Fillers) \in Nat /\ (Cardinality(Fillers) = 0 <=> Fillers = {})
    BY <1>t, FillerCount
  <1>m. Main \in Threads /\ pc \in [Threads -> Points]
    BY <1>t, ThreadSets DEF TypeOK
  <1> USE DEF words, books
  <1>1. ASSUME NEW e \in scenario.emitters, FillAlone(e) PROVE ClaimInv'
    <2>1. Handed' /\ Fillers' = Fillers
      BY <1>1, <1>t, SameFillers DEF FillAlone
    <2> QED
      BY <1>1, <1>t, <2>1 DEF FillAlone, ClaimInv, Counted, Running
  <1>2. ASSUME NEW e \in scenario.emitters, Prepare(e) PROVE ClaimInv'
    <2>1. Handed' /\ Fillers' = Fillers
      BY <1>2, <1>t, <1>m, SameFillers DEF Prepare
    <2>2. pc[Main] = "idle" /\ pc'[Main] = "claim" /\ done' = 0 /\ UNCHANGED claim
      BY <1>2, <1>m DEF Prepare
    <2> QED
      BY <1>t, <2>1, <2>2 DEF ClaimInv, Counted, Running
  <1>3. CASE PublishClaim
    <2>1. pc[Main] = "claim" /\ pc'[Main] = "gen" /\ \A t \in Threads \ {Main} : pc'[t] = pc[t]
      BY <1>3, <1>m DEF PublishClaim
    <2>2. Fillers = {} /\ done = 0
      BY <2>1 DEF ClaimInv, Counted, Running
    <2>3. Fillers' = {}
      BY <2>1, <2>2 DEF Fillers
    <2>4. claim'.next = 0 /\ claim'.chunks = job.chunks /\ UNCHANGED <<done, job, cur>>
      BY <1>3 DEF PublishClaim
    <2>5. job.chunks \in Nat
      BY <1>t, ThreadSets DEF TypeOK
    <2>6. Handed'
      BY <2>1, <2>3, <2>4, <2>5 DEF ClaimInv, Handed
    <2>7. Counted'
      BY <2>1, <2>2, <2>3, <2>4, FS_EmptySet DEF Counted, Running
    <2> QED
      BY <1>t, <2>6, <2>7 DEF ClaimInv
  <1>4. CASE PublishGen \/ CallSleeper \/ AllCalled
    <2>1. Handed' /\ Fillers' = Fillers
      BY <1>4, <1>t, <1>m, SameFillers DEF PublishGen, CallSleeper, AllCalled
    <2>2. Running /\ Running' /\ pc'[Main] # "claim" /\ UNCHANGED <<claim, done, job>>
      BY <1>4, <1>m DEF PublishGen, CallSleeper, AllCalled, Running
    <2> QED
      BY <1>t, <2>1, <2>2 DEF ClaimInv, Counted
  <1>5. CASE Collect
    <2>1. Handed' /\ Fillers' = Fillers
      BY <1>5, <1>t, <1>m, SameFillers DEF Collect
    <2>2. Running /\ pc'[Main] = "idle" /\ done >= job.chunks /\ UNCHANGED claim
      BY <1>5, <1>m DEF Collect, Running
    <2>3. Fillers = {} /\ claim.next = claim.chunks
      BY <1>c, <1>f, <2>2 DEF ClaimInv, Handed, Counted
    <2> QED
      BY <1>t, <2>1, <2>2, <2>3 DEF ClaimInv, Counted, Running
  <1>6. CASE Shutdown \/ StopCall
    <2>1. Handed' /\ Fillers' = Fillers
      BY <1>6, <1>t, <1>m, SameFillers DEF Shutdown, StopCall
    <2>2. ~Running /\ ~Running' /\ pc'[Main] # "claim" /\ UNCHANGED claim
      BY <1>6, <1>m DEF Shutdown, StopCall, Running
    <2> QED
      BY <1>t, <2>1, <2>2 DEF ClaimInv, Counted
  <1>7. ASSUME NEW t \in Threads, Look(t) PROVE ClaimInv'
    <2>1. Fillers' = Fillers /\ UNCHANGED <<claim, done, job>>
      BY <1>7, <1>m DEF Look, Fillers, Home
    <2>2. Running' = Running /\ (pc'[Main] = "claim" <=> pc[Main] = "claim")
      BY <1>7, <1>m DEF Look, Home, Running
    <2>3. Handed'
      <3>1. pc'[t] = "cas" => cur'[t].next < cur'[t].chunks
        BY <1>7, <1>t DEF Look, Home, TypeOK
      <3>2. \A u \in Threads \ {t} : pc'[u] = pc[u] /\ cur'[u] = cur[u]
        BY <1>7, <1>t DEF Look, TypeOK
      <3>3. t \notin Fillers
        BY <1>7 DEF Look, Fillers
      <3> QED
        BY <2>1, <3>1, <3>2, <3>3 DEF ClaimInv, Handed, Fillers
    <2> QED
      BY <1>t, <2>1, <2>2, <2>3 DEF ClaimInv, Counted
  <1>8. ASSUME NEW t \in Threads, Claim(t) PROVE ClaimInv'
    <2>a. \A u \in Threads \ {t} : pc'[u] = pc[u] /\ cur'[u] = cur[u]
      BY <1>8, <1>t DEF Claim, TypeOK
    <2>b. t \notin Fillers /\ UNCHANGED <<done, job>>
      BY <1>8 DEF Claim, Fillers
    <2>c. (Running' <=> Running) /\ (pc'[Main] = "claim" <=> pc[Main] = "claim")
      BY <1>8, <1>m DEF Claim, Running
    <2>1. CASE claim = cur[t]
      <3>1. claim.next < claim.chunks
        BY <1>8, <2>1 DEF ClaimInv, Handed, Claim
      <3>2. Running
        BY <1>c, <3>1 DEF ClaimInv, Counted
      <3>3. claim'.next = claim.next + 1 /\ claim'.chunks = claim.chunks
        BY <1>8, <1>t, <2>1 DEF Claim, TypeOK, ClaimWord
      <3>4. pc'[t] = "fill" /\ cur'[t] = claim
        BY <1>8, <1>m, <2>1 DEF Claim
      <3>5. Fillers' = Fillers \cup {t}
        BY <2>a, <3>4 DEF Fillers
      <3>6. \A u \in Fillers : cur[u].next \in Nat /\ cur[u].next < claim.next
        BY <1>t DEF ClaimInv, Handed, TypeOK, Fillers, ClaimWord
      <3>7. \A u \in Fillers : cur'[u] = cur[u]
        BY <2>a, <2>b DEF Fillers
      <3>8. \A u \in Threads : pc'[u] = "cas" => cur'[u].next < cur'[u].chunks
        BY <2>a, <3>4 DEF ClaimInv, Handed
      <3>9. \A u, v \in Fillers' : u # v => cur'[u].next # cur'[v].next
        BY <1>c, <3>4, <3>5, <3>6, <3>7 DEF ClaimInv, Handed
      <3>10. \A u \in Fillers' : cur'[u].next < claim'.next
        BY <1>c, <3>3, <3>4, <3>5, <3>6, <3>7
      <3>11. Handed'
        BY <1>c, <3>1, <3>3, <3>8, <3>9, <3>10 DEF Handed
      <3>12. Cardinality(Fillers') = Cardinality(Fillers) + 1
        BY <1>t, <2>b, <3>5, FillerCount
      <3>13. Counted'
        BY <1>c, <1>f, <2>b, <2>c, <3>2, <3>3, <3>12 DEF ClaimInv, Counted, Running
      <3> QED
        BY <1>t, <3>11, <3>13 DEF ClaimInv
    <2>2. CASE claim # cur[t]
      <3>1. UNCHANGED claim /\ pc'[t] = "look"
        BY <1>8, <1>m, <2>2 DEF Claim
      <3>2. Fillers' = Fillers
        BY <2>a, <2>b, <3>1 DEF Fillers
      <3>3. Handed'
        BY <2>a, <2>b, <3>1, <3>2 DEF ClaimInv, Handed, Fillers
      <3> QED
        BY <1>t, <2>b, <2>c, <3>1, <3>2, <3>3 DEF ClaimInv, Counted
    <2> QED
      BY <2>1, <2>2
  <1>9. ASSUME NEW t \in Threads, Fill(t) PROVE ClaimInv'
    <2>1. \A u \in Threads \ {t} : pc'[u] = pc[u] /\ cur'[u] = cur[u]
      BY <1>9, <1>t DEF Fill, TypeOK
    <2>2. t \in Fillers /\ pc'[t] = "look" /\ done' = done + 1 /\ UNCHANGED <<claim, job>>
      BY <1>9, <1>m DEF Fill, Fillers
    <2>3. Fillers' = Fillers \ {t}
      BY <2>1, <2>2 DEF Fillers
    <2>4. Running
      BY <2>2 DEF ClaimInv, Counted
    <2>5. Running' /\ pc'[Main] # "claim"
      BY <2>1, <2>2, <2>4, <1>m DEF Running
    <2>6. Cardinality(Fillers') = Cardinality(Fillers) - 1
      BY <1>t, <2>2, <2>3, FillerCount
    <2>7. Handed'
      BY <2>1, <2>2, <2>3 DEF ClaimInv, Handed, Fillers
    <2>8. Counted'
      BY <1>c, <1>f, <2>2, <2>4, <2>5, <2>6 DEF ClaimInv, Counted
    <2> QED
      BY <1>t, <2>7, <2>8 DEF ClaimInv
  <1>10. ASSUME NEW w \in Workers, WorkerNext(w) PROVE ClaimInv'
    <2>1. w # Main /\ w \in Threads
      BY ThreadSets
    <2>2. UNCHANGED <<claim, cur, done, job>>
      BY <1>10 DEF WorkerNext, Awake, Arm, Recheck, Wait, Woken
    <2>3. /\ \A u \in Threads \ {w} : pc'[u] = pc[u]
          /\ {pc[w], pc'[w]} \cap {"cas", "fill"} = {}
      BY <1>10, <1>m, <2>1 DEF WorkerNext, Awake, Arm, Recheck, Wait, Woken
    <2>4. Handed' /\ Fillers' = Fillers
      BY <1>t, <2>2, <2>3, SameFillers
    <2> QED
      BY <1>t, <1>m, <2>1, <2>2, <2>3, <2>4 DEF ClaimInv, Counted, Running
  <1>11. CASE UNCHANGED vars
    <2>1. Handed' /\ Fillers' = Fillers
      BY <1>11, <1>t, SameFillers DEF vars
    <2> QED
      BY <1>11, <1>t, <2>1 DEF vars, ClaimInv, Counted, Running
  <1> QED
    BY <1>1, <1>2, <1>3, <1>4, <1>5, <1>6, <1>7, <1>8, <1>9, <1>10, <1>11
       DEF Next, MainNext, RunChunks

\* However many threads claim chunks, each is filled by one of them, and RunJob
\* does not return while any is being filled.
THEOREM ChunksCorrect == Spec => []OneFiller
  <1>1. ClaimInv => OneFiller
    <2> SUFFICES ASSUME ClaimInv, NEW t \in Threads, pc[t] = "fill"
                 PROVE  /\ Running
                        /\ cur[t].next \in JobChunks
                        /\ \A u \in Threads \ {t} : pc[u] = "fill" => cur[u].next # cur[t].next
      BY DEF OneFiller, Filling
    <2>1. t \in Fillers
      BY DEF Fillers
    <2>2. Running
      BY <2>1 DEF ClaimInv, Counted
    <2>3. cur[t].next \in Nat /\ claim.next \in Nat /\ claim.chunks \in Nat
      BY DEF ClaimInv, TypeOK, ClaimWord
    <2>4. cur[t].next \in JobChunks
      BY <2>1, <2>2, <2>3 DEF ClaimInv, Handed, Counted, JobChunks
    <2> QED
      BY <2>1, <2>2, <2>4 DEF ClaimInv, Handed, Fillers
  <1> QED
    BY <1>1, InitClaimInv, NextClaimInv, PTL DEF Spec

------------------------------------------------------------------------------
(* What reaches the client. *)

\* Chunk c was filled in this job: it faulted, or it staged one vertex for each
\* of its particles.
Filled(c) ==
    \/ out[c].fault
    \/ LET own == Particles(job.em.count, job.chunks, c)
       IN  DOMAIN out[c].vs = own /\ \A i \in own : out[c].vs[i] = i \/ out[c].vs[i] = Odd

\* Every chunk handed out is filled or being filled.
Staging ==
    Running => \A c \in 0 .. claim.next - 1 :
                 Filled(c) \/ \E t \in Fillers : cur[t].next = c

\* A job that is published has a chunk.
HasChunks == pc[Main] = "claim" \/ Running => job.chunks # 0

DataInv == ClaimInv /\ Staging /\ HasChunks

\* Every step keeps HasChunks.
LEMMA NextHasChunks == TypeOK /\ HasChunks /\ [Next]_vars => HasChunks'
  <1> SUFFICES ASSUME TypeOK, HasChunks, [Next]_vars PROVE HasChunks'
    OBVIOUS
  <1>m. Main \in Threads /\ pc \in [Threads -> Points]
    BY ThreadSets DEF TypeOK
  <1> USE DEF HasChunks, Running
  <1>1. ASSUME NEW e \in scenario.emitters, FillAlone(e) PROVE HasChunks'
    BY <1>1 DEF FillAlone
  <1>2. ASSUME NEW e \in scenario.emitters, Prepare(e) PROVE HasChunks'
    BY <1>2 DEF Prepare
  <1>3. CASE PublishClaim \/ PublishGen \/ CallSleeper \/ AllCalled
    BY <1>3, <1>m DEF PublishClaim, PublishGen, CallSleeper, AllCalled
  <1>4. CASE Collect \/ Shutdown \/ StopCall
    BY <1>4, <1>m DEF Collect, Shutdown, StopCall
  <1>5. ASSUME NEW t \in Threads, RunChunks(t) PROVE HasChunks'
    <2>1. UNCHANGED job /\ (pc'[Main] = "claim" => pc[Main] = "claim") /\ (Running' => Running)
      BY <1>5, <1>m DEF RunChunks, Look, Claim, Fill, Home
    <2> QED
      BY <2>1
  <1>6. ASSUME NEW w \in Workers, WorkerNext(w) PROVE HasChunks'
    <2>1. w # Main
      BY ThreadSets
    <2> QED
      BY <1>6, <1>m, <2>1 DEF WorkerNext, Awake, Arm, Recheck, Wait, Woken
  <1>7. CASE UNCHANGED vars
    BY <1>7 DEF vars
  <1> QED
    BY <1>1, <1>2, <1>3, <1>4, <1>5, <1>6, <1>7 DEF Next, MainNext

\* A step that leaves the job and its fillers alone keeps Staging.
LEMMA SameStaging ==
    ASSUME DataInv, Running' => Running, Fillers' = Fillers,
           UNCHANGED <<claim, job, out>>, \A t \in Fillers : cur'[t] = cur[t]
    PROVE  Staging'
  <1>1. \A c : Filled(c) => Filled(c)'
    BY DEF Filled
  <1> QED
    BY <1>1 DEF DataInv, Staging

\* Every step keeps DataInv.
LEMMA NextDataInv == DataInv /\ [Next]_vars => DataInv'
  <1> SUFFICES ASSUME DataInv, [Next]_vars PROVE Staging'
    BY NextClaimInv, NextHasChunks DEF DataInv, ClaimInv
  <1>t. TypeOK /\ TypeOK' /\ ClaimInv'
    BY NextType, NextClaimInv DEF DataInv, ClaimInv
  <1>m. Main \in Threads /\ pc \in [Threads -> Points] /\ cur \in [Threads -> ClaimWord]
    BY <1>t, ThreadSets DEF TypeOK
  <1> USE DEF words, books
  <1>1. ASSUME ~Running' PROVE Staging'
    BY <1>1 DEF Staging
  <1>2. ASSUME NEW e \in scenario.emitters, FillAlone(e) \/ Prepare(e) PROVE Staging'
    <2>1. ~Running'
      BY <1>2, <1>m DEF FillAlone, Prepare, Running
    <2> QED
      BY <1>1, <2>1
  <1>3. CASE PublishClaim
    <2>1. claim'.next = 0
      BY <1>3 DEF PublishClaim
    <2> QED
      BY <2>1 DEF Staging
  <1>4. CASE PublishGen \/ CallSleeper \/ AllCalled
    <2>1. Running /\ Fillers' = Fillers /\ UNCHANGED <<claim, job, out, cur>>
      BY <1>4, <1>m DEF PublishGen, CallSleeper, AllCalled, Running, Fillers
    <2> QED
      BY <2>1, SameStaging
  <1>5. CASE Collect \/ Shutdown \/ StopCall
    <2>1. ~Running'
      BY <1>5, <1>m DEF Collect, Shutdown, StopCall, Running
    <2> QED
      BY <1>1, <2>1
  <1>6. ASSUME NEW t \in Threads, Look(t) PROVE Staging'
    <2>1. Fillers' = Fillers /\ UNCHANGED <<claim, job, out>>
      BY <1>6, <1>m DEF Look, Fillers, Home
    <2>2. Running' => Running
      BY <1>6, <1>m DEF Look, Home, Running
    <2>3. \A u \in Fillers : cur'[u] = cur[u]
      BY <1>6, <1>m DEF Look, Fillers
    <2> QED
      BY <2>1, <2>2, <2>3, SameStaging
  <1>7. ASSUME NEW t \in Threads, Claim(t) PROVE Staging'
    <2>a. \A u \in Threads \ {t} : pc'[u] = pc[u] /\ cur'[u] = cur[u]
      BY <1>7, <1>m DEF Claim
    <2>b. t \notin Fillers /\ UNCHANGED <<job, out>>
      BY <1>7 DEF Claim, Fillers
    <2>c. Running' => Running
      BY <1>7, <1>m DEF Claim, Running
    <2>1. CASE claim = cur[t]
      <3>1. claim'.next = claim.next + 1 /\ claim.next \in Nat
        BY <1>7, <1>t, <2>1 DEF Claim, TypeOK, ClaimWord
      <3>2. t \in Fillers' /\ cur'[t].next = claim.next
        BY <1>7, <1>m, <2>1 DEF Claim, Fillers
      <3>3. \A u \in Fillers : u \in Fillers' /\ cur'[u] = cur[u]
        BY <2>a, <2>b DEF Fillers
      <3>4. \A c : Filled(c) => Filled(c)'
        BY <2>b DEF Filled
      <3>5. ASSUME Running', NEW c \in 0 .. claim'.next - 1
            PROVE  Filled(c)' \/ \E u \in Fillers' : cur'[u].next = c
        <4>1. CASE c = claim.next
          BY <3>2, <4>1
        <4>2. CASE c # claim.next
          <5>1. c \in 0 .. claim.next - 1
            BY <3>1, <3>5, <4>2
          <5> QED
            BY <2>c, <3>3, <3>4, <3>5, <5>1 DEF DataInv, Staging
        <4> QED
          BY <4>1, <4>2
      <3> QED
        BY <3>5 DEF Staging
    <2>2. CASE claim # cur[t]
      <3>1. UNCHANGED claim /\ pc'[t] = "look"
        BY <1>7, <1>m, <2>2 DEF Claim
      <3>2. Fillers' = Fillers /\ \A u \in Fillers : cur'[u] = cur[u]
        BY <2>a, <2>b, <3>1 DEF Fillers
      <3> QED
        BY <2>b, <2>c, <3>1, <3>2, SameStaging
    <2> QED
      BY <2>1, <2>2
  <1>8. ASSUME NEW t \in Threads, Fill(t) PROVE Staging'
    <2>p. PICK k : k = cur[t].next
      OBVIOUS
    <2>1. \A u \in Threads \ {t} : pc'[u] = pc[u] /\ cur'[u] = cur[u]
      BY <1>8, <1>m DEF Fill
    <2>2. t \in Fillers /\ UNCHANGED <<claim, job>>
      BY <1>8 DEF Fill, Fillers
    <2>3. Running
      BY <2>2 DEF DataInv, ClaimInv, Counted
    <2>4. k \in Chunks
      <3>1. k \in Nat /\ k < claim.next /\ claim.next <= job.chunks
        BY <1>m, <2>p, <2>2, <2>3 DEF DataInv, ClaimInv, Handed, Counted, Fillers, ClaimWord
      <3>2. claim.next \in Nat /\ job.chunks \in 0 .. MaxChunks
        BY <1>t DEF TypeOK, ClaimWord
      <3> QED
        BY <3>1, <3>2, ThreadSets DEF Chunks
    <2>5. Filled(k)'
      <3>1. DOMAIN out = Chunks
        BY <1>t DEF TypeOK
      <3>2. CASE out' = [out EXCEPT ![k] = [vs |-> Staged(k), fault |-> FALSE]]
        BY <2>2, <2>4, <3>1, <3>2 DEF Filled, Staged
      <3>3. CASE out' = [out EXCEPT ![k] = [vs |-> [i \in DOMAIN Staged(k) |-> Odd],
                                            fault |-> FALSE]]
        BY <2>2, <2>4, <3>1, <3>3 DEF Filled, Staged
      <3>4. CASE out' = [out EXCEPT ![k].fault = TRUE]
        BY <2>4, <3>1, <3>4 DEF Filled
      <3> QED
        BY <1>8, <2>p, <3>2, <3>3, <3>4 DEF Fill
    <2>6. \A c \in Chunks : c # k => out'[c] = out[c]
      BY <1>8, <1>t, <2>p DEF Fill, TypeOK
    <2>7. \A c \in Chunks : c # k /\ Filled(c) => Filled(c)'
      BY <2>2, <2>6 DEF Filled
    <2>8. \A u \in Fillers : u # t => u \in Fillers' /\ cur'[u] = cur[u]
      BY <2>1 DEF Fillers
    <2>9. ASSUME NEW c \in 0 .. claim'.next - 1
          PROVE  Filled(c)' \/ \E u \in Fillers' : cur'[u].next = c
      <3>a. c \in Chunks
        <4>1. claim.next <= job.chunks /\ claim'.next = claim.next
          BY <2>2, <2>3 DEF DataInv, ClaimInv, Handed, Counted
        <4>2. claim.next \in Nat /\ job.chunks \in 0 .. MaxChunks
          BY <1>t DEF TypeOK, ClaimWord
        <4> QED
          BY <2>9, <4>1, <4>2, ThreadSets DEF Chunks
      <3>1. CASE c = k
        BY <2>5, <3>1
      <3>2. CASE c # k /\ Filled(c)
        BY <2>7, <3>a, <3>2
      <3>3. CASE c # k /\ \E u \in Fillers : cur[u].next = c
        BY <2>p, <2>8, <3>3
      <3> QED
        BY <2>2, <2>3, <2>9, <3>1, <3>2, <3>3 DEF DataInv, Staging
    <2> QED
      BY <2>9 DEF Staging
  <1>9. ASSUME NEW w \in Workers, WorkerNext(w) PROVE Staging'
    <2>1. w # Main /\ w \in Threads
      BY ThreadSets
    <2>2. UNCHANGED <<claim, cur, job, out>>
      BY <1>9 DEF WorkerNext, Awake, Arm, Recheck, Wait, Woken
    <2>3. /\ \A u \in Threads \ {w} : pc'[u] = pc[u]
          /\ pc[w] # "fill" /\ pc'[w] # "fill"
      BY <1>9, <1>m, <2>1 DEF WorkerNext, Awake, Arm, Recheck, Wait, Woken
    <2>4. Fillers' = Fillers /\ (Running' => Running)
      BY <1>m, <2>1, <2>3 DEF Fillers, Running
    <2> QED
      BY <2>2, <2>4, SameStaging
  <1>10. CASE UNCHANGED vars
    <2>1. Fillers' = Fillers /\ (Running' => Running) /\ UNCHANGED <<claim, cur, job, out>>
      BY <1>10 DEF vars, Fillers, Running
    <2> QED
      BY <2>1, SameStaging
  <1> QED
    BY <1>2, <1>3, <1>4, <1>5, <1>6, <1>7, <1>8, <1>9, <1>10 DEF Next, MainNext, RunChunks

\* The chunks put together cover the emitter, each particle with the vertex its
\* chunk staged for it.
LEMMA AssembledVertices ==
    ASSUME NEW i \in 0 .. job.em.count - 1, job.em.count \in Nat \ {0}, job.chunks \in Nat \ {0},
           ~Faulted, \A c \in JobChunks : Filled(c)
    PROVE  Assembled[i] = i \/ Assembled[i] = Odd
  <1> DEFINE c == CHOOSE k \in JobChunks : i \in Particles(job.em.count, job.chunks, k)
  <1>1. c \in JobChunks /\ i \in Particles(job.em.count, job.chunks, c)
    BY ChunksCover DEF JobChunks
  <1>2. Assembled[i] = out[c].vs[i]
    BY DEF Assembled
  <1> HIDE DEF c
  <1>3. Filled(c) /\ ~out[c].fault
    BY <1>1 DEF Faulted
  <1> QED
    BY <1>1, <1>2, <1>3 DEF Filled

\* Only Collect takes the main thread out of the join.
LEMMA OutOfJoin ==
    ASSUME TypeOK, [Next]_vars, pc[Main] = "join", pc'[Main] = "idle"
    PROVE  Collect
  <1>m. Main \in Threads /\ pc \in [Threads -> Points]
    BY ThreadSets DEF TypeOK
  <1>1. ~PublishClaim /\ ~PublishGen /\ ~CallSleeper /\ ~AllCalled /\ ~Shutdown /\ ~StopCall
    BY DEF PublishClaim, PublishGen, CallSleeper, AllCalled, Shutdown, StopCall
  <1>2. \A e \in scenario.emitters : ~FillAlone(e) /\ ~Prepare(e)
    BY DEF FillAlone, Prepare
  <1>3. ASSUME NEW t \in Threads, RunChunks(t) PROVE FALSE
    BY <1>3, <1>m DEF RunChunks, Look, Claim, Fill, Home
  <1>4. ASSUME NEW w \in Workers, WorkerNext(w) PROVE FALSE
    <2>1. w # Main
      BY ThreadSets
    <2> QED
      BY <1>4, <1>m, <2>1 DEF WorkerNext, Awake, Arm, Recheck, Wait, Woken
  <1>5. ~UNCHANGED vars
    BY DEF vars
  <1> QED
    BY <1>1, <1>2, <1>3, <1>4, <1>5 DEF Next, MainNext

\* What the pool filled is what the client's loop would have written, except
\* where a fill went wrong that was not compared; a fault or a difference found
\* retires the module.
THEOREM FillCorrect == Spec => FillIsClients
  <1> DEFINE Answer ==
        /\ DOMAIN real' = 0 .. job.em.count - 1
        /\ \A i \in DOMAIN real' : real'[i] = i \/ (real'[i] = Odd /\ ~job.compared)
        /\ Faulted \/ (job.compared /\ ~job.em.nan /\ Differs) => dead'
  <1>1. Init => DataInv
    BY InitClaimInv, ThreadSets DEF Init, DataInv, Staging, HasChunks, Running
  <1>2. ASSUME DataInv, [Next]_vars, pc[Main] = "join", pc'[Main] = "idle" PROVE Answer
    <2>1. Collect
      BY <1>2, OutOfJoin DEF DataInv, ClaimInv
    <2>2. job.em.count \in Nat \ {0}
      BY <1>2, ParticleAssumption DEF DataInv, ClaimInv, TypeOK, Emitter
    <2>3. CASE Faulted \/ job.em.nan
      BY <2>1, <2>3 DEF Collect, ClientFill
    <2>4. CASE ~(Faulted \/ job.em.nan) /\ job.compared
      BY <2>1, <2>4 DEF Collect, ClientFill
    <2>5. CASE ~(Faulted \/ job.em.nan) /\ ~job.compared
      <3>1. real' = Assembled
        BY <2>1, <2>5 DEF Collect
      <3>2. DOMAIN real' = 0 .. job.em.count - 1
        BY <3>1 DEF Assembled
      <3>3. Running /\ Fillers = {} /\ claim.next = job.chunks
        <4>1. Running /\ done >= job.chunks
          BY <1>2, <2>1 DEF Collect, Running
        <4>2. /\ claim.next \in Nat /\ claim.chunks \in Nat /\ done \in Nat
              /\ Cardinality(Fillers) \in Nat /\ (Cardinality(Fillers) = 0 <=> Fillers = {})
          BY <1>2, FillerCount DEF DataInv, ClaimInv, TypeOK, ClaimWord
        <4> QED
          BY <1>2, <4>1, <4>2 DEF DataInv, ClaimInv, Handed, Counted
      <3>4. \A c \in JobChunks : Filled(c)
        BY <1>2, <3>3 DEF DataInv, Staging, JobChunks
      <3>5. ASSUME NEW i \in 0 .. job.em.count - 1 PROVE real'[i] = i \/ real'[i] = Odd
        <4>1. job.chunks \in Nat \ {0}
          BY <1>2, <3>3 DEF DataInv, HasChunks, ClaimInv, TypeOK
        <4> QED
          BY <2>2, <2>5, <3>1, <3>4, <4>1, AssembledVertices
      <3> QED
        BY <2>5, <3>2, <3>5
    <2> QED
      BY <2>3, <2>4, <2>5
  <1>3. DataInv /\ [Next]_vars => [pc[Main] = "join" /\ pc'[Main] = "idle" => Answer]_vars
    BY <1>2
  <1> QED
    BY <1>1, <1>3, NextDataInv, PTL DEF Spec, FillIsClients

------------------------------------------------------------------------------
(* Lists of models. *)

Item == {"animate", "attach", "tracks", "join", "release"} \X Models

\* The order of the natural numbers.
Less == {p \in Nat \X Nat : p[1] < p[2]}

\* A set of natural numbers that is not empty has a least element.
LEMMA LeastNumber ==
    ASSUME NEW T \in SUBSET Nat, T # {}
    PROVE  \E n \in T : \A m \in T : n <= m
  <1>1. IsWellFoundedOn(Less, Nat)
    <2>1. Less = OpToRel(<, Nat)
      BY Zenon DEF Less, OpToRel
    <2> QED
      BY <2>1, NatLessThanWellFounded
  <1>2. PICK n \in T : \A m \in T : ~(<<m, n>> \in Less)
    BY <1>1, WFMin
  <1>3. ASSUME NEW m \in T
        PROVE  n <= m
    <2>1. <<m, n>> \in Nat \X Nat /\ n \in Nat /\ m \in Nat
      OBVIOUS
    <2>2. ~(m < n)
      BY <1>2, <2>1 DEF Less
    <2> QED
      BY <2>1, <2>2
  <1> QED
    BY <1>2, <1>3

------------------------------------------------------------------------------
(* The lists of models. *)

\* What the list of shown models becomes with its n-th entry.
Longer(s, f, n) ==
    IF n = 0 THEN << >>
    ELSE IF s[n] \in session.shown THEN Append(f[n - 1], s[n]) ELSE f[n - 1]

LEMMA LongerLocal ==
    ASSUME NEW s, NEW f, NEW g, NEW n \in Nat, n > 0 => f[n - 1] = g[n - 1]
    PROVE  Longer(s, f, n) = Longer(s, g, n)
  <1>1. n = 0 \/ n > 0
    OBVIOUS
  <1> QED
    BY <1>1, Zenon DEF Longer

LEMMA LongerExists ==
    ASSUME NEW s, NEW m \in Nat
    PROVE  \E f : f = [n \in 0 .. m |-> Longer(s, f, n)]
  <1> DEFINE Good(i) == \E f : f = [n \in 0 .. i |-> Longer(s, f, n)]
             Bad == {i \in Nat : ~Good(i)}
  <1> SUFFICES ASSUME Bad # {}
               PROVE  FALSE
    BY Zenon
  <1>1. PICK i \in Bad : \A j \in Bad : i <= j
    BY LeastNumber
  <1>2. CASE i = 0
    <2> DEFINE g == [n \in 0 .. 0 |-> << >>]
    <2>1. \A n \in 0 .. 0 : Longer(s, g, n) = << >>
      BY DEF Longer
    <2>2. g = [n \in 0 .. 0 |-> Longer(s, g, n)]
      BY <2>1
    <2> QED
      BY <1>2, <2>2
  <1>3. CASE i # 0
    <2>1. i - 1 \in Nat /\ i \in Nat /\ i - 1 < i
      BY <1>3
    <2>2. Good(i - 1)
      BY <1>1, <2>1
    <2>3. PICK g : g = [n \in 0 .. i - 1 |-> Longer(s, g, n)]
      BY <2>2
    <2> DEFINE h == [n \in 0 .. i |-> IF n = i THEN Longer(s, g, i) ELSE g[n]]
    <2>4. ASSUME NEW n \in 0 .. i
          PROVE  h[n] = Longer(s, h, n)
      <3>1. n > 0 => g[n - 1] = h[n - 1]
        BY <2>1
      <3>2. Longer(s, g, n) = Longer(s, h, n)
        BY <3>1, LongerLocal
      <3>3. CASE n = i
        BY <3>2, <3>3
      <3>4. CASE n # i
        <4>1. n \in 0 .. i - 1
          BY <2>1, <3>4
        <4>2. g[n] = Longer(s, g, n)
          BY <2>3, <4>1, Zenon
        <4> QED
          BY <3>2, <3>4, <4>2
      <3> QED
        BY <3>3, <3>4
    <2>5. h = [n \in 0 .. i |-> Longer(s, h, n)]
      BY <2>4
    <2> QED
      BY <2>1, <2>5
  <1> QED
    BY <1>2, <1>3

LEMMA ShownType ==
    ASSUME NEW s \in Seq(Models)
    PROVE  Shown(s) \in Seq(Models)
  <1> DEFINE IsList(f) == f = [n \in 0 .. Len(s) |-> Longer(s, f, n)]
             list == CHOOSE f : IsList(f)
  <1>1. Shown(s) = list[Len(s)]
    BY DEF Shown, Longer
  <1>2. Len(s) \in Nat /\ \A n \in 1 .. Len(s) : s[n] \in Models
    BY LenProperties, ElementOfSeq
  <1>3. \E f : IsList(f)
    BY <1>2, LongerExists, Zenon
  <1>4. IsList(list)
    <2> HIDE DEF IsList
    <2> QED
      BY <1>3, Zenon
  <1>5. \A n \in 0 .. Len(s) : list[n] = Longer(s, list, n)
    BY <1>4, Zenon
  <1> HIDE DEF list
  <1> DEFINE Bad == {n \in Nat : n <= Len(s) /\ list[n] \notin Seq(Models)}
  <1> SUFFICES ASSUME Bad # {}
               PROVE  FALSE
    BY <1>1, <1>2
  <1>6. PICK n \in Bad : \A j \in Bad : n <= j
    BY LeastNumber
  <1>7. CASE n = 0
    <2>1. 0 \in 0 .. Len(s)
      BY <1>2
    <2>2. list[0] = << >>
      BY <1>5, <2>1, Zenon DEF Longer
    <2>3. << >> \in Seq(Models)
      OBVIOUS
    <2> QED
      BY <1>6, <1>7, <2>2, <2>3, Zenon
  <1>8. CASE n # 0
    <2>1. n - 1 \in Nat /\ n \in 1 .. Len(s) /\ n - 1 < n
      BY <1>2, <1>8
    <2>2. list[n - 1] \in Seq(Models)
      BY <1>2, <1>6, <2>1
    <2>3. n \in 0 .. Len(s)
      BY <2>1
    <2>4. list[n] = Append(list[n - 1], s[n]) \/ list[n] = list[n - 1]
      BY <1>5, <1>8, <2>3, Zenon DEF Longer
    <2>5. Append(list[n - 1], s[n]) \in Seq(Models)
      BY <1>2, <2>1, <2>2, AppendProperties
    <2> QED
      BY <1>6, <2>2, <2>4, <2>5
  <1> QED
    BY <1>7, <1>8

LEMMA Part ==
    ASSUME NEW S, NEW s \in Seq(S), NEW a \in Int, NEW b \in Int, 1 <= a, b <= Len(s)
    PROVE  SubSeq(s, a, b) \in Seq(S)
  <1>1. Len(s) \in Nat /\ \A i \in 1 .. Len(s) : s[i] \in S
    BY LenProperties, ElementOfSeq
  <1>2. \A i \in a .. b : s[i] \in S
    BY <1>1
  <1> QED
    BY <1>2, SubSeqProperties

LEMMA KidsType ==
    ASSUME session \in Sessions, NEW m
    PROVE  Kids(m) \in Seq(Models) /\ Shown(Kids(m)) \in Seq(Models) /\ Tasks(m) \in Seq(Models)
           /\ Len(Kids(m)) \in Nat /\ Len(Tasks(m)) \in Nat
  <1>1. Kids(m) \in Seq(Models)
    BY SceneAssumption DEF Kids, IsSession
  <1>2. Shown(Kids(m)) \in Seq(Models)
    BY <1>1, ShownType
  <1> DEFINE all == Shown(Kids(m))
             n == UpTo(Len(all), MaxTasks)
  <1>3. n \in Nat /\ n <= Len(all)
    BY <1>2, LenProperties, SceneAssumption DEF UpTo
  <1>4. SubSeq(all, 1, n) \in Seq(Models)
    BY <1>2, <1>3, Part
  <1> QED
    BY <1>1, <1>2, <1>4, LenProperties DEF Tasks

\* The items of a list of models.
LEMMA AnimateType ==
    ASSUME NEW s \in Seq(Models)
    PROVE  /\ Animate(s) \in Seq(Item) /\ Len(Animate(s)) = Len(s) /\ Len(s) \in Nat
           /\ \A k \in 1 .. Len(s) : Animate(s)[k][1] = "animate"
  <1>1. Len(s) \in Nat /\ \A k \in 1 .. Len(s) : s[k] \in Models
    BY LenProperties, ElementOfSeq
  <1>2. Animate(s) \in [1 .. Len(s) -> Item]
    BY <1>1 DEF Animate, Item
  <1>3. Animate(s) \in Seq(Item) /\ Len(Animate(s)) = Len(s)
    <2>1. Animate(s) \in Seq(Item)
      BY <1>1, <1>2
    <2> QED
      BY <1>1, <1>2, <2>1, LenProperties
  <1> QED
    BY <1>1, <1>3 DEF Animate

------------------------------------------------------------------------------
(* The slices. *)

\* What an integer quotient and its remainder are.
LEMMA Division ==
    ASSUME NEW a \in Nat, NEW n \in Nat \ {0}
    PROVE  a \div n \in Nat /\ a % n \in 0 .. n - 1 /\ a = n * (a \div n) + (a % n)
  OBVIOUS

\* The slice of the k-th participant lies within the list.
LEMMA SliceType ==
    ASSUME NEW s \in Seq(Models), NEW n \in 1 .. Len(s), NEW k \in 1 .. n
    PROVE  Slice(s, k, n) \in Seq(Models)
  <1> DEFINE base == Len(s) \div n
             rem == Len(s) % n
             from == (k - 1) * base + (IF k - 1 < rem THEN k - 1 ELSE rem)
             size == base + (IF k <= rem THEN 1 ELSE 0)
  <1>1. Len(s) \in Nat /\ n \in Nat \ {0} /\ k \in Nat
    BY LenProperties
  <1>2. base \in Nat /\ rem \in 0 .. n - 1 /\ Len(s) = n * base + rem
    BY <1>1, Division
  <1>3. Slice(s, k, n) = SubSeq(s, from + 1, from + size)
    BY DEF Slice
  <1> HIDE DEF base, rem
  <1>4. (k - 1) * base \in Nat /\ k * base = (k - 1) * base + base
    BY <1>1, <1>2
  <1>5. k * base <= n * base
    BY <1>1, <1>2
  <1> DEFINE b1 == (k - 1) * base
             kb == k * base
             nb == n * base
  <1>6. b1 \in Nat /\ kb = b1 + base /\ kb <= nb /\ Len(s) = nb + rem /\ nb \in Nat
    BY <1>1, <1>2, <1>4, <1>5
  <1>7. from = b1 + (IF k - 1 < rem THEN k - 1 ELSE rem)
    OBVIOUS
  <1> HIDE DEF b1, kb, nb, from, size
  <1>8. from \in Nat /\ size \in Nat /\ from + size <= Len(s)
    <2>1. CASE k <= rem
      <3>1. from = b1 + (k - 1) /\ size = base + 1
        BY <1>1, <1>2, <1>7, <2>1 DEF size
      <3> QED
        BY <1>1, <1>2, <1>6, <2>1, <3>1
    <2>2. CASE ~(k <= rem)
      <3>1. from = b1 + rem /\ size = base
        BY <1>1, <1>2, <1>7, <2>2 DEF size
      <3> QED
        BY <1>1, <1>2, <1>6, <2>2, <3>1
    <2> QED
      BY <2>1, <2>2
  <1> QED
    BY <1>1, <1>3, <1>8, Part
------------------------------------------------------------------------------
(* The workers a fork uses. *)

\* A number below m in place of each member of a finite set of numbers: the ranks
\* are 1, 2, ..., one apiece.
LEMMA RankType ==
    ASSUME NEW pool, IsFiniteSet(pool), pool \subseteq Nat, NEW w \in pool
    PROVE  Rank(w, pool) \in 1 .. Cardinality(pool)
  <1> DEFINE L == {v \in pool : v <= w}
  <1>1. IsFiniteSet(L) /\ Cardinality(L) <= Cardinality(pool)
    BY FS_Subset
  <1>2. w \in L
    OBVIOUS
  <1>3. Cardinality(L) \in Nat /\ Cardinality(L) # 0 /\ Cardinality(pool) \in Nat
    BY <1>1, <1>2, FS_CardinalityType, FS_EmptySet
  <1> QED
    BY <1>1, <1>3 DEF Rank

LEMMA RankGrows ==
    ASSUME NEW pool, IsFiniteSet(pool), pool \subseteq Nat, NEW v \in pool, NEW w \in pool, v < w
    PROVE  Rank(v, pool) < Rank(w, pool)
  <1> DEFINE L(x) == {u \in pool : u <= x}
  <1>1. IsFiniteSet(L(v)) /\ IsFiniteSet(L(w))
    BY FS_Subset
  <1>2. L(v) \subseteq L(w) /\ w \in L(w) /\ w \notin L(v)
    <2>1. v \in Nat /\ w \in Nat /\ \A u \in pool : u \in Nat
      OBVIOUS
    <2>2. \A u \in pool : u <= v => u <= w
      BY <2>1
    <2>3. L(v) \subseteq L(w)
      BY <2>2
    <2>4. w \in L(w)
      BY <2>1
    <2>5. ~(w <= v)
      BY <2>1
    <2>6. w \notin L(v)
      BY <2>5
    <2> QED
      BY <2>3, <2>4, <2>6
  <1>3. /\ Cardinality(L(v)) <= Cardinality(L(w))
        /\ Cardinality(L(v)) # Cardinality(L(w))
    <2>1. L(v) # L(w)
      BY <1>2
    <2> HIDE DEF L
    <2> QED
      BY <1>1, <1>2, <2>1, FS_Subset
  <1>4. Cardinality(L(v)) \in Nat /\ Cardinality(L(w)) \in Nat
    BY <1>1, FS_CardinalityType
  <1> QED
    BY <1>3, <1>4 DEF Rank

\* As many workers have a rank below n as there are such ranks.
LEMMA RanksBelow ==
    ASSUME NEW pool, IsFiniteSet(pool), pool \subseteq Nat, NEW n \in 1 .. Cardinality(pool) + 1
    PROVE  /\ IsFiniteSet({w \in pool : Rank(w, pool) < n})
           /\ Cardinality({w \in pool : Rank(w, pool) < n}) = n - 1
  <1> DEFINE N == Cardinality(pool)
             rank == [w \in pool |-> Rank(w, pool)]
             below == {w \in pool : Rank(w, pool) < n}
             part == [w \in below |-> Rank(w, pool)]
  <1>1. N \in Nat /\ IsFiniteSet(1 .. N) /\ Cardinality(1 .. N) = N
    <2>1. N \in Nat
      BY FS_CardinalityType
    <2> HIDE DEF N
    <2>2. IsFiniteSet(1 .. N) /\ Cardinality(1 .. N) = IF 1 > N THEN 0 ELSE N - 1 + 1
      BY <2>1, FS_Interval
    <2> QED
      BY <2>1, <2>2
  <1>2. \A v, w \in pool : Rank(v, pool) = Rank(w, pool) => v = w
    <2> SUFFICES ASSUME NEW v \in pool, NEW w \in pool, v # w
                 PROVE  Rank(v, pool) # Rank(w, pool)
      OBVIOUS
    <2>1. v \in Nat /\ w \in Nat
      OBVIOUS
    <2>2. v < w \/ w < v
      BY <2>1
    <2>3. Rank(v, pool) \in 1 .. N /\ Rank(w, pool) \in 1 .. N
      BY RankType
    <2>4. Rank(v, pool) < Rank(w, pool) \/ Rank(w, pool) < Rank(v, pool)
      BY <2>2, RankGrows
    <2> QED
      BY <1>1, <2>3, <2>4
  <1>3. rank \in Injection(pool, 1 .. N)
    <2>1. rank \in [pool -> 1 .. N]
      BY RankType
    <2> QED
      BY <1>2, <2>1 DEF Injection, IsInjective
  <1>4. rank \in Surjection(pool, 1 .. N)
    BY <1>1, <1>3, FS_Injection
  <1>5. IsFiniteSet(below)
    BY FS_Subset
  <1>6. part \in Bijection(below, 1 .. n - 1)
    <2>1. part \in [below -> 1 .. n - 1]
      <3>1. ASSUME NEW w \in below
            PROVE  Rank(w, pool) \in 1 .. n - 1
        <4>1. Rank(w, pool) \in 1 .. N /\ Rank(w, pool) < n
          BY RankType
        <4> QED
          BY <1>1, <4>1
      <3> QED
        BY <3>1
    <2>2. \A v, w \in below : part[v] = part[w] => v = w
      BY <1>2
    <2>3. \A i \in 1 .. n - 1 : \E w \in below : part[w] = i
      <3> SUFFICES ASSUME NEW i \in 1 .. n - 1
                   PROVE  \E w \in below : Rank(w, pool) = i
        OBVIOUS
      <3>1. i \in 1 .. N
        BY <1>1
      <3>2. PICK w \in pool : rank[w] = i
        BY <1>4, <3>1 DEF Surjection
      <3> QED
        BY <3>2
    <2> QED
      BY <2>1, <2>2, <2>3 DEF Bijection, Injection, Surjection, IsInjective
  <1>7. Cardinality(1 .. n - 1) = Cardinality(below)
    BY <1>5, <1>6, FS_Bijection DEF ExistsBijection
  <1>8. n - 1 \in Nat /\ Cardinality(1 .. n - 1) = IF 1 > n - 1 THEN 0 ELSE n - 1 - 1 + 1
    BY <1>1, FS_Interval
  <1> QED
    BY <1>5, <1>7, <1>8

------------------------------------------------------------------------------
(* What a thread has to do. *)

\* The items of one that is not in charge of the children's pool.
Plain(q) == \A k \in 1 .. Len(q) : q[k][1] \in {"animate", "attach"}

InCharge == {"tracks", "join", "release"} \X Models

\* Item e, of one that is, is in the list, once.
One(q, e) == \E k \in 1 .. Len(q) : /\ q[k] = e
                                    /\ \A j \in 1 .. Len(q) \ {k} : q[j][1] \in {"animate", "attach"}

\* The list with the first item replaced.
Onward(more, q) == more \o Tail(q)

LEMMA OnwardItems ==
    ASSUME NEW q \in Seq(Item), q # << >>, NEW more \in Seq(Item)
    PROVE  /\ Onward(more, q) \in Seq(Item) /\ Len(q) \in Nat \ {0} /\ Len(more) \in Nat
           /\ Head(q) = q[1]
           /\ Len(Onward(more, q)) = Len(more) + (Len(q) - 1)
           /\ \A k \in 1 .. Len(more) : Onward(more, q)[k] = more[k]
           /\ \A k \in 2 .. Len(q) : Onward(more, q)[Len(more) + (k - 1)] = q[k]
           /\ \A j \in 1 .. Len(Onward(more, q)) :
                 j \in 1 .. Len(more) \/ \E k \in 2 .. Len(q) : j = Len(more) + (k - 1)
  <1>1. /\ Len(q) \in Nat /\ Len(q) # 0 /\ Len(more) \in Nat
        /\ Tail(q) \in Seq(Item) /\ Len(Tail(q)) = Len(q) - 1 /\ Head(q) = q[1]
        /\ \A i \in 1 .. Len(Tail(q)) : Tail(q)[i] = q[i + 1]
    BY LenProperties, EmptySeq, HeadTailProperties
  <1>2. /\ Onward(more, q) \in Seq(Item)
        /\ Len(Onward(more, q)) = Len(more) + Len(Tail(q))
        /\ \A i \in 1 .. Len(more) + Len(Tail(q)) :
              Onward(more, q)[i] = IF i <= Len(more) THEN more[i] ELSE Tail(q)[i - Len(more)]
    BY <1>1, ConcatProperties DEF Onward
  <1> DEFINE l == Len(q)
             m == Len(more)
             r == Onward(more, q)
  <1>3. l \in Nat \ {0} /\ m \in Nat /\ Len(r) = m + (l - 1)
    BY <1>1, <1>2
  <1>4. \A k \in 1 .. m : r[k] = more[k]
    BY <1>1, <1>2
  <1>5. ASSUME NEW k \in 2 .. l
        PROVE  r[m + (k - 1)] = q[k]
    <2>1. m + (k - 1) \in 1 .. m + Len(Tail(q)) /\ ~(m + (k - 1) <= m)
      BY <1>1, <1>3
    <2>2. r[m + (k - 1)] = Tail(q)[(m + (k - 1)) - m]
      BY <1>2, <2>1
    <2>3. (m + (k - 1)) - m = k - 1 /\ k - 1 \in 1 .. Len(Tail(q)) /\ (k - 1) + 1 = k
      BY <1>1, <1>3
    <2> QED
      BY <1>1, <2>2, <2>3
  <1>6. ASSUME NEW j \in 1 .. Len(r)
        PROVE  j \in 1 .. m \/ \E k \in 2 .. l : j = m + (k - 1)
    <2>1. CASE j <= m
      BY <2>1
    <2>2. CASE ~(j <= m)
      <3>1. (j - m) + 1 \in 2 .. l /\ j = m + (((j - m) + 1) - 1)
        BY <1>3, <2>2
      <3> QED
        BY <3>1
    <2> QED
      BY <2>1, <2>2
  <1> QED
    BY <1>1, <1>2, <1>3, <1>4, <1>5, <1>6

\* A step of a thread that is not in charge, to something plain.
LEMMA OnwardPlain ==
    ASSUME NEW q \in Seq(Item), q # << >>, NEW more \in Seq(Item), Plain(more),
           \A k \in 2 .. Len(q) : q[k][1] \in {"animate", "attach"}
    PROVE  Plain(Onward(more, q))
  <1> SUFFICES ASSUME NEW j \in 1 .. Len(Onward(more, q))
               PROVE  Onward(more, q)[j][1] \in {"animate", "attach"}
    BY DEF Plain
  <1>1. CASE j \in 1 .. Len(more)
    <2>1. Onward(more, q)[j] = more[j]
      BY <1>1, OnwardItems
    <2> QED
      BY <1>1, <2>1 DEF Plain
  <1>2. CASE \E k \in 2 .. Len(q) : j = Len(more) + (k - 1)
    <2>1. PICK k \in 2 .. Len(q) : j = Len(more) + (k - 1)
      BY <1>2
    <2>2. Onward(more, q)[j] = q[k]
      BY <2>1, OnwardItems
    <2> QED
      BY <2>2
  <1> QED
    BY <1>1, <1>2, OnwardItems

\* One in charge takes a step of another kind: the item stays where it is.
LEMMA OnwardStays ==
    ASSUME NEW q \in Seq(Item), q # << >>, NEW more \in Seq(Item), Plain(more),
           NEW e \in InCharge, One(q, e), Head(q)[1] \in {"animate", "attach"}
    PROVE  One(Onward(more, q), e)
  <1>1. PICK k \in 1 .. Len(q) : /\ q[k] = e
                                 /\ \A j \in 1 .. Len(q) \ {k} : q[j][1] \in {"animate", "attach"}
    BY DEF One
  <1>2. e[1] \in {"tracks", "join", "release"}
    BY DEF InCharge
  <1>a. /\ Len(q) \in Nat /\ Len(more) \in Nat
        /\ Len(Onward(more, q)) = Len(more) + (Len(q) - 1)
        /\ Head(q) = q[1]
    BY OnwardItems
  <1>b. \A j \in 1 .. Len(Onward(more, q)) :
           j \in 1 .. Len(more) \/ \E i \in 2 .. Len(q) : j = Len(more) + (i - 1)
    BY OnwardItems
  <1>3. k # 1 /\ Len(q) \in Nat /\ Len(more) \in Nat
    BY <1>1, <1>2, <1>a
  <1>4. k \in 2 .. Len(q) /\ Len(more) + (k - 1) \in 1 .. Len(Onward(more, q))
    BY <1>3, <1>a
  <1>5. Onward(more, q)[Len(more) + (k - 1)] = e
    BY <1>1, <1>4, OnwardItems
  <1>6. ASSUME NEW j \in 1 .. Len(Onward(more, q)) \ {Len(more) + (k - 1)}
        PROVE  Onward(more, q)[j][1] \in {"animate", "attach"}
    <2>1. CASE j \in 1 .. Len(more)
      <3>1. Onward(more, q)[j] = more[j]
        BY <2>1, OnwardItems
      <3> QED
        BY <2>1, <3>1 DEF Plain
    <2>2. CASE \E i \in 2 .. Len(q) : j = Len(more) + (i - 1)
      <3>1. PICK i \in 2 .. Len(q) : j = Len(more) + (i - 1)
        BY <2>2
      <3>2. Onward(more, q)[j] = q[i]
        BY <3>1, OnwardItems
      <3>3. i # k /\ i \in 1 .. Len(q)
        BY <3>1, <1>3
      <3> QED
        BY <1>1, <3>2, <3>3
    <2> QED
      BY <2>1, <2>2, <1>b
  <1> QED
    BY <1>4, <1>5, <1>6 DEF One

\* One in charge at the item itself: what is below it is plain.
LEMMA InChargeNow ==
    ASSUME NEW q \in Seq(Item), q # << >>, NEW e \in InCharge, One(q, e),
           Head(q)[1] \in {"tracks", "join", "release"}
    PROVE  Head(q) = e /\ \A k \in 2 .. Len(q) : q[k][1] \in {"animate", "attach"}
  <1>1. PICK k \in 1 .. Len(q) : /\ q[k] = e
                                 /\ \A j \in 1 .. Len(q) \ {k} : q[j][1] \in {"animate", "attach"}
    BY DEF One
  <1>2. Head(q) = q[1] /\ Len(q) \in Nat \ {0}
    BY LenProperties, EmptySeq, HeadTailProperties
  <1>3. k = 1
    BY <1>1, <1>2
  <1> QED
    BY <1>1, <1>2, <1>3

\* A thread comes into charge, or its item changes, above what is plain.
LEMMA OnwardTakes ==
    ASSUME NEW q \in Seq(Item), q # << >>, NEW more \in Seq(Item), Plain(more),
           NEW e \in InCharge, \A k \in 2 .. Len(q) : q[k][1] \in {"animate", "attach"}
    PROVE  /\ more \o << e >> \in Seq(Item)
           /\ One(Onward(more \o << e >>, q), e)
  <1> DEFINE all == more \o << e >>
             n == Len(more) + 1
  <1>1. e \in Item
    BY DEF InCharge, Item
  <1>2. /\ << e >> \in Seq(Item) /\ Len(<< e >>) = 1 /\ << e >>[1] = e /\ Len(more) \in Nat
    BY <1>1, LenProperties
  <1>3. /\ all \in Seq(Item) /\ Len(all) = n
        /\ \A i \in 1 .. n : all[i] = IF i <= Len(more) THEN more[i] ELSE << e >>[i - Len(more)]
    BY <1>2, ConcatProperties
  <1>4. all[n] = e /\ \A i \in 1 .. Len(more) : all[i] = more[i]
    BY <1>2, <1>3
  <1> HIDE DEF all
  <1>a. /\ Len(q) \in Nat \ {0} /\ Len(Onward(all, q)) = Len(all) + (Len(q) - 1)
        /\ \A i \in 1 .. Len(all) : Onward(all, q)[i] = all[i]
    BY <1>3, OnwardItems
  <1>b. \A j \in 1 .. Len(Onward(all, q)) :
           j \in 1 .. Len(all) \/ \E i \in 2 .. Len(q) : j = Len(all) + (i - 1)
    BY <1>3, OnwardItems
  <1>5. n \in 1 .. Len(Onward(all, q)) /\ n \in 1 .. Len(all) /\ Onward(all, q)[n] = e
    BY <1>2, <1>3, <1>4, <1>a
  <1>6. ASSUME NEW j \in 1 .. Len(Onward(all, q)) \ {n}
        PROVE  Onward(all, q)[j][1] \in {"animate", "attach"}
    <2>1. CASE j \in 1 .. Len(all)
      <3>1. Onward(all, q)[j] = all[j] /\ j \in 1 .. Len(more)
        BY <1>2, <1>3, <2>1, <1>a
      <3> QED
        BY <1>4, <3>1 DEF Plain
    <2>2. CASE \E i \in 2 .. Len(q) : j = Len(all) + (i - 1)
      <3>1. PICK i \in 2 .. Len(q) : j = Len(all) + (i - 1)
        BY <2>2
      <3>2. Onward(all, q)[j] = q[i]
        BY <1>3, <3>1, OnwardItems
      <3> QED
        BY <3>2
    <2> QED
      BY <2>1, <2>2, <1>b
  <1>7. One(Onward(all, q), e)
    BY <1>5, <1>6 DEF One
  <1> QED
    BY <1>3, <1>7 DEF all

------------------------------------------------------------------------------
(* The invariant. *)

Types ==
    /\ session \in Sessions /\ recorded \in Seq(Models)
    /\ mpc \in {"idle", "loop", "join", "solo"} /\ deferring \in BOOLEAN
    /\ todo \in [SceneThreads -> Seq(Item)]
    /\ share \in [PoolWorkers -> Seq(Models)] /\ signal \in [PoolWorkers -> BOOLEAN]
    /\ working \subseteq PoolWorkers
    /\ active \in [{"roots", "kids"} -> Nat]

\* The workers of a pool that were called and have not finished.
Busy(pool) == {w \in pool : signal[w] \/ w \in working}

\* The countdown of each pool is the number of these, and a worker between slices
\* has nothing to do.
PoolsInv ==
    /\ active["roots"] = Cardinality(Busy(RootWorkers))
    /\ active["kids"] = Cardinality(Busy(KidWorkers))
    /\ \A w \in PoolWorkers : /\ ~(signal[w] /\ w \in working)
                              /\ w \notin working => todo[w] = << >>

\* The roots' pool runs only while the main thread is in the join, and the client's
\* worker only in a pass that is the client's.
PassInv ==
    /\ mpc # "join" => active["roots"] = 0
    /\ mpc = "idle" => todo[MainThread] = << >>
    /\ mpc # "loop" \/ deferring => todo[Client] = << >>
    /\ mpc # "loop" => ~deferring

\* The children's pool is nobody's, or it is one thread's, which is no worker of
\* that pool and holds the item that will give it back.
Free ==
    /\ ~poolInUse /\ detached = {} /\ active["kids"] = 0
    /\ \A t \in SceneThreads : Plain(todo[t])

InPool(t, e) ==
    /\ One(todo[t], e)
    /\ \A u \in SceneThreads \ {t} : Plain(todo[u])
    /\ active["kids"] # 0 => e[1] = "join"
    /\ detached = IF e[1] = "tracks" THEN {e[2]} ELSE {}

Taken == /\ poolInUse /\ session.kidsOn
         /\ \E t \in SceneThreads \ KidWorkers, e \in InCharge : InPool(t, e)

KidsInv == Free \/ Taken

\* No fault under a worker of the roots while the children's module is on: the
\* pool would stay in use.
Quiet == ~(session.kidsOn /\ "fault" \in session.events)

SceneInv == Types /\ PoolsInv /\ PassInv /\ KidsInv

------------------------------------------------------------------------------
(* Threads and pools. *)

LEMMA ThreadFacts ==
    /\ MainThread \in SceneThreads /\ Client \in SceneThreads /\ MainThread # Client
    /\ MainThread \notin PoolWorkers /\ Client \notin PoolWorkers /\ PoolWorkers \subseteq SceneThreads
    /\ RootWorkers \subseteq PoolWorkers /\ KidWorkers \subseteq PoolWorkers
    /\ RootWorkers \cap KidWorkers = {} /\ PoolWorkers = RootWorkers \cup KidWorkers
  BY SceneAssumption DEF PoolWorkers, SceneThreads

LEMMA BusyFinite ==
    /\ IsFiniteSet(Busy(RootWorkers)) /\ IsFiniteSet(Busy(KidWorkers))
    /\ Cardinality(Busy(RootWorkers)) \in Nat /\ Cardinality(Busy(KidWorkers)) \in Nat
    /\ Cardinality(Busy(RootWorkers)) = 0 <=> Busy(RootWorkers) = {}
    /\ Cardinality(Busy(KidWorkers)) = 0 <=> Busy(KidWorkers) = {}
  <1>1. IsFiniteSet(RootWorkers) /\ IsFiniteSet(KidWorkers)
    BY SceneAssumption
  <1>2. Busy(RootWorkers) \subseteq RootWorkers /\ Busy(KidWorkers) \subseteq KidWorkers
    BY DEF Busy
  <1>3. IsFiniteSet(Busy(RootWorkers)) /\ IsFiniteSet(Busy(KidWorkers))
    BY <1>1, <1>2, FS_Subset
  <1> QED
    BY <1>3, FS_CardinalityType, FS_EmptySet

\* A worker with something to do, or past its wait, is counted.
LEMMA WorkingIsCounted ==
    ASSUME Types, PoolsInv, NEW w \in PoolWorkers, w \in working \/ todo[w] # << >>
    PROVE  /\ w \in working
           /\ w \in RootWorkers => active["roots"] # 0
           /\ w \in KidWorkers => active["kids"] # 0
  <1>1. w \in working
    BY DEF PoolsInv
  <1>2. w \in RootWorkers => w \in Busy(RootWorkers)
    BY <1>1 DEF Busy
  <1>3. w \in KidWorkers => w \in Busy(KidWorkers)
    BY <1>1 DEF Busy
  <1> QED
    BY <1>1, <1>2, <1>3, BusyFinite DEF PoolsInv

\* What a fork does: the workers it calls are as many as it counts.
LEMMA ForkEffect ==
    ASSUME Types, NEW s \in Seq(Models), Len(s) >= 1, NEW pool \in {RootWorkers, KidWorkers}, NEW name,
           Fork(s, pool, name)
    PROVE  /\ OwnSlice(s, pool) \in Seq(Models)
           /\ share' \in [PoolWorkers -> Seq(Models)] /\ working' = working
           /\ signal' \in [PoolWorkers -> BOOLEAN]
           /\ name \in {"roots", "kids"} => active' \in [{"roots", "kids"} -> Nat]
           /\ \E used \in SUBSET pool :
                 /\ IsFiniteSet(used) /\ Cardinality(used) \in Nat
                 /\ active' = [active EXCEPT ![name] = Cardinality(used)]
                 /\ signal' = [w \in PoolWorkers |-> w \in used \/ signal[w]]
  <1> DEFINE n == Participants(s, pool)
             used == {w \in pool : Rank(w, pool) < n}
  <1>1. IsFiniteSet(pool) /\ pool \subseteq Nat /\ pool \subseteq PoolWorkers /\ Cardinality(pool) \in Nat
    BY SceneAssumption, FS_CardinalityType DEF PoolWorkers
  <1>2. Len(s) \in Nat
    BY LenProperties
  <1>3. n \in 1 .. Len(s) /\ n \in 1 .. Cardinality(pool) + 1
    BY <1>1, <1>2 DEF Participants
  <1>4. IsFiniteSet(used) /\ Cardinality(used) = n - 1
    BY <1>1, <1>3, RanksBelow
  <1>5. OwnSlice(s, pool) \in Seq(Models)
    <2>1. n \in 1 .. n
      BY <1>3
    <2> QED
      BY <1>3, <2>1, SliceType DEF OwnSlice
  <1>6. ASSUME NEW w \in used
        PROVE  Slice(s, Rank(w, pool), n) \in Seq(Models)
    <2>1. Rank(w, pool) \in 1 .. Cardinality(pool) /\ Rank(w, pool) < n
      BY <1>1, RankType
    <2>2. Rank(w, pool) \in 1 .. n
      BY <1>1, <1>3, <2>1
    <2> QED
      BY <1>3, <2>2, SliceType
  <1>7. /\ share' = [w \in PoolWorkers |-> IF w \in used THEN Slice(s, Rank(w, pool), n) ELSE share[w]]
        /\ active' = [active EXCEPT ![name] = n - 1]
        /\ signal' = [w \in PoolWorkers |-> w \in used \/ signal[w]]
        /\ working' = working
    BY DEF Fork
  <1> HIDE DEF used, n
  <1>8. share' \in [PoolWorkers -> Seq(Models)]
    BY <1>6, <1>7 DEF Types
  <1>9. Cardinality(used) \in Nat /\ used \subseteq pool
    BY <1>4, FS_CardinalityType DEF used
  <1>10. signal' \in [PoolWorkers -> BOOLEAN]
    <2>1. \A w \in PoolWorkers : (w \in used \/ signal[w]) \in BOOLEAN
      OBVIOUS
    <2> QED
      BY <1>7, <2>1, Zenon
  <1>11. name \in {"roots", "kids"} => active' \in [{"roots", "kids"} -> Nat]
    <2>1. n - 1 \in Nat
      BY <1>4, <1>9
    <2>2. active' = [active EXCEPT ![name] = n - 1]
      BY <1>7
    <2> QED
      BY <2>1, <2>2 DEF Types
  <1> QED
    BY <1>4, <1>5, <1>7, <1>8, <1>9, <1>10, <1>11

------------------------------------------------------------------------------
(* What the steps put on the lists. *)

LEMMA PlainList ==
    ASSUME NEW s \in Seq(Models)
    PROVE  Animate(s) \in Seq(Item) /\ Plain(Animate(s))
  BY AnimateType DEF Plain

LEMMA NothingPlain == << >> \in Seq(Item) /\ Plain(<< >>)
  BY DEF Plain

LEMMA HalvesType ==
    ASSUME NEW s \in Seq(Models)
    PROVE  AtOdd(s) \in Seq(Models) /\ AtEven(s) \in Seq(Models)
  <1>1. Len(s) \in Nat /\ \A i \in 1 .. Len(s) : s[i] \in Models
    BY LenProperties, ElementOfSeq
  <1> DEFINE h == Len(s) \div 2
             g == (Len(s) + 1) \div 2
  <1>2. h \in Nat /\ 2 * h <= Len(s) /\ g \in Nat /\ 2 * g <= Len(s) + 1
    BY <1>1
  <1>3. AtOdd(s) = [i \in 1 .. h |-> s[2 * i]] /\ AtEven(s) = [i \in 1 .. g |-> s[2 * i - 1]]
    BY DEF AtOdd, AtEven
  <1> HIDE DEF h, g
  <1>4. \A i \in 1 .. h : s[2 * i] \in Models
    <2> SUFFICES ASSUME NEW i \in 1 .. h
                 PROVE  s[2 * i] \in Models
      OBVIOUS
    <2>1. 2 * i \in 1 .. Len(s)
      BY <1>1, <1>2
    <2> QED
      BY <1>1, <2>1
  <1>5. \A i \in 1 .. g : s[2 * i - 1] \in Models
    <2> SUFFICES ASSUME NEW i \in 1 .. g
                 PROVE  s[2 * i - 1] \in Models
      OBVIOUS
    <2>1. 2 * i - 1 \in 1 .. Len(s)
      BY <1>1, <1>2
    <2> QED
      BY <1>1, <2>1
  <1> QED
    BY <1>2, <1>3, <1>4, <1>5

\* What a pass begins with.
LEMMA DispatchEffect ==
    ASSUME SceneInv, Dispatch
    PROVE  /\ todo' \in [SceneThreads -> Seq(Item)]
           /\ todo[MainThread] = << >> /\ todo[Client] = << >>
           /\ Plain(todo'[MainThread]) /\ Plain(todo'[Client])
           /\ \A u \in SceneThreads \ {MainThread, Client} : todo'[u] = todo[u]
           /\ recorded' \in Seq(Models) /\ deferring' \in BOOLEAN
           /\ deferring' => todo'[Client] = << >>
           /\ mpc = "idle" /\ mpc' = "loop"
           /\ UNCHANGED <<session, poolInUse, detached, pools>>
  <1>1. PICK n \in session.sizes : roots' = SubSeq(session.roots, 1, n)
    BY DEF Dispatch
  <1>2. session.roots \in Seq(Models) /\ n \in 0 .. Len(session.roots) /\ Len(session.roots) \in Nat
    BY SceneAssumption, LenProperties DEF SceneInv, Types, IsSession
  <1>3. roots' \in Seq(Models)
    BY <1>1, <1>2, Part
  <1> DEFINE o == AtOdd(roots')
             v == AtEven(roots')
  <1>4. o \in Seq(Models) /\ v \in Seq(Models)
    BY <1>3, HalvesType
  <1> HIDE DEF o, v
  <1>5. /\ mpc = "idle" /\ mpc' = "loop" /\ UNCHANGED <<session, poolInUse, detached, pools>>
        /\ deferring \in BOOLEAN /\ ~deferring /\ todo[MainThread] = << >> /\ todo[Client] = << >>
        /\ todo \in [SceneThreads -> Seq(Item)] /\ recorded \in Seq(Models)
    BY DEF Dispatch, SceneInv, PassInv, Types
  <1>6. CASE ClientsWay(roots')
    <2>1. /\ todo' = [todo EXCEPT ![Client] = Animate(o), ![MainThread] = Animate(v)]
          /\ recorded' = recorded /\ deferring' = deferring
      BY <1>6 DEF ClientsWay, o, v
    <2>2. /\ todo' \in [SceneThreads -> Seq(Item)]
          /\ todo'[Client] = Animate(o) /\ todo'[MainThread] = Animate(v)
          /\ \A u \in SceneThreads \ {MainThread, Client} : todo'[u] = todo[u]
      BY <1>4, <1>5, <2>1, PlainList, ThreadFacts
    <2> QED
      BY <1>4, <1>5, <2>1, <2>2, PlainList
  <1>7. CASE RecordAll(roots')
    <2> DEFINE all == o \o v
               fit == IF Len(all) < MaxRoots THEN Len(all) ELSE MaxRoots
               rest == SubSeq(all, fit + 1, Len(all))
    <2>1. /\ deferring' = TRUE /\ recorded' = SubSeq(all, 1, fit)
          /\ todo' = [todo EXCEPT ![MainThread] = Animate(rest)]
      BY <1>7 DEF RecordAll, o, v
    <2>2. all \in Seq(Models)
      BY <1>4, ConcatProperties
    <2> HIDE DEF all
    <2>3. Len(all) \in Nat /\ fit \in Nat /\ fit <= Len(all)
      BY <2>2, LenProperties, SceneAssumption
    <2> HIDE DEF fit
    <2>4. SubSeq(all, 1, fit) \in Seq(Models)
      BY <2>2, <2>3, Part
    <2>5. rest \in Seq(Models)
      BY <2>2, <2>3, Part
    <2> HIDE DEF rest
    <2>6. /\ todo' \in [SceneThreads -> Seq(Item)]
          /\ todo'[MainThread] = Animate(rest)
          /\ \A u \in SceneThreads \ {MainThread} : todo'[u] = todo[u]
      BY <1>5, <2>1, <2>5, PlainList, ThreadFacts
    <2>7. todo'[Client] = << >>
      BY <1>5, <2>6, ThreadFacts
    <2> QED
      BY <1>5, <2>1, <2>4, <2>5, <2>6, <2>7, PlainList, NothingPlain
  <1> QED
    BY <1>6, <1>7 DEF Dispatch

\* The fork of the children: the thread keeps its own slice above the join.
LEMMA AttachForkEffect ==
    ASSUME Types, NEW t \in SceneThreads, AttachFork(t)
    PROVE  \E more \in Seq(Item), m \in Models, kind \in {"release", "join"} :
             /\ Plain(more) /\ Head(todo[t]) = << "tracks", m >>
             /\ todo' = [todo EXCEPT ![t] = Onward(more \o << << kind, m >> >>, todo[t])]
             /\ detached' = detached \ {m}
             /\ kind = "release" => UNCHANGED pools
             /\ kind = "join" => \E s \in Seq(Models) : Len(s) >= 1 /\ Fork(s, KidWorkers, "kids")
  <1> DEFINE m == Top(t)[2]
             tasks == Tasks(m)
  <1>1. todo[t] \in Seq(Item) /\ todo[t] # << >> /\ Top(t)[1] = "tracks"
    BY DEF Types, AttachFork
  <1>2. Head(todo[t]) \in Item
    BY <1>1, HeadTailProperties
  <1>3. m \in Models /\ Head(todo[t]) = << "tracks", m >>
    BY <1>1, <1>2 DEF Item, Top
  <1>4. tasks \in Seq(Models) /\ Len(tasks) \in Nat
    BY KidsType DEF Types
  <1>5. detached' = detached \ {m}
    BY DEF AttachFork
  <1>6. CASE Len(tasks) < 2
    <2>1. /\ todo' = [todo EXCEPT ![t] = Onward(Animate(tasks) \o << << "release", m >> >>, todo[t])]
          /\ UNCHANGED pools
      BY <1>6 DEF AttachFork, Go, Onward
    <2> HIDE DEF tasks, m
    <2> QED
      BY <1>3, <1>4, <1>5, <2>1, PlainList
  <1>7. CASE ~(Len(tasks) < 2)
    <2> DEFINE own == OwnSlice(tasks, KidWorkers)
    <2>1. /\ todo' = [todo EXCEPT ![t] = Onward(Animate(own) \o << << "join", m >> >>, todo[t])]
          /\ Fork(tasks, KidWorkers, "kids")
      BY <1>7 DEF AttachFork, Go, Onward
    <2>2. Len(tasks) >= 1
      BY <1>4, <1>7
    <2> HIDE DEF tasks, m
    <2>3. own \in Seq(Models)
      BY <1>4, <2>1, <2>2, ForkEffect
    <2> HIDE DEF own
    <2> QED
      BY <1>3, <1>4, <1>5, <2>1, <2>2, <2>3, PlainList
  <1> QED
    BY <1>6, <1>7

\* What a thread does with its top item.
LEMMA WorkEffect ==
    ASSUME Types, NEW t \in SceneThreads, Work(t)
    PROVE  /\ todo[t] \in Seq(Item) /\ todo[t] # << >>
           /\ Head(todo[t]) \in Item
           /\ \E more \in Seq(Item) :
                 /\ todo' = [todo EXCEPT ![t] = Onward(more, todo[t])]
                 /\ AnimateModel(t) \/ AttachSerial(t) => Plain(more)
           /\ UNCHANGED <<session, mpc, deferring, recorded>>
           /\ AttachFork(t) \/ UNCHANGED pools
  <1> DEFINE m == Top(t)[2]
  <1>1. todo[t] # << >>
    BY DEF Work, AnimateModel, AttachSerial, AttachBegin, AttachFork, AttachEnd
  <1>2. todo[t] \in Seq(Item)
    BY DEF Types
  <1>3. Head(todo[t]) \in Item
    BY <1>1, <1>2, HeadTailProperties
  <1>4. m \in Models
    BY <1>3 DEF Item, Top
  <1>5. UNCHANGED <<session, mpc, deferring, recorded>> /\ (AttachFork(t) \/ UNCHANGED pools)
    BY DEF Work, AnimateModel, AttachSerial, AttachBegin, AttachFork, AttachEnd
  <1>6. CASE AnimateModel(t)
    <2> DEFINE more == IF Kids(m) = << >> THEN << >> ELSE << << "attach", m >> >>
    <2>1. todo' = [todo EXCEPT ![t] = Onward(more, todo[t])]
      BY <1>6 DEF AnimateModel, Go, Onward
    <2>2. << "attach", m >> \in Item
      BY <1>4 DEF Item
    <2>3. << << "attach", m >> >> \in Seq(Item) /\ Plain(<< << "attach", m >> >>)
      BY <2>2 DEF Plain
    <2>4. more \in Seq(Item) /\ Plain(more)
      BY <2>3, NothingPlain
    <2> QED
      BY <1>1, <1>2, <1>3, <1>5, <2>1, <2>4
  <1>7. CASE AttachSerial(t)
    <2>1. todo' = [todo EXCEPT ![t] = Onward(Animate(Shown(Kids(m))), todo[t])]
      BY <1>7 DEF AttachSerial, Go, Onward
    <2>2. Shown(Kids(m)) \in Seq(Models)
      BY KidsType DEF Types
    <2> QED
      BY <1>1, <1>2, <1>3, <1>5, <2>1, <2>2, PlainList
  <1>8. CASE AttachBegin(t)
    <2>1. todo' = [todo EXCEPT ![t] = Onward(<< << "tracks", m >> >>, todo[t])]
      BY <1>8 DEF AttachBegin, Go, Onward
    <2>2. << "tracks", m >> \in Item
      BY <1>4 DEF Item
    <2>3. << << "tracks", m >> >> \in Seq(Item)
      BY <2>2
    <2>4. ~AnimateModel(t) /\ ~AttachSerial(t)
      BY <1>8 DEF AttachBegin, AnimateModel, AttachSerial
    <2> QED
      BY <1>1, <1>2, <1>3, <1>5, <2>1, <2>3, <2>4
  <1>9. CASE AttachFork(t)
    <2>1. PICK more \in Seq(Item), k \in Models, kind \in {"release", "join"} :
             todo' = [todo EXCEPT ![t] = Onward(more \o << << kind, k >> >>, todo[t])]
      BY <1>9, AttachForkEffect
    <2>2. << kind, k >> \in Item
      BY DEF Item
    <2>3. more \o << << kind, k >> >> \in Seq(Item)
      BY <2>2, ConcatProperties
    <2>4. Top(t)[1] = "tracks"
      BY <1>9 DEF AttachFork
    <2>5. ~AnimateModel(t) /\ ~AttachSerial(t)
      BY <2>4 DEF AnimateModel, AttachSerial
    <2> QED
      BY <1>1, <1>2, <1>3, <1>5, <2>1, <2>3, <2>5
  <1>10. CASE AttachEnd(t)
    <2>1. todo' = [todo EXCEPT ![t] = Onward(<< >>, todo[t])]
      BY <1>10 DEF AttachEnd, Go, Onward
    <2>2. << >> \in Seq(Item)
      OBVIOUS
    <2> QED
      BY <1>1, <1>2, <1>3, <1>5, <2>1, <2>2, NothingPlain
  <1> QED
    BY <1>6, <1>7, <1>8, <1>9, <1>10 DEF Work

------------------------------------------------------------------------------
(* Who is in charge of the children's pool. *)

\* Steps that leave the pool alone, and give work only to threads that had none.
LEMMA KidsElsewhere ==
    ASSUME Types, KidsInv, UNCHANGED <<session, poolInUse, detached>>,
           active'["kids"] # 0 => active["kids"] # 0,
           \A u \in SceneThreads : todo'[u] = todo[u] \/ (todo[u] = << >> /\ Plain(todo'[u]))
    PROVE  KidsInv'
  <1>1. \A u \in SceneThreads : Plain(todo[u]) => Plain(todo'[u])
    OBVIOUS
  <1>2. CASE Free
    BY <1>1, <1>2 DEF Free, KidsInv, Plain
  <1>3. CASE Taken
    <2>1. PICK t \in SceneThreads \ KidWorkers, e \in InCharge : InPool(t, e)
      BY <1>3 DEF Taken
    <2>2. todo[t] # << >>
      BY <2>1 DEF InPool, One
    <2>3. todo'[t] = todo[t]
      BY <2>2
    <2>4. One(todo'[t], e)
      BY <2>1, <2>3 DEF InPool
    <2>5. InPool(t, e)'
      <3>1. One(todo[t], e)'
        BY <2>4 DEF One
      <3>2. (\A u \in SceneThreads \ {t} : Plain(todo[u]))'
        BY <1>1, <2>1 DEF InPool, Plain
      <3> QED
        BY <2>1, <3>1, <3>2 DEF InPool
    <2> QED
      BY <1>3, <2>5 DEF Taken, KidsInv
  <1> QED
    BY <1>2, <1>3 DEF KidsInv

\* Animation, and the client's own attachment pass.
LEMMA KidsOrdinary ==
    ASSUME Types, KidsInv, NEW t \in SceneThreads, AnimateModel(t) \/ AttachSerial(t)
    PROVE  KidsInv'
  <1> DEFINE q == todo[t]
  <1>1. Work(t)
    BY DEF Work
  <1>2. PICK more \in Seq(Item) : /\ todo' = [todo EXCEPT ![t] = Onward(more, q)] /\ Plain(more)
    BY <1>1, WorkEffect
  <1>3. /\ q \in Seq(Item) /\ q # << >> /\ Head(q)[1] \in {"animate", "attach"}
        /\ UNCHANGED <<session, poolInUse, detached, active>>
    BY <1>1, WorkEffect DEF AnimateModel, AttachSerial, Top, pools
  <1>4. todo'[t] = Onward(more, q) /\ \A u \in SceneThreads \ {t} : todo'[u] = todo[u]
    BY <1>2 DEF Types
  <1>5. Plain(q) => Plain(todo'[t])
    <2>1. Plain(q) => \A k \in 2 .. Len(q) : q[k][1] \in {"animate", "attach"}
      BY <1>3, LenProperties DEF Plain
    <2> HIDE DEF q
    <2> QED
      BY <1>2, <1>3, <1>4, <2>1, OnwardPlain
  <1>6. \A u \in SceneThreads : Plain(todo[u]) => Plain(todo'[u])
    BY <1>4, <1>5
  <1>7. CASE Free
    BY <1>3, <1>6, <1>7 DEF Free, KidsInv, Plain
  <1>8. CASE Taken
    <2>1. PICK h \in SceneThreads \ KidWorkers, e \in InCharge : InPool(h, e)
      BY <1>8 DEF Taken
    <2>2. One(todo'[h], e)
      <3>1. CASE h = t
        <4>1. One(q, e)
          BY <2>1, <3>1 DEF InPool
        <4> HIDE DEF q
        <4> QED
          BY <1>2, <1>3, <1>4, <3>1, <4>1, OnwardStays
      <3>2. CASE h # t
        BY <1>4, <2>1, <3>2 DEF InPool
      <3> QED
        BY <3>1, <3>2
    <2>3. InPool(h, e)'
      <3>1. One(todo[h], e)'
        BY <2>2 DEF One
      <3>2. (\A u \in SceneThreads \ {h} : Plain(todo[u]))'
        BY <1>6, <2>1 DEF InPool, Plain
      <3> QED
        BY <1>3, <2>1, <3>1, <3>2 DEF InPool
    <2> QED
      BY <1>3, <1>8, <2>3 DEF Taken, KidsInv
  <1> QED
    BY <1>7, <1>8 DEF KidsInv

\* The thread whose top item is one of the pool's is the one in charge.
LEMMA TheOneInCharge ==
    ASSUME Types, KidsInv, NEW t \in SceneThreads, todo[t] # << >>,
           Head(todo[t])[1] \in {"tracks", "join", "release"}
    PROVE  /\ Taken /\ t \notin KidWorkers
           /\ Head(todo[t]) \in InCharge /\ InPool(t, Head(todo[t]))
           /\ \A k \in 2 .. Len(todo[t]) : todo[t][k][1] \in {"animate", "attach"}
  <1> DEFINE q == todo[t]
  <1>1. /\ q \in Seq(Item) /\ q # << >> /\ Head(q) = q[1] /\ 1 \in 1 .. Len(q)
        /\ Head(q)[1] \in {"tracks", "join", "release"}
    BY LenProperties, EmptySeq, HeadTailProperties DEF Types
  <1>2. ~Plain(q)
    BY <1>1 DEF Plain
  <1>3. Taken
    BY <1>2 DEF KidsInv, Free
  <1>4. PICK h \in SceneThreads \ KidWorkers, e \in InCharge : InPool(h, e)
    BY <1>3 DEF Taken
  <1>5. h = t
    BY <1>2, <1>4 DEF InPool
  <1>6. One(q, e)
    BY <1>4, <1>5 DEF InPool
  <1>7. Head(q) = e /\ \A k \in 2 .. Len(q) : q[k][1] \in {"animate", "attach"}
    <2> HIDE DEF q
    <2> QED
      BY <1>1, <1>6, InChargeNow
  <1> QED
    BY <1>3, <1>4, <1>5, <1>7

\* A thread takes the pool, or goes on to its next item in it.
LEMMA KidsTaken ==
    ASSUME Types, NEW t \in SceneThreads \ KidWorkers, NEW more \in Seq(Item), Plain(more), NEW e \in InCharge,
           todo[t] # << >>, \A k \in 2 .. Len(todo[t]) : todo[t][k][1] \in {"animate", "attach"},
           \A u \in SceneThreads \ {t} : Plain(todo[u]),
           todo' = [todo EXCEPT ![t] = Onward(more \o << e >>, todo[t])],
           poolInUse', session.kidsOn, session' = session,
           active'["kids"] # 0 => e[1] = "join",
           detached' = IF e[1] = "tracks" THEN {e[2]} ELSE {}
    PROVE  KidsInv'
  <1> DEFINE q == todo[t]
  <1>1. q \in Seq(Item)
    BY DEF Types
  <1>2. One(Onward(more \o << e >>, q), e)
    <2>1. q # << >> /\ \A k \in 2 .. Len(q) : q[k][1] \in {"animate", "attach"}
      OBVIOUS
    <2> HIDE DEF q
    <2> QED
      BY <1>1, <2>1, OnwardTakes
  <1>3. todo'[t] = Onward(more \o << e >>, q) /\ \A u \in SceneThreads \ {t} : todo'[u] = todo[u]
    BY DEF Types
  <1>4. One(todo[t], e)'
    BY <1>2, <1>3 DEF One
  <1>5. (\A u \in SceneThreads \ {t} : Plain(todo[u]))'
    BY <1>3 DEF Plain
  <1>6. InPool(t, e)'
    BY <1>4, <1>5 DEF InPool
  <1> QED
    BY <1>6 DEF KidsInv, Taken

LEMMA KidsBegin ==
    ASSUME SceneInv, NEW t \in SceneThreads, AttachBegin(t)
    PROVE  KidsInv'
  <1> DEFINE m == Top(t)[2]
             e == << "tracks", m >>
  <1>1. /\ Types /\ PoolsInv /\ KidsInv /\ todo[t] \in Seq(Item) /\ todo[t] # << >>
    BY DEF SceneInv, Types, AttachBegin
  <1>2. /\ session.kidsOn /\ ~poolInUse /\ poolInUse' = TRUE /\ detached' = detached \cup {m}
        /\ UNCHANGED <<session, active>>
        /\ todo' = [todo EXCEPT ![t] = << e >> \o Tail(todo[t])]
    BY DEF AttachBegin, Go, pools
  <1>3. Free
    BY <1>1, <1>2 DEF KidsInv, Taken
  <1>4. t \notin KidWorkers
    <2>1. t \in KidWorkers => t \in PoolWorkers
      BY ThreadFacts
    <2> QED
      BY <1>1, <1>3, <2>1, WorkingIsCounted DEF Free
  <1>5. m \in Models /\ e \in InCharge /\ e \in Item
    <2>1. Head(todo[t]) \in Item
      BY <1>1, HeadTailProperties
    <2> QED
      BY <2>1 DEF Item, Top, InCharge
  <1>6. << >> \o << e >> = << e >>
    <2>1. << e >> \in Seq(Item)
      BY <1>5
    <2> QED
      BY <2>1, ConcatEmptySeq
  <1>7. todo' = [todo EXCEPT ![t] = Onward(<< >> \o << e >>, todo[t])]
    BY <1>2, <1>6, Zenon DEF Onward
  <1>8. e[1] = "tracks" /\ e[2] = m
    OBVIOUS
  <1>9. detached' = {m} /\ active'["kids"] = 0 /\ \A u \in SceneThreads : Plain(todo[u])
    BY <1>2, <1>3 DEF Free
  <1>10. \A k \in 2 .. Len(todo[t]) : todo[t][k][1] \in {"animate", "attach"}
    BY <1>1, <1>9, LenProperties DEF Plain
  <1> HIDE DEF e, m
  <1> QED
    BY <1>1, <1>2, <1>4, <1>5, <1>7, <1>8, <1>9, <1>10, KidsTaken, NothingPlain

LEMMA KidsFork ==
    ASSUME SceneInv, NEW t \in SceneThreads, AttachFork(t)
    PROVE  KidsInv'
  <1>1. Types /\ KidsInv /\ todo[t] # << >> /\ Top(t)[1] = "tracks"
    BY DEF SceneInv, AttachFork
  <1>2. PICK more \in Seq(Item), m \in Models, kind \in {"release", "join"} :
             /\ Plain(more) /\ Head(todo[t]) = << "tracks", m >>
             /\ todo' = [todo EXCEPT ![t] = Onward(more \o << << kind, m >> >>, todo[t])]
             /\ detached' = detached \ {m}
             /\ kind = "release" => UNCHANGED pools
    BY <1>1, AttachForkEffect
  <1>3. /\ Taken /\ t \notin KidWorkers /\ InPool(t, << "tracks", m >>)
        /\ \A k \in 2 .. Len(todo[t]) : todo[t][k][1] \in {"animate", "attach"}
    BY <1>1, <1>2, TheOneInCharge DEF Top
  <1>4. UNCHANGED <<session, poolInUse>>
    BY DEF AttachFork
  <1> DEFINE e == << kind, m >>
  <1>5. e \in InCharge /\ e[1] = kind /\ e[2] = m
    BY DEF InCharge
  <1>6. << "tracks", m >>[1] = "tracks" /\ << "tracks", m >>[2] = m
    OBVIOUS
  <1>7. detached = {m} /\ active["kids"] = 0 /\ \A u \in SceneThreads \ {t} : Plain(todo[u])
    BY <1>3, <1>6 DEF InPool
  <1>8. detached' = IF e[1] = "tracks" THEN {e[2]} ELSE {}
    BY <1>2, <1>5, <1>7
  <1>9. active'["kids"] # 0 => e[1] = "join"
    BY <1>2, <1>5, <1>7 DEF pools
  <1>10. poolInUse' /\ session.kidsOn
    BY <1>3, <1>4 DEF Taken
  <1> HIDE DEF e
  <1> QED
    BY <1>1, <1>2, <1>3, <1>4, <1>5, <1>7, <1>8, <1>9, <1>10, KidsTaken DEF e

LEMMA KidsEnd ==
    ASSUME SceneInv, NEW t \in SceneThreads, AttachEnd(t)
    PROVE  KidsInv'
  <1> DEFINE q == todo[t]
             e == Head(q)
  <1>1. Types /\ KidsInv /\ q \in Seq(Item) /\ q # << >> /\ e[1] \in {"join", "release"}
    BY DEF SceneInv, Types, AttachEnd, Top
  <1>2. /\ Taken /\ InPool(t, e)
        /\ \A k \in 2 .. Len(q) : q[k][1] \in {"animate", "attach"}
    BY <1>1, TheOneInCharge
  <1>3. /\ poolInUse' = FALSE /\ todo' = [todo EXCEPT ![t] = Onward(<< >>, q)]
        /\ UNCHANGED <<detached, active>>
        /\ e[1] = "join" => active["kids"] = 0
    BY DEF AttachEnd, Go, Onward, Top, pools
  <1>4. active["kids"] = 0 /\ detached = {} /\ \A u \in SceneThreads \ {t} : Plain(todo[u])
    BY <1>1, <1>2, <1>3 DEF InPool
  <1>5. todo'[t] = Onward(<< >>, q) /\ \A u \in SceneThreads \ {t} : todo'[u] = todo[u]
    BY <1>3 DEF Types, SceneInv
  <1>6. Plain(todo'[t])
    <2> HIDE DEF q
    <2> QED
      BY <1>1, <1>2, <1>5, NothingPlain, OnwardPlain
  <1>7. (\A u \in SceneThreads : Plain(todo[u]))'
    BY <1>4, <1>5, <1>6 DEF Plain
  <1>8. detached' = {} /\ active'["kids"] = 0
    BY <1>3, <1>4
  <1> QED
    BY <1>3, <1>7, <1>8 DEF KidsInv, Free

------------------------------------------------------------------------------
(* The other steps. *)

\* The wait of a pass of ours: the main thread keeps a part, and the rest, if any,
\* goes to the pool.
LEMMA RunEffect ==
    ASSUME Types, RunRecorded
    PROVE  /\ \E own \in Seq(Models) : todo' = [todo EXCEPT ![MainThread] = Animate(own)]
           /\ \/ mpc' = "solo" /\ UNCHANGED pools
              \/ /\ mpc' = "join"
                 /\ \E s \in Seq(Models) : Len(s) >= 1 /\ Fork(s, RootWorkers, "roots")
           /\ mpc = "loop" /\ todo[MainThread] = << >> /\ deferring /\ deferring' = FALSE
           /\ UNCHANGED <<session, recorded, poolInUse, detached>>
  <1>1. /\ mpc = "loop" /\ todo[MainThread] = << >> /\ deferring /\ deferring' = FALSE
        /\ UNCHANGED <<session, recorded, poolInUse, detached>>
    BY DEF RunRecorded
  <1>2. recorded \in Seq(Models) /\ Len(recorded) \in Nat /\ MinParallel \in Nat \ {0}
    BY LenProperties, SceneAssumption DEF Types
  <1>3. CASE Len(recorded) >= MinParallel
    <2>1. /\ Fork(recorded, RootWorkers, "roots") /\ mpc' = "join"
          /\ todo' = [todo EXCEPT ![MainThread] = Animate(OwnSlice(recorded, RootWorkers))]
      BY <1>3 DEF RunRecorded
    <2>2. Len(recorded) >= 1
      BY <1>2, <1>3
    <2>3. OwnSlice(recorded, RootWorkers) \in Seq(Models)
      BY <1>2, <2>1, <2>2, ForkEffect
    <2> QED
      BY <1>1, <1>2, <2>1, <2>2, <2>3
  <1>4. CASE ~(Len(recorded) >= MinParallel)
    <2>1. mpc' = "solo" /\ UNCHANGED pools /\ todo' = [todo EXCEPT ![MainThread] = Animate(recorded)]
      BY <1>4 DEF RunRecorded
    <2> QED
      BY <1>1, <1>2, <2>1
  <1> QED
    BY <1>3, <1>4

LEMMA WakeEffect ==
    ASSUME Types, PoolsInv, NEW w \in PoolWorkers, Wake(w)
    PROVE  /\ todo[w] = << >> /\ w \notin working /\ signal[w]
           /\ Animate(share[w]) \in Seq(Item) /\ Plain(Animate(share[w]))
           /\ todo' = [todo EXCEPT ![w] = Animate(share[w])]
           /\ signal' = [signal EXCEPT ![w] = FALSE] /\ working' = working \cup {w}
           /\ UNCHANGED <<session, mpc, deferring, recorded, poolInUse, detached, share, active>>
  <1>1. share[w] \in Seq(Models)
    BY DEF Types
  <1> QED
    BY <1>1, PlainList DEF Wake, PoolsInv

\* A worker that finishes was counted.
LEMMA FinishEffect ==
    ASSUME Types, PoolsInv, NEW w \in PoolWorkers, Finish(w)
    PROVE  /\ active["roots"] \in Nat /\ active["kids"] \in Nat
           /\ active'["roots"] = IF w \in RootWorkers THEN active["roots"] - 1 ELSE active["roots"]
           /\ active'["kids"] = IF w \in RootWorkers THEN active["kids"] ELSE active["kids"] - 1
           /\ active' \in [{"roots", "kids"} -> Nat]
           /\ w \in RootWorkers => active["roots"] # 0
           /\ w \notin RootWorkers => w \in KidWorkers /\ active["kids"] # 0
           /\ w \in working /\ todo[w] = << >> /\ working' = working \ {w}
           /\ UNCHANGED <<session, mpc, deferring, recorded, poolInUse, detached, todo, share, signal>>
  <1>1. /\ w \in working /\ todo[w] = << >> /\ working' = working \ {w}
        /\ active' = [active EXCEPT ![Pool(w)] = @ - 1]
        /\ UNCHANGED <<session, mpc, deferring, recorded, poolInUse, detached, todo, share, signal>>
    BY DEF Finish
  <1>2. /\ w \in RootWorkers => active["roots"] # 0
        /\ w \notin RootWorkers => w \in KidWorkers /\ active["kids"] # 0
    BY <1>1, ThreadFacts, WorkingIsCounted
  <1>3. active \in [{"roots", "kids"} -> Nat]
    BY DEF Types
  <1>4. CASE w \in RootWorkers
    <2>1. active' = [active EXCEPT !["roots"] = active["roots"] - 1]
      BY <1>1, <1>4 DEF Pool
    <2>2. active["roots"] - 1 \in Nat
      BY <1>2, <1>3, <1>4
    <2> QED
      BY <1>1, <1>2, <1>3, <1>4, <2>1, <2>2
  <1>5. CASE w \notin RootWorkers
    <2>1. active' = [active EXCEPT !["kids"] = active["kids"] - 1]
      BY <1>1, <1>5 DEF Pool
    <2>2. active["kids"] - 1 \in Nat
      BY <1>2, <1>3, <1>5
    <2> QED
      BY <1>1, <1>2, <1>3, <1>5, <2>1, <2>2
  <1> QED
    BY <1>4, <1>5

LEMMA FaultEffect ==
    ASSUME Types, NEW w \in RootWorkers, Fault(w)
    PROVE  /\ w \in PoolWorkers /\ w \in working /\ todo' = [todo EXCEPT ![w] = << >>]
           /\ "fault" \in session.events
           /\ UNCHANGED <<session, mpc, deferring, recorded, poolInUse, detached, pools>>
  BY ThreadFacts DEF Fault

------------------------------------------------------------------------------
(* Every step keeps the invariant. *)

LEMMA TypesKept ==
    ASSUME SceneInv, SceneNext
    PROVE  Types'
  <1>1. Types /\ PoolsInv /\ todo \in [SceneThreads -> Seq(Item)]
    BY DEF SceneInv, Types
  <1>2. CASE Dispatch
    BY <1>1, <1>2, DispatchEffect DEF Types, pools
  <1>3. CASE ClientWait \/ PassDone
    BY <1>1, <1>3 DEF ClientWait, PassDone, Types, pools
  <1>4. CASE RunRecorded
    <2>1. PICK own \in Seq(Models) : todo' = [todo EXCEPT ![MainThread] = Animate(own)]
      BY <1>1, <1>4, RunEffect
    <2>2. todo' \in [SceneThreads -> Seq(Item)]
      BY <1>1, <2>1, PlainList
    <2>3. mpc' \in {"solo", "join"} /\ deferring' = FALSE /\ UNCHANGED <<session, recorded>>
      BY <1>1, <1>4, RunEffect
    <2>4. CASE UNCHANGED pools
      BY <1>1, <2>2, <2>3, <2>4 DEF Types, pools
    <2>5. CASE \E s \in Seq(Models) : Len(s) >= 1 /\ Fork(s, RootWorkers, "roots")
      <3>1. PICK s \in Seq(Models) : Len(s) >= 1 /\ Fork(s, RootWorkers, "roots")
        BY <2>5
      <3>2. /\ share' \in [PoolWorkers -> Seq(Models)] /\ working' = working
            /\ active' \in [{"roots", "kids"} -> Nat] /\ signal' \in [PoolWorkers -> BOOLEAN]
        BY <1>1, <3>1, ForkEffect
      <3> QED
        BY <1>1, <2>2, <2>3, <3>2 DEF Types
    <2> QED
      BY <1>1, <1>4, <2>4, <2>5, RunEffect
  <1>5. ASSUME NEW t \in SceneThreads, Work(t)
        PROVE  Types'
    <2>1. PICK more \in Seq(Item) : todo' = [todo EXCEPT ![t] = Onward(more, todo[t])]
      BY <1>1, <1>5, WorkEffect
    <2>2. todo[t] \in Seq(Item) /\ todo[t] # << >>
      BY <1>1, <1>5, WorkEffect
    <2>3. todo' \in [SceneThreads -> Seq(Item)]
      BY <1>1, <2>1, <2>2, OnwardItems
    <2>4. UNCHANGED <<session, mpc, deferring, recorded>> /\ (AttachFork(t) \/ UNCHANGED pools)
      BY <1>1, <1>5, WorkEffect
    <2>5. CASE UNCHANGED pools
      BY <1>1, <2>3, <2>4, <2>5 DEF Types, pools
    <2>6. CASE AttachFork(t) /\ ~UNCHANGED pools
      <3>1. PICK s \in Seq(Models) : Len(s) >= 1 /\ Fork(s, KidWorkers, "kids")
        BY <1>1, <2>6, AttachForkEffect
      <3>2. /\ share' \in [PoolWorkers -> Seq(Models)] /\ working' = working
            /\ active' \in [{"roots", "kids"} -> Nat] /\ signal' \in [PoolWorkers -> BOOLEAN]
        BY <1>1, <3>1, ForkEffect
      <3> QED
        BY <1>1, <2>3, <2>4, <3>2 DEF Types
    <2> QED
      BY <2>4, <2>5, <2>6
  <1>6. ASSUME NEW w \in PoolWorkers, Wake(w)
        PROVE  Types'
    <2>1. w \in SceneThreads
      BY ThreadFacts
    <2>2. todo' \in [SceneThreads -> Seq(Item)]
      BY <1>1, <1>6, <2>1, WakeEffect
    <2>3. signal' \in [PoolWorkers -> BOOLEAN] /\ working' \subseteq PoolWorkers
      BY <1>1, <1>6, WakeEffect DEF Types
    <2>4. UNCHANGED <<session, mpc, deferring, recorded, share, active>>
      BY <1>1, <1>6, WakeEffect
    <2> QED
      BY <1>1, <2>2, <2>3, <2>4 DEF Types
  <1>7. ASSUME NEW w \in PoolWorkers, Finish(w)
        PROVE  Types'
    <2>1. active' \in [{"roots", "kids"} -> Nat] /\ working' \subseteq PoolWorkers
      BY <1>1, <1>7, FinishEffect DEF Types
    <2> QED
      BY <1>1, <1>7, <2>1, FinishEffect DEF Types
  <1>8. ASSUME NEW w \in RootWorkers, Fault(w)
        PROVE  Types'
    <2>1. w \in SceneThreads
      BY ThreadFacts
    <2>2. todo' \in [SceneThreads -> Seq(Item)]
      BY <1>1, <1>8, <2>1, FaultEffect, NothingPlain
    <2> QED
      BY <1>1, <1>8, <2>2, FaultEffect DEF Types, pools
  <1> QED
    BY <1>2, <1>3, <1>4, <1>5, <1>6, <1>7, <1>8 DEF SceneNext, MainStep

\* Steps that leave the pools alone.
LEMMA PoolsElsewhere ==
    ASSUME PoolsInv, UNCHANGED pools, \A w \in PoolWorkers \ working : todo'[w] = todo[w]
    PROVE  PoolsInv'
  <1>1. UNCHANGED <<signal, working, active>>
    BY DEF pools
  <1>2. Busy(RootWorkers)' = Busy(RootWorkers) /\ Busy(KidWorkers)' = Busy(KidWorkers)
    BY <1>1 DEF Busy
  <1> QED
    BY <1>1, <1>2 DEF PoolsInv

\* A fork on a pool that rests.
LEMMA PoolsFork ==
    ASSUME Types, PoolsInv, NEW s \in Seq(Models), Len(s) >= 1,
           NEW pool, NEW name, NEW other, NEW elsewhere,
           \/ pool = RootWorkers /\ name = "roots" /\ other = KidWorkers /\ elsewhere = "kids"
           \/ pool = KidWorkers /\ name = "kids" /\ other = RootWorkers /\ elsewhere = "roots",
           Fork(s, pool, name), active[name] = 0,
           \A w \in PoolWorkers \ working : todo'[w] = todo[w]
    PROVE  PoolsInv'
  <1>1. PICK used \in SUBSET pool :
                 /\ Cardinality(used) \in Nat
                 /\ active' = [active EXCEPT ![name] = Cardinality(used)]
                 /\ signal' = [w \in PoolWorkers |-> w \in used \/ signal[w]]
    BY ForkEffect
  <1>2. working' = working
    BY ForkEffect
  <1>3. active \in [{"roots", "kids"} -> Nat] /\ signal \in [PoolWorkers -> BOOLEAN]
    BY DEF Types
  <1>4. active'[name] = Cardinality(used) /\ active'[elsewhere] = active[elsewhere]
    BY <1>1, <1>3
  <1>5. pool \subseteq PoolWorkers /\ other \subseteq PoolWorkers /\ pool \cap other = {}
    BY ThreadFacts
  <1>6. Busy(pool) = {}
    BY BusyFinite DEF PoolsInv
  <1>7. \A w \in pool : ~signal[w] /\ w \notin working
    BY <1>6 DEF Busy
  <1>8. Busy(pool)' = used
    BY <1>1, <1>2, <1>5, <1>7 DEF Busy
  <1>9. Busy(other)' = Busy(other)
    BY <1>1, <1>2, <1>5 DEF Busy
  <1>10. \A w \in PoolWorkers : ~(signal'[w] /\ w \in working') /\ (w \notin working' => todo'[w] = << >>)
    BY <1>1, <1>2, <1>7 DEF PoolsInv
  <1> QED
    BY <1>4, <1>8, <1>9, <1>10 DEF PoolsInv

LEMMA PoolsKept ==
    ASSUME SceneInv, SceneNext
    PROVE  PoolsInv'
  <1>1. Types /\ PoolsInv /\ PassInv /\ KidsInv /\ todo \in [SceneThreads -> Seq(Item)]
    BY DEF SceneInv, Types
  <1>2. CASE Dispatch
    <2>1. UNCHANGED pools /\ \A w \in PoolWorkers : todo'[w] = todo[w]
      BY <1>2, DispatchEffect, ThreadFacts
    <2> QED
      BY <1>1, <2>1, PoolsElsewhere
  <1>3. CASE ClientWait \/ PassDone
    <2>1. UNCHANGED pools /\ todo' = todo
      BY <1>3 DEF ClientWait, PassDone
    <2> QED
      BY <1>1, <2>1, PoolsElsewhere
  <1>4. CASE RunRecorded
    <2>1. PICK own \in Seq(Models) : todo' = [todo EXCEPT ![MainThread] = Animate(own)]
      BY <1>1, <1>4, RunEffect
    <2>2. \A w \in PoolWorkers : todo'[w] = todo[w]
      BY <1>1, <2>1, ThreadFacts
    <2>3. active["roots"] = 0
      BY <1>1, <1>4, RunEffect DEF PassInv
    <2>4. CASE UNCHANGED pools
      BY <1>1, <2>2, <2>4, PoolsElsewhere
    <2>5. CASE \E s \in Seq(Models) : Len(s) >= 1 /\ Fork(s, RootWorkers, "roots")
      BY <1>1, <2>2, <2>3, <2>5, PoolsFork
    <2> QED
      BY <1>1, <1>4, <2>4, <2>5, RunEffect
  <1>5. ASSUME NEW t \in SceneThreads, Work(t)
        PROVE  PoolsInv'
    <2>1. PICK more \in Seq(Item) : todo' = [todo EXCEPT ![t] = Onward(more, todo[t])]
      BY <1>1, <1>5, WorkEffect
    <2>2. todo[t] # << >> /\ (AttachFork(t) \/ UNCHANGED pools)
      BY <1>1, <1>5, WorkEffect
    <2>3. t \in PoolWorkers => t \in working
      BY <1>1, <2>2, WorkingIsCounted
    <2>4. \A w \in PoolWorkers \ working : todo'[w] = todo[w]
      BY <1>1, <2>1, <2>3
    <2>5. CASE UNCHANGED pools
      BY <1>1, <2>4, <2>5, PoolsElsewhere
    <2>6. CASE AttachFork(t) /\ ~UNCHANGED pools
      <3>1. PICK s \in Seq(Models) : Len(s) >= 1 /\ Fork(s, KidWorkers, "kids")
        BY <1>1, <2>6, AttachForkEffect
      <3>2. Head(todo[t])[1] = "tracks"
        BY <2>6 DEF AttachFork, Top
      <3>3. InPool(t, Head(todo[t]))
        BY <1>1, <2>2, <3>2, TheOneInCharge
      <3>4. active["kids"] = 0
        BY <3>2, <3>3 DEF InPool
      <3> QED
        BY <1>1, <2>4, <3>1, <3>4, PoolsFork
    <2> QED
      BY <2>2, <2>5, <2>6
  <1>6. ASSUME NEW w \in PoolWorkers, Wake(w)
        PROVE  PoolsInv'
    <2>1. /\ todo[w] = << >> /\ w \notin working /\ signal[w] /\ active' = active
          /\ signal' = [signal EXCEPT ![w] = FALSE] /\ working' = working \cup {w}
      BY <1>1, <1>6, WakeEffect
    <2>2. \A v \in PoolWorkers \ {w} : todo'[v] = todo[v]
      <3>1. todo' = [todo EXCEPT ![w] = Animate(share[w])]
        BY <1>1, <1>6, WakeEffect
      <3> QED
        BY <1>1, <3>1, ThreadFacts
    <2>3. \A v \in PoolWorkers : (signal'[v] \/ v \in working') <=> (signal[v] \/ v \in working)
      BY <1>1, <2>1 DEF Types
    <2>4. Busy(RootWorkers)' = Busy(RootWorkers) /\ Busy(KidWorkers)' = Busy(KidWorkers)
      BY <2>3, ThreadFacts DEF Busy
    <2>5. \A v \in PoolWorkers : ~(signal'[v] /\ v \in working') /\ (v \notin working' => todo'[v] = << >>)
      BY <1>1, <2>1, <2>2 DEF PoolsInv, Types
    <2> QED
      BY <1>1, <2>1, <2>4, <2>5 DEF PoolsInv
  <1>7. ASSUME NEW w \in PoolWorkers, Finish(w)
        PROVE  PoolsInv'
    <2>1. w \in working /\ todo[w] = << >> /\ working' = working \ {w} /\ signal' = signal /\ todo' = todo
      BY <1>1, <1>7, FinishEffect
    <2>2. ~signal[w]
      BY <1>1, <2>1 DEF PoolsInv
    <2>3. \A v \in PoolWorkers : ~(signal'[v] /\ v \in working') /\ (v \notin working' => todo'[v] = << >>)
      BY <1>1, <2>1 DEF PoolsInv
    <2>4. IsFiniteSet(Busy(RootWorkers)) /\ IsFiniteSet(Busy(KidWorkers))
      BY BusyFinite
    <2>5. CASE w \in RootWorkers
      <3>1. w \in Busy(RootWorkers) /\ w \notin KidWorkers
        BY <2>1, <2>5, ThreadFacts DEF Busy
      <3>2. Busy(RootWorkers)' = Busy(RootWorkers) \ {w} /\ Busy(KidWorkers)' = Busy(KidWorkers)
        BY <2>1, <2>2, <3>1 DEF Busy
      <3>3. Cardinality(Busy(RootWorkers) \ {w}) = Cardinality(Busy(RootWorkers)) - 1
        BY <2>4, <3>1, FS_RemoveElement
      <3>4. active'["roots"] = active["roots"] - 1 /\ active'["kids"] = active["kids"]
        BY <1>1, <1>7, <2>5, FinishEffect
      <3> QED
        BY <1>1, <2>3, <3>2, <3>3, <3>4 DEF PoolsInv
    <2>6. CASE w \notin RootWorkers
      <3>1. w \in Busy(KidWorkers) /\ w \notin RootWorkers
        BY <2>1, <2>6, ThreadFacts DEF Busy
      <3>2. Busy(KidWorkers)' = Busy(KidWorkers) \ {w} /\ Busy(RootWorkers)' = Busy(RootWorkers)
        BY <2>1, <2>2, <3>1 DEF Busy
      <3>3. Cardinality(Busy(KidWorkers) \ {w}) = Cardinality(Busy(KidWorkers)) - 1
        BY <2>4, <3>1, FS_RemoveElement
      <3>4. active'["kids"] = active["kids"] - 1 /\ active'["roots"] = active["roots"]
        BY <1>1, <1>7, <2>6, FinishEffect
      <3> QED
        BY <1>1, <2>3, <3>2, <3>3, <3>4 DEF PoolsInv
    <2> QED
      BY <2>5, <2>6
  <1>8. ASSUME NEW w \in RootWorkers, Fault(w)
        PROVE  PoolsInv'
    <2>1. UNCHANGED pools /\ w \in working /\ todo' = [todo EXCEPT ![w] = << >>]
      BY <1>1, <1>8, FaultEffect
    <2>2. \A v \in PoolWorkers \ working : todo'[v] = todo[v]
      BY <1>1, <2>1, ThreadFacts
    <2> QED
      BY <1>1, <2>1, <2>2, PoolsElsewhere
  <1> QED
    BY <1>2, <1>3, <1>4, <1>5, <1>6, <1>7, <1>8 DEF SceneNext, MainStep

LEMMA PassKept ==
    ASSUME SceneInv, SceneNext
    PROVE  PassInv'
  <1>1. /\ Types /\ PoolsInv /\ PassInv /\ todo \in [SceneThreads -> Seq(Item)] /\ deferring \in BOOLEAN
        /\ active \in [{"roots", "kids"} -> Nat]
    BY DEF SceneInv, Types
  <1>2. CASE Dispatch
    <2>1. mpc = "idle" /\ mpc' = "loop" /\ (deferring' => todo'[Client] = << >>) /\ active' = active
      BY <1>2, DispatchEffect DEF pools
    <2> QED
      BY <1>1, <2>1 DEF PassInv
  <1>3. CASE ClientWait
    BY <1>1, <1>3 DEF ClientWait, pools, PassInv
  <1>4. CASE PassDone
    BY <1>1, <1>4 DEF PassDone, pools, PassInv
  <1>5. CASE RunRecorded
    <2>1. PICK own \in Seq(Models) : todo' = [todo EXCEPT ![MainThread] = Animate(own)]
      BY <1>1, <1>5, RunEffect
    <2>2. todo'[Client] = todo[Client]
      BY <1>1, <2>1, ThreadFacts
    <2>3. mpc = "loop" /\ deferring /\ deferring' = FALSE /\ ((mpc' = "solo" /\ UNCHANGED pools) \/ mpc' = "join")
      BY <1>1, <1>5, RunEffect
    <2> QED
      BY <1>1, <2>2, <2>3 DEF PassInv, pools
  <1>6. ASSUME NEW t \in SceneThreads, Work(t)
        PROVE  PassInv'
    <2>1. PICK more \in Seq(Item) : todo' = [todo EXCEPT ![t] = Onward(more, todo[t])]
      BY <1>1, <1>6, WorkEffect
    <2>2. todo[t] # << >> /\ UNCHANGED <<mpc, deferring>> /\ (AttachFork(t) \/ UNCHANGED pools)
      BY <1>1, <1>6, WorkEffect
    <2>3. mpc = "idle" => todo'[MainThread] = << >>
      BY <1>1, <2>1, <2>2, ThreadFacts DEF PassInv
    <2>4. mpc # "loop" \/ deferring => todo'[Client] = << >>
      BY <1>1, <2>1, <2>2, ThreadFacts DEF PassInv
    <2>5. active'["roots"] = active["roots"]
      <3>1. CASE UNCHANGED pools
        BY <3>1 DEF pools
      <3>2. CASE AttachFork(t) /\ ~UNCHANGED pools
        <4>1. PICK s \in Seq(Models) : Len(s) >= 1 /\ Fork(s, KidWorkers, "kids")
          BY <1>1, <3>2, AttachForkEffect
        <4>2. PICK used \in SUBSET KidWorkers : active' = [active EXCEPT !["kids"] = Cardinality(used)]
          BY <1>1, <4>1, ForkEffect
        <4> QED
          BY <1>1, <4>2
      <3> QED
        BY <2>2, <3>1, <3>2
    <2> QED
      BY <1>1, <2>2, <2>3, <2>4, <2>5 DEF PassInv
  <1>7. ASSUME NEW w \in PoolWorkers, Wake(w)
        PROVE  PassInv'
    <2>1. todo' = [todo EXCEPT ![w] = Animate(share[w])] /\ UNCHANGED <<mpc, deferring, active>>
      BY <1>1, <1>7, WakeEffect
    <2>2. todo'[MainThread] = todo[MainThread] /\ todo'[Client] = todo[Client]
      BY <1>1, <2>1, ThreadFacts
    <2> QED
      BY <1>1, <2>1, <2>2 DEF PassInv
  <1>8. ASSUME NEW w \in PoolWorkers, Finish(w)
        PROVE  PassInv'
    <2>1. /\ w \in RootWorkers => active["roots"] # 0
          /\ w \notin RootWorkers => active'["roots"] = active["roots"]
          /\ UNCHANGED <<mpc, deferring, todo>>
      BY <1>1, <1>8, FinishEffect
    <2> QED
      BY <1>1, <2>1 DEF PassInv
  <1>9. ASSUME NEW w \in RootWorkers, Fault(w)
        PROVE  PassInv'
    <2>1. w \in PoolWorkers /\ todo' = [todo EXCEPT ![w] = << >>] /\ UNCHANGED <<mpc, deferring, pools>>
      BY <1>1, <1>9, FaultEffect
    <2>2. todo'[MainThread] = todo[MainThread] /\ todo'[Client] = todo[Client]
      BY <1>1, <2>1, ThreadFacts
    <2> QED
      BY <1>1, <2>1, <2>2 DEF PassInv, pools
  <1> QED
    BY <1>2, <1>3, <1>4, <1>5, <1>6, <1>7, <1>8, <1>9 DEF SceneNext, MainStep

LEMMA KidsKept ==
    ASSUME SceneInv, Quiet, SceneNext
    PROVE  KidsInv'
  <1>1. /\ Types /\ PoolsInv /\ PassInv /\ KidsInv /\ todo \in [SceneThreads -> Seq(Item)]
        /\ active \in [{"roots", "kids"} -> Nat]
    BY DEF SceneInv, Types
  <1>2. CASE Dispatch
    <2>1. \A u \in SceneThreads : todo'[u] = todo[u] \/ (todo[u] = << >> /\ Plain(todo'[u]))
      BY <1>2, DispatchEffect, ThreadFacts
    <2>2. UNCHANGED <<session, poolInUse, detached, active>>
      BY <1>2, DispatchEffect DEF pools
    <2> QED
      BY <1>1, <2>1, <2>2, KidsElsewhere
  <1>3. CASE ClientWait \/ PassDone
    <2>1. UNCHANGED <<session, poolInUse, detached, active, todo>>
      BY <1>3 DEF ClientWait, PassDone, pools
    <2> QED
      BY <1>1, <2>1, KidsElsewhere
  <1>4. CASE RunRecorded
    <2>1. PICK own \in Seq(Models) : todo' = [todo EXCEPT ![MainThread] = Animate(own)]
      BY <1>1, <1>4, RunEffect
    <2>2. todo[MainThread] = << >> /\ UNCHANGED <<session, poolInUse, detached>>
      BY <1>1, <1>4, RunEffect
    <2>3. \A u \in SceneThreads : todo'[u] = todo[u] \/ (todo[u] = << >> /\ Plain(todo'[u]))
      BY <1>1, <2>1, <2>2, PlainList, ThreadFacts
    <2>4. active'["kids"] = active["kids"]
      <3>1. CASE UNCHANGED pools
        BY <3>1 DEF pools
      <3>2. CASE \E s \in Seq(Models) : Len(s) >= 1 /\ Fork(s, RootWorkers, "roots")
        <4>1. PICK s \in Seq(Models) : Len(s) >= 1 /\ Fork(s, RootWorkers, "roots")
          BY <3>2
        <4>2. PICK used \in SUBSET RootWorkers : active' = [active EXCEPT !["roots"] = Cardinality(used)]
          BY <1>1, <4>1, ForkEffect
        <4> QED
          BY <1>1, <4>2
      <3> QED
        BY <1>1, <1>4, <3>1, <3>2, RunEffect
    <2> QED
      BY <1>1, <2>2, <2>3, <2>4, KidsElsewhere
  <1>5. ASSUME NEW t \in SceneThreads, Work(t)
        PROVE  KidsInv'
    BY <1>1, <1>5, KidsOrdinary, KidsBegin, KidsFork, KidsEnd DEF Work
  <1>6. ASSUME NEW w \in PoolWorkers, Wake(w)
        PROVE  KidsInv'
    <2>1. /\ todo[w] = << >> /\ Plain(Animate(share[w])) /\ todo' = [todo EXCEPT ![w] = Animate(share[w])]
          /\ UNCHANGED <<session, poolInUse, detached, active>>
      BY <1>1, <1>6, WakeEffect
    <2>2. \A u \in SceneThreads : todo'[u] = todo[u] \/ (todo[u] = << >> /\ Plain(todo'[u]))
      BY <1>1, <2>1
    <2> QED
      BY <1>1, <2>1, <2>2, KidsElsewhere
  <1>7. ASSUME NEW w \in PoolWorkers, Finish(w)
        PROVE  KidsInv'
    <2>1. /\ active'["kids"] # 0 => active["kids"] # 0
          /\ UNCHANGED <<session, poolInUse, detached, todo>>
      BY <1>1, <1>7, FinishEffect
    <2> QED
      BY <1>1, <2>1, KidsElsewhere
  <1>8. ASSUME NEW w \in RootWorkers, Fault(w)
        PROVE  KidsInv'
    <2>1. /\ w \in SceneThreads /\ todo' = [todo EXCEPT ![w] = << >>] /\ "fault" \in session.events
          /\ UNCHANGED <<session, poolInUse, detached, active>>
      BY <1>1, <1>8, FaultEffect, ThreadFacts DEF pools
    <2>2. Free
      BY <1>1, <2>1 DEF KidsInv, Taken, Quiet
    <2>3. \A u \in SceneThreads : Plain(todo'[u])
      BY <1>1, <2>1, <2>2, NothingPlain DEF Free
    <2> QED
      BY <2>1, <2>2, <2>3 DEF KidsInv, Free, Plain
  <1> QED
    BY <1>2, <1>3, <1>4, <1>5, <1>6, <1>7, <1>8 DEF SceneNext, MainStep

\* The session is fixed.
LEMMA SameSession ==
    ASSUME SceneNext
    PROVE  session' = session
  BY DEF SceneNext, MainStep, Dispatch, ClientWait, RunRecorded, PassDone, Work, AnimateModel, AttachSerial,
         AttachBegin, AttachFork, AttachEnd, Wake, Finish, Fault

------------------------------------------------------------------------------
(* The join. *)

LEMMA InitScene == SceneInit => SceneInv
  <1> SUFFICES ASSUME SceneInit
               PROVE  SceneInv
    OBVIOUS
  <1>1. /\ << >> \in Seq(Models) /\ << >> \in Seq(Item) /\ \A t \in SceneThreads : todo[t] = << >>
        /\ active["roots"] = 0 /\ active["kids"] = 0
    BY DEF SceneInit
  <1>2. Types
    BY <1>1 DEF SceneInit, Types
  <1>3. Busy(RootWorkers) = {} /\ Busy(KidWorkers) = {}
    BY ThreadFacts DEF SceneInit, Busy
  <1>4. PoolsInv
    BY <1>1, <1>3, FS_EmptySet, ThreadFacts DEF SceneInit, PoolsInv
  <1>5. PassInv
    BY <1>1, ThreadFacts DEF SceneInit, PassInv
  <1>6. KidsInv
    BY <1>1, NothingPlain DEF SceneInit, KidsInv, Free
  <1> QED
    BY <1>2, <1>4, <1>5, <1>6 DEF SceneInv

LEMMA NextScene == (Quiet => SceneInv) /\ [SceneNext]_sceneVars => (Quiet => SceneInv)'
  <1> SUFFICES ASSUME Quiet => SceneInv, [SceneNext]_sceneVars, Quiet'
               PROVE  SceneInv'
    OBVIOUS
  <1>1. CASE SceneNext
    <2>1. Quiet
      BY <1>1, SameSession DEF Quiet
    <2>2. SceneInv
      BY <2>1
    <2> QED
      BY <1>1, <2>1, <2>2, TypesKept, PoolsKept, PassKept, KidsKept DEF SceneInv
  <1>2. CASE UNCHANGED sceneVars
    <2>1. Quiet
      BY <1>2 DEF Quiet, sceneVars
    <2>2. SceneInv
      BY <2>1
    <2>3. /\ UNCHANGED <<session, mpc, todo, deferring, recorded, poolInUse, detached>>
          /\ UNCHANGED <<share, signal, working, active>>
      BY <1>2 DEF sceneVars, pools
    <2>4. Types'
      BY <2>2, <2>3 DEF SceneInv, Types
    <2>5. Busy(RootWorkers)' = Busy(RootWorkers) /\ Busy(KidWorkers)' = Busy(KidWorkers)
      BY <2>3 DEF Busy
    <2>6. PoolsInv' /\ PassInv'
      BY <2>2, <2>3, <2>5 DEF SceneInv, PoolsInv, PassInv
    <2>7. KidsInv'
      BY <2>2, <2>3, KidsElsewhere DEF SceneInv
    <2> QED
      BY <2>4, <2>6, <2>7 DEF SceneInv
  <1> QED
    BY <1>1, <1>2


LEMMA SceneImpliesDone == SceneInv => JoinMeansDone
  <1> SUFFICES ASSUME SceneInv, mpc = "idle"
               PROVE  /\ \A t \in SceneThreads : todo[t] = << >>
                      /\ active["roots"] = 0 /\ active["kids"] = 0
                      /\ ~poolInUse /\ detached = {}
    BY DEF JoinMeansDone
  <1>1. Types /\ PoolsInv /\ PassInv /\ KidsInv
    BY DEF SceneInv
  <1>2. todo[MainThread] = << >> /\ todo[Client] = << >> /\ active["roots"] = 0
    BY <1>1 DEF PassInv
  <1>3. \A t \in SceneThreads \ KidWorkers : todo[t] = << >>
    <2> SUFFICES ASSUME NEW t \in SceneThreads \ KidWorkers
                 PROVE  todo[t] = << >>
      OBVIOUS
    <2>1. t \in {MainThread, Client} \/ (t \in RootWorkers /\ t \in PoolWorkers)
      BY DEF SceneThreads, PoolWorkers
    <2> QED
      BY <1>1, <1>2, <2>1, WorkingIsCounted
  <1>4. Free
    <2>1. ASSUME NEW t \in SceneThreads \ KidWorkers, NEW e \in InCharge, InPool(t, e)
          PROVE  FALSE
      <3>1. One(<< >>, e)
        BY <1>3, <2>1 DEF InPool
      <3> QED
        BY <3>1 DEF One
    <2> QED
      BY <1>1, <2>1 DEF KidsInv, Taken
  <1>5. \A w \in KidWorkers : todo[w] = << >>
    BY <1>1, <1>4, ThreadFacts, WorkingIsCounted DEF Free
  <1> QED
    BY <1>2, <1>3, <1>4, <1>5 DEF Free

\* Between passes nobody animates and the children's pool is free, whatever the
\* models, the pools and the threads: the joins of Site_Wait and of the attachment
\* pass count every worker they called.
THEOREM JoinCorrect == SceneSpec => [](Quiet => JoinMeansDone)
  <1>1. SceneInit => (Quiet => SceneInv)
    BY InitScene
  <1>2. (Quiet => SceneInv) => (Quiet => JoinMeansDone)
    BY SceneImpliesDone
  <1> QED
    BY <1>1, <1>2, NextScene, PTL DEF SceneSpec

------------------------------------------------------------------------------
(* What a list still has to animate. *)

\* The models of a list that are to be animated, or whose children are.
Ahead(q) == {k \in 1 .. Len(q) : q[k][1] \in {"animate", "attach", "tracks"}}
Mods(q)  == {q[k][2] : k \in Ahead(q)}

\* Each of them is there once, and its animation is to come if and only if it is
\* not among those begun.
Single(q)   == \A j, k \in Ahead(q) : q[j][2] = q[k][2] => j = k
Ready(q, B) == \A k \in Ahead(q) : q[k][1] = "animate" <=> q[k][2] \notin B

Tidy(q, B) == Single(q) /\ Ready(q, B)

\* No model is in a list twice.
Distinct(s) == \A i, j \in 1 .. Len(s) : s[i] = s[j] => i = j

LEMMA TidyNothing ==
    ASSUME NEW B
    PROVE  Tidy(<< >>, B) /\ Mods(<< >>) = {} /\ << >> \in Seq(Item)
  <1>1. Len(<< >>) = 0 /\ << >> \in Seq(Item)
    OBVIOUS
  <1>2. Ahead(<< >>) = {}
    BY <1>1 DEF Ahead
  <1> QED
    BY <1>1, <1>2 DEF Tidy, Single, Ready, Mods

LEMMA TidyItem ==
    ASSUME NEW e \in Item, NEW B, e[1] \in {"animate", "attach", "tracks"} => (e[1] = "animate" <=> e[2] \notin B)
    PROVE  /\ << e >> \in Seq(Item) /\ Tidy(<< e >>, B)
           /\ Mods(<< e >>) = IF e[1] \in {"animate", "attach", "tracks"} THEN {e[2]} ELSE {}
  <1>1. << e >> \in Seq(Item) /\ Len(<< e >>) = 1 /\ << e >>[1] = e
    OBVIOUS
  <1>2. Ahead(<< e >>) = IF e[1] \in {"animate", "attach", "tracks"} THEN {1} ELSE {}
    BY <1>1 DEF Ahead
  <1>3. Tidy(<< e >>, B)
    BY <1>1, <1>2 DEF Tidy, Single, Ready
  <1>4. Mods(<< e >>) = IF e[1] \in {"animate", "attach", "tracks"} THEN {e[2]} ELSE {}
    BY <1>1, <1>2 DEF Mods
  <1> QED
    BY <1>1, <1>3, <1>4

LEMMA TidyConcat ==
    ASSUME NEW a \in Seq(Item), NEW b \in Seq(Item), NEW B, Tidy(a, B), Tidy(b, B),
           Mods(a) \cap Mods(b) = {}
    PROVE  a \o b \in Seq(Item) /\ Tidy(a \o b, B) /\ Mods(a \o b) = Mods(a) \cup Mods(b)
  <1> DEFINE c == a \o b
  <1>1. /\ Len(a) \in Nat /\ Len(b) \in Nat /\ c \in Seq(Item) /\ Len(c) = Len(a) + Len(b)
        /\ \A i \in 1 .. Len(a) + Len(b) : c[i] = IF i <= Len(a) THEN a[i] ELSE b[i - Len(a)]
    BY LenProperties, ConcatProperties
  <1> HIDE DEF c
  <1>2. ASSUME NEW k \in Ahead(c)
        PROVE  \/ k \in Ahead(a) /\ c[k] = a[k]
               \/ ~(k <= Len(a)) /\ k - Len(a) \in Ahead(b) /\ c[k] = b[k - Len(a)]
    <2>1. k \in 1 .. Len(a) + Len(b) /\ c[k][1] \in {"animate", "attach", "tracks"}
      BY <1>1 DEF Ahead
    <2>2. CASE k <= Len(a)
      BY <1>1, <2>1, <2>2 DEF Ahead
    <2>3. CASE ~(k <= Len(a))
      <3>1. k - Len(a) \in 1 .. Len(b)
        BY <1>1, <2>1, <2>3
      <3> QED
        BY <1>1, <2>1, <2>3, <3>1 DEF Ahead
    <2> QED
      BY <2>2, <2>3
  <1>3. ASSUME NEW k \in Ahead(a)
        PROVE  k \in Ahead(c) /\ c[k] = a[k]
    BY <1>1 DEF Ahead
  <1>4. ASSUME NEW k \in Ahead(b)
        PROVE  k + Len(a) \in Ahead(c) /\ c[k + Len(a)] = b[k]
    <2>1. k \in 1 .. Len(b) /\ b[k][1] \in {"animate", "attach", "tracks"}
      BY DEF Ahead
    <2>2. k + Len(a) \in 1 .. Len(a) + Len(b) /\ ~(k + Len(a) <= Len(a)) /\ (k + Len(a)) - Len(a) = k
      BY <1>1, <2>1
    <2>3. c[k + Len(a)] = b[k]
      BY <1>1, <2>2
    <2> QED
      BY <1>1, <2>1, <2>2, <2>3 DEF Ahead
  <1>5. Mods(c) = Mods(a) \cup Mods(b)
    <2>1. ASSUME NEW m \in Mods(c)
          PROVE  m \in Mods(a) \cup Mods(b)
      <3>1. PICK k \in Ahead(c) : m = c[k][2]
        BY DEF Mods
      <3> QED
        BY <1>2, <3>1 DEF Mods
    <2>2. ASSUME NEW m \in Mods(a)
          PROVE  m \in Mods(c)
      BY <1>3 DEF Mods
    <2>3. ASSUME NEW m \in Mods(b)
          PROVE  m \in Mods(c)
      <3>1. PICK k \in Ahead(b) : m = b[k][2]
        BY DEF Mods
      <3>2. k + Len(a) \in Ahead(c) /\ c[k + Len(a)] = b[k]
        BY <1>4
      <3> QED
        BY <3>1, <3>2 DEF Mods
    <2> QED
      BY <2>1, <2>2, <2>3
  <1>6. Ready(c, B)
    <2> SUFFICES ASSUME NEW k \in Ahead(c)
                 PROVE  c[k][1] = "animate" <=> c[k][2] \notin B
      BY DEF Ready
    <2> QED
      BY <1>2 DEF Tidy, Ready
  <1>7. Single(c)
    <2> SUFFICES ASSUME NEW j \in Ahead(c), NEW k \in Ahead(c), c[j][2] = c[k][2]
                 PROVE  j = k
      BY DEF Single
    <2>0. j \in Int /\ k \in Int
      BY DEF Ahead
    <2>1. CASE j \in Ahead(a) /\ c[j] = a[j]
      <3>1. CASE k \in Ahead(a) /\ c[k] = a[k]
        BY <2>1, <3>1 DEF Tidy, Single
      <3>2. CASE ~(k <= Len(a)) /\ k - Len(a) \in Ahead(b) /\ c[k] = b[k - Len(a)]
        <4>1. a[j][2] \in Mods(a) /\ b[k - Len(a)][2] \in Mods(b)
          BY <2>1, <3>2 DEF Mods
        <4> QED
          BY <2>1, <3>2, <4>1
      <3> QED
        BY <1>2, <3>1, <3>2
    <2>2. CASE ~(j <= Len(a)) /\ j - Len(a) \in Ahead(b) /\ c[j] = b[j - Len(a)]
      <3>1. CASE k \in Ahead(a) /\ c[k] = a[k]
        <4>1. a[k][2] \in Mods(a) /\ b[j - Len(a)][2] \in Mods(b)
          BY <2>2, <3>1 DEF Mods
        <4> QED
          BY <2>2, <3>1, <4>1
      <3>2. CASE ~(k <= Len(a)) /\ k - Len(a) \in Ahead(b) /\ c[k] = b[k - Len(a)]
        <4>1. j - Len(a) = k - Len(a)
          BY <2>2, <3>2 DEF Tidy, Single
        <4> QED
          BY <1>1, <2>0, <4>1
      <3> QED
        BY <1>2, <3>1, <3>2
    <2> QED
      BY <1>2, <2>1, <2>2
  <1> QED
    BY <1>1, <1>5, <1>6, <1>7 DEF Tidy, c

\* A list is its first item and the rest.
LEMMA TidyTail ==
    ASSUME NEW q \in Seq(Item), q # << >>, NEW B, Tidy(q, B)
    PROVE  /\ Tail(q) \in Seq(Item) /\ Tidy(Tail(q), B) /\ Mods(Tail(q)) \subseteq Mods(q)
           /\ Head(q) \in Item
           /\ IF Head(q)[1] \in {"animate", "attach", "tracks"}
              THEN /\ Head(q)[2] \in Mods(q) /\ Head(q)[2] \notin Mods(Tail(q))
                   /\ Mods(q) = Mods(Tail(q)) \cup {Head(q)[2]}
                   /\ Head(q)[1] = "animate" <=> Head(q)[2] \notin B
              ELSE Mods(q) = Mods(Tail(q))
  <1> DEFINE r == Tail(q)
  <1>1. /\ Len(q) \in Nat /\ Len(q) # 0 /\ r \in Seq(Item) /\ Len(r) = Len(q) - 1 /\ Head(q) = q[1]
        /\ Head(q) \in Item
        /\ \A i \in 1 .. Len(r) : r[i] = q[i + 1]
    BY LenProperties, EmptySeq, HeadTailProperties
  <1> HIDE DEF r
  <1>2. ASSUME NEW k \in Ahead(r)
        PROVE  k + 1 \in Ahead(q) /\ r[k] = q[k + 1] /\ k \in Nat \ {0}
    <2>1. k \in 1 .. Len(r) /\ r[k][1] \in {"animate", "attach", "tracks"}
      BY DEF Ahead
    <2>2. k + 1 \in 1 .. Len(q) /\ r[k] = q[k + 1] /\ k \in Nat \ {0}
      BY <1>1, <2>1
    <2> QED
      BY <2>1, <2>2 DEF Ahead
  <1>3. ASSUME NEW k \in Ahead(q), k # 1
        PROVE  k - 1 \in Ahead(r) /\ r[k - 1] = q[k]
    <2>1. k \in 1 .. Len(q) /\ q[k][1] \in {"animate", "attach", "tracks"}
      BY DEF Ahead
    <2>2. k - 1 \in 1 .. Len(r) /\ (k - 1) + 1 = k
      BY <1>1, <1>3, <2>1
    <2>3. r[k - 1] = q[k]
      BY <1>1, <2>2
    <2> QED
      BY <2>1, <2>2, <2>3 DEF Ahead
  <1>4. Mods(r) \subseteq Mods(q)
    <2> SUFFICES ASSUME NEW m \in Mods(r)
                 PROVE  m \in Mods(q)
      OBVIOUS
    <2>1. PICK k \in Ahead(r) : m = r[k][2]
      BY DEF Mods
    <2> QED
      BY <1>2, <2>1 DEF Mods
  <1>5. Tidy(r, B)
    <2>1. Ready(r, B)
      BY <1>2 DEF Tidy, Ready
    <2>2. Single(r)
      <3> SUFFICES ASSUME NEW j \in Ahead(r), NEW k \in Ahead(r), r[j][2] = r[k][2]
                   PROVE  j = k
        BY DEF Single
      <3>1. j + 1 = k + 1
        BY <1>2 DEF Tidy, Single
      <3> QED
        BY <1>2, <3>1
    <2> QED
      BY <2>1, <2>2 DEF Tidy
  <1>6. 1 \in Ahead(q) <=> Head(q)[1] \in {"animate", "attach", "tracks"}
    BY <1>1 DEF Ahead
  <1>7. ASSUME NEW m \in Mods(q), m \notin Mods(r)
        PROVE  1 \in Ahead(q) /\ m = q[1][2]
    <2>1. PICK k \in Ahead(q) : m = q[k][2]
      BY DEF Mods
    <2>2. k # 1 => m \in Mods(r)
      BY <1>3, <2>1 DEF Mods
    <2> QED
      BY <1>7, <2>1, <2>2
  <1>8. CASE 1 \in Ahead(q)
    <2>1. q[1][2] \in Mods(q) /\ (q[1][1] = "animate" <=> q[1][2] \notin B)
      BY <1>8 DEF Mods, Tidy, Ready
    <2>2. q[1][2] \notin Mods(r)
      <3> SUFFICES ASSUME q[1][2] \in Mods(r)
                   PROVE  FALSE
        OBVIOUS
      <3>1. PICK k \in Ahead(r) : q[1][2] = r[k][2]
        BY DEF Mods
      <3>2. k + 1 \in Ahead(q) /\ q[k + 1][2] = q[1][2] /\ k + 1 # 1
        BY <1>2, <3>1
      <3> QED
        BY <1>8, <3>2 DEF Tidy, Single
    <2>3. Mods(q) = Mods(r) \cup {q[1][2]}
      BY <1>4, <1>7, <2>1
    <2> QED
      BY <1>1, <1>4, <1>5, <1>6, <1>8, <2>1, <2>2, <2>3 DEF r
  <1>9. CASE 1 \notin Ahead(q)
    <2>1. Mods(q) = Mods(r)
      BY <1>4, <1>7, <1>9
    <2> QED
      BY <1>1, <1>4, <1>5, <1>6, <1>9, <2>1 DEF r
  <1> QED
    BY <1>8, <1>9

LEMMA ElementsOf ==
    ASSUME NEW s \in Seq(Models)
    PROVE  /\ Elements(s) = {s[i] : i \in 1 .. Len(s)} /\ Elements(s) \subseteq Models
           /\ Len(s) \in Nat
  <1>1. DOMAIN s = 1 .. Len(s) /\ Len(s) \in Nat /\ \A i \in 1 .. Len(s) : s[i] \in Models
    BY LenProperties, ElementOfSeq
  <1> QED
    BY <1>1 DEF Elements

LEMMA TidyAnimate ==
    ASSUME NEW s \in Seq(Models), NEW B, Distinct(s), Elements(s) \cap B = {}
    PROVE  Animate(s) \in Seq(Item) /\ Tidy(Animate(s), B) /\ Mods(Animate(s)) = Elements(s)
  <1> DEFINE a == Animate(s)
  <1>1. Len(s) \in Nat /\ a \in Seq(Item) /\ Len(a) = Len(s)
    BY AnimateType
  <1>2. \A k \in 1 .. Len(s) : a[k][1] = "animate" /\ a[k][2] = s[k]
    BY DEF Animate
  <1> HIDE DEF a
  <1>3. Ahead(a) = 1 .. Len(s)
    BY <1>1, <1>2 DEF Ahead
  <1>4. Elements(s) = {s[i] : i \in 1 .. Len(s)}
    BY ElementsOf
  <1>5. Mods(a) = Elements(s)
    BY <1>2, <1>3, <1>4 DEF Mods
  <1>6. Single(a)
    BY <1>2, <1>3 DEF Single, Distinct
  <1>7. Ready(a, B)
    BY <1>2, <1>3, <1>4 DEF Ready
  <1> QED
    BY <1>1, <1>5, <1>6, <1>7 DEF a, Tidy

------------------------------------------------------------------------------
(* Lists of models without repetition, and their parts. *)

\* A stretch of a list.
LEMMA StretchElements ==
    ASSUME NEW s \in Seq(Models), NEW a \in Nat, NEW b \in Nat, a <= b, b <= Len(s)
    PROVE  /\ SubSeq(s, a + 1, b) \in Seq(Models)
           /\ Elements(SubSeq(s, a + 1, b)) = {s[i] : i \in a + 1 .. b}
           /\ Distinct(s) => Distinct(SubSeq(s, a + 1, b))
  <1> DEFINE r == SubSeq(s, a + 1, b)
  <1>1. Len(s) \in Nat /\ \A i \in 1 .. Len(s) : s[i] \in Models
    BY LenProperties, ElementOfSeq
  <1>2. r \in Seq(Models)
    BY <1>1, Part
  <1>3. Len(r) = b - a /\ \A i \in 1 .. b - a : r[i] = s[a + i]
    <2>1. \A i \in a + 1 .. b : s[i] \in Models
      BY <1>1
    <2>2. /\ Len(r) = IF a + 1 <= b THEN b - (a + 1) + 1 ELSE 0
          /\ \A i \in 1 .. b - (a + 1) + 1 : r[i] = s[(a + 1) + i - 1]
      BY <2>1, SubSeqProperties
    <2>3. \A i \in 1 .. b - a : i \in 1 .. b - (a + 1) + 1 /\ (a + 1) + i - 1 = a + i
      OBVIOUS
    <2> QED
      BY <2>2, <2>3
  <1> HIDE DEF r
  <1>4. Elements(r) = {r[i] : i \in 1 .. Len(r)}
    BY <1>2, ElementsOf
  <1>5. Elements(r) = {s[i] : i \in a + 1 .. b}
    <2>1. ASSUME NEW i \in 1 .. Len(r)
          PROVE  r[i] \in {s[j] : j \in a + 1 .. b}
      <3>1. a + i \in a + 1 .. b /\ r[i] = s[a + i]
        BY <1>3
      <3> QED
        BY <3>1
    <2>2. ASSUME NEW j \in a + 1 .. b
          PROVE  s[j] \in {r[i] : i \in 1 .. Len(r)}
      <3>1. j - a \in 1 .. Len(r) /\ a + (j - a) = j
        BY <1>3
      <3>2. r[j - a] = s[j]
        BY <1>3, <3>1
      <3> QED
        BY <3>1, <3>2
    <2> QED
      BY <1>4, <2>1, <2>2
  <1>6. ASSUME Distinct(s)
        PROVE  Distinct(r)
    <2> SUFFICES ASSUME NEW i \in 1 .. Len(r), NEW j \in 1 .. Len(r), r[i] = r[j]
                 PROVE  i = j
      BY DEF Distinct
    <2>1. a + i \in 1 .. Len(s) /\ a + j \in 1 .. Len(s) /\ s[a + i] = s[a + j]
      BY <1>1, <1>3
    <2>2. a + i = a + j
      BY <1>6, <2>1 DEF Distinct
    <2> QED
      BY <2>2
  <1> QED
    BY <1>2, <1>5, <1>6 DEF r

\* Two lists that share no model, one after the other.
LEMMA DistinctConcat ==
    ASSUME NEW a \in Seq(Models), NEW b \in Seq(Models), Distinct(a), Distinct(b),
           Elements(a) \cap Elements(b) = {}
    PROVE  a \o b \in Seq(Models) /\ Distinct(a \o b) /\ Elements(a \o b) = Elements(a) \cup Elements(b)
  <1> DEFINE c == a \o b
  <1>1. /\ Len(a) \in Nat /\ Len(b) \in Nat /\ c \in Seq(Models) /\ Len(c) = Len(a) + Len(b)
        /\ \A i \in 1 .. Len(a) + Len(b) : c[i] = IF i <= Len(a) THEN a[i] ELSE b[i - Len(a)]
    BY LenProperties, ConcatProperties
  <1>2. /\ Elements(a) = {a[i] : i \in 1 .. Len(a)} /\ Elements(b) = {b[i] : i \in 1 .. Len(b)}
        /\ Elements(c) = {c[i] : i \in 1 .. Len(c)}
    BY <1>1, ElementsOf
  <1> HIDE DEF c
  <1>3. ASSUME NEW k \in 1 .. Len(c)
        PROVE  \/ k <= Len(a) /\ k \in 1 .. Len(a) /\ c[k] = a[k]
               \/ ~(k <= Len(a)) /\ k - Len(a) \in 1 .. Len(b) /\ c[k] = b[k - Len(a)]
    BY <1>1
  <1>4. Elements(c) = Elements(a) \cup Elements(b)
    <2>1. ASSUME NEW k \in 1 .. Len(c)
          PROVE  c[k] \in Elements(a) \cup Elements(b)
      BY <1>2, <1>3
    <2>2. ASSUME NEW k \in 1 .. Len(a)
          PROVE  a[k] \in Elements(c)
      <3>1. k \in 1 .. Len(c) /\ c[k] = a[k]
        BY <1>1
      <3> QED
        BY <1>2, <3>1
    <2>3. ASSUME NEW k \in 1 .. Len(b)
          PROVE  b[k] \in Elements(c)
      <3>1. Len(a) + k \in 1 .. Len(c) /\ ~(Len(a) + k <= Len(a)) /\ (Len(a) + k) - Len(a) = k
        BY <1>1
      <3>2. c[Len(a) + k] = b[k]
        BY <1>1, <3>1
      <3> QED
        BY <1>2, <3>1, <3>2
    <2> QED
      BY <1>2, <2>1, <2>2, <2>3
  <1>5. Distinct(c)
    <2> SUFFICES ASSUME NEW j \in 1 .. Len(c), NEW k \in 1 .. Len(c), c[j] = c[k]
                 PROVE  j = k
      BY DEF Distinct
    <2>1. j \in Int /\ k \in Int
      OBVIOUS
    <2>2. CASE j <= Len(a) /\ j \in 1 .. Len(a) /\ c[j] = a[j]
      <3>1. CASE k <= Len(a) /\ k \in 1 .. Len(a) /\ c[k] = a[k]
        BY <2>2, <3>1 DEF Distinct
      <3>2. CASE ~(k <= Len(a)) /\ k - Len(a) \in 1 .. Len(b) /\ c[k] = b[k - Len(a)]
        BY <1>2, <2>2, <3>2
      <3> QED
        BY <1>3, <3>1, <3>2
    <2>3. CASE ~(j <= Len(a)) /\ j - Len(a) \in 1 .. Len(b) /\ c[j] = b[j - Len(a)]
      <3>1. CASE k <= Len(a) /\ k \in 1 .. Len(a) /\ c[k] = a[k]
        BY <1>2, <2>3, <3>1
      <3>2. CASE ~(k <= Len(a)) /\ k - Len(a) \in 1 .. Len(b) /\ c[k] = b[k - Len(a)]
        <4>1. j - Len(a) = k - Len(a)
          BY <2>3, <3>2 DEF Distinct
        <4> QED
          BY <1>1, <2>1, <4>1
      <3> QED
        BY <1>3, <3>1, <3>2
    <2> QED
      BY <1>3, <2>2, <2>3
  <1> QED
    BY <1>1, <1>4, <1>5 DEF c

\* The client's halves share the list out.
LEMMA HalvesElements ==
    ASSUME NEW s \in Seq(Models), Distinct(s)
    PROVE  /\ Distinct(AtOdd(s)) /\ Distinct(AtEven(s))
           /\ Elements(AtOdd(s)) \cap Elements(AtEven(s)) = {}
           /\ Elements(AtOdd(s)) \cup Elements(AtEven(s)) = Elements(s)
  <1> DEFINE h == Len(s) \div 2
             g == (Len(s) + 1) \div 2
             o == AtOdd(s)
             v == AtEven(s)
  <1>1. Len(s) \in Nat /\ Elements(s) = {s[i] : i \in 1 .. Len(s)}
    BY ElementsOf
  <1>2. /\ h \in Nat /\ 2 * h <= Len(s) /\ Len(s) <= 2 * h + 1
        /\ g \in Nat /\ 2 * g <= Len(s) + 1 /\ Len(s) <= 2 * g
    BY <1>1
  <1>3. o = [i \in 1 .. h |-> s[2 * i]] /\ v = [i \in 1 .. g |-> s[2 * i - 1]]
    BY DEF AtOdd, AtEven
  <1>4. DOMAIN o = 1 .. h /\ DOMAIN v = 1 .. g
    BY <1>3
  <1>5. o \in Seq(Models) /\ v \in Seq(Models)
    BY HalvesType
  <1> HIDE DEF h, g, o, v
  <1>6. Len(o) = h /\ Len(v) = g
    BY <1>2, <1>4, <1>5, LenProperties
  <1>7. /\ \A i \in 1 .. h : o[i] = s[2 * i] /\ 2 * i \in 1 .. Len(s)
        /\ \A i \in 1 .. g : v[i] = s[2 * i - 1] /\ 2 * i - 1 \in 1 .. Len(s)
    BY <1>1, <1>2, <1>3
  <1>8. Elements(o) = {o[i] : i \in 1 .. h} /\ Elements(v) = {v[i] : i \in 1 .. g}
    BY <1>4 DEF Elements
  <1>9. Distinct(o)
    <2> SUFFICES ASSUME NEW i \in 1 .. h, NEW j \in 1 .. h, o[i] = o[j]
                 PROVE  i = j
      BY <1>6 DEF Distinct
    <2>1. 2 * i = 2 * j
      BY <1>7 DEF Distinct
    <2> QED
      BY <2>1
  <1>10. Distinct(v)
    <2> SUFFICES ASSUME NEW i \in 1 .. g, NEW j \in 1 .. g, v[i] = v[j]
                 PROVE  i = j
      BY <1>6 DEF Distinct
    <2>1. 2 * i - 1 = 2 * j - 1
      BY <1>7 DEF Distinct
    <2> QED
      BY <2>1
  <1>11. ASSUME NEW i \in 1 .. h, NEW j \in 1 .. g
         PROVE  o[i] # v[j]
    <2>1. 2 * i # 2 * j - 1
      OBVIOUS
    <2> QED
      BY <1>7, <2>1 DEF Distinct
  <1>12. ASSUME NEW k \in 1 .. Len(s)
         PROVE  s[k] \in Elements(o) \cup Elements(v)
    <2>1. \/ k % 2 = 0 /\ k = 2 * (k \div 2)
          \/ k % 2 = 1 /\ k = 2 * (k \div 2) + 1
      <3>1. k \in Nat /\ 2 \in Nat \ {0}
        OBVIOUS
      <3>2. k \div 2 \in Nat /\ k % 2 \in 0 .. 2 - 1 /\ k = 2 * (k \div 2) + (k % 2)
        BY <3>1, Division
      <3> QED
        BY <3>2
    <2> DEFINE d == k \div 2
    <2>2. d \in Nat
      OBVIOUS
    <2>3. CASE k = 2 * d
      <3>1. d \in 1 .. h
        BY <1>1, <1>2, <2>2, <2>3
      <3>2. o[d] = s[k]
        BY <1>7, <2>3, <3>1
      <3> QED
        BY <1>8, <3>1, <3>2
    <2>4. CASE k = 2 * d + 1
      <3>1. d + 1 \in 1 .. g /\ 2 * (d + 1) - 1 = k
        BY <1>1, <1>2, <2>2, <2>4
      <3>2. v[d + 1] = s[k]
        BY <1>7, <3>1
      <3> QED
        BY <1>8, <3>1, <3>2
    <2> QED
      BY <2>1, <2>3, <2>4
  <1>13. Elements(o) \cap Elements(v) = {}
    BY <1>8, <1>11
  <1>14. Elements(o) \cup Elements(v) = Elements(s)
    <2>1. Elements(o) \subseteq Elements(s) /\ Elements(v) \subseteq Elements(s)
      BY <1>1, <1>7, <1>8
    <2> QED
      BY <1>1, <1>12, <2>1
  <1> QED
    BY <1>9, <1>10, <1>13, <1>14 DEF o, v

------------------------------------------------------------------------------
(* The slices of a list share it out. *)

\* Where the k-th slice of a list ends.
Ends(s, k, n) == k * (Len(s) \div n) + (IF k < Len(s) % n THEN k ELSE Len(s) % n)

LEMMA SliceEnds ==
    ASSUME NEW s \in Seq(Models), NEW n \in 1 .. Len(s)
    PROVE  /\ \A k \in 0 .. n : Ends(s, k, n) \in Nat
           /\ Ends(s, 0, n) = 0 /\ Ends(s, n, n) = Len(s)
           /\ \A k \in 1 .. n : /\ Ends(s, k - 1, n) <= Ends(s, k, n)
                                /\ Slice(s, k, n) = SubSeq(s, Ends(s, k - 1, n) + 1, Ends(s, k, n))
  <1> DEFINE base == Len(s) \div n
             rem == Len(s) % n
  <1>1. Len(s) \in Nat /\ n \in Nat \ {0}
    BY LenProperties
  <1>2. base \in Nat /\ rem \in 0 .. n - 1 /\ Len(s) = n * base + rem
    BY <1>1, Division
  <1>3. ASSUME NEW k \in 0 .. n
        PROVE  \E p \in Nat : /\ p = k * base
                              /\ k < rem => Ends(s, k, n) = p + k
                              /\ ~(k < rem) => Ends(s, k, n) = p + rem
                              /\ k # 0 => (k - 1) * base = p - base
    <2>1. k * base \in Nat /\ (k - 1) * base = k * base - base
      BY <1>1, <1>2
    <2>2. /\ k < rem => Ends(s, k, n) = k * base + k
          /\ ~(k < rem) => Ends(s, k, n) = k * base + rem
      BY DEF Ends
    <2> QED
      BY <2>1, <2>2
  <1>4. ASSUME NEW k \in 1 .. n, NEW b, b = (k - 1) * base
        PROVE  /\ k <= rem => Slice(s, k, n) = SubSeq(s, (b + (k - 1)) + 1, (b + (k - 1)) + (base + 1))
               /\ ~(k <= rem) => Slice(s, k, n) = SubSeq(s, (b + rem) + 1, (b + rem) + (base + 0))
    <2> DEFINE from == b + (IF k - 1 < rem THEN k - 1 ELSE rem)
               size == base + (IF k <= rem THEN 1 ELSE 0)
    <2>1. Slice(s, k, n) = SubSeq(s, from + 1, from + size)
      BY <1>4, Zenon DEF Slice
    <2>2. k - 1 < rem <=> k <= rem
      BY <1>1, <1>2
    <2>3. k <= rem => from = b + (k - 1) /\ size = base + 1
      BY <2>2, Zenon
    <2>4. ~(k <= rem) => from = b + rem /\ size = base + 0
      BY <2>2, Zenon
    <2> HIDE DEF from, size
    <2> QED
      BY <2>1, <2>3, <2>4
  <1> HIDE DEF base, rem
  <1>5. ASSUME NEW k \in 0 .. n
        PROVE  Ends(s, k, n) \in Nat
    <2>1. PICK p \in Nat : /\ k < rem => Ends(s, k, n) = p + k
                           /\ ~(k < rem) => Ends(s, k, n) = p + rem
      BY <1>3
    <2> QED
      BY <1>1, <1>2, <2>1
  <1>6. Ends(s, 0, n) = 0
    <2>1. 0 \in 0 .. n /\ 0 * base = 0
      BY <1>1, <1>2
    <2>2. /\ 0 < rem => Ends(s, 0, n) = 0 * base + 0
          /\ ~(0 < rem) => Ends(s, 0, n) = 0 * base + rem
      BY <1>3, <2>1
    <2> QED
      BY <1>2, <2>1, <2>2
  <1>7. Ends(s, n, n) = Len(s)
    <2>1. n \in 0 .. n /\ ~(n < rem)
      BY <1>1, <1>2
    <2>2. Ends(s, n, n) = n * base + rem
      BY <1>3, <2>1
    <2> QED
      BY <1>2, <2>2
  <1>8. ASSUME NEW k \in 1 .. n
        PROVE  /\ Ends(s, k - 1, n) <= Ends(s, k, n)
               /\ Slice(s, k, n) = SubSeq(s, Ends(s, k - 1, n) + 1, Ends(s, k, n))
    <2>0. k \in 0 .. n /\ k - 1 \in 0 .. n /\ k # 0
      BY <1>1
    <2>1. PICK c \in Nat : /\ c = k * base
                           /\ k < rem => Ends(s, k, n) = c + k
                           /\ ~(k < rem) => Ends(s, k, n) = c + rem
                           /\ k # 0 => (k - 1) * base = c - base
      BY <1>3, <2>0
    <2>2. PICK b \in Nat : /\ b = (k - 1) * base
                           /\ k - 1 < rem => Ends(s, k - 1, n) = b + (k - 1)
                           /\ ~(k - 1 < rem) => Ends(s, k - 1, n) = b + rem
      BY <1>3, <2>0
    <2>3. /\ k <= rem => Slice(s, k, n) = SubSeq(s, (b + (k - 1)) + 1, (b + (k - 1)) + (base + 1))
          /\ ~(k <= rem) => Slice(s, k, n) = SubSeq(s, (b + rem) + 1, (b + rem) + (base + 0))
      BY <1>4, <2>2
    <2>4. c = b + base /\ k \in Nat /\ rem \in Nat
      BY <1>1, <1>2, <2>0, <2>1, <2>2
    <2>5. CASE k <= rem
      <3>1. /\ Ends(s, k - 1, n) = b + (k - 1) /\ Ends(s, k, n) = c + k
        <4>1. k - 1 < rem
          BY <2>4, <2>5
        <4>2. k < rem \/ k = rem
          BY <2>4, <2>5
        <4> QED
          BY <2>1, <2>2, <2>4, <4>1, <4>2
      <3>2. (b + (k - 1)) + (base + 1) = c + k /\ b + (k - 1) <= c + k
        BY <1>2, <2>4
      <3> QED
        BY <2>3, <2>5, <3>1, <3>2
    <2>6. CASE ~(k <= rem)
      <3>1. /\ Ends(s, k - 1, n) = b + rem /\ Ends(s, k, n) = c + rem
        <4>1. ~(k - 1 < rem) /\ ~(k < rem)
          BY <2>4, <2>6
        <4> QED
          BY <2>1, <2>2, <4>1
      <3>2. (b + rem) + (base + 0) = c + rem /\ b + rem <= c + rem
        BY <1>2, <2>4
      <3> QED
        BY <2>3, <2>6, <3>1, <3>2
    <2> QED
      BY <2>5, <2>6
  <1> QED
    BY <1>5, <1>6, <1>7, <1>8

\* The slices end one after the other.
LEMMA EndsGrow ==
    ASSUME NEW s \in Seq(Models), NEW n \in 1 .. Len(s), NEW j \in 0 .. n, NEW k \in 0 .. n, j <= k
    PROVE  Ends(s, j, n) <= Ends(s, k, n)
  <1> DEFINE Bad == {i \in Nat : j + i <= n /\ ~(Ends(s, j, n) <= Ends(s, j + i, n))}
  <1>0. n \in Nat
    BY LenProperties
  <1>1. ASSUME Bad # {}
        PROVE  FALSE
    <2>1. PICK i \in Bad : \A l \in Bad : i <= l
      BY <1>1, LeastNumber
    <2>2. i # 0
      <3>1. j + 0 = j /\ Ends(s, j, n) \in Nat
        BY SliceEnds
      <3> QED
        BY <2>1, <3>1
    <2>3. i - 1 \in Nat /\ j + (i - 1) <= n /\ i - 1 < i /\ j + i \in 1 .. n /\ (j + i) - 1 = j + (i - 1)
      BY <1>0, <2>1, <2>2
    <2>4. Ends(s, j, n) <= Ends(s, j + (i - 1), n)
      BY <2>1, <2>3
    <2>5. Ends(s, (j + i) - 1, n) <= Ends(s, j + i, n)
      BY <2>3, SliceEnds
    <2>6. Ends(s, j, n) \in Nat /\ Ends(s, j + (i - 1), n) \in Nat /\ Ends(s, j + i, n) \in Nat
      <3>1. j + (i - 1) \in 0 .. n /\ j + i \in 0 .. n
        BY <1>0, <2>3
      <3> QED
        BY <3>1, SliceEnds
    <2>7. Ends(s, j, n) <= Ends(s, j + i, n)
      BY <2>3, <2>4, <2>5, <2>6
    <2> QED
      BY <2>1, <2>7
  <1> DEFINE d == k - j
  <1>2. d \in Nat /\ j + d = k /\ k <= n
    BY <1>0
  <1>3. d \notin Bad
    BY <1>1
  <1> HIDE DEF d
  <1>4. Ends(s, j, n) <= Ends(s, j + d, n)
    BY <1>2, <1>3
  <1> QED
    BY <1>2, <1>4

LEMMA SlicesElements ==
    ASSUME NEW s \in Seq(Models), Distinct(s), NEW n \in 1 .. Len(s)
    PROVE  /\ \A k \in 1 .. n : /\ Slice(s, k, n) \in Seq(Models) /\ Distinct(Slice(s, k, n))
                                /\ Elements(Slice(s, k, n)) \subseteq Elements(s)
           /\ \A j, k \in 1 .. n : j # k => Elements(Slice(s, j, n)) \cap Elements(Slice(s, k, n)) = {}
           /\ \A m \in Elements(s) : \E k \in 1 .. n : m \in Elements(Slice(s, k, n))
  <1> DEFINE E(k) == Ends(s, k, n)
  <1>1. Len(s) \in Nat /\ n \in Nat \ {0} /\ Elements(s) = {s[i] : i \in 1 .. Len(s)}
    BY ElementsOf
  <1>2. /\ \A k \in 0 .. n : E(k) \in Nat
        /\ E(0) = 0 /\ E(n) = Len(s)
        /\ \A k \in 1 .. n : E(k - 1) <= E(k) /\ Slice(s, k, n) = SubSeq(s, E(k - 1) + 1, E(k))
    BY SliceEnds
  <1>3. \A j, k \in 0 .. n : j <= k => E(j) <= E(k)
    BY EndsGrow
  <1> HIDE DEF E
  <1>4. ASSUME NEW k \in 1 .. n
        PROVE  /\ Slice(s, k, n) \in Seq(Models) /\ Distinct(Slice(s, k, n))
               /\ Elements(Slice(s, k, n)) = {s[i] : i \in E(k - 1) + 1 .. E(k)}
               /\ E(k - 1) \in Nat /\ E(k) \in Nat /\ E(k) <= Len(s)
    <2>1. k - 1 \in 0 .. n /\ k \in 0 .. n /\ n \in 0 .. n /\ k <= n
      BY <1>1
    <2>2. E(k - 1) \in Nat /\ E(k) \in Nat /\ E(k - 1) <= E(k) /\ E(k) <= Len(s)
      BY <1>2, <1>3, <2>1
    <2>3. /\ SubSeq(s, E(k - 1) + 1, E(k)) \in Seq(Models)
          /\ Elements(SubSeq(s, E(k - 1) + 1, E(k))) = {s[i] : i \in E(k - 1) + 1 .. E(k)}
          /\ Distinct(SubSeq(s, E(k - 1) + 1, E(k)))
      BY <2>2, StretchElements
    <2> QED
      BY <1>2, <2>2, <2>3
  <1>5. ASSUME NEW j \in 1 .. n, NEW k \in 1 .. n, j < k, NEW m \in Elements(Slice(s, j, n)), m \in Elements(Slice(s, k, n))
        PROVE  FALSE
    <2>1. PICK a \in E(j - 1) + 1 .. E(j) : m = s[a]
      BY <1>4
    <2>2. PICK b \in E(k - 1) + 1 .. E(k) : m = s[b]
      BY <1>4, <1>5
    <2>3. j \in 0 .. n /\ k - 1 \in 0 .. n /\ j <= k - 1
      BY <1>1, <1>5
    <2>4. E(j) <= E(k - 1) /\ E(j) \in Nat /\ E(k - 1) \in Nat /\ E(j - 1) \in Nat
          /\ E(k) \in Nat /\ E(j) <= Len(s) /\ E(k) <= Len(s)
      BY <1>3, <1>4, <2>3
    <2>5. a \in 1 .. Len(s) /\ b \in 1 .. Len(s) /\ a < b /\ a # b
      BY <1>1, <2>4
    <2>6. s[a] = s[b]
      BY <2>1, <2>2
    <2> QED
      BY <2>5, <2>6 DEF Distinct
  <1>6. ASSUME NEW m \in Elements(s)
        PROVE  \E k \in 1 .. n : m \in Elements(Slice(s, k, n))
    <2>1. PICK i \in 1 .. Len(s) : m = s[i]
      BY <1>1
    <2> DEFINE K == {k \in Nat : k <= n /\ i <= E(k)}
    <2>2. n \in K
      BY <1>1, <1>2
    <2>3. PICK k \in K : \A l \in K : k <= l
      BY <2>2, LeastNumber
    <2>4. k # 0
      BY <1>2, <2>3
    <2>5. k \in 1 .. n /\ k - 1 \in Nat /\ k - 1 < k /\ k - 1 <= n
      BY <1>1, <2>3, <2>4
    <2>6. ~(i <= E(k - 1))
      BY <2>3, <2>5
    <2>7. i \in E(k - 1) + 1 .. E(k)
      BY <1>4, <2>3, <2>5, <2>6
    <2> QED
      BY <1>4, <2>1, <2>5, <2>7
  <1>7. ASSUME NEW k \in 1 .. n
        PROVE  Elements(Slice(s, k, n)) \subseteq Elements(s)
    <2>1. \A i \in E(k - 1) + 1 .. E(k) : i \in 1 .. Len(s)
      BY <1>1, <1>4
    <2> QED
      BY <1>1, <1>4, <2>1
  <1>8. ASSUME NEW j \in 1 .. n, NEW k \in 1 .. n, j # k
        PROVE  Elements(Slice(s, j, n)) \cap Elements(Slice(s, k, n)) = {}
    <2>1. j < k \/ k < j
      BY <1>8
    <2> QED
      BY <1>5, <2>1
  <1> QED
    BY <1>4, <1>6, <1>7, <1>8

\* Ranks differ, and those a fork uses are all the numbers below its own.
LEMMA RanksUsed ==
    ASSUME NEW pool, IsFiniteSet(pool), pool \subseteq Nat, NEW n \in 1 .. Cardinality(pool) + 1
    PROVE  LET used == {w \in pool : Rank(w, pool) < n}
           IN  /\ \A w \in used : Rank(w, pool) \in 1 .. n - 1
               /\ \A v, w \in used : Rank(v, pool) = Rank(w, pool) => v = w
               /\ \A k \in 1 .. n - 1 : \E w \in used : Rank(w, pool) = k
  <1> DEFINE N == Cardinality(pool)
             used == {w \in pool : Rank(w, pool) < n}
             part == [w \in used |-> Rank(w, pool)]
  <1>1. N \in Nat
    BY FS_CardinalityType
  <1>2. IsFiniteSet(used) /\ Cardinality(used) = n - 1
    BY RanksBelow
  <1>3. \A w \in used : Rank(w, pool) \in 1 .. n - 1
    <2> SUFFICES ASSUME NEW w \in used
                 PROVE  Rank(w, pool) \in 1 .. n - 1
      OBVIOUS
    <2>1. Rank(w, pool) \in 1 .. N /\ Rank(w, pool) < n
      BY RankType
    <2> QED
      BY <1>1, <2>1
  <1>4. ASSUME NEW v \in used, NEW w \in used, v # w
        PROVE  Rank(v, pool) # Rank(w, pool)
    <2>1. v \in pool /\ w \in pool /\ v \in Nat /\ w \in Nat
      OBVIOUS
    <2>2. v < w \/ w < v
      BY <1>4, <2>1
    <2>3. Rank(v, pool) < Rank(w, pool) \/ Rank(w, pool) < Rank(v, pool)
      BY <2>1, <2>2, RankGrows
    <2>4. Rank(v, pool) \in 1 .. n - 1 /\ Rank(w, pool) \in 1 .. n - 1
      BY <1>3
    <2> QED
      BY <2>3, <2>4
  <1>5. n - 1 \in Nat /\ IsFiniteSet(1 .. n - 1) /\ Cardinality(1 .. n - 1) = n - 1
    <2>1. n - 1 \in Nat
      BY <1>1
    <2>2. IsFiniteSet(1 .. n - 1) /\ Cardinality(1 .. n - 1) = IF 1 > n - 1 THEN 0 ELSE n - 1 - 1 + 1
      BY <2>1, FS_Interval
    <2> QED
      BY <2>1, <2>2
  <1> HIDE DEF used
  <1>6. part \in Injection(used, 1 .. n - 1)
    <2>1. part \in [used -> 1 .. n - 1]
      BY <1>3
    <2>2. \A v, w \in used : part[v] = part[w] => v = w
      BY <1>4
    <2> QED
      BY <2>1, <2>2 DEF Injection, IsInjective
  <1>7. part \in Surjection(used, 1 .. n - 1)
    BY <1>2, <1>5, <1>6, FS_Injection
  <1>8. \A k \in 1 .. n - 1 : \E w \in used : Rank(w, pool) = k
    BY <1>7 DEF Surjection
  <1> QED
    BY <1>3, <1>4, <1>8 DEF used

\* What the workers a fork calls, and the caller, find in their slices.
Shared(s, pool, used) ==
    /\ \A w \in used : /\ Distinct(share'[w])
                       /\ Elements(share'[w]) \subseteq Elements(s)
                       /\ Elements(share'[w]) \cap Elements(OwnSlice(s, pool)) = {}
    /\ \A v, w \in used : v # w => Elements(share'[v]) \cap Elements(share'[w]) = {}
    /\ \A m \in Elements(s) \ Elements(OwnSlice(s, pool)) :
          \E w \in used : m \in Elements(share'[w])
    /\ \A w \in PoolWorkers \ used : share'[w] = share[w]
    /\ signal' = [w \in PoolWorkers |-> w \in used \/ signal[w]]

\* A fork shares the list out among the workers it calls and the caller.
LEMMA ForkElements ==
    ASSUME NEW s \in Seq(Models), Distinct(s), Len(s) >= 1, NEW pool \in {RootWorkers, KidWorkers}, NEW name,
           Fork(s, pool, name)
    PROVE  /\ OwnSlice(s, pool) \in Seq(Models) /\ Distinct(OwnSlice(s, pool))
           /\ Elements(OwnSlice(s, pool)) \subseteq Elements(s)
           /\ \E used \in SUBSET pool : Shared(s, pool, used)
  <1> DEFINE n == Participants(s, pool)
             used == {w \in pool : Rank(w, pool) < n}
             own == OwnSlice(s, pool)
  <1>1. IsFiniteSet(pool) /\ pool \subseteq Nat /\ pool \subseteq PoolWorkers /\ Cardinality(pool) \in Nat
    BY SceneAssumption, FS_CardinalityType DEF PoolWorkers
  <1>2. Len(s) \in Nat
    BY LenProperties
  <1>3. n \in 1 .. Len(s) /\ n \in 1 .. Cardinality(pool) + 1
    BY <1>1, <1>2 DEF Participants
  <1>4. /\ share' = [w \in PoolWorkers |-> IF w \in used THEN Slice(s, Rank(w, pool), n) ELSE share[w]]
        /\ signal' = [w \in PoolWorkers |-> w \in used \/ signal[w]]
    BY DEF Fork
  <1>5. own = Slice(s, n, n)
    BY DEF OwnSlice
  <1>6. /\ \A w \in used : Rank(w, pool) \in 1 .. n - 1
        /\ \A v, w \in used : Rank(v, pool) = Rank(w, pool) => v = w
        /\ \A k \in 1 .. n - 1 : \E w \in used : Rank(w, pool) = k
    BY <1>1, <1>3, RanksUsed
  <1>7. used \subseteq pool
    OBVIOUS
  <1> HIDE DEF used, n, own
  <1>8. /\ \A k \in 1 .. n : /\ Slice(s, k, n) \in Seq(Models) /\ Distinct(Slice(s, k, n))
                             /\ Elements(Slice(s, k, n)) \subseteq Elements(s)
        /\ \A j, k \in 1 .. n : j # k => Elements(Slice(s, j, n)) \cap Elements(Slice(s, k, n)) = {}
        /\ \A m \in Elements(s) : \E k \in 1 .. n : m \in Elements(Slice(s, k, n))
    BY <1>3, SlicesElements
  <1>9. n \in 1 .. n /\ n \in Nat
    BY <1>3
  <1>10. \A w \in used : /\ Rank(w, pool) \in 1 .. n /\ Rank(w, pool) # n
                         /\ share'[w] = Slice(s, Rank(w, pool), n)
    <2> SUFFICES ASSUME NEW w \in used
                 PROVE  /\ Rank(w, pool) \in 1 .. n /\ Rank(w, pool) # n
                        /\ share'[w] = Slice(s, Rank(w, pool), n)
      OBVIOUS
    <2>1. Rank(w, pool) \in 1 .. n - 1
      BY <1>6
    <2>2. w \in PoolWorkers
      BY <1>1, <1>7
    <2>3. share'[w] = Slice(s, Rank(w, pool), n)
      BY <1>4, <2>2
    <2>4. Rank(w, pool) \in 1 .. n /\ Rank(w, pool) # n
      BY <1>9, <2>1
    <2> QED
      BY <2>3, <2>4
  <1>11. own \in Seq(Models) /\ Distinct(own) /\ Elements(own) \subseteq Elements(s)
    BY <1>5, <1>8, <1>9
  <1>12. ASSUME NEW w \in used
         PROVE  /\ Distinct(share'[w])
                /\ Elements(share'[w]) \subseteq Elements(s)
                /\ Elements(share'[w]) \cap Elements(own) = {}
    BY <1>5, <1>8, <1>9, <1>10
  <1>13. ASSUME NEW v \in used, NEW w \in used, v # w
         PROVE  Elements(share'[v]) \cap Elements(share'[w]) = {}
    <2>1. Rank(v, pool) # Rank(w, pool)
      BY <1>6, <1>13
    <2> QED
      BY <1>8, <1>10, <2>1
  <1>14. ASSUME NEW m \in Elements(s) \ Elements(own)
         PROVE  \E w \in used : m \in Elements(share'[w])
    <2>1. PICK k \in 1 .. n : m \in Elements(Slice(s, k, n))
      BY <1>8
    <2>2. k # n
      BY <1>5, <2>1
    <2>3. k \in 1 .. n - 1
      BY <1>9, <2>2
    <2>4. PICK w \in used : Rank(w, pool) = k
      BY <1>6, <2>3
    <2> QED
      BY <1>10, <2>1, <2>4
  <1>15. \A w \in PoolWorkers \ used : share'[w] = share[w]
    BY <1>4
  <1>16. Shared(s, pool, used)
    BY <1>4, <1>12, <1>13, <1>14, <1>15 DEF own, Shared
  <1> QED
    BY <1>7, <1>11, <1>16 DEF own

------------------------------------------------------------------------------
(* The trees of models. *)

ShownKids(m) == Elements(Shown(Kids(m)))

LEMMA DistinctAppend ==
    ASSUME NEW s \in Seq(Models), NEW m \in Models, Distinct(s), m \notin Elements(s)
    PROVE  /\ Append(s, m) \in Seq(Models) /\ Distinct(Append(s, m))
           /\ Elements(Append(s, m)) = Elements(s) \cup {m}
  <1> DEFINE a == Append(s, m)
  <1>1. /\ Len(s) \in Nat /\ a \in Seq(Models) /\ Len(a) = Len(s) + 1
        /\ \A i \in 1 .. Len(s) : a[i] = s[i]
        /\ a[Len(s) + 1] = m
    BY LenProperties, AppendProperties
  <1>2. Elements(s) = {s[i] : i \in 1 .. Len(s)} /\ Elements(a) = {a[i] : i \in 1 .. Len(a)}
    BY <1>1, ElementsOf
  <1> HIDE DEF a
  <1>3. \A i \in 1 .. Len(a) : i \in 1 .. Len(s) \/ i = Len(s) + 1
    BY <1>1
  <1>4. \A i \in 1 .. Len(s) : i \in 1 .. Len(a)
    BY <1>1
  <1>5. Len(s) + 1 \in 1 .. Len(a)
    BY <1>1
  <1>6. Distinct(a)
    <2> SUFFICES ASSUME NEW i \in 1 .. Len(a), NEW j \in 1 .. Len(a), a[i] = a[j]
                 PROVE  i = j
      BY DEF Distinct
    <2>1. \A k \in 1 .. Len(s) : a[k] # m
      BY <1>1, <1>2
    <2>2. CASE i \in 1 .. Len(s) /\ j \in 1 .. Len(s)
      BY <1>1, <2>2 DEF Distinct
    <2>3. CASE ~(i \in 1 .. Len(s) /\ j \in 1 .. Len(s))
      BY <1>1, <1>3, <2>1, <2>3
    <2> QED
      BY <2>2, <2>3
  <1>7. Elements(a) = Elements(s) \cup {m}
    BY <1>1, <1>2, <1>3, <1>4, <1>5
  <1> QED
    BY <1>1, <1>6, <1>7 DEF a

LEMMA NothingElements == << >> \in Seq(Models) /\ Distinct(<< >>) /\ Elements(<< >>) = {}
  <1>1. << >> \in Seq(Models) /\ Len(<< >>) = 0 /\ 1 .. 0 = {}
    OBVIOUS
  <1>2. Elements(<< >>) = {<< >>[i] : i \in 1 .. Len(<< >>)}
    BY <1>1, ElementsOf
  <1>3. Elements(<< >>) = {}
    BY <1>1, <1>2
  <1> QED
    BY <1>1, <1>3 DEF Distinct

\* The shown ones of a list are among its models, each as often.
LEMMA ShownElements ==
    ASSUME NEW s \in Seq(Models), Distinct(s)
    PROVE  Elements(Shown(s)) \subseteq Elements(s) /\ Distinct(Shown(s))
  <1> DEFINE IsList(f) == f = [n \in 0 .. Len(s) |-> Longer(s, f, n)]
             list == CHOOSE f : IsList(f)
  <1>1. Shown(s) = list[Len(s)]
    BY DEF Shown, Longer
  <1>2. Len(s) \in Nat /\ \A n \in 1 .. Len(s) : s[n] \in Models
    BY LenProperties, ElementOfSeq
  <1>3. \E f : IsList(f)
    BY <1>2, LongerExists, Zenon
  <1>4. IsList(list)
    <2> HIDE DEF IsList
    <2> QED
      BY <1>3, Zenon
  <1>5. \A n \in 0 .. Len(s) : list[n] = Longer(s, list, n)
    BY <1>4, Zenon
  <1> HIDE DEF list
  <1> DEFINE Fine(n) == /\ list[n] \in Seq(Models) /\ Distinct(list[n])
                        /\ Elements(list[n]) \subseteq {s[i] : i \in 1 .. n}
             Bad == {n \in Nat : n <= Len(s) /\ ~Fine(n)}
  <1>6. ASSUME Bad # {}
        PROVE  FALSE
    <2>1. PICK n \in Bad : \A j \in Bad : n <= j
      BY <1>6, LeastNumber
    <2>2. n # 0
      <3>1. 0 \in 0 .. Len(s)
        BY <1>2
      <3>2. list[0] = << >>
        BY <1>5, <3>1, Zenon DEF Longer
      <3>5. Fine(0)
        BY <3>2, NothingElements
      <3> QED
        BY <2>1, <3>5
    <2>3. n - 1 \in Nat /\ n \in 1 .. Len(s) /\ n - 1 < n /\ n \in 0 .. Len(s)
      BY <1>2, <2>1, <2>2
    <2>4. Fine(n - 1)
      <3>1. n - 1 <= Len(s) /\ ~(n <= n - 1)
        BY <1>2, <2>3
      <3>2. n - 1 \notin Bad
        BY <2>1, <3>1, Zenon
      <3> QED
        BY <2>3, <3>1, <3>2
    <2>5. list[n] = Append(list[n - 1], s[n]) \/ list[n] = list[n - 1]
      BY <1>5, <2>2, <2>3, Zenon DEF Longer
    <2>6. CASE list[n] = list[n - 1]
      <3>1. \A i \in 1 .. n - 1 : i \in 1 .. n
        BY <2>3
      <3> QED
        BY <2>1, <2>4, <2>6, <3>1
    <2>7. CASE list[n] = Append(list[n - 1], s[n])
      <3>1. \A i \in 1 .. n - 1 : i \in 1 .. Len(s) /\ i # n /\ i \in 1 .. n
        BY <1>2, <2>3
      <3>2. s[n] \notin Elements(list[n - 1])
        BY <2>3, <2>4, <3>1 DEF Distinct
      <3> DEFINE l == list[n - 1]
                 m == s[n]
      <3>3. l \in Seq(Models) /\ m \in Models /\ Distinct(l) /\ m \notin Elements(l)
        BY <1>2, <2>3, <2>4, <3>2
      <3> HIDE DEF l, m
      <3>4. /\ Append(l, m) \in Seq(Models) /\ Distinct(Append(l, m))
            /\ Elements(Append(l, m)) = Elements(l) \cup {m}
        BY <3>3, DistinctAppend
      <3>5. list[n] \in Seq(Models) /\ Distinct(list[n]) /\ Elements(list[n]) = Elements(list[n - 1]) \cup {s[n]}
        BY <2>7, <3>4 DEF l, m
      <3>6. Elements(list[n]) \subseteq {s[i] : i \in 1 .. n}
        <4>1. n \in 1 .. n
          BY <2>3
        <4> QED
          BY <2>4, <3>1, <3>5, <4>1
      <3> QED
        BY <2>1, <3>5, <3>6
    <2> QED
      BY <2>5, <2>6, <2>7
  <1>7. Fine(Len(s))
    <2>1. Len(s) <= Len(s)
      BY <1>2
    <2> QED
      BY <1>2, <1>6, <2>1
  <1>8. Elements(s) = {s[i] : i \in 1 .. Len(s)}
    BY ElementsOf
  <1> QED
    BY <1>1, <1>7, <1>8

------------------------------------------------------------------------------
(* The models that are due. *)

\* A level of the trees, from the one above.
Level(f, n) == IF n = 0 THEN Elements(roots) ELSE Below(f[n - 1])

LEMMA LevelLocal ==
    ASSUME NEW f, NEW g, NEW n \in Nat, n > 0 => f[n - 1] = g[n - 1]
    PROVE  Level(f, n) = Level(g, n)
  <1>1. n = 0 \/ n > 0
    OBVIOUS
  <1> QED
    BY <1>1, Zenon DEF Level

LEMMA LevelExists ==
    ASSUME NEW m \in Nat
    PROVE  \E f : f = [n \in 0 .. m |-> Level(f, n)]
  <1> DEFINE Good(i) == \E f : f = [n \in 0 .. i |-> Level(f, n)]
             Bad == {i \in Nat : ~Good(i)}
  <1> SUFFICES ASSUME Bad # {}
               PROVE  FALSE
    BY Zenon
  <1>1. PICK i \in Bad : \A j \in Bad : i <= j
    BY LeastNumber
  <1>2. CASE i = 0
    <2> DEFINE g == [n \in 0 .. 0 |-> Elements(roots)]
    <2>1. \A n \in 0 .. 0 : Level(g, n) = Elements(roots)
      BY DEF Level
    <2>2. g = [n \in 0 .. 0 |-> Level(g, n)]
      BY <2>1
    <2> QED
      BY <1>2, <2>2
  <1>3. CASE i # 0
    <2>1. i - 1 \in Nat /\ i \in Nat /\ i - 1 < i
      BY <1>3
    <2>2. Good(i - 1)
      BY <1>1, <2>1
    <2>3. PICK g : g = [n \in 0 .. i - 1 |-> Level(g, n)]
      BY <2>2
    <2> DEFINE h == [n \in 0 .. i |-> IF n = i THEN Level(g, i) ELSE g[n]]
    <2>4. ASSUME NEW n \in 0 .. i
          PROVE  h[n] = Level(h, n)
      <3>1. n > 0 => g[n - 1] = h[n - 1]
        BY <2>1
      <3>2. Level(g, n) = Level(h, n)
        BY <3>1, LevelLocal
      <3>3. CASE n = i
        BY <3>2, <3>3
      <3>4. CASE n # i
        <4>1. n \in 0 .. i - 1
          BY <2>1, <3>4
        <4>2. g[n] = Level(g, n)
          BY <2>3, <4>1, Zenon
        <4> QED
          BY <3>2, <3>4, <4>2
      <3> QED
        BY <3>3, <3>4
    <2>5. h = [n \in 0 .. i |-> Level(h, n)]
      BY <2>4
    <2> QED
      BY <2>1, <2>5
  <1> QED
    BY <1>2, <1>3

\* The models that are due are the least set that holds the roots and, with a
\* model, its shown children.
LEMMA DueIsLeast ==
    ASSUME session \in Sessions
    PROVE  /\ Elements(roots) \subseteq Due
           /\ \A m \in Due : ShownKids(m) \subseteq Due
           /\ \A S : /\ Elements(roots) \subseteq S
                     /\ \A m \in S : ShownKids(m) \subseteq S
                     => Due \subseteq S
  <1> DEFINE D == DOMAIN session.kids
             depth == Cardinality(D)
             IsLevels(f) == f = [n \in 0 .. depth |-> Level(f, n)]
             level == CHOOSE f : IsLevels(f)
  <1>1. IsFiniteSet(D) /\ depth \in Nat
    BY SceneAssumption, FS_CardinalityType DEF IsSession
  <1>2. Due = level[depth]
    BY DEF Due, Level
  <1> HIDE DEF D, depth
  <1>3. \E f : IsLevels(f)
    BY <1>1, LevelExists, Zenon
  <1>4. IsLevels(level)
    <2> HIDE DEF IsLevels
    <2> QED
      BY <1>3, Zenon
  <1>5. \A n \in 0 .. depth : level[n] = Level(level, n)
    BY <1>4, Zenon
  <1> HIDE DEF level
  <1>6. level[0] = Elements(roots)
    <2>1. 0 \in 0 .. depth
      BY <1>1
    <2> QED
      BY <1>5, <2>1, Zenon DEF Level
  <1>7. \A n \in 1 .. depth : level[n] = Below(level[n - 1])
    <2> SUFFICES ASSUME NEW n \in 1 .. depth
                 PROVE  level[n] = Below(level[n - 1])
      OBVIOUS
    <2>1. n \in 0 .. depth /\ n # 0
      BY <1>1
    <2> QED
      BY <1>5, <2>1, Zenon DEF Level
  <1>8. \A S : Below(S) = S \cup UNION {ShownKids(m) : m \in S}
    BY DEF Below, ShownKids
  <1>9. \A m : m \notin D => ShownKids(m) = {}
    <2> SUFFICES ASSUME NEW m, m \notin D
                 PROVE  ShownKids(m) = {}
      OBVIOUS
    <2>1. Kids(m) = << >>
      BY DEF Kids, D
    <2> QED
      BY <2>1, NothingElements, ShownElements DEF ShownKids
  <1> DEFINE Roots(n)   == Elements(roots) \subseteq level[n]
             Closed(n)  == \A m \in level[n] : ShownKids(m) \subseteq level[n]
             Fine(n)    == /\ Elements(roots) \subseteq level[n]
                           /\ Closed(n) \/ Cardinality(level[n] \cap D) > n
             Bad        == {n \in Nat : n <= depth /\ ~Fine(n)}
  <1>10. ASSUME NEW A, NEW m, m \in D, m \notin A
         PROVE  /\ Cardinality((A \cup {m}) \cap D) = Cardinality(A \cap D) + 1
                /\ Cardinality(A \cap D) \in Nat
    <2>1. IsFiniteSet(A \cap D)
      BY <1>1, FS_Subset
    <2>2. (A \cup {m}) \cap D = (A \cap D) \cup {m} /\ m \notin A \cap D
      BY <1>10
    <2> QED
      BY <2>1, <2>2, FS_AddElement, FS_CardinalityType
  <1>11. ASSUME NEW A, NEW B, A \subseteq B
         PROVE  Cardinality(A \cap D) <= Cardinality(B \cap D) /\ Cardinality(B \cap D) \in Nat
                /\ Cardinality(A \cap D) \in Nat
    <2>1. IsFiniteSet(B \cap D) /\ IsFiniteSet(A \cap D)
      BY <1>1, FS_Subset
    <2>2. A \cap D \subseteq B \cap D
      BY <1>11
    <2> QED
      BY <2>1, <2>2, FS_Subset, FS_CardinalityType
  <1>12. ASSUME Bad # {}
         PROVE  FALSE
    <2>1. PICK n \in Bad : \A j \in Bad : n <= j
      BY <1>12, LeastNumber
    <2>2. ASSUME NEW A, NEW B, B = Below(A), ~(\A m \in B : ShownKids(m) \subseteq B)
          PROVE  \E m \in D : m \in B /\ m \notin A
      <3>1. PICK m \in B : ~(ShownKids(m) \subseteq B)
        BY <2>2
      <3>2. m \in D
        BY <1>9, <3>1
      <3>3. m \in A => ShownKids(m) \subseteq B
        BY <1>8, <2>2
      <3> QED
        BY <3>1, <3>2, <3>3
    <2>3. CASE n = 0
      <3>1. PICK m \in level[0] : ~(ShownKids(m) \subseteq level[0])
        BY <1>6, <2>1, <2>3
      <3>2. m \in D
        BY <1>9, <3>1
      <3>3. Cardinality(({} \cup {m}) \cap D) = Cardinality({} \cap D) + 1 /\ Cardinality({} \cap D) \in Nat
        BY <1>10, <3>2
      <3>4. /\ Cardinality(({} \cup {m}) \cap D) <= Cardinality(level[0] \cap D)
            /\ Cardinality(level[0] \cap D) \in Nat
        <4>1. {} \cup {m} \subseteq level[0]
          BY <3>1
        <4> QED
          BY <1>11, <4>1
      <3>5. Cardinality(level[0] \cap D) > 0
        BY <3>3, <3>4
      <3> QED
        BY <1>6, <2>1, <2>3, <3>5
    <2>4. CASE n # 0
      <3>1. n - 1 \in Nat /\ n \in 1 .. depth /\ n - 1 < n /\ n - 1 <= depth
        BY <1>1, <2>1, <2>4
      <3>2. Fine(n - 1)
        BY <2>1, <3>1
      <3> DEFINE A == level[n - 1]
                 B == level[n]
      <3>3. B = Below(A) /\ A \subseteq B
        BY <1>7, <1>8, <3>1
      <3>4. Elements(roots) \subseteq B /\ ~Closed(n) /\ ~(Cardinality(B \cap D) > n)
        BY <2>1, <3>2, <3>3
      <3>5. PICK m \in D : m \in B /\ m \notin A
        BY <2>2, <3>3, <3>4
      <3>6. ~Closed(n - 1)
        BY <1>8, <3>3, <3>5
      <3>7. Cardinality(A \cap D) > n - 1
        BY <3>2, <3>6
      <3> HIDE DEF A, B
      <3>8. Cardinality((A \cup {m}) \cap D) = Cardinality(A \cap D) + 1 /\ Cardinality(A \cap D) \in Nat
        BY <1>10, <3>5
      <3>9. Cardinality((A \cup {m}) \cap D) <= Cardinality(B \cap D) /\ Cardinality(B \cap D) \in Nat
        <4>1. A \cup {m} \subseteq B
          BY <3>3, <3>5
        <4> QED
          BY <1>11, <4>1
      <3>10. Cardinality(B \cap D) > n
        BY <3>1, <3>7, <3>8, <3>9
      <3> QED
        BY <3>4, <3>10
    <2> QED
      BY <2>3, <2>4
  <1>13. Fine(depth)
    <2>1. depth <= depth
      BY <1>1
    <2> QED
      BY <1>1, <1>12, <2>1
  <1>14. Closed(depth)
    <2>1. IsFiniteSet(level[depth] \cap D) /\ Cardinality(level[depth] \cap D) <= depth
      <3>1. level[depth] \cap D \subseteq D
        OBVIOUS
      <3> QED
        BY <1>1, <3>1, FS_Subset DEF depth
    <2>2. Cardinality(level[depth] \cap D) \in Nat
      BY <2>1, FS_CardinalityType
    <2>3. ~(Cardinality(level[depth] \cap D) > depth)
      BY <1>1, <2>1, <2>2
    <2> QED
      BY <1>13, <2>3
  <1>15. ASSUME NEW S, Elements(roots) \subseteq S, \A m \in S : ShownKids(m) \subseteq S
         PROVE  level[depth] \subseteq S
    <2> DEFINE Out == {n \in Nat : n <= depth /\ ~(level[n] \subseteq S)}
    <2>1. ASSUME Out # {}
          PROVE  FALSE
      <3>1. PICK n \in Out : \A j \in Out : n <= j
        BY <2>1, LeastNumber
      <3>2. n # 0
        BY <1>6, <1>15, <3>1
      <3>3. n - 1 \in Nat /\ n \in 1 .. depth /\ n - 1 < n /\ n - 1 <= depth
        BY <1>1, <3>1, <3>2
      <3>4. level[n - 1] \subseteq S
        BY <3>1, <3>3
      <3>5. level[n] \subseteq S
        BY <1>7, <1>8, <1>15, <3>3, <3>4
      <3> QED
        BY <3>1, <3>5
    <2>2. depth <= depth
      BY <1>1
    <2> QED
      BY <1>1, <2>1, <2>2
  <1> QED
    BY <1>2, <1>13, <1>14, <1>15

------------------------------------------------------------------------------
(* Families of sets. *)

\* What some of the sets hold is dealt out anew among these, together with what
\* none of them held.
Union(f, C) == UNION {f[p] : p \in C}
Apart(f, P) == \A p, q \in P : p # q => f[p] \cap f[q] = {}
Dealt(f, g, P, C, Fresh) ==
    /\ \A p \in P \ C : g[p] = f[p]
    /\ \A p \in C : g[p] \subseteq Union(f, C) \cup Fresh
    /\ Fresh \cap Union(f, P) = {}
    /\ Apart(g, C)

\* Sets that share nothing then still share nothing.
LEMMA Regroup ==
    ASSUME NEW P, NEW f, NEW g, NEW C \in SUBSET P, NEW Fresh, Apart(f, P), Dealt(f, g, P, C, Fresh)
    PROVE  Apart(g, P) /\ Union(g, P) = (Union(f, P) \ Union(f, C)) \cup Union(g, C)
  <1>1. /\ \A p, q \in P : p # q => \A m \in f[p] : m \notin f[q]
        /\ \A p, q \in C : p # q => \A m \in g[p] : m \notin g[q]
        /\ \A p \in P \ C : g[p] = f[p]
    BY DEF Apart, Dealt
  <1>2. \A h, S, m : m \in Union(h, S) <=> \E p \in S : m \in h[p]
    BY DEF Union
  <1>3. \A p \in C : \A m \in g[p] : m \in Fresh \/ \E c \in C : m \in f[c]
    BY <1>2 DEF Dealt
  <1>4. \A p \in P : \A m \in f[p] : m \notin Fresh
    BY <1>2 DEF Dealt
  <1>5. ASSUME NEW p \in C, NEW q \in P \ C, NEW m \in g[p], m \in g[q]
        PROVE  FALSE
    <2>1. m \in f[q] /\ m \notin Fresh
      BY <1>1, <1>4, <1>5
    <2>2. PICK c \in C : m \in f[c]
      BY <1>3, <2>1
    <2>3. c # q /\ c \in P
      OBVIOUS
    <2> QED
      BY <1>1, <2>1, <2>2, <2>3
  <1>6. ASSUME NEW p \in P, NEW q \in P, p # q, NEW m \in g[p], m \in g[q]
        PROVE  FALSE
    <2>1. CASE p \in C /\ q \in C
      BY <1>1, <1>6, <2>1
    <2>2. CASE p \in C /\ q \notin C
      BY <1>5, <1>6, <2>2
    <2>3. CASE p \notin C /\ q \in C
      BY <1>5, <1>6, <2>3
    <2>4. CASE p \notin C /\ q \notin C
      BY <1>1, <1>6, <2>4
    <2> QED
      BY <2>1, <2>2, <2>3, <2>4
  <1>7. Apart(g, P)
    BY <1>6 DEF Apart
  <1>8. ASSUME NEW m \in Union(g, P)
        PROVE  m \in (Union(f, P) \ Union(f, C)) \cup Union(g, C)
    <2>1. PICK p \in P : m \in g[p]
      BY <1>2
    <2>2. CASE p \in C
      BY <1>2, <2>1, <2>2
    <2>3. CASE p \notin C
      <3>1. m \in f[p] /\ \A c \in C : c # p /\ c \in P
        BY <1>1, <2>1, <2>3
      <3>2. \A c \in C : m \notin f[c]
        BY <1>1, <3>1
      <3> QED
        BY <1>2, <3>1, <3>2
    <2> QED
      BY <2>2, <2>3
  <1>9. ASSUME NEW m \in Union(f, P), m \notin Union(f, C)
        PROVE  m \in Union(g, P)
    <2>1. PICK p \in P : m \in f[p]
      BY <1>2
    <2>2. p \notin C
      BY <1>2, <1>9, <2>1
    <2> QED
      BY <1>1, <1>2, <2>1, <2>2
  <1>10. ASSUME NEW m \in Union(g, C)
         PROVE  m \in Union(g, P)
    BY <1>2
  <1> QED
    BY <1>7, <1>8, <1>9, <1>10

------------------------------------------------------------------------------
(* Where the models of a pass are. *)

\* A model that is still to be dealt with is in a thread's list, in the slice of
\* a worker that was called, or in the table of recorded roots.
Todo(t)  == << "todo", t >>
Given(w) == << "share", w >>
Table    == << "recorded", MainThread >>
Places   == {Todo(t) : t \in SceneThreads} \cup {Given(w) : w \in PoolWorkers} \cup {Table}

Held ==
    [p \in Places |->
       IF p[1] = "todo" THEN Mods(todo[p[2]])
       ELSE IF p[1] = "share" THEN IF signal[p[2]] THEN Elements(share[p[2]]) ELSE {}
       ELSE IF deferring THEN Elements(recorded) ELSE {}]

\* The models whose animation has begun, and those still to be dealt with.
Begun   == DOMAIN animated
Waiting == Union(Held, Places)

\* What is at a place is there once, and not yet begun unless only its children
\* are to come.
Tidied(p) ==
    IF p[1] = "todo" THEN Tidy(todo[p[2]], Begun)
    ELSE IF p[1] = "share"
    THEN signal[p[2]] => Distinct(share[p[2]]) /\ Elements(share[p[2]]) \cap Begun = {}
    ELSE deferring => Distinct(recorded) /\ Elements(recorded) \cap Begun = {}

\* No model is at two places.
ListsInv ==
    /\ \A p \in Places : Tidied(p)
    /\ Apart(Held, Places)

LEMMA PlaceKinds ==
    /\ \A t \in SceneThreads : Todo(t) \in Places /\ Todo(t) # Table
    /\ \A w \in PoolWorkers : Given(w) \in Places /\ Given(w) # Table
    /\ Table \in Places
    /\ \A t \in SceneThreads, w \in PoolWorkers : Todo(t) # Given(w)
    /\ \A t, u \in SceneThreads : Todo(t) = Todo(u) => t = u
    /\ \A v, w \in PoolWorkers : Given(v) = Given(w) => v = w
  BY DEF Places, Todo, Given, Table

LEMMA HeldThere ==
    /\ \A t \in SceneThreads : /\ Held[Todo(t)] = Mods(todo[t])
                               /\ Tidied(Todo(t)) <=> Tidy(todo[t], Begun)
    /\ \A w \in PoolWorkers :
          /\ Held[Given(w)] = IF signal[w] THEN Elements(share[w]) ELSE {}
          /\ Tidied(Given(w)) <=> (signal[w] => Distinct(share[w]) /\ Elements(share[w]) \cap Begun = {})
    /\ Held[Table] = IF deferring THEN Elements(recorded) ELSE {}
    /\ Tidied(Table) <=> (deferring => Distinct(recorded) /\ Elements(recorded) \cap Begun = {})
  BY PlaceKinds DEF Held, Tidied, Todo, Given, Table

LEMMA HeldNext ==
    /\ \A t \in SceneThreads : /\ Held'[Todo(t)] = Mods(todo'[t])
                               /\ Tidied(Todo(t))' <=> Tidy(todo'[t], Begun')
    /\ \A w \in PoolWorkers :
          /\ Held'[Given(w)] = IF signal'[w] THEN Elements(share'[w]) ELSE {}
          /\ Tidied(Given(w))' <=> (signal'[w] => Distinct(share'[w]) /\ Elements(share'[w]) \cap Begun' = {})
    /\ Held'[Table] = IF deferring' THEN Elements(recorded') ELSE {}
    /\ Tidied(Table)' <=> (deferring' => Distinct(recorded') /\ Elements(recorded') \cap Begun' = {})
  BY PlaceKinds DEF Held, Tidied, Todo, Given, Table

\* What is at a place does not change.
Untouched(p) ==
    IF p[1] = "todo" THEN todo'[p[2]] = todo[p[2]]
    ELSE IF p[1] = "share" THEN share'[p[2]] = share[p[2]] /\ signal'[p[2]] = signal[p[2]]
    ELSE recorded' = recorded /\ deferring' = deferring

\* A step that deals what some places hold out among these.
LEMMA ListsStep ==
    ASSUME Types, ListsInv, NEW C \in SUBSET Places, NEW Fresh, NEW X,
           Begun' = Begun \cup X, X \subseteq Union(Held, C),
           \A p \in Places \ C : Untouched(p),
           \A p \in C : Tidied(p)',
           \A p \in C : Held'[p] \subseteq Union(Held, C) \cup Fresh,
           Fresh \cap Waiting = {},
           Apart(Held', C)
    PROVE  ListsInv' /\ Waiting' = (Waiting \ Union(Held, C)) \cup Union(Held', C)
  <1>1. ASSUME NEW p \in Places \ C
        PROVE  Held'[p] = Held[p] /\ Tidied(p)'
    <2>0. Held[p] \cap X = {} /\ Tidied(p) /\ Untouched(p)
      <3>1. \A c \in C : Held[p] \cap Held[c] = {}
        BY DEF ListsInv, Apart
      <3> QED
        BY <3>1 DEF ListsInv, Union
    <2>1. CASE \E t \in SceneThreads : p = Todo(t)
      <3>1. PICK t \in SceneThreads : p = Todo(t)
        BY <2>1
      <3>2. todo'[t] = todo[t]
        BY <2>0, <3>1 DEF Untouched, Todo
      <3>3. todo[t] \in Seq(Item)
        BY DEF Types
      <3>4. Held'[p] = Held[p] /\ Held[p] = Mods(todo[t])
        BY <3>1, <3>2, HeldThere, HeldNext
      <3>5. Tidy(todo[t], Begun) /\ \A m \in X : m \notin Mods(todo[t])
        BY <2>0, <3>1, <3>4, HeldThere
      <3>6. Tidy(todo[t], Begun \cup X)
        BY <3>5 DEF Tidy, Ready, Mods
      <3> QED
        BY <3>1, <3>2, <3>4, <3>6, HeldNext
    <2>2. CASE \E w \in PoolWorkers : p = Given(w)
      <3>1. PICK w \in PoolWorkers : p = Given(w)
        BY <2>2
      <3>2. share'[w] = share[w] /\ signal'[w] = signal[w]
        BY <2>0, <3>1 DEF Untouched, Given
      <3>3. Held'[p] = Held[p] /\ Held[p] = IF signal[w] THEN Elements(share[w]) ELSE {}
        BY <3>1, <3>2, HeldThere, HeldNext
      <3>4. signal[w] => Distinct(share[w]) /\ Elements(share[w]) \cap (Begun \cup X) = {}
        BY <2>0, <3>1, <3>3, HeldThere
      <3> QED
        BY <3>1, <3>2, <3>3, <3>4, HeldNext
    <2>3. CASE p = Table
      <3>2. recorded' = recorded /\ deferring' = deferring
        BY <2>0, <2>3 DEF Untouched, Table
      <3>3. Held'[p] = Held[p] /\ Held[p] = IF deferring THEN Elements(recorded) ELSE {}
        BY <2>3, <3>2, HeldThere, HeldNext
      <3>4. deferring => Distinct(recorded) /\ Elements(recorded) \cap (Begun \cup X) = {}
        BY <2>0, <2>3, <3>3, HeldThere
      <3> QED
        BY <2>3, <3>2, <3>3, <3>4, HeldNext
    <2> QED
      BY <2>1, <2>2, <2>3 DEF Places
  <1>2. \A p \in Places : Tidied(p)'
    BY <1>1
  <1> DEFINE f == Held
             g == Held'
  <1>3. Apart(f, Places) /\ Dealt(f, g, Places, C, Fresh)
    BY <1>1 DEF ListsInv, Dealt, Waiting
  <1> HIDE DEF f, g
  <1>4. Apart(g, Places) /\ Union(g, Places) = (Union(f, Places) \ Union(f, C)) \cup Union(g, C)
    BY <1>3, Regroup
  <1>5. ListsInv'
    <2>1. Apart(Held, Places)'
      BY <1>4 DEF Apart, g
    <2> QED
      BY <1>2, <2>1 DEF ListsInv
  <1>6. Waiting' = Union(g, Places)
    BY DEF Waiting, g, Union
  <1> QED
    BY <1>4, <1>5, <1>6 DEF Waiting, f, g

------------------------------------------------------------------------------
(* How the pass goes down the trees. *)

\* No model is twice among the roots and the attached children.
Forest ==
    /\ Distinct(session.roots)
    /\ \A m \in DOMAIN session.kids :
          /\ Distinct(session.kids[m])
          /\ Elements(session.kids[m]) \cap Elements(session.roots) = {}
          /\ \A p \in DOMAIN session.kids \ {m} :
                Elements(session.kids[m]) \cap Elements(session.kids[p]) = {}

\* The children a pass of the children's pool collects are all that are shown.
Fits == session.kidsOn => \A m \in DOMAIN session.kids : Len(Shown(Kids(m))) <= MaxTasks

LEMMA ForestFacts ==
    ASSUME session \in Sessions, Forest
    PROVE  /\ Distinct(session.roots) /\ session.roots \in Seq(Models)
           /\ \A m : /\ Distinct(Kids(m)) /\ Shown(Kids(m)) \in Seq(Models) /\ Distinct(Shown(Kids(m)))
                     /\ ShownKids(m) \subseteq Models
                     /\ ShownKids(m) \cap Elements(session.roots) = {}
                     /\ Kids(m) = << >> => ShownKids(m) = {}
           /\ \A m, p : m # p => ShownKids(m) \cap ShownKids(p) = {}
  <1>1. session.roots \in Seq(Models)
    BY SceneAssumption DEF IsSession
  <1>2. ASSUME NEW m
        PROVE  /\ Distinct(Kids(m)) /\ Shown(Kids(m)) \in Seq(Models) /\ Distinct(Shown(Kids(m)))
               /\ ShownKids(m) \subseteq Models /\ ShownKids(m) \subseteq Elements(Kids(m))
               /\ Elements(Kids(m)) \cap Elements(session.roots) = {}
    <2>1. Kids(m) \in Seq(Models) /\ Shown(Kids(m)) \in Seq(Models)
      BY KidsType
    <2>2. Distinct(Kids(m)) /\ Elements(Kids(m)) \cap Elements(session.roots) = {}
      BY NothingElements DEF Kids, Forest
    <2>3. Elements(Shown(Kids(m))) \subseteq Elements(Kids(m)) /\ Distinct(Shown(Kids(m)))
      BY <2>1, <2>2, ShownElements
    <2> QED
      BY <2>1, <2>2, <2>3, ElementsOf DEF ShownKids
  <1>3. ASSUME NEW m, NEW p, m # p
        PROVE  Elements(Kids(m)) \cap Elements(Kids(p)) = {}
    BY <1>3, NothingElements DEF Kids, Forest
  <1>4. \A m : Kids(m) = << >> => ShownKids(m) = {}
    BY <1>2, NothingElements
  <1>5. \A m, p : m # p => ShownKids(m) \cap ShownKids(p) = {}
    BY <1>2, <1>3
  <1>6. \A m : ShownKids(m) \cap Elements(session.roots) = {}
    BY <1>2
  <1> QED
    BY <1>1, <1>2, <1>4, <1>5, <1>6, Forest DEF Forest

\* The children the pool takes on.
LEMMA TasksElements ==
    ASSUME session \in Sessions, Forest, Fits, session.kidsOn, NEW m
    PROVE  /\ Tasks(m) \in Seq(Models) /\ Distinct(Tasks(m)) /\ Elements(Tasks(m)) = ShownKids(m)
           /\ Len(Tasks(m)) \in Nat
  <1> DEFINE all == Shown(Kids(m))
             n == UpTo(Len(all), MaxTasks)
  <1>1. all \in Seq(Models) /\ Distinct(all) /\ Len(all) \in Nat /\ MaxTasks \in Nat
        /\ Elements(all) = {all[i] : i \in 1 .. Len(all)}
    BY ForestFacts, ElementsOf, SceneAssumption
  <1>2. Len(all) <= MaxTasks
    <2>1. CASE m \in DOMAIN session.kids
      BY <2>1 DEF Fits
    <2>2. CASE m \notin DOMAIN session.kids
      <3>1. Kids(m) = << >>
        BY <2>2 DEF Kids
      <3>2. Elements(all) = {}
        BY <3>1, ForestFacts DEF ShownKids
      <3>3. Len(all) # 0 => 1 \in 1 .. Len(all)
        BY <1>1
      <3>4. Len(all) = 0
        BY <1>1, <3>2, <3>3
      <3> QED
        BY <1>1, <3>4
    <2> QED
      BY <2>1, <2>2
  <1>3. n = Len(all)
    BY <1>1, <1>2 DEF UpTo
  <1>4. Tasks(m) = SubSeq(all, 1, n)
    BY DEF Tasks
  <1> HIDE DEF all, n
  <1> DEFINE z == 0
             b == Len(all)
  <1>5. z \in Nat /\ z <= b /\ z + 1 = 1 /\ b \in Nat /\ b <= Len(all) /\ b = n
    BY <1>1, <1>3
  <1>6. Elements(all) = {all[i] : i \in 1 .. b}
    BY <1>1
  <1> HIDE DEF z, b
  <1>7. /\ SubSeq(all, z + 1, b) \in Seq(Models)
        /\ Elements(SubSeq(all, z + 1, b)) = {all[i] : i \in z + 1 .. b}
        /\ Distinct(SubSeq(all, z + 1, b))
    BY <1>1, <1>5, StretchElements
  <1>8. Tasks(m) = SubSeq(all, z + 1, b) /\ {all[i] : i \in z + 1 .. b} = Elements(all)
    BY <1>4, <1>5, <1>6
  <1>9. Tasks(m) \in Seq(Models) /\ Distinct(Tasks(m)) /\ Elements(Tasks(m)) = Elements(all)
    BY <1>7, <1>8
  <1> QED
    BY <1>1, <1>9, ElementsOf DEF ShownKids, all

\* A child is reached only when its parent's children have all been handed out; B
\* are the models begun, W those that wait.
Grown(B, W) ==
    /\ \A p \in Models : \A k \in ShownKids(p) : k \in B \cup W => p \in B \ W
    /\ B \cup W \subseteq Due

\* No model was lost.
Whole(B, W) ==
    /\ Elements(roots) \subseteq B \cup W
    /\ \A p \in B \ W : ShownKids(p) \subseteq B \cup W

\* A model is begun; without shown children it is also done.
LEMMA TreeBegin ==
    ASSUME NEW B, NEW W, NEW m \in W, Grown(B, W),
           NEW V, V = W \/ (V = W \ {m} /\ ShownKids(m) = {})
    PROVE  Grown(B \cup {m}, V) /\ (Whole(B, W) => Whole(B \cup {m}, V))
  BY DEF Grown, Whole

\* The shown children of a model that was begun are handed out.
LEMMA TreeBranch ==
    ASSUME session \in Sessions, Forest, NEW B, NEW W, NEW m \in B \cap W, m \in Models, Grown(B, W)
    PROVE  /\ ShownKids(m) \cap (B \cup W) = {}
           /\ Grown(B, (W \ {m}) \cup ShownKids(m))
           /\ Whole(B, W) => Whole(B, (W \ {m}) \cup ShownKids(m))
  <1> DEFINE V == (W \ {m}) \cup ShownKids(m)
  <1>1. ShownKids(m) \cap (B \cup W) = {}
    BY DEF Grown
  <1>2. m \in B /\ m \notin V
    BY <1>1
  <1>3. m \in Due /\ ShownKids(m) \subseteq Due
    BY DueIsLeast DEF Grown
  <1>4. ASSUME NEW p \in Models, NEW k \in ShownKids(p), k \in B \cup V
        PROVE  p \in B \ V
    <2>1. CASE k \in B \cup W
      <3>1. p \in B \ W
        BY <2>1 DEF Grown
      <3> QED
        BY <1>1, <3>1
    <2>2. CASE k \in ShownKids(m)
      <3>1. p = m
        BY <2>2, ForestFacts
      <3> QED
        BY <1>2, <3>1
    <2> QED
      BY <1>4, <2>1, <2>2
  <1>5. B \cup V \subseteq Due
    BY <1>3 DEF Grown
  <1>6. Grown(B, V)
    BY <1>4, <1>5 DEF Grown
  <1>7. ASSUME Whole(B, W)
        PROVE  Whole(B, V)
    <2>1. B \cup W \subseteq B \cup V
      OBVIOUS
    <2>2. Elements(roots) \subseteq B \cup V
      BY <1>7, <2>1 DEF Whole
    <2>3. ASSUME NEW p \in B \ V
          PROVE  ShownKids(p) \subseteq B \cup V
      BY <1>7, <2>1 DEF Whole
    <2> QED
      BY <2>2, <2>3 DEF Whole
  <1> QED
    BY <1>1, <1>6, <1>7

\* Some that waited are lost.
LEMMA TreeLoses ==
    ASSUME NEW B, NEW W, NEW V, V \subseteq W, Grown(B, W)
    PROVE  Grown(B, V)
  BY DEF Grown

\* The roots of a pass, and what was begun in it.
RootsInv ==
    /\ roots \in Seq(Models) /\ Distinct(roots) /\ Elements(roots) \subseteq Elements(session.roots)
    /\ \A m \in Begun : animated[m] = 1

TreesInv ==
    /\ Grown(Begun, Waiting)
    /\ ~faulted => Whole(Begun, Waiting)

PassOnceInv == SceneInv /\ ListsInv /\ RootsInv /\ TreesInv

LEMMA SameTrees ==
    ASSUME UNCHANGED <<session, roots>>
    PROVE  /\ Due' = Due
           /\ \A m : ShownKids(m)' = ShownKids(m)
           /\ Elements(roots)' = Elements(roots) /\ Elements(session.roots)' = Elements(session.roots)
  <1>1. \A m : Kids(m)' = Kids(m)
    BY DEF Kids
  <1>2. \A s : Shown(s)' = Shown(s)
    BY DEF Shown
  <1>3. \A m : ShownKids(m)' = ShownKids(m)
    BY DEF ShownKids, Kids, Shown
  <1>4. Due' = Due
    BY DEF Due, Below, Kids, Shown
  <1> QED
    BY <1>3, <1>4

\* The trees after a step that leaves the session and its roots alone.
LEMMA TreesNext ==
    ASSUME UNCHANGED <<session, roots>>, Grown(Begun', Waiting'), ~faulted' => Whole(Begun', Waiting')
    PROVE  TreesInv'
  <1>1. Grown(Begun, Waiting)'
    BY SameTrees DEF Grown
  <1>2. ~faulted' => Whole(Begun, Waiting)'
    BY SameTrees DEF Whole
  <1> QED
    BY <1>1, <1>2 DEF TreesInv

------------------------------------------------------------------------------
(* Steps of one thread with its top item. *)

\* The model of the first item, if it is still to be dealt with.
TopOf(q) == IF Head(q)[1] \in {"animate", "attach", "tracks"} THEN {Head(q)[2]} ELSE {}

\* A list whose first item is replaced.
LEMMA OnwardTidy ==
    ASSUME NEW q \in Seq(Item), q # << >>, NEW more \in Seq(Item), NEW B, NEW X,
           Tidy(q, B), X \subseteq TopOf(q), Tidy(more, B \cup X),
           Mods(more) \cap Mods(q) \subseteq TopOf(q)
    PROVE  /\ Tidy(Onward(more, q), B \cup X)
           /\ Mods(Onward(more, q)) = Mods(more) \cup (Mods(q) \ TopOf(q))
           /\ TopOf(q) \subseteq Mods(q)
  <1>1. /\ Tail(q) \in Seq(Item) /\ Tidy(Tail(q), B)
        /\ TopOf(q) \cap Mods(Tail(q)) = {}
        /\ Mods(q) = Mods(Tail(q)) \cup TopOf(q)
    BY TidyTail DEF TopOf
  <1>2. Tidy(Tail(q), B \cup X)
    <2>1. \A m \in X : m \notin Mods(Tail(q))
      BY <1>1
    <2> QED
      BY <1>1, <2>1 DEF Tidy, Ready, Mods
  <1>3. Mods(more) \cap Mods(Tail(q)) = {}
    BY <1>1
  <1>4. Tidy(Onward(more, q), B \cup X) /\ Mods(Onward(more, q)) = Mods(more) \cup Mods(Tail(q))
    BY <1>1, <1>2, <1>3, TidyConcat DEF Onward
  <1> QED
    BY <1>1, <1>4

LEMMA TopStep ==
    ASSUME Types, ListsInv, NEW t \in SceneThreads, todo[t] # << >>, NEW more \in Seq(Item),
           todo' = [todo EXCEPT ![t] = Onward(more, todo[t])],
           UNCHANGED <<deferring, recorded, share, signal>>,
           NEW X, X \subseteq TopOf(todo[t]), Begun' = Begun \cup X, Tidy(more, Begun'),
           NEW Fresh, Mods(more) \subseteq TopOf(todo[t]) \cup Fresh, Fresh \cap Waiting = {}
    PROVE  /\ ListsInv' /\ Waiting' = (Waiting \ TopOf(todo[t])) \cup Mods(more)
           /\ TopOf(todo[t]) \subseteq Waiting
  <1> DEFINE q == todo[t]
             C == {Todo(t)}
  <1>1. /\ q \in Seq(Item) /\ q # << >>
        /\ todo'[t] = Onward(more, q) /\ \A u \in SceneThreads \ {t} : todo'[u] = todo[u]
    BY DEF Types
  <1>2. Todo(t) \in Places /\ C \subseteq Places
    BY PlaceKinds
  <1>3. Union(Held, C) = Mods(q) /\ Tidy(q, Begun)
    BY <1>2, HeldThere DEF Union, ListsInv
  <1>4. Mods(q) \subseteq Waiting
    BY <1>2, HeldThere DEF Waiting, Union
  <1>5. Mods(more) \cap Mods(q) \subseteq TopOf(q)
    BY <1>4
  <1>6. /\ Tidy(Onward(more, q), Begun \cup X)
        /\ Mods(Onward(more, q)) = Mods(more) \cup (Mods(q) \ TopOf(q))
        /\ TopOf(q) \subseteq Mods(q)
    <2> HIDE DEF q, C
    <2> QED
      BY <1>1, <1>3, <1>5, OnwardTidy DEF q
  <1>7. Tidied(Todo(t))' /\ Held'[Todo(t)] = Mods(more) \cup (Mods(q) \ TopOf(q))
    BY <1>1, <1>6, HeldNext
  <1>8. \A p \in Places \ C : Untouched(p)
    <2> SUFFICES ASSUME NEW p \in Places \ C
                 PROVE  Untouched(p)
      OBVIOUS
    <2>1. CASE \E u \in SceneThreads : p = Todo(u)
      BY <1>1, <2>1 DEF Untouched, Todo
    <2>2. CASE \E w \in PoolWorkers : p = Given(w)
      BY <2>2 DEF Untouched, Given
    <2>3. CASE p = Table
      BY <2>3 DEF Untouched, Table
    <2> QED
      BY <2>1, <2>2, <2>3 DEF Places
  <1>9. \A p \in C : Tidied(p)'
    BY <1>7
  <1>10. \A p \in C : Held'[p] \subseteq Union(Held, C) \cup Fresh
    BY <1>3, <1>6, <1>7
  <1>11. Apart(Held', C)
    BY DEF Apart
  <1>12. X \subseteq Union(Held, C)
    BY <1>3, <1>6
  <1>13. Union(Held', C) = Mods(more) \cup (Mods(q) \ TopOf(q))
    BY <1>7 DEF Union
  <1> HIDE DEF C
  <1>14. ListsInv' /\ Waiting' = (Waiting \ Union(Held, C)) \cup Union(Held', C)
    BY <1>2, <1>8, <1>9, <1>10, <1>11, <1>12, ListsStep
  <1>15. Waiting' = (Waiting \ Mods(q)) \cup (Mods(more) \cup (Mods(q) \ TopOf(q)))
    BY <1>3, <1>13, <1>14
  <1>16. Mods(more) \cup (Mods(q) \ TopOf(q)) \subseteq (Waiting \ TopOf(q)) \cup Mods(more)
    BY <1>4
  <1> QED
    BY <1>4, <1>6, <1>14, <1>15, <1>16

\* The top item, once a thread is about it.
LEMMA TopItem ==
    ASSUME Types, ListsInv, NEW t \in SceneThreads, todo[t] # << >>
    PROVE  /\ Head(todo[t]) \in Item /\ Top(t) = Head(todo[t]) /\ Top(t)[2] \in Models
           /\ Top(t) = << Top(t)[1], Top(t)[2] >>
           /\ Top(t)[1] = "animate" => Top(t)[2] \notin Begun
           /\ Top(t)[1] \in {"attach", "tracks"} => Top(t)[2] \in Begun
           /\ Top(t)[1] \in {"animate", "attach", "tracks"} =>
                 Top(t)[2] \in Waiting /\ TopOf(todo[t]) = {Top(t)[2]}
  <1> DEFINE q == todo[t]
  <1>1. q \in Seq(Item) /\ q # << >>
    BY DEF Types
  <1>2. Todo(t) \in Places
    BY PlaceKinds
  <1>3. Tidy(q, Begun) /\ Mods(q) \subseteq Waiting
    BY <1>2, HeldThere DEF ListsInv, Waiting, Union
  <1>4. /\ Head(q) \in Item
        /\ Head(q)[1] \in {"animate", "attach", "tracks"} =>
             Head(q)[2] \in Mods(q) /\ (Head(q)[1] = "animate" <=> Head(q)[2] \notin Begun)
    <2> HIDE DEF q
    <2> QED
      BY <1>1, <1>3, TidyTail
  <1> QED
    BY <1>3, <1>4 DEF Top, Item, TopOf

LEMMA OnceAnimate ==
    ASSUME PassOnceInv, NEW t \in SceneThreads, AnimateModel(t), Forest
    PROVE  ListsInv' /\ TreesInv' /\ RootsInv'
  <1> DEFINE m == Top(t)[2]
             more == IF Kids(m) = << >> THEN << >> ELSE << << "attach", m >> >>
  <1>1. Types /\ ListsInv /\ TreesInv /\ RootsInv /\ todo[t] # << >> /\ Top(t)[1] = "animate"
        /\ session \in Sessions
    BY DEF PassOnceInv, SceneInv, AnimateModel, Types
  <1>2. m \in Models /\ m \notin Begun /\ m \in Waiting /\ TopOf(todo[t]) = {m}
    BY <1>1, TopItem
  <1>3. /\ todo' = [todo EXCEPT ![t] = Onward(more, todo[t])]
        /\ animated' = [k \in DOMAIN animated \cup {m} |-> Times(k) + (IF k = m THEN 1 ELSE 0)]
        /\ UNCHANGED <<deferring, recorded, share, signal>> /\ UNCHANGED <<session, roots>> /\ faulted' = faulted
    BY DEF AnimateModel, Go, Onward, pools
  <1>4. Begun' = Begun \cup {m}
    BY <1>3 DEF Begun
  <1> HIDE DEF m
  <1>5. /\ more \in Seq(Item) /\ Tidy(more, Begun')
        /\ Mods(more) = IF Kids(m) = << >> THEN {} ELSE {m}
    <2>1. CASE Kids(m) = << >>
      BY <2>1, TidyNothing
    <2>2. CASE Kids(m) # << >>
      <3> DEFINE e == << "attach", m >>
      <3>1. e \in Item /\ e[1] = "attach" /\ e[2] = m
        BY <1>2 DEF Item
      <3>2. m \in Begun'
        BY <1>4
      <3> HIDE DEF e
      <3>3. << e >> \in Seq(Item) /\ Tidy(<< e >>, Begun') /\ Mods(<< e >>) = {m}
        BY <3>1, <3>2, TidyItem
      <3>4. more = << e >>
        BY <2>2 DEF e
      <3> QED
        BY <2>2, <3>3, <3>4
    <2> QED
      BY <2>1, <2>2
  <1> HIDE DEF more
  <1>6. ListsInv' /\ Waiting' = (Waiting \ {m}) \cup Mods(more)
    <2>1. {m} \subseteq TopOf(todo[t]) /\ Mods(more) \subseteq TopOf(todo[t]) \cup {} /\ {} \cap Waiting = {}
      BY <1>2, <1>5
    <2> QED
      BY <1>1, <1>2, <1>3, <1>4, <1>5, <2>1, TopStep
  <1>7. Waiting' = Waiting \/ (Waiting' = Waiting \ {m} /\ ShownKids(m) = {})
    <2>1. CASE Kids(m) = << >>
      BY <1>1, <1>5, <1>6, <2>1, ForestFacts
    <2>2. CASE Kids(m) # << >>
      BY <1>2, <1>5, <1>6, <2>2
    <2> QED
      BY <2>1, <2>2
  <1>8. Grown(Begun', Waiting') /\ (Whole(Begun, Waiting) => Whole(Begun', Waiting'))
    <2>1. Grown(Begun, Waiting)
      BY <1>1 DEF TreesInv
    <2> QED
      BY <1>2, <1>4, <1>7, <2>1, TreeBegin
  <1>9. TreesInv'
    BY <1>1, <1>3, <1>8, TreesNext DEF TreesInv
  <1>10. RootsInv'
    <2>1. ASSUME NEW k \in Begun'
          PROVE  animated'[k] = 1
      <3>1. animated'[k] = Times(k) + (IF k = m THEN 1 ELSE 0)
        BY <1>3, <1>4 DEF Begun
      <3>2. CASE k = m
        BY <1>2, <3>1, <3>2 DEF Times, Begun
      <3>3. CASE k # m
        BY <1>1, <1>4, <3>1, <3>3 DEF Times, Begun, RootsInv
      <3> QED
        BY <3>2, <3>3
    <2> QED
      BY <1>1, <1>3, <2>1 DEF RootsInv
  <1> QED
    BY <1>6, <1>9, <1>10

\* The shown children take the place of their parent.
LEMMA OnceSerial ==
    ASSUME PassOnceInv, NEW t \in SceneThreads, AttachSerial(t), Forest
    PROVE  ListsInv' /\ TreesInv' /\ RootsInv'
  <1> DEFINE m == Top(t)[2]
             s == Shown(Kids(m))
  <1>1. Types /\ ListsInv /\ TreesInv /\ RootsInv /\ todo[t] # << >> /\ Top(t)[1] = "attach"
        /\ session \in Sessions
    BY DEF PassOnceInv, SceneInv, AttachSerial, Types
  <1>2. m \in Models /\ m \in Begun /\ m \in Waiting /\ TopOf(todo[t]) = {m}
    BY <1>1, TopItem
  <1>3. /\ todo' = [todo EXCEPT ![t] = Onward(Animate(s), todo[t])]
        /\ UNCHANGED <<deferring, recorded, share, signal>> /\ UNCHANGED <<session, roots>>
        /\ UNCHANGED <<animated, faulted>>
    BY DEF AttachSerial, Go, Onward, pools
  <1>4. Begun' = Begun /\ Begun' = Begun \cup {}
    BY <1>3 DEF Begun
  <1> HIDE DEF m
  <1>5. s \in Seq(Models) /\ Distinct(s) /\ Elements(s) = ShownKids(m)
    BY <1>1, ForestFacts DEF ShownKids
  <1>6. /\ ShownKids(m) \cap (Begun \cup Waiting) = {}
        /\ Grown(Begun, (Waiting \ {m}) \cup ShownKids(m))
        /\ Whole(Begun, Waiting) => Whole(Begun, (Waiting \ {m}) \cup ShownKids(m))
    <2>1. Grown(Begun, Waiting) /\ m \in Begun \cap Waiting
      BY <1>1, <1>2 DEF TreesInv
    <2> QED
      BY <1>1, <1>2, <2>1, TreeBranch
  <1> HIDE DEF s
  <1>7. Animate(s) \in Seq(Item) /\ Tidy(Animate(s), Begun') /\ Mods(Animate(s)) = ShownKids(m)
    <2>1. Elements(s) \cap Begun' = {}
      BY <1>4, <1>5, <1>6
    <2> QED
      BY <1>5, <2>1, TidyAnimate
  <1>8. ListsInv' /\ Waiting' = (Waiting \ {m}) \cup ShownKids(m)
    <2>1. {} \subseteq TopOf(todo[t]) /\ Mods(Animate(s)) \subseteq TopOf(todo[t]) \cup ShownKids(m)
          /\ ShownKids(m) \cap Waiting = {}
      BY <1>6, <1>7
    <2> DEFINE a == Animate(s)
    <2>2. a \in Seq(Item) /\ todo' = [todo EXCEPT ![t] = Onward(a, todo[t])] /\ Tidy(a, Begun')
          /\ Mods(a) \subseteq TopOf(todo[t]) \cup ShownKids(m) /\ Mods(a) = ShownKids(m)
      BY <1>3, <1>7, <2>1
    <2> HIDE DEF a
    <2>3. ListsInv' /\ Waiting' = (Waiting \ TopOf(todo[t])) \cup Mods(a)
      BY <1>1, <1>3, <1>4, <2>1, <2>2, TopStep
    <2> QED
      BY <1>2, <2>2, <2>3
  <1>9. TreesInv'
    BY <1>1, <1>3, <1>4, <1>6, <1>8, TreesNext DEF TreesInv
  <1>10. RootsInv'
    BY <1>1, <1>3 DEF RootsInv, Begun
  <1> QED
    BY <1>8, <1>9, <1>10

LEMMA OnceBegin ==
    ASSUME PassOnceInv, NEW t \in SceneThreads, AttachBegin(t)
    PROVE  ListsInv' /\ TreesInv' /\ RootsInv'
  <1> DEFINE m == Top(t)[2]
             e == << "tracks", m >>
  <1>1. Types /\ ListsInv /\ TreesInv /\ RootsInv /\ todo[t] # << >> /\ Top(t)[1] = "attach"
    BY DEF PassOnceInv, SceneInv, AttachBegin
  <1>2. m \in Models /\ m \in Begun /\ m \in Waiting /\ TopOf(todo[t]) = {m}
    BY <1>1, TopItem
  <1>3. /\ todo' = [todo EXCEPT ![t] = Onward(<< e >>, todo[t])]
        /\ UNCHANGED <<deferring, recorded, share, signal>> /\ UNCHANGED <<session, roots>>
        /\ UNCHANGED <<animated, faulted>>
    BY DEF AttachBegin, Go, Onward, pools
  <1>4. Begun' = Begun /\ Begun' = Begun \cup {}
    BY <1>3 DEF Begun
  <1> HIDE DEF m
  <1>5. e \in Item /\ e[1] = "tracks" /\ e[2] = m
    BY <1>2 DEF Item
  <1> HIDE DEF e
  <1>6. << e >> \in Seq(Item) /\ Tidy(<< e >>, Begun') /\ Mods(<< e >>) = {m}
    BY <1>2, <1>4, <1>5, TidyItem
  <1>7. ListsInv' /\ Waiting' = (Waiting \ {m}) \cup {m}
    <2>1. {} \subseteq TopOf(todo[t]) /\ Mods(<< e >>) \subseteq TopOf(todo[t]) \cup {} /\ {} \cap Waiting = {}
      BY <1>2, <1>6
    <2>2. ListsInv' /\ Waiting' = (Waiting \ TopOf(todo[t])) \cup Mods(<< e >>)
      BY <1>1, <1>3, <1>4, <1>6, <2>1, TopStep
    <2> QED
      BY <1>2, <1>6, <2>2
  <1>8. Waiting' = Waiting
    BY <1>2, <1>7
  <1>9. TreesInv'
    BY <1>1, <1>3, <1>4, <1>8, TreesNext DEF TreesInv
  <1>10. RootsInv'
    BY <1>1, <1>3 DEF RootsInv, Begun
  <1> QED
    BY <1>7, <1>9, <1>10

LEMMA OnceEnd ==
    ASSUME PassOnceInv, NEW t \in SceneThreads, AttachEnd(t)
    PROVE  ListsInv' /\ TreesInv' /\ RootsInv'
  <1>1. Types /\ ListsInv /\ TreesInv /\ RootsInv /\ todo[t] # << >> /\ Top(t)[1] \in {"join", "release"}
    BY DEF PassOnceInv, SceneInv, AttachEnd
  <1>2. TopOf(todo[t]) = {}
    BY <1>1 DEF TopOf, Top
  <1>3. /\ todo' = [todo EXCEPT ![t] = Onward(<< >>, todo[t])]
        /\ UNCHANGED <<deferring, recorded, share, signal>> /\ UNCHANGED <<session, roots>>
        /\ UNCHANGED <<animated, faulted>>
    BY DEF AttachEnd, Go, Onward, pools
  <1>4. Begun' = Begun /\ Begun' = Begun \cup {}
    BY <1>3 DEF Begun
  <1>5. << >> \in Seq(Item) /\ Tidy(<< >>, Begun') /\ Mods(<< >>) = {}
    BY TidyNothing
  <1>6. ListsInv' /\ Waiting' = Waiting
    <2>1. {} \subseteq TopOf(todo[t]) /\ Mods(<< >>) \subseteq TopOf(todo[t]) \cup {} /\ {} \cap Waiting = {}
      BY <1>5
    <2>2. ListsInv' /\ Waiting' = (Waiting \ TopOf(todo[t])) \cup Mods(<< >>)
      BY <1>1, <1>3, <1>4, <1>5, <2>1, TopStep
    <2> QED
      BY <1>2, <1>5, <2>2
  <1>7. TreesInv'
    BY <1>1, <1>3, <1>4, <1>6, TreesNext DEF TreesInv
  <1>8. RootsInv'
    BY <1>1, <1>3 DEF RootsInv, Begun
  <1> QED
    BY <1>6, <1>7, <1>8

------------------------------------------------------------------------------
(* The forks, and the other steps. *)

LEMMA NoSignals ==
    ASSUME Types, PoolsInv
    PROVE  /\ active["roots"] = 0 => \A w \in RootWorkers : ~signal[w]
           /\ active["kids"] = 0 => \A w \in KidWorkers : ~signal[w]
  BY BusyFinite DEF PoolsInv, Busy

\* What places D hold, and no place held, is a list and some more; the caller
\* keeps its slice of the list, and these, at one of them, and the others are emptied.
Handing(s, pool, D, own, R, Fresh) ==
    /\ D \subseteq Places /\ own \in D /\ \A w \in PoolWorkers : Given(w) \notin D
    /\ Elements(s) \subseteq Union(Held, D) \cup Fresh /\ Fresh \cap Waiting = {}
    /\ R \subseteq Union(Held, D) /\ Elements(s) \cap R = {}
    /\ Held'[own] = Elements(OwnSlice(s, pool)) \cup R
    /\ \A p \in D \ {own} : Held'[p] = {}
    /\ \A p \in D : Tidied(p)'
    /\ \A p \in Places \ D : (\A w \in PoolWorkers : p # Given(w)) => Untouched(p)

LEMMA ForkLists ==
    ASSUME Types, ListsInv, NEW pool \in {RootWorkers, KidWorkers}, NEW name,
           \A w \in pool : ~signal[w],
           NEW s \in Seq(Models), Distinct(s), Len(s) >= 1, Elements(s) \cap Begun = {},
           Fork(s, pool, name), Begun' = Begun,
           NEW D, NEW own, NEW R, NEW Fresh, Handing(s, pool, D, own, R, Fresh)
    PROVE  ListsInv' /\ Waiting' = (Waiting \ Union(Held, D)) \cup Elements(s) \cup R
  <1>0. /\ D \subseteq Places /\ own \in D /\ \A w \in PoolWorkers : Given(w) \notin D
        /\ Elements(s) \subseteq Union(Held, D) \cup Fresh /\ Fresh \cap Waiting = {}
        /\ R \subseteq Union(Held, D) /\ Elements(s) \cap R = {}
        /\ Held'[own] = Elements(OwnSlice(s, pool)) \cup R
        /\ \A p \in D \ {own} : Held'[p] = {}
        /\ \A p \in D : Tidied(p)'
        /\ \A p \in Places \ D : (\A w \in PoolWorkers : p # Given(w)) => Untouched(p)
    BY DEF Handing
  <1> DEFINE mine == Elements(OwnSlice(s, pool))
  <1>a. PICK used \in SUBSET pool : Shared(s, pool, used)
    BY ForkElements
  <1>1. /\ \A w \in used : /\ Distinct(share'[w])
                           /\ Elements(share'[w]) \subseteq Elements(s)
                           /\ Elements(share'[w]) \cap mine = {}
        /\ \A v, w \in used : v # w => Elements(share'[v]) \cap Elements(share'[w]) = {}
        /\ \A m \in Elements(s) \ mine : \E w \in used : m \in Elements(share'[w])
        /\ \A w \in PoolWorkers \ used : share'[w] = share[w]
        /\ signal' = [w \in PoolWorkers |-> w \in used \/ signal[w]]
    BY <1>a DEF Shared
  <1>2. mine \subseteq Elements(s)
    BY ForkElements
  <1>3. used \subseteq PoolWorkers /\ \A w \in used : ~signal[w]
    BY ThreadFacts
  <1>4. /\ \A w \in used : signal'[w]
        /\ \A w \in PoolWorkers \ used : signal'[w] = signal[w]
    <2>1. signal \in [PoolWorkers -> BOOLEAN]
      BY DEF Types
    <2>2. \A w \in used : signal'[w]
      BY <1>1, <1>3
    <2>3. ASSUME NEW w \in PoolWorkers \ used
          PROVE  signal'[w] = signal[w]
      <3>1. signal'[w] = (w \in used \/ signal[w])
        BY <1>1
      <3>2. signal[w] \in BOOLEAN /\ w \notin used
        BY <2>1
      <3>3. CASE signal[w] = TRUE
        BY <3>1, <3>3
      <3>4. CASE signal[w] = FALSE
        <4>1. ~(w \in used \/ signal[w])
          BY <3>2, <3>4
        <4>2. signal'[w] = FALSE
          BY <3>1, <4>1, Zenon
        <4> QED
          BY <3>4, <4>2
      <3> QED
        BY <3>2, <3>3, <3>4
    <2> QED
      BY <2>2, <2>3
  <1> HIDE DEF mine
  <1> DEFINE G == {Given(w) : w \in used}
             C == D \cup G
  <1>5. C \subseteq Places
    BY <1>0, <1>3, PlaceKinds
  <1>6. ASSUME NEW w \in used
        PROVE  /\ Held[Given(w)] = {} /\ Held'[Given(w)] = Elements(share'[w]) /\ Tidied(Given(w))'
               /\ Given(w) \notin D
    <2>1. w \in PoolWorkers /\ ~signal[w] /\ signal'[w]
      BY <1>3, <1>4
    <2>2. Elements(share'[w]) \cap Begun' = {}
      BY <1>1
    <2> QED
      BY <1>0, <1>1, <2>1, <2>2, HeldThere, HeldNext
  <1>7. Union(Held, C) = Union(Held, D)
    <2>1. ASSUME NEW m \in Union(Held, C)
          PROVE  m \in Union(Held, D)
      <3>1. PICK p \in C : m \in Held[p]
        BY DEF Union
      <3>2. p \in D
        BY <1>6, <3>1
      <3> QED
        BY <3>1, <3>2 DEF Union
    <2>2. ASSUME NEW m \in Union(Held, D)
          PROVE  m \in Union(Held, C)
      BY DEF Union
    <2> QED
      BY <2>1, <2>2
  <1>8. \A p \in Places \ C : Untouched(p)
    <2> SUFFICES ASSUME NEW p \in Places \ C
                 PROVE  Untouched(p)
      OBVIOUS
    <2>1. CASE \E w \in PoolWorkers : p = Given(w)
      <3>1. PICK w \in PoolWorkers : p = Given(w)
        BY <2>1
      <3>2. w \notin used
        BY <3>1
      <3>3. share'[w] = share[w] /\ signal'[w] = signal[w]
        BY <1>1, <1>4, <3>2
      <3> QED
        BY <3>1, <3>3 DEF Untouched, Given
    <2>2. CASE ~(\E w \in PoolWorkers : p = Given(w))
      BY <1>0, <2>2
    <2> QED
      BY <2>1, <2>2
  <1>9. \A p \in C : Tidied(p)'
    BY <1>0, <1>6
  <1>10. \A p \in C : Held'[p] \subseteq Union(Held, C) \cup Fresh
    <2>1. \A p \in D \ {own} : Held'[p] = {}
      BY <1>0
    <2>2. Held'[own] \subseteq Union(Held, D) \cup Fresh
      BY <1>0, <1>2 DEF mine
    <2>3. \A w \in used : Held'[Given(w)] \subseteq Union(Held, D) \cup Fresh
      BY <1>0, <1>1, <1>6
    <2> QED
      BY <1>7, <2>1, <2>2, <2>3
  <1>11. Apart(Held', C)
    <2>1. ASSUME NEW p \in D, NEW w \in used
          PROVE  Held'[p] \cap Held'[Given(w)] = {}
      <3>1. CASE p = own
        <4>1. Elements(share'[w]) \cap mine = {} /\ Elements(share'[w]) \cap R = {}
          BY <1>0, <1>1
        <4> QED
          BY <1>0, <1>6, <3>1, <4>1 DEF mine
      <3>2. CASE p # own
        BY <1>0, <3>2
      <3> QED
        BY <3>1, <3>2
    <2>2. ASSUME NEW p \in D, NEW q \in D, p # q
          PROVE  Held'[p] \cap Held'[q] = {}
      BY <1>0, <2>2
    <2>3. ASSUME NEW v \in used, NEW w \in used, Given(v) # Given(w)
          PROVE  Held'[Given(v)] \cap Held'[Given(w)] = {}
      BY <1>1, <1>6, <2>3
    <2> SUFFICES ASSUME NEW p \in C, NEW q \in C, p # q
                 PROVE  Held'[p] \cap Held'[q] = {}
      BY DEF Apart
    <2> QED
      BY <2>1, <2>2, <2>3
  <1>12. Union(Held', C) = Elements(s) \cup R
    <2>1. ASSUME NEW m \in Union(Held', C)
          PROVE  m \in Elements(s) \cup R
      <3>1. PICK p \in C : m \in Held'[p]
        BY DEF Union
      <3>2. CASE p \in D
        BY <1>0, <1>2, <3>1, <3>2 DEF mine
      <3>3. CASE p \in G
        BY <1>1, <1>6, <3>1, <3>3
      <3> QED
        BY <3>2, <3>3
    <2>2. own \in C /\ mine \cup R = Held'[own]
      BY <1>0 DEF mine
    <2>3. mine \cup R \subseteq Union(Held', C)
      BY <2>2 DEF Union
    <2>4. ASSUME NEW m \in Elements(s) \ mine
          PROVE  m \in Union(Held', C)
      <3>1. PICK w \in used : m \in Elements(share'[w])
        BY <1>1
      <3>2. Given(w) \in C /\ m \in Held'[Given(w)]
        BY <1>6, <3>1
      <3> QED
        BY <3>2 DEF Union
    <2> QED
      BY <2>1, <2>3, <2>4
  <1> HIDE DEF C
  <1>13. {} \subseteq Union(Held, C) /\ Begun' = Begun \cup {}
    OBVIOUS
  <1>14. ListsInv' /\ Waiting' = (Waiting \ Union(Held, C)) \cup Union(Held', C)
    BY <1>0, <1>5, <1>8, <1>9, <1>10, <1>11, <1>13, ListsStep
  <1> QED
    BY <1>7, <1>12, <1>14

LEMMA OnceFork ==
    ASSUME PassOnceInv, NEW t \in SceneThreads, AttachFork(t), Forest, Fits
    PROVE  ListsInv' /\ TreesInv' /\ RootsInv'
  <1> DEFINE m == Top(t)[2]
             tasks == Tasks(m)
             q == todo[t]
  <1>1. /\ Types /\ PoolsInv /\ KidsInv /\ ListsInv /\ TreesInv /\ RootsInv
        /\ todo[t] # << >> /\ Top(t)[1] = "tracks" /\ session \in Sessions
    BY DEF PassOnceInv, SceneInv, AttachFork, Types
  <1>2. m \in Models /\ m \in Begun /\ m \in Waiting /\ TopOf(todo[t]) = {m}
        /\ Head(q) = << "tracks", m >> /\ Head(q)[1] = "tracks"
    BY <1>1, TopItem
  <1>3. session.kidsOn /\ active["kids"] = 0
    <2>1. Taken /\ InPool(t, Head(q))
      BY <1>1, <1>2, TheOneInCharge
    <2> QED
      BY <1>2, <2>1 DEF Taken, InPool
  <1>4. UNCHANGED <<deferring, recorded>> /\ UNCHANGED <<session, roots>> /\ UNCHANGED <<animated, faulted>>
    BY DEF AttachFork
  <1>5. Begun' = Begun /\ Begun' = Begun \cup {}
    BY <1>4 DEF Begun
  <1>6. CASE Len(tasks) < 2
    <2>1. /\ todo' = [todo EXCEPT ![t] = Onward(Animate(tasks) \o << << "release", m >> >>, todo[t])]
          /\ UNCHANGED <<share, signal>>
      BY <1>6 DEF AttachFork, Go, Onward, pools
    <2> DEFINE e == << "release", m >>
               a == Animate(tasks)
               more == a \o << e >>
    <2> HIDE DEF m
    <2>2. tasks \in Seq(Models) /\ Distinct(tasks) /\ Elements(tasks) = ShownKids(m)
      BY <1>1, <1>3, TasksElements
    <2>3. /\ ShownKids(m) \cap (Begun \cup Waiting) = {}
          /\ Grown(Begun, (Waiting \ {m}) \cup ShownKids(m))
          /\ Whole(Begun, Waiting) => Whole(Begun, (Waiting \ {m}) \cup ShownKids(m))
      <3>1. Grown(Begun, Waiting) /\ m \in Begun \cap Waiting
        BY <1>1, <1>2 DEF TreesInv
      <3> QED
        BY <1>1, <1>2, <3>1, TreeBranch
    <2> HIDE DEF tasks
    <2>4. a \in Seq(Item) /\ Tidy(a, Begun') /\ Mods(a) = ShownKids(m)
      <3>1. Elements(tasks) \cap Begun' = {}
        BY <1>5, <2>2, <2>3
      <3> QED
        BY <2>2, <3>1, TidyAnimate
    <2>5. e \in Item /\ e[1] = "release"
      BY <1>2 DEF Item
    <2> HIDE DEF a, e
    <2>6. << e >> \in Seq(Item) /\ Tidy(<< e >>, Begun') /\ Mods(<< e >>) = {}
      BY <2>5, TidyItem
    <2>7. more \in Seq(Item) /\ Tidy(more, Begun') /\ Mods(more) = ShownKids(m)
      <3> DEFINE b == << e >>
      <3>1. b \in Seq(Item) /\ Tidy(b, Begun') /\ Mods(b) = {} /\ Mods(a) \cap Mods(b) = {}
        BY <2>6
      <3> HIDE DEF b
      <3>2. a \o b \in Seq(Item) /\ Tidy(a \o b, Begun') /\ Mods(a \o b) = Mods(a) \cup Mods(b)
        BY <2>4, <3>1, TidyConcat
      <3> QED
        BY <2>4, <3>1, <3>2 DEF b
    <2>8. todo' = [todo EXCEPT ![t] = Onward(more, todo[t])]
      BY <2>1 DEF a, e
    <2> HIDE DEF more
    <2>9. ListsInv' /\ Waiting' = (Waiting \ {m}) \cup ShownKids(m)
      <3>1. {} \subseteq TopOf(todo[t]) /\ Mods(more) \subseteq TopOf(todo[t]) \cup ShownKids(m)
            /\ ShownKids(m) \cap Waiting = {}
        BY <2>3, <2>7
      <3>2. ListsInv' /\ Waiting' = (Waiting \ TopOf(todo[t])) \cup Mods(more)
        BY <1>1, <1>4, <1>5, <2>1, <2>7, <2>8, <3>1, TopStep
      <3> QED
        BY <1>2, <2>7, <3>2
    <2>10. TreesInv'
      BY <1>1, <1>4, <1>5, <2>3, <2>9, TreesNext DEF TreesInv
    <2>11. RootsInv'
      BY <1>1, <1>4 DEF RootsInv, Begun
    <2> QED
      BY <2>9, <2>10, <2>11
  <1>7. CASE ~(Len(tasks) < 2)
    <2>1. /\ todo' = [todo EXCEPT ![t] =
                        Onward(Animate(OwnSlice(tasks, KidWorkers)) \o << << "join", m >> >>, todo[t])]
          /\ Fork(tasks, KidWorkers, "kids")
      BY <1>7 DEF AttachFork, Go, Onward
    <2> DEFINE e == << "join", m >>
               own == OwnSlice(tasks, KidWorkers)
               a == Animate(own)
               more == a \o << e >>
               D == {Todo(t)}
    <2> HIDE DEF m
    <2>2. tasks \in Seq(Models) /\ Distinct(tasks) /\ Elements(tasks) = ShownKids(m) /\ Len(tasks) >= 1
      <3>1. tasks \in Seq(Models) /\ Distinct(tasks) /\ Elements(tasks) = ShownKids(m) /\ Len(tasks) \in Nat
        BY <1>1, <1>3, TasksElements
      <3> QED
        BY <1>7, <3>1
    <2>3. /\ ShownKids(m) \cap (Begun \cup Waiting) = {}
          /\ Grown(Begun, (Waiting \ {m}) \cup ShownKids(m))
          /\ Whole(Begun, Waiting) => Whole(Begun, (Waiting \ {m}) \cup ShownKids(m))
      <3>1. Grown(Begun, Waiting) /\ m \in Begun \cap Waiting
        BY <1>1, <1>2 DEF TreesInv
      <3> QED
        BY <1>1, <1>2, <3>1, TreeBranch
    <2> HIDE DEF tasks
    <2>4. own \in Seq(Models) /\ Distinct(own) /\ Elements(own) \subseteq ShownKids(m)
      BY <2>1, <2>2, ForkElements
    <2> HIDE DEF own
    <2>5. a \in Seq(Item) /\ Tidy(a, Begun') /\ Mods(a) = Elements(own)
      <3>1. Elements(own) \cap Begun' = {}
        BY <1>5, <2>3, <2>4
      <3> QED
        BY <2>4, <3>1, TidyAnimate
    <2>6. e \in Item /\ e[1] = "join"
      BY <1>2 DEF Item
    <2> HIDE DEF a, e
    <2>7. << e >> \in Seq(Item) /\ Tidy(<< e >>, Begun') /\ Mods(<< e >>) = {}
      BY <2>6, TidyItem
    <2>8. more \in Seq(Item) /\ Tidy(more, Begun') /\ Mods(more) = Elements(own)
      <3> DEFINE b == << e >>
      <3>1. b \in Seq(Item) /\ Tidy(b, Begun') /\ Mods(b) = {} /\ Mods(a) \cap Mods(b) = {}
        BY <2>7
      <3> HIDE DEF b
      <3>2. a \o b \in Seq(Item) /\ Tidy(a \o b, Begun') /\ Mods(a \o b) = Mods(a) \cup Mods(b)
        BY <2>5, <3>1, TidyConcat
      <3> QED
        BY <2>5, <3>1, <3>2 DEF b
    <2>9. todo' = [todo EXCEPT ![t] = Onward(more, todo[t])]
      BY <2>1 DEF a, e, own
    <2> HIDE DEF more
    <2>10. Todo(t) \in Places /\ Tidy(q, Begun) /\ Mods(q) \subseteq Waiting /\ Held[Todo(t)] = Mods(q)
           /\ q \in Seq(Item) /\ q # << >> /\ TopOf(q) = {m}
      <3>1. Todo(t) \in Places
        BY PlaceKinds
      <3> QED
        BY <1>1, <1>2, <3>1, HeldThere DEF ListsInv, Waiting, Union, Types
    <2>11. todo'[t] = Onward(more, q) /\ \A u \in SceneThreads \ {t} : todo'[u] = todo[u]
      BY <1>1, <2>9 DEF Types
    <2> HIDE DEF q
    <2>12. /\ Tidy(Onward(more, q), Begun')
           /\ Mods(Onward(more, q)) = Elements(own) \cup (Mods(q) \ {m})
           /\ m \in Mods(q)
      <3> DEFINE X == {}
      <3>1. Mods(more) \cap Mods(q) \subseteq TopOf(q) /\ X \subseteq TopOf(q) /\ Begun' = Begun \cup X
        BY <1>5, <2>3, <2>4, <2>8, <2>10
      <3> HIDE DEF X
      <3>2. /\ Tidy(Onward(more, q), Begun \cup X)
            /\ Mods(Onward(more, q)) = Mods(more) \cup (Mods(q) \ TopOf(q))
            /\ TopOf(q) \subseteq Mods(q)
        BY <2>8, <2>10, <3>1, OnwardTidy
      <3> QED
        BY <2>8, <2>10, <3>1, <3>2
    <2> DEFINE R == Mods(q) \ {m}
    <2>13. ListsInv' /\ Waiting' = (Waiting \ Union(Held, D)) \cup Elements(tasks) \cup R
      <3>1. /\ D \in SUBSET Places /\ Todo(t) \in D /\ Union(Held, D) = Mods(q)
            /\ \A w \in PoolWorkers : Given(w) \notin D
        BY <2>10, PlaceKinds DEF Union
      <3>2. R \subseteq Union(Held, D) /\ Elements(tasks) \cap R = {} /\ Elements(tasks) \cap Begun = {}
        BY <2>2, <2>3, <2>10, <3>1
      <3>3. Held'[Todo(t)] = Elements(OwnSlice(tasks, KidWorkers)) \cup R
        BY <2>11, <2>12, HeldNext DEF own
      <3>4. \A p \in D : Tidied(p)'
        BY <2>11, <2>12, HeldNext
      <3>5. \A p \in D \ {Todo(t)} : Held'[p] = {}
        OBVIOUS
      <3>6. Elements(tasks) \subseteq Union(Held, D) \cup ShownKids(m) /\ ShownKids(m) \cap Waiting = {}
        BY <2>2, <2>3
      <3>7. \A p \in Places \ D : (\A w \in PoolWorkers : p # Given(w)) => Untouched(p)
        <4> SUFFICES ASSUME NEW p \in Places \ D, \A w \in PoolWorkers : p # Given(w)
                     PROVE  Untouched(p)
          OBVIOUS
        <4>1. CASE \E u \in SceneThreads : p = Todo(u)
          BY <2>11, <4>1 DEF Untouched, Todo
        <4>2. CASE p = Table
          BY <1>4, <4>2 DEF Untouched, Table
        <4> QED
          BY <4>1, <4>2 DEF Places
      <3>8. \A w \in KidWorkers : ~signal[w]
        BY <1>1, <1>3, NoSignals
      <3>9. Handing(tasks, KidWorkers, D, Todo(t), R, ShownKids(m))
        BY <3>1, <3>2, <3>3, <3>4, <3>5, <3>6, <3>7 DEF Handing
      <3> HIDE DEF D, R
      <3> QED
        BY <1>1, <1>5, <2>1, <2>2, <3>2, <3>8, <3>9, ForkLists
    <2>14. Waiting' = (Waiting \ {m}) \cup ShownKids(m)
      <3>1. Union(Held, D) = Mods(q)
        BY <2>10 DEF Union
      <3> QED
        BY <2>2, <2>10, <2>12, <2>13, <3>1
    <2>15. TreesInv'
      BY <1>1, <1>4, <1>5, <2>3, <2>14, TreesNext DEF TreesInv
    <2>16. RootsInv'
      BY <1>1, <1>4 DEF RootsInv, Begun
    <2> QED
      BY <2>13, <2>15, <2>16
  <1> QED
    BY <1>6, <1>7

------------------------------------------------------------------------------
(* The other steps. *)

LEMMA TreesStill ==
    ASSUME TreesInv, RootsInv, UNCHANGED <<session, roots, animated, faulted>>, Waiting' = Waiting
    PROVE  TreesInv' /\ RootsInv'
  <1>1. Begun' = Begun
    BY DEF Begun
  <1>2. TreesInv'
    BY <1>1, TreesNext DEF TreesInv
  <1> QED
    BY <1>1, <1>2 DEF RootsInv

\* Places where nothing happens to what is there.
LEMMA ListsStill ==
    ASSUME ListsInv, UNCHANGED <<todo, deferring, recorded, share, signal, animated>>
    PROVE  ListsInv' /\ Waiting' = Waiting
  <1>1. Held' = Held /\ Begun' = Begun
    BY DEF Held, Begun
  <1>2. \A p \in Places : Tidied(p)' <=> Tidied(p)
    BY <1>1 DEF Tidied
  <1> QED
    BY <1>1, <1>2 DEF ListsInv, Apart, Waiting, Union

LEMMA OnceWake ==
    ASSUME PassOnceInv, NEW w \in PoolWorkers, Wake(w)
    PROVE  ListsInv' /\ TreesInv' /\ RootsInv'
  <1> DEFINE s == share[w]
             C == {Todo(w), Given(w)}
             Fresh == {}
             X == {}
  <1>1. Types /\ PoolsInv /\ ListsInv /\ TreesInv /\ RootsInv
    BY DEF PassOnceInv, SceneInv
  <1>2. /\ todo[w] = << >> /\ signal[w]
        /\ todo' = [todo EXCEPT ![w] = Animate(s)] /\ signal' = [signal EXCEPT ![w] = FALSE]
        /\ UNCHANGED <<share, deferring, recorded>> /\ UNCHANGED <<session, roots, animated, faulted>>
    BY <1>1, WakeEffect DEF Wake
  <1>3. w \in SceneThreads /\ C \subseteq Places
    BY ThreadFacts, PlaceKinds
  <1>4. /\ todo'[w] = Animate(s) /\ ~signal'[w]
        /\ \A t \in SceneThreads \ {w} : todo'[t] = todo[t]
        /\ \A v \in PoolWorkers \ {w} : signal'[v] = signal[v]
    BY <1>1, <1>2, <1>3 DEF Types
  <1>5. Held[Todo(w)] = {} /\ Held[Given(w)] = Elements(s)
    BY <1>2, <1>3, HeldThere, TidyNothing
  <1>6. s \in Seq(Models) /\ Distinct(s) /\ Elements(s) \cap Begun = {} /\ Begun' = Begun
    BY <1>1, <1>2, <1>3, HeldThere DEF ListsInv, Types, Begun
  <1>7. Tidy(Animate(s), Begun') /\ Mods(Animate(s)) = Elements(s)
    <2> HIDE DEF s
    <2> QED
      BY <1>6, TidyAnimate
  <1>8. /\ Held'[Todo(w)] = Elements(s) /\ Held'[Given(w)] = {}
        /\ Tidied(Todo(w))' /\ Tidied(Given(w))'
    BY <1>3, <1>4, <1>7, HeldNext
  <1>9. \A p \in Places \ C : Untouched(p)
    <2> SUFFICES ASSUME NEW p \in Places \ C
                 PROVE  Untouched(p)
      OBVIOUS
    <2>1. CASE \E t \in SceneThreads : p = Todo(t)
      BY <1>4, <2>1 DEF Untouched, Todo
    <2>2. CASE \E v \in PoolWorkers : p = Given(v)
      <3>1. PICK v \in PoolWorkers : p = Given(v)
        BY <2>2
      <3>2. v # w
        BY <3>1
      <3>3. signal'[v] = signal[v] /\ share'[v] = share[v]
        BY <1>2, <1>4, <3>2
      <3> QED
        BY <3>1, <3>3 DEF Untouched, Given
    <2>3. CASE p = Table
      BY <1>2, <2>3 DEF Untouched, Table
    <2> QED
      BY <2>1, <2>2, <2>3 DEF Places
  <1>10. Union(Held, C) = Elements(s) /\ Union(Held', C) = Elements(s)
    BY <1>5, <1>8 DEF Union
  <1>11. /\ \A p \in C : Tidied(p)' /\ Held'[p] \subseteq Union(Held, C) \cup Fresh
         /\ Fresh \cap Waiting = {} /\ Begun' = Begun \cup X /\ X \subseteq Union(Held, C)
    <2>1. Fresh \cap Waiting = {} /\ Begun' = Begun \cup X /\ X \subseteq Union(Held, C)
      BY <1>6
    <2>2. \A p \in C : Held'[p] \subseteq Union(Held, C)
      BY <1>8, <1>10
    <2>3. \A p \in C : Tidied(p)'
      BY <1>8
    <2> QED
      BY <2>1, <2>2, <2>3
  <1>12. Apart(Held', C)
    BY <1>8 DEF Apart
  <1> HIDE DEF C, Fresh, X, s
  <1>13. ListsInv' /\ Waiting' = (Waiting \ Union(Held, C)) \cup Union(Held', C)
    BY <1>1, <1>3, <1>9, <1>11, <1>12, ListsStep
  <1>14. Union(Held, C) \subseteq Waiting
    BY <1>3 DEF Union, Waiting
  <1> QED
    BY <1>1, <1>2, <1>10, <1>13, <1>14, TreesStill

\* What a faulted worker leaves undone is lost, and the pass is known to be short.
LEMMA OnceFault ==
    ASSUME PassOnceInv, NEW w \in RootWorkers, Fault(w)
    PROVE  ListsInv' /\ TreesInv' /\ RootsInv'
  <1> DEFINE C == {Todo(w)}
             Fresh == {}
             X == {}
  <1>1. Types /\ ListsInv /\ TreesInv /\ RootsInv
    BY DEF PassOnceInv, SceneInv
  <1>2. /\ todo' = [todo EXCEPT ![w] = << >>] /\ faulted' = TRUE
        /\ UNCHANGED <<share, signal, deferring, recorded>> /\ UNCHANGED <<session, roots, animated>>
    BY DEF Fault, pools
  <1>3. w \in SceneThreads /\ C \subseteq Places
    BY ThreadFacts, PlaceKinds
  <1>4. todo'[w] = << >> /\ \A t \in SceneThreads \ {w} : todo'[t] = todo[t]
    BY <1>1, <1>2, <1>3 DEF Types
  <1>5. Begun' = Begun
    BY <1>2 DEF Begun
  <1>6. Held'[Todo(w)] = {} /\ Tidied(Todo(w))'
    BY <1>3, <1>4, HeldNext, TidyNothing
  <1>7. \A p \in Places \ C : Untouched(p)
    <2> SUFFICES ASSUME NEW p \in Places \ C
                 PROVE  Untouched(p)
      OBVIOUS
    <2>1. CASE \E t \in SceneThreads : p = Todo(t)
      BY <1>4, <2>1 DEF Untouched, Todo
    <2>2. CASE \E v \in PoolWorkers : p = Given(v)
      BY <1>2, <2>2 DEF Untouched, Given
    <2>3. CASE p = Table
      BY <1>2, <2>3 DEF Untouched, Table
    <2> QED
      BY <2>1, <2>2, <2>3 DEF Places
  <1>8. /\ \A p \in C : Tidied(p)' /\ Held'[p] \subseteq Union(Held, C) \cup Fresh
        /\ Fresh \cap Waiting = {} /\ Begun' = Begun \cup X /\ X \subseteq Union(Held, C)
        /\ Apart(Held', C) /\ Union(Held', C) = {}
    BY <1>5, <1>6 DEF Apart, Union
  <1> HIDE DEF C, Fresh, X
  <1>9. ListsInv' /\ Waiting' = (Waiting \ Union(Held, C)) \cup Union(Held', C)
    BY <1>1, <1>3, <1>7, <1>8, ListsStep
  <1>10. Waiting' \subseteq Waiting
    BY <1>8, <1>9
  <1>11. Grown(Begun', Waiting')
    BY <1>1, <1>5, <1>10, TreeLoses DEF TreesInv
  <1>12. TreesInv'
    BY <1>2, <1>11, TreesNext
  <1>13. RootsInv'
    BY <1>1, <1>2, <1>5 DEF RootsInv
  <1> QED
    BY <1>9, <1>12, <1>13

\* The recorded roots go from the table to the main thread and the pool.
LEMMA OnceRun ==
    ASSUME PassOnceInv, RunRecorded
    PROVE  ListsInv' /\ TreesInv' /\ RootsInv'
  <1> DEFINE s == recorded
             main == Todo(MainThread)
             D == {main, Table}
             Fresh == {}
             X == {}
             R == {}
  <1>1. Types /\ PoolsInv /\ PassInv /\ ListsInv /\ TreesInv /\ RootsInv
    BY DEF PassOnceInv, SceneInv
  <1>2. /\ mpc = "loop" /\ todo[MainThread] = << >> /\ deferring /\ deferring' = FALSE
        /\ UNCHANGED recorded /\ UNCHANGED <<session, roots, animated, faulted>>
    BY DEF RunRecorded
  <1>3. /\ MainThread \in SceneThreads /\ D \subseteq Places /\ main # Table
        /\ \A w \in PoolWorkers : Given(w) \notin D
    BY ThreadFacts, PlaceKinds
  <1>4. Held[main] = {} /\ Held[Table] = Elements(s) /\ Union(Held, D) = Elements(s)
    BY <1>2, <1>3, HeldThere, TidyNothing DEF Union
  <1>5. s \in Seq(Models) /\ Distinct(s) /\ Elements(s) \cap Begun = {} /\ Begun' = Begun
    BY <1>1, <1>2, <1>3, HeldThere DEF ListsInv, Types, Begun
  <1>6. Held'[Table] = {} /\ Tidied(Table)'
    BY <1>2, HeldNext
  <1>7. Elements(s) \subseteq Waiting
    BY <1>3, <1>4 DEF Union, Waiting
  <1>8. ListsInv' /\ Waiting' = Waiting
    <2>1. CASE Len(s) >= MinParallel
      <3> DEFINE own == OwnSlice(s, RootWorkers)
      <3>1. /\ Fork(s, RootWorkers, "roots") /\ todo' = [todo EXCEPT ![MainThread] = Animate(own)]
            /\ Len(s) >= 1
        <4>1. Len(s) \in Nat /\ MinParallel \in Nat \ {0}
          BY <1>5, ElementsOf, SceneAssumption
        <4> QED
          BY <2>1, <4>1 DEF RunRecorded
      <3>2. \A w \in RootWorkers : ~signal[w]
        BY <1>1, <1>2, NoSignals DEF PassInv
      <3> HIDE DEF s
      <3>3. own \in Seq(Models) /\ Distinct(own) /\ Elements(own) \subseteq Elements(s)
        BY <1>5, <3>1, ForkElements
      <3> HIDE DEF own
      <3>4. Tidy(Animate(own), Begun') /\ Mods(Animate(own)) = Elements(own)
        <4>1. Elements(own) \cap Begun' = {}
          BY <1>5, <3>3
        <4> QED
          BY <3>3, <4>1, TidyAnimate
      <3>5. todo'[MainThread] = Animate(own) /\ \A t \in SceneThreads \ {MainThread} : todo'[t] = todo[t]
        BY <1>1, <1>3, <3>1 DEF Types
      <3>6. Held'[main] = Elements(own) \cup R /\ Tidied(main)'
        BY <1>3, <3>4, <3>5, HeldNext
      <3>7. \A p \in Places \ D : (\A w \in PoolWorkers : p # Given(w)) => Untouched(p)
        <4> SUFFICES ASSUME NEW p \in Places \ D, \A w \in PoolWorkers : p # Given(w)
                     PROVE  Untouched(p)
          OBVIOUS
        <4>1. \E t \in SceneThreads : p = Todo(t)
          BY DEF Places
        <4> QED
          BY <3>5, <4>1 DEF Untouched, Todo
      <3>8. Handing(s, RootWorkers, D, main, R, Fresh)
        <4>1. \A p \in D \ {main} : Held'[p] = {}
          BY <1>6
        <4>2. \A p \in D : Tidied(p)'
          BY <1>6, <3>6
        <4>3. /\ Elements(s) \subseteq Union(Held, D) \cup Fresh /\ Fresh \cap Waiting = {}
              /\ R \subseteq Union(Held, D) /\ Elements(s) \cap R = {}
              /\ main \in D
          BY <1>4
        <4> QED
          BY <1>3, <3>6, <3>7, <4>1, <4>2, <4>3 DEF Handing, own
      <3> HIDE DEF D, main, Fresh
      <3>9. R = {}
        OBVIOUS
      <3> HIDE DEF R
      <3>10. ListsInv' /\ Waiting' = (Waiting \ Union(Held, D)) \cup Elements(s) \cup R
        BY <1>1, <1>5, <3>1, <3>2, <3>8, ForkLists
      <3> QED
        BY <1>4, <1>7, <3>9, <3>10
    <2>2. CASE ~(Len(s) >= MinParallel)
      <3>1. todo' = [todo EXCEPT ![MainThread] = Animate(s)] /\ UNCHANGED <<share, signal>>
        BY <2>2 DEF RunRecorded, pools
      <3> HIDE DEF s
      <3>2. Tidy(Animate(s), Begun') /\ Mods(Animate(s)) = Elements(s)
        BY <1>5, TidyAnimate
      <3>3. todo'[MainThread] = Animate(s) /\ \A t \in SceneThreads \ {MainThread} : todo'[t] = todo[t]
        BY <1>1, <1>3, <3>1 DEF Types
      <3>4. Held'[main] = Elements(s) /\ Tidied(main)'
        BY <1>3, <3>2, <3>3, HeldNext
      <3>5. \A p \in Places \ D : Untouched(p)
        <4> SUFFICES ASSUME NEW p \in Places \ D
                     PROVE  Untouched(p)
          OBVIOUS
        <4>1. CASE \E t \in SceneThreads : p = Todo(t)
          BY <3>3, <4>1 DEF Untouched, Todo
        <4>2. CASE \E w \in PoolWorkers : p = Given(w)
          BY <3>1, <4>2 DEF Untouched, Given
        <4> QED
          BY <4>1, <4>2 DEF Places
      <3>6. /\ \A p \in D : Tidied(p)' /\ Held'[p] \subseteq Union(Held, D) \cup Fresh
            /\ Fresh \cap Waiting = {} /\ Begun' = Begun \cup X /\ X \subseteq Union(Held, D)
        BY <1>4, <1>5, <1>6, <3>4
      <3>7. Apart(Held', D) /\ Union(Held', D) = Elements(s)
        BY <1>6, <3>4 DEF Apart, Union
      <3> HIDE DEF D, main, Fresh, X
      <3>8. ListsInv' /\ Waiting' = (Waiting \ Union(Held, D)) \cup Union(Held', D)
        BY <1>1, <1>3, <3>5, <3>6, <3>7, ListsStep
      <3> QED
        BY <1>4, <1>7, <3>7, <3>8
    <2> QED
      BY <2>1, <2>2
  <1> QED
    BY <1>1, <1>2, <1>8, TreesStill

------------------------------------------------------------------------------
(* A pass begins. *)

LEMMA DueHoldsRoots == session \in Sessions => Elements(roots) \subseteq Due
  BY DueIsLeast

LEMMA DueHoldsRootsNext == (session \in Sessions => Elements(roots) \subseteq Due)'
  BY DueHoldsRoots, PTL

\* The roots of the pass are with the main thread, the client's worker and the table.
Spread ==
    /\ Held'[Todo(MainThread)] \cup Held'[Todo(Client)] \cup Held'[Table] = Elements(roots')
    /\ Held'[Todo(MainThread)] \cap Held'[Todo(Client)] = {}
    /\ Held'[Todo(MainThread)] \cap Held'[Table] = {}
    /\ Held'[Todo(Client)] \cap Held'[Table] = {}
    /\ Tidied(Todo(MainThread))' /\ Tidied(Todo(Client))' /\ Tidied(Table)'

LEMMA SpreadClientsWay ==
    ASSUME Types, NEW s \in Seq(Models), s = roots', Distinct(s), ClientsWay(s), ~deferring, Begun' = {}
    PROVE  Spread
  <1> DEFINE o == AtOdd(s)
             v == AtEven(s)
  <1>1. /\ MainThread \in SceneThreads /\ Client \in SceneThreads /\ MainThread # Client
    BY ThreadFacts
  <1>2. todo'[Client] = Animate(o) /\ todo'[MainThread] = Animate(v) /\ ~deferring'
    BY <1>1 DEF ClientsWay, Types
  <1>3. /\ o \in Seq(Models) /\ v \in Seq(Models) /\ Distinct(o) /\ Distinct(v)
        /\ Elements(o) \cap Elements(v) = {} /\ Elements(o) \cup Elements(v) = Elements(s)
    BY HalvesType, HalvesElements
  <1> HIDE DEF o, v
  <1>4. Elements(o) \cap Begun' = {} /\ Elements(v) \cap Begun' = {}
    OBVIOUS
  <1>5. /\ Tidy(Animate(o), Begun') /\ Mods(Animate(o)) = Elements(o)
        /\ Tidy(Animate(v), Begun') /\ Mods(Animate(v)) = Elements(v)
    BY <1>3, <1>4, TidyAnimate
  <1>6. /\ Held'[Todo(MainThread)] = Elements(v) /\ Held'[Todo(Client)] = Elements(o) /\ Held'[Table] = {}
        /\ Tidied(Todo(MainThread))' /\ Tidied(Todo(Client))' /\ Tidied(Table)'
    BY <1>1, <1>2, <1>5, HeldNext
  <1> QED
    BY <1>3, <1>6 DEF Spread

LEMMA SpreadRecordAll ==
    ASSUME Types, NEW s \in Seq(Models), s = roots', Distinct(s), RecordAll(s), todo[Client] = << >>, Begun' = {}
    PROVE  Spread
  <1> DEFINE all == AtOdd(s) \o AtEven(s)
             fit == IF Len(all) < MaxRoots THEN Len(all) ELSE MaxRoots
             front == SubSeq(all, 1, fit)
             rest == SubSeq(all, fit + 1, Len(all))
  <1>1. /\ MainThread \in SceneThreads /\ Client \in SceneThreads /\ MainThread # Client
    BY ThreadFacts
  <1>2. todo'[Client] = << >> /\ todo'[MainThread] = Animate(rest) /\ deferring' /\ recorded' = front
    BY <1>1 DEF RecordAll, Types
  <1>3. all \in Seq(Models) /\ Distinct(all) /\ Elements(all) = Elements(s)
    <2> DEFINE o == AtOdd(s)
               v == AtEven(s)
    <2>1. /\ o \in Seq(Models) /\ v \in Seq(Models) /\ Distinct(o) /\ Distinct(v)
          /\ Elements(o) \cap Elements(v) = {} /\ Elements(o) \cup Elements(v) = Elements(s)
      BY HalvesType, HalvesElements
    <2> HIDE DEF o, v
    <2>2. o \o v \in Seq(Models) /\ Distinct(o \o v) /\ Elements(o \o v) = Elements(o) \cup Elements(v)
      BY <2>1, DistinctConcat
    <2> QED
      BY <2>1, <2>2 DEF o, v
  <1> HIDE DEF all
  <1>4. /\ Len(all) \in Nat /\ fit \in Nat /\ fit <= Len(all)
        /\ Elements(all) = {all[i] : i \in 1 .. Len(all)}
    BY <1>3, ElementsOf, SceneAssumption
  <1> HIDE DEF fit
  <1>5. /\ front \in Seq(Models) /\ Distinct(front) /\ Elements(front) = {all[i] : i \in 1 .. fit}
    <2> DEFINE z == 0
    <2>1. z \in Nat /\ z <= fit /\ z + 1 = 1
      BY <1>4
    <2> HIDE DEF z
    <2>2. /\ SubSeq(all, z + 1, fit) \in Seq(Models)
          /\ Elements(SubSeq(all, z + 1, fit)) = {all[i] : i \in z + 1 .. fit}
          /\ Distinct(SubSeq(all, z + 1, fit))
      BY <1>3, <1>4, <2>1, StretchElements
    <2> QED
      BY <2>1, <2>2
  <1>6. /\ rest \in Seq(Models) /\ Distinct(rest) /\ Elements(rest) = {all[i] : i \in fit + 1 .. Len(all)}
    <2> DEFINE n == Len(all)
    <2>1. n \in Nat /\ n <= Len(all)
      BY <1>4
    <2> HIDE DEF n
    <2>2. /\ SubSeq(all, fit + 1, n) \in Seq(Models)
          /\ Elements(SubSeq(all, fit + 1, n)) = {all[i] : i \in fit + 1 .. n}
          /\ Distinct(SubSeq(all, fit + 1, n))
      BY <1>3, <1>4, <2>1, StretchElements DEF n
    <2> QED
      BY <2>2 DEF n
  <1> HIDE DEF front, rest
  <1>7. Elements(front) \cup Elements(rest) = Elements(s) /\ Elements(front) \cap Elements(rest) = {}
    <2>1. ASSUME NEW i \in 1 .. fit, NEW j \in fit + 1 .. Len(all)
          PROVE  all[i] # all[j]
      <3>1. i \in 1 .. Len(all) /\ j \in 1 .. Len(all) /\ i # j
        BY <1>4
      <3> QED
        BY <1>3, <3>1 DEF Distinct
    <2>2. 1 .. Len(all) = (1 .. fit) \cup (fit + 1 .. Len(all))
      BY <1>4
    <2>3. Elements(front) \cup Elements(rest) = {all[i] : i \in 1 .. Len(all)}
      BY <1>5, <1>6, <2>2
    <2>4. Elements(front) \cap Elements(rest) = {}
      BY <1>5, <1>6, <2>1
    <2> QED
      BY <1>3, <1>4, <2>3, <2>4
  <1>8. Elements(front) \cap Begun' = {} /\ Elements(rest) \cap Begun' = {}
    OBVIOUS
  <1>9. Tidy(Animate(rest), Begun') /\ Mods(Animate(rest)) = Elements(rest)
    BY <1>6, <1>8, TidyAnimate
  <1>10. /\ Held'[Todo(MainThread)] = Elements(rest) /\ Held'[Todo(Client)] = {}
         /\ Held'[Table] = Elements(front)
         /\ Tidied(Todo(MainThread))' /\ Tidied(Todo(Client))' /\ Tidied(Table)'
    BY <1>1, <1>2, <1>5, <1>8, <1>9, HeldNext, TidyNothing
  <1> QED
    BY <1>7, <1>10 DEF Spread

LEMMA OnceDispatch ==
    ASSUME PassOnceInv, Dispatch, Forest
    PROVE  ListsInv' /\ TreesInv' /\ RootsInv'
  <1>1. Types /\ PoolsInv /\ PassInv /\ JoinMeansDone
    BY SceneImpliesDone DEF PassOnceInv, SceneInv
  <1>2. /\ mpc = "idle" /\ UNCHANGED session /\ UNCHANGED <<share, signal>> /\ animated' = [m \in {} |-> 0]
        /\ faulted' = FALSE
        /\ ClientsWay(roots') \/ RecordAll(roots')
    BY DEF Dispatch, pools
  <1>3. /\ \A t \in SceneThreads : todo[t] = << >>
        /\ active["roots"] = 0 /\ active["kids"] = 0 /\ ~deferring
    BY <1>1, <1>2 DEF JoinMeansDone, PassInv
  <1>4. \A w \in PoolWorkers : ~signal'[w]
    BY <1>1, <1>2, <1>3, NoSignals, ThreadFacts
  <1>5. Begun' = {}
    BY <1>2 DEF Begun
  <1>6. session \in Sessions /\ Distinct(session.roots) /\ session.roots \in Seq(Models)
    BY <1>1, ForestFacts DEF Types
  <1>7. roots' \in Seq(Models) /\ Distinct(roots') /\ Elements(roots') \subseteq Elements(session.roots)
    <2> DEFINE z == 0
               s == session.roots
    <2>1. PICK n \in session.sizes : roots' = SubSeq(s, 1, n)
      BY DEF Dispatch
    <2>2. /\ s \in Seq(Models) /\ Distinct(s) /\ n \in 0 .. Len(s)
          /\ Len(s) \in Nat /\ Elements(s) = {s[i] : i \in 1 .. Len(s)}
      BY <1>6, SceneAssumption, ElementsOf DEF IsSession
    <2>3. z \in Nat /\ z <= n /\ z + 1 = 1 /\ n \in Nat /\ n <= Len(s)
      BY <2>2
    <2> HIDE DEF z, s
    <2>4. /\ SubSeq(s, z + 1, n) \in Seq(Models)
          /\ Elements(SubSeq(s, z + 1, n)) = {s[i] : i \in z + 1 .. n}
          /\ Distinct(SubSeq(s, z + 1, n))
      BY <2>2, <2>3, StretchElements
    <2>5. {s[i] : i \in z + 1 .. n} \subseteq {s[i] : i \in 1 .. Len(s)}
      BY <2>3
    <2> QED
      BY <2>1, <2>2, <2>3, <2>4, <2>5 DEF s
  <1>8. Spread
    <2> DEFINE s == roots'
    <2>1. s \in Seq(Models) /\ s = roots' /\ Distinct(s) /\ (ClientsWay(s) \/ RecordAll(s))
      BY <1>2, <1>7
    <2> HIDE DEF s
    <2>2. CASE ClientsWay(s)
      BY <1>1, <1>3, <1>5, <2>1, <2>2, SpreadClientsWay
    <2>3. CASE RecordAll(s)
      BY <1>1, <1>3, <1>5, <2>1, <2>3, SpreadRecordAll, ThreadFacts
    <2> QED
      BY <2>1, <2>2, <2>3
  <1>9. \A t \in SceneThreads \ {MainThread, Client} : todo'[t] = << >>
    <2> SUFFICES ASSUME NEW t \in SceneThreads \ {MainThread, Client}
                 PROVE  todo'[t] = << >>
      OBVIOUS
    <2>1. todo'[t] = todo[t]
      BY <1>1, <1>2 DEF ClientsWay, RecordAll, Types
    <2> QED
      BY <1>3, <2>1
  <1> DEFINE P == {Todo(MainThread), Todo(Client), Table}
  <1>10. P \subseteq Places
    BY ThreadFacts, PlaceKinds
  <1>11. \A p \in Places \ P : Held'[p] = {} /\ Tidied(p)'
    <2> SUFFICES ASSUME NEW p \in Places \ P
                 PROVE  Held'[p] = {} /\ Tidied(p)'
      OBVIOUS
    <2>1. CASE \E t \in SceneThreads : p = Todo(t)
      BY <1>9, <2>1, HeldNext, TidyNothing
    <2>2. CASE \E w \in PoolWorkers : p = Given(w)
      BY <1>4, <2>2, HeldNext
    <2> QED
      BY <2>1, <2>2 DEF Places
  <1>12. /\ \A p \in P : Tidied(p)'
         /\ \A p, q \in P : p # q => Held'[p] \cap Held'[q] = {}
         /\ \A p \in P : Held'[p] \subseteq Elements(roots')
         /\ \A m \in Elements(roots') : \E p \in P : m \in Held'[p]
    <2>1. \A p \in P : Tidied(p)'
      BY <1>8 DEF Spread
    <2>2. \A p, q \in P : p # q => Held'[p] \cap Held'[q] = {}
      BY <1>8 DEF Spread
    <2>3. \A p \in P : Held'[p] \subseteq Elements(roots')
      BY <1>8 DEF Spread
    <2>4. \A m \in Elements(roots') : \E p \in P : m \in Held'[p]
      BY <1>8 DEF Spread
    <2> QED
      BY <2>1, <2>2, <2>3, <2>4
  <1> HIDE DEF P
  <1>13. Waiting' = Elements(roots')
    <2>1. \A m : m \in Waiting' <=> \E p \in Places : m \in Held'[p]
      BY DEF Waiting, Union
    <2>2. \A m \in Waiting' : m \in Elements(roots')
      BY <1>11, <1>12, <2>1
    <2>3. \A m \in Elements(roots') : m \in Waiting'
      BY <1>10, <1>12, <2>1
    <2> QED
      BY <2>2, <2>3
  <1>14. ListsInv'
    <2>1. \A p \in Places : Tidied(p)'
      BY <1>11, <1>12
    <2>2. \A p, q \in Places : p # q => Held'[p] \cap Held'[q] = {}
      BY <1>11, <1>12
    <2> QED
      BY <2>1, <2>2 DEF ListsInv, Apart
  <1>15. RootsInv'
    BY <1>2, <1>5, <1>7 DEF RootsInv
  <1>16. TreesInv'
    <2>1. \A m : ShownKids(m)' = ShownKids(m)
      BY <1>2 DEF ShownKids, Kids, Shown
    <2>2. \A m : ShownKids(m) \cap Elements(roots') = {}
      BY <1>6, <1>7, ForestFacts
    <2>3. Elements(roots') \subseteq Due'
      BY <1>2, <1>6, DueHoldsRootsNext DEF Elements
    <2>4. Grown(Begun, Waiting)'
      BY <1>5, <1>13, <2>1, <2>2, <2>3 DEF Grown
    <2>5. Whole(Begun, Waiting)'
      BY <1>5, <1>13 DEF Whole
    <2> QED
      BY <2>4, <2>5 DEF TreesInv
  <1> QED
    BY <1>14, <1>15, <1>16

------------------------------------------------------------------------------
(* Every model once. *)

LEMMA InitOnce == SceneInit /\ Forest => PassOnceInv
  <1> SUFFICES ASSUME SceneInit, Forest
               PROVE  PassOnceInv
    OBVIOUS
  <1>1. SceneInv /\ session \in Sessions /\ << >> \in Seq(Models) /\ Distinct(<< >>) /\ Elements(<< >>) = {}
    BY InitScene, NothingElements DEF SceneInit
  <1>2. /\ \A t \in SceneThreads : todo[t] = << >>
        /\ \A w \in PoolWorkers : ~signal[w]
        /\ ~deferring /\ roots = << >> /\ Begun = {}
    BY DEF SceneInit, Begun
  <1>3. \A p \in Places : Held[p] = {} /\ Tidied(p)
    <2> SUFFICES ASSUME NEW p \in Places
                 PROVE  Held[p] = {} /\ Tidied(p)
      OBVIOUS
    <2>1. CASE \E t \in SceneThreads : p = Todo(t)
      BY <1>2, <2>1, HeldThere, TidyNothing
    <2>2. CASE \E w \in PoolWorkers : p = Given(w)
      BY <1>2, <2>2, HeldThere
    <2>3. CASE p = Table
      BY <1>2, <2>3, HeldThere
    <2> QED
      BY <2>1, <2>2, <2>3 DEF Places
  <1>4. ListsInv /\ Waiting = {}
    BY <1>3 DEF ListsInv, Apart, Waiting, Union
  <1>5. RootsInv
    BY <1>1, <1>2 DEF RootsInv
  <1>6. TreesInv
    BY <1>1, <1>2, <1>4 DEF TreesInv, Grown, Whole
  <1> QED
    BY <1>1, <1>4, <1>5, <1>6 DEF PassOnceInv

\* The main thread goes on, or a worker is done: nothing is begun and nothing moves.
LEMMA OnceStill ==
    ASSUME PassOnceInv, UNCHANGED <<session, roots, todo, deferring, recorded, share, signal, animated, faulted>>
    PROVE  ListsInv' /\ TreesInv' /\ RootsInv'
  BY ListsStill, TreesStill DEF PassOnceInv

LEMMA OnceStep ==
    ASSUME PassOnceInv, SceneNext, Forest, Fits
    PROVE  ListsInv' /\ TreesInv' /\ RootsInv'
  <1>1. CASE Dispatch
    BY <1>1, OnceDispatch
  <1>2. CASE ClientWait
    BY <1>2, OnceStill DEF ClientWait, pools
  <1>3. CASE RunRecorded
    BY <1>3, OnceRun
  <1>4. CASE PassDone
    BY <1>4, OnceStill DEF PassDone, pools
  <1>5. ASSUME NEW t \in SceneThreads, Work(t)
        PROVE  ListsInv' /\ TreesInv' /\ RootsInv'
    BY <1>5, OnceAnimate, OnceSerial, OnceBegin, OnceFork, OnceEnd DEF Work
  <1>6. ASSUME NEW w \in PoolWorkers, Wake(w)
        PROVE  ListsInv' /\ TreesInv' /\ RootsInv'
    BY <1>6, OnceWake
  <1>7. ASSUME NEW w \in PoolWorkers, Finish(w)
        PROVE  ListsInv' /\ TreesInv' /\ RootsInv'
    BY <1>7, OnceStill DEF Finish
  <1>8. ASSUME NEW w \in RootWorkers, Fault(w)
        PROVE  ListsInv' /\ TreesInv' /\ RootsInv'
    BY <1>8, OnceFault
  <1> QED
    BY <1>1, <1>2, <1>3, <1>4, <1>5, <1>6, <1>7, <1>8 DEF SceneNext, MainStep

\* What the sessions have to be.
Regular == Quiet /\ Forest /\ Fits

LEMMA NextOnce == (Regular => PassOnceInv) /\ [SceneNext]_sceneVars => (Regular => PassOnceInv)'
  <1> SUFFICES ASSUME Regular => PassOnceInv, [SceneNext]_sceneVars, Regular'
               PROVE  PassOnceInv'
    OBVIOUS
  <1>1. session' = session
    BY SameSession DEF sceneVars
  <1>2. Regular
    <2>1. Quiet
      BY <1>1 DEF Regular, Quiet
    <2>2. Forest
      BY <1>1 DEF Regular, Forest
    <2>3. \A m : Shown(Kids(m))' = Shown(Kids(m))
      BY <1>1 DEF Shown, Kids
    <2>4. Fits
      BY <1>1, <2>3 DEF Regular, Fits
    <2> QED
      BY <2>1, <2>2, <2>4 DEF Regular
  <1>3. PassOnceInv /\ SceneInv /\ Forest /\ Fits
    BY <1>2 DEF PassOnceInv, Regular
  <1>4. SceneInv'
    BY <1>3, NextScene DEF Regular
  <1>5. CASE SceneNext
    BY <1>3, <1>4, <1>5, OnceStep DEF PassOnceInv
  <1>6. CASE UNCHANGED sceneVars
    BY <1>3, <1>4, <1>6, OnceStill DEF PassOnceInv, sceneVars, pools
  <1> QED
    BY <1>5, <1>6

LEMMA OnceIsEachOnce == PassOnceInv => EachOnce
  <1> SUFFICES ASSUME PassOnceInv
               PROVE  EachOnce
    OBVIOUS
  <1>1. SceneInv /\ Types /\ PoolsInv /\ PassInv /\ ListsInv /\ RootsInv /\ TreesInv /\ session \in Sessions
    BY DEF PassOnceInv, SceneInv, Types
  <1>2. \A m \in DOMAIN animated : animated[m] = 1 /\ m \in Due
    BY <1>1 DEF RootsInv, TreesInv, Grown, Begun
  <1>3. ASSUME mpc = "idle", ~faulted
        PROVE  DOMAIN animated = Due
    <2>1. /\ \A t \in SceneThreads : todo[t] = << >>
          /\ active["roots"] = 0 /\ active["kids"] = 0 /\ ~deferring
      BY <1>1, <1>3, SceneImpliesDone DEF JoinMeansDone, PassInv
    <2>2. \A w \in PoolWorkers : ~signal[w]
      BY <1>1, <2>1, NoSignals, ThreadFacts
    <2>3. \A p \in Places : Held[p] = {}
      <3> SUFFICES ASSUME NEW p \in Places
                   PROVE  Held[p] = {}
        OBVIOUS
      <3>1. CASE \E t \in SceneThreads : p = Todo(t)
        BY <2>1, <3>1, HeldThere, TidyNothing
      <3>2. CASE \E w \in PoolWorkers : p = Given(w)
        BY <2>2, <3>2, HeldThere
      <3>3. CASE p = Table
        BY <2>1, <3>3, HeldThere
      <3> QED
        BY <3>1, <3>2, <3>3 DEF Places
    <2>4. Waiting = {}
      BY <2>3 DEF Waiting, Union
    <2>5. Elements(roots) \subseteq Begun /\ \A m \in Begun : ShownKids(m) \subseteq Begun
      BY <1>1, <1>3, <2>4 DEF TreesInv, Whole
    <2>6. Due \subseteq Begun
      BY <1>1, <2>5, DueIsLeast
    <2> QED
      BY <1>2, <2>6 DEF Begun
  <1> QED
    BY <1>2, <1>3 DEF EachOnce

\* No model is animated twice in a pass and none is missed, whatever the models, their
\* trees, the pools, the threads and the order of their steps: the client's halves, the
\* table of recorded roots and the slices of both pools share a list out without
\* overlap or gap, and the children are shared out once, after their parent.  The models
\* form a forest, a pass of the children's pool has room for the children of one model,
\* and there is no fault in it.
THEOREM EachOnceCorrect == SceneSpec => [](Quiet /\ Forest /\ Fits => EachOnce)
  <1>1. SceneInit => (Regular => PassOnceInv)
    BY InitOnce DEF Regular
  <1>2. (Regular => PassOnceInv) => (Quiet /\ Forest /\ Fits => EachOnce)
    BY OnceIsEachOnce DEF Regular
  <1> QED
    BY <1>1, <1>2, NextOnce, PTL DEF SceneSpec
=============================================================================
