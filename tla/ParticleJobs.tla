----------------------------- MODULE ParticleJobs -----------------------------
(***************************************************************************)
(* The particle fill on worker threads (parallel_particles.cpp): the       *)
(* client's main thread cuts an emitter into chunks, publishes them in one *)
(* word, fills chunks itself next to its workers and copies the staged     *)
(* vertices back in order, unless a chunk faulted or a comparison with the *)
(* client's own loop failed.                                               *)
(*                                                                         *)
(* One step is one access to memory another thread can see.  Every such    *)
(* write is an interlocked operation or is followed by one before it       *)
(* matters, so memory is sequentially consistent.  One particle makes one  *)
(* vertex; the bounding box travels with the vertices it encloses.         *)
(***************************************************************************)
EXTENDS Integers, FiniteSets

CONSTANTS NWorkers,     \* g_workers
          GenWord,      \* generations before g_gen wraps (0x7FFFFF + 1)
          Scenarios,    \* the sessions to look at: the emitters the client fills
                        \* and what may go wrong in it
          MinParticles, \* kMinParticles
          MinPerChunk,  \* kMinPerChunk
          Learn,        \* kLearnEmitters
          Resample,     \* kResampleMask + 1
          Odd           \* a vertex that is not the client's

\* An emitter: how many particles, whether a position is NaN and whether its
\* vertices have the layout ReadLayout knows.
Emitter == [count : Nat \ {0}, nan : BOOLEAN, fits : BOOLEAN]

\* A chunk may fault or come out odd, the A/B test may ask to stand aside, the
\* module may be stopped.
Events == {"fault", "odd", "aside", "stop"}

ASSUME ParticleAssumption ==
    /\ NWorkers \in Nat
    /\ GenWord \in Nat /\ GenWord >= 2
    /\ Scenarios \subseteq [emitters : (SUBSET Emitter) \ {{}}, events : SUBSET Events]
    /\ MinParticles \in Nat \ {0} /\ MinPerChunk \in Nat \ {0}
    /\ Learn \in Nat /\ Resample \in Nat \ {0}
    /\ Odd \notin Nat

Workers   == 1 .. NWorkers
Main      == 0
Threads   == {Main} \cup Workers
MaxChunks == NWorkers + 1
Chunks    == 0 .. MaxChunks - 1
Gens      == 0 .. GenWord - 1
ClaimWord == [gen : Gens, chunks : Nat, next : Nat]

NoClaim == [gen |-> 0, chunks |-> 0, next |-> 0]

VARIABLES
    scenario,   \* the session: one of Scenarios
    \* shared words
    claim,      \* g_claim: generation, chunk count, next chunk
    done,       \* g_done
    gen,        \* g_gen
    quit,       \* g_quit
    sleeping,   \* g_sleeping
    wake,       \* the workers' auto-reset events
    \* the job
    job,        \* g_job: emitter, chunk count, and whether it is compared
    out,        \* what each chunk staged, and whether it faulted
    \* threads
    pc,         \* where a thread is
    seen,       \* the generation it runs chunks of
    cur,        \* the claim word it read, while it needs it
    at,         \* how many workers the main thread has looked at
    \* main thread
    dead,       \* g_dead
    checked,    \* g_checked, as far as Learn
    emitters,   \* g_emitters, modulo Resample
    real        \* the vertices in the client's buffer

words  == <<claim, done, gen, quit, sleeping, wake>>
books  == <<dead, checked, emitters>>
vars   == <<scenario, words, job, out, pc, seen, cur, at, books, real>>

------------------------------------------------------------------------------
(* Partition. *)

\* As many chunks as threads, as long as each gets kMinPerChunk particles.
IsChunkCount(n, count) ==
    /\ n = 1 \/ count \div n >= MinPerChunk
    /\ \A m \in n + 1 .. MaxChunks : count \div m < MinPerChunk

Lo(count, n, c) == (count * c) \div n
Particles(count, n, c) == Lo(count, n, c) .. Lo(count, n, c + 1) - 1

\* The client's loop.
ClientFill(e) == [i \in 0 .. e.count - 1 |-> i]

\* What a chunk that came to its end staged for each of its particles.
Staged(c) == [i \in Particles(job.em.count, job.chunks, c) |-> i]

JobChunks == 0 .. job.chunks - 1
Faulted   == \E c \in JobChunks : out[c].fault
Differs   == \E c \in JobChunks : out[c].vs # Staged(c)

\* The chunks copied one after another.
Assembled ==
    [i \in 0 .. job.em.count - 1 |->
        out[CHOOSE c \in JobChunks : i \in Particles(job.em.count, job.chunks, c)].vs[i]]

\* Nothing staged for this job: what earlier jobs left there is not told apart.
Unfilled == [vs |-> << >>, fault |-> FALSE]

------------------------------------------------------------------------------
Init ==
    /\ scenario \in Scenarios
    /\ claim = NoClaim
    /\ done = 0 /\ gen = 0 /\ quit = FALSE
    /\ sleeping = [w \in Workers |-> FALSE] /\ wake = [w \in Workers |-> FALSE]
    /\ job = [em |-> CHOOSE e \in scenario.emitters : TRUE, chunks |-> 0, compared |-> FALSE]
    /\ out = [c \in Chunks |-> Unfilled]
    /\ pc = [t \in Threads |-> IF t = Main THEN "idle" ELSE "poll"]
    /\ seen = [t \in Threads |-> 0]
    /\ cur = [t \in Threads |-> NoClaim]
    /\ at = 0
    /\ dead = FALSE /\ checked = 0 /\ emitters = 0
    /\ real = << >>

------------------------------------------------------------------------------
(* The main thread takes an emitter. *)

CountEmitter == emitters' = (emitters + 1) % Resample

\* The client's own loop: the A/B test's OFF stints, a retired module, a small
\* emitter, no worker, or a layout the staging areas do not handle.
FillAlone(e) ==
    /\ pc[Main] = "idle" /\ ~quit
    /\ \/ "aside" \in scenario.events
       \/ dead \/ e.count < MinParticles \/ NWorkers = 0 \/ ~e.fits
    /\ CountEmitter
    /\ real' = ClientFill(e)
    /\ UNCHANGED <<scenario, words, job, out, pc, seen, cur, at, dead, checked>>

\* Parallel prepares the job, for a buffer the client has just locked; RunJob
\* clears the count of chunks done.
Prepare(e) ==
    /\ pc[Main] = "idle" /\ ~quit
    /\ ~dead /\ e.count >= MinParticles /\ NWorkers > 0 /\ e.fits
    /\ CountEmitter
    /\ \E n \in 1 .. MaxChunks :
         /\ IsChunkCount(n, e.count)
         /\ job' = [em |-> e, chunks |-> n, compared |-> checked < Learn \/ emitters' = 0]
    /\ real' = << >>
    /\ done' = 0
    /\ pc' = [pc EXCEPT ![Main] = "claim"]
    /\ UNCHANGED <<scenario, claim, gen, quit, sleeping, wake, out, seen, cur, at, dead, checked>>

\* RunJob: the claim word first, the generation the workers poll after it.
PublishClaim ==
    /\ pc[Main] = "claim"
    /\ claim' = [gen |-> (gen + 1) % GenWord, chunks |-> job.chunks, next |-> 0]
    /\ pc' = [pc EXCEPT ![Main] = "gen"]
    /\ UNCHANGED <<scenario, done, gen, quit, sleeping, wake, job, out, seen, cur, at, books, real>>

PublishGen ==
    /\ pc[Main] = "gen"
    /\ gen' = (gen + 1) % GenWord
    /\ seen' = [seen EXCEPT ![Main] = (gen + 1) % GenWord]
    /\ at' = 0
    /\ pc' = [pc EXCEPT ![Main] = "call"]
    /\ UNCHANGED <<scenario, claim, done, quit, sleeping, wake, job, out, cur, books, real>>

\* One turn of the loop that wakes the sleepers.
CallSleeper ==
    /\ pc[Main] = "call" /\ at < NWorkers
    /\ at' = at + 1
    /\ sleeping' = [sleeping EXCEPT ![at + 1] = FALSE]
    /\ wake' = [wake EXCEPT ![at + 1] = @ \/ sleeping[at + 1]]
    /\ UNCHANGED <<scenario, claim, done, gen, quit, job, out, pc, seen, cur, books, real>>

\* Mutant: the count of chunks done is cleared when the workers may run already.
ClearedLate ==
    /\ pc[Main] = "call" /\ at = NWorkers
    /\ done' = 0
    /\ pc' = [pc EXCEPT ![Main] = "look"]
    /\ UNCHANGED <<scenario, claim, gen, quit, sleeping, wake, job, out, seen, cur, at, books, real>>

AllCalled ==
    /\ pc[Main] = "call" /\ at = NWorkers
    /\ pc' = [pc EXCEPT ![Main] = "look"]
    /\ UNCHANGED <<scenario, words, job, out, seen, cur, at, books, real>>

------------------------------------------------------------------------------
(* RunChunks, on any thread. *)

\* Where a thread goes when no chunk of its generation is left.
Home(t) == IF t = Main THEN "join" ELSE "poll"

\* Read the claim word.
Look(t) ==
    /\ pc[t] = "look"
    /\ IF claim.gen = seen[t] /\ claim.next < claim.chunks
       THEN /\ cur' = [cur EXCEPT ![t] = claim]
            /\ pc' = [pc EXCEPT ![t] = "cas"]
       ELSE /\ pc' = [pc EXCEPT ![t] = Home(t)]
            /\ UNCHANGED cur
    /\ UNCHANGED <<scenario, words, job, out, seen, at, books, real>>

\* Mutant: the chunk is taken with a plain store.
ClaimUnchecked(t) ==
    /\ pc[t] = "cas"
    /\ claim' = [cur[t] EXCEPT !.next = @ + 1]
    /\ pc' = [pc EXCEPT ![t] = "fill"]
    /\ UNCHANGED <<scenario, done, gen, quit, sleeping, wake, job, out, seen, cur, at, books, real>>

\* The compare-exchange: take the chunk, or look again.
Claim(t) ==
    /\ pc[t] = "cas"
    /\ IF claim = cur[t]
       THEN /\ claim' = [claim EXCEPT !.next = @ + 1]
            /\ pc' = [pc EXCEPT ![t] = "fill"]
            /\ UNCHANGED cur
       ELSE /\ pc' = [pc EXCEPT ![t] = "look"]
            /\ cur' = [cur EXCEPT ![t] = NoClaim]
            /\ UNCHANGED claim
    /\ UNCHANGED <<scenario, done, gen, quit, sleeping, wake, job, out, seen, at, books, real>>

\* Bound: one chunk of a job goes wrong.
SoFarSound == \A c \in Chunks : ~out[c].fault /\ \A i \in DOMAIN out[c].vs : out[c].vs[i] # Odd

\* FillChunk and its report: the client's vertices, odd ones, or a fault.  The
\* staging area is nobody else's until the count of chunks done says so.
Fill(t) ==
    LET c == cur[t].next
    IN  /\ pc[t] = "fill"
        /\ \/ out' = [out EXCEPT ![c] = [vs |-> Staged(c), fault |-> FALSE]]
           \/ /\ "odd" \in scenario.events /\ SoFarSound
              /\ out' = [out EXCEPT ![c] = [vs |-> [i \in DOMAIN Staged(c) |-> Odd],
                                            fault |-> FALSE]]
           \/ /\ "fault" \in scenario.events /\ SoFarSound
              /\ out' = [out EXCEPT ![c].fault = TRUE]
        /\ done' = done + 1
        /\ cur' = [cur EXCEPT ![t] = NoClaim]
        /\ pc' = [pc EXCEPT ![t] = "look"]
        /\ UNCHANGED <<scenario, claim, gen, quit, sleeping, wake, job, seen, at, books, real>>

------------------------------------------------------------------------------
(* The main thread takes the answer. *)

\* Mutant: a fault is not looked for.
CollectTrusting ==
    /\ pc[Main] = "join" /\ done >= job.chunks
    /\ pc' = [pc EXCEPT ![Main] = "idle"]
    /\ real' = IF job.em.nan \/ job.compared THEN ClientFill(job.em) ELSE Assembled
    /\ out' = [c \in Chunks |-> Unfilled]
    /\ UNCHANGED <<scenario, words, job, seen, cur, at, books>>

\* Every chunk is done: look for faults and NaNs, compare when it is due, put
\* the answer in the client's buffer.
Collect ==
    /\ pc[Main] = "join" /\ done >= job.chunks
    /\ pc' = [pc EXCEPT ![Main] = "idle"]
    /\ IF Faulted \/ job.em.nan
       THEN /\ real' = ClientFill(job.em)
            /\ dead' = (dead \/ Faulted)
            /\ UNCHANGED checked
       ELSE IF job.compared
       THEN /\ real' = ClientFill(job.em)
            /\ dead' = (dead \/ Differs)
            /\ checked' = IF checked < Learn THEN checked + 1 ELSE checked
       ELSE /\ real' = Assembled
            /\ UNCHANGED <<dead, checked>>
    /\ out' = [c \in Chunks |-> Unfilled]
    /\ UNCHANGED <<scenario, words, job, seen, cur, at, emitters>>

\* Mutant: the first worker's event is passed over.
ShutdownFromSecond ==
    /\ "stop" \in scenario.events
    /\ pc[Main] = "idle" /\ ~quit
    /\ quit' = TRUE
    /\ at' = 1
    /\ pc' = [pc EXCEPT ![Main] = "stop"]
    /\ UNCHANGED <<scenario, claim, done, gen, sleeping, wake, job, out, seen, cur, books, real>>

\* Shutdown sets the flag, then every event, asleep or not.
Shutdown ==
    /\ "stop" \in scenario.events
    /\ pc[Main] = "idle" /\ ~quit
    /\ quit' = TRUE
    /\ at' = 0
    /\ pc' = [pc EXCEPT ![Main] = "stop"]
    /\ UNCHANGED <<scenario, claim, done, gen, sleeping, wake, job, out, seen, cur, books, real>>

StopCall ==
    /\ pc[Main] = "stop" /\ at < NWorkers
    /\ at' = at + 1
    /\ wake' = [wake EXCEPT ![at + 1] = TRUE]
    /\ UNCHANGED <<scenario, claim, done, gen, quit, sleeping, job, out, pc, seen, cur, books, real>>

------------------------------------------------------------------------------
(* A worker between jobs. *)

\* Out of the spin, or of the sleep that never began: return on the flag, else
\* run chunks of the generation read now.
Awake(w) ==
    /\ pc[w] = "awake" \/ (pc[w] = "poll" /\ (gen # seen[w] \/ quit))
    /\ IF quit
       THEN /\ pc' = [pc EXCEPT ![w] = "exited"]
            /\ UNCHANGED seen
       ELSE /\ pc' = [pc EXCEPT ![w] = "look"]
            /\ seen' = [seen EXCEPT ![w] = gen]
    /\ UNCHANGED <<scenario, words, job, out, cur, at, books, real>>

\* kSpins turns found nothing; the last of them may be out of date by now.
Arm(w) ==
    /\ pc[w] = "poll"
    /\ sleeping' = [sleeping EXCEPT ![w] = TRUE]
    /\ pc' = [pc EXCEPT ![w] = "recheck"]
    /\ UNCHANGED <<scenario, claim, done, gen, quit, wake, job, out, seen, cur, at, books, real>>

\* Mutant: to sleep without looking again.
SleepAtOnce(w) ==
    /\ pc[w] = "recheck"
    /\ pc' = [pc EXCEPT ![w] = "wait"]
    /\ UNCHANGED <<scenario, words, job, out, seen, cur, at, books, real>>

Recheck(w) ==
    /\ pc[w] = "recheck"
    /\ IF gen # seen[w] \/ quit
       THEN /\ sleeping' = [sleeping EXCEPT ![w] = FALSE]
            /\ pc' = [pc EXCEPT ![w] = "awake"]
       ELSE /\ pc' = [pc EXCEPT ![w] = "wait"]
            /\ UNCHANGED sleeping
    /\ UNCHANGED <<scenario, claim, done, gen, quit, wake, job, out, seen, cur, at, books, real>>

\* The event fires and resets itself.
Wait(w) ==
    /\ pc[w] = "wait" /\ wake[w]
    /\ wake' = [wake EXCEPT ![w] = FALSE]
    /\ pc' = [pc EXCEPT ![w] = "woken"]
    /\ UNCHANGED <<scenario, claim, done, gen, quit, sleeping, job, out, seen, cur, at, books, real>>

Woken(w) ==
    /\ pc[w] = "woken"
    /\ sleeping' = [sleeping EXCEPT ![w] = FALSE]
    /\ pc' = [pc EXCEPT ![w] = "poll"]
    /\ UNCHANGED <<scenario, claim, done, gen, quit, wake, job, out, seen, cur, at, books, real>>

------------------------------------------------------------------------------
MainNext ==
    \/ \E e \in scenario.emitters : FillAlone(e) \/ Prepare(e)
    \/ PublishClaim \/ PublishGen \/ CallSleeper \/ AllCalled
    \/ Collect \/ Shutdown \/ StopCall

WorkerNext(w) == Awake(w) \/ Arm(w) \/ Recheck(w) \/ Wait(w) \/ Woken(w)

RunChunks(t) == Look(t) \/ Claim(t) \/ Fill(t)

Next == \/ MainNext
        \/ \E t \in Threads : RunChunks(t)
        \/ \E w \in Workers : WorkerNext(w)

Spec == Init /\ [][Next]_vars

\* Threads are scheduled: the main thread inside a job or a shutdown, and every
\* worker.  Nothing is assumed of when the client fills an emitter or stops.
FairSpec ==
    /\ Spec
    /\ WF_vars(PublishClaim \/ PublishGen \/ CallSleeper \/ AllCalled \/ Collect \/ StopCall)
    /\ WF_vars(RunChunks(Main))
    /\ \A w \in Workers : WF_vars(RunChunks(w) \/ WorkerNext(w))

------------------------------------------------------------------------------
(* Properties. *)

Points == {"idle", "claim", "gen", "call", "look", "cas", "fill", "join", "stop",
           "poll", "recheck", "wait", "woken", "awake", "exited"}

TypeOK ==
    /\ scenario \in Scenarios
    /\ claim \in ClaimWord /\ done \in Nat
    /\ gen \in Gens /\ quit \in BOOLEAN
    /\ sleeping \in [Workers -> BOOLEAN] /\ wake \in [Workers -> BOOLEAN]
    /\ job \in [em : scenario.emitters, chunks : 0 .. MaxChunks, compared : BOOLEAN]
    /\ DOMAIN out = Chunks
    /\ pc \in [Threads -> Points] /\ seen \in [Threads -> Gens]
    /\ cur \in [Threads -> ClaimWord] /\ at \in 0 .. NWorkers
    /\ dead \in BOOLEAN /\ checked \in 0 .. Learn /\ emitters \in 0 .. Resample - 1

\* The main thread is inside RunJob with the claim word published.
Running == pc[Main] \in {"gen", "call", "look", "cas", "fill", "join"}

Filling(t) == pc[t] = "fill"

\* A chunk is filled by one thread, it is a chunk of the job the main thread
\* waits for, and no chunk is filled once RunJob has returned, so the next job
\* may overwrite the parameters and the staging areas (the claim word's reason).
OneFiller ==
    \A t \in Threads : Filling(t) =>
        /\ Running
        /\ cur[t].next \in JobChunks
        /\ \A u \in Threads \ {t} : Filling(u) => cur[u].next # cur[t].next

\* No worker sleeps through a job: it has not seen the generation only while its
\* event is set or the main thread has yet to look at its sleeping flag.
NoSleepThrough ==
    \A w \in Workers :
        pc[w] = "wait" /\ gen # seen[w] =>
            wake[w] \/ (pc[Main] = "call" /\ at < w /\ sleeping[w])

\* When the main thread goes back to the client, the buffer holds what the
\* client's own loop would have left there.  A vertex that is not the client's
\* gets there only from a fill that was not compared, and a fault or a
\* difference found by comparing has retired the module.
FillIsClients ==
    [][pc[Main] = "join" /\ pc'[Main] = "idle" =>
         /\ DOMAIN real' = 0 .. job.em.count - 1
         /\ \A i \in DOMAIN real' : real'[i] = i \/ (real'[i] = Odd /\ ~job.compared)
         /\ Faulted \/ (job.compared /\ ~job.em.nan /\ Differs) => dead']_vars

\* RunJob returns, whatever the workers were doing when it began.
JobEnds == Running ~> pc[Main] = "idle"

\* Every worker returns after Shutdown, asleep or between its looks at the flag.
StopEnds == quit ~> \A w \in Workers : pc[w] = "exited"
=============================================================================
