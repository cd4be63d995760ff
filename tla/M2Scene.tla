-------------------------------- MODULE M2Scene --------------------------------
(***************************************************************************)
(* The animation pass over the models of a scene on two fork-join pools:   *)
(* the root models (m2_parallel_roots.cpp) and, from inside the animation  *)
(* of any model, its attached children (m2_parallel_children.cpp).         *)
(*                                                                         *)
(* What a thread still has to do is a stack of items, the animation of a   *)
(* model or its attachment pass; one step takes the top item.  The client  *)
(* splits the roots between its main thread and one worker of its own, and *)
(* that worker and the two pools may all be inside the children's hook at  *)
(* once.                                                                   *)
(***************************************************************************)
EXTENDS Integers, Sequences, FiniteSets

CONSTANTS RootWorkers,   \* threads of the roots' pool, 1, 2, ...
          KidWorkers,    \* threads of the children's pool, named apart from them
          MainThread,    \* the client's main thread
          Client,        \* the client's own M2 worker thread
          MinParallel,   \* kMinParallel
          MaxRoots,      \* kMaxRoots
          MaxTasks,      \* kMaxTasks
          SerialPasses,  \* kSerialPasses
          ProbeEvery,    \* kProbeEvery
          ProbeEnough,   \* kProbeEnough
          Sessions       \* the sessions to look at

\* A session: the roots in the client's order, every model's attached children,
\* those whose attachment is shown, how many roots a pass may have, whether the
\* children's module is on, and what may happen: a worker's fault, an A/B test's
\* OFF stint.
Models == Nat \ {0}
IsSession(s) ==
    /\ s.roots \in Seq(Models) /\ s.sizes \subseteq 0 .. Len(s.roots)
    /\ IsFiniteSet(DOMAIN s.kids) /\ \A m \in DOMAIN s.kids : s.kids[m] \in Seq(Models)
    /\ s.kidsOn \in BOOLEAN /\ s.events \subseteq {"fault", "aside"}

ASSUME SceneAssumption ==
    /\ RootWorkers # {} /\ IsFiniteSet(RootWorkers)
    /\ KidWorkers # {} /\ IsFiniteSet(KidWorkers)
    /\ RootWorkers \cup KidWorkers \subseteq Nat
    /\ RootWorkers \cap KidWorkers = {}
    /\ {MainThread, Client} \cap (RootWorkers \cup KidWorkers) = {} /\ MainThread # Client
    /\ {MinParallel, MaxRoots, MaxTasks, ProbeEvery, ProbeEnough} \subseteq Nat \ {0}
    /\ SerialPasses \in Nat
    /\ \A s \in Sessions : IsSession(s)

PoolWorkers == RootWorkers \cup KidWorkers
SceneThreads == {MainThread, Client} \cup PoolWorkers

VARIABLES
    session,    \* the session
    roots,      \* the roots of this pass
    mpc,        \* where the main thread is in the pass
    todo,       \* what each thread has left to do
    \* the roots' pool
    waits,      \* g_waits, as far as the code tells its values apart
    deferring,  \* g_deferring
    recorded,   \* g_roots: the roots recorded in this pass
    probing,    \* g_probing
    probes,     \* g_probePasses, as far as kProbeEnough
    timed,      \* g_parTimed, as far as kProbeEnough
    retired,    \* g_retired
    \* the children's pool
    poolInUse,  \* g_poolInUse
    detached,   \* the models whose attach list is null for the moment
    \* the workers of both
    share,      \* each worker's slice (g_ranges and what it ranges over)
    signal,     \* each worker's auto-reset event
    working,    \* the workers past their wait
    active,     \* g_active of the roots, g_activeWorkers of the children
    \* observation
    animated,   \* how often a model was animated in this pass
    faulted     \* a worker faulted in this pass

judging   == <<waits, probing, probes, timed>>
pools     == <<share, signal, working, active>>
sceneVars == <<session, roots, mpc, todo, deferring, recorded, judging, retired,
               poolInUse, detached, pools, animated, faulted>>

------------------------------------------------------------------------------
Kids(m)  == IF m \in DOMAIN session.kids THEN session.kids[m] ELSE << >>
Shown(s) ==
    LET first[n \in 0 .. Len(s)] ==
          IF n = 0 THEN << >>
          ELSE IF s[n] \in session.shown THEN Append(first[n - 1], s[n]) ELSE first[n - 1]
    IN  first[Len(s)]

Animate(s) == [i \in 1 .. Len(s) |-> <<"animate", s[i]>>]

\* The contiguous slice of s that goes to participant k of n: base apiece, one
\* more for the first rem.
Slice(s, k, n) ==
    LET base == Len(s) \div n
        rem  == Len(s) % n
        from == (k - 1) * base + (IF k - 1 < rem THEN k - 1 ELSE rem)
        size == base + (IF k <= rem THEN 1 ELSE 0)
    IN  SubSeq(s, from + 1, from + size)

\* A worker's number in its pool, from 1.
Rank(w, pool) == Cardinality({v \in pool : v <= w})

\* As many participants as workers and the calling thread, and items.
Participants(s, pool) ==
    IF Cardinality(pool) + 1 > Len(s) THEN Len(s) ELSE Cardinality(pool) + 1

\* Hand s to the pool: slices, count and events.  The caller keeps the last one.
Fork(s, pool, name) ==
    LET n    == Participants(s, pool)
        used == {w \in pool : Rank(w, pool) < n}
    IN  /\ share' = [w \in PoolWorkers |-> IF w \in used THEN Slice(s, Rank(w, pool), n) ELSE share[w]]
        /\ active' = [active EXCEPT ![name] = n - 1]
        /\ signal' = [w \in PoolWorkers |-> w \in used \/ signal[w]]
        /\ UNCHANGED working
OwnSlice(s, pool) == Slice(s, Participants(s, pool), Participants(s, pool))

------------------------------------------------------------------------------
SceneInit ==
    /\ session \in Sessions
    /\ roots = << >> /\ mpc = "idle" /\ todo = [t \in SceneThreads |-> << >>]
    /\ waits = 0 /\ deferring = FALSE /\ recorded = << >>
    /\ probing = FALSE /\ probes = 0 /\ timed = 0 /\ retired = FALSE
    /\ poolInUse = FALSE /\ detached = {}
    /\ share = [w \in PoolWorkers |-> << >>] /\ signal = [w \in PoolWorkers |-> FALSE]
    /\ working = {} /\ active = [p \in {"roots", "kids"} |-> 0]
    /\ animated = [m \in {} |-> 0] /\ faulted = FALSE

------------------------------------------------------------------------------
(* The pass, on the main thread. *)

AtOdd(s)  == [i \in 1 .. Len(s) \div 2 |-> s[2 * i]]
AtEven(s) == [i \in 1 .. (Len(s) + 1) \div 2 |-> s[2 * i - 1]]

\* The client hands the roots at odd positions (counted from zero) to its worker
\* and animates the others.
ClientsWay(s) ==
    /\ todo' = [todo EXCEPT ![Client] = Animate(AtOdd(s)), ![MainThread] = Animate(AtEven(s))]
    /\ UNCHANGED <<deferring, recorded>>

\* The client's worker callback and main loop only record, in that order; what
\* does not fit the table is animated at once.
RecordAll(s) ==
    LET all == AtOdd(s) \o AtEven(s)
        fit == IF Len(all) < MaxRoots THEN Len(all) ELSE MaxRoots
    IN  /\ deferring' = TRUE
        /\ recorded' = SubSeq(all, 1, fit)
        /\ todo' = [todo EXCEPT ![MainThread] = Animate(SubSeq(all, fit + 1, Len(all)))]

\* Site_Dispatch and the loops after it.
Dispatch ==
    /\ mpc = "idle"
    /\ \E n \in session.sizes : roots' = SubSeq(session.roots, 1, n)
    /\ LET engage == ~retired /\ waits >= SerialPasses
           probe  == waits % ProbeEvery = 0
       IN  \/ /\ ~engage \/ "aside" \in session.events
              /\ ClientsWay(roots')
              /\ UNCHANGED probing
           \/ /\ engage /\ probe
              /\ probing' = TRUE
              /\ ClientsWay(roots')
           \/ /\ engage /\ ~probe
              /\ RecordAll(roots')
              /\ UNCHANGED probing
    /\ mpc' = "loop"
    /\ animated' = [m \in {} |-> 0]
    /\ faulted' = FALSE
    /\ UNCHANGED <<session, waits, probes, timed, retired, poolInUse, detached, pools>>

\* g_waits is compared with SerialPasses and taken modulo ProbeEvery.
NextWait == waits' = IF waits + 1 < SerialPasses + ProbeEvery THEN waits + 1
                     ELSE waits + 1 - ProbeEvery

UpTo(n, bound) == IF n < bound THEN n ELSE bound

\* Judge: whether ours is the slower is the machine's answer.
Judge ==
    IF probes' >= ProbeEnough /\ timed >= ProbeEnough
    THEN retired' \in {retired, TRUE}
    ELSE UNCHANGED retired

\* Site_Wait in a pass the client ran: its worker has finished.
ClientWait ==
    /\ mpc = "loop" /\ todo[MainThread] = << >> /\ ~deferring
    /\ todo[Client] = << >>
    /\ NextWait
    /\ probing' = FALSE
    /\ IF probing /\ Len(roots) >= MinParallel
       THEN /\ probes' = UpTo(probes + 1, ProbeEnough)
            /\ Judge
       ELSE UNCHANGED <<probes, retired>>
    /\ mpc' = "idle"
    /\ UNCHANGED <<session, roots, todo, deferring, recorded, timed, poolInUse, detached, pools,
                   animated, faulted>>

\* Site_Wait in a pass of ours: run the recorded roots, on the pool if they are enough.
RunRecorded ==
    /\ mpc = "loop" /\ todo[MainThread] = << >> /\ deferring
    /\ NextWait
    /\ deferring' = FALSE
    /\ IF Len(recorded) >= MinParallel
       THEN /\ Fork(recorded, RootWorkers, "roots")
            /\ todo' = [todo EXCEPT ![MainThread] = Animate(OwnSlice(recorded, RootWorkers))]
            /\ mpc' = "join"
       ELSE /\ todo' = [todo EXCEPT ![MainThread] = Animate(recorded)]
            /\ mpc' = "solo"
            /\ UNCHANGED pools
    /\ UNCHANGED <<session, roots, recorded, probing, probes, timed, retired, poolInUse, detached,
                   animated, faulted>>

\* Mutant: the wait returns with its own slice.
PassDoneEarly ==
    /\ mpc \in {"join", "solo"} /\ todo[MainThread] = << >>
    /\ timed' = IF mpc = "join" THEN UpTo(timed + 1, ProbeEnough) ELSE timed
    /\ mpc' = "idle"
    /\ UNCHANGED <<session, roots, todo, deferring, recorded, waits, probing, probes, retired,
                   poolInUse, detached, pools, animated, faulted>>

\* Out of Site_Wait: the main thread's own slice is done and no worker is active.
PassDone ==
    /\ mpc \in {"join", "solo"} /\ todo[MainThread] = << >>
    /\ mpc = "join" => active["roots"] = 0
    /\ timed' = IF mpc = "join" THEN UpTo(timed + 1, ProbeEnough) ELSE timed
    /\ mpc' = "idle"
    /\ UNCHANGED <<session, roots, todo, deferring, recorded, waits, probing, probes, retired,
                   poolInUse, detached, pools, animated, faulted>>

------------------------------------------------------------------------------
(* One thread's work. *)

Top(t)     == Head(todo[t])
Times(m)   == IF m \in DOMAIN animated THEN animated[m] ELSE 0
\* What is done with model m is followed by "more".
Go(t, more) == todo' = [todo EXCEPT ![t] = more \o Tail(@)]

\* The animation of a model ends with its attachment pass.
AnimateModel(t) ==
    /\ todo[t] # << >> /\ Top(t)[1] = "animate"
    /\ LET m == Top(t)[2]
       IN  /\ animated' = [k \in DOMAIN animated \cup {m} |-> Times(k) + (IF k = m THEN 1 ELSE 0)]
           /\ Go(t, IF Kids(m) = << >> THEN << >> ELSE <<<<"attach", m>>>>)
    /\ UNCHANGED <<session, roots, mpc, deferring, recorded, judging, retired, poolInUse, detached,
                   pools, faulted>>

\* The client's own attachment pass: the children one after another.  Taken with
\* the module off, fewer than two children, or the pool in use.
AttachSerial(t) ==
    /\ todo[t] # << >> /\ Top(t)[1] = "attach"
    /\ LET m == Top(t)[2]
       IN  /\ ~session.kidsOn \/ Len(Kids(m)) < 2 \/ poolInUse
           /\ Go(t, Animate(Shown(Kids(m))))
    /\ UNCHANGED <<session, roots, mpc, deferring, recorded, judging, retired, poolInUse, detached,
                   pools, animated, faulted>>

\* Mutant: the pool is taken whoever has it.
AttachBeginAnyway(t) ==
    /\ todo[t] # << >> /\ Top(t)[1] = "attach"
    /\ LET m == Top(t)[2]
       IN  /\ session.kidsOn /\ Len(Kids(m)) >= 2
           /\ poolInUse' = TRUE
           /\ detached' = detached \cup {m}
           /\ Go(t, <<<<"tracks", m>>>>)
    /\ UNCHANGED <<session, roots, mpc, deferring, recorded, judging, retired, pools, animated,
                   faulted>>

\* The pool is taken and the attach list hidden from the client's tracks pass.
AttachBegin(t) ==
    /\ todo[t] # << >> /\ Top(t)[1] = "attach"
    /\ LET m == Top(t)[2]
       IN  /\ session.kidsOn /\ Len(Kids(m)) >= 2 /\ ~poolInUse
           /\ poolInUse' = TRUE
           /\ detached' = detached \cup {m}
           /\ Go(t, <<<<"tracks", m>>>>)
    /\ UNCHANGED <<session, roots, mpc, deferring, recorded, judging, retired, pools, animated,
                   faulted>>

\* The tracks are done: put the list back, collect tasks, fork.
Tasks(m) == LET all == Shown(Kids(m))
            IN  SubSeq(all, 1, UpTo(Len(all), MaxTasks))

AttachFork(t) ==
    /\ todo[t] # << >> /\ Top(t)[1] = "tracks"
    /\ LET m     == Top(t)[2]
           tasks == Tasks(m)
       IN  /\ detached' = detached \ {m}
           /\ IF Len(tasks) < 2
              THEN /\ Go(t, Animate(tasks) \o <<<<"release", m>>>>)
                   /\ UNCHANGED pools
              ELSE /\ Fork(tasks, KidWorkers, "kids")
                   /\ Go(t, Animate(OwnSlice(tasks, KidWorkers)) \o <<<<"join", m>>>>)
    /\ UNCHANGED <<session, roots, mpc, deferring, recorded, judging, retired, poolInUse, animated,
                   faulted>>

\* The children are all done: give the pool back.
AttachEnd(t) ==
    /\ todo[t] # << >> /\ Top(t)[1] \in {"join", "release"}
    /\ Top(t)[1] = "join" => active["kids"] = 0
    /\ poolInUse' = FALSE
    /\ Go(t, << >>)
    /\ UNCHANGED <<session, roots, mpc, deferring, recorded, judging, retired, detached, pools,
                   animated, faulted>>

\* A worker's event fires: it takes its slice.
Wake(w) ==
    /\ w \notin working /\ signal[w]
    /\ signal' = [signal EXCEPT ![w] = FALSE]
    /\ working' = working \cup {w}
    /\ todo' = [todo EXCEPT ![w] = Animate(share[w])]
    /\ UNCHANGED <<session, roots, mpc, deferring, recorded, judging, retired, poolInUse, detached,
                   share, active, animated, faulted>>

\* The slice is done: one worker fewer.
Pool(w) == IF w \in RootWorkers THEN "roots" ELSE "kids"

Finish(w) ==
    /\ w \in working /\ todo[w] = << >>
    /\ working' = working \ {w}
    /\ active' = [active EXCEPT ![Pool(w)] = @ - 1]
    /\ UNCHANGED <<session, roots, mpc, todo, deferring, recorded, judging, retired, poolInUse,
                   detached, share, signal, animated, faulted>>

\* Mutant: a worker that faulted waits for its event again without having counted itself.
FaultUncounted(w) ==
    /\ "fault" \in session.events
    /\ w \in working /\ todo[w] # << >> /\ Top(w)[1] \in {"animate", "attach", "tracks"}
    /\ todo' = [todo EXCEPT ![w] = << >>]
    /\ working' = working \ {w}
    /\ retired' = TRUE
    /\ faulted' = TRUE
    /\ UNCHANGED <<session, roots, mpc, deferring, recorded, judging, poolInUse, detached, share,
                   signal, active, animated>>

\* A fault under a worker of the roots' pool is caught outside its slice, which
\* is left where it is; the module retires.  Anywhere else the client crashes.
Fault(w) ==
    /\ "fault" \in session.events
    /\ w \in working /\ todo[w] # << >> /\ Top(w)[1] \in {"animate", "attach", "tracks"}
    /\ todo' = [todo EXCEPT ![w] = << >>]
    /\ retired' = TRUE
    /\ faulted' = TRUE
    /\ UNCHANGED <<session, roots, mpc, deferring, recorded, judging, poolInUse, detached, pools,
                   animated>>

------------------------------------------------------------------------------
MainStep == Dispatch \/ ClientWait \/ RunRecorded \/ PassDone

Work(t) == AnimateModel(t) \/ AttachSerial(t) \/ AttachBegin(t) \/ AttachFork(t) \/ AttachEnd(t)

SceneNext == \/ MainStep
             \/ \E t \in SceneThreads : Work(t)
             \/ \E w \in PoolWorkers : Wake(w) \/ Finish(w)
             \/ \E w \in RootWorkers : Fault(w)

SceneSpec == SceneInit /\ [][SceneNext]_sceneVars

\* Every thread runs; when the client begins a pass is its own affair.
FairSceneSpec ==
    /\ SceneSpec
    /\ WF_sceneVars(ClientWait \/ RunRecorded \/ PassDone)
    /\ \A t \in SceneThreads : WF_sceneVars(Work(t))
    /\ \A w \in PoolWorkers : WF_sceneVars(Wake(w) \/ Finish(w))

------------------------------------------------------------------------------
(* Properties. *)

SceneTypeOK ==
    /\ session \in Sessions
    /\ mpc \in {"idle", "loop", "join", "solo"}
    /\ waits \in 0 .. SerialPasses + ProbeEvery - 1
    /\ probes \in 0 .. ProbeEnough /\ timed \in 0 .. ProbeEnough
    /\ {deferring, probing, retired, poolInUse, faulted} \subseteq BOOLEAN
    /\ working \subseteq PoolWorkers
    /\ active \in [{"roots", "kids"} -> 0 .. Cardinality(PoolWorkers)]

\* The models the client animates in a pass: the roots, and below each model the
\* children whose attachment is shown, as many levels as there may be.
Elements(s) == {s[i] : i \in DOMAIN s}
Below(S)    == S \cup UNION {Elements(Shown(Kids(m))) : m \in S}
Due ==
    LET depth == Cardinality(DOMAIN session.kids)
        level[n \in 0 .. depth] == IF n = 0 THEN Elements(roots) ELSE Below(level[n - 1])
    IN  level[depth]

\* A bone clock advances with every animation, so no model is animated twice in a
\* pass; and when the pass is over each was animated, unless a fault cut it short.
EachOnce ==
    /\ \A m \in DOMAIN animated : animated[m] = 1 /\ m \in Due
    /\ mpc = "idle" /\ ~faulted => DOMAIN animated = Due

\* Between passes nobody animates: the client frees and moves models then, and
\* the children's pool is free with every attach list back in its place.
JoinMeansDone ==
    mpc = "idle" =>
        /\ \A t \in SceneThreads : todo[t] = << >>
        /\ active["roots"] = 0 /\ active["kids"] = 0
        /\ ~poolInUse /\ detached = {}

\* Every pass ends, with both pools forking at once and a faulted worker too.
PassEnds == mpc # "idle" ~> mpc = "idle"
=============================================================================
