------------------------------ MODULE TextureDelay ------------------------------
(***************************************************************************)
(* Delayed texture release (texture_unload_delay.cpp) and the transitions  *)
(* that suspend it: the loading screen (loading_state.cpp, the arena       *)
(* functions of dllmain.cpp, loading_defrag.cpp), the addon's word for it   *)
(* that lua_optimize.cpp polls, and a swap of the Lua state (LuaSwap).     *)
(*                                                                         *)
(* A texture is the address of its HTEXTURE.  The last reference the main  *)
(* thread drops is withheld: the count stays at one until a sweep makes    *)
(* the release, or the client has looked the texture up again.  Other      *)
(* threads look textures up and release them past the hook at any time.    *)
(* Times are what is left of them, in ticks.                               *)
(***************************************************************************)
EXTENDS Naturals, FiniteSets, SequencesExt

CONSTANTS Textures, None,
          MaxDelayed,       \* MAX_DELAYED
          FlushBudget,      \* FLUSH_BUDGET
          Ttl,              \* the five seconds a release is put off
          Grace,            \* the ten seconds after a transition or a swap
          Watchdog,         \* LOADING_WATCHDOG_MS
          SelfCheckAfter,   \* SELF_CHECK_AFTER
          MaxHeld,          \* a bound on the references the client holds to one texture
          MaxRefs,          \* a bound on its count, which reuse leaves too high
          MaxTransitions    \* a bound on loading screens, the addon's too, on swaps and device resets

ASSUME TextureAssumption ==
    /\ None \notin Textures
    /\ {MaxDelayed, FlushBudget, Ttl, Grace, Watchdog, SelfCheckAfter, MaxTransitions} \subseteq Nat
    /\ MaxHeld \in Nat /\ MaxRefs \in Nat

VARIABLES
    refs,           \* the count at offset 4 of the HTEXTURE, 0 where there is none
    held,           \* references the client has
    queue,          \* g_delayedQueue: the texture, and what is left of its five seconds
    queued,         \* g_queued
    todo,           \* toRelease of a sweep or a flush, while it is worked off
    mpc, mtex,      \* the main thread inside Hooked_Texture_Release, and its Block
    decided,        \* g_reused + g_expired, as far as SelfCheckAfter
    reusedAny,      \* g_reused > 0
    selfDisabled,   \* g_selfDisabled
    isLoading,      \* LoadingState's g_isLoading
    loading,        \* LoadingDefrag's g_loadingActive
    watchLeft,      \* what is left of its watchdog
    graceLeft,      \* of the grace after g_lastTransitionEndTick
    swapping,       \* g_isSwapping, g_isReloading
    swapLeft,       \* of the grace after g_lastLuaSwapTick
    addonLoading,   \* LUABOOST_ADDON_LOADING, which the addon sets in the Lua state
    modeLoading,    \* Config.isLoading, what was last read of it
    polling,        \* State.gcOptimized, without which nothing is read
    transitions     \* so far

counts     == <<refs, held>>
delayed    == <<queue, queued>>
main       == <<mpc, mtex, todo>>
judged     == <<decided, reusedAny, selfDisabled>>
swaps      == <<swapping, swapLeft>>
screen     == <<isLoading, loading, watchLeft, graceLeft>>
addon      == <<addonLoading, modeLoading, polling>>
vars == <<counts, delayed, main, judged, screen, swaps, addon, transitions>>

Init ==
    /\ refs = [t \in Textures |-> 0] /\ held = refs
    /\ queue = <<>> /\ queued = {} /\ todo = <<>>
    /\ mpc = "idle" /\ mtex = None
    /\ decided = 0 /\ reusedAny = FALSE /\ selfDisabled = FALSE
    /\ isLoading = FALSE /\ loading = FALSE /\ watchLeft = 0 /\ graceLeft = 0
    /\ swapping = FALSE /\ swapLeft = 0 /\ transitions = 0
    /\ addonLoading = FALSE /\ modeLoading = FALSE /\ polling \in BOOLEAN

------------------------------------------------------------------------------
(* The client. *)

\* Any thread looks a texture up: it is made, or its count goes up.
Acquire(t) ==
    /\ held[t] < MaxHeld /\ refs[t] < MaxRefs
    /\ refs' = [refs EXCEPT ![t] = @ + 1]
    /\ held' = [held EXCEPT ![t] = @ + 1]
    /\ UNCHANGED <<delayed, main, judged, screen, swaps, addon, transitions>>

\* Texture_Release itself: the texture goes with its last reference.
Orig(t) == refs' = [refs EXCEPT ![t] = IF @ > 0 THEN @ - 1 ELSE 0]

\* Another thread releases: the hook passes it on.
OtherRelease(t) ==
    /\ held[t] > 0
    /\ held' = [held EXCEPT ![t] = @ - 1]
    /\ Orig(t)
    /\ UNCHANGED <<delayed, main, judged, screen, swaps, addon, transitions>>

------------------------------------------------------------------------------
(* Hooked_Texture_Release. *)

\* IsLoadingActive: a loading flag older than the watchdog is taken down by
\* whoever asks.
LoadingActive == loading /\ watchLeft > 0
AskLoading == loading' = LoadingActive

\* A transition, or the time after it.
InTransition == LoadingActive \/ swapping \/ graceLeft > 0 \/ swapLeft > 0

\* IsBypassActive: the addon's word counts as well.
Bypassed == InTransition \/ modeLoading

\* Stop queueing once few of enough queued textures were wanted again.
Judge == IF decided >= SelfCheckAfter
         THEN selfDisabled' \in IF reusedAny THEN {selfDisabled, TRUE} ELSE {TRUE}
         ELSE UNCHANGED selfDisabled

\* Mutant: a release that is passed on during a transition flushes.
PassOnFlushing == /\ Bypassed /\ UNCHANGED selfDisabled
                  /\ graceLeft' = Grace

\* Passed on because of a transition.
PassOn == Bypassed /\ UNCHANGED <<selfDisabled, graceLeft>>

\* The main thread releases.  Only a texture about to go is withheld.
Release(t) ==
    /\ mpc = "idle" /\ held[t] > 0
    /\ held' = [held EXCEPT ![t] = @ - 1]
    /\ AskLoading
    /\ \/ PassOn /\ Orig(t) /\ UNCHANGED main
       \/ /\ ~Bypassed /\ refs[t] # 1
          /\ Orig(t) /\ UNCHANGED <<main, selfDisabled, graceLeft>>
       \/ /\ ~Bypassed /\ refs[t] = 1
          /\ Judge
          /\ IF selfDisabled'
             THEN Orig(t) /\ UNCHANGED main
             ELSE mpc' = "queue" /\ mtex' = t /\ UNCHANGED <<refs, todo>>
          /\ UNCHANGED graceLeft
    /\ UNCHANGED <<delayed, decided, reusedAny, isLoading, watchLeft, swaps, addon, transitions>>

\* Under the lock: queued, or released at once when the queue is full.
Queue ==
    /\ mpc = "queue"
    /\ IF Len(queue) < MaxDelayed /\ mtex \notin queued
       THEN /\ queue' = Append(queue, [tex |-> mtex, left |-> Ttl])
            /\ queued' = queued \cup {mtex}
            /\ UNCHANGED refs
       ELSE Orig(mtex) /\ UNCHANGED delayed
    /\ mpc' = "idle" /\ mtex' = None
    /\ UNCHANGED <<held, todo, judged, screen, swaps, addon, transitions>>

------------------------------------------------------------------------------
(* Flush and OnFrame. *)

Textured(entries) == [k \in 1 .. Len(entries) |-> entries[k].tex]

\* Mutant: the releases of the flush stay in the queue.
FlushKeeping(n) == /\ todo' = Textured(SubSeq(queue, 1, IF n < Len(queue) THEN n ELSE Len(queue)))
                   /\ UNCHANGED delayed
                   /\ graceLeft' = Grace

\* Flush: the grace begins, and the oldest n releases are taken out to be made.
Flush(n) ==
    LET take == IF n < Len(queue) THEN n ELSE Len(queue)
    IN  /\ todo' = Textured(SubSeq(queue, 1, take))
        /\ queue' = SubSeq(queue, take + 1, Len(queue))
        /\ queued' = queued \ ToSet(todo')
        /\ graceLeft' = Grace

Work == mpc' = IF todo' # <<>> THEN "release" ELSE "idle"

\* PLAYER_LEAVING_WORLD, outside a loading screen.
LoadingBegin ==
    /\ mpc = "idle" /\ transitions < MaxTransitions
    /\ ~isLoading /\ isLoading' = TRUE
    /\ loading' = TRUE /\ watchLeft' = Watchdog
    /\ Flush(FlushBudget) /\ Work
    /\ transitions' = transitions + 1
    /\ UNCHANGED <<counts, mtex, judged, swaps, addon>>

\* PLAYER_ENTERING_WORLD: alone it opens the screen first, and flushes twice.
LoadingEnd ==
    /\ mpc = "idle" /\ transitions < MaxTransitions
    /\ isLoading' = FALSE
    /\ loading' = FALSE
    /\ Flush(IF isLoading THEN FlushBudget ELSE 2 * FlushBudget) /\ Work
    /\ transitions' = transitions + 1
    /\ UNCHANGED <<counts, mtex, judged, watchLeft, swaps, addon>>

Reused(e)  == refs[e.tex] > 1
Expired(e) == ~Reused(e) /\ e.left = 0

\* The sweep looks at the entries one by one, the oldest first, and compacts the
\* queue: what the client wanted again is dropped, what is old is taken out to be
\* released, the rest moves up.
Swept ==
    LET after[k \in 0 .. Len(queue)] ==
          IF k = 0 THEN [out |-> <<>>, kept |-> <<>>]
          ELSE LET e == queue[k]
                   before == after[k - 1]
               IN  IF Reused(e) THEN before
                   ELSE IF Expired(e) THEN [before EXCEPT !.out = Append(@, e.tex)]
                   ELSE [before EXCEPT !.kept = Append(@, e)]
    IN  after[Len(queue)]

\* Mutant: nothing is swept any more once nothing is queued any more.
SweepWhileQueueing ==
    IF ~selfDisabled
    THEN todo' = Swept.out /\ queue' = Swept.kept
    ELSE todo' = <<>> /\ UNCHANGED queue

Sweep == todo' = Swept.out /\ queue' = Swept.kept

\* The pump asks whether a screen is loading, and OnFrame sweeps.
OnFrame ==
    /\ mpc = "idle"
    /\ AskLoading
    /\ Sweep /\ Work
    /\ queued' = ToSet(Textured(queue'))
    /\ LET n == decided + Len(queue) - Len(queue')
       IN  decided' = IF n < SelfCheckAfter THEN n ELSE SelfCheckAfter
    /\ reusedAny' = (reusedAny \/ \E k \in DOMAIN queue : Reused(queue[k]))
    /\ UNCHANGED <<counts, mtex, selfDisabled, isLoading, watchLeft, graceLeft, swaps, addon, transitions>>

\* ReleaseTexture, outside the lock.
ReleaseTexture ==
    /\ mpc = "release"
    /\ Orig(Head(todo))
    /\ todo' = Tail(todo) /\ Work
    /\ UNCHANGED <<held, delayed, mtex, judged, screen, swaps, addon, transitions>>

\* Discard, when the device goes.
Discard ==
    /\ mpc = "idle" /\ transitions < MaxTransitions
    /\ queue' = <<>> /\ queued' = {}
    /\ transitions' = transitions + 1
    /\ UNCHANGED <<counts, main, judged, screen, swaps, addon>>

------------------------------------------------------------------------------
(* The Lua state, and time. *)

\* A swap is noticed: no addon has spoken in the new state, and until it has
\* settled the collector is nobody's, so nothing is read.
SwapBegin ==
    /\ mpc = "idle" /\ ~swapping /\ transitions < MaxTransitions
    /\ swapping' = TRUE /\ transitions' = transitions + 1
    /\ addonLoading' = FALSE /\ polling' = FALSE
    /\ UNCHANGED <<counts, delayed, main, judged, screen, swapLeft, modeLoading>>

\* It has settled: what was read is forgotten, the interface is written again
\* unless that faults, and the collector is set up or is not.
SwapEnd ==
    /\ mpc = "idle" /\ swapping
    /\ swapping' = FALSE /\ swapLeft' = Grace
    /\ modeLoading' = FALSE /\ addonLoading' \in {FALSE, addonLoading}
    /\ polling' \in BOOLEAN
    /\ UNCHANGED <<counts, delayed, main, judged, screen, transitions>>

\* The state was rebuilt at its address, which is taken for a swap just over.
RebuiltInPlace ==
    /\ mpc = "idle" /\ ~swapping /\ transitions < MaxTransitions
    /\ swapLeft' = Grace /\ transitions' = transitions + 1
    /\ UNCHANGED <<counts, delayed, main, judged, screen, swapping, addon>>

\* The addon, on the main thread, sets its global or clears it.
AddonSpeaks ==
    /\ mpc = "idle"
    /\ IF addonLoading THEN UNCHANGED transitions
       ELSE transitions < MaxTransitions /\ transitions' = transitions + 1
    /\ addonLoading' = ~addonLoading
    /\ UNCHANGED <<counts, delayed, main, judged, screen, swaps, modeLoading, polling>>

\* ReadAddonStateFromLua, as far as the global is another than when it was last
\* read: a loading screen begins or ends for all but LoadingState.
ReadAddonState ==
    /\ mpc = "idle" /\ polling
    /\ addonLoading # modeLoading /\ modeLoading' = addonLoading
    /\ loading' = modeLoading'
    /\ watchLeft' = IF modeLoading' THEN Watchdog ELSE watchLeft
    /\ Flush(FlushBudget) /\ Work
    /\ UNCHANGED <<counts, mtex, judged, isLoading, swaps, addonLoading, polling, transitions>>

\* A step of the collector throws: from then on nothing is stepped, nor read.
CollectorThrows ==
    /\ mpc = "idle" /\ polling /\ polling' = FALSE
    /\ UNCHANGED <<counts, delayed, main, judged, screen, swaps, addonLoading, modeLoading, transitions>>

Down(n) == IF n > 0 THEN n - 1 ELSE 0

Tick ==
    /\ watchLeft' = Down(watchLeft) /\ graceLeft' = Down(graceLeft) /\ swapLeft' = Down(swapLeft)
    /\ queue' = [k \in DOMAIN queue |-> [queue[k] EXCEPT !.left = Down(@)]]
    /\ UNCHANGED <<counts, queued, main, judged, isLoading, loading, swapping, addon, transitions>>

Next == \/ \E t \in Textures : Acquire(t) \/ OtherRelease(t) \/ Release(t)
        \/ Queue \/ ReleaseTexture \/ OnFrame
        \/ LoadingBegin \/ LoadingEnd \/ Discard
        \/ SwapBegin \/ SwapEnd \/ RebuiltInPlace
        \/ AddonSpeaks \/ ReadAddonState \/ CollectorThrows \/ Tick

Spec == Init /\ [][Next]_vars

\* The main thread goes on and comes to the pump between its releases, time
\* passes, a swap settles, and the addon's global is read every so many frames
\* while it is read at all.  A loading screen need not end, and the addon need
\* not take back what it said.
FairSpec == /\ Spec
            /\ WF_vars(Queue) /\ WF_vars(ReleaseTexture) /\ SF_vars(OnFrame)
            /\ WF_vars(Tick) /\ SF_vars(SwapEnd) /\ SF_vars(ReadAddonState)

------------------------------------------------------------------------------
(* Properties. *)

\* The releases of a texture withheld and not yet made.
Withheld(t) == Cardinality({k \in DOMAIN queue : queue[k].tex = t})
               + Cardinality({k \in DOMAIN todo : todo[k] = t})
               + IF mtex = t THEN 1 ELSE 0

\* Every release still to be made has a reference of its own to drop, apart from
\* those the client holds: whatever other threads look up and release between a
\* look at the count and the release, none is made twice and no texture in use
\* goes (OnFrame, Flush, Hooked_Texture_Release).
ReleaseOwnsReference ==
    \A t \in Textures : refs[t] >= held[t] + Withheld(t)

\* "The queue is a delay, not a cache": a release withheld is made, or was taken
\* back by a new owner, also after queueing has stopped itself ("only stops
\* adding") and whatever transitions come (OnFrame, Flush).
DelayEnds == \A t \in Textures : t \in queued ~> t \notin queued

\* When the transitions are over the bypass is: no release may renew it, a
\* loading screen whose end was missed is given up ("the window never closes"),
\* and the addon's word, which no watchdog bounds, holds only while the addon
\* keeps it up or nothing reads it any more (IsBypassActive, Flush,
\* ReadAddonStateFromLua).
WindowCloses ==
    <>[](~loading /\ ~InTransition /\ (modeLoading => addonLoading \/ ~polling))

\* Yet an addon that has taken its word back is not always heard: after a step of
\* the collector has thrown, the bypass stays on until the state is swapped.
AddonIsHeard == <>[]~addonLoading => <>[]~Bypassed

\* Nor does a texture keep references that nobody holds or owes.
NoLeak == \A t \in Textures : refs[t] <= held[t] + Withheld(t)
=============================================================================
