-------------------------------- MODULE LuaSwap --------------------------------
(***************************************************************************)
(* The client's Lua state as the module keeps track of it                  *)
(* (lua_optimize.cpp).  The client destroys its lua_State and creates      *)
(* another on every UI reload and character switch, at a new address or at *)
(* the old one; OnMainThreadSleep notices by the pointer, or on a timer by *)
(* a marker gone from the globals, waits for the new state to settle and   *)
(* takes it over.  Everything is on the main thread: what interleaves is   *)
(* the client's own doings with the Sleep calls.                           *)
(*                                                                         *)
(* Of the globals the module writes into the state, two are kept: the      *)
(* marker LUABOOST_DLL_LOADED and LUABOOST_DLL_GC_ACTIVE, which tells the  *)
(* companion addon who steps the collector.                                *)
(***************************************************************************)
EXTENDS Naturals, FiniteSets

CONSTANTS Addresses,     \* where the client's Lua pool puts a state
          None,
          SettleFrames,  \* LUA_RELOAD_SETTLE_FRAMES
          SettleTicks,   \* LUA_RELOAD_SETTLE_MS
          MarkerTicks,   \* the 2000 ms between two looks at the marker
          TornTicks,     \* how long a state may live on with its globals torn down
          MaxReloads,    \* a bound on the states the client creates after the first
          Scenarios      \* where the first state is, if it is there, and what may happen

ASSUME LuaSwapAssumption ==
    /\ None \notin Addresses
    /\ {SettleFrames, SettleTicks, MarkerTicks, TornTicks, MaxReloads} \subseteq Nat
    /\ TornTicks < MarkerTicks
    /\ Scenarios \subseteq [first : Addresses \cup {None},
                            events : SUBSET {"inplace", "back", "fault"}]

VARIABLES
    scenario,
    \* the client
    addr,          \* the lua_State pointer of the client, or None
    loaded,        \* LUABOOST_DLL_LOADED in that state
    gcActive,      \* LUABOOST_DLL_GC_ACTIVE in that state: "unset", "true" or "false"
    autoGc,        \* its automatic collector runs
    torn,          \* its globals are torn down, it is about to go
    lost,          \* (observed) and a marker nobody had missed went with them
    reloads,       \* states created after the first
    \* the module
    luaInit,       \* g_luaInitState
    initialized,   \* State.initialized
    apiL,          \* Api.L
    gcOptimized,   \* State.gcOptimized
    published,     \* g_publishedGcActive: "none" for -1, "true", "false"
    swapping,      \* g_isSwapping, g_isReloading
    pendingState,  \* g_pendingLuaState
    frames,        \* g_pendingLuaStateFrames, as far as SettleFrames
    missingOn,     \* s_missingOn
    missingSeen,   \* s_missingSeen
    pendingInject, \* g_pendingInjectState
    injected,      \* g_frameScriptInjected
    \* time left: until the state has settled, until the next look at the
    \* marker, until a torn-down state is gone
    settleLeft, markerLeft, tornLeft

client  == <<scenario, addr, autoGc, torn, lost, reloads, tornLeft>>
globals == <<loaded, gcActive>>
gc      == <<gcOptimized, published>>
pending == <<pendingState, frames, settleLeft>>
marker  == <<missingOn, missingSeen, markerLeft>>
inject  == <<pendingInject, injected>>
own     == <<luaInit, initialized, apiL, swapping>>
swapVars    == <<client, globals, gc, pending, marker, inject, own>>

SwapInit ==
    /\ scenario \in Scenarios
    /\ addr = scenario.first
    /\ loaded = FALSE /\ gcActive = "unset" /\ autoGc = TRUE /\ torn = FALSE
    /\ lost = FALSE /\ reloads = 0
    /\ luaInit = 1 /\ initialized = FALSE /\ apiL = None
    /\ gcOptimized = FALSE /\ published = "none" /\ swapping = FALSE
    /\ pendingState = None /\ frames = 0
    /\ missingOn = None /\ missingSeen = 0
    /\ pendingInject = None /\ injected = FALSE
    /\ settleLeft = 0 /\ markerLeft = 0 /\ tornLeft = 0

------------------------------------------------------------------------------
(* The client. *)

\* The pool gives back the address of the state before, or the one the module
\* still believes in while another is settling, only in the sessions that say so.
MayBeAt(a) ==
    /\ a = addr => "inplace" \in scenario.events
    /\ a = apiL /\ addr # apiL => "back" \in scenario.events

\* A state is created, the first or after the old one was destroyed.
NewState(a) ==
    /\ MayBeAt(a)
    /\ addr # None => reloads < MaxReloads
    /\ addr' = a
    /\ loaded' = FALSE /\ gcActive' = "unset" /\ autoGc' = TRUE
    /\ torn' = FALSE /\ lost' = FALSE /\ tornLeft' = 0
    /\ reloads' = IF addr = None THEN reloads ELSE reloads + 1
    /\ UNCHANGED <<scenario, gc, pending, marker, inject, own>>

\* A reload tears the globals down a moment before the state goes.
TearDown ==
    /\ addr # None /\ ~torn /\ reloads < MaxReloads
    /\ torn' = TRUE /\ lost' = (loaded /\ missingSeen = 0) /\ tornLeft' = TornTicks
    /\ loaded' = FALSE /\ gcActive' = "unset"
    /\ UNCHANGED <<scenario, addr, autoGc, reloads, gc, pending, marker, inject, own>>

\* Hooked_FrameScript_Execute: the markers go in before addon code runs.
FrameScriptExecute ==
    /\ initialized /\ addr # None /\ ~torn
    /\ addr = pendingInject \/ ~loaded
    /\ ~injected
    /\ injected' = TRUE /\ pendingInject' = addr
    /\ loaded' = TRUE
    /\ UNCHANGED <<client, gcActive, gc, pending, marker, own>>

Down(n) == IF n > 0 THEN n - 1 ELSE 0

Tick ==
    /\ settleLeft + markerLeft + tornLeft > 0
    /\ torn => tornLeft > 0
    /\ settleLeft' = Down(settleLeft) /\ markerLeft' = Down(markerLeft) /\ tornLeft' = Down(tornLeft)
    /\ UNCHANGED <<scenario, addr, autoGc, torn, lost, reloads, globals, gc, pendingState, frames,
                   missingOn, missingSeen, inject, own>>

------------------------------------------------------------------------------
(* OnMainThreadSleep. *)

\* OptimizeGC: pause and step set, the automatic collector stopped.  It may
\* fault, before or after that.
OptimizeGC ==
    \/ gcOptimized' = TRUE /\ autoGc' = FALSE
    \/ /\ "fault" \in scenario.events
       /\ gcOptimized' = FALSE
       /\ autoGc' \in {autoGc, FALSE}

Say(b) == IF b THEN "true" ELSE "false"

\* Mutant: the figure goes out only while the module steps the collector.
PublishWhileStepping ==
    IF published = Say(gcOptimized) \/ ~gcOptimized
    THEN UNCHANGED <<published, gcActive>>
    ELSE published' = Say(gcOptimized) /\ gcActive' = Say(gcOptimized)

\* PublishGcActive: written on change.
PublishGcActive ==
    IF published = Say(gcOptimized)
    THEN UNCHANGED <<published, gcActive>>
    ELSE published' = Say(gcOptimized) /\ gcActive' = Say(gcOptimized)

\* SetupLuaInterface, UpdateLuaStats: the markers as they are now.  In a take-over
\* the one, before OptimizeGC, is followed by PublishGcActive.
SetupLuaInterface == loaded' = TRUE /\ gcActive' = Say(gcOptimized')
UpdateLuaStats    == gcActive' = Say(gcOptimized')

\* DoMainThreadInit, on the first Sleep after PrepareFromWorkerThread.
FirstInit ==
    /\ luaInit = 1 /\ addr # None
    /\ luaInit' = 2 /\ initialized' = TRUE
    /\ apiL' = addr
    /\ OptimizeGC
    /\ SetupLuaInterface
    /\ pendingState' = None /\ frames' = 0 /\ settleLeft' = 0
    /\ UNCHANGED <<scenario, addr, torn, lost, reloads, tornLeft, published, marker, inject, swapping>>

\* The same with no lua_State yet: "Will retry on next frame".
FirstInitTooEarly ==
    /\ luaInit = 1 /\ addr = None
    /\ luaInit' = 0 /\ initialized' = FALSE /\ apiL' = None
    /\ UNCHANGED <<client, globals, gc, pending, marker, inject, swapping>>

Watching == luaInit = 2 /\ initialized /\ apiL # None /\ addr # None

\* The pointer changed: flags up, caches dropped, markers written, and wait.
Detect ==
    /\ Watching /\ addr # apiL /\ addr # pendingState
    /\ pendingState' = addr /\ frames' = 1 /\ settleLeft' = SettleTicks
    /\ swapping' = TRUE
    /\ gcOptimized' = FALSE
    /\ pendingInject' = addr /\ injected' = FALSE
    /\ loaded' = TRUE /\ gcActive' = "false"
    /\ UNCHANGED <<client, published, marker, luaInit, initialized, apiL>>

More(n) == IF n < SettleFrames THEN n + 1 ELSE n

Settling ==
    /\ Watching /\ addr # apiL /\ addr = pendingState
    /\ frames' = More(frames)
    /\ frames' < SettleFrames \/ settleLeft > 0
    /\ UNCHANGED <<client, globals, gc, pendingState, settleLeft, marker, inject, own>>

\* Settled: set up again, the collector's owner published, flags down.
TakeOver ==
    /\ Watching /\ addr # apiL /\ addr = pendingState
    /\ More(frames) >= SettleFrames /\ settleLeft = 0
    /\ pendingState' = None /\ frames' = 0
    /\ apiL' = addr
    /\ OptimizeGC
    /\ SetupLuaInterface
    /\ published' = Say(gcOptimized')
    /\ swapping' = FALSE
    /\ UNCHANGED <<scenario, addr, torn, lost, reloads, tornLeft, settleLeft, marker, inject,
                   luaInit, initialized>>

\* Mutants: one look is believed; what is believed is not acted on.
RebuiltAtOnce(gone)  == gone
RebuiltNever(gone)   == FALSE

\* The marker missed twice in a row on one state: the state was rebuilt in place.
Rebuilt(gone) == gone /\ missingOn = addr /\ missingSeen + 1 >= 2

\* A look at the marker, every MarkerTicks.
LookForMarker ==
    IF markerLeft > 0
    THEN UNCHANGED <<marker, inject>>
    ELSE LET gone == ~swapping /\ ~loaded
         IN  /\ markerLeft' = MarkerTicks
             /\ IF Rebuilt(gone)
                THEN /\ missingOn' = None /\ missingSeen' = 0
                     /\ pendingInject' = addr /\ injected' = FALSE
                ELSE /\ missingOn' = IF gone THEN addr ELSE None
                     /\ missingSeen' = IF gone THEN 1 ELSE 0
                     /\ UNCHANGED inject

\* An ordinary Sleep on the state the module knows.  A step of the collector may
\* fault, and is the last then.  While the module steps, the stats are written now
\* and then, after the step.
Steady ==
    /\ Watching /\ addr = apiL
    /\ LookForMarker
    /\ pendingState' = None /\ frames' = 0 /\ settleLeft' = 0
    /\ \/ UNCHANGED gcOptimized
       \/ /\ "fault" \in scenario.events /\ gcOptimized /\ ~swapping
          /\ gcOptimized' = FALSE
    /\ \/ PublishGcActive
       \/ gcOptimized /\ published' = Say(gcOptimized) /\ UpdateLuaStats
    /\ UNCHANGED <<client, loaded, own>>

Sleep == FirstInit \/ FirstInitTooEarly \/ Detect \/ Settling \/ TakeOver \/ Steady

------------------------------------------------------------------------------
SwapNext == \/ \E a \in Addresses : NewState(a)
        \/ TearDown \/ FrameScriptExecute \/ Tick \/ Sleep

SwapSpec == SwapInit /\ [][SwapNext]_swapVars

\* The client goes on: it sleeps every frame, time passes, scripts run, and the
\* first state, or the one after a torn-down state, does come.
FairSwapSpec ==
    /\ SwapSpec
    /\ WF_swapVars(Sleep) /\ WF_swapVars(Tick) /\ WF_swapVars(FrameScriptExecute)
    /\ WF_swapVars((addr = None \/ torn) /\ \E a \in Addresses : NewState(a))

------------------------------------------------------------------------------
(* Properties. *)

\* When the client has stopped reloading, its state is the one the module works
\* on and the hooks' bypass is over: "inline hooks can safely resume".  And it
\* carries the marker by which the addon knows the module, whichever way it
\* replaced the old one (Detect, TakeOver, LookForMarker, FrameScriptExecute).
\* Wherever a state settles in peace and the first one is there at the first Sleep;
\* where it is not, luaInit is 0, and InitIsRetried is about that.
StateIsTakenOver ==
    <>[](luaInit # 0 => initialized /\ apiL = addr /\ ~swapping /\ loaded)

\* And its collector has an owner: one that is stopped is stepped by the module,
\* or the addon has been told that the module does not (PublishGcActive).
CollectorHasOwner ==
    <>[](/\ gcActive = "true" => gcOptimized
         /\ ~autoGc /\ ~gcOptimized => gcActive = "false")

\* A state is never taken for rebuilt because it is being torn down: two looks so
\* far apart cannot both fall into that moment (LookForMarker).
NoFalseRebuild ==
    [][(injected /\ ~injected' /\ addr = apiL) => ~lost]_swapVars

\* "Will retry on next frame": with a state in place the module gets going, also
\* when there was none at the first Sleep (DoMainThreadInit).
InitIsRetried == addr # None ~> initialized
=============================================================================
