---------------------------- MODULE GxDevice_proof ----------------------------
(***************************************************************************)
(* Proofs about the life of the device, for any number of devices and of   *)
(* vtables.                                                                *)
(***************************************************************************)
EXTENDS GxDevice, GxGovernor, TLAPS

\* The initial states have their types.
LEMMA InitType == Init => TypeOK
  <1> SUFFICES ASSUME Init
               PROVE  TypeOK
    OBVIOUS
  <1>1. made \in 0 .. MaxDevices /\ gdev \in 0 .. MaxDevices /\ Len(queue) <= QueueMax
    BY DeviceAssumption DEF Init
  <1>2. class \in Classes \cup {None} /\ queue \in Seq(1 .. MaxDevices)
    BY DEF Init
  <1>3. {native, reshade, armed, hooked, refused, restartAsked, throughHook, everActive,
         active, dead, stop} \subseteq BOOLEAN
    BY DEF Init
  <1> QED
    BY <1>1, <1>2, <1>3 DEF Init, TypeOK

\* No step changes what may happen.
LEMMA EventsFixed == [Next]_vars => allowed' = allowed
  BY DEF Next, vars, Hook_LoadD3dLib, LoadReShade, OnMainThreadTick, CreateDevice, Replace,
         Install, Issue, Execute, Fault, Die, Shutdown, Leave

\* Every step keeps the types.
LEMMA NextType == TypeOK /\ [Next]_vars => TypeOK'
  <1> SUFFICES ASSUME TypeOK, [Next]_vars
               PROVE  TypeOK'
    OBVIOUS
  <1>a. allowed' = allowed
    BY EventsFixed
  <1>1. CASE Hook_LoadD3dLib
    BY <1>a, <1>1 DEF Hook_LoadD3dLib, HookCreateDeviceOn, vtVars, TypeOK
  <1>2. CASE LoadReShade
    BY <1>a, <1>2 DEF LoadReShade, vtVars, TypeOK
  <1>3. CASE OnMainThreadTick
    BY <1>a, <1>3 DEF OnMainThreadTick, vtVars, TypeOK
  <1>4. ASSUME NEW c \in Classes, CreateDevice(c)
        PROVE  TypeOK'
    BY <1>a, <1>4, DeviceAssumption DEF CreateDevice, vtVars, TypeOK
  <1>5. CASE Replace
    BY <1>a, <1>5 DEF Replace, hookVars, vtVars, TypeOK
  <1>6. CASE Install
    BY <1>a, <1>6 DEF Install, PatchDevice, StartThread, GoLive, hookVars, vtVars, TypeOK
  <1>7. CASE Issue
    <2>1. queue' \in Seq(1 .. MaxDevices) /\ Len(queue') <= QueueMax
      <3>1. CASE UNCHANGED queue
        BY <3>1 DEF TypeOK
      <3>2. CASE Len(queue) < QueueMax /\ queue' = Append(queue, made)
        BY <1>7, <3>2, DeviceAssumption DEF Issue, TypeOK
      <3> QED
        BY <1>7, <3>1, <3>2 DEF Issue, Post
    <2> QED
      BY <1>a, <1>7, <2>1 DEF Issue, hookVars, vtVars, TypeOK
  <1>8. CASE Execute
    <2>1. queue' \in Seq(1 .. MaxDevices) /\ Len(queue') <= QueueMax
      BY <1>a, <1>8, DeviceAssumption DEF Execute, TypeOK
    <2> QED
      BY <1>a, <1>8, <2>1 DEF Execute, hookVars, vtVars, TypeOK
  <1>9. CASE Fault \/ Die \/ Shutdown \/ Leave
    <2>1. CASE Fault
      BY <1>a, <2>1 DEF Fault, hookVars, vtVars, TypeOK
    <2>2. CASE Die
      BY <1>a, <2>2 DEF Die, hookVars, vtVars, TypeOK
    <2>3. CASE Shutdown
      BY <1>a, <2>3 DEF Shutdown, hookVars, vtVars, TypeOK
    <2>4. CASE Leave
      BY <1>a, <2>4 DEF Leave, hookVars, vtVars, TypeOK
    <2> QED
      BY <1>9, <2>1, <2>2, <2>3, <2>4
  <1>10. CASE UNCHANGED vars
    BY <1>a, <1>10 DEF vars, hookVars, vtVars, TypeOK
  <1> QED
    BY <1>1, <1>2, <1>3, <1>4, <1>5, <1>6, <1>7, <1>8, <1>9, <1>10 DEF Next

\* Every variable keeps its type: the ring never holds more than it has room
\* for, and the device commands run on is one the client made.
THEOREM DeviceTypeCorrect == Spec => []TypeOK
  BY InitType, NextType, PTL DEF Spec

------------------------------------------------------------------------------
(* Windows' own Direct3D 9. *)

\* Nothing reaches CreateDevice's hook on Windows' own runtime.
NativeInv ==
    native => /\ ~hooked /\ mpc = "idle"
              /\ thread = "none" /\ \A c \in Classes : slots[c] = "native"

\* The initial states satisfy NativeInv.
LEMMA InitNativeInv == Init => NativeInv
  BY DEF Init, NativeInv

\* Every step keeps NativeInv.
LEMMA NextNativeInv == NativeInv /\ [Next]_vars => NativeInv'
  <1> SUFFICES ASSUME NativeInv, [Next]_vars
               PROVE  NativeInv'
    OBVIOUS
  <1> USE DEF NativeInv, vtVars
  <1>1. CASE Hook_LoadD3dLib
    BY <1>1 DEF Hook_LoadD3dLib, HookCreateDeviceOn
  <1>2. CASE LoadReShade
    BY <1>2 DEF LoadReShade
  <1>3. CASE OnMainThreadTick
    BY <1>3 DEF OnMainThreadTick
  <1>4. ASSUME NEW c \in Classes, CreateDevice(c)
        PROVE  NativeInv'
    BY <1>4 DEF CreateDevice
  <1>5. CASE Replace \/ Install
    BY <1>5 DEF Replace, Install, hookVars
  <1>6. CASE Issue \/ Execute \/ Fault \/ Die \/ Shutdown \/ Leave
    BY <1>6 DEF Issue, Execute, Fault, Die, Shutdown, Leave, hookVars
  <1>7. CASE UNCHANGED vars
    BY <1>7 DEF vars, hookVars
  <1> QED
    BY <1>1, <1>2, <1>3, <1>4, <1>5, <1>6, <1>7 DEF Next

\* Windows' own Direct3D 9 keeps its vtables and gets no render thread, by
\* whichever way the module reaches the interface (HookCreateDeviceOn and
\* OnMainThreadTick both refuse it).
THEOREM NativeCorrect == Spec => []NativeLeftAlone
  <1>1. NativeInv => NativeLeftAlone
    BY DEF NativeInv, NativeLeftAlone
  <1> QED
    BY <1>1, InitNativeInv, NextNativeInv, PTL DEF Spec

------------------------------------------------------------------------------
(* Commands and the device they run on. *)

\* Where a render thread can be: nowhere before the hook has seen a device,
\* with an empty ring; at work while calls are queued or while the hook
\* replaces the device; and on its way out once Shutdown has been called.
ThreadState ==
    /\ dead => thread = "exited"
    /\ stop => mpc = "idle" /\ ~active
    /\ active => thread # "none" /\ hooked /\ mpc # "install"
    /\ thread = "none" => queue = <<>>
    /\ thread = "running" => active \/ stop \/ mpc = "install"
    /\ mpc # "idle" => hooked

\* The device the ring's commands are for is the client's, but while the hook
\* is at work; and then the ring is empty before the device changes.
DeviceState ==
    /\ active /\ mpc = "idle" => gdev = made
    /\ thread = "running" /\ mpc = "install" /\ "giveup" \notin allowed => queue = <<>>
    /\ CommandOnItsDevice

DeviceInv == TypeOK /\ ThreadState /\ DeviceState

\* The initial states satisfy DeviceInv.
LEMMA InitDeviceInv == Init => DeviceInv
  <1> SUFFICES ASSUME Init
               PROVE  DeviceInv
    OBVIOUS
  <1>1. TypeOK
    BY InitType
  <1>2. ThreadState /\ DeviceState
    BY DEF Init, ThreadState, DeviceState, CommandOnItsDevice
  <1> QED
    BY <1>1, <1>2 DEF DeviceInv

\* Every step keeps DeviceInv.
LEMMA NextDeviceInv == DeviceInv /\ [Next]_vars => DeviceInv'
  <1> SUFFICES ASSUME DeviceInv, [Next]_vars
               PROVE  DeviceInv'
    OBVIOUS
  <1>a. allowed' = allowed
    BY EventsFixed
  <1>t. TypeOK'
    BY NextType DEF DeviceInv
  <1>l. Len(queue) \in Nat /\ queue \in Seq(1 .. MaxDevices)
    BY DEF DeviceInv, TypeOK
  <1> USE DEF DeviceInv, ThreadState, DeviceState, CommandOnItsDevice
  <1>1. CASE Hook_LoadD3dLib
    BY <1>a, <1>t, <1>1 DEF Hook_LoadD3dLib, vtVars
  <1>2. CASE LoadReShade
    BY <1>a, <1>t, <1>2 DEF LoadReShade, vtVars
  <1>3. CASE OnMainThreadTick
    BY <1>a, <1>t, <1>3 DEF OnMainThreadTick, vtVars
  <1>4. ASSUME NEW c \in Classes, CreateDevice(c)
        PROVE  DeviceInv'
    <2>1. ThreadState'
      BY <1>a, <1>4 DEF CreateDevice, vtVars
    <2>2. DeviceState'
      BY <1>a, <1>4 DEF CreateDevice, vtVars
    <2> QED
      BY <1>t, <2>1, <2>2
  <1>5. CASE Replace
    <2>1. queue = <<>> \/ dead \/ "giveup" \in allowed
      BY <1>5 DEF Replace, Drained, TypeOK
    <2> QED
      BY <1>a, <1>t, <1>5, <2>1 DEF Replace, hookVars, vtVars
  <1>6. CASE Install
    <2>1. thread' = "running" /\ "giveup" \notin allowed => queue' = <<>>
      BY <1>a, <1>6 DEF Install, StartThread
    <2>2. ThreadState'
      BY <1>a, <1>6, <2>1 DEF Install, StartThread, GoLive, hookVars
    <2>3. DeviceState'
      BY <1>a, <1>6, <2>1 DEF Install, StartThread, GoLive, hookVars
    <2> QED
      BY <1>t, <2>2, <2>3
  <1>7. CASE Issue
    <2>1. queue' = queue \/ queue' = Append(queue, made)
      BY <1>a, <1>7 DEF Issue, Post
    <2>2. ThreadState'
      BY <1>a, <1>7 DEF Issue, hookVars, vtVars
    <2>3. CommandOnItsDevice'
      BY <1>a, <1>7, <1>l, <2>1 DEF Issue, TypeOK
    <2> QED
      BY <1>a, <1>t, <1>7, <2>2, <2>3 DEF Issue, hookVars, vtVars
  <1>8. CASE Execute
    <2>1. "giveup" \notin allowed => \A k \in 1 .. Len(queue') : queue'[k] = gdev
      BY <1>8, <1>l DEF Execute
    <2>2. ThreadState'
      BY <1>8 DEF Execute, hookVars, vtVars
    <2> QED
      BY <1>a, <1>t, <1>8, <2>1, <2>2 DEF Execute, hookVars, vtVars
  <1>9. CASE Fault \/ Die
    BY <1>a, <1>t, <1>9 DEF Fault, Die, hookVars, vtVars
  <1>10. CASE Shutdown
    BY <1>a, <1>t, <1>10 DEF Shutdown, hookVars, vtVars
  <1>11. CASE Leave
    BY <1>a, <1>t, <1>11 DEF Leave, hookVars, vtVars
  <1>12. CASE UNCHANGED vars
    BY <1>a, <1>t, <1>12 DEF vars, hookVars, vtVars
  <1> QED
    BY <1>1, <1>2, <1>3, <1>4, <1>5, <1>6, <1>7, <1>8, <1>9, <1>10, <1>11, <1>12 DEF Next

\* Unless a drain is abandoned, every command in the ring runs on the device
\* the client issued it on, however often the client replaces its device.
THEOREM CommandsStayOnDevice == Spec => []CommandOnItsDevice
  <1>1. DeviceInv => CommandOnItsDevice
    BY DEF DeviceInv, DeviceState
  <1>2. DeviceInv /\ [Next]_vars => DeviceInv'
    BY NextDeviceInv
  <1> QED
    BY <1>1, <1>2, InitDeviceInv, PTL DEF Spec

------------------------------------------------------------------------------
(* The restart. *)

\* Whoever came through the hook is queueing, or is about to.
RestartInv == throughHook /\ "nothread" \notin allowed => everActive \/ mpc # "idle"

\* Every step keeps RestartInv, and none asks for a restart in vain.
LEMMA NextRestartInv ==
    RestartInv /\ [Next]_vars =>
      /\ RestartInv'
      /\ ~restartAsked /\ restartAsked' /\ "nothread" \notin allowed => ~throughHook
  <1> SUFFICES ASSUME RestartInv, [Next]_vars
               PROVE  /\ RestartInv'
                      /\ ~restartAsked /\ restartAsked' /\ "nothread" \notin allowed => ~throughHook
    OBVIOUS
  <1>a. allowed' = allowed
    BY EventsFixed
  <1> USE DEF RestartInv
  <1>1. CASE Hook_LoadD3dLib \/ LoadReShade
    BY <1>a, <1>1 DEF Hook_LoadD3dLib, LoadReShade
  <1>2. CASE OnMainThreadTick
    BY <1>a, <1>2 DEF OnMainThreadTick, StillWaiting
  <1>3. ASSUME NEW c \in Classes, CreateDevice(c)
        PROVE  /\ RestartInv'
               /\ ~restartAsked /\ restartAsked' /\ "nothread" \notin allowed => ~throughHook
    BY <1>a, <1>3 DEF CreateDevice
  <1>4. CASE Replace
    BY <1>a, <1>4 DEF Replace, hookVars
  <1>5. CASE Install
    BY <1>a, <1>5 DEF Install, StartThread, GoLive, hookVars
  <1>6. CASE Issue \/ Execute \/ Fault \/ Die \/ Shutdown \/ Leave
    BY <1>a, <1>6 DEF Issue, Execute, Fault, Die, Shutdown, Leave, hookVars
  <1>7. CASE UNCHANGED vars
    BY <1>a, <1>7 DEF vars, hookVars
  <1> QED
    BY <1>1, <1>2, <1>3, <1>4, <1>5, <1>6, <1>7 DEF Next

\* If the render thread can be started, the client is asked for a restart only
\* when it made its first device before the hook could see it.
THEOREM RestartCorrect == Spec => RestartOnlyIfMissed
  <1>1. Init => RestartInv
    BY DEF Init, RestartInv
  <1>2. RestartInv /\ [Next]_vars =>
          /\ RestartInv'
          /\ [~restartAsked /\ restartAsked' /\ "nothread" \notin allowed => ~throughHook]_vars
    BY NextRestartInv
  <1> QED
    BY <1>1, <1>2, PTL DEF Spec, RestartOnlyIfMissed

------------------------------------------------------------------------------
(* The thread behind the queue, and the function called through. *)

\* A session that survives: after a fault the client keeps the device it has.
DeviceStays == "fault" \notin allowed \/ "recreate" \notin allowed

\* A thread is gone only after Shutdown or a fault, and where there may be faults
\* the only device through the hook came before the thread.
Consumer ==
    /\ active => thread = "running"
    /\ thread # "none" \/ mpc # "idle" => throughHook
    /\ thread \in {"faulting", "exited"} => stop \/ "fault" \in allowed
    /\ "recreate" \notin allowed /\ mpc # "idle" => thread = "none"

ConsumerInv == DeviceInv /\ (DeviceStays => Consumer)

\* Every step keeps ConsumerInv.
LEMMA NextConsumerInv == ConsumerInv /\ [Next]_vars => ConsumerInv'
  <1> SUFFICES ASSUME ConsumerInv, [Next]_vars, DeviceStays
               PROVE  Consumer'
    BY NextDeviceInv, EventsFixed DEF ConsumerInv, DeviceStays
  <1>a. allowed' = allowed
    BY EventsFixed
  <1> USE DEF ConsumerInv, Consumer
  <1>1. CASE Hook_LoadD3dLib \/ LoadReShade \/ OnMainThreadTick
    BY <1>a, <1>1 DEF Hook_LoadD3dLib, LoadReShade, OnMainThreadTick
  <1>2. ASSUME NEW c \in Classes, CreateDevice(c)
        PROVE  Consumer'
    BY <1>a, <1>2 DEF CreateDevice, DeviceInv, ThreadState
  <1>3. CASE Replace
    BY <1>a, <1>3 DEF Replace, hookVars
  <1>4. CASE Install
    <2>1. thread \in {"none", "running"} /\ (thread = "none" => ~active)
      BY <1>4 DEF Install, DeviceStays, DeviceInv, ThreadState, TypeOK
    <2>2. thread' \in {"none", "running"} /\ (active' => thread' = "running")
      BY <1>4, <2>1 DEF Install, StartThread, GoLive
    <2> QED
      BY <1>a, <1>4, <2>2 DEF Install, hookVars
  <1>5. CASE Issue \/ Execute \/ Fault \/ Die \/ Shutdown
    BY <1>a, <1>5 DEF Issue, Execute, Fault, Die, Shutdown, hookVars
  <1>6. CASE Leave
    BY <1>a, <1>6 DEF Leave, hookVars, DeviceInv, ThreadState
  <1>7. CASE UNCHANGED vars
    BY <1>a, <1>7 DEF vars, hookVars
  <1> QED
    BY <1>1, <1>2, <1>3, <1>4, <1>5, <1>6, <1>7 DEF Next

\* Wherever the client keeps its device after a fault, calls are queued only
\* while a thread runs to take them, also when the thread could not be started
\* the first time (StartThread, Hook_CreateDevice).
THEOREM ConsumerCorrect == Spec => [](DeviceStays => QueueHasConsumer)
  <1>1. Init => ConsumerInv
    BY InitDeviceInv DEF Init, ConsumerInv, Consumer
  <1>2. ConsumerInv => (DeviceStays => QueueHasConsumer)
    BY DEF ConsumerInv, Consumer, QueueHasConsumer
  <1> QED
    BY <1>1, <1>2, NextConsumerInv, PTL DEF Spec

\* The runtime has one vtable, or the client makes one device through the hook.
OneVtable == (\A c, d \in Classes : c = d) \/ "recreate" \notin allowed

\* A vtable holds our thunks only when it is the one rewritten last, and none
\* does when the first device comes through the hook.
Originals ==
    /\ orig # "thunk"
    /\ mpc # "idle" => throughHook /\ class \in Classes
    /\ made > 0 => class \in Classes
    /\ \A c \in Classes : slots[c] = "thunk" => throughHook /\ patched \in Classes
    /\ "recreate" \notin allowed /\ mpc # "idle" => \A c \in Classes : slots[c] = "native"

OriginalsInv == TypeOK /\ (OneVtable => Originals)

\* Every step keeps OriginalsInv.
LEMMA NextOriginalsInv == OriginalsInv /\ [Next]_vars => OriginalsInv'
  <1> SUFFICES ASSUME OriginalsInv, [Next]_vars, OneVtable
               PROVE  Originals'
    BY NextType, EventsFixed DEF OriginalsInv, OneVtable
  <1>a. allowed' = allowed
    BY EventsFixed
  <1> USE DEF OriginalsInv, Originals
  <1>1. CASE Hook_LoadD3dLib \/ LoadReShade \/ OnMainThreadTick
    BY <1>a, <1>1 DEF Hook_LoadD3dLib, LoadReShade, OnMainThreadTick, vtVars
  <1>2. ASSUME NEW c \in Classes, CreateDevice(c)
        PROVE  Originals'
    <2>1. "recreate" \notin allowed => \A d \in Classes : slots[d] = "native"
      BY <1>2 DEF CreateDevice, TypeOK
    <2> QED
      BY <1>a, <1>2, <2>1 DEF CreateDevice, vtVars
  <1>3. CASE Replace
    BY <1>a, <1>3 DEF Replace, hookVars, vtVars
  <1>4. CASE Install
    <2>1. class \in Classes /\ throughHook
      BY <1>4 DEF Install
    <2>2. slots[class] = "thunk" => patched = class
      BY <1>4, <2>1 DEF OneVtable, TypeOK, Install
    <2>3. orig' # "thunk" /\ (\A c \in Classes : slots'[c] = "thunk" => patched' \in Classes)
      BY <1>4, <2>1, <2>2, DeviceAssumption DEF Install, PatchDevice, TypeOK, vtVars
    <2> QED
      BY <1>a, <1>4, <2>1, <2>3 DEF Install, hookVars
  <1>5. CASE Issue \/ Execute \/ Fault \/ Die \/ Shutdown \/ Leave
    BY <1>a, <1>5 DEF Issue, Execute, Fault, Die, Shutdown, Leave, hookVars, vtVars
  <1>6. CASE UNCHANGED vars
    BY <1>a, <1>6 DEF vars, hookVars, vtVars
  <1> QED
    BY <1>1, <1>2, <1>3, <1>4, <1>5, <1>6 DEF Next

\* With one vtable, or one device through the hook, the function called through
\* is the runtime's own and never a thunk of ours, also when the vtable could
\* not be written the first time (PatchDevice).
THEOREM OriginalsCorrect == Spec => [](OneVtable => OrigIsNotOurs)
  <1>1. Init => OriginalsInv
    BY InitType, DeviceAssumption DEF Init, OriginalsInv, Originals
  <1>2. OriginalsInv => (OneVtable => OrigIsNotOurs)
    BY DEF OriginalsInv, Originals, OrigIsNotOurs
  <1> QED
    BY <1>1, <1>2, NextOriginalsInv, PTL DEF Spec
------------------------------------------------------------------------------
(***************************************************************************)
(* The governor decides, at every Present of the device the render thread  *)
(* owns, whether its calls are queued.  It shares no variable with the     *)
(* life of the device.                                                     *)
(***************************************************************************)

\* The types the argument needs.
Flags ==
    /\ started \in BOOLEAN /\ want \in BOOLEAN /\ stintLive \in BOOLEAN
    /\ queueOff \in BOOLEAN /\ locks \in BOOLEAN /\ faster \in BOOLEAN /\ abandoned \in BOOLEAN

GovernorTypes == stint \in -1 .. 3 /\ Flags

\* The mode wanted between two probes is the one the last comparison chose, and
\* nothing is timed there.
HoldsChoice ==
    /\ ~abandoned /\ stint < 0 /\ want => faster
    /\ ComparisonDecides

GovernorInv == GovernorTypes /\ TimedInMode /\ HoldsChoice

\* A switch leads to the mode wanted or, going direct, to none at all.
LEMMA SwitchResult ==
    ASSUME NEW w \in BOOLEAN, NEW d \in BOOLEAN, NEW drained \in BOOLEAN, locks \in BOOLEAN
    PROVE  /\ SwitchTo(w, d, drained) \in BOOLEAN
           /\ SwitchTo(w, d, drained) => w
           /\ w /\ d => SwitchTo(w, d, drained)
BY DEF SwitchTo

\* While a stint is timed the mode is the one it wants, so a switch is none.
LEMMA TimedMode ==
    ASSUME GovernorInv, Live, NEW drained \in BOOLEAN
    PROVE  Mode(drained) = Wants
<1>1. stint >= 0 /\ queueOff = want /\ want = (stint % 2 = 0) /\ Stint = stint
  BY DEF GovernorInv, GovernorTypes, Flags, TimedInMode, Live, Stint
<1>2. Wants = queueOff /\ queueOff \in BOOLEAN
  BY <1>1 DEF Wants, GovernorInv, GovernorTypes, Flags
<1>. QED
  BY <1>2 DEF Mode, SwitchTo

\* What GovernorHold leaves behind is direct only if direct calls are wanted.
LEMMA HoldResult ==
    ASSUME NEW d \in BOOLEAN, NEW drained \in BOOLEAN, locks \in BOOLEAN,
           want' \in BOOLEAN, stint' < 0, started', GovernorHold(d, drained)
    PROVE  queueOff' \in BOOLEAN /\ (queueOff' => want')
BY DEF GovernorHold, SwitchTo

LEMMA GovernorInductive ==
    ASSUME GovernorInv, [GovernorNext]_governorVars
    PROVE  GovernorInv'
<1>. SUFFICES GovernorTypes' /\ TimedInMode' /\ HoldsChoice'
  BY DEF GovernorInv
<1>. USE DEF GovernorInv
<1>1. CASE UNCHANGED governorVars \/ OpenLock \/ CloseLock
  <2>1. /\ started' = started /\ stint' = stint /\ want' = want /\ stintLive' = stintLive
        /\ queueOff' = queueOff /\ faster' = faster /\ abandoned' = abandoned
    BY <1>1, Zenon DEF governorVars, OpenLock, CloseLock, stintVars
  <2>2. locks' \in BOOLEAN
    BY <1>1, Zenon DEF governorVars, OpenLock, CloseLock, GovernorTypes, Flags
  <2>3. Flags'
    BY <2>1, <2>2, Zenon DEF GovernorTypes, Flags
  <2>4. GovernorTypes'
    BY <2>1, <2>3 DEF GovernorTypes
  <2>5. TimedInMode'
    BY <2>1 DEF TimedInMode
  <2>6. HoldsChoice'
    BY <2>1, Zenon DEF HoldsChoice, ComparisonDecides
  <2>. QED
    BY <2>4, <2>5, <2>6
<1>2. ASSUME NEW dt \in FrameMs, NEW drained \in BOOLEAN, NEW direct \in BOOLEAN,
             Present(dt, drained, direct)
      PROVE  GovernorTypes' /\ TimedInMode' /\ HoldsChoice'
  <2>. locks' = locks
    BY <1>2 DEF Present
  <2>. USE DEF GovernorTypes, Flags, TimedInMode, HoldsChoice, ComparisonDecides
  <2>1. Wants \in BOOLEAN /\ Mode(drained) \in BOOLEAN /\ Stint \in 0 .. 3
        /\ (stint >= 0 => Stint = stint) /\ (Mode(drained) => Wants)
    BY DEF Wants, Mode, SwitchTo, Stint
  <2>2. CASE FirstPresent(drained) \/ Hold(dt, drained)
    <3>1. UNCHANGED <<stint, want, stintLive, faster, abandoned>> /\ started' = TRUE
      BY <2>2 DEF FirstPresent, Hold, stintVars
    <3>2. GovernorHold(queueOff, drained)
      BY <2>2 DEF FirstPresent, Hold
    <3>3. CASE stint < 0
      <4>1. queueOff' \in BOOLEAN /\ (queueOff' => want')
        BY <3>1, <3>2, <3>3, HoldResult
      <4>. QED
        BY <3>1, <3>3, <4>1
    <3>4. CASE ~(stint < 0)
      <4>1. queueOff' = queueOff
        BY <3>1, <3>2, <3>4 DEF GovernorHold
      <4>. QED
        BY <3>1, <4>1
    <3>. QED
      BY <3>3, <3>4
  <2>3. CASE CannotSwitch(dt, drained)
    <3>1. ~Live
      BY <2>3, TimedMode DEF CannotSwitch
    <3>2. /\ stint' = Stint /\ want' = Wants /\ stintLive' = FALSE
          /\ queueOff' = Mode(drained)
          /\ UNCHANGED <<started, faster, abandoned>>
      BY <2>3, <3>1 DEF CannotSwitch, Live
    <3>3. stint' \in 0 .. 3 /\ want' \in BOOLEAN /\ queueOff' \in BOOLEAN
      BY <2>1, <3>2
    <3>. ~(stint' < 0)
      BY <3>3
    <3>4. ~stintLive' /\ stintLive' \in BOOLEAN /\ ~(stint' < 0)
      BY <3>2, Zenon
    <3>. Flags'
      BY <3>2, <3>3, <3>4, Zenon
    <3>5. GovernorTypes'
      BY <3>2, <3>3
    <3>6. TimedInMode' /\ HoldsChoice'
      BY ONLY <3>4 DEF TimedInMode, HoldsChoice, ComparisonDecides
    <3>. QED
      BY <3>5, <3>6
  <2>4. CASE StartStint(dt, drained)
    <3>1. /\ stint' = Stint /\ stint' >= 0 /\ want' = Wants /\ stintLive' = TRUE
          /\ queueOff' = Wants
          /\ UNCHANGED <<started, faster, abandoned>>
      BY <2>1, <2>4 DEF StartStint
    <3>2. want' = (stint' % 2 = 0)
      BY <3>1 DEF Wants
    <3>. QED
      BY <2>1, <3>1, <3>2
  <2>5. CASE InStint(dt, drained) \/ VoidStint(dt, drained) \/ NextStint(dt, drained)
    <3>1. Timed(dt, drained) /\ queueOff' = Mode(drained) /\ UNCHANGED <<faster, abandoned>>
      BY <2>5 DEF InStint, VoidStint, NextStint
    <3>2. /\ want' = Wants /\ Mode(drained) = Wants /\ started' = started
          /\ stint >= 0 /\ stintLive
      BY <3>1 DEF Timed, Live
    <3>3. \/ stint' = stint /\ stintLive' \in {stintLive, FALSE}
          \/ stint < 3 /\ stint' = stint + 1 /\ stintLive' = FALSE
      BY <2>5 DEF InStint, VoidStint, NextStint, EndStint
    <3>4. want' = (stint % 2 = 0)
      BY <2>1, <3>2 DEF Wants
    <3>. stint >= 0 /\ (stint' = stint \/ (stint < 3 /\ stint' = stint + 1))
      BY ONLY <3>2, <3>3, Zenon
    <3>. stint \in -1 .. 3
      BY Zenon
    <3>. stint' \in -1 .. 3 /\ ~(stint' < 0) /\ stint' >= 0
      OBVIOUS
    <3>. want' \in BOOLEAN /\ queueOff' = want'
      BY <2>1, <3>1, <3>2, Zenon
    <3>. stint' = stint \/ ~stintLive'
      BY <3>3, Zenon
    <3>. stintLive' \in BOOLEAN
      BY <3>3, Zenon
    <3>. Flags'
      BY <3>1, <3>2, Zenon
    <3>5. /\ GovernorTypes' /\ ~(stint' < 0) /\ stint' >= 0 /\ queueOff' = want'
          /\ stint' = stint \/ ~stintLive'
      BY Zenon
    <3>6. stintLive' => want' = (stint' % 2 = 0)
      BY <3>4, <3>5
    <3>7. TimedInMode' /\ HoldsChoice'
      BY ONLY <3>5, <3>6 DEF TimedInMode, HoldsChoice, ComparisonDecides
    <3>. QED
      BY <3>5, <3>7
  <2>6. CASE AbandonProbe(dt, drained)
    <3>1. /\ want' = Wants /\ stint' = -1 /\ stintLive' = FALSE /\ started' = started
          /\ abandoned' = TRUE /\ faster' = faster
          /\ GovernorHold(SwitchTo(FALSE, Mode(drained), drained), drained)
          /\ started
      BY <2>6 DEF AbandonProbe, Timed, Due
    <3>2. stint' < 0 /\ started' /\ want' \in BOOLEAN
      BY <2>1, <3>1
    <3>3. PICK d \in BOOLEAN : GovernorHold(d, drained)
      BY <2>1, <3>1, SwitchResult
    <3>4. queueOff' \in BOOLEAN
      BY <3>2, <3>3, HoldResult
    <3>. Flags' /\ ~stintLive' /\ abandoned'
      BY <2>1, <3>1, <3>2, <3>4, Zenon
    <3>. stint' \in -1 .. 3
      BY <3>1
    <3>5. GovernorTypes' /\ ~stintLive' /\ abandoned'
      BY Zenon
    <3>. QED
      BY <3>5
  <2>7. CASE Decide(dt, drained, direct)
    <3>1. /\ want' = direct /\ stint' = -1 /\ stintLive' = FALSE /\ started' = started
          /\ abandoned' = FALSE /\ faster' = direct
          /\ GovernorHold(SwitchTo(direct, Mode(drained), drained), drained)
          /\ started
      BY <2>7 DEF Decide, Due, Keep
    <3>2. stint' < 0 /\ started' /\ want' \in BOOLEAN
      BY <3>1
    <3>3. PICK d \in BOOLEAN : GovernorHold(d, drained)
      BY <2>1, <3>1, SwitchResult
    <3>4. queueOff' \in BOOLEAN /\ (queueOff' => want')
      BY <3>2, <3>3, HoldResult
    <3>. Flags' /\ ~stintLive' /\ (want' => faster')
      BY <3>1, <3>4, Zenon
    <3>. stint' \in -1 .. 3
      BY <3>1
    <3>5. GovernorTypes' /\ ~stintLive' /\ (want' => faster')
      BY Zenon
    <3>. QED
      BY ONLY <3>4, <3>5 DEF TimedInMode, HoldsChoice, ComparisonDecides
  <2>. QED
    BY <1>2, <2>2, <2>3, <2>4, <2>5, <2>6, <2>7 DEF Present
<1>. QED
  BY <1>1, <1>2 DEF GovernorNext

LEMMA GovernorInvariant == GovernorSpec => []GovernorInv
<1>1. GovernorInit => GovernorInv
  <2>. SUFFICES ASSUME GovernorInit PROVE GovernorInv
    OBVIOUS
  <2>1. stint \in -1 .. 3
    BY DEF GovernorInit
  <2>2. Flags /\ ~stintLive /\ ~queueOff /\ ~want
    BY Zenon DEF GovernorInit, Flags
  <2>. QED
    BY ONLY <2>1, <2>2, Zenon DEF GovernorInv, GovernorTypes, TimedInMode, HoldsChoice, ComparisonDecides
<1>2. GovernorInv /\ [GovernorNext]_governorVars => GovernorInv'
  BY GovernorInductive
<1>. QED
  BY <1>1, <1>2, PTL DEF GovernorSpec

\* Every frame that is timed was drawn in the mode its stint is about, whatever the
\* times, the locks open and the drains that fail (GovernorOnPresent, SwitchTo).
THEOREM TimingCorrect == GovernorSpec => []TimedInMode
<1>1. GovernorInv => TimedInMode
  BY DEF GovernorInv
<1>. QED
  BY <1>1, GovernorInvariant, PTL

\* Direct calls are held only where the last comparison found them faster, unless
\* a probe was given up since (GovernorOnPresent, GovernorHold).
THEOREM HoldCorrect == GovernorSpec => []ComparisonDecides
<1>1. GovernorInv => ComparisonDecides
  BY DEF GovernorInv, HoldsChoice
<1>. QED
  BY <1>1, GovernorInvariant, PTL
=============================================================================
