------------------------------- MODULE GxDevice -------------------------------
(***************************************************************************)
(* The life of the device under the D3D9 render thread                     *)
(* (gx_render_thread.cpp): arming, the CreateDevice hook, the one device   *)
(* restart the module may ask the client for, the rewriting of the device  *)
(* vtable, the start and the death of the render thread, and Shutdown.     *)
(*                                                                         *)
(* A device is its number and its class, a class being one vtable in the   *)
(* runtime.  A command in the ring is the device it was issued on.  Only   *)
(* what decides which function runs on which device is kept.               *)
(***************************************************************************)
EXTENDS Integers, Sequences

CONSTANTS Classes,      \* the vtables devices come with
          None,
          MaxDevices,   \* bound: devices the client creates
          QueueMax,     \* commands in the ring
          Scenarios     \* the sets of Events an instance looks at

\* "fault": the render thread faults; "recreate": the client creates a second
\* device after one came through the hook; "nothread": CreateThread may fail;
\* "giveup": a Drain gives up; "noprotect": VirtualProtect may fail.
Events == {"fault", "recreate", "nothread", "giveup", "noprotect"}

ASSUME DeviceAssumption ==
    /\ None \notin Classes \cup {"thunk"} /\ "thunk" \notin Classes
    /\ MaxDevices \in Nat \ {0} /\ QueueMax \in Nat \ {0}
    /\ Scenarios \subseteq SUBSET Events

VARIABLES
    allowed,        \* the events of this behaviour, chosen once
    mpc,            \* "idle", or inside Hook_CreateDevice
    native,         \* d3d9.dll is Windows' own
    reshade,        \* ReShade is loaded
    armed,          \* g_armed
    hooked,         \* g_createDeviceHooked
    refused,        \* g_nativeRefused
    restartAsked,   \* g_restartAsked
    throughHook,    \* g_deviceThroughHook
    everActive,     \* g_everActive
    made,           \* devices created so far; the last one is the client's
    class,          \* the class of the last one
    gdev,           \* g_dev: the device commands are executed on, 0 none
    slots,          \* what the slots of each vtable hold
    patched,        \* g_patchedVt
    orig,           \* g_orig: a class's own methods, or a thunk of ours
    thread,         \* the render thread: none yet, running, faulting, exited
    active, dead, stop,     \* g_active, g_dead, g_stop
    queue           \* the ring

hookVars == <<native, reshade, armed, hooked, refused, restartAsked, throughHook>>
vtVars == <<slots, patched, orig>>
vars == <<allowed, mpc, hookVars, everActive, made, class, gdev, vtVars, thread, active, dead,
          stop, queue>>

TypeOK ==
    /\ allowed \in Scenarios
    /\ mpc \in {"idle", "replace", "install"}
    /\ {native, reshade, armed, hooked, refused, restartAsked, throughHook, everActive,
        active, dead, stop} \subseteq BOOLEAN
    /\ made \in 0 .. MaxDevices /\ gdev \in 0 .. MaxDevices
    /\ class \in Classes \cup {None} /\ patched \in Classes \cup {None}
    /\ slots \in [Classes -> {"native", "thunk"}]
    /\ orig \in Classes \cup {None, "thunk"}
    /\ thread \in {"none", "running", "faulting", "exited"}
    /\ queue \in Seq(1 .. MaxDevices) /\ Len(queue) <= QueueMax

\* Init() succeeded.  The client may have made its device before that.
Init ==
    /\ allowed \in Scenarios
    /\ mpc = "idle"
    /\ native \in BOOLEAN /\ reshade = FALSE
    /\ armed = TRUE /\ hooked = FALSE /\ refused = FALSE
    /\ restartAsked = FALSE /\ throughHook = FALSE /\ everActive = FALSE
    /\ made \in {0, 1} /\ gdev = 0
    /\ class \in IF made = 0 THEN {None} ELSE Classes
    /\ slots = [c \in Classes |-> "native"] /\ patched = None /\ orig = None
    /\ thread = "none" /\ active = FALSE /\ dead = FALSE /\ stop = FALSE
    /\ queue = <<>>

------------------------------------------------------------------------------
(* Hooking CreateDevice, and the restart the module asks for. *)

\* Mutant: any runtime is hooked.
HookCreateDeviceOnAny == IF hooked THEN UNCHANGED <<hooked, refused, armed>>
                         ELSE hooked' \in BOOLEAN /\ UNCHANGED <<refused, armed>>

\* HookCreateDeviceOn: refuse Windows' own runtime, hook any other.  MinHook
\* may fail, and the next caller tries again.
HookCreateDeviceOn ==
    IF hooked \/ refused THEN UNCHANGED <<hooked, refused, armed>>
    ELSE IF native THEN refused' = TRUE /\ armed' = FALSE /\ UNCHANGED hooked
    ELSE hooked' \in BOOLEAN /\ UNCHANGED <<refused, armed>>

\* The client runs its loader; the module's hook on it sees the interface.
Hook_LoadD3dLib ==
    /\ mpc = "idle" /\ ~hooked
    /\ HookCreateDeviceOn
    /\ UNCHANGED <<allowed, mpc, native, reshade, restartAsked, throughHook, everActive,
                   made, class, gdev, vtVars, thread, active, dead, stop, queue>>

LoadReShade == /\ ~reshade
               /\ reshade' = TRUE
               /\ UNCHANGED <<allowed, mpc, native, armed, hooked, refused, restartAsked,
                              throughHook, everActive, made, class, gdev, vtVars, thread,
                              active, dead, stop, queue>>

\* OnMainThreadTick's first test.
StillWaiting == armed /\ ~everActive /\ ~dead

\* OnMainThreadTick once the settling time is over, the client has a device
\* and nothing is loading: hook CreateDevice through the device there is, then
\* ask for the restart, unless the client's command is not the one known.  The
\* restart itself is a CreateDevice of the client.
OnMainThreadTick ==
    /\ mpc = "idle" /\ made > 0
    /\ StillWaiting
    /\ \/ reshade /\ armed' = FALSE /\ UNCHANGED <<hooked, refused, restartAsked>>
       \/ /\ ~reshade /\ ~restartAsked /\ ~hooked /\ native
          /\ refused' = TRUE /\ armed' = FALSE
          /\ UNCHANGED <<hooked, restartAsked>>
       \/ /\ ~reshade /\ ~restartAsked /\ (hooked \/ ~native)
          /\ hooked' = TRUE
          /\ \/ restartAsked' = TRUE /\ UNCHANGED armed
             \/ armed' = FALSE /\ UNCHANGED restartAsked
          /\ UNCHANGED refused
    /\ UNCHANGED <<allowed, mpc, native, reshade, throughHook, everActive, made, class,
                   gdev, vtVars, thread, active, dead, stop, queue>>

------------------------------------------------------------------------------
(* CreateDevice. *)

\* The client creates a device, its first or in place of the one it had.  The
\* hook first lets the render thread finish what it has.
CreateDevice(c) ==
    /\ mpc = "idle" /\ made < MaxDevices /\ ~stop
    /\ throughHook => "recreate" \in allowed
    /\ made' = made + 1
    /\ class' = c
    /\ throughHook' = (throughHook \/ hooked)
    /\ mpc' = IF ~hooked THEN "idle" ELSE IF active THEN "replace" ELSE "install"
    /\ UNCHANGED <<allowed, native, reshade, armed, hooked, refused, restartAsked,
                   everActive, gdev, vtVars, thread, active, dead, stop, queue>>

\* Mutant: a drain leaves the last command to the render thread.
DrainedButOne == Len(queue) <= 1 \/ dead

Drained == queue = <<>> \/ dead \/ "giveup" \in allowed

Replace == /\ mpc = "replace" /\ Drained
           /\ active' = FALSE
           /\ mpc' = "install"
           /\ UNCHANGED <<allowed, hookVars, everActive, made, class, gdev, vtVars, thread,
                          dead, stop, queue>>

\* Mutant: the vtable rewritten last is rewritten again.
PatchDeviceAgain == /\ orig' = IF slots[class] = "thunk" THEN "thunk" ELSE class
                    /\ slots' = [slots EXCEPT ![class] = "thunk"]
                    /\ patched' = class

\* PatchDevice: nothing for the vtable rewritten last, otherwise whatever the
\* slots hold is called through from now on, unless originals are left from an
\* attempt that failed, and our thunks go into them if they can be written.
PatchDevice ==
    IF patched = class THEN UNCHANGED vtVars
    ELSE /\ orig' = IF patched = None /\ orig # None THEN orig
                    ELSE IF slots[class] = "thunk" THEN "thunk" ELSE class
         /\ \/ slots' = [slots EXCEPT ![class] = "thunk"] /\ patched' = class
            \/ "noprotect" \in allowed /\ UNCHANGED <<slots, patched>>

\* StartThread does nothing when a thread was started before, gone or not.
StartThread ==
    IF thread # "none" THEN UNCHANGED thread
    ELSE thread' \in {"running"} \cup (IF "nothread" \in allowed THEN {"none"} ELSE {})

\* Mutant: queueing begins whether or not the thread started.
GoLiveAnyway == everActive' = TRUE /\ active' = TRUE

\* Queueing begins with the thread.
GoLive == IF thread' # "none"
          THEN everActive' = TRUE /\ active' = TRUE
          ELSE UNCHANGED <<everActive, active>>

\* The rest of Hook_CreateDevice.
Install == /\ mpc = "install"
           /\ gdev' = made
           /\ PatchDevice
           /\ StartThread
           /\ GoLive
           /\ mpc' = "idle"
           /\ UNCHANGED <<allowed, hookVars, made, class, dead, stop, queue>>

------------------------------------------------------------------------------
(* Calls on the device, the render thread and Shutdown. *)

\* Emit: a full ring makes the main thread wait, unless nobody reads it.
Post == IF dead /\ Len(queue) = QueueMax
        THEN UNCHANGED queue
        ELSE Len(queue) < QueueMax /\ queue' = Append(queue, made)

\* A queued thunk, reached through a vtable of ours while active.
Issue == /\ mpc = "idle" /\ active
         /\ made > 0 /\ slots[class] = "thunk"
         /\ Post
         /\ UNCHANGED <<allowed, mpc, hookVars, everActive, made, class, gdev, vtVars,
                        thread, active, dead, stop>>

Execute == /\ thread = "running" /\ queue # <<>>
           /\ queue' = Tail(queue)
           /\ UNCHANGED <<allowed, mpc, hookVars, everActive, made, class, gdev, vtVars,
                          thread, active, dead, stop>>

\* The thread leaves its loop on the fault; the stores come one after the other.
Fault == /\ "fault" \in allowed
         /\ thread = "running" /\ queue # <<>>
         /\ thread' = "faulting"
         /\ active' = FALSE
         /\ UNCHANGED <<allowed, mpc, hookVars, everActive, made, class, gdev, vtVars, dead,
                        stop, queue>>

Die == /\ thread = "faulting"
       /\ thread' = "exited"
       /\ dead' = TRUE
       /\ UNCHANGED <<allowed, mpc, hookVars, everActive, made, class, gdev, vtVars, active,
                      stop, queue>>

Shutdown == /\ mpc = "idle" /\ ~stop
            /\ active => Drained
            /\ active' = FALSE
            /\ stop' = TRUE
            /\ UNCHANGED <<allowed, mpc, hookVars, everActive, made, class, gdev, vtVars,
                           thread, dead, queue>>

Leave == /\ thread = "running" /\ stop
         /\ thread' = "exited"
         /\ UNCHANGED <<allowed, mpc, hookVars, everActive, made, class, gdev, vtVars,
                        active, dead, stop, queue>>

------------------------------------------------------------------------------

Next == \/ Hook_LoadD3dLib \/ LoadReShade \/ OnMainThreadTick
        \/ \E c \in Classes : CreateDevice(c)
        \/ Replace \/ Install
        \/ Issue \/ Execute \/ Fault \/ Die
        \/ Shutdown \/ Leave

Spec == Init /\ [][Next]_vars

------------------------------------------------------------------------------
(* Properties. *)

\* A command still in the ring will run on the device it was issued on, unless
\* a drain was abandoned: replacing the device waits for the render thread
\* (Hook_CreateDevice).
CommandOnItsDevice ==
    thread = "running" /\ "giveup" \notin allowed => \A k \in 1 .. Len(queue) : queue[k] = gdev

\* The function called through is never one of our own thunks, which would
\* call itself for ever (PatchDevice).
OrigIsNotOurs == orig # "thunk"

\* While calls are queued there is a thread to run them (StartThread,
\* Hook_CreateDevice).
QueueHasConsumer == active => thread = "running"

\* Queueing switched off by a fault stays off for the rest of the session
\* (RenderFilter's message, RenderThreadProc's two stores).
DeadStaysDirect == dead => ~active

\* A restart is asked for only when the client made its device before the
\* hook could see it, unless no thread could be created for a device it did
\* see (OnMainThreadTick).
RestartOnlyIfMissed ==
    [][~restartAsked /\ restartAsked' /\ "nothread" \notin allowed => ~throughHook]_vars

\* On Windows' own Direct3D 9 no vtable is rewritten and no thread started,
\* whichever of the two ways the interface was reached (HookCreateDeviceOn).
NativeLeftAlone == native => thread = "none" /\ \A c \in Classes : slots[c] = "native"
=============================================================================
