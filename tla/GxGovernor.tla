------------------------------ MODULE GxGovernor ------------------------------
(***************************************************************************)
(* The governor of the D3D9 render thread (gx_render_thread.cpp): at every *)
(* Present of the device it owns it decides whether the next frame's calls *)
(* are queued or made directly.  It probes both in four timed stints, and  *)
(* holds the faster one until it looks again.                              *)
(*                                                                         *)
(* Time is counted in steps of a few milliseconds and no further than a    *)
(* test looks.  The frame times themselves are abstracted: a stint that    *)
(* counts is one more stint added up for its mode, and which mean is the   *)
(* smaller is free.                                                        *)
(***************************************************************************)
EXTENDS Integers

CONSTANTS StintMs,      \* kStintMs
          HoldMs,       \* kHoldMs
          FirstProbeMs, \* kFirstProbeMs
          HitchMs,      \* kHitchMs
          MinFrames,    \* kMinFrames
          MaxVoided,    \* stints thrown away before a probe is given up: 12
          FrameMs       \* the times between two Presents

ASSUME GovernorAssumption ==
    /\ {StintMs, HoldMs, FirstProbeMs, HitchMs, MinFrames} \subseteq Nat \ {0}
    /\ MaxVoided \in Nat
    /\ FrameMs \subseteq Nat \ {0}

VARIABLES
    started, stint, want, stintLive,    \* the fields of g_gov of these names
    age,        \* now - stintStart, no further than StintMs
    wait,       \* nextProbe - now, 0 once it is past
    frames,     \* curFrames, no further than MinFrames
    hitch,      \* curHitch
    sums,       \* the stints added up in sum and frames, of either mode
    voided,
    queueOff,   \* g_queueOff: calls are made directly
    locks,      \* g_emulatedLocks is not zero
    faster,     \* ghost: the last comparison found direct calls faster
    abandoned   \* ghost: a probe was given up since the last comparison

stintVars == <<stint, want, stintLive>>
measure == <<age, frames, hitch>>
governorVars == <<started, stintVars, measure, wait, sums, voided, queueOff, locks, faster,
          abandoned>>

NoSums == [direct \in BOOLEAN |-> 0]

GovernorTypeOK ==
    /\ started \in BOOLEAN /\ stint \in -1 .. 3 /\ want \in BOOLEAN /\ stintLive \in BOOLEAN
    /\ age \in 0 .. StintMs /\ frames \in 0 .. MinFrames /\ hitch \in BOOLEAN
    /\ wait \in 0 .. HoldMs \cup 0 .. FirstProbeMs
    /\ sums \in [BOOLEAN -> 0 .. 3] /\ voided \in 0 .. MaxVoided
    /\ queueOff \in BOOLEAN /\ locks \in BOOLEAN
    /\ faster \in BOOLEAN /\ abandoned \in BOOLEAN

GovernorInit ==
    /\ started = FALSE /\ stint = -1 /\ want = FALSE /\ stintLive = FALSE
    /\ age = 0 /\ frames = 0 /\ hitch = FALSE /\ wait = 0
    /\ sums = NoSums /\ voided = 0
    /\ queueOff = FALSE /\ locks = FALSE
    /\ faster = FALSE /\ abandoned = FALSE

AtMost(n, max) == IF n < max THEN n ELSE max

\* SwitchTo(wantDirect) when the mode is "direct": the mode afterwards.  Going
\* direct needs every emulated lock closed and a drain that empties the ring.
SwitchTo(wantDirect, direct, drained) ==
    wantDirect /\ (direct \/ (~locks /\ drained))

\* GovernorHold, after GovernorOnPresent has left the mode "direct".
GovernorHold(direct, drained) ==
    queueOff' = IF stint' < 0 /\ started' THEN SwitchTo(want', direct, drained) ELSE direct

------------------------------------------------------------------------------
(* GovernorOnPresent, by the way it returns. *)

FirstPresent(drained) ==
    /\ ~started
    /\ started' = TRUE
    /\ wait' = FirstProbeMs
    /\ UNCHANGED <<stintVars, measure, sums, voided, faster, abandoned>>
    /\ GovernorHold(queueOff, drained)

Elapse(dt) == wait' = IF wait > dt THEN wait - dt ELSE 0

Hold(dt, drained) ==
    /\ started /\ stint < 0
    /\ Elapse(dt) /\ wait' > 0
    /\ UNCHANGED <<started, stintVars, measure, sums, voided, faster, abandoned>>
    /\ GovernorHold(queueOff, drained)

\* The stint a Present is in, the mode it wants and whether it is being timed.
Due(dt) == started /\ (stint >= 0 \/ wait <= dt)
Stint == IF stint < 0 THEN 0 ELSE stint

Wants == Stint % 2 = 0
Live == stint >= 0 /\ stintLive
Mode(drained) == SwitchTo(Wants, queueOff, drained)

\* The mode cannot be switched at this frame.
CannotSwitch(dt, drained) ==
    /\ Due(dt) /\ Mode(drained) # Wants
    /\ stint' = Stint /\ want' = Wants /\ stintLive' = Live
    /\ queueOff' = Mode(drained)
    /\ Elapse(dt)
    /\ UNCHANGED <<started, measure, sums, voided, faster, abandoned>>

\* The frame that switched is not timed.
StartStint(dt, drained) ==
    /\ Due(dt) /\ Mode(drained) = Wants /\ ~Live
    /\ stint' = Stint /\ want' = Wants /\ stintLive' = TRUE
    /\ age' = 0 /\ frames' = 0 /\ hitch' = FALSE
    /\ queueOff' = Mode(drained)
    /\ Elapse(dt)
    /\ UNCHANGED <<started, sums, voided, faster, abandoned>>

\* A timed frame of a stint.
Timed(dt, drained) ==
    /\ Due(dt) /\ Mode(drained) = Wants /\ Live
    /\ want' = Wants
    /\ age' = AtMost(age + dt, StintMs)
    /\ frames' = AtMost(frames + 1, MinFrames)
    /\ hitch' = (hitch \/ dt > HitchMs)
    /\ UNCHANGED started

InStint(dt, drained) ==
    /\ Timed(dt, drained)
    /\ age' < StintMs
    /\ Elapse(dt)
    /\ queueOff' = Mode(drained)
    /\ UNCHANGED <<stint, stintLive, sums, voided, faster, abandoned>>

Bad == hitch' \/ frames' < MinFrames

\* Mutant: a stint thrown away is not counted.
CountVoidedNot == UNCHANGED voided

CountVoided == voided' = voided + 1

TooMany == voided >= MaxVoided

\* The stint does not count and is run again.
VoidStint(dt, drained) ==
    /\ Timed(dt, drained)
    /\ age' = StintMs /\ Bad
    /\ ~TooMany
    /\ CountVoided
    /\ stintLive' = FALSE
    /\ Elapse(dt)
    /\ queueOff' = Mode(drained)
    /\ UNCHANGED <<stint, sums, faster, abandoned>>

\* One too many: the probe is given up, with the calls queued.
AbandonProbe(dt, drained) ==
    /\ Timed(dt, drained)
    /\ age' = StintMs /\ Bad
    /\ TooMany
    /\ stint' = -1 /\ stintLive' = FALSE
    /\ wait' = HoldMs
    /\ voided' = 0
    /\ GovernorHold(SwitchTo(FALSE, Mode(drained), drained), drained)
    /\ UNCHANGED <<sums, faster>>
    /\ abandoned' = TRUE

\* Counted no further than tells two stints from more.
AddUp == sums' = [sums EXCEPT ![Wants] = AtMost(@ + 1, 3)]

\* Mutant: a finished stint goes on being timed.
EndStintLive == stint' = stint + 1 /\ UNCHANGED stintLive

EndStint == stint' = stint + 1 /\ stintLive' = FALSE

NextStint(dt, drained) ==
    /\ Timed(dt, drained)
    /\ age' = StintMs /\ ~Bad
    /\ stint < 3
    /\ AddUp
    /\ EndStint
    /\ Elapse(dt)
    /\ queueOff' = Mode(drained)
    /\ UNCHANGED <<voided, faster, abandoned>>

ClearSums == sums' = NoSums

\* Mutant: the comparison is the wrong way round.
KeepSlower(direct) == want' = ~direct

\* The mode held until the next probe.
Keep(direct) == want' = direct

\* The four stints are done: compare, and hold the better mode.
Decide(dt, drained, direct) ==
    /\ Due(dt) /\ Mode(drained) = Wants /\ Live
    /\ age + dt >= StintMs /\ ~hitch /\ dt <= HitchMs /\ frames + 1 >= MinFrames
    /\ stint = 3
    /\ age' = StintMs /\ frames' = MinFrames
    /\ Keep(direct)
    /\ faster' = direct /\ abandoned' = FALSE
    /\ ClearSums
    /\ stint' = -1 /\ stintLive' = FALSE /\ voided' = 0
    /\ wait' = HoldMs
    /\ UNCHANGED <<started, hitch>>
    /\ GovernorHold(SwitchTo(direct, Mode(drained), drained), drained)

\* T_Present on a device the module owns.  A drain may be abandoned.
Present(dt, drained, direct) ==
    /\ \/ FirstPresent(drained) \/ Hold(dt, drained)
       \/ CannotSwitch(dt, drained) \/ StartStint(dt, drained) \/ InStint(dt, drained)
       \/ VoidStint(dt, drained) \/ AbandonProbe(dt, drained)
       \/ NextStint(dt, drained) \/ Decide(dt, drained, direct)
    /\ UNCHANGED locks

------------------------------------------------------------------------------

\* The client opens locks that are emulated only while its calls are queued,
\* and closes them.
OpenLock == /\ ~queueOff /\ ~locks
            /\ locks' = TRUE
            /\ UNCHANGED <<started, stintVars, measure, wait, sums, voided, queueOff, faster,
                            abandoned>>

CloseLock == /\ locks
             /\ locks' = FALSE
             /\ UNCHANGED <<started, stintVars, measure, wait, sums, voided, queueOff, faster,
                            abandoned>>

GovernorNext == \/ \E dt \in FrameMs, drained, direct \in BOOLEAN : Present(dt, drained, direct)
        \/ OpenLock \/ CloseLock

GovernorSpec == GovernorInit /\ [][GovernorNext]_governorVars

\* The client goes on presenting, and not always with a lock open or a drain
\* that fails.
FairPresent == \E dt \in FrameMs, direct \in BOOLEAN : ~locks /\ Present(dt, TRUE, direct)
FairGovernorSpec == GovernorSpec /\ WF_governorVars(CloseLock) /\ SF_governorVars(FairPresent)

------------------------------------------------------------------------------

\* Every frame that is timed was drawn in the mode its stint is about: the
\* mode is the wanted one from before the stint is timed to its end
\* (GovernorOnPresent, SwitchTo).
TimedInMode == stintLive => stint >= 0 /\ queueOff = want /\ want = (stint % 2 = 0)

\* Calls are held direct only where the last comparison found them faster: "the
\* render thread is only abandoned where direct calls are faster".
DirectOnlyIfFaster == stint < 0 /\ queueOff => faster

\* The same as long as every probe is finished: a comparison decides the mode
\* held, and it is left neither by a refused switch nor by a lock left open
\* (GovernorOnPresent, GovernorHold, SwitchTo).
ComparisonDecides == ~abandoned /\ stint < 0 /\ queueOff => faster

\* A probe ends, however many stints are thrown away: after MaxVoided of them
\* it is given up (GovernorOnPresent).
ProbeEnds == stint >= 0 ~> stint < 0
=============================================================================
