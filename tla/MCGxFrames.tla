------------------------------ MODULE MCGxFrames ------------------------------
(* GxFrames with one or two buffers.                                       *)
EXTENDS GxFrames

CONSTANTS vb, ib, st

Direct == [b \in {vb} |-> "direct"]
SyncOnly == [b \in {st} |-> "sync"]
Shadow == [b \in {ib} |-> "shadow"]
DirectSync == [b \in {vb, st} |-> IF b = vb THEN "direct" ELSE "sync"]

Scenario(class, room, allowed) == [class |-> class, room |-> room, allowed |-> allowed]

\* One thing at a time: a switch with locks open across Presents and drains that
\* give up, a render thread that faults, a device that is lost, a ring with room for
\* more frames than may be in flight, none of them.
MCScenarios == {Scenario(DirectSync, 1, {}), Scenario(SyncOnly, 3, {}),
                Scenario(Shadow, 3, {}), Scenario(Direct, 3, {}),
                Scenario(Direct, 2, {"switch", "fault"}), Scenario(Direct, 2, {"loss"}),
                Scenario(Direct, 2, {"switch", "span", "giveup"})}

\* Sessions in which calls or data come out wrong (README.md).
MCSpan == {Scenario(Direct, 2, {"span"})}
MCShadowStale == {Scenario(Shadow, 2, {"switch"})}
MCStaleLoss == {Scenario(Direct, 2, {"switch", "loss"})}
=============================================================================
