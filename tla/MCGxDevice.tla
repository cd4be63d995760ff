------------------------------ MODULE MCGxDevice ------------------------------
(* GxDevice with a handful of devices of one or two classes.               *)
EXTENDS GxDevice

\* What the module survives: devices replaced, with drains that give up too,
\* and one device with a thread or a vtable that cannot be had.
MCScenarios == {{"recreate"}, {"recreate", "giveup"}, {"recreate", "noprotect"},
                {"fault", "nothread", "noprotect"}}

MCDead == {{"fault", "recreate"}}
MCRecreate == {{"recreate"}}
=============================================================================
