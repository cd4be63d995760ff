----------------------------- MODULE MCWriteBatch -----------------------------
(* WriteBatch with two files and a buffer of two writes.                   *)
EXTENDS WriteBatch, TLC

CONSTANTS t, u

\* Two threads with flushes that fall short, and one whose own writes fail.
MCScenarios == {[threads |-> {t, u}, allowed |-> {"flushfail", "exit"}],
                [threads |-> {t}, allowed |-> {"clientfail"}]}

MCExit == {[threads |-> {t}, allowed |-> {"exit"}]}
MCStandDown == {[threads |-> {t, u}, allowed |-> {"clientfail"}]}
MCLate == {[threads |-> {t, u}, allowed |-> {"flushfail"}]}

\* No action tells one file from another.
MCSymmetry == Permutations(Files)
=============================================================================
