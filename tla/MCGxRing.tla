------------------------------- MODULE MCGxRing -------------------------------
(* GxRing with a ring of three units and a word of three rings.            *)
EXTENDS GxRing

CONSTANTS a, b

\* A one-unit and a two-unit command, so that padding and exact fits both occur.
MCSizes == {1, 2}

\* They are told apart on the device: no action looks at what is carried.
MCCarried == [n \in MCSizes |-> IF n = 1 THEN {a} ELSE {b}]
=============================================================================
