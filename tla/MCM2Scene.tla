------------------------------ MODULE MCM2Scene ------------------------------
(* M2Scene with two workers in each pool.  The sessions of the passing run:   *)
(* four roots of which two carry children, one child having two of its own    *)
(* and one being hidden, so that both pools fork at once and one finds the    *)
(* other in use; and roots without children, with worker faults and passes of *)
(* an A/B test's OFF stint.                                                   *)
EXTENDS M2Scene

Family   == [m \in {1, 2, 5} |-> CASE m = 1 -> <<5, 6, 7>> [] m = 2 -> <<8, 9>>
                                   [] m = 5 -> <<10, 11>>]

MCSessions == {
    [roots |-> <<1, 2, 3, 4>>, kids |-> Family, shown |-> 1 .. 10, sizes |-> {3, 4},
     kidsOn |-> TRUE, events |-> {}],
    [roots |-> <<1, 2, 3, 4, 5, 6>>, kids |-> [m \in {2} |-> <<7, 8>>], shown |-> 1 .. 8,
     sizes |-> {1, 5, 6}, kidsOn |-> FALSE, events |-> {"fault", "aside"}] }

\* More shown children than kMaxTasks below one root.
CapSessions == {
    [roots |-> <<1, 2>>, kids |-> [m \in {1} |-> <<3, 4, 5, 6>>], shown |-> 1 .. 6, sizes |-> {2},
     kidsOn |-> TRUE, events |-> {}] }

\* A fault under a worker of the roots' pool while it is in the children's hook.
FaultSessions == {
    [roots |-> <<1, 2, 3>>, kids |-> Family, shown |-> 1 .. 11, sizes |-> {3},
     kidsOn |-> TRUE, events |-> {"fault"}] }
=============================================================================
