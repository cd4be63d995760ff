---------------------------- MODULE MCParticleJobs ----------------------------
(* ParticleJobs with two workers and these sessions: emitters cut in three    *)
(* until the module is stopped; emitters cut in two whose chunks may fault or *)
(* come out odd; and what is left to the client: a NaN, an unknown layout, an *)
(* emitter too small, an A/B test's OFF stints.                               *)
EXTENDS ParticleJobs

Plain(n) == [count |-> n, nan |-> FALSE, fits |-> TRUE]

MCScenarios == {
    [emitters |-> {Plain(7)}, events |-> {"stop"}],
    [emitters |-> {Plain(5)}, events |-> {"odd", "fault"}],
    [emitters |-> {Plain(1), [Plain(2) EXCEPT !.nan = TRUE], [Plain(2) EXCEPT !.fits = FALSE]},
     events |-> {"aside"}] }
=============================================================================
