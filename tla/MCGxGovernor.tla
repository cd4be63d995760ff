----------------------------- MODULE MCGxGovernor -----------------------------
(* GxGovernor with stints of a few frames.                                 *)
EXTENDS GxGovernor
=============================================================================
