------------------------------ MODULE MCLuaSwap ------------------------------
(* LuaSwap with three addresses and three reloads.                           *)
EXTENDS LuaSwap

CONSTANTS l1, l2, l3

From(first, events) == [first |-> first, events |-> events]

MCScenarios == {From(l1, {"inplace", "fault"}), From(None, {})}
LateScenarios == {From(None, {})}
BackScenarios == {From(l1, {"back"})}
=============================================================================
