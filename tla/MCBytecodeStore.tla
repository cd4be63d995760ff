--------------------------- MODULE MCBytecodeStore ---------------------------
EXTENDS BytecodeStore, TLC
CONSTANTS c1, c2, c3, c4
MCChunks == {c1, c2, c3, c4}
MCKey  == c1 :> 1 @@ c2 :> 2 @@ c3 :> 2 @@ c4 :> 3
MCSize == c1 :> 1 @@ c2 :> 2 @@ c3 :> 1 @@ c4 :> 1
=============================================================================
