--------------------------- MODULE MCWritingMemory --------------------------
EXTENDS WritingMemory
CONSTANTS a, b, c
MCHash == a :> 1 @@ b :> 1 @@ c :> 2
MCReal == {b}
MCPairs == {<<a, b>>, <<a, c>>, <<b, c>>}
MCMidPairs == {<<a, b>>, <<b, c>>}
=============================================================================
