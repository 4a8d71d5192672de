------------------------------ MODULE MCTools ------------------------------
(* Two spellings of the path of one file, for two chats.                   *)
EXTENDS Tools, TLC

CONSTANTS x, y

MCFileOf == [p \in Paths |-> CHOOSE f \in Files : TRUE]
MCPieces == {<<y, Blank>>}
MCContents == {Empty, <<x, y, Blank>>}
MCSymmetry == Permutations(Chats) \union Permutations(Paths)
=============================================================================
