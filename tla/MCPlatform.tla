----------------------------- MODULE MCPlatform ------------------------------
(* Two files with their stages and one name in a directory that is not there *)
(* yet.                                                                      *)
EXTENDS Platform, TLC

CONSTANTS scodeStage, appStage, draft

MCNames == { scode, app, scodeStage, appStage, draft }
MCFoldersOf == [n \in MCNames |-> IF n = draft THEN {"drafts"} ELSE {}]
MCStageOf == scode :> scodeStage @@ app :> appStage
MCBlocks == { <<1>>, <<257>>, <<1, 1>> }
Symmetry == Permutations(Inodes) \union Permutations(Files)
=============================================================================
