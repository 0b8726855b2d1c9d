------------------------------ MODULE MCGamTree ------------------------------
(* A directory /a with possible entries /a/x and /a/y, and a file /b at   *)
(* the top level.                                                          *)
EXTENDS GamTree

CONSTANTS s1, s2

MCPaths == {<<"a">>, <<"a", "x">>, <<"a", "y">>, <<"b">>}
MCPathsNested == {<<"a">>, <<"a", "x">>, <<"a", "y">>}
MCDirs == {<<"a">>}
MCSubs == {s1, s2}
=============================================================================
