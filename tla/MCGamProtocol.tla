----------------------------- MODULE MCGamProtocol -----------------------------
(***************************************************************************)
(* Model-checking instance of GamProtocol: the paths are model values and *)
(* the bounds are given in each .cfg.                                      *)
(***************************************************************************)
EXTENDS GamProtocol

CONSTANTS p1, p2

MCPaths1 == {p1}
MCPaths2 == {p1, p2}
================================================================================
