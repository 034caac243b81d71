------------------------------- MODULE MCTp20 -------------------------------
(***************************************************************************)
(* Two modules: replies of the first may still be on their way when the    *)
(* channel to the second is open.                                          *)
(***************************************************************************)
EXTENDS Tp20

CONSTANTS engine, cluster
MCModules == {engine, cluster}
MCKept == {engine}
MCRequestParts == {1, 2}
MCReplyParts == {3}
=============================================================================
