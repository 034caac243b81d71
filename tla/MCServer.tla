------------------------------ MODULE MCServer ------------------------------
(***************************************************************************)
(* Model values and bounds for checking Server.                            *)
(***************************************************************************)
EXTENDS Server

CONSTANTS p1, l1, w1
MCPreflights == {p1}
MCLives      == {l1}
MCWatchers   == {w1}
=============================================================================
