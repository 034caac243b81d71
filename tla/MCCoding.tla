------------------------------ MODULE MCCoding ------------------------------
(***************************************************************************)
(* Targets and values for checking Coding: two comfort settings and an     *)
(* airbag controller; a value, the same value padded, one that it is the   *)
(* beginning of, one that is empty and one that is too long.               *)
(***************************************************************************)
EXTENDS Coding

CONSTANTS comfort, lights, airbag
MCTargets  == {comfort, lights, airbag}
MCCritical == {airbag}
MCValues   == {<<>>, <<1>>, <<1, 0>>, <<1, 2>>, <<1, 2, 1>>}
MCFactory  == [t \in MCTargets |-> <<1>>]
=============================================================================
