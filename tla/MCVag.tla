------------------------------- MODULE MCVag -------------------------------
(***************************************************************************)
(* Two modules and two groups: one has both, one of them locked, and a     *)
(* list of faults; the other has one group and no such service.            *)
(***************************************************************************)
EXTENDS Vag, TLC

CONSTANTS engine, cluster, g1, g2
MCModules == {engine, cluster}
MCGroups  == {g1, g2}
MCWanted  == <<engine, cluster>>
MCAsked   == <<g1, g2>>
MCHolds   == engine :> {g1, g2} @@ cluster :> {g1}
MCLocked  == engine :> {g2} @@ cluster :> {}
MCTracks  == {engine}

\* Codes are told apart by a later request that takes the refusal for its own: for
\* a group only this one matters, and of the fault list ListedIsItsOwn is silent then.
MCDeclines == {"protected"}
=============================================================================
