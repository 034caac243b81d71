----------------------------- MODULE MCExchange -----------------------------
(***************************************************************************)
(* What an inspection asks of a module: to open a session, two             *)
(* identifiers of one service, and the list of its faults.                 *)
(***************************************************************************)
EXTENDS Exchange

CONSTANTS session, vin, mileage, faults
MCAsks     == {session, vin, mileage, faults}
MCService  == [a \in MCAsks |-> CASE a = session -> "0x10"
                                  [] a \in {vin, mileage} -> "0x22"
                                  [] a = faults -> "0x19"]
MCServices == {"0x10", "0x19", "0x22"}
MCEchoed   == {vin, mileage}
MCLists    == {faults}
=============================================================================
