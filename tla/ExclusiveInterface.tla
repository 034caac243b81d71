------------------------- MODULE ExclusiveInterface -------------------------
(***************************************************************************)
(* What car-pi's VehicleGateway promises, without locks or threads: at any *)
(* moment at most one party is talking on the vehicle bus, and the         *)
(* activity that /api/health and the 409 answers show names that party     *)
(* from the first moment of its use to the last, and nobody otherwise.     *)
(* Server.tla refines this with the lock, the two-step bookkeeping and the *)
(* event loop of src/src/carpi/server.                                     *)
(***************************************************************************)
CONSTANTS Claimants,  \* everything that may want the bus
          NoOne       \* the activity shown when the bus is free

VARIABLES users,  \* who is talking on the bus
          shown   \* what VehicleGateway.activity reports

Init == users = {} /\ shown = NoOne

Begin(c) == /\ users = {}
            /\ users' = {c}
            /\ shown' = c

End(c) == /\ users = {c}
          /\ users' = {}
          /\ shown' = NoOne

Next == \E c \in Claimants : Begin(c) \/ End(c)

Spec == Init /\ [][Next]_<<users, shown>>
=============================================================================
