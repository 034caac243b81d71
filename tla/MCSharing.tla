----------------------------- MODULE MCSharing ------------------------------
(***************************************************************************)
(* Four addresses, of which the third is the broadcast address: an engine  *)
(* that answers there too, and a cluster that refuses the probe and whose  *)
(* answers come on the address that is probed last. One broadcast of       *)
(* either width. Four identifiers in two ranges: the VIN after a zero      *)
(* byte, a locked one, and two of which each module has one.               *)
(***************************************************************************)
EXTENDS Sharing

MCModules == {"engine", "cluster"}
MCRequest == [engine |-> 1, cluster |-> 2]
MCResponse == [engine |-> 11, cluster |-> 4]
MCBroadcast == {[id |-> 21, ext |-> FALSE], [id |-> 22, ext |-> TRUE]}
Data(v) == [status |-> "data", value |-> v]
Refused(status) == [status |-> status, value |-> 0]
MCHolds ==
  [m \in MCModules |->
     [d \in {2000, 2001, 9000, 9001} |->
        CASE d = 9000 -> Data(1)
          [] d = 9001 -> Refused("protected")
          [] d = 2000 -> IF m = "cluster" THEN Data(3) ELSE Refused("unsupported")
          [] OTHER -> IF m = "cluster" THEN Refused("conditions") ELSE Data(4)]]
MCRanges == <<<<9000, 9001>>, <<2000, 2001>>>>
MCContent ==
  <<[length |-> 18, text |-> FALSE, vin |-> TRUE], [length |-> 2, text |-> FALSE, vin |-> FALSE],
    [length |-> 2, text |-> FALSE, vin |-> FALSE], [length |-> 17, text |-> TRUE, vin |-> TRUE],
    [length |-> 18, text |-> FALSE, vin |-> FALSE]>>
MCNamed == [vin |-> 4, odometer |-> 2]
MCNumbers == {2001, 7}
=============================================================================
