------------------------------ MODULE MCSurvey -------------------------------
(***************************************************************************)
(* Cars as sim/scenarios.py has them: one in good order, one whose codes   *)
(* were cleared and whose mileage was advertised wrongly, one with faults  *)
(* in two modules, one with a cluster from another car, one whose brakes   *)
(* list a fault but count none, with one odometer and a trim beyond its    *)
(* range, and one that says nothing. A second profile matches the make     *)
(* only; a fictional one never.                                            *)
(***************************************************************************)
EXTENDS Survey

Code(d1, d2, d3) == [letter |-> 0, d1 |-> d1, d2 |-> d2, d3 |-> d3, d4 |-> 0]
Text(first, n) == [i \in 1 .. n |-> IF i = 1 THEN first ELSE 65]
Status(mil, count, ignition, supported, incomplete) ==
  [mil |-> mil, count |-> count, ignition |-> ignition, supported |-> supported,
   incomplete |-> incomplete]
Test(monitor, value) == [monitor |-> monitor, test |-> 128, value |-> value, min |-> 0, max |-> 300]
Km3(km) == <<km \div 65536, (km \div 256) % 256, km % 256>>

Plain == [pids |-> <<>>, frame |-> <<>>, stored |-> <<>>, pending |-> <<>>, permanent |-> <<>>,
          tests |-> <<>>, info |-> <<>>, dids |-> <<>>, protected |-> {}, extended |-> {}]
Info(vin) == (2 :> <<vin>>) @@ (4 :> <<Text(67, 15), Text(68, 16)>>) @@ (6 :> <<<<1, 2, 3, 4>>>>)

Make == Text(86, 17)
Special == <<86, 87>> \o Text(70, 15)
Foreign == Text(90, 17)

Spark2 == {"misfire", "catalyst", "oxygen_sensor"}
Sound == [Plain EXCEPT
  !.pids = (1 :> Status(FALSE, 0, "spark", Spark2, {})) @@ (5 :> 89) @@ (7 :> -3) @@ (31 :> 1200)
             @@ (33 :> 0) @@ (49 :> 70000),
  !.tests = <<Test(33, 40)>>, !.info = Info(Special),
  !.dids = (VinDid :> Special) @@ (51966 :> Km3(96420)) @@ (51965 :> <<255, 255>>), !.extended = {51966}]
Cluster(vin, km) == [Plain EXCEPT
  !.dids = (VinDid :> vin) @@ (51966 :> Km3(km)) @@ (61831 :> <<53, 71>>), !.extended = {VinDid, 51966},
  !.protected = {51964}]
Cleared == [Plain EXCEPT
  !.pids = (1 :> Status(FALSE, 0, "spark", Spark2, {"catalyst", "oxygen_sensor"}))
             @@ (7 :> 2) @@ (9 :> -12) @@ (31 :> 20) @@ (49 :> 12) @@ (66 :> 12400)
             @@ (166 :> 178300),
  !.permanent = <<Code(0, 4, 2)>>, !.frame = (5 :> 91), !.info = (2 :> <<Make>>)]
Faulty == [Plain EXCEPT
  !.pids = (1 :> Status(TRUE, 1, "compression", {"fuel_system", "pm_filter"}, {"pm_filter"}))
             @@ (5 :> 62) @@ (7 :> 17) @@ (31 :> 650) @@ (33 :> 1240) @@ (49 :> 5400)
             @@ (66 :> 15600),
  !.stored = <<Code(0, 4, 2)>>, !.pending = <<Code(0, 4, 3)>>, !.permanent = <<Code(0, 4, 2)>>,
  !.frame = (5 :> 91) @@ (33 :> 1000), !.tests = <<Test(1, 58), Test(33, 301), Test(33, 2)>>]
Gearbox == [Plain EXCEPT
  !.pids = (1 :> Status(TRUE, 1, "spark", {"fuel_system"}, {"fuel_system"})) @@ (5 :> 88),
  !.stored = <<Code(0, 7, 3)>>, !.info = (10 :> <<Text(71, 9)>>)]
Stuck == [Plain EXCEPT
  !.pids = (1 :> Status(TRUE, 1, "spark", Spark2, {})) @@ (7 :> 99) @@ (9 :> 1), !.stored = <<Code(0, 4, 2)>>,
  !.info = (2 :> <<Special>>)]
Brakes == [Plain EXCEPT !.pids = (5 :> 20), !.stored = <<Code(0, 7, 3)>>]

Car(obd, others, spec, claimed) ==
  [obd |-> obd, others |-> others, spec |-> spec, claimed |-> claimed]
Healthy  == Car(<<"engine">>, {"cluster"},
                ("engine" :> Sound) @@ ("cluster" :> Cluster(Special, 96420)), {})
Tampered == Car(<<"engine">>, {"cluster"},
                ("engine" :> Sound) @@ ("cluster" :> Cluster(Foreign, 45000)), {96500})
Wiped    == Car(<<"engine">>, {"cluster"},
                ("engine" :> Cleared) @@ ("cluster" :> Cluster(Foreign, 45000)), {145000})
Ailing == Car(<<"engine", "gearbox">>, {}, ("engine" :> Faulty) @@ ("gearbox" :> Gearbox), {})
Uncounted == Car(<<"engine", "brakes">>, {},
                 ("engine" :> Stuck) @@ ("brakes" :> Brakes) @@ ("cluster" :> Cluster(Special, 96420)), {})
Silent   == Car(<<>>, {}, "engine" :> Plain, {})

MCCars == {Healthy, Tampered, Wiped, Ailing, Uncounted, Silent}
MCFailures == [c \in MCCars |-> 2]
MCEngine == "engine"

Odometer(max) ==
  [id |-> "odometer_km", did |-> 51966, type |-> "uint", length |-> 3, max |-> max]
Interval == [id |-> "service_km", did |-> 51965, type |-> "uint", length |-> 2, max |-> 30000]
Part == [id |-> "part", did |-> 51964, type |-> "ascii", length |-> 1, max |-> 0]
Group(name, at, reads) == [name |-> name, kind |-> "profile", session |-> at, reads |-> reads]
MCProfiles == {
  [prefixes |-> {<<86, 87>>}, fictional |-> FALSE,
   modules |-> <<Group("cluster", 3, <<Odometer(2000000), Part>>),
                 Group("engine", 3, <<Odometer(2000000), Interval>>),
                 Group("gateway", 3, <<Part>>)>>],
  [prefixes |-> {<<86>>}, fictional |-> FALSE, modules |-> <<Group("engine", 1, <<Part>>)>>],
  [prefixes |-> {<<86, 87, 70>>}, fictional |-> TRUE, modules |-> <<>>]}
=============================================================================
