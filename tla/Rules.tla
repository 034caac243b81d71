------------------------------- MODULE Rules --------------------------------
(***************************************************************************)
(* The inspection rules of car-pi: the expression language of definition   *)
(* files (src/src/carpi/core/expr.py), rule evaluation                     *)
(* (src/src/carpi/core/rules.py) and the rules of                          *)
(* src/src/carpi/defs/generic/rules/inspection.yaml. Facts are a function  *)
(* from names to integers; a Boolean is 0 or 1, as it is in Python         *)
(* arithmetic. A rule is skipped when a fact that it names is missing, and *)
(* never passed on that account.                                           *)
(***************************************************************************)
EXTENDS Integers, Sequences, SequencesExt, FiniteSetsExt

Max2(a, b) == IF a > b THEN a ELSE b
Truth(b) == IF b THEN 1 ELSE 0

\* An expression, evaluated over the facts: the names in it, in branches that are not taken
\* too, and what comes out, a value or what is raised.
Value(v) == [raised |-> "none", value |-> v]
Raised(what) == [raised |-> what, value |-> 0]
Raises(e) == e.out.raised # "none"
IsTrue(e) == e.out.value # 0
Names(es) == UNION {es[i].names : i \in DOMAIN es}

Fact(facts, name) ==
  [names |-> {name},
   out |-> IF name \in DOMAIN facts THEN Value(facts[name]) ELSE Raised("missing")]
Const(v) == [names |-> {}, out |-> Value(v)]

\* All operands, left to right; the first that raises decides.
Strict(es, result) ==
  LET bad == {i \in DOMAIN es : Raises(es[i])}
  IN  [names |-> Names(es), out |-> IF bad = {} THEN result ELSE es[Min(bad)].out]

Not(e) == Strict(<<e>>, Value(Truth(~IsTrue(e))))
Holds(o, l, r) ==
  CASE o = "==" -> l = r [] o = "!=" -> l # r [] o = "<" -> l < r
    [] o = "<=" -> l <= r [] o = ">" -> l > r [] o = ">=" -> l >= r
Cmp(o, l, r) == Strict(<<l, r>>, Value(Truth(Holds(o, l.out.value, r.out.value))))
Computed(o, l, r) ==
  CASE o = "+" -> Value(l + r) [] o = "-" -> Value(l - r) [] o = "*" -> Value(l * r)
    [] o = "//" -> IF r = 0 THEN Raised("division by zero") ELSE Value(l \div r)
Arith(o, l, r) == Strict(<<l, r>>, Computed(o, l.out.value, r.out.value))
Called(f, vs) ==
  CASE f = "abs" -> Max2(vs[1], -vs[1])
    [] f = "max" -> FoldLeft(Max2, vs[1], vs)
    [] f = "min" -> -FoldLeft(Max2, -vs[1], [i \in 1 .. Len(vs) |-> -vs[i]])
Call(f, es) == Strict(es, Value(Called(f, [i \in DOMAIN es |-> es[i].out.value])))

\* "and" gives the first value that is false, "or" the first that is true, or the last;
\* what comes after it is not evaluated.
Chain(es, stop) ==
  LET ends == {i \in DOMAIN es : Raises(es[i]) \/ IsTrue(es[i]) = stop \/ i = Len(es)}
  IN  [names |-> Names(es), out |-> es[Min(ends)].out]
And(es) == Chain(es, FALSE)
Or(es)  == Chain(es, TRUE)
Choice(c, a, b) ==
  [names |-> Names(<<c, a, b>>),
   out |-> IF Raises(c) THEN c.out ELSE IF IsTrue(c) THEN a.out ELSE b.out]

\* One rule against the facts: "passed" only if it was evaluated to false.
Verdict(when, facts) ==
  CASE ~(when.names \subseteq DOMAIN facts) \/ when.out.raised = "missing" -> "skipped"
    [] OTHER -> IF Raises(when) THEN "error" ELSE IF IsTrue(when) THEN "found" ELSE "passed"

-----------------------------------------------------------------------------
(* Rules of inspection.yaml: what each is about, evaluated over the facts. *)

More(facts, name, n)    == Cmp(">", Fact(facts, name), Const(n))
Is(facts, name, v)      == Cmp("==", Fact(facts, name), Const(v))
AtLeast(facts, name, n) == Cmp(">=", Fact(facts, name), Const(n))
Since(facts) == Fact(facts, "pid.distance_since_codes_cleared")

\* On fault codes, readiness and the warning light.
FaultRules(facts) == [
  permanent_dtcs_present |-> More(facts, "dtc.permanent_count", 0),
  recent_code_clear |-> And(<<AtLeast(facts, "readiness.incomplete_count", 2),
    Is(facts, "dtc.stored_count", 0), Cmp("<", Since(facts), Const(80))>>),
  monitors_incomplete |-> And(<<AtLeast(facts, "readiness.incomplete_count", 1),
    Cmp(">=", Since(facts), Const(80))>>),
  dtc_count_disagreement |->
    Cmp("!=", Fact(facts, "status.dtc_count"), Fact(facts, "dtc.stored_count")),
  mil_off_but_faults_stored |->
    And(<<Is(facts, "status.mil_on", 0), More(facts, "dtc.stored_count", 0)>>),
  mil_on |-> Is(facts, "status.mil_on", 1),
  mil_driven_far |-> More(facts, "pid.distance_with_mil_on", 500),
  pending_dtcs_present |-> More(facts, "dtc.pending_count", 0)]

\* On live values of the engine: trims in 128ths of a percent, voltages in millivolts.
Running(facts, s) == More(facts, "pid.run_time_since_start", s)
Voltage(facts, o, mv) ==
  And(<<Running(facts, 30), Cmp(o, Fact(facts, "pid.control_module_voltage"), Const(mv))>>)
Beyond10(e) == Cmp(">", Call("abs", <<e>>), Const(1280))
LiveRules(facts) == [
  fuel_trim_excessive_bank1 |-> Beyond10(Fact(facts, "pid.ltft_bank1")),
  fuel_trim_excessive_bank2 |-> Beyond10(Fact(facts, "pid.ltft_bank2")),
  fuel_trim_banks_diverge |->
    Beyond10(Arith("-", Fact(facts, "pid.ltft_bank1"), Fact(facts, "pid.ltft_bank2"))),
  coolant_not_reaching_temperature |->
    And(<<Running(facts, 600), Cmp("<", Fact(facts, "pid.coolant_temp"), Const(70))>>),
  control_module_voltage_low |-> Voltage(facts, "<", 13000),
  control_module_voltage_high |-> Voltage(facts, ">", 15200)]

\* On what several modules, or the car and its seller, say of the same thing.
ModuleRules(facts) == [
  cross_ecu_odometer_mismatch |-> More(facts, "vehicle.odometer_spread_km", 1000),
  module_vin_mismatch |-> More(facts, "uds.vin_mismatch_count", 0),
  odometer_disagrees_with_advertised |-> Cmp(">",
    Call("abs", <<Arith("-", Fact(facts, "pid.odometer"), Fact(facts, "vehicle.claimed_odometer_km"))>>),
    Const(1000))]

\* The verdict of every rule.
Evaluate(facts) ==
  LET parts == <<FaultRules(facts), LiveRules(facts), ModuleRules(facts)>>
  IN  [id \in UNION {DOMAIN parts[i] : i \in 1 .. 3} |->
         Verdict(parts[CHOOSE i \in 1 .. 3 : id \in DOMAIN parts[i]][id], facts)]
=============================================================================
