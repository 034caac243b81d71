------------------------------- MODULE Codec --------------------------------
(***************************************************************************)
(* The bytes of OBD-II and UDS replies: how a module writes a fault code,  *)
(* the readiness monitors, a support bitmap, a test result or an item of   *)
(* vehicle information (src/src/carpi/sim/encode.py and sim/ecu.py, built  *)
(* from the standards), and how car-pi reads them back                     *)
(* (src/src/carpi/core/protocol/dtc.py, decoders.py and obd2.py). The two  *)
(* were written apart; SurveyProofs shows that they agree.                 *)
(***************************************************************************)
EXTENDS Integers, Sequences

Byte == 0 .. 255

W(b) == IF b THEN 1 ELSE 0

\* The byte whose set bits are those of K, and its bit k.
ByteOf(K) ==
  W(0 \in K) + 2 * W(1 \in K) + 4 * W(2 \in K) + 8 * W(3 \in K)
    + 16 * W(4 \in K) + 32 * W(5 \in K) + 64 * W(6 \in K) + 128 * W(7 \in K)
Weight == <<1, 2, 4, 8, 16, 32, 64, 128>>
Bit(x, k) == (x \div Weight[k + 1]) % 2 = 1

Clamp(v, low, high) == IF v < low THEN low ELSE IF v > high THEN high ELSE v

\* Two bytes, the high one first.
WordMax == 65535
WordBytes(v) == <<v \div 256, v % 256>>
Word(d) == 256 * d[1] + d[2]
\* And four.
LongBytes(v) ==
  LET high == (v \div 256) \div 256
  IN  <<high \div 256, high % 256, (v \div 256) % 256, v % 256>>
Long(d) == 256 * (256 * (256 * d[1] + d[2]) + d[3]) + d[4]

\* The elements of s that are in T, in their order.
KeptUpTo(s, T) ==
  LET f[i \in 0 .. Len(s)] ==
        IF i = 0 THEN <<>> ELSE IF s[i] \in T THEN Append(f[i - 1], s[i]) ELSE f[i - 1]
  IN  f
Kept(s, T) == KeptUpTo(s, T)[Len(s)]

\* Blocks of one width, one after the other.
Joined(blocks, width) ==
  [i \in 1 .. width * Len(blocks) |-> blocks[(i - 1) \div width + 1][((i - 1) % width) + 1]]

-----------------------------------------------------------------------------
(* Fault codes: a letter (P, C, B, U: 0 .. 3) and four digits, in two      *)
(* bytes. All zeros pads a reply, so the code P0000 cannot be told from    *)
(* padding.                                                                *)

Codes == [letter : 0 .. 3, d1 : 0 .. 3, d2 : 0 .. 15, d3 : 0 .. 15, d4 : 0 .. 15]

Padding == [letter |-> 0, d1 |-> 0, d2 |-> 0, d3 |-> 0, d4 |-> 0]

EncodeDtc(c) == <<64 * c.letter + 16 * c.d1 + c.d2, 16 * c.d3 + c.d4>>

\* None in the code: a value that is no code.
NotACode == [letter |-> 4, d1 |-> 0, d2 |-> 0, d3 |-> 0, d4 |-> 0]
DecodeDtc(high, low) ==
  IF high = 0 /\ low = 0 THEN NotACode
  ELSE [letter |-> high \div 64, d1 |-> (high \div 16) % 4, d2 |-> high % 16,
        d3 |-> low \div 16, d4 |-> low % 16]

\* A reply to mode 03, 07 or 0A as a module writes it: a count, then the codes.
DtcResponse(service, codes) ==
  [i \in 1 .. 2 + 2 * Len(codes) |->
     IF i = 1 THEN service + 64 ELSE IF i = 2 THEN Len(codes)
     ELSE EncodeDtc(codes[(i - 1) \div 2])[IF i % 2 = 1 THEN 1 ELSE 2]]

\* And as it is read: not every module sends the count, and the parity of the
\* length tells. A count that differs from the codes listed is only logged.
DtcBody(reply) ==
  LET counted == (Len(reply) - 1) % 2
  IN  [i \in 1 .. Len(reply) - 1 - counted |-> reply[i + 1 + counted]]
DtcPairs(reply) ==
  [i \in 1 .. Len(DtcBody(reply)) \div 2 |->
     DecodeDtc(DtcBody(reply)[2 * i - 1], DtcBody(reply)[2 * i])]
ParseDtcs(reply) == Kept(DtcPairs(reply), Codes)

-----------------------------------------------------------------------------
(* PID 01: the warning lamp, the module's own count of faults, and the     *)
(* readiness monitors. Bits of byte B and D say that a test is NOT done.   *)

Continuous == <<"misfire", "fuel_system", "components">>
Spark == <<"catalyst", "heated_catalyst", "evap_system", "secondary_air_system",
           "ac_refrigerant", "oxygen_sensor", "oxygen_sensor_heater", "egr_vvt_system">>
Compression == <<"nmhc_catalyst", "nox_scr_aftertreatment", "reserved_c2", "boost_pressure",
                 "reserved_c4", "exhaust_gas_sensor", "pm_filter", "egr_vvt_system">>
Other(ignition) == IF ignition = "compression" THEN Compression ELSE Spark
MonitorNames(ignition) ==
  {Continuous[k] : k \in 1 .. 3} \cup {Other(ignition)[k] : k \in 1 .. 8}

EncodeMonitors(m) ==
  LET pending == m.supported \cap m.incomplete
  IN  <<128 * W(m.mil) + Clamp(m.count, 0, 127),
        ByteOf(  {k \in 0 .. 2 : Continuous[k + 1] \in m.supported}
          \cup {k \in 3 .. 3 : m.ignition = "compression"}
          \cup {k \in 4 .. 6 : Continuous[k - 3] \in pending}),
        ByteOf({k \in 0 .. 7 : Other(m.ignition)[k + 1] \in m.supported}),
        ByteOf({k \in 0 .. 7 : Other(m.ignition)[k + 1] \in pending})>>

DecodeMonitors(d) ==
  LET ignition == IF Bit(d[2], 3) THEN "compression" ELSE "spark"
      Named(base, byte) ==
        {Continuous[k] : k \in {j \in 1 .. 3 : Bit(d[2], j + base)}}
          \cup {Other(ignition)[k] : k \in {j \in 1 .. 8 : Bit(byte, j - 1)}}
  IN  [mil |-> Bit(d[1], 7), count |-> d[1] % 128, ignition |-> ignition,
       supported |-> Named(-1, d[3]),
       complete |-> Named(-1, d[3]) \ Named(3, d[4])]

-----------------------------------------------------------------------------
(* Support bitmaps: which of the 32 items after `base' there are. The      *)
(* first bit is item base + 1, and item base + 32 is the next bitmap.      *)

SupportBitmap(items, base) ==
  [i \in 1 .. 4 |-> ByteOf({k \in 0 .. 7 : base + 8 * i - k \in items})]
Offsets(d) == {n \in 1 .. 32 : Bit(d[(n + 7) \div 8], (32 - n) % 8)}

\* The bitmaps a module exposes: a chain that ends where no item lies beyond.
BitmapBases(items) ==
  {base \in {0, 32, 64, 96, 128, 160, 192} :
     base = 0 \/ \E item \in items : item > base}

-----------------------------------------------------------------------------
(* Numbers, test results and items of vehicle information.                 *)

Temperature(celsius) == <<Clamp(celsius + 40, 0, 255)>>
\* Fuel trim, to the nearest of 256 steps; it is read in 128ths of a percent.
TrimPercent(percent) == <<Clamp((256 * percent + 100) \div 200 + 128, 0, 255)>>
\* Kilometres, seconds and millivolts.
Unsigned16(v) == WordBytes(Clamp(v, 0, WordMax))
DecodeTemperature(d) == d[1] - 40
DecodeTrim(d) == 100 * (d[1] - 128)

\* A test result of mode 06: what it is of, its value and its limits.
TestBytes(t) ==
  <<t.monitor, t.test, 1, t.value \div 256, t.value % 256,
    t.min \div 256, t.min % 256, t.max \div 256, t.max % 256>>
TestGroups(reply) ==
  LET At(i, j) == reply[1 + 9 * (i - 1) + j]
  IN  [i \in 1 .. (Len(reply) - 1) \div 9 |->
         [monitor |-> At(i, 1), test |-> At(i, 2), value |-> Word(<<At(i, 4), At(i, 5)>>),
          min |-> Word(<<At(i, 6), At(i, 7)>>), max |-> Word(<<At(i, 8), At(i, 9)>>)]]
Passed(t) == t.min <= t.value /\ t.value <= t.max

\* The items in a mode 09 body: of a fixed width, so that a length that is no
\* multiple of it tells that a count comes first. None: the reply is refused.
InfoItems(body, width) ==
  LET counted == W(Len(body) % width # 0)
      n == (Len(body) - counted) \div width
  IN  [i \in 1 .. n |-> [j \in 1 .. width |-> body[counted + width * (i - 1) + j]]]
=============================================================================
