------------------------------- MODULE Units -------------------------------
(***************************************************************************)
(* Units of measure and the conversions between them                       *)
(* (src/src/orchestrator/tools/units.go and the conversions of tools.go).  *)
(*                                                                         *)
(* A number is a reduced fraction <<n, d>> where the code has a float64:   *)
(* rounding is not modelled.  A unit has one spelling, a compound unit is  *)
(* the sequence of the units between its slashes ("km/hr" is <<"km",       *)
(* "hr">>), and an alias such as "mph" stands for such a sequence.         *)
(***************************************************************************)
EXTENDS Integers, Sequences, SequencesExt

Gcd(m, n) ==
    LET gcd[a \in Nat, b \in Nat] == IF b = 0 THEN a ELSE gcd[b, a % b]
        Size(x) == IF x < 0 THEN -x ELSE x
    IN  gcd[Size(m), Size(n)]

Cancelled(n, d, g) == IF n = 0 THEN <<0, 1>> ELSE <<n \div g, d \div g>>
Fraction(n, d) == Cancelled(n, d, Gcd(n, d) * (IF d < 0 THEN -1 ELSE 1))

Whole(n) == <<n, 1>>
Zero == Whole(0)
Positive(p) == p[1] > 0

(* Fractions are reduced crosswise before they are multiplied: TLC's        *)
(* integers have 32 bits.                                                   *)
Product(a, b) == <<a[1] * b[1], a[2] * b[2]>>
Times(p, q) == Product(Fraction(p[1], q[2]), Fraction(q[1], p[2]))

Inverted(p) == Fraction(p[2], p[1])
Over(p, q) == Times(p, Inverted(q))

PlusOver(p, q, g) ==
    Fraction(p[1] * (q[2] \div g) + q[1] * (p[2] \div g), p[2] * (q[2] \div g))
Plus(p, q) == PlusOver(p, q, Gcd(p[2], q[2]))

Minus(p, q) == Plus(p, <<-q[1], q[2]>>)
AtMost(p, q) == ~Positive(Minus(p, q))

---------------------------------------------------------------------------
Categories == {"length", "weight", "time", "volume", "amount"}

(* simpleUnitDefinition: the category of a unit and its factor to the base  *)
(* unit of the category (cm, kg, s, l, mol).                                *)
Simple ==
    [mm   |-> [of |-> "length", factor |-> <<1, 10>>],
     cm   |-> [of |-> "length", factor |-> Whole(1)],
     m    |-> [of |-> "length", factor |-> Whole(100)],
     km   |-> [of |-> "length", factor |-> Whole(100000)],
     in   |-> [of |-> "length", factor |-> <<127, 50>>],
     ft   |-> [of |-> "length", factor |-> <<762, 25>>],
     mi   |-> [of |-> "length", factor |-> <<804672, 5>>],
     mg   |-> [of |-> "weight", factor |-> <<1, 1000000>>],
     g    |-> [of |-> "weight", factor |-> <<1, 1000>>],
     kg   |-> [of |-> "weight", factor |-> Whole(1)],
     lb   |-> [of |-> "weight", factor |-> <<45359237, 100000000>>],
     ml   |-> [of |-> "volume", factor |-> <<1, 1000>>],
     l    |-> [of |-> "volume", factor |-> Whole(1)],
     s    |-> [of |-> "time", factor |-> Whole(1)],
     min  |-> [of |-> "time", factor |-> Whole(60)],
     hr   |-> [of |-> "time", factor |-> Whole(3600)],
     mmol |-> [of |-> "amount", factor |-> <<1, 1000>>],
     mol  |-> [of |-> "amount", factor |-> Whole(1)]]

Temperatures == {"c", "f", "k"}

(* dimensionsForCategory, and the arithmetic of dimensions. *)
Dimension(category) == [c \in Categories |-> IF c = category THEN 1 ELSE 0]
Subtract(d, e) == [c \in Categories |-> d[c] - e[c]]
ReciprocalOf(d, e) == \A c \in Categories : d[c] = -e[c]

(* normalizeUnitExpressionText: the aliases of compound units. *)
Aliases ==
    [mph |-> <<"mi", "hr">>, kph |-> <<"km", "hr">>, mps |-> <<"m", "s">>,
     min_per_km |-> <<"min", "km">>, min_per_mile |-> <<"min", "mi">>,
     km_h |-> <<"km", "hr">>, m_s |-> <<"m", "s">>]

Parts(unit) == IF Len(unit) = 1 /\ unit[1] \in DOMAIN Aliases THEN Aliases[unit[1]] ELSE unit

(* parseUnitExpression: the first part counts, the others divide. *)
Parses(unit) == unit # << >> /\ \A i \in DOMAIN Parts(unit) : Parts(unit)[i] \in DOMAIN Simple

Factor(unit) ==
    LET parts == Parts(unit)
    IN  FoldLeft(LAMBDA f, u : Over(f, Simple[u].factor), Simple[parts[1]].factor, Tail(parts))

Dims(unit) ==
    LET parts == Parts(unit)
    IN  FoldLeft(LAMBDA d, u : Subtract(d, Dimension(Simple[u].of)),
                 Dimension(Simple[parts[1]].of), Tail(parts))

---------------------------------------------------------------------------
(* What an operation of the calculator returns: the number it computed, the *)
(* fields it must ask for, or an error.                                     *)
Answer(v) == [status |-> "answer", value |-> v, missing |-> {}]
Needs(fields) == [status |-> "needs_input", value |-> Zero, missing |-> fields]
Failed == [status |-> "error", value |-> Zero, missing |-> {}]

(* tempToCelsius and celsiusToTemp. *)
ToCelsius(v, unit) ==
    CASE unit = "c" -> v
      [] unit = "f" -> Times(Minus(v, Whole(32)), <<5, 9>>)
      [] unit = "k" -> Minus(v, <<5463, 20>>)

FromCelsius(v, unit) ==
    CASE unit = "c" -> v
      [] unit = "f" -> Plus(Times(v, <<9, 5>>), Whole(32))
      [] unit = "k" -> Plus(v, <<5463, 20>>)

(* convertUnits, between two temperatures or two simple units. *)
ConvertSimple(v, from, to) ==
    IF from \in Temperatures THEN FromCelsius(ToCelsius(v, from), to)
                             ELSE Over(Times(v, Simple[from].factor), Simple[to].factor)

(* convertBaseValueToExpression: a value in base units, of the dimensions   *)
(* given, in the target unit or in its reciprocal (km/hr as min/km).        *)
InUnit(base, dims, factor, target) ==
    IF dims = target THEN Answer(Over(base, factor))
    ELSE IF ReciprocalOf(dims, target) /\ base # Zero THEN Answer(Inverted(Times(base, factor)))
    ELSE Failed

ConvertBase(base, dims, to) ==
    IF Parses(to) THEN InUnit(base, dims, Factor(to), Dims(to)) ELSE Failed

(* convertExpressionValue: temperatures convert to temperatures only. *)
ConvertExpression(v, from, to) ==
    IF from[1] \in Temperatures
    THEN IF to[1] \in Temperatures THEN Answer(ConvertSimple(v, from[1], to[1])) ELSE Failed
    ELSE IF Parses(from) THEN ConvertBase(Times(v, Factor(from)), Dims(from), to)
    ELSE Failed
=============================================================================
