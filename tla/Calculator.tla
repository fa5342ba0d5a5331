----------------------------- MODULE Calculator -----------------------------
(***************************************************************************)
(* The calculator tool (src/src/orchestrator/tools/tools.go): the fields an *)
(* operation asks for, the checks it makes and the number it returns.      *)
(*                                                                         *)
(* The arguments of a call are a function from the fields given to their   *)
(* values: an absent field is a nil pointer, an empty string or an empty   *)
(* list of the code.  A measurement is a sequence of components [unit,     *)
(* value], an expression the sequence of its tokens.                       *)
(***************************************************************************)
EXTENDS Units

(* The arguments f, and those of g that f does not have. *)
f ++ g == [x \in DOMAIN f \cup DOMAIN g |-> IF x \in DOMAIN f THEN f[x] ELSE g[x]]

Measure(v, unit) == [unit |-> unit, value |-> v]

(* normalizeComponent: the category of a component and its value in the    *)
(* base unit of the category.                                              *)
Category(c) ==
    CASE c.unit \in Temperatures -> "temperature"
      [] c.unit \in DOMAIN Simple -> Simple[c.unit].of
      [] OTHER -> "none"

Normalized(c) ==
    IF c.unit \in Temperatures THEN ToCelsius(c.value, c.unit)
    ELSE IF Simple[c.unit].factor = Whole(1) THEN c.value ELSE Times(c.value, Simple[c.unit].factor)

Total(input) == FoldLeft(LAMBDA t, c : Plus(t, Normalized(c)), Normalized(input[1]), Tail(input))

(* normalizeMeasurement succeeds. *)
Sound(input) ==
    /\ input # << >>
    /\ \A i \in DOMAIN input :
          /\ AtMost(Zero, input[i].value)
          /\ Category(input[i]) # "none"
          /\ Category(input[i]) = Category(input[1])
    /\ Category(input[1]) = "temperature" => Len(input) = 1
    /\ Positive(Total(input))

(* sanitizeCalculatorArgs: components that are not of the kind the field    *)
(* names are thrown away.                                                   *)
KindOf == [weight |-> "weight", height |-> "length", distance |-> "length"]

OfKind(input, kind) ==
    IF \A i \in DOMAIN input : Category(input[i]) = kind THEN input
    ELSE SelectSeq(input, LAMBDA c : Category(c) = kind)

Sanitize(args) ==
    [f \in DOMAIN args |-> IF f \in DOMAIN KindOf THEN OfKind(args[f], KindOf[f]) ELSE args[f]]

Field(args, f) == IF f \in DOMAIN args THEN args[f] ELSE << >>
HasPositive(args, f) == \E i \in DOMAIN Field(args, f) : Positive(args[f][i].value)

---------------------------------------------------------------------------
(* calculateBMI: kilograms over square metres. *)
BMI(args) ==
    LET missing == {f \in {"weight", "height"} : ~HasPositive(args, f)}
        squared(length) == Times(length, length)
    IN  IF missing # {} THEN Needs(missing)
        ELSE IF \E f \in {"weight", "height"} : ~Sound(args[f]) THEN Failed
        ELSE Answer(Over(Total(args.weight), squared(Over(Total(args.height), Whole(100)))))

BMRAsks(args) ==
    {f \in {"weight", "height"} : ~HasPositive(args, f)}
      \cup ({"age_years", "gender"} \ DOMAIN args)

(* calculateBMR: 10 kg + 6.25 cm - 5 years + 5 for men, - 161 for women. *)
BMR(args) ==
    IF BMRAsks(args) # {} THEN Needs(BMRAsks(args))
    ELSE IF \E f \in {"weight", "height"} : ~Sound(args[f]) THEN Failed
    ELSE IF ~Positive(args.age_years) THEN Failed
    ELSE IF args.gender \notin {"male", "female"} THEN Failed
    ELSE Answer(Plus(Plus(Times(Whole(10), Total(args.weight)), Times(<<25, 4>>, Total(args.height))),
                     Minus(Whole(IF args.gender = "male" THEN 5 ELSE -161),
                           Times(Whole(5), args.age_years))))

ActivityFactor ==
    [sedentary |-> <<6, 5>>, light |-> <<11, 8>>, moderate |-> <<31, 20>>,
     active |-> <<69, 40>>, very_active |-> <<19, 10>>]

(* calculateTDEE: what BMR asks for comes first. *)
Active(args, bmr) ==
    IF bmr.status # "answer" THEN bmr
    ELSE IF "activity_level" \notin DOMAIN args THEN Needs({"activity_level"})
    ELSE IF args.activity_level \notin DOMAIN ActivityFactor THEN Failed
    ELSE Answer(Times(bmr.value, ActivityFactor[args.activity_level]))

TDEE(args) == Active(args, BMR(args))

(* isAmbiguousHeightPair: "5 ft 11 ft" to centimetres. *)
AmbiguousHeightPair(input, to) ==
    /\ Len(input) = 2 /\ to = <<"cm">>
    /\ input[1].unit = input[2].unit /\ input[1].unit \in {"ft", "in"}
    /\ AtMost(Whole(3), input[1].value) /\ AtMost(input[1].value, Whole(8))
    /\ AtMost(Zero, input[2].value) /\ ~AtMost(Whole(12), input[2].value)

(* The branch of calculateConvert for a measurement, and its division. *)
ConvertInput(input, per, to) ==
    LET dims(m) == Dimension(Category(m[1]))
        refused(m) == ~Sound(m) \/ Category(m[1]) = "temperature"
        divided == per # << >>
    IN  IF input = << >> \/ Len(input) > 2 \/ AmbiguousHeightPair(input, to) THEN Needs({"input"})
        ELSE IF \E m \in {input, per} \ {<< >>} : refused(m) THEN Failed
        ELSE ConvertBase(Over(Total(input), IF divided THEN Total(per) ELSE Whole(1)),
                         Subtract(dims(input), [c \in Categories |-> IF divided THEN dims(per)[c] ELSE 0]), to)

(* calculateConvert: a value and its unit are preferred to a measurement. *)
Convert(args) ==
    IF "to_unit" \notin DOMAIN args THEN Needs({"to_unit"})
    ELSE IF {"value", "from_unit"} \cap DOMAIN args = {}
         THEN ConvertInput(Field(args, "input"), Field(args, "per"), args.to_unit)
    ELSE IF "value" \notin DOMAIN args THEN Needs({"input"})
    ELSE IF "from_unit" \notin DOMAIN args THEN Needs({"from_unit"})
    ELSE ConvertExpression(args.value, args.from_unit, args.to_unit)

(* calculatePace and calculateSpeed: a distance over a duration, in the     *)
(* unit of the field named.                                                 *)
OverTime(args, unitField, targets) ==
    LET ask == {f \in {"distance", "duration_seconds", unitField} : Field(args, f) = << >>}
        first == IF "distance" \in ask THEN "distance"
                 ELSE IF "duration_seconds" \in ask THEN "duration_seconds" ELSE unitField
    IN  IF ask # {} THEN Needs({first})
        ELSE IF ~Positive(args.duration_seconds) \/ args[unitField][1] \notin targets THEN Failed
        ELSE IF ~Sound(args.distance) THEN Failed
        ELSE ConvertBase(Over(Total(args.distance), args.duration_seconds),
                         Subtract(Dimension("length"), Dimension("time")), args[unitField])

(* The three percentages of executeCalculator. *)
PercentOf(args) ==
    IF {"percent", "value"} \ DOMAIN args # {} THEN Needs({"percent", "value"})
    ELSE Answer(Times(Over(args.percent, Whole(100)), args.value))

PercentChange(args) ==
    LET share == Over(args.percent, Whole(100))
    IN  IF {"percent", "value"} \ DOMAIN args # {} THEN Needs({"percent", "value"})
        ELSE IF "direction" \notin DOMAIN args THEN Needs({"direction"})
        ELSE IF args.direction = "increase" THEN Answer(Times(args.value, Plus(Whole(1), share)))
        ELSE IF args.direction = "decrease" THEN Answer(Times(args.value, Minus(Whole(1), share)))
        ELSE Failed

PercentRatio(args) ==
    IF {"part", "whole"} \ DOMAIN args # {} THEN Needs({"part", "whole"})
    ELSE IF args.whole = Zero THEN Failed
    ELSE Answer(Times(Over(args.part, args.whole), Whole(100)))

---------------------------------------------------------------------------
(* The expression parser.  A token is [n, w]: a number token has n = <<v>>  *)
(* and w = "", any other has n empty.  A reading is where the parser is and *)
(* the value it has parsed, << >> before it has parsed any; position 0 is   *)
(* an error.  Level 1 is parseExpression, 2 parseTerm and 3 parseFactor.    *)
Operators == <<{"+", "-"}, {"*", "/"}, {}>>
Parsed == [at : Nat, value : Seq(Int \X Int)]
From(at) == [at |-> at, value |-> << >>]
Read(at, v) == [at |-> at, value |-> <<v>>]
Stuck == Read(0, Zero)

Combine(op, left, right) ==
    LET l == left.value[1]
        r == right.value[1]
    IN  IF right.at = 0 \/ (op = "/" /\ r = Zero) THEN Stuck
        ELSE Read(right.at, CASE op = "+" -> Plus(l, r)
                              [] op = "-" -> Minus(l, r)
                              [] op = "*" -> Times(l, r)
                              [] op = "/" -> Over(l, r))

Closed(tokens, inner) ==
    IF inner.at \in DOMAIN tokens /\ tokens[inner.at].w = ")" THEN Read(inner.at + 1, inner.value[1])
    ELSE Stuck

(* The right operand of a level is read at the next one. *)
(* MUTANT of RightLevel: it takes the rest of its level. *)
SameLevel(level) == level
RightLevel(level) == level + 1

(* A factor is a parenthesis, a sign or a number; a level reads a first     *)
(* operand and then applies its operators from the left, each to what the   *)
(* next level reads after it.                                               *)
Parse(tokens) ==
    LET read[level \in 1 .. 3, r \in Parsed] ==
          LET next == IF r.at \in DOMAIN tokens THEN tokens[r.at].w ELSE "end"
          IN  IF r.value # << >>
              THEN IF next \notin Operators[level] THEN r
                   ELSE read[level, Combine(next, r, read[RightLevel(level), From(r.at + 1)])]
              ELSE IF level < 3 THEN read[level, read[level + 1, r]]
              ELSE CASE next = "(" -> Closed(tokens, read[1, From(r.at + 1)])
                     [] next = "-" -> Combine("-", Read(r.at, Zero), read[3, From(r.at + 1)])
                     [] next = ""  -> Read(r.at + 1, tokens[r.at].n[1])
                     [] OTHER      -> Stuck
    IN  read[1, From(1)]

(* evalExpression: everything must have been read. *)
Evaluate(tokens) ==
    LET r == Parse(tokens)
    IN  IF r.at = Len(tokens) + 1 THEN Answer(r.value[1]) ELSE Failed

---------------------------------------------------------------------------
(* executeCalculator: an expression wins and takes no other operation. *)
Execute(args) ==
    LET op == IF "operation" \in DOMAIN args THEN args.operation ELSE ""
    IN  IF Field(args, "expression") # << >>
        THEN IF op \in {"", "expression"} THEN Evaluate(args.expression) ELSE Failed
        ELSE CASE op = "expression"     -> Needs({"expression"})
               [] op = "bmi"            -> BMI(args)
               [] op = "bmr"            -> BMR(args)
               [] op = "tdee"           -> TDEE(args)
               [] op = "convert"        -> Convert(args)
               [] op = "pace"           -> OverTime(args, "pace_unit", {"min_per_km", "min_per_mile"})
               [] op = "speed"          -> OverTime(args, "speed_unit", {"km_h", "mph", "m_s"})
               [] op = "percent_of"     -> PercentOf(args)
               [] op = "percent_change" -> PercentChange(args)
               [] op = "percent_ratio"  -> PercentRatio(args)
               [] OTHER                 -> Needs({"operation"})

Calculate(args) == Execute(Sanitize(args))
=============================================================================
