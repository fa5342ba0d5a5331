------------------------------- MODULE MCTurn -------------------------------
(* An instance of Turn for TLC: what is said, the catalogs, the settings.   *)
EXTENDS Turn

kg70 == Amount(70, "kg")
cm180 == Amount(180, "cm")
years30 == Amount(30, "years")
male == Word("male")
boston == <<Word("boston")>>

Places5 == {boston, Append(boston, Word("massachusetts")), <<Word("new york")>>}

(* What the user may ask ... *)
Requested ==
  {<<Word("bmi"), kg70, Amount(5, "ft"), Amount(11, "in")>>,
   <<Word("bmr"), kg70, cm180>>,
   <<Word("tdee"), Word("age"), Word("is"), Number(30), male, kg70>>,
   <<Word("bmi"), Number(5), Amount(11, "ft"), kg70>>,
   <<Word("my"), Word("weight"), Word("is"), kg70>>,
   <<Word("convert"), Amount(5, "km")>>,
   <<Word("weather"), Word("tomorrow"), Word("at"), Amount(5, "pm")>>,
   <<Word("rain"), Word("in"), Word("atlantis"), Word(","), Word("ma")>>,
   <<Word("look up"), Word("news")>>,
   <<Word("help")>>}

(* ... and reply. *)
Answered ==
  {<<years30>>, <<male>>, <<years30, male>>, <<Number(30)>>, <<Word("mi")>>, boston,
   <<Word("cancel")>>, <<Amount(5, "ft"), Amount(11, "in")>>, <<Amount(80, "kg")>>,
   <<Word("moderate")>>, <<Word("help")>>, <<Word("bmr"), kg70, cm180>>}

(* Fewer of them, which the model has to recognise.                         *)
Recognised ==
  {<<Word("bmr"), kg70, cm180>>, <<Word("my"), Word("weight"), Word("is"), kg70>>,
   <<Word("weather"), Word("tomorrow"), Word("at"), Amount(5, "pm")>>}
Understood ==
  {<<years30>>, <<years30, male>>, <<Amount(5, "ft"), Amount(11, "in")>>, <<Word("help")>>, boston}

(* Sums: trees of numbers and operators, printed with the parentheses they  *)
(* need, and what they mean.                                                *)
Leaf(k) == [op |-> "", k |-> k]
Tree(op, l, r) == [op |-> op, l |-> l, r |-> r]
Ops == {"+", "-", "*", "/"}
Pairs == {Tree(op, Leaf(j), Leaf(k)) : op \in Ops, j \in {2, 3}, k \in {2, 3}}
Sides == Pairs \cup {Leaf(k) : k \in {-4, 2, 3}}
Trees == {Tree(op, l, r) : op \in Ops, l \in Sides, r \in Sides}

Binds(op) == IF op = "" THEN 3 ELSE IF op \in {"*", "/"} THEN 2 ELSE 1
Enclosed(text) == <<Word("(")>> \o text \o <<Word(")")>>

PrintedPair(t) ==
  LET leaf(k) == IF k < 0 THEN <<Word("-"), Number(-k)>> ELSE <<Number(k)>>
  IN  IF t.op = "" THEN leaf(t.k) ELSE leaf(t.l.k) \o <<Word(t.op)>> \o leaf(t.r.k)
Printed(t) ==
  (IF Binds(t.l.op) < Binds(t.op) THEN Enclosed(PrintedPair(t.l)) ELSE PrintedPair(t.l))
    \o <<Word(t.op)>>
    \o (IF Binds(t.r.op) <= Binds(t.op) THEN Enclosed(PrintedPair(t.r)) ELSE PrintedPair(t.r))

Apply(op, l, r) ==
  IF l = << >> \/ r = << >> \/ (op = "/" /\ r = <<Zero>>) THEN << >>
  ELSE <<CASE op = "+" -> Plus(l[1], r[1])
           [] op = "-" -> Minus(l[1], r[1])
           [] op = "*" -> Times(l[1], r[1])
           [] op = "/" -> Over(l[1], r[1])>>
Value(t) == IF t.op = "" THEN <<Whole(t.k)>> ELSE Apply(t.op, <<Whole(t.l.k)>>, <<Whole(t.r.k)>>)
Meaning(t) == Apply(t.op, Value(t.l), Value(t.r))

Percentage == <<Amount(20, "percent"), Word("of"), Number(50)>>

(* What each text means; << >> where it means nothing. *)
Readings ==
  {<<Printed(t), Meaning(t)>> : t \in Trees} \cup {<<Percentage, <<Whole(10)>>>>}
Sums == {reading[1] : reading \in Readings}

(* Conversions, trips and changes. *)
Conversions ==
  {<<Amount(60, "km/h"), Word("to"), Word("mph")>>,
   <<Amount(6, "min/km"), Word("to"), Word("km/h")>>,
   <<Amount(50, "f"), Word("to"), Word("c")>>,
   <<Amount(5, "mi"), Word("in"), Word("km")>>,
   <<Amount(2, "kg/l"), Word("to"), Word("kg")>>,
   <<Amount(5, "km"), Word("in"), Amount(1500, "s")>>,
   <<Amount(3, "km"), Amount(900, "s"), Word("min/mile")>>,
   <<Amount(100, "m"), Amount(10, "s"), Word("km/h")>>,
   <<Number(50), Amount(20, "percent")>>}
Particulars == {<<Word("increase")>>, <<Word("min/km")>>, <<Amount(6, "km")>>, <<Word("mi")>>}

(* The number that is computed for an expression is the one that arithmetic *)
(* gives for it (parseExpression, parseTerm, parseFactor), and a conversion, *)
(* a pace or a speed that is answered can be turned back (units.go).         *)
NumbersRight ==
  /\ turn.text \in Sums /\ outcome.kind # "none" =>
       \/ outcome.kind = "error"
       \/ outcome.kind = "answer" /\ <<turn.text, <<outcome.result>>>> \in Readings
  /\ ConversionInverts
  /\ TripTakesTheTime

---------------------------------------------------------------------------
Route(id, prefix, domain, target, op) ==
  [id |-> id, prefix |-> prefix, domain |-> domain, target |-> target, op |-> op]

First3 ==
  [domains |-> {"calculator", "time"},
   routes |-> {Route("calculator.bmi", "calculator", "calculator", "calculator", "bmi"),
               Route("get_time.current", "get_time", "time", "get_time", ""),
               Route("weather.forecast", "weather", "", "weather", ""),
               Route("", "", "time", "get_time", "")}]
Second3 ==
  [domains |-> {"memory"},
   routes |-> {Route("calculator.bmi", "calculator", "", "calculator", "bmi"),
               Route("internet.search", "internet", "internet", "internet.search", ""),
               Route("memory.answer", "memory", "memory", "memory.answer", "")}]
NoRoutesLeft == [domains |-> {"time"}, routes |-> {}]
TheCatalog == <<First3, Second3, NoRoutesLeft>>

Setting(shortcuts, selector, edits, others, openers, replies, ops, most) ==
  [shortcuts |-> shortcuts, selector |-> selector, online |-> shortcuts, edits |-> edits,
   others |-> others, openers |-> openers, replies |-> replies, ops |-> ops, turns |-> most]

OfBody == {"bmi", "bmr", "convert"}

(* With and without shortcuts; beside another session and edits; with a     *)
(* selector; and what is computed at once.                                  *)
ByWords == Setting(TRUE, FALSE, FALSE, {}, Requested, Answered, OfBody, 3)
ByModel == Setting(FALSE, FALSE, FALSE, {}, Recognised, Understood, OfBody, 3)
Contended == Setting(FALSE, TRUE, TRUE, {"other"}, {<<Word("help")>>}, {}, {}, 1)
ByRoutes == Setting(FALSE, TRUE, FALSE, {}, Requested, Answered, OfBody, 1)
Arithmetic == Setting(TRUE, FALSE, FALSE, {}, Sums, {}, {}, 1)
InUnits ==
  Setting(FALSE, FALSE, FALSE, {}, Conversions, Particulars,
          {"convert", "pace", "speed", "percent_change"}, 2)
TheSettings == <<ByWords, ByModel, Contended, ByRoutes, Arithmetic, InUnits>>

MadeUp ==
  [weight |-> <<Measure(Whole(60), "kg")>>, height |-> <<Measure(Whole(150), "cm")>>,
   age_years |-> Whole(50), gender |-> "female", activity_level |-> "light"]

TheForecasts ==
  {<< >>, <<[days |-> 1, hours |-> (0 :> {17, 18}) @@ (1 :> {})]>>,
   <<[days |-> 2, hours |-> (0 :> {9}) @@ (1 :> {17, 18})]>>}
BothCallers == {"me", "other"}
=============================================================================
