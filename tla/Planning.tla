------------------------------ MODULE Planning ------------------------------
(***************************************************************************)
(* From a message to a tool call (src/src/orchestrator/tools/infer.go,      *)
(* resolve.go, validate.go): the calls a text is recognised as, the answer  *)
(* to a question the tool asked, what is taken out of a call for want of    *)
(* evidence, and what the latest message puts in its place.                 *)
(*                                                                         *)
(* A call is [tool, args]; a pending call also has the fields it is missing.*)
(***************************************************************************)
EXTENDS Text

NoArgs == << >>
Call(tool, args) == [tool |-> tool, args |-> args]
NoCall == Call("", NoArgs)
Operation(args) == IF "operation" \in DOMAIN args THEN args.operation ELSE ""

(* What was found, as an argument. *)
Arg(field, found) == IF found = << >> THEN NoArgs ELSE [f \in {field} |-> found[1]]

(* extractConvertUpdate: a measure, or else a value with its unit. *)
ConvertUpdate(text) ==
    LET given(measure, value) ==
          IF measure # << >> THEN Arg("input", measure) ELSE IF value # << >> THEN value[1] ELSE NoArgs
    IN  Arg("to_unit", ParseTarget(text)) ++ given(ParseMeasure(text), ParseValueUnit(text))

(* ExtractCalculatorHealthPatch *)
HealthPatch(text) ==
    Arg("weight", ParseWeight(text)) ++ Arg("height", ParseHeight(text))
      ++ Arg("age_years", ParseAge(text, FALSE)) ++ Arg("gender", ParseGender(text))
      ++ Arg("activity_level", ParseActivity(text))

(* calculatorArgsFromText *)
CalculatorArgs(text, op) ==
    [operation |-> op] ++ HealthPatch(text) ++ (IF op = "convert" THEN ConvertUpdate(text) ELSE NoArgs)

(* extractWeatherUpdate *)
WeatherUpdate(text) ==
    Arg("when", ParseWhen(text)) ++ Arg("focus", ParseFocus(text))
      ++ Arg("hour_local", ParseHour(text)) ++ Arg("location", ParseLocation(text))

(* isConvertRequest: a target, and something to convert to it. *)
IsConvert(text) ==
    LET complete(fields) == "to_unit" \in fields /\ {"input", "value"} \cap fields # {}
    IN  complete(DOMAIN ConvertUpdate(text))

PercentCall(found) ==
    IF found = << >> THEN NoCall
    ELSE Call("calculator", [operation |-> "percent_of", percent |-> found[1][1], value |-> found[1][2]])

InferArithmetic(text) ==
    LET call(found) ==
          IF found = << >> THEN NoCall
          ELSE Call("calculator", [operation |-> "expression", expression |-> found[1]])
    IN  call(ParseArithmetic(text))

InferSearch(text) == IF IsSearch(text) THEN Call("internet.search", [query |-> text]) ELSE NoCall

(* InferToolCall: the cases in the order they are tried. *)
Recognises(text) ==
    IF IsSearch(text) THEN "search"
    ELSE IF IsSister(text) \/ IsFallback(text) THEN "older_sister"
    ELSE IF Says(text, WeatherWords) THEN "weather"
    ELSE IF IsConvert(text) THEN "convert"
    ELSE IF IsTime(text) THEN "get_time"
    ELSE Or(FirstSaid(text, <<"bmi", "bmr", "tdee", "convert">>), <<"percent_of">>)[1]

InferAs(text, what) ==
    CASE what = "search"       -> InferSearch(text)
      [] what = "older_sister" -> Call(what, [query |-> text])
      [] what = "weather"      -> Call(what, WeatherUpdate(text))
      [] what = "get_time"     -> Call(what, NoArgs)
      [] what = "percent_of"   -> PercentCall(ParsePercentOf(text))
      [] OTHER                 -> Call("calculator", CalculatorArgs(text, what))

InferTool(text) == InferAs(text, Recognises(text))

---------------------------------------------------------------------------
(* The answer to a question.  The update may only touch what was asked for, *)
(* in a conversion anything that is converted.                              *)
ConvertFields == {"input", "value", "from_unit", "to_unit", "per"}

Allowed(pending) ==
    pending.missing \cup {"operation"}
      \cup (IF Operation(pending.args) = "convert" THEN ConvertFields ELSE {})

(* coerceResumeArgsForPending: the measure of another operation is taken    *)
(* for the one measure that is missing.                                     *)
Coerced(pending, update) ==
    IF Cardinality(pending.missing) = 1 /\ "input" \in DOMAIN update
         /\ pending.missing \subseteq {"weight", "height", "distance", "input", "per"}
    THEN <<[f \in pending.missing |-> update.input]>>
    ELSE << >>

(* MUTANT of MergeArgs: the operation of the update wins. *)
MergeArgsOver(pending, update) ==
    LET op     == Operation(pending.args)
        agrees == op = "" \/ Operation(update) \in {"", op}
        chosen == IF agrees THEN <<update>> ELSE Coerced(pending, update)
        taken  == [f \in DOMAIN chosen[1] \cap Allowed(pending) |-> chosen[1][f]]
    IN  IF pending.tool # "calculator" THEN <<update ++ pending.args>>
        ELSE IF chosen = << >> THEN << >>
        ELSE <<[f \in DOMAIN update \cap {"operation"} |-> update[f]] ++ taken ++ pending.args>>

(* mergePendingArgs; nothing when the operations do not fit. *)
MergeArgs(pending, update) ==
    LET op     == Operation(pending.args)
        agrees == op = "" \/ Operation(update) \in {"", op}
        chosen == IF agrees THEN <<update>> ELSE Coerced(pending, update)
        taken  == [f \in DOMAIN chosen[1] \cap Allowed(pending) |-> chosen[1][f]]
    IN  IF pending.tool # "calculator" THEN <<update ++ pending.args>>
        ELSE IF chosen = << >> THEN << >>
        ELSE <<(IF op = "" THEN NoArgs ELSE [operation |-> op]) ++ taken ++ pending.args>>

(* What a reply says of one missing field. *)
FieldAnswer(field, reply, alone) ==
    CASE field = "weight"         -> ParseWeight(reply)
      [] field = "height"         -> ParseHeight(reply)
      [] field \in {"distance", "input", "per"} -> ParseMeasure(reply)
      [] field = "age_years"      -> ParseAge(reply, alone)
      [] field = "gender"         -> ParseGender(reply)
      [] field = "activity_level" -> ParseActivity(reply)
      [] field \in {"to_unit", "from_unit"} -> ParseUnit(reply)
      [] field = "pace_unit"      -> IF ParsePace(reply) = << >> THEN << >> ELSE <<ParsePace(reply)>>
      [] field = "speed_unit"     -> IF ParseSpeed(reply) = << >> THEN << >> ELSE <<ParseSpeed(reply)>>
      [] field = "direction"      -> ParseDirection(reply)
      [] OTHER                    -> << >>

(* TryFillPending: what the reply says of the missing fields, without the   *)
(* model.  A reply to the question for a place is the place.                *)
FillUpdate(pending, reply) ==
    LET said(answers) == [f \in {g \in DOMAIN answers : answers[g] # << >>} |-> answers[f][1]]
        alone == Cardinality(pending.missing) = 1
    IN  said([f \in pending.missing |-> FieldAnswer(f, reply, alone)])
          ++ (IF Operation(pending.args) = "convert" THEN ConvertUpdate(reply) ELSE NoArgs)

TryFill(pending, reply) ==
    LET place == ParseLocation(reply) \o <<reply>>
        fill(update) == IF DOMAIN update = {} THEN NoCall
                        ELSE Call(pending.tool, MergeArgs(pending, update)[1])
    IN  fill(CASE pending.tool = "weather" /\ "location" \in pending.missing /\ reply # << >>
                      -> [location |-> place[1]]
               [] pending.tool = "calculator" -> FillUpdate(pending, reply)
               [] OTHER                       -> NoArgs)

---------------------------------------------------------------------------
(* relevantAttrsForOperation, and the attributes GroundCall looks at. *)
Attrs(op) ==
    CASE op = "bmi"  -> {"weight", "height"}
      [] op = "bmr"  -> {"weight", "height", "age_years", "gender"}
      [] op = "tdee" -> {"weight", "height", "age_years", "gender", "activity_level"}
      [] OTHER       -> {}

(* GroundCall: an attribute of a person that no text of the conversation    *)
(* shows is taken out of the call.                                          *)
Without(call, fields) == [call EXCEPT !.args = [f \in DOMAIN @ \ fields |-> @[f]]]

(* MUTANT of Ground: the age is not looked at. *)
GroundAllButAge(call, evidence) ==
    LET attrs == Attrs(Operation(call.args)) \ {"age_years"}
    IN  IF call.tool # "calculator" THEN call
        ELSE Without(call, {a \in attrs : \A t \in evidence : ~Evidence(t, a)})

Ground(call, evidence) ==
    LET attrs == Attrs(Operation(call.args))
    IN  IF call.tool # "calculator" THEN call
        ELSE Without(call, {a \in attrs : \A t \in evidence : ~Evidence(t, a)})

(* selectHeightComponents: feet and the inches after them. *)
SelectHeight(input, feet) ==
    LET inches == First({i \in DOMAIN input : i > feet /\ input[i].unit = "in"})
    IN  IF inches = << >> THEN <<input[feet]>> ELSE <<input[feet], input[inches[1]]>>

(* canonicalizeMeasurementRaw: kilograms and centimetres, of the first      *)
(* component of the kind; nothing when the measure is not one.              *)
BaseUnit == [weight |-> "kg", height |-> "cm"]

Selected(attr, input) ==
    LET feet  == First({i \in DOMAIN input : attr = "height" /\ input[i].unit = "ft"})
        first == First({i \in DOMAIN input : Category(input[i]) = KindOf[attr]})
    IN  IF feet # << >> THEN SelectHeight(input, feet[1])
        ELSE IF first # << >> THEN <<input[first[1]]>> ELSE << >>

Canonical(attr, input) ==
    LET selected == Selected(attr, input)
    IN  IF selected = << >> THEN <<input>>
        ELSE IF ~Sound(selected) THEN << >>
        ELSE << <<Measure(Total(selected), BaseUnit[attr])>> >>

(* ResolveCalculatorCall: a conversion gets what it lacks from the latest   *)
(* message; of a person, what the latest message says wins.                 *)
(* MUTANT of Stated: the latest message only fills what is absent. *)
StatedIfAbsent(args, text) ==
    LET patch == HealthPatch(text)
    IN  args ++ [f \in DOMAIN patch \cap Attrs(Operation(args)) |-> patch[f]]

(* MUTANT of Stated: the latest message only corrects what is there. *)
StatedIfPresent(args, text) ==
    LET patch == HealthPatch(text)
    IN  [f \in DOMAIN patch \cap Attrs(Operation(args)) \cap DOMAIN args |-> patch[f]] ++ args

Stated(args, text) ==
    LET patch == HealthPatch(text)
    IN  [f \in DOMAIN patch \cap Attrs(Operation(args)) |-> patch[f]] ++ args

Canonicalize(args) ==
    LET with(measures) ==
          IF \E f \in DOMAIN measures : measures[f] = << >> THEN << >>
          ELSE <<[f \in DOMAIN measures |-> measures[f][1]] ++ args>>
    IN  with([f \in {"weight", "height"} \cap DOMAIN args |-> Canonical(f, args[f])])

Resolve(args, text) ==
    LET op == Operation(args)
    IN  IF op = "convert" THEN <<args ++ ConvertUpdate(text)>>
        ELSE IF Attrs(op) = {} THEN <<args>>
        ELSE Canonicalize(Stated(args, text))

(* ValidateCalculatorCall: whatever the operation, an ambiguous text is     *)
(* asked about.                                                             *)
MustAsk(args, text) ==
    \/ Operation(args) = "convert" /\ Len(Field(args, "input")) > 2
    \/ Ambiguous(text)
=============================================================================
