-------------------------------- MODULE Text --------------------------------
(***************************************************************************)
(* What the orchestrator reads in a message: the regular expressions and   *)
(* parse functions of src/src/orchestrator/tools/infer.go, weather.go and   *)
(* validate.go.                                                            *)
(*                                                                         *)
(* A text is a sequence of tokens [n, w]: a word w, a number n (empty or    *)
(* <<v>>), or a number with the word that follows it ("70 kg").  A parse    *)
(* function returns << >> when it finds nothing and <<v>> when it finds v.  *)
(***************************************************************************)
EXTENDS Calculator, FiniteSets

Word(w) == [n |-> << >>, w |-> w]
Number(k) == [n |-> <<Whole(k)>>, w |-> ""]
Amount(k, w) == [n |-> <<Whole(k)>>, w |-> w]

Words(text) == {text[i].w : i \in DOMAIN text}
Says(text, words) == Words(text) \cap words # {}
Bare(t) == t.n # << >> /\ t.w = ""

(* The first position of a set of them, as a found value. *)
First(positions) ==
    IF positions = {} THEN << >> ELSE <<CHOOSE i \in positions : \A j \in positions : i <= j>>

Or(found, other) == IF found = << >> THEN other ELSE found

(* The first of some words, in the order the code tries them. *)
FirstSaid(text, words) ==
    LET said == First({i \in DOMAIN words : words[i] \in Words(text)})
    IN  IF said = << >> THEN << >> ELSE <<words[said[1]]>>

---------------------------------------------------------------------------
(* Words with a slash are unit expressions; the unit before the slash is    *)
(* also what the measure patterns read.  "kiloggram" stands for the         *)
(* spellings the parser accepts and the evidence patterns do not.           *)
Slashed ==
    [w \in {"km/h", "km/hr", "mi/hr", "min/km", "min/mile", "kg/l"} |->
        CASE w \in {"km/h", "km/hr"} -> <<"km", "hr">>
          [] w = "mi/hr"    -> <<"mi", "hr">>
          [] w = "min/km"   -> <<"min", "km">>
          [] w = "min/mile" -> <<"min", "mi">>
          [] w = "kg/l"     -> <<"kg", "l">>]

Unit(w) ==
    IF w \in DOMAIN Slashed THEN Slashed[w][1] ELSE IF w = "kiloggram" THEN "kg" ELSE w

FirstAmount(text, units) ==
    First({i \in DOMAIN text : text[i].n # << >> /\ Unit(text[i].w) \in units})

MeasureAt(text, at) ==
    IF at = << >> THEN << >>
    ELSE LET t == text[at[1]] IN << <<Measure(t.n[1], Unit(t.w))>> >>

(* parseWeightComponents *)
ParseWeight(text) == MeasureAt(text, FirstAmount(text, {"kg", "g", "lb"}))

(* parseHeightComponents: feet, with the number that follows them as        *)
(* inches whatever its own unit, before any other length.                   *)
HeightFrom(text, feet) ==
    LET ft   == text[feet[1]].n[1]
        next == feet[1] + 1
    IN  IF feet = << >> THEN MeasureAt(text, FirstAmount(text, {"cm", "m", "km", "in", "mi"}))
        ELSE IF next <= Len(text) /\ text[next].n # << >>
        THEN << <<Measure(ft, "ft"), Measure(text[next].n[1], "in")>> >>
        ELSE << <<Measure(ft, "ft")>> >>

ParseHeight(text) == HeightFrom(text, FirstAmount(text, {"ft"}))

(* parseGenericMeasurementComponents: a height, a weight, any measure. *)
ParseMeasure(text) ==
    Or(ParseHeight(text), Or(ParseWeight(text), MeasureAt(text, FirstAmount(text, DOMAIN Simple))))

(* The unit expression of a word. *)
UnitExpression(w) ==
    IF w \in DOMAIN Slashed THEN Slashed[w]
    ELSE IF w \in DOMAIN Aliases THEN Aliases[w] ELSE <<Unit(w)>>

(* parseUnitOnly: a compound unit, the unit of a measure, any unit. *)
ParseUnit(text) ==
    LET compound == First({i \in DOMAIN text : text[i].w \in DOMAIN Slashed})
        measured == FirstAmount(text, DOMAIN Simple)
        any      == First({i \in DOMAIN text : Unit(text[i].w) \in DOMAIN Simple \cup Temperatures \cup DOMAIN Aliases})
        at(found) == IF found = << >> THEN << >> ELSE <<UnitExpression(text[found[1]].w)>>
    IN  at(compound \o measured \o any)

(* parseConvertTargetUnit: the unit after "to", "into" or "in" at the end. *)
ParseTarget(text) ==
    IF Len(text) >= 2 /\ Last(text).n = << >> /\ text[Len(text) - 1].w \in {"to", "into", "in"}
    THEN ParseUnit(<<Last(text)>>) ELSE << >>

(* parseValueWithUnitExpression: a number and its unit, compound or not. *)
ParseValueUnit(text) ==
    LET from(t) == [value |-> t.n[1], from_unit |-> UnitExpression(t.w)]
        read(at) == IF at = << >> THEN << >> ELSE <<from(text[at[1]])>>
    IN  read(FirstAmount(text, {"mph", "kph", "mps"} \cup Temperatures \cup DOMAIN Simple))

---------------------------------------------------------------------------
(* What is said of a person.  parseAgeYears: years, or a number after "age" *)
(* or "age is"; a bare number only as the answer to the question.           *)
AfterAge(text, i) ==
    /\ i > 1 /\ text[i].n # << >>
    /\ text[i - 1].w = "age" \/ (i > 2 /\ text[i - 1].w = "is" /\ text[i - 2].w = "age")

ParseAge(text, allowBare) ==
    LET said == First({i \in DOMAIN text : AfterAge(text, i) \/ (text[i].n # << >> /\ text[i].w = "years")})
    IN  IF said # << >> THEN text[said[1]].n
        ELSE IF allowBare /\ Len(text) = 1 /\ Bare(text[1]) THEN text[1].n ELSE << >>

ParseGender(text) ==
    LET said == First({i \in DOMAIN text : text[i].w \in {"male", "man", "female", "woman"}})
    IN  IF said = << >> THEN << >>
        ELSE IF text[said[1]].w \in {"male", "man"} THEN <<"male">> ELSE <<"female">>

ActivityLevels == <<"very_active", "moderate", "sedentary", "light", "active">>
ParseActivity(text) == FirstSaid(text, ActivityLevels)

ParsePace(text) ==
    IF Says(text, {"min/km"}) THEN <<"min_per_km">>
    ELSE IF Says(text, {"min/mile"}) THEN <<"min_per_mile">> ELSE << >>

ParseSpeed(text) ==
    IF Says(text, {"km/h", "km/hr", "kph"}) THEN <<"km_h">>
    ELSE IF Says(text, {"mph"}) THEN <<"mph">>
    ELSE IF Says(text, {"m/s"}) THEN <<"m_s">> ELSE << >>

ParseDirection(text) ==
    IF Says(text, {"increase", "up"}) THEN <<"increase">>
    ELSE IF Says(text, {"decrease", "down"}) THEN <<"decrease">> ELSE << >>

(* The evidence patterns of GroundCall: narrower than the parsers. *)
ShowsAmount(text, units) ==
    \E i \in DOMAIN text : text[i].n # << >> /\ text[i].w # "kiloggram" /\ Unit(text[i].w) \in units

Evidence(text, attr) ==
    CASE attr = "weight" -> ShowsAmount(text, {"kg", "g", "lb"})
      [] attr = "height" -> ShowsAmount(text, {"ft", "in", "mm", "cm", "m"})
      [] attr = "age_years" -> \E i \in DOMAIN text :
                               text[i].n # << >> /\ (text[i].w = "years" \/ (i > 1 /\ text[i - 1].w = "age"))
      [] attr = "gender" -> Says(text, {"male", "female", "man", "woman"})
      [] attr = "activity_level" -> \E i \in DOMAIN ActivityLevels : ActivityLevels[i] \in Words(text)

---------------------------------------------------------------------------
(* Arithmetic: the prefix is dropped and the rest must be numbers and       *)
(* operators, one of them between two numbers.                              *)
Spoken == [plus |-> "+", minus |-> "-", times |-> "*", over |-> "/"]
Signs == {"+", "-", "*", "/", "(", ")"}

ParseArithmetic(text) ==
    LET body == IF text # << >> /\ text[1].w \in {"what is", "calculate"} THEN Tail(text) ELSE text
        expression == [i \in DOMAIN body |->
                         IF body[i].w \in DOMAIN Spoken THEN Word(Spoken[body[i].w]) ELSE body[i]]
        binary(i) == /\ Bare(expression[i]) /\ expression[i + 1].w \in {"+", "-", "*", "/"}
                     /\ \/ Bare(expression[i + 2])
                        \/ /\ i + 3 <= Len(body)
                           /\ expression[i + 2].w \in {"+", "-"} /\ Bare(expression[i + 3])
    IN  IF /\ \A i \in DOMAIN body : Bare(expression[i]) \/ expression[i].w \in Signs
           /\ \E i \in 1 .. Len(body) - 2 : binary(i)
        THEN <<expression>> ELSE << >>

(* percentOfPattern: "20 percent of 50". *)
ParsePercentOf(text) ==
    LET at == First({i \in 1 .. Len(text) - 2 :
                       /\ text[i].n # << >> /\ text[i].w = "percent"
                       /\ text[i + 1].w = "of" /\ text[i + 2].n # << >>})
    IN  IF at = << >> THEN << >> ELSE << <<text[at[1]].n[1], text[at[1] + 2].n[1]>> >>

---------------------------------------------------------------------------
(* The words of the requests InferToolCall recognises. *)
SearchWords == {"look up", "search online", "verify online"}
SisterWords == {"older sister", "chatgpt"}
WeatherWords == {"weather", "temperature", "forecast", "rain", "snow"}
FallbackWords == {"explain", "write a"}
TimeWords == {"time", "date", "day", "today", "tomorrow"}
AskingWords == {"what", "what is", "when", "now", "today", "tomorrow"}

IsSearch(text) == Says(text, SearchWords)
IsSister(text) == Says(text, SisterWords)
IsFallback(text) ==
    /\ Says(text, FallbackWords)
    /\ ~Says(text, WeatherWords \cup {"time", "date", "bmi", "bmr", "tdee", "convert", "percent"})
IsTime(text) == Says(text, TimeWords) /\ Says(text, AskingWords)

(* The weather requests: the day, the focus, the hour and the place.        *)
(* parseWeatherHour: "at 5pm"; midnight is hour 0.                          *)
HourOf(t) ==
    LET said == t.n[1][1]
    IN  CASE t.w = "am" -> IF said = 12 THEN 0 ELSE said
          [] t.w = "pm" -> IF said = 12 THEN 12 ELSE said + 12
          [] OTHER -> said

ParseHour(text) ==
    LET at == First({i \in 2 .. Len(text) : text[i - 1].w = "at" /\ text[i].n # << >>})
    IN  IF at = << >> THEN << >>
        ELSE IF HourOf(text[at[1]]) \notin 0 .. 23 THEN << >> ELSE <<HourOf(text[at[1]])>>

ParseWhen(text) ==
    IF Says(text, {"tomorrow"}) THEN <<"tomorrow">>
    ELSE IF Says(text, {"evening", "tonight"}) THEN <<"evening">>
    ELSE IF Says(text, {"today"}) THEN <<"today">>
    ELSE IF Says(text, {"temperature", "weather", "forecast"}) THEN <<"current">>
    ELSE IF ParseHour(text) # << >> THEN <<"today">> ELSE << >>

ParseFocus(text) ==
    IF Says(text, {"rain"}) THEN <<"rain">>
    ELSE IF Says(text, {"temperature"}) THEN <<"temperature">>
    ELSE IF Says(text, {"weather", "forecast"}) THEN <<"general">> ELSE << >>

(* ExtractWeatherLocation: everything after the first "in" or "for" behind  *)
(* a word of the weather, unless it is a day or an hour.                    *)
ParseLocation(text) ==
    LET at == First({i \in 2 .. Len(text) - 1 :
                       /\ text[i].w \in {"in", "for"}
                       /\ \E j \in 1 .. i - 1 : text[j].w \in WeatherWords \ {"snow"}})
        place == SubSeq(text, at[1] + 1, Len(text))
    IN  IF at = << >> THEN << >>
        ELSE IF Len(place) = 1 /\ (place[1].w \in {"today", "tomorrow", "evening", "tonight"} \/ place[1].n # << >>)
        THEN << >> ELSE <<place>>

---------------------------------------------------------------------------
(* ValidateCalculatorCall: readings of a text that need a question, whatever *)
(* the operation: "5 11 ft" and "70 kg lb".                                  *)
BareHeights(text) ==
    {i \in 1 .. Len(text) - 1 :
        text[i].n # << >> /\ text[i].w = "" /\ text[i + 1].n # << >> /\ text[i + 1].w \in {"ft", "in"}}

AdjacentWeights(text) ==
    \E i \in 1 .. Len(text) - 1 :
        /\ text[i].n # << >> /\ text[i].w \in {"kg", "g", "lb"}
        /\ text[i + 1].n = << >> /\ text[i + 1].w \in {"kg", "g", "lb"} \ {text[i].w}

Ambiguous(text) ==
    LET at == First(BareHeights(text))
    IN  IF at = << >> THEN AdjacentWeights(text)
        ELSE text[at[1]].n[1][1] \in 3 .. 8 /\ text[at[1] + 1].n[1][1] \in 0 .. 11
=============================================================================
