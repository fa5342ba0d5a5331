-------------------------------- MODULE Turn --------------------------------
(***************************************************************************)
(* What the turns of one session come to, with the arguments of the tools  *)
(* (runChat of src/src/orchestrator/chat.go, pending.go, route_decision.go, *)
(* toolcalls.go): a message answers a pending question, is recognised by    *)
(* its words, or goes to the model, which is first shown the routes of the  *)
(* selector when there is one.  The call is held against what the user      *)
(* said, completed from the latest message, and executed.                   *)
(*                                                                         *)
(* The turns of the session do not overlap (Chat is about those that do);   *)
(* the retrievals of other sessions and edits of the catalog go on beside   *)
(* them.  A decision is one call.  The model may leave out what the text    *)
(* says, remember what was said before, and make up or mishear what is said *)
(* of a person.  The fields texts, taken, lost and asked of a turn are      *)
(* history.                                                                 *)
(***************************************************************************)
EXTENDS Weather, ChatContext, Routing

CONSTANTS
  Me,          \* the caller of Retrieve that is this session
  Settings,    \* the configurations explored, with the texts the user may send
  Invented,    \* what the model makes up of a person: a value for each field
  Forecasts    \* what the weather service may send

(* shortcuts is DeterministicToolShortcuts, selector tells whether there is *)
(* a route selector, online whether the session may search; edits and       *)
(* others whether the catalog is edited and which other sessions retrieve,  *)
(* ops the operations the model may choose without a route; a session has   *)
(* at most so many turns.                                                   *)
ASSUME SettingsAreSettings ==
  \A s \in Range(Settings) :
    /\ {s.shortcuts, s.selector, s.online, s.edits} \subseteq BOOLEAN
    /\ s.others \subseteq Callers \ {Me} /\ s.turns \in Nat
    /\ << >> \notin s.openers \cup s.replies

ASSUME SessionIsACaller == Me \in Callers

(* Texts are sequences of tokens; the grammar the model answers in has an   *)
(* operation in every call of the calculator (calc_args of scripts/grammars *)
(* /tool_list.gbnf).                                                        *)
Token == [n : {n \in Seq(Int \X Int) : Len(n) <= 1}, w : STRING]
ASSUME TextsAreTokens == \A s \in Range(Settings) : s.openers \cup s.replies \subseteq Seq(Token)
ASSUME OperationsAreNamed == \A s \in Range(Settings) : s.ops \subseteq STRING \ {""}

VARIABLES
  setting,     \* the configuration, as an index of Settings
  messages,    \* the transcript of the session
  pending,     \* the pending question of the session
  turn,        \* the turn under way, or the last one
  outcome,     \* what it came to
  turns        \* bound: turns so far

dialogue == <<messages, pending, turn, outcome, turns>>
allVars == <<setting, dialogue, vars>>

Config == Settings[setting]

NoPending == [tool |-> ""]
Nothing == [kind |-> "none", call |-> NoCall, result |-> << >>]
NoTurn == [at |-> "idle", text |-> << >>, call |-> NoCall, resumed |-> FALSE, origin |-> << >>,
           texts |-> {}, taken |-> {}, lost |-> FALSE, asked |-> NoPending]

TurnInit ==
  /\ Init
  /\ setting \in DOMAIN Settings
  /\ messages = << >> /\ pending = NoPending /\ turn = NoTurn /\ outcome = Nothing /\ turns = 0

At(place) == turn.at = place
Goes(t) == turn' = t /\ UNCHANGED <<setting, messages, pending, outcome, turns, vars>>
Executes(call) == [turn EXCEPT !.at = "run", !.call = call]

(* How a turn ends.  An error leaves the transcript and the question as     *)
(* they are.                                                                *)
UserSaid == [role |-> "user", text |-> turn.text, asks |-> FALSE]
Ends(kind, call, result) ==
  /\ turn' = [turn EXCEPT !.at = "idle"]
  /\ outcome' = [kind |-> kind, call |-> call, result |-> result]
  /\ UNCHANGED <<setting, turns>>

Replies(asks) ==
  messages' = messages \o <<UserSaid, [role |-> "assistant", text |-> << >>, asks |-> asks]>>

Errs == Ends("error", turn.call, << >>) /\ UNCHANGED <<messages, pending>>

---------------------------------------------------------------------------
(* The user sends a message. *)
Begin(text) ==
  /\ At("idle") /\ turns < Config.turns
  /\ turns' = turns + 1
  /\ turn' = [NoTurn EXCEPT !.at = IF pending = NoPending THEN "plan" ELSE "resume",
                            !.text = text, !.texts = {text},
                            !.origin = IF pending = NoPending THEN text ELSE pending.origin]
  /\ outcome' = Nothing
  /\ UNCHANGED <<setting, messages, pending, vars>>

(* resumePendingDecision: the reply cancels the question. *)
Cancels(text) == text \in {<<Word("cancel")>>, <<Word("stop")>>}
Cancel ==
  /\ At("resume") /\ Cancels(turn.text)
  /\ pending' = NoPending /\ Replies(FALSE)
  /\ Ends("canceled", NoCall, << >>) /\ UNCHANGED vars

Resumed(call, taken) ==
  [Executes(call) EXCEPT !.resumed = TRUE, !.texts = @ \cup pending.texts,
                         !.taken = pending.taken \cup taken, !.lost = pending.lost,
                         !.asked = pending]

(* The reply answers it without the model, or it may ask for another tool.  *)
FillFromReply ==
  /\ At("resume") /\ ~Cancels(turn.text)
  /\ \E filled \in {TryFill(pending, turn.text)} :
       Goes(IF filled # NoCall THEN Resumed(filled, {}) ELSE [turn EXCEPT !.at = "unanswered"])

(* pendingInterruptedByNewCall: the question is dropped for a call of       *)
(* another tool.                                                            *)
Interrupts(call) == call.tool \notin {"", pending.tool}
Shortcut == IF Config.shortcuts THEN InferTool(turn.text) ELSE NoCall

Interrupt ==
  /\ At("unanswered")
  /\ \E call \in {Shortcut} :
       IF Interrupts(call)
       THEN /\ pending' = NoPending
            /\ turn' = [Executes(call) EXCEPT !.origin = turn.text]
            /\ UNCHANGED <<setting, messages, outcome, turns, vars>>
       ELSE Goes([turn EXCEPT !.at = "update"])

(* The model is asked for an update of the call: what the reply says, what  *)
(* is missing made up, or a measure under another operation.                *)
Updates ==
  LET op == Operation(pending.args)
  IN  {CalculatorArgs(turn.text, op), [f \in pending.missing \cap DOMAIN Invented |-> Invented[f]]}
        \cup {[operation |-> other] ++ Arg("input", ParseMeasure(turn.text)) : other \in Config.ops}

(* It may also fail, or answer with something that fills nothing: the       *)
(* question is dropped.  An update of another operation is an error.        *)
ResumeByModel ==
  /\ At("update") /\ pending.tool = "calculator"
  /\ \E update \in Updates :
       \E merged \in Range(MergeArgs(pending, update)) :
         /\ pending.missing \subseteq DOMAIN merged
         /\ Goes(Resumed(Call(pending.tool, merged), pending.missing))

ResumeFails ==
  /\ At("update")
  /\ Errs /\ UNCHANGED vars

GiveUp ==
  /\ At("update")
  /\ pending' = NoPending
  /\ turn' = [turn EXCEPT !.at = "plan", !.origin = turn.text]
  /\ UNCHANGED <<setting, messages, outcome, turns, vars>>

---------------------------------------------------------------------------
(* runChat recognises the message by its words ... *)
Inferred ==
  IF InferArithmetic(turn.text) # NoCall THEN InferArithmetic(turn.text)
  ELSE IF InferSearch(turn.text) # NoCall THEN InferSearch(turn.text) ELSE Shortcut

(* ... or else retrieves routes for it, or asks the model at once.          *)
Recognise ==
  /\ At("plan")
  /\ \E call \in {Inferred} :
       Goes(IF call # NoCall THEN Executes(call)
            ELSE [turn EXCEPT !.at = IF Config.selector THEN "select" ELSE "extract"])

AskSelector ==
  /\ At("select")
  /\ ReadCatalog(Me)
  /\ turn' = [turn EXCEPT !.at = "choose"]
  /\ UNCHANGED <<setting, messages, pending, outcome, turns>>

(* Without routes the model decides freely. *)
Forget == calls' = [calls EXCEPT ![Me] = Idle] /\ UNCHANGED <<file, cache, mutex, docs, embs>>

NoRoutes ==
  /\ At("choose")
  /\ calls[Me].at = "failed" \/ (calls[Me].at = "done" /\ calls[Me].candidates = {})
  /\ Forget
  /\ turn' = [turn EXCEPT !.at = "extract"]
  /\ UNCHANGED <<setting, messages, pending, outcome, turns>>

(* validateSelectedRoute: a word the message must have. *)
Explicit == {<<"calculator.bmi", "bmi">>, <<"calculator.bmr", "bmr">>, <<"calculator.tdee", "tdee">>}
Suits(route, text) == \A rule \in Explicit : route.id = rule[1] => Says(text, {rule[2]})

(* toolCallFromRoute: these need no arguments. *)
Immediate == {"get_time", "beemo.direct"}

(* What the model extracts of the text for an operation, or for a tool.     *)
Earlier ==
  LET all == Append(messages, UserSaid) IN {HealthPatch(all[i].text) : i \in Build(all)}

Part(args, fields) == [f \in DOMAIN args \cap fields |-> args[f]]

AsNumber(found) == IF found = << >> THEN << >> ELSE turn.text[found[1]].n

TripOf(text) ==
  Arg("distance", MeasureAt(text, FirstAmount(text, {"m", "km"})))
    ++ Arg("duration_seconds", AsNumber(FirstAmount(text, {"s"})))
    ++ Arg("pace_unit", FieldAnswer("pace_unit", text, TRUE))
    ++ Arg("speed_unit", FieldAnswer("speed_unit", text, TRUE))
ShareOf(text) ==
  Arg("percent", AsNumber(FirstAmount(text, {"percent"})))
    ++ Arg("value", AsNumber(FirstAmount(text, {""}))) ++ Arg("direction", ParseDirection(text))
ConversionsOf(said, unit, found) ==
  {said ++ unit} \cup {[operation |-> "convert"] ++ f ++ unit : f \in Range(found)}
OfPerson(said, made) ==
  {Part(said, {"operation"}), said ++ made, Part(said, {"operation"}) ++ made ++ said}
    \cup {said ++ before : before \in Earlier}

FromText(text, op) ==
  CASE op = "convert"           -> ConversionsOf(CalculatorArgs(text, op), Arg("to_unit", ParseTarget(text)),
                                                 ParseValueUnit(text))
    [] op \in {"pace", "speed"} -> {TripOf(text) ++ [operation |-> op]}
    [] op = "percent_change"    -> {ShareOf(text) ++ [operation |-> op]}
    [] OTHER                    -> OfPerson(CalculatorArgs(text, op), [f \in Attrs(op) |-> Invented[f]])

PartsOf(said) == {Call("weather", Part(said, fields)) : fields \in SUBSET DOMAIN said}

Extractions(tool, ops) ==
  CASE tool = "calculator" -> {Call(tool, args) : args \in UNION {FromText(turn.text, op) : op \in ops}}
    [] tool = "weather"    -> PartsOf(WeatherUpdate(turn.text))
    [] OTHER -> {Call(tool, [query |-> turn.text])}

(* The model chooses one of the candidates, and extracts the arguments.     *)
Offline == Replies(FALSE) /\ Ends("offline", NoCall, << >>) /\ UNCHANGED pending

ChooseRoute(route) ==
  LET ops == IF route.op = "" THEN Config.ops ELSE {route.op}
  IN  /\ At("choose") /\ calls[Me].at = "done" /\ route \in calls[Me].candidates
      /\ Forget
      /\ IF ~Suits(route, turn.text) THEN Errs
         ELSE IF route.target = "internet.search" /\ ~Config.online THEN Offline
         ELSE IF route.target = "memory.answer"
              THEN Errs \/ (Ends("done", NoCall, << >>) /\ Replies(FALSE) /\ UNCHANGED pending)
         ELSE IF route.target \in Immediate
              THEN /\ turn' = Executes(Call(route.target, NoArgs))
                   /\ UNCHANGED <<setting, messages, pending, outcome, turns>>
         ELSE \E call \in Extractions(route.target, ops) :
                /\ turn' = Executes(call)
                /\ UNCHANGED <<setting, messages, pending, outcome, turns>>

(* supportedTool *)
Supported == {"get_time", "weather", "internet.search", "older_sister", "calculator",
              "memory.search", "memory.remember", "beemo.direct"}

Decide ==
  /\ At("extract")
  /\ \E tool \in Supported : \E call \in Extractions(tool, Config.ops) : Goes(Executes(call))

(* The model fails, or what it writes can't be parsed the second time       *)
(* either, or names no route.                                               *)
ModelFails ==
  /\ At("extract") \/ (At("choose") /\ calls[Me].at = "done" /\ calls[Me].candidates # {})
  /\ Forget /\ Errs

---------------------------------------------------------------------------
(* The tools.  A tool that succeeds settles the question; then the answer   *)
(* is the result itself or worded by the model, which may fail.             *)
Succeeds(kind, call, result) ==
  /\ pending' = NoPending
  /\ \/ \E asks \in BOOLEAN : Replies(asks) /\ Ends(kind, call, result)
     \/ Ends("error", call, << >>) /\ UNCHANGED messages

Asks(call, missing, lost) ==
  /\ pending' = [tool |-> call.tool, args |-> call.args, missing |-> missing,
                 origin |-> turn.origin, texts |-> turn.texts, taken |-> turn.taken,
                 lost |-> turn.lost \/ lost]
  /\ Replies(TRUE) /\ Ends("asks", call, missing)

Evidenced ==
  IF turn.resumed THEN turn.call
  ELSE Ground(turn.call, UserEvidence(Append(messages, UserSaid)))

Computed(call, result) ==
  \/ result.status = "error" /\ Errs
  \/ result.status = "needs_input" /\ Asks(call, result.missing, FALSE)
  \/ result.status = "answer" /\ Succeeds("answer", call, result.value)

Compute(args) ==
  IF MustAsk(args, turn.text) THEN Asks(Call("calculator", args), {"input"}, FALSE)
  ELSE \E result \in {Calculate(args)} : Computed(Call("calculator", args), result)

RunCalculator ==
  /\ At("run") /\ turn.call.tool = "calculator"
  /\ \E resolved \in {Resolve(Evidenced.args, turn.text)} :
       IF resolved = << >> THEN Errs ELSE \E args \in Range(resolved) : Compute(args)
  /\ UNCHANGED vars

Time == {"when", "hour_local"}

(* A place that is not found is asked for, with the call as it was before   *)
(* it was completed from the text.                                          *)
Reported(call, report) ==
  \/ report.status = "error" /\ Errs
  \/ report.status = "needs_input" /\ Asks(call, {"location"}, FALSE)
  \/ report.status = "answer" /\ Succeeds("report", call, report)

Locate(args) ==
  IF "location" \in DOMAIN args /\ ~Findable(args.location)
  THEN Asks(turn.call, {"location"}, Part(Normalize(turn.call.args), Time) # Part(args, Time))
  ELSE \E found \in {IF "location" \in DOMAIN args THEN Located(args) ELSE args} :
         \E report \in {ExecuteWeather(found, forecast) : forecast \in Forecasts} :
            Reported(Call("weather", found), report)

RunWeather ==
  /\ At("run") /\ turn.call.tool = "weather"
  /\ \E args \in {ResolveWeather(turn.call.args, turn.text)} : Locate(args)
  /\ UNCHANGED vars

RunOther ==
  /\ At("run") /\ turn.call.tool \notin {"calculator", "weather"}
  /\ IF turn.call.tool = "internet.search" /\ ~Config.online THEN Offline
     ELSE IF turn.call.tool = "beemo.direct"
          THEN Errs \/ (Replies(FALSE) /\ Ends("done", turn.call, << >>) /\ UNCHANGED pending)
     ELSE Errs \/ Succeeds("done", turn.call, << >>)
  /\ UNCHANGED vars

---------------------------------------------------------------------------
Beside ==
  /\ \/ Config.edits /\ \E v \in Versions : Edit(v)
     \/ \E c \in Config.others : Retrieve(c)
     \/ /\ At("choose")
        /\ Enter(Me) \/ SyncDocuments(Me) \/ SyncEmbeddings(Me)
             \/ EmbedCatalog(Me) \/ Fail(Me) \/ Rank(Me)
  /\ UNCHANGED <<setting, dialogue>>

Resume == Cancel \/ FillFromReply \/ Interrupt \/ ResumeByModel \/ ResumeFails \/ GiveUp
Plan == Recognise \/ AskSelector \/ NoRoutes \/ Decide \/ ModelFails
          \/ \E route \in calls[Me].candidates : ChooseRoute(route)
Run == RunCalculator \/ RunWeather \/ RunOther

TurnNext ==
  \/ \E text \in IF pending = NoPending THEN Config.openers ELSE Config.replies : Begin(text)
  \/ Resume \/ Plan \/ Run \/ Beside

TurnSpec == TurnInit /\ [][TurnNext]_allVars

---------------------------------------------------------------------------
(* Properties.  What a text says of a person is read from its tokens, not   *)
(* by the parsers above: the amounts in some units, and the ages.           *)
AmountsIn(text, units) == {i \in DOMAIN text : text[i].n # << >> /\ Unit(text[i].w) \in units}
UnitsOf(category) == {u \in DOMAIN Simple : Simple[u].of = category}

AgesIn(text) ==
  {i \in DOMAIN text :
     /\ text[i].n # << >>
     /\ \/ text[i].w = "years" \/ (i > 1 /\ text[i - 1].w = "age")
        \/ (i > 2 /\ <<text[i - 2].w, text[i - 1].w>> = <<"age", "is">>)}

Mentions(text, field) ==
  CASE field \in {"weight", "height"} -> AmountsIn(text, UnitsOf(KindOf[field])) # {}
    [] field = "age_years" -> AgesIn(text) # {}
    [] field = "gender" -> Says(text, {"male", "female", "man", "woman"})
    [] field = "activity_level" -> Says(text, DOMAIN ActivityFactor)
    [] OTHER -> FALSE

(* The same in a unit a person is measured in.                              *)
Measured == [weight |-> {"kg", "g", "lb"}, height |-> {"ft", "in", "cm", "m", "km", "mi"}]
Gives(text, field) ==
  Mentions(text, field) /\ (field \in DOMAIN Measured => AmountsIn(text, Measured[field]) # {})

Personal(call) == call.tool = "calculator" /\ Attrs(Operation(call.args)) # {}
Heard == {messages[i].text : i \in {j \in DOMAIN messages : messages[j].role = "user"}}
SaidAt(text, i) == Measure(text[i].n[1], Unit(text[i].w))

(* A number about a person is computed from what the latest message gives,  *)
(* in its units, whatever the model extracted or an earlier answer left in  *)
(* the call (ResolveCalculatorCall): from the one amount it gives, or feet  *)
(* and the inches right after them.  Other numbers after feet are taken for *)
(* inches by the code, and left out here.                                   *)
StatedIsUsed ==
  outcome.kind = "answer" /\ Personal(outcome.call) =>
    LET args  == outcome.call.args
        text  == turn.text
        attrs == Attrs(args.operation)
    IN  /\ \A f \in attrs \cap DOMAIN Measured, i \in DOMAIN text :
             /\ AmountsIn(text, Measured[f]) = {i}
             /\ text[i].w = "ft" /\ i < Len(text) => text[i + 1].n = << >>
             => Total(args[f]) = Total(<<SaidAt(text, i)>>)
        /\ \A i \in 1 .. Len(text) - 1 :
             /\ "height" \in attrs /\ AmountsIn(text, Measured.height) = {i, i + 1}
             /\ <<text[i].w, text[i + 1].w>> = <<"ft", "in">>
             => Total(args.height) = Total(<<SaidAt(text, i), SaidAt(text, i + 1)>>)
        /\ \A i \in DOMAIN text :
             "age_years" \in attrs /\ AgesIn(text) = {i} => args.age_years = text[i].n[1]

(* No number about a person rests on something the user never mentioned in  *)
(* the conversation, whatever the model makes up (GroundCall), except for   *)
(* the fields a question missed and the model was asked to fill from the    *)
(* reply (taken): the call it answers with is not grounded again.           *)
NothingInvented ==
  outcome.kind = "answer" /\ Personal(outcome.call) =>
    \A f \in Attrs(outcome.call.args.operation) \ turn.taken : \E t \in Heard :
       Mentions(t, f) \/ (f = "age_years" /\ Len(t) = 1 /\ Bare(t[1]))

(* The answer to a question is an answer to that question: the operation    *)
(* stays, and so does everything said before that the reply does not touch  *)
(* (mergePendingArgs, over any number of replies).                          *)
QuestionKept ==
  turn.resumed /\ outcome.kind \in {"answer", "asks"} =>
    LET was == turn.asked
        is  == outcome.call
    IN  /\ is.tool = was.tool /\ Operation(is.args) = Operation(was.args)
        /\ \A f \in (Attrs(Operation(was.args)) \cap DOMAIN was.args) \ was.missing :
             Mentions(turn.text, f) \/ Field(is.args, f) = was.args[f]

(* Nobody is asked for what they have given since the request that needs    *)
(* it: in that message, in any reply since, in any order of the replies.    *)
NotAskedAgain ==
  outcome.kind = "asks" /\ Personal(outcome.call) =>
    \A f \in outcome.result, t \in turn.texts : ~Gives(t, f)

(* The one hour a text names after "at", on the clock of 24 hours.          *)
Hours == {Amount(k, "am") : k \in 1 .. 11} \cup {Amount(k, "pm") : k \in 1 .. 12}
NamesHour(text, i) ==
  /\ {j \in 2 .. Len(text) : text[j - 1].w = "at" /\ text[j].n # << >>} = {i}
  /\ text[i] \in Hours
Clock(t) == IF t.w = "pm" THEN (t.n[1][1] % 12) + 12 ELSE t.n[1][1]

(* The weather that is reported is that of the day and the hour the request *)
(* named, also when the place is only found some replies later, and         *)
(* whatever of the request the model left out; unless the place was not     *)
(* found and the model had left the time out: it is not kept then.          *)
WeatherAsTold ==
  outcome.kind = "report" /\ ~turn.lost =>
    LET o == turn.origin
    IN  /\ Says(o, {"tomorrow"}) => outcome.result.day = 1
        /\ \A i \in DOMAIN o :
             NamesHour(o, i) /\ (\A t \in turn.texts : ~Says(t, {"evening", "tonight"})) =>
               outcome.result.kind = "hour" /\ outcome.result.hour = Clock(o[i])

(* At the pace or the speed that is computed the distance takes the time    *)
(* given (calculatePace, calculateSpeed).                                   *)
TripTakesTheTime ==
  outcome.kind = "answer" /\ Operation(outcome.call.args) \in {"pace", "speed"} =>
    LET args  == outcome.call.args
        unit  == IF args.operation = "pace" THEN args.pace_unit ELSE args.speed_unit
        speed == ConvertExpression(outcome.result, unit, <<"km", "hr">>).value
    IN  Times(speed, args.duration_seconds) = Times(Whole(3600), Over(Total(args.distance), Whole(100000)))

(* Converting the answer of a conversion back gives what was converted,     *)
(* compound units and their reciprocals included (convertBaseValueTo-       *)
(* Expression).                                                             *)
ConversionInverts ==
  outcome.kind = "answer" /\ Operation(outcome.call.args) = "convert" =>
    LET args  == outcome.call.args
        whole == "value" \in DOMAIN args
        value == IF whole THEN args.value ELSE args.input[1].value
        from  == IF whole THEN args.from_unit ELSE <<args.input[1].unit>>
    IN  whole \/ Len(args.input) = 1 =>
          ConvertExpression(outcome.result, args.to_unit, from) = Answer(value)
=============================================================================
