------------------------------- MODULE Weather -------------------------------
(***************************************************************************)
(* The weather tool (src/src/orchestrator/tools/weather.go,                 *)
(* weather_location.go): how a call is completed from the latest message,   *)
(* how a place is found, and which part of a forecast is reported.          *)
(***************************************************************************)
EXTENDS Planning

CONSTANT KnownPlaces     \* the places the geocoding service finds

(* normalizeWeatherArgs.  An hour of 0 is no hour. *)
Hour(args) == IF "hour_local" \in DOMAIN args THEN args.hour_local ELSE 0
When(args) == IF "when" \in DOMAIN args THEN args.when ELSE ""
Focus(args) == IF "focus" \in DOMAIN args THEN args.focus ELSE ""

Normalize(args) ==
    LET when == CASE When(args) \in {"", "current"} /\ Hour(args) > 0 -> "today"
                  [] When(args) = "" /\ Hour(args) = 0 ->
                        IF Focus(args) = "rain" THEN "today" ELSE "current"
                  [] OTHER -> When(args)
        focus == IF Focus(args) = "" THEN "general" ELSE Focus(args)
    IN  [when |-> when, focus |-> focus, hour_local |-> Hour(args)] ++ args

(* ResolveWeatherCall: what the call does not say comes from the message. *)
(* MUTANT of ResolveWeather: the hour is left to the model. *)
ResolveWeatherNoHour(args, text) ==
    LET update == WeatherUpdate(text)
    IN  Normalize(args ++ [f \in DOMAIN update \ {"hour_local"} |-> update[f]])

ResolveWeather(args, text) ==
    LET update == WeatherUpdate(text)
        hour   == IF Hour(args) = 0 /\ "hour_local" \in DOMAIN update
                  THEN [hour_local |-> update.hour_local] ELSE NoArgs
    IN  Normalize(hour ++ args ++ update)

(* weatherLocationQueryVariants: the place as it is, what stands before a   *)
(* comma, and that with the state spelled out.                              *)
States == [ma |-> "massachusetts", ny |-> "new york"]

Variants(place) ==
    LET comma == First({i \in DOMAIN place : place[i].w = ","})
        city  == SubSeq(place, 1, comma[1] - 1)
        state == place[comma[1] + 1].w
    IN  IF comma = << >> THEN {place} \cup (IF place = <<Word("nyc")>> THEN {<<Word("new york")>>} ELSE {})
        ELSE {place, city}
               \cup (IF state \in DOMAIN States THEN {Append(city, Word(States[state]))} ELSE {})

(* GeocodeWeatherLocation finds one of the variants. *)
Findable(place) == Variants(place) \cap KnownPlaces # {}

(* resolveWeatherLocation: a place that was found gets its coordinates. *)
Located(args) == [latitude |-> args.location] ++ args

(* formatWeatherResult: the report of a forecast.  A forecast gives the     *)
(* days it has and the hours it has of each of them; day 0 is today.        *)
Report(kind, day, hour) == [status |-> "answer", kind |-> kind, day |-> day, hour |-> hour]
NoReport == [status |-> "error", kind |-> "none", day |-> 0, hour |-> 0]

Daily(forecast, day) == IF day < forecast.days THEN Report("day", day, 0) ELSE NoReport

(* selectHourlyForecast *)
Hourly(forecast, day, hour) ==
    IF hour \in forecast.hours[day] THEN Report("hour", day, hour) ELSE NoReport

(* selectEveningHour: of 17 to 21, the hour nearest to 18, the earlier of   *)
(* two.                                                                     *)
Evening(forecast) ==
    LET hours == forecast.hours[0] \cap 17 .. 21
        far(h) == IF h < 18 THEN 18 - h ELSE h - 18
        best(h) == \A g \in hours : far(h) < far(g) \/ (far(h) = far(g) /\ h <= g)
    IN  IF hours = {} THEN NoReport
        ELSE Report("evening", 0, CHOOSE h \in hours : best(h))

Format(args, forecast) ==
    CASE args.when = "current"  -> Report("current", 0, 0)
      [] args.when = "evening"  -> Evening(forecast)
      [] args.when = "today"    ->
            IF Hour(args) > 0 \/ Says(Field(args, "location"), {"at"})
            THEN Hourly(forecast, 0, Hour(args)) ELSE Daily(forecast, 0)
      [] args.when = "tomorrow" ->
            IF Hour(args) > 0 THEN Hourly(forecast, 1, Hour(args)) ELSE Daily(forecast, 1)

(* executeWeather, with the forecast the service sends; an empty one is a   *)
(* request that failed.                                                     *)
ExecuteWeather(given, forecast) ==
    LET args == Normalize(given)
    IN  IF {"location", "latitude"} \ DOMAIN args # {}
        THEN [NoReport EXCEPT !.status = "needs_input"]
        ELSE IF forecast = << >> THEN NoReport
        ELSE Format(args, forecast[1])
=============================================================================
