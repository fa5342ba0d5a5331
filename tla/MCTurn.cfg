\* Three turns of a session; two callers of the selector.
CONSTANTS
  Me = "me"
  Nobody = "nobody"
  Callers <- BothCallers
  Catalog <- TheCatalog
  TopK = 2
  DomainTopK = 1
  Settings <- TheSettings
  Invented <- MadeUp
  Forecasts <- TheForecasts
  KnownPlaces <- Places5
  MaxMessages = 4
  MaxTurns = 2
  MaxPrompt = 4

SPECIFICATION TurnSpec
INVARIANTS
  RetrievalWhole
  StoredWhenCached
  StatedIsUsed
  NothingInvented
  QuestionKept
  NotAskedAgain
  WeatherAsTold
  NumbersRight
CHECK_DEADLOCK FALSE
