\* Three calls on one session; a transcript keeps two messages.
CONSTANTS
  c1 = c1
  c2 = c2
  c3 = c3
  s1 = s1
  weather = weather
  search = search
  direct = direct
  Chats <- ThreeChats
  Sessions <- OneSession
  Tools <- AllTools
  Direct = direct
  Search = search
  Immediate <- OneImmediate
  Askers <- AllTools
  AlwaysFilled <- OnlyWeather
  Fillable <- OnlyWeather
  MaxCalls = 2
  Parallel = 2
  Kept = 2
  NoQuestion = NoQuestion

SYMMETRY Interchangeable
SPECIFICATION Spec
INVARIANTS
  OriginAsked
  QuestionStands
  FilledOnce
  TranscriptKept
  SixModelCalls
CHECK_DEADLOCK FALSE
