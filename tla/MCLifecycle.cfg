\* up, down and restart in every order, with failures at every step.
CONSTANTS
  Models <- TwoModels
  Voice <- OneVoice
  UpChoices <- FewUps
  DownChoices <- FewDowns
  RestartChoices <- Restarts
  MaxCommands = 2
  MaxCrashes = 1

SPECIFICATION Spec
INVARIANTS
  ReadyMeansUp
  
PROPERTIES
  DependenciesFirst
  FreshSession
CHECK_DEADLOCK FALSE
