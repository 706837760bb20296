SPECIFICATION FairSpec
CONSTANTS
  e1 = e1
  e2 = e2
  s1 = s1
  s2 = s2
  Evaluators <- MCEvaluators
  Rules <- MCRules
  Evaluating <- MCEvaluating
  Sources <- MCSources
  Debounce <- MCDebounce
  ResolveRounds <- MCResolveRounds
  Epoch = 2
  MaxTime <- MCMaxTime
  MaxChange <- MCMaxChange
  MaxCrash = 1
INVARIANTS
  TypeOK
  NonceNamesOneIntent
  OperatorKnows
  RecoveryEarned
PROPERTIES
  EpisodesEndAccounted
  NewerEvidenceStays
  ReportedInTheEnd
