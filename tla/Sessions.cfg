SPECIFICATION FairSessionSpec
CONSTANTS
  Lifetime = 2
  Validations = {v1, v2}
  Logouts = {o1, o2}
INVARIANTS
  InvalidForCause
  LateIsRefused
PROPERTIES
  OverForGood
  EndTakesHold
CHECK_DEADLOCK FALSE
