SPECIFICATION Spec
CONSTANTS
  Names <- TwoNames
  Ready = {"b"}
  Catalogue <- FewModels
  Matches = {"b2", "a1"}
  Initial = {"b"}
  MaxPins = 2
  MaxOpens = 2
  MaxChoices = 1
INVARIANT PendingChangeLocks
CHECK_DEADLOCK FALSE
