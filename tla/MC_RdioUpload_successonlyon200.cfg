CONSTANTS
  Names = {"n1", "n2"}
  Keys = {"k1", "k2"}
  MaxElems = 2
  MaxRounds = 2
  MaxCalls = 2

SPECIFICATION Spec
\* The plugin stops after MaxCalls calls or when its config is rejected.
CHECK_DEADLOCK FALSE

INVARIANT SuccessOnlyOn200
