CONSTANT MaxLen = 7

SPECIFICATION Spec
\* Loading ends: the final state has no successor.
CHECK_DEADLOCK FALSE

INVARIANT TypeOK
INVARIANT LoadMatchesReference
INVARIANT UnitLookupFollowsFile
