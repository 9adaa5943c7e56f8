CONSTANTS
  c1 = c1
  c2 = c2
  Calls <- MC_Calls
  NumRecorders = 2
  Talkgroups <- MC_Talkgroups
  TgRows <- MC_TgRows
  Freqs = {1, 2}
  Units = {1}
  NoUnit <- MC_NoUnit
  NoCall = NoCall
  MaxTime = 0

SPECIFICATION FairSpec

PROPERTY LeaseRefinement
