CONSTANTS
  a1 = a1
  a2 = a2
  Calls <- MC_Calls
  NumRecorders = 2
  Units = {7}
  NoCall = NoCall
  MaxQueue = 1
  Streaming = TRUE

SPECIFICATION Spec
SYMMETRY MC_Symmetry

INVARIANT CallbacksSeeOwnLiveCall
