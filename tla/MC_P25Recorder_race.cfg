CONSTANTS
  Calls = {p1, p2}
  NumRecorders = 2
  NoCall = NoCall
  Streaming = TRUE

SPECIFICATION Spec

INVARIANT PluginAudioSeesLiveCall
