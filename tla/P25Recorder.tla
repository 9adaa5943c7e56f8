---------------------------- MODULE P25Recorder ----------------------------
(***************************************************************************)
(* The digital (P25) recorders of one Source and the audio path of their   *)
(* decoder (p25_recorder_decode.cc), seen from the two threads that touch  *)
(* it.  The main thread grants a call a recorder from the digital pool     *)
(* (source.cc), starts and stops the recorder and deletes concluded calls; *)
(* the GNU Radio flowgraph thread pushes samples that passed the valve     *)
(* through the frame assembler to the wav sink and, with audio streaming,  *)
(* to the plugin sink, whose callback tests d_call and hands it to the     *)
(* plugins.  p25_recorder_impl.cc is not in the source tree: what its      *)
(* start and stop do beyond calling the decoder's is taken from the        *)
(* Recorder contract of spec.md (4.2).                                     *)
(***************************************************************************)
EXTENDS Integers, Sequences, SequencesExt, FiniteSetsExt

CONSTANTS
  Calls,          \* Call objects (a concluded call is deleted; its slot is reused)
  NumRecorders,   \* size of the digital_recorders vector
  NoCall,         \* a null Call pointer
  Streaming       \* enable_audio_streaming: the plugin sink is connected

ASSUME NoCall \notin Calls /\ NumRecorders \in Nat \ {0} /\ Streaming \in BOOLEAN

Recorders == 1..NumRecorders
NoRecorder == 0
Priorities == {-1, 1, 2}

VARIABLES
  call,    \* call[c]: [live, state, rec]
  rec,     \* rec[r]: the recorder's state and valve, its wav sink's state, d_call
  fg,      \* fg[r]: where the flowgraph thread is with r's samples, and the
           \* d_call value it tested
  used     \* history: every Call pointer plugman_audio_callback received,
           \* and whether that call was live

vars == <<call, rec, fg, used>>

TypeOK ==
  /\ call \in [Calls -> [live : BOOLEAN, state : {"MONITORING", "RECORDING"},
                         rec : Recorders \cup {NoRecorder}]]
  /\ rec \in [Recorders -> [state : {"INACTIVE", "ACTIVE"}, valve : BOOLEAN,
                            sink : {"AVAILABLE", "ACTIVE", "INACTIVE"},
                            d_call : Calls \cup {NoCall}]]
  /\ fg \in [Recorders -> [at : {"idle", "chain", "checked"}, reg : Calls \cup {NoCall}]]
  /\ used \subseteq [call : Calls \cup {NoCall}, live : BOOLEAN]

Deleted == [live |-> FALSE, state |-> "MONITORING", rec |-> NoRecorder]

-----------------------------------------------------------------------------
\* Digital pool (source.cc)

\* Source::get_num_available_digital_recorders
NumAvailable == Quantify(Recorders, LAMBDA r : rec[r].sink = "AVAILABLE")

\* Source::get_digital_recorder(Call*): the first recorder whose state (its
\* wav sink's, p25_recorder_decode::get_state) is AVAILABLE.
GetDigitalRecorder == SelectInSeq(rec, LAMBDA x : x.sink = "AVAILABLE")

\* Source::get_digital_recorder(Talkgroup*, priority, Call*): the priority
\* rule, then the scan.
Admission(known, p) ==
  IF known /\ (p = -1 \/ p > NumAvailable) THEN NoRecorder ELSE GetDigitalRecorder

-----------------------------------------------------------------------------
\* Recorder

\* p25_recorder_impl::start turns the recorder ACTIVE and opens its valve;
\* p25_recorder_decode::start starts the wav sink recording the call (on
\* its TDMA slot for a phase 2 call) and then stores the call in d_call.
Start(x, c) ==
  [x EXCEPT !.state = "ACTIVE", !.valve = TRUE, !.sink = "ACTIVE", !.d_call = c]

\* p25_recorder_impl::stop turns the recorder INACTIVE and closes its valve;
\* p25_recorder_decode::stop stops the wav sink and clears d_call.
Stop(x) ==
  [x EXCEPT !.state = "INACTIVE", !.valve = FALSE, !.sink = "INACTIVE",
            !.d_call = NoCall]

-----------------------------------------------------------------------------
\* Main thread

\* A grant creates a MONITORING call; the pool is asked for a recorder and,
\* if one is returned, it is started and the call records.
Grant(c, known, p) ==
  /\ ~call[c].live
  /\ LET r == Admission(known, p)
     IN  IF r = NoRecorder
         THEN /\ call' = [call EXCEPT ![c] = [Deleted EXCEPT !.live = TRUE]]
              /\ UNCHANGED rec
         ELSE /\ call' = [call EXCEPT ![c] = [live |-> TRUE, state |-> "RECORDING",
                                               rec |-> r]]
              /\ rec' = [rec EXCEPT ![r] = Start(@, c)]
  /\ UNCHANGED <<fg, used>>

\* Call_impl::conclude_call stops the recording call's recorder; the call
\* is handed to the Call Concluder and deleted.
Conclude(c) ==
  /\ call[c].live
  /\ IF call[c].state = "RECORDING"
     THEN rec' = [rec EXCEPT ![call[c].rec] = Stop(@)]
     ELSE UNCHANGED rec
  /\ call' = [call EXCEPT ![c] = Deleted]
  /\ UNCHANGED <<fg, used>>

\* The reset sweep makes a stopped recorder's sink AVAILABLE again.
ResetSweep(r) ==
  /\ rec[r].sink = "INACTIVE"
  /\ rec' = [rec EXCEPT ![r].sink = "AVAILABLE"]
  /\ UNCHANGED <<call, fg, used>>

-----------------------------------------------------------------------------
\* Flowgraph thread

\* Samples pass the open valve and enter the demodulator and frame assembler.
Capture(r) ==
  /\ rec[r].valve /\ fg[r].at = "idle"
  /\ fg' = [fg EXCEPT ![r].at = "chain"]
  /\ UNCHANGED <<call, rec, used>>

\* The audio reaches the sinks.  Without streaming there is no plugin sink;
\* with it, plugin_callback_handler tests d_call, and a null d_call drops
\* the audio.
Check(r) ==
  /\ fg[r].at = "chain"
  /\ fg' = [fg EXCEPT ![r] = IF Streaming /\ rec[r].d_call # NoCall
                             THEN [at |-> "checked", reg |-> rec[r].d_call]
                             ELSE [at |-> "idle", reg |-> NoCall]]
  /\ UNCHANGED <<call, rec, used>>

\* plugin_callback_handler, after the test: plugman_audio_callback is given
\* d_call.  The member is written by the main thread without a lock, so the
\* build may pass the value it tested or load d_call again.
Use(r) ==
  /\ fg[r].at = "checked"
  /\ \E p \in {fg[r].reg, rec[r].d_call} :
       used' = used \cup {[call |-> p, live |-> p # NoCall /\ call[p].live]}
  /\ fg' = [fg EXCEPT ![r] = [at |-> "idle", reg |-> NoCall]]
  /\ UNCHANGED <<call, rec>>

-----------------------------------------------------------------------------

\* p25_recorder_decode::initialize, for each of the NumRecorders digital
\* recorders: the chain ends in the wav sink and, only when audio streaming
\* is enabled, in the plugin sink (Streaming); d_call is value-initialised
\* to null in the class (p25_recorder_decode.h).
NewRecorder == [state |-> "INACTIVE", valve |-> FALSE, sink |-> "AVAILABLE",
                d_call |-> NoCall]

Init ==
  /\ call = [c \in Calls |-> Deleted]
  /\ rec = [r \in Recorders |-> NewRecorder]
  /\ fg = [r \in Recorders |-> [at |-> "idle", reg |-> NoCall]]
  /\ used = {}

Next ==
  \/ \E c \in Calls, known \in BOOLEAN, p \in Priorities : Grant(c, known, p)
  \/ \E c \in Calls : Conclude(c)
  \/ \E r \in Recorders : ResetSweep(r)
  \/ \E r \in Recorders : Capture(r) \/ Check(r) \/ Use(r)

Spec == Init /\ [][Next]_vars

-----------------------------------------------------------------------------

\* plugin_callback_handler tests d_call so that the plugins' audio callback
\* only ever receives a call, and that call is one the main thread has not
\* deleted: stop() clears d_call before conclude_call hands the call off.
PluginAudioSeesLiveCall == \A u \in used : u.call # NoCall /\ u.live

=============================================================================
