--------------------------- MODULE AnalogRecorder ---------------------------
(***************************************************************************)
(* The analog recorders of one Source (analog_recorder.cc) with the analog *)
(* pool that hands them out (source.cc), seen from the two threads that    *)
(* touch them: the main thread grants, concludes and deletes calls and     *)
(* drains each recorder's decoder message queue (process_message_queues), *)
(* while the GNU Radio flowgraph thread pushes samples that passed the     *)
(* valve through the filters to the decoder sink (MDC, FleetSync, Star,    *)
(* TPS signalling, queued as messages) and to the audio plugin sink.  The  *)
(* decoder and plugin wrapper blocks are not in the source tree; what they *)
(* do here is the behaviour their use in analog_recorder.cc implies.       *)
(***************************************************************************)
EXTENDS Integers, Sequences, SequencesExt, FiniteSetsExt

CONSTANTS
  Calls,          \* Call objects (a concluded call is deleted; its slot is reused)
  NumRecorders,   \* size of the analog_recorders vector
  Units,          \* unit ids that signalling can carry
  NoCall,         \* a null Call pointer
  MaxQueue,       \* capacity of a decoder message queue in the model
  Streaming       \* enable_audio_streaming: the plugin sink is connected

ASSUME NoCall \notin Calls /\ NumRecorders \in Nat \ {0} /\ MaxQueue \in Nat \ {0}
ASSUME Streaming \in BOOLEAN

Recorders == 1..NumRecorders
NoRecorder == 0
Priorities == {-1, 1, 2}           \* talkgroup priorities a grant can carry

VARIABLES
  call,      \* call[c]: [live, state, mon, rec]
  rec,       \* rec[r]: state, sink state, call pointer, valve, decoders
  inflight,  \* inflight[r]: the call whose samples are inside the flowgraph
  queue,     \* queue[r]: decoded signalling messages, as [unit, call]
  used       \* history: every Call pointer a callback used, whether that call
             \* was live, and the call the samples or message were meant for

vars == <<call, rec, inflight, queue, used>>

TypeOK ==
  /\ call \in [Calls -> [live : BOOLEAN, state : {"MONITORING", "RECORDING"},
                         mon : {"UNSPECIFIED", "IGNORED_TG", "NO_RECORDER"},
                         rec : Recorders \cup {NoRecorder}]]
  /\ rec \in [Recorders -> [state : {"INACTIVE", "ACTIVE"},
                            sink : {"AVAILABLE", "ACTIVE", "INACTIVE"},
                            call : Calls \cup {NoCall},
                            valve : BOOLEAN, decoders : BOOLEAN]]
  /\ inflight \in [Recorders -> Calls \cup {NoCall}]
  /\ queue \in [Recorders -> SeqOf([unit : Units, call : Calls \cup {NoCall}], MaxQueue)]
  /\ used \subseteq [call : Calls, live : BOOLEAN, meant : Calls]

Deleted == [live |-> FALSE, state |-> "MONITORING", mon |-> "UNSPECIFIED",
            rec |-> NoRecorder]

-----------------------------------------------------------------------------
\* Analog pool (source.cc)

\* analog_recorder::get_state: a recorder's state is its wav sink's.
GetState(x) == x.sink

\* Source::get_num_available_analog_recorders
NumAvailable == Quantify(Recorders, LAMBDA r : GetState(rec[r]) = "AVAILABLE")

\* Mutant: the scan returns the first recorder without testing its state.
GetAnalogRecorder_NoStateCheck == 1

\* Source::get_analog_recorder(Call*): the first AVAILABLE recorder.
GetAnalogRecorder == SelectInSeq(rec, LAMBDA x : GetState(x) = "AVAILABLE")

\* Source::get_analog_recorder(Talkgroup*, priority, Call*): a known
\* talkgroup of priority -1 is IGNORED_TG, one whose priority exceeds the
\* free count is NO_RECORDER; otherwise the first AVAILABLE recorder, if any.
Admission(known, p) ==
  CASE known /\ p = -1           -> [rec |-> NoRecorder, mon |-> "IGNORED_TG"]
    [] known /\ p > NumAvailable -> [rec |-> NoRecorder, mon |-> "NO_RECORDER"]
    [] OTHER                     -> [rec |-> GetAnalogRecorder, mon |-> "UNSPECIFIED"]

-----------------------------------------------------------------------------
\* analog_recorder

\* analog_recorder::start: the call pointer is stored, the decoders are set
\* up from the system, the sink starts recording, the recorder turns ACTIVE
\* and the valve opens.
Start(x, c) ==
  [x EXCEPT !.call = c, !.decoders = TRUE, !.sink = "ACTIVE", !.state = "ACTIVE",
            !.valve = TRUE]

\* Mutant: stop leaves the valve open.
Stop_KeepsValve(x) ==
  [x EXCEPT !.state = IF @ = "ACTIVE" THEN "INACTIVE" ELSE @,
            !.sink = IF x.state = "ACTIVE" THEN "INACTIVE" ELSE @,
            !.decoders = FALSE]

\* analog_recorder::stop: an ACTIVE recorder turns INACTIVE, closes the
\* valve and stops the sink (else an error is logged); the decoders are
\* disabled either way.  The call pointer is left as it is.
Stop(x) ==
  IF x.state = "ACTIVE"
  THEN [x EXCEPT !.state = "INACTIVE", !.valve = FALSE, !.sink = "INACTIVE",
                 !.decoders = FALSE]
  ELSE [x EXCEPT !.decoders = FALSE]

-----------------------------------------------------------------------------
\* Main thread

\* A grant creates a call on a free slot (MONITORING/UNSPECIFIED); the pool
\* is asked for a recorder and, if one is returned, it is started and the
\* call records.
Grant(c, known, p) ==
  /\ ~call[c].live
  /\ LET a == Admission(known, p)
     IN  IF a.rec = NoRecorder
         THEN /\ call' = [call EXCEPT ![c] = [Deleted EXCEPT !.live = TRUE, !.mon = a.mon]]
              /\ UNCHANGED rec
         ELSE /\ call' = [call EXCEPT ![c] = [Deleted EXCEPT !.live = TRUE,
                                               !.state = "RECORDING", !.rec = a.rec]]
              /\ rec' = [rec EXCEPT ![a.rec] = Start(@, c)]
  /\ UNCHANGED <<inflight, queue, used>>

\* Call_impl::conclude_call stops the recording call's recorder; the driver
\* then deletes the call.
Conclude(c) ==
  /\ call[c].live
  /\ IF call[c].state = "RECORDING"
     THEN rec' = [rec EXCEPT ![call[c].rec] = Stop(@)]
     ELSE UNCHANGED rec
  /\ call' = [call EXCEPT ![c] = Deleted]
  /\ UNCHANGED <<inflight, queue, used>>

\* decoder_callback_handler, run for one queued message: with a call
\* pointer set, the sink takes the unit and the plugins are signalled with
\* the call (dereferenced for its system); else they get NULL.  The unit
\* the wav sink records is not kept: no property reads it.
DecoderCallback(r, m) ==
  IF rec[r].call # NoCall
  THEN used' = used \cup {[call |-> rec[r].call, live |-> call[rec[r].call].live,
                           meant |-> m.call]}
  ELSE UNCHANGED used

\* analog_recorder::process_message_queues, called for every analog
\* recorder from the main loop: the decoder sink hands its queued messages
\* to decoder_callback_handler.
ProcessMessageQueues(r) ==
  /\ queue[r] # <<>>
  /\ queue' = [queue EXCEPT ![r] = Tail(@)]
  /\ DecoderCallback(r, Head(queue[r]))
  /\ UNCHANGED <<call, rec, inflight>>

\* The reset sweep makes a stopped recorder's sink AVAILABLE again.
ResetSweep(r) ==
  /\ rec[r].sink = "INACTIVE"
  /\ rec' = [rec EXCEPT ![r].sink = "AVAILABLE"]
  /\ UNCHANGED <<call, inflight, queue, used>>

-----------------------------------------------------------------------------
\* Flowgraph thread

\* Samples pass the open valve and enter the filter chain.
Capture(r) ==
  /\ rec[r].valve /\ inflight[r] = NoCall
  /\ inflight' = [inflight EXCEPT ![r] = rec[r].call]
  /\ UNCHANGED <<call, rec, queue, used>>

\* The samples reach the sinks: plugin_callback_handler passes the
\* recorder's call pointer to the plugins' audio callback, and the decoder
\* sink, while enabled, may decode a unit id and queue a message.
Deliver(r) ==
  /\ inflight[r] # NoCall
  /\ inflight' = [inflight EXCEPT ![r] = NoCall]
  /\ IF Streaming
     THEN used' = used \cup {[call |-> rec[r].call, live |-> call[rec[r].call].live,
                              meant |-> inflight[r]]}
     ELSE UNCHANGED used
  /\ \/ UNCHANGED queue
     \/ \E u \in Units :
          /\ rec[r].decoders /\ Len(queue[r]) < MaxQueue
          /\ queue' = [queue EXCEPT ![r] = Append(@, [unit |-> u, call |-> inflight[r]])]
  /\ UNCHANGED <<call, rec>>

-----------------------------------------------------------------------------

\* The analog_recorder constructor: the recorder is INACTIVE and audio
\* streaming is read from the config (Streaming); further down it disables
\* the valve (line 185) and connects the plugin sink only when streaming.
\* The sink starts AVAILABLE, the decoders disabled and the call pointer
\* null (their initialisers are outside src/).
NewRecorder == [state |-> "INACTIVE", sink |-> "AVAILABLE", call |-> NoCall,
                valve |-> FALSE, decoders |-> FALSE]

\* Source::create_analog_recorders: NumRecorders new recorders.
Init ==
  /\ call = [c \in Calls |-> Deleted]
  /\ rec = [r \in Recorders |-> NewRecorder]
  /\ inflight = [r \in Recorders |-> NoCall]
  /\ queue = [r \in Recorders |-> <<>>]
  /\ used = {}

Next ==
  \/ \E c \in Calls, known \in BOOLEAN, p \in Priorities : Grant(c, known, p)
  \/ \E c \in Calls : Conclude(c)
  \/ \E r \in Recorders : ProcessMessageQueues(r) \/ ResetSweep(r)
  \/ \E r \in Recorders : Capture(r) \/ Deliver(r)

Spec == Init /\ [][Next]_vars

-----------------------------------------------------------------------------

\* Audio flows into a recorder exactly while it records a live call that
\* holds it: start opens the valve together with binding the call, the pool
\* never hands out a recorder that is still recording, and conclude_call's
\* stop closes the valve before the call is deleted.
RecordingPathBound ==
  /\ \A r \in Recorders :
       rec[r].valve =>
         /\ rec[r].state = "ACTIVE" /\ rec[r].sink = "ACTIVE"
         /\ call[rec[r].call].live /\ call[rec[r].call].rec = r
  /\ \A c \in Calls :
       call[c].live /\ call[c].state = "RECORDING" =>
         rec[call[c].rec].valve /\ rec[call[c].rec].call = c

\* Every Call pointer that decoder_callback_handler or
\* plugin_callback_handler hands to the plugins is a live call, the one the
\* samples or the signalling message belong to.
CallbacksSeeOwnLiveCall ==
  \A u \in used : u.live /\ u.call = u.meant

=============================================================================
