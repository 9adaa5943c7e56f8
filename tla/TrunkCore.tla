----------------------------- MODULE TrunkCore -----------------------------
(***************************************************************************)
(* The admission-control core of trunk-recorder: the Call state machine    *)
(* (call_impl.cc), the digital Recorder pool of one Source and its         *)
(* priority rule (source.cc), the Recorder start/stop contract             *)
(* (analog_recorder.cc, p25_recorder_decode.cc) and the driver that feeds  *)
(* them grants and updates and concludes calls.  The driver (main.cc), the *)
(* transmission sink inside each Recorder and the Call Concluder are not   *)
(* part of the source tree; they are modelled from spec.md and marked so   *)
(* in PROJECT.json.                                                        *)
(***************************************************************************)
EXTENDS Integers, FiniteSets, Sequences, SequencesExt, FiniteSetsExt

CONSTANTS
  Calls,               \* slots for Call objects; a retired slot is reused
  NumRecorders,        \* size of the Source's digital_recorders vector
  Talkgroups,          \* talkgroup numbers that grants may carry
  TgRows,              \* the Talkgroups vector: <<[number, priority]>>
  Freqs,               \* channel frequencies
  Units,               \* radio unit ids (source ids)
  NoUnit,              \* the source id -1
  NoCall,              \* a null Call pointer
  MaxTime              \* bound on the clock read by time(nullptr)

ASSUME NumRecorders \in Nat \ {0}
ASSUME \A i \in 1..Len(TgRows) : TgRows[i].number \in Talkgroups
                                 /\ TgRows[i].priority \in Int
ASSUME NoUnit \notin Units /\ NoCall \notin Calls
ASSUME MaxTime \in Nat

Recorders == 1..NumRecorders
NoRecorder == 0                       \* a null Recorder pointer

CallStates == {"MONITORING", "RECORDING"}
MonStates  == {"UNSPECIFIED", "IGNORED_TG", "NO_RECORDER", "SUPERSEDED"}
RecStates  == {"AVAILABLE", "ACTIVE", "INACTIVE"}

VARIABLES
  call,     \* call[c]: the Call_impl fields in slot c, and the slot's phase
  rec,      \* rec[r]: a Recorder's own state, its sink's state and contents
  concluded, \* the last call snapshot handed to Call_Concluder::conclude_call
  now,      \* the wall clock, in seconds
  crashed   \* the process dereferenced a null Recorder pointer

vars == <<call, rec, concluded, now, crashed>>

FreeCall == [phase |-> "Free", state |-> "MONITORING", mon |-> "UNSPECIFIED",
             rec |-> NoRecorder, tg |-> CHOOSE t \in Talkgroups : TRUE,
             freq |-> CHOOSE f \in Freqs : TRUE, src |-> NoUnit, last |-> 0]

TypeOK ==
  /\ call \in [Calls -> [phase : {"Free", "Live"},
                         state : CallStates, mon : MonStates,
                         rec : Recorders \cup {NoRecorder}, tg : Talkgroups,
                         freq : Freqs, src : Units \cup {NoUnit},
                         last : 0..MaxTime]]
  /\ rec \in [Recorders -> [state : {"INACTIVE", "ACTIVE"}, sink : RecStates,
                            call : Calls \cup {NoCall},
                            src : Units \cup {NoUnit}, txs : SUBSET Calls]]
  /\ concluded \in [call : Calls \cup {NoCall}, txs : SUBSET Calls]
  /\ now \in 0..MaxTime
  /\ crashed \in BOOLEAN

Live(c) == call[c].phase = "Live"

-----------------------------------------------------------------------------
\* Talkgroup directory and Source pool queries

\* Talkgroups::find_talkgroup: index of the first row with this number, 0
\* (nullptr) when there is none.
FindTalkgroup(t) == SelectInSeq(TgRows, LAMBDA row : row.number = t)

\* p25_recorder_decode::get_state: a recorder's state is its wav sink's.
GetState(x) == x.sink

\* Source::get_num_available_digital_recorders
NumAvailable == Quantify(Recorders, LAMBDA r : GetState(rec[r]) = "AVAILABLE")

\* Mutant: the scan forgets to test the recorder's state.
GetDigitalRecorder_NoStateCheck == SelectInSeq(rec, LAMBDA x : TRUE)

\* Mutant: the scan tests the Recorder's own state for INACTIVE, the
\* convention of get_debug_recorder and get_sigmf_recorder, instead of the
\* sink's AVAILABLE.
GetDigitalRecorder_Inactive == SelectInSeq(rec, LAMBDA x : x.state = "INACTIVE")

\* Source::get_digital_recorder(Call*): first AVAILABLE recorder of the
\* vector, nullptr when there is none.
GetDigitalRecorder == SelectInSeq(rec, LAMBDA x : GetState(x) = "AVAILABLE")

\* Source::get_digital_recorder(Talkgroup*, priority, Call*): the recorder
\* returned and the monitoring state written on the call (UNSPECIFIED: none
\* written).
\* Mutant: the priority test rejects a priority equal to the free count.
Admission_OffByOne(t) ==
  LET i == FindTalkgroup(t)
      p == TgRows[i].priority
  IN  CASE i # 0 /\ p = -1           -> [rec |-> NoRecorder, mon |-> "IGNORED_TG"]
        [] i # 0 /\ p >= NumAvailable -> [rec |-> NoRecorder, mon |-> "NO_RECORDER"]
        [] OTHER                      -> [rec |-> GetDigitalRecorder,
                                          mon |-> "UNSPECIFIED"]

Admission(t) ==
  LET i == FindTalkgroup(t)
      p == TgRows[i].priority
  IN  CASE i # 0 /\ p = -1          -> [rec |-> NoRecorder, mon |-> "IGNORED_TG"]
        [] i # 0 /\ p > NumAvailable -> [rec |-> NoRecorder, mon |-> "NO_RECORDER"]
        [] OTHER                     -> [rec |-> GetDigitalRecorder,
                                         mon |-> "UNSPECIFIED"]

-----------------------------------------------------------------------------
\* Call and Recorder operations

\* Call_impl(const TrunkMessage&, ...): a fresh MONITORING/UNSPECIFIED call;
\* add_source(message.source) keeps -1 as -1.
NewCall(t, f, u) ==
  [FreeCall EXCEPT !.phase = "Live", !.tg = t, !.freq = f, !.src = u,
                   !.last = now]

\* p25_recorder_decode::start: the wav sink starts recording the call (for
\* the call's unit) and the call is bound; the recorder's own ACTIVE state
\* is set by p25_recorder_impl::start, outside src/ (spec 4.2).
Start(r, c, u) ==
  [rec[r] EXCEPT !.state = "ACTIVE", !.sink = "ACTIVE", !.call = c, !.src = u]

\* p25_recorder_decode::stop: stop_recording turns the sink INACTIVE; the
\* ACTIVE -> INACTIVE test belongs to p25_recorder_impl::stop, outside src/
\* (spec 4.2: stop transitions ACTIVE -> INACTIVE).
Stop(x) ==
  IF x.state = "ACTIVE" THEN [x EXCEPT !.state = "INACTIVE", !.sink = "INACTIVE"]
                        ELSE x

\* The grant handler: a new call in slot c (given the call table `base`)
\* is evaluated by the Source; on a recorder it starts it and records.
AdmitCall(base, c, nc) ==
  LET a == Admission(nc.tg)
  IN  IF a.rec = NoRecorder
      THEN /\ call' = [base EXCEPT ![c] = [nc EXCEPT !.mon = a.mon]]
           /\ UNCHANGED rec
      ELSE /\ call' = [base EXCEPT ![c] = [nc EXCEPT !.state = "RECORDING",
                                                     !.rec = a.rec]]
           /\ rec' = [rec EXCEPT ![a.rec] = Start(a.rec, c, nc.src)]

\* A grant for a talkgroup that no live call carries.
Grant(c, t, f, u) ==
  /\ ~crashed
  /\ ~Live(c)
  /\ \A d \in Calls : Live(d) => call[d].tg # t
  /\ AdmitCall(call, c, NewCall(t, f, u))
  /\ UNCHANGED <<concluded, now, crashed>>

\* A grant for the talkgroup of live call `old` on another frequency: `old`
\* is marked MONITORING/SUPERSEDED and a new call takes the talkgroup.
SupersedingGrant(c, old, f, u) ==
  /\ ~crashed
  /\ ~Live(c) /\ Live(old)
  /\ call[old].freq # f
  /\ call[old].state = "RECORDING"
  /\ AdmitCall([call EXCEPT ![old].state = "MONITORING",
                            ![old].mon = "SUPERSEDED"],
               c, NewCall(call[old].tg, f, u))
  /\ UNCHANGED <<concluded, now, crashed>>

\* Mutant: add_source keeps the new unit but does not forward it.
AddSource_NoForward(c, x, u) ==
  /\ call' = [call EXCEPT ![c] = IF u = NoUnit THEN x ELSE [x EXCEPT !.src = u]]
  /\ UNCHANGED rec

\* p25_recorder_decode::set_source: the wav sink attributes to unit u.
SetSource(x, u) == [x EXCEPT !.src = u]

\* p25_recorder_decode::get_transmission_list: the wav sink's list.
TransmissionList(x) == x.txs

\* Call_impl::add_source on the call record x: a new unit id is kept and,
\* while RECORDING, forwarded to the recorder (Recorder::set_source).
AddSource(c, x, u) ==
  IF u = NoUnit \/ u = x.src
  THEN /\ call' = [call EXCEPT ![c] = x]
       /\ UNCHANGED rec
  ELSE /\ call' = [call EXCEPT ![c] = [x EXCEPT !.src = u]]
       /\ IF x.state = "RECORDING" /\ x.rec # NoRecorder
          THEN rec' = [rec EXCEPT ![x.rec] = SetSource(@, u)]
          ELSE UNCHANGED rec

\* Call_impl::update: last_update is stamped, then a message for another
\* frequency or talkgroup is rejected, else its source is added.
Update(c, t, f, u) ==
  /\ ~crashed
  /\ Live(c)
  /\ LET x == [call[c] EXCEPT !.last = now]
     IN  IF f # x.freq \/ t # x.tg
         THEN /\ call' = [call EXCEPT ![c] = x]
              /\ UNCHANGED rec
         ELSE AddSource(c, x, u)
  /\ UNCHANGED <<concluded, now, crashed>>

\* Mutant: only a RECORDING call stops its recorder.
ConcludeActs_RecordingOnly(x) == x.state = "RECORDING"

\* The guard of Call_impl::conclude_call: the calls it stops and hands off.
ConcludeActs(x) ==
  x.state = "RECORDING" \/ (x.state = "MONITORING" /\ x.mon = "SUPERSEDED")

\* Call_impl::conclude_call, then the driver drops the call from its list.
\* A RECORDING or SUPERSEDED call reads its recorder's length (a null
\* recorder is dereferenced here), stops it, copies its transmission list
\* and is handed to the Call Concluder.
Conclude(c) ==
  /\ ~crashed
  /\ Live(c)
  /\ LET x    == call[c]
         acts == ConcludeActs(x)
     IN  IF acts /\ x.rec = NoRecorder
         THEN /\ crashed' = TRUE
              /\ UNCHANGED <<call, rec, concluded>>
         ELSE /\ call' = [call EXCEPT ![c] = FreeCall]
              /\ IF acts
                 THEN /\ rec' = [rec EXCEPT ![x.rec] = Stop(@)]
                      /\ concluded' = [call |-> c, txs |-> TransmissionList(rec[x.rec])]
                 ELSE UNCHANGED <<rec, concluded>>
              /\ UNCHANGED crashed
  /\ UNCHANGED now

\* Mutant: a sink captures whether or not its recorder is recording.
Transmit_AnySink(r) ==
  /\ ~crashed
  /\ rec' = [rec EXCEPT ![r].txs = @ \cup {rec[r].call}]
  /\ UNCHANGED <<call, concluded, now, crashed>>

\* The sink of an ACTIVE recorder captures a transmission for its call; a
\* transmission is represented by the call it was captured for.
Transmit(r) ==
  /\ ~crashed
  /\ rec[r].sink = "ACTIVE"
  /\ rec' = [rec EXCEPT ![r].txs = @ \cup {rec[r].call}]
  /\ UNCHANGED <<call, concluded, now, crashed>>

\* The reset sweep: a released (INACTIVE) recorder is drained and becomes
\* AVAILABLE again.
ResetSweep(r) ==
  /\ ~crashed
  /\ rec[r].sink = "INACTIVE"
  /\ rec' = [rec EXCEPT ![r].sink = "AVAILABLE", ![r].txs = {}]
  /\ UNCHANGED <<call, concluded, now, crashed>>

Tick ==
  /\ ~crashed
  /\ now < MaxTime
  /\ now' = now + 1
  /\ UNCHANGED <<call, rec, concluded, crashed>>

-----------------------------------------------------------------------------

\* Source::create_digital_recorders: NumRecorders recorders whose own state
\* is INACTIVE (analog_recorder constructor) and whose sinks are AVAILABLE.
Init ==
  /\ call = [c \in Calls |-> FreeCall]
  /\ rec = [r \in Recorders |-> [state |-> "INACTIVE", sink |-> "AVAILABLE",
                                 call |-> NoCall, src |-> NoUnit,
                                 txs |-> {}]]
  /\ concluded = [call |-> NoCall, txs |-> {}]
  /\ now = 0
  /\ crashed = FALSE

Next ==
  \/ \E c \in Calls, t \in Talkgroups, f \in Freqs, u \in Units \cup {NoUnit} :
       Grant(c, t, f, u)
  \/ \E c, old \in Calls, f \in Freqs, u \in Units \cup {NoUnit} :
       SupersedingGrant(c, old, f, u)
  \/ \E c \in Calls, t \in Talkgroups, f \in Freqs, u \in Units \cup {NoUnit} :
       Update(c, t, f, u)
  \/ \E c \in Calls : Conclude(c)
  \/ \E r \in Recorders : Transmit(r)
  \/ \E r \in Recorders : ResetSweep(r)
  \/ Tick

Spec == Init /\ [][Next]_vars

\* The driver concludes every call it tracks once its activity stops (radio
\* calls are finite), and the reset sweep is periodic housekeeping.
Fairness ==
  /\ \A c \in Calls : WF_vars(Conclude(c))
  /\ \A r \in Recorders : WF_vars(ResetSweep(r))

FairSpec == Spec /\ Fairness

\* The pool seen as leases: an ACTIVE recorder is leased to the call it is
\* bound to, an INACTIVE one is draining.
Lease == INSTANCE RecorderLease
           WITH Holders <- Calls, Nobody <- NoCall,
                holder <- [r \in Recorders |->
                             IF rec[r].sink = "ACTIVE" THEN rec[r].call ELSE NoCall],
                draining <- {r \in Recorders : rec[r].sink = "INACTIVE"}

-----------------------------------------------------------------------------
\* Properties

\* A live call that holds a recorder pointer (RECORDING, or SUPERSEDED and
\* not yet concluded) is the call its recorder is ACTIVE for: the Source
\* never hands one recorder to two calls, and conclusion releases it only
\* together with the call.
RecorderExclusive ==
  \A c \in Calls :
    Live(c) /\ call[c].rec # NoRecorder =>
      /\ rec[call[c].rec].sink = "ACTIVE"
      /\ rec[call[c].rec].call = c

\* Every transmission a concluded call hands to the Call Concluder was
\* captured while its recorder was recording that call: a recorder is never
\* reused with another call's transmissions in its list, and conclude_call
\* copies the list of its own recorder.
TransmissionsBelongToCall ==
  concluded.txs \subseteq {concluded.call}

\* While a call is RECORDING, its recorder attributes audio to the unit
\* the call currently names: the unit of the grant reaches the recorder at
\* start and add_source forwards every later change (Recorder::set_source).
AttributionInSync ==
  \A r \in Recorders :
    LET c == rec[r].call
    IN  rec[r].sink = "ACTIVE" /\ Live(c) /\ call[c].state = "RECORDING" =>
          rec[r].src = call[c].src

\* The priority rule of Source::get_digital_recorder: a new call is
\* recorded exactly when a recorder is free and its talkgroup is unknown
\* or has a priority other than -1 no greater than the number of free
\* recorders; a priority -1 talkgroup is always IGNORED_TG.
AdmissionRule ==
  [][\A c \in Calls :
       ~Live(c) /\ call'[c].phase = "Live" =>
         LET i == FindTalkgroup(call'[c].tg)
             p == TgRows[i].priority
         IN  /\ (call'[c].state = "RECORDING") <=>
                  /\ NumAvailable > 0
                  /\ i = 0 \/ (p # -1 /\ p =< NumAvailable)
             /\ i # 0 /\ p = -1 => call'[c].mon = "IGNORED_TG"]_vars

\* The Source's pool, with the calls that take and conclude recordings,
\* implements RecorderLease: one call per recorder and one recorder per
\* call, no reuse before the reset sweep, and every recorder taken by a call
\* eventually comes back (conclude_call stops it on both the RECORDING and
\* the SUPERSEDED path).
LeaseRefinement == Lease!Spec

-----------------------------------------------------------------------------
\* Properties the spec states and the code does not keep

\* spec 4.3/7: a call the Source evaluated and did not record carries the
\* reason (IGNORED_TG or NO_RECORDER; pool exhaustion counts as
\* NO_RECORDER), never UNSPECIFIED.
EvaluatedCallHasReason ==
  \A c \in Calls :
    Live(c) /\ call[c].state = "MONITORING" => call[c].mon # "UNSPECIFIED"

=============================================================================
