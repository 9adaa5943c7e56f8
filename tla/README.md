# TLA+ models of trunk-recorder

This directory holds TLA+ models of the parts of trunk-recorder that decide
which radio calls get recorded (the `Call` state machine, a `Source`'s
recorder pools with their priority rule, the start/stop contract of the
recorders), the analog recorder's callbacks against the flowgraph thread,
the unit-tag file loader with its line reader, and the Rdio Scanner upload
plugin. TLC checks the models. Every definition is translated from the code
under `src/`, and `PROJECT.json` maps each one to the lines it models. The
driver (`main.cc`), the transmission sink and the Call Concluder are not in
`src/`. The few definitions that stand for them are modelled from `spec.md`
and marked `spec_modelled`.

## The system and how its parts interact

| Part | Source | State | Operations |
|---|---|---|---|
| Call | `call_impl.cc/.h` | state (MONITORING/RECORDING), monitoring sub-state, recorder pointer, talkgroup, frequency, current unit (`curr_src_id`), `last_update` | constructor from a TrunkMessage, `add_source`, `update`, `conclude_call`, `set_recorder`, `set_state`, `set_monitoring_state` |
| Source pool | `source.cc/.h` | vectors of digital and analog recorders (plus conventional, debug and sigmf recorders) | `get_digital_recorder(tg, priority, call)`, `get_digital_recorder(call)`, `get_num_available_digital_recorders`, and the analog twins |
| Recorder | `recorders/analog_recorder.cc`, `recorders/p25_recorder_decode.cc` | own state (INACTIVE/ACTIVE), sink state (AVAILABLE/ACTIVE/INACTIVE; `get_state()` returns the sink's), bound call, unit, transmission list | `start`, `stop`, `set_source`, `get_transmission_list`, decoder callback |
| Talkgroup directory | `talkgroups.cc`, `talkgroup.cc` | vector of talkgroups with priorities | `load_talkgroups`, `load_channels`, `find_talkgroup` (first match) |
| Unit tags | `unit_tags.cc` | vector of (pattern, tag) | `load_unit_tags`, `find_unit_tag`, `add` |
| CSV line reader | `csv_helper.cc` | none | `safeGetline` (LF, CR, CRLF) |
| Rdio Scanner uploader | `plugins/rdioscanner_uploader` | none across calls | `upload` (early returns, curl multi loop), `parse_config` |

These parts interact as follows:

1. The driver receives a grant.
2. It builds a Call, looks up the talkgroup's priority and asks the Source
   for a recorder.
3. The Source applies the priority rule against the number of AVAILABLE
   recorders. It then writes IGNORED_TG or NO_RECORDER on the call, or
   returns the first AVAILABLE recorder.
4. The driver binds and starts that recorder, and the call becomes
   RECORDING.

After admission:

- Updates re-stamp the call and may change its unit. `add_source` forwards
  the unit to the recorder.
- A grant for the same talkgroup on another frequency supersedes the call
  (MONITORING/SUPERSEDED).
- `conclude_call` stops the recorder (its sink goes INACTIVE), copies its
  transmissions and hands the call to the Call Concluder.
- A reset later makes the INACTIVE sink AVAILABLE again.

The call state machine and the pools run on one driver thread. In
`TrunkCore`, concurrency therefore means the order in which grants,
updates, conclusions, sink activity and resets for different calls and
recorders arrive. The recorders are also touched by a second thread: the
GNU Radio flowgraph thread runs the sink callbacks. `AnalogRecorder` and
`P25Recorder` interleave the steps of that thread with the driver's.

## Modules

- **`TrunkCore.tla`** models the composition of Call, the digital pool of
  one Source, Recorder and the talkgroup lookup.
  - Variables:
    - `call[c]` holds the Call fields in slot `c`, plus a phase (Free or
      Live).
    - `rec[r]` holds the recorder's own state, its sink's state, its bound
      call, its unit and its transmissions. A transmission is represented by
      the call it was captured for.
    - `concluded` is the last snapshot handed to the Call Concluder.
    - `now` is the clock.
    - `crashed` records a null dereference.
  - Actions: `Grant` and `SupersedingGrant` (the driver, spec_modelled),
    `Update` (which calls `AddSource`), `Conclude`, `Transmit` (sink),
    `ResetSweep` and `Tick`.
  - Helpers: `Admission`, `GetDigitalRecorder`, `NumAvailable` and
    `FindTalkgroup` are the source functions of the same names. `Start`,
    `Stop`, `SetSource` and `TransmissionList` are `p25_recorder_decode`'s.
    The recorder's own ACTIVE/INACTIVE state is set by
    `p25_recorder_impl`, which is not in `src/`, and follows spec 4.2.
    `ConcludeActs` is the guard of `conclude_call`.
  - `conclude_call` reads the recorder's length before its null check
    (`call_impl.cc:121`). `Conclude` keeps that crash branch. Only RECORDING
    calls are ever superseded (spec 4.1), and RECORDING comes with a
    recorder, so no run reaches the branch and no property is claimed
    for it.
  - The driver follows the spec: it supersedes only recording calls and
    drops a call from its list once it concluded it.
  - `conclude_call` neither changes the call's state nor clears its
    recorder, so a driver that concluded a call twice would hand it off
    twice (`call_impl.cc:120`); the spec's driver never does, and no run
    assumes otherwise.
- **`RecorderLease.tla`** is the abstract promise of a pool:
  - each recorder is leased to at most one holder;
  - a holder leases at most one recorder;
  - a released recorder drains before reuse;
  - every lease is released and every drained recorder is recycled.

  `TrunkCore` implements it through the mapping `Lease` (holder = the call
  of an ACTIVE sink; draining = the INACTIVE sinks).
- **`MC_TrunkCore.tla`** holds the model values.
- **`AnalogRecorder.tla`** models the analog pool of one Source
  (`get_analog_recorder`, `get_num_available_analog_recorders`) and the
  analog recorders with the two threads that touch them.
  - Variables: `call[c]` (live, state, monitoring state, recorder), `rec[r]`
    (own state, sink state, call pointer, valve, decoders enabled),
    `inflight[r]` (the call whose samples are between the valve and the
    sinks), `queue[r]` (the decoder sink's queued signalling messages) and
    the history `used` of every call pointer a callback handed to the
    plugins.
  - Main thread: `Grant` (driver, spec_modelled) runs `Admission` and
    `Start`; `Conclude` is `conclude_call`'s `Stop` followed by the driver
    deleting the call; `ProcessMessageQueues` drains one message through
    `DecoderCallback` (`decoder_callback_handler`); `ResetSweep`.
  - Flowgraph thread: `Capture` (samples pass the open valve) and `Deliver`
    (`plugin_callback_handler` with the recorder's *current* call pointer,
    and the decoder sink may queue a message).
  - The decoder and plugin wrapper blocks are not in `src/`; `Capture` and
    the queueing half of `Deliver` follow their use in `analog_recorder.cc`.
- **`MC_AnalogRecorder.tla`** holds the model values and the symmetry of
  the call slots.
- **`UnitTagFile.tla`** models `load_unit_tags` reading a file through
  `safeGetline`. A file is a sequence over `d`, `/`, `,`, CR and LF.
  `SafeGetline` is RECURSIVE, one character per call, like the `sbumpc`
  loop; `Tokenize` is the comma split (the alphabet has no quote, escape or
  tab); `Add` is `UnitTags::add`. Each `ReadLine` step is one turn of the
  while loop; `Finish` is the eof exit with the count check and warning.
  `RefLines` is an independent reference: the lines of a file defined by
  the positions of its terminators, without reading it character by
  character.
  `FindUnitTag` is `find_unit_tag`, applied to the unit ids in `UnitIds`
  (non-empty digit strings, as `std::to_string` writes them). The
  alphabet has no regex or format metacharacters. So `^id$` and a `/re/`
  body both match exactly their own text, and `regex_replace` with
  `format_no_copy` yields the tag itself. The lookup is therefore the
  first entry whose body equals the unit.
- **`TalkgroupFile.tla`** models `load_talkgroups` and `load_channels`
  with `find_talkgroup` and `find_talkgroup_by_freq`. A file is a header
  row and up to `MaxRows` data rows; a cell is its CSV type (null, int,
  float, string) and an integer value. `CheckTalkgroupHeaders` and
  `CheckChannelHeaders` are the two loaders' header checks. Both go
  through `HeaderOutcome`, which covers the first column, unknown columns,
  and `headers[0]` of an empty file. That read is undefined and is taken as
  a crash or as a failed test. `LoadTalkgroupRow`
  and `LoadChannelRow` are one turn of each loader's row loop, with
  `exit(0)` on a missing required cell. They push rows built by
  `NewTalkgroup` and `NewChannel`, the two `Talkgroup` constructors
  (`talkgroup.cc`). `EndOfFile` ends the loop. The
  `Ref*` operators define what a file should put in the directory over the
  whole file at once, and `LoadMatchesFile` compares the two.
  `MC_TalkgroupFile.tla` gives the header rows.
- **`P25Recorder.tla`** models the digital pool of one Source with the
  audio path of `p25_recorder_decode`.
  - Variables: `call[c]` (live, state, recorder), `rec[r]` (own state,
    valve, wav sink state, `d_call`), `fg[r]` (where the flowgraph thread is
    with `r`'s samples and the `d_call` value it tested) and the history
    `used` of every pointer `plugman_audio_callback` received.
  - Main thread: `Grant` (driver, spec_modelled) runs `Admission` and
    `Start`. `Conclude` is `conclude_call`'s `Stop` followed by the
    deletion of the call. `ResetSweep` is also on this thread.
  - Flowgraph thread: `Capture` (samples pass the open valve), `Check`
    (`plugin_callback_handler`'s test of `d_call`) and `Use` (the call to
    `plugman_audio_callback`).
  - `d_call` is a plain member that the main thread writes without a lock.
    Its second read in `Use` is therefore a data race, and the build may
    pass either the value it tested or a fresh load. The model takes both.
  - `p25_recorder_impl.cc` is not in `src/`. Its share of `start` and
    `stop` (state and valve) follows the Recorder contract of `spec.md`.
- **`RdioUpload.tla`** models the upload plugin: `ParseConfig`, `GetSystem`,
  and `upload` split at the points where it waits (`CallEnd` up to the first
  `curl_multi_perform`, then `Select` and `Dispatch` for each turn of the
  `while (still_running)` loop, then `Finish` for cleanup and the result).
  Strings are abstracted to small sets; the form is represented by the
  resources it allocates (`allocated`) and the key it carries (`posted`).
  `curl_easy_init`/`curl_multi_init` failure, `curl_multi_fdset` failure,
  `select` returning -1 or 0, the number of perform rounds and the server's
  answer are chosen nondeterministically. The response code read after
  `curl_easy_cleanup` is undefined behaviour and is any code.

## Runs

| Run | cfg | Expect | Shows |
|---|---|---|---|
| core | `MC_TrunkCore.cfg` | pass | `RecorderExclusive` (a live call's recorder is ACTIVE for that call), `TransmissionsBelongToCall` (a concluded call carries only its own transmissions), `AttributionInSync` (a recording recorder's unit is the call's unit), `AdmissionRule` (a new call records exactly when a recorder is free and the priority allows it; priority -1 means IGNORED_TG) |
| lease | `MC_TrunkCore_lease.cfg` | pass | `LeaseRefinement`: the pool implements `RecorderLease`, including that every taken recorder comes back |
| reason | `MC_TrunkCore_reason.cfg` | violation | `EvaluatedCallHasReason`: an unknown talkgroup on a full pool stays UNSPECIFIED (`source.cc:235`) |

| analog | `MC_AnalogRecorder.cfg` | pass | `RecordingPathBound`: a valve is open exactly while its recorder records the live call that holds it, through grants, conclusions, resets, message draining and the flowgraph thread |
| p25_race | `MC_P25Recorder_race.cfg` | violation | `PluginAudioSeesLiveCall`: audio that passed the `d_call` test when the call was concluded reaches the plugins with the deleted call (`p25_recorder_decode.cc:117`–`120`). Found in 6 steps: grant, capture, check, conclude, use |
| analog_stale | `MC_AnalogRecorder_stale.cfg` | violation | `CallbacksSeeOwnLiveCall`: samples in flight at `stop` and decoder messages queued before it reach the plugins with a deleted call, or with the next call once the recorder is re-bound (`analog_recorder.cc:363`, `:370`) |
| unittags | `MC_UnitTagFile.cfg` | pass | `LoadMatchesReference`: for every file of up to 7 characters, the loader counts exactly the reference lines (LF, CR, CRLF, a last unterminated line) and keeps exactly the well-formed entries, in order. `UnitLookupFollowsFile`: `find_unit_tag` then answers each unit with the second field of the first file line whose first field is the unit, plain or between slashes. A line with an empty tag answers `""` and shadows later lines |
| directory | `MC_TalkgroupFile.cfg` | pass | `LoadMatchesFile`: for every talkgroup or channel file in the bounds, the program exits exactly on the files a whole-file reference rejects, and after a load `find_talkgroup` and `find_talkgroup_by_freq` answer every number and frequency with the first enabled row's priority, frequency and number |
| rdio | `MC_RdioUpload.cfg` | pass | `PostOnlyWithConfiguredKey`: only unencrypted calls are posted, with the key of the first configured system of their short name |
| rdio_success200 | `MC_RdioUpload_successonlyon200.cfg` | violation | `SuccessOnlyOn200`: the response code comes from a freed handle (`rdioscanner_uploader.cc:352`) |
| rdio_leak | `MC_RdioUpload_noleakonreturn.cfg` | violation | `NoLeakOnReturn`: a failed curl init leaks the form, headers and the other handle (`:258`) |
| rdio_spin | `MC_RdioUpload_uploadreturns.cfg` | violation | `UploadReturns`: with `select` failing forever the loop never exits (`:329`) |

The violations are recorded as findings in `PROJECT.json`. Each property
of a passing run has a mutant: a plausible bug in the mapped code that TLC
must catch. The mutants are:

- the recorder scan skips its state test;
- the scan tests for INACTIVE, the convention of `get_debug_recorder`;
- `add_source` does not forward the unit;
- the priority test uses `>=`;
- `conclude_call` ignores the SUPERSEDED disjunct;
- a sink captures while idle;
- analog `stop` leaves the valve open;
- the analog scan returns the first recorder without testing its state;
- `safeGetline` leaves the LF of a CRLF in the stream;
- the tokenizer splits at the first comma only;
- `find_unit_tag` answers with the last matching entry;
- a talkgroup row is accepted with a Decimal cell of any type;
- every numeric channel frequency under 1000 is converted from MHz;
- the upload loop ignores `still_running`;
- `get_system` returns the last match.

A blank line in the unit-tag file is counted as read and never pushed, so
`load_unit_tags` logs "skipped N of M unit tag entries! Invalid format?" for
a valid file (`unit_tags.cc:69`). `LoadMatchesReference` pins the counts;
the warning itself is only a log line and gets no run.

`Call::update` stamps `last_update` before it compares the talkgroup and
frequency (`call_impl.cc:337`). A rejected update therefore still keeps the
call alive, which spec sections 8 and 10 rule out. `spec.md` lists this
case as a unit test, so it is recorded as a hazard but has no run.

The analog run checks no type invariant: no plausible slip in the mapped
code gives a value of the wrong type there (an out-of-range recorder index
stops TLC with an evaluation error rather than a violation).

## Bounds

- Two recorders. This is the smallest pool where the priority rule can
  accept a priority-2 talkgroup at one moment and reject it at the next.
- Two call slots, symmetric. That is enough for supersession, for two calls
  competing for the pool, and for a recorder re-used by another call.
- The directory rows are 101 (priority 1) and 102 (priority 2), then 101
  again (priority -1), then 103 (priority -1). Talkgroup 105 is not in the
  directory. The duplicate 101 row exercises first-match lookup.
- Two frequencies, so supersession can happen.
- One unit besides -1, so `add_source` has something to change.
- `MaxTime` is 1 in the core run so that `last_update` can change. The lease
  run uses 0 to keep the liveness check near 200k states.

- AnalogRecorder: two recorders and two call slots (symmetric), one unit,
  a decoder queue of one message. That is enough for a recorder to be
  stopped with samples in flight or a message queued, reset and handed to
  the other call. The pass run has 2.5M states.
- UnitTagFile: every file of up to 7 characters over a 5-letter alphabet
  (about 98,000 files). So CRLF at the end, CR then LF across lines, blank
  lines, a last line without terminator, `/`-patterns and one- and
  three-field lines all occur. So do two entries for the same unit
  (`d,d` LF `d,d`, or `d,` LF `/d/,`), which is where first-match lookup
  and shadowing show. The run has 593k states and takes about 20 s.
- TalkgroupFile: two numbers, up to two rows, five talkgroup header rows
  (full, without Priority, wrong first column, an unknown column, empty)
  and three channel header rows. Cells cover the int/str/null cases of each
  required column, a numeric Description (911), Priority -1, 2 and absent,
  Frequency as integer Hz, float MHz and integer 155, and Enable as
  "true", "false", "FALSE" and absent. Two rows allow duplicate numbers
  and frequencies. This gives 45,200 initial files.
- P25Recorder: two recorders and two call slots, with streaming on. The
  race needs only one recorder and one call; the second recorder and slot
  let the re-bound case (`d_call` of the next call) occur too.
- RdioUpload: two short names, two keys, up to two config elements, two
  perform rounds and two calls per behaviour; enough for a shadowed
  duplicate short name, an element without a key and a loop that turns.

## Fairness

The lease run assumes:

- weak fairness of `Conclude(c)` for every call, because every radio call
  ends and the driver concludes calls that have gone quiet;
- weak fairness of `ResetSweep(r)` for every recorder, because the sink
  reset is periodic.

Grants, updates and transmissions get no fairness.

The `rdio_spin` run assumes weak fairness of `Select`, `Dispatch` and
`Finish`: `upload` runs on the thread that called `call_end` and nothing
else preempts it for ever. `CallEnd` gets none, since calls need not keep
ending. Under this fairness only `select` failing for ever keeps `upload`
from returning.

## Not modelled, and why

- `find_unit_tag` matches with `boost::regex` and formats with the
  Boost-extended format syntax. General regular expressions and that
  format grammar are out of TLC's useful reach, so only patterns and tags
  without metacharacters are checked. A tag with parentheses or `?` is
  rewritten by the format (`unit_tags.cc:84`). This is a hazard without a
  property.
- A Frequency cell in float MHz is multiplied by `1e6` in binary64 and
  later compared with `==` (`talkgroups.cc:192`, `:228`). Some low-band
  values do not come out exact, for example `32.0025 * 1e6`. Decimal to
  binary64 rounding is outside TLC's integer arithmetic, so this is a
  hazard without a property.
- The talkgroup metadata columns (alpha tag, description text, tag,
  category, tone, preferred NAC) are data that no property tells apart.
  `TrunkCore` takes the directory as a fixed constant rather than loading
  it.
- The P25 decoder's signalling side (TDMA slot, unit ids, error counts)
  is data that no property tells apart. `P25Recorder` keeps only
  `d_call` and the audio callback.
- `debug_recorder` and `sigmf_recorder` are uninitialised pointers that
  `conclude_call` dereferences when their flags are set. The driver sets
  both the flags and the pointers, and it is not in `src/`. This is a
  hazard without a property.
- The Rdio upload form's other fields (talkgroup, frequency, sources,
  audio file) are strings that no property distinguishes.
- A Source's frequency window (`set_min_max`). It is computed from the
  requested sample rate before the device reports the rate it granted
  (`source.cc:411`, `:452`), and whether a channel fits depends on the
  recorders' decimation, which is outside `src/`. Both are recorded as
  hazards.
- DSP blocks, hardware gain and device setup, which are pure I/O;
- logging and display strings;
- conventional recorders, which are outside the trunked pool;
- debug and sigmf recorders, whose pools select INACTIVE recorders.

