----------------------------- MODULE RdioUpload -----------------------------
(***************************************************************************)
(* The Rdio Scanner uploader plugin (rdioscanner_uploader.cc): parse_config *)
(* builds the list of systems, and call_end runs upload() for each         *)
(* concluded call: its early returns, the multipart form, the curl multi   *)
(* transfer loop and the result check.  Strings are abstracted to small    *)
(* sets; the form is represented by the resources it allocates and by the  *)
(* key it carries.                                                         *)
(***************************************************************************)
EXTENDS Integers, Sequences, SequencesExt, FiniteSets

CONSTANTS
  Names,        \* system short names
  Keys,         \* API keys other than the empty string
  MaxElems,     \* most "systems" elements in the plugin config
  MaxRounds,    \* most curl_multi_perform calls a transfer needs
  MaxCalls      \* calls concluded in one behaviour

NoKey == ""
Server == {"absent", "malformed", "url"}           \* the "server" entry
Element == [hasKey : BOOLEAN, apiKey : Keys \cup {NoKey}, shortName : Names]
CallInfo == [encrypted : BOOLEAN, short_name : Names]
Codes == {0, 200, 500}                              \* HTTP response codes
Resource == {"form", "headers", "easy", "multi"}

VARIABLES
  config,      \* history: the "systems" elements of the plugin config
  pc,          \* "config", "idle", "select", "dispatch", "finish", "off"
  systems,     \* data.systems: <<[api_key, short_name]>>
  call_info,   \* the call being uploaded
  allocated,   \* <<resource, call number>> allocated and not yet freed
  pending,     \* perform calls the transfer still needs
  still_running,
  rc,          \* the last select() result
  answer,      \* the response code the server sent
  posted,      \* history: the requests sent, as [call, key]
  returned,    \* history: upload's results, as [call, ret, answer]
  calls_done

vars == <<config, pc, systems, call_info, allocated, pending, still_running, rc,
          answer, posted, returned, calls_done>>

TypeOK ==
  /\ pc \in {"config", "idle", "select", "dispatch", "finish", "off"}
  /\ systems \in Seq([api_key : Keys \cup {NoKey}, short_name : Names])
  /\ call_info \in CallInfo
  /\ config \in SeqOf(Element, MaxElems)
  /\ allocated \subseteq Resource \X (1..MaxCalls)
  /\ pending \in 0..MaxRounds /\ still_running \in BOOLEAN
  /\ rc \in {-1, 0} /\ answer \in Codes
  /\ posted \subseteq [call : CallInfo, key : Keys]
  /\ calls_done \in 0..MaxCalls

-----------------------------------------------------------------------------

\* Mutant: the system search keeps the last match instead of the first.
GetSystem_Last(name) == SelectLastInSeq(systems, LAMBDA s : s.short_name = name)

\* Rdio_Scanner_Uploader::get_system: index of the first system with this
\* short name, 0 (nullptr) when none.
GetSystem(name) == SelectInSeq(systems, LAMBDA s : s.short_name = name)

\* parse_config: no "server" entry or a server that does not match the URL
\* regex returns 1; each element with an "apiKey" becomes a system (the
\* key may be empty); no system at all returns 1.
ParseConfig ==
  /\ pc = "config"
  /\ \E server \in Server, elems \in SeqOf(Element, MaxElems) :
       LET kept == SelectSeq(elems, LAMBDA e : e.hasKey)
       IN  /\ config' = elems
           /\ systems' = [i \in 1..Len(kept) |->
                            [api_key |-> kept[i].apiKey, short_name |-> kept[i].shortName]]
           /\ pc' = IF server = "url" /\ kept # <<>> THEN "idle" ELSE "off"
  /\ UNCHANGED <<call_info, allocated, pending, still_running, rc, answer,
                 posted, returned, calls_done>>

\* upload() returns: the result is recorded and the plugin is idle again.
Return(ret, sent) ==
  /\ returned' = Append(returned, [call |-> call_info', ret |-> ret, sent |-> sent,
                                    answer |-> answer'])
  /\ pc' = "idle"

\* call_end -> upload, up to the transfer loop.  An encrypted call or a
\* system without a key returns 0.  Otherwise the form and header list are
\* allocated, curl_easy_init and curl_multi_init may each fail; if both
\* succeed the request is posted and curl_multi_perform runs once, else
\* upload logs an error and returns 1.
CallEnd ==
  /\ pc = "idle" /\ calls_done < MaxCalls
  /\ calls_done' = calls_done + 1
  /\ \E c \in CallInfo :
       LET i   == GetSystem(c.short_name)
           key == IF i = 0 THEN NoKey ELSE systems[i].api_key
       IN  /\ call_info' = c
           /\ IF c.encrypted \/ key = NoKey
              THEN /\ answer' = 0
                   /\ Return(0, FALSE)
                   /\ UNCHANGED <<allocated, pending, still_running, posted>>
              ELSE \E easy, multi \in BOOLEAN, rounds \in 1..MaxRounds, code \in Codes :
                     /\ answer' = code
                     /\ allocated' = allocated \cup
                          ({"form", "headers"} \cup (IF easy THEN {"easy"} ELSE {})
                             \cup (IF multi THEN {"multi"} ELSE {})) \X {calls_done'}
                     /\ IF easy /\ multi
                        THEN /\ posted' = posted \cup {[call |-> c, key |-> key]}
                             /\ pending' = rounds - 1
                             /\ still_running' = (rounds > 1)
                             /\ pc' = IF rounds > 1 THEN "select" ELSE "finish"
                             /\ UNCHANGED returned
                        ELSE /\ Return(1, FALSE)
                             /\ UNCHANGED <<posted, pending, still_running>>
  /\ UNCHANGED <<config, systems, rc>>

\* One turn of the while (still_running) loop, first half: curl_multi_fdset
\* may fail (the loop breaks), else select() returns -1 on error or a
\* count of ready descriptors (0 on timeout).
Select ==
  /\ pc = "select"
  /\ \/ pc' = "finish" /\ UNCHANGED rc
     \/ \E r \in {-1, 0} : rc' = r /\ pc' = "dispatch"
  /\ UNCHANGED <<config, systems, call_info, allocated, pending, still_running, answer,
                 posted, returned, calls_done>>

\* Mutant: the loop keeps performing without testing still_running.
Dispatch_IgnoresStillRunning ==
  /\ pc = "dispatch"
  /\ IF rc = -1
     THEN /\ pc' = "select"
          /\ UNCHANGED <<pending, still_running>>
     ELSE /\ pending' = pending - 1
          /\ still_running' = (pending > 1)
          /\ pc' = "select"
  /\ UNCHANGED <<config, systems, call_info, allocated, rc, answer, posted, returned,
                 calls_done>>

\* Second half: on -1 the switch breaks and the loop goes round again
\* without calling curl; otherwise curl_multi_perform advances the
\* transfer and updates still_running.
Dispatch ==
  /\ pc = "dispatch"
  /\ IF rc = -1
     THEN /\ pc' = "select"
          /\ UNCHANGED <<pending, still_running>>
     ELSE /\ pending' = pending - 1
          /\ still_running' = (pending > 1)
          /\ pc' = IF pending > 1 THEN "select" ELSE "finish"
  /\ UNCHANGED <<config, systems, call_info, allocated, rc, answer, posted, returned,
                 calls_done>>

\* After the loop: the multi handle, the easy handle, the form and the
\* header list are freed, then curl_easy_getinfo reads the response code
\* from the freed easy handle (undefined behaviour: any value may be read);
\* 0 is returned on CURLM_OK with 200, else 1.
Finish ==
  /\ pc = "finish"
  /\ allocated' = allocated \ (Resource \X {calls_done})
  /\ UNCHANGED <<config, systems, call_info, pending, still_running, rc, answer,
                 posted, calls_done>>
  /\ \E read \in {answer} \cup Codes : Return(IF read = 200 THEN 0 ELSE 1, TRUE)

Init ==
  /\ pc = "config"
  /\ config = <<>>
  /\ systems = <<>>
  /\ call_info = CHOOSE c \in CallInfo : TRUE
  /\ allocated = {}
  /\ pending = 0 /\ still_running = FALSE /\ rc = 0 /\ answer = 0
  /\ posted = {} /\ returned = <<>> /\ calls_done = 0

Next == ParseConfig \/ CallEnd \/ Select \/ Dispatch \/ Finish

Spec == Init /\ [][Next]_vars

\* The main thread calls call_end and upload runs to its end; the plugin
\* scheduler gives every enabled step of the upload its turn.
Fairness == WF_vars(Select) /\ WF_vars(Dispatch) /\ WF_vars(Finish)

FairSpec == Spec /\ Fairness

-----------------------------------------------------------------------------

\* A request goes out only for a call that is not encrypted, and carries the
\* API key of the first "systems" element of the config that has an
\* "apiKey" and the call's short name; that key is not empty.
PostOnlyWithConfiguredKey ==
  \A p \in posted :
    LET i == SelectInSeq(config, LAMBDA e : e.hasKey /\ e.shortName = p.call.short_name)
    IN  /\ ~p.call.encrypted
        /\ i # 0
        /\ p.key = config[i].apiKey

\* upload reports success (0) for a call it sent only when the server
\* answered 200.
SuccessOnlyOn200 ==
  \A k \in 1..Len(returned) :
    returned[k].sent /\ returned[k].ret = 0 => returned[k].answer = 200

\* When upload returns, every curl resource it allocated for the call (the
\* form, the header list, the easy and the multi handle) has been freed.
NoLeakOnReturn == pc = "idle" => allocated = {}

\* Every upload that starts its transfer eventually returns to call_end.
UploadReturns == pc \in {"select", "dispatch", "finish"} ~> pc = "idle"

=============================================================================
