---------------------------- MODULE RecorderLease ----------------------------
(***************************************************************************)
(* What a Source's recorder pool promises its callers, without calls,      *)
(* priorities or sinks: each recorder is leased to at most one holder, a   *)
(* holder leases at most one recorder, a released recorder drains before   *)
(* it can be leased again, and every lease is eventually released and      *)
(* every drained recorder eventually returns to the pool.                  *)
(***************************************************************************)
CONSTANTS Recorders, Holders, Nobody

ASSUME Nobody \notin Holders

VARIABLES
  holder,    \* holder[r]: who leases recorder r, Nobody when it is free
  draining   \* recorders released and not yet back in the pool

vars == <<holder, draining>>

TypeOK ==
  /\ holder \in [Recorders -> Holders \cup {Nobody}]
  /\ draining \in SUBSET Recorders

Init ==
  /\ holder = [r \in Recorders |-> Nobody]
  /\ draining = {}

\* A free, drained recorder is leased to a holder that leases no other.
Acquire(r, h) ==
  /\ holder[r] = Nobody
  /\ r \notin draining
  /\ \A s \in Recorders : holder[s] # h
  /\ holder' = [holder EXCEPT ![r] = h]
  /\ UNCHANGED draining

\* The holder gives the recorder back; it must drain before reuse.
Release(r) ==
  /\ holder[r] # Nobody
  /\ holder' = [holder EXCEPT ![r] = Nobody]
  /\ draining' = draining \cup {r}

\* A drained recorder returns to the pool.
Recycle(r) ==
  /\ r \in draining
  /\ draining' = draining \ {r}
  /\ UNCHANGED holder

Next ==
  \/ \E r \in Recorders, h \in Holders : Acquire(r, h)
  \/ \E r \in Recorders : Release(r)
  \/ \E r \in Recorders : Recycle(r)

Spec ==
  /\ Init /\ [][Next]_vars
  /\ \A r \in Recorders : WF_vars(Release(r)) /\ WF_vars(Recycle(r))

=============================================================================
