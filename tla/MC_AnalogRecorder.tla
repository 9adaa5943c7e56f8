-------------------------- MODULE MC_AnalogRecorder --------------------------
(* Model values for AnalogRecorder: two analog recorders, two call slots   *)
(* (symmetric), one unit id in signalling and one queued message per       *)
(* recorder.                                                               *)
EXTENDS AnalogRecorder, TLC

CONSTANTS a1, a2

MC_Calls == {a1, a2}

\* Call slots are interchangeable: no definition names a particular slot.
MC_Symmetry == Permutations(MC_Calls)
=============================================================================
