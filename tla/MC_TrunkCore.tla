---------------------------- MODULE MC_TrunkCore ----------------------------
(* Model values for TrunkCore: one Source with two digital recorders, two  *)
(* call slots (calls are symmetric), four talkgroups of which one is not   *)
(* in the directory, two channels and one radio unit besides -1.           *)
EXTENDS TrunkCore, TLC

CONSTANTS c1, c2

MC_Calls == {c1, c2}

\* 101 appears twice: find_talkgroup takes the first row (priority 1).
\* 102 needs both recorders free, 103 is never recorded and 105 is not in
\* the directory (no priority check at all).
MC_TgRows == << [number |-> 101, priority |-> 1],
                [number |-> 102, priority |-> 2],
                [number |-> 101, priority |-> -1],
                [number |-> 103, priority |-> -1] >>

MC_Talkgroups == {101, 102, 103, 105}

MC_NoUnit == -1

\* Call slots are interchangeable: no definition names a particular slot.
MC_Symmetry == Permutations(MC_Calls)
=============================================================================
