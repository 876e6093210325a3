--------------------------- MODULE MCSampleReader ---------------------------
(***************************************************************************)
(* SampleReader on plans of up to three items over two sources: items that *)
(* touch, overlap, lie apart, lie behind each other, are empty, run past   *)
(* the end of their source, or name a source that was never opened.        *)
(***************************************************************************)
EXTENDS SampleReader

Places == [1..3 -> {0, 1, 3} \X {0, 2}]

Takes == { << 0, 0, 0 >>, << 0, 1, 0 >>, << 0, 2, 0 >> }

MCPlans ==
  { [ i \in 1..3 |-> [source_index |-> s[i], data_offset |-> p[i][1], data_size |-> p[i][2]] ] :
      s \in Takes, p \in Places }
  \cup { << >> }

MCLengths == { [s \in Sources |-> IF s = 0 THEN n ELSE 5] : n \in {2, 5} }
=============================================================================
