--------------------------- MODULE ForwardRewrite ---------------------------
(***************************************************************************)
(* What a forward rewriter promises to whoever reads its output: the output*)
(* only grows, its i-th element is one the plan admits at place i, the     *)
(* rewriter reports success only over the complete output, and nothing is  *)
(* written after it has returned.  MdatStream implements it.               *)
(***************************************************************************)
EXTENDS Naturals, Sequences

VARIABLES
  admissible,  \* admissible[i]: what may stand at place i of the output
  emitted,     \* what was written so far
  status       \* "running", "done" or "failed"

vars == << admissible, emitted, status >>

IsRewrite(written) ==
  /\ Len(written) <= Len(admissible)
  /\ \A i \in DOMAIN written : written[i] \in admissible[i]

ExtendsOutput(written) ==
  /\ Len(emitted) <= Len(written)
  /\ \A i \in DOMAIN emitted : written[i] = emitted[i]

Init ==
  /\ emitted = << >>
  /\ status = "running"

Emit ==
  /\ status = "running"
  /\ ExtendsOutput(emitted') /\ IsRewrite(emitted')
  /\ UNCHANGED << admissible, status >>

(* The last write may have gone out in part.                               *)
Fail ==
  /\ status = "running"
  /\ status' = "failed"
  /\ ExtendsOutput(emitted') /\ IsRewrite(emitted')
  /\ UNCHANGED admissible

Finish ==
  /\ status = "running"
  /\ Len(emitted) = Len(admissible)
  /\ status' = "done"
  /\ UNCHANGED << admissible, emitted >>

Next == Emit \/ Fail \/ Finish

Spec == Init /\ [][Next]_vars
=============================================================================
