------------------- MODULE CommonEncryptionStreamInvariant -------------------
(***************************************************************************)
(* The inductive invariant of CommonEncryptionStream: what the plan holds  *)
(* while it is made, and how the root loop keeps to it.  TLC checks it on  *)
(* small files; CommonEncryptionStreamProofs proves it for all.            *)
(***************************************************************************)
EXTENDS CommonEncryptionStream

(* Nothing is read from the stream or written before the plan is complete. *)
IdleInv ==
  pc \in Planning =>
    input_position = 0 /\ cursor = 0 /\ output = << >> /\ output_length = 0

(* A replacement is one for a box of its own kind, which is why the plan   *)
(* and the loop, who look for one in different orders, cannot disagree.    *)
KindsInv ==
  /\ moov_replacement # None => root[moov_replacement.root].kind = "moov"
  /\ \A i \in DOMAIN moof_replacements : root[i].kind = "moof"
  /\ \A i \in DOMAIN mfra_replacements : root[i].kind = "mfra"

PlannedAt(i) == rewritten_offsets[root[i].offset]

(* The planned places of the first n boxes, one behind the other.          *)
PlannedTo(n) ==
  /\ \A i \in 1..n : root[i].offset \in DOMAIN rewritten_offsets
  /\ n > 0 => PlannedAt(1) = 0
  /\ \A i \in 1..n : i > 1 =>
       PlannedAt(i) = PlannedAt(i - 1) + rewritten_root_box_size(i - 1)

OffsetsInv ==
  /\ pc \in {"plan_moov", "plan_moofs"} => rewritten_offsets = << >> /\ next_offset = 0
  /\ pc = "plan_offsets" =>
       /\ PlannedTo(next_root - 1)
       /\ \A o \in DOMAIN rewritten_offsets :
            \E i \in 1..(next_root - 1) : o = root[i].offset
       /\ next_offset = IF next_root = 1 THEN 0
                        ELSE PlannedAt(next_root - 1)
                             + rewritten_root_box_size(next_root - 1)
  /\ pc \in {"plan_mfra", "execute", "done"} /\ rewritten_offsets # << >> =>
       PlannedTo(Len(root))

(* The output has come to the planned place of the next box.               *)
ProgressInv ==
  pc = "execute" /\ rewritten_offsets # << >> /\ next_root \in Roots =>
    output_length = PlannedAt(next_root)

IInv ==
  /\ TypeOK /\ IdleInv /\ KindsInv /\ OffsetsInv /\ ProgressInv
  /\ RootLoopAligned /\ PlannedOffsetsHold
-----------------------------------------------------------------------------
(***************************************************************************)
(* What random access rests on, on top of IInv.                            *)
(***************************************************************************)

(* A file with an mfra has its offsets planned; the entries that will be   *)
(* written for an mfra are the planned ones, whether it had to be replaced *)
(* or not; and a run that is done has come behind the last box.            *)
EntriesInv ==
  /\ pc \in {"plan_mfra", "execute", "done"} =>
       \A i \in Roots : root[i].kind = "mfra" => rewritten_offsets # << >>
  /\ pc \in {"execute", "done"} =>
       \A i \in Roots : root[i].kind = "mfra" => EntriesWritten(i) = RewrittenEntries(i)
  /\ pc = "done" => next_root \notin Roots
-----------------------------------------------------------------------------
(***************************************************************************)
(* What the samples of the fragments rest on, on top of IInv.              *)
(***************************************************************************)

(* Only a moof that can be patched is replaced, by what it is without its  *)
(* encryption metadata.                                                    *)
ReplacementsInv ==
  \A i \in DOMAIN moof_replacements :
    IsRebuilt(root[i]) /\ moof_replacements[i] = RebuiltMoof(root[i])

(* The pieces are as large as what the boxes became, and adjoin.           *)
PiecesInv ==
  pc \in {"execute", "done"} =>
    /\ \A i \in DOMAIN output :
         /\ output[i].size = PieceSize(i)
         /\ Place(i) = IF i = 1 THEN 0 ELSE Place(i - 1) + PieceSize(i - 1)
    /\ output_length = IF output = << >> THEN 0
                       ELSE Place(Len(output)) + PieceSize(Len(output))
=============================================================================
