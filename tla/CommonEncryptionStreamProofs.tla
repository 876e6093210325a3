-------------------- MODULE CommonEncryptionStreamProofs --------------------
(***************************************************************************)
(* CommonEncryptionStream, for every set of files: its invariant is        *)
(* inductive, the root loop never loses its place in the input, and every  *)
(* root box is written where the plan promised.                            *)
(***************************************************************************)
EXTENDS CommonEncryptionStreamInvariant, SharedProofs

(* The boxes of the file, as the walk over the input left them.            *)
LEMMA RootBoxes ==
  ASSUME file \in Files
  PROVE  /\ Len(root) \in Nat /\ Roots = 1..Len(root)
         /\ \A i \in Roots :
              /\ root[i].offset \in Nat /\ root[i].size \in Nat /\ root[i].size > 0
              /\ root[i].shrink \in Nat /\ root[i].size - root[i].shrink \in Nat
              /\ MoofRemoved(root[i]) \in Nat
              /\ root[i].size - MoofRemoved(root[i]) \in Nat
<1>1. file \in File /\ root \in Seq(RootBox)
  BY FilesAssumption DEF root, File
<1>2. Len(root) \in Nat /\ Roots = 1..Len(root)
  BY <1>1 DEF Roots
<1>3. ASSUME NEW i \in Roots
      PROVE  /\ root[i].offset \in Nat /\ root[i].size \in Nat /\ root[i].size > 0
             /\ root[i].shrink \in Nat /\ root[i].size - root[i].shrink \in Nat
             /\ MoofRemoved(root[i]) \in Nat
             /\ root[i].size - MoofRemoved(root[i]) \in Nat
  <2>1. root[i] \in RootBox
    BY <1>1, <1>2
  <2>2. /\ root[i].offset \in Nat /\ root[i].size \in Nat
        /\ root[i].shrink \in Nat /\ root[i].header_size \in Nat
    BY <2>1 DEF RootBox
  <2>3. MoofRemoved(root[i]) \in Nat
    <3>1. root[i].trafs \in Seq(Traf)
      BY <2>1 DEF RootBox
    <3>2. \A t \in DOMAIN root[i].trafs : root[i].trafs[t] \in Traf
      BY <3>1
    <3>3. \A t \in DOMAIN root[i].trafs : root[i].trafs[t].removed \in Nat
      BY <3>2 DEF Traf
    <3>4. /\ Len(root[i].trafs) \in Nat
          /\ DOMAIN root[i].trafs = 1..Len(root[i].trafs)
      BY <3>1
    <3> QED BY <3>3, <3>4, MoofRemovedIs
  <2>4. /\ MoofRemoved(root[i]) + root[i].shrink + root[i].header_size <= root[i].size
        /\ root[i].header_size > 0
    BY FilesAssumption DEF root, Roots
  <2> QED BY <2>2, <2>3, <2>4
<1> QED BY <1>2, <1>3

(* They adjoin, and no two of them begin at one offset.                    *)
LEMMA RootBoxesAdjoin ==
  ASSUME file \in Files, NEW i \in Roots
  PROVE  /\ i = 1 => root[i].offset = 0
         /\ i > 1 => root[i].offset = root[i - 1].offset + root[i - 1].size
         /\ \A j \in Roots : j < i => root[j].offset < root[i].offset
<1>1. Len(root) \in Nat /\ Roots = 1..Len(root) /\ i \in 1..Len(root)
  BY RootBoxes
<1>2. \A k \in Roots :
        /\ root[k].offset = IF k = 1 THEN 0 ELSE root[k - 1].offset + root[k - 1].size
        /\ root[k].offset \in Nat /\ root[k].size \in Nat /\ root[k].size > 0
  BY FilesAssumption, RootBoxes DEF root, Roots
<1>3. ASSUME NEW j \in Roots, j < i
      PROVE  root[j].offset < root[i].offset
  <2> DEFINE T == { m \in 0..i : m > j => root[j].offset < root[m].offset }
  <2>1. 0 \in T
    BY <1>1
  <2>2. ASSUME NEW m \in 1..i, m - 1 \in T PROVE m \in T
    <3>1. CASE m > j
      <4>1. /\ m \in Roots /\ m - 1 \in Roots /\ m # 1 /\ j \in Nat
            /\ m - 1 = j \/ m - 1 > j
        BY <1>1, <3>1
      <4>2. root[m].offset = root[m - 1].offset + root[m - 1].size
        BY <1>2, <4>1
      <4>3. root[j].offset <= root[m - 1].offset
        <5>1. root[j].offset \in Nat /\ root[m - 1].offset \in Nat
          BY <1>2, <4>1
        <5>2. m - 1 > j => root[j].offset < root[m - 1].offset
          BY <2>2
        <5> HIDE DEF T
        <5>3. CASE m - 1 = j
          BY <5>1, <5>3
        <5>4. CASE m - 1 > j
          BY <5>1, <5>2, <5>4
        <5> QED BY <4>1, <5>3, <5>4
      <4>4. root[j].offset \in Nat /\ root[m - 1].offset \in Nat /\ root[m - 1].size \in Nat
            /\ root[m - 1].size > 0
        BY <1>2, <4>1
      <4>5. root[j].offset < root[m].offset
        BY <4>2, <4>3, <4>4
      <4> QED BY <4>5
    <3>2. CASE ~ (m > j)
      BY <1>1, <3>2
    <3> QED BY <3>1, <3>2
  <2> HIDE DEF T
  <2>3. i \in Nat
    BY <1>1
  <2>4. 0..i \subseteq T
    BY <2>1, <2>2, <2>3, BoundedInduction
  <2> QED BY <1>3, <2>3, <2>4 DEF T
<1> QED BY <1>1, <1>2, <1>3

LEMMA OffsetsAdvance ==
  ASSUME file \in Files
  PROVE  /\ OffsetOf(1) = 0
         /\ \A i \in Roots : /\ OffsetOf(i) = root[i].offset
                             /\ OffsetOf(i + 1) = OffsetOf(i) + root[i].size
<1>1. Len(root) \in Nat /\ Roots = 1..Len(root) /\ root \in Seq(RootBox)
  BY RootBoxes, FilesAssumption DEF root, File
<1>2. OffsetOf(1) = 0
  <2>1. CASE 1 \in Roots
    BY <2>1, RootBoxesAdjoin DEF OffsetOf
  <2>2. CASE 1 \notin Roots
    <3>1. root = << >>
      BY <1>1, <2>2
    <3> QED BY <2>2, <3>1 DEF OffsetOf, EndOfFile
  <2> QED BY <2>1, <2>2
<1>3. ASSUME NEW i \in Roots
      PROVE  OffsetOf(i) = root[i].offset /\ OffsetOf(i + 1) = OffsetOf(i) + root[i].size
  <2>1. OffsetOf(i) = root[i].offset
    BY DEF OffsetOf
  <2>2. CASE i + 1 \in Roots
    <3>1. root[i + 1].offset = root[i].offset + root[i].size
      BY <1>1, <2>2, RootBoxesAdjoin
    <3> QED BY <2>1, <2>2, <3>1 DEF OffsetOf
  <2>3. CASE i + 1 \notin Roots
    <3>1. i = Len(root) /\ root # << >>
      BY <1>1, <2>3
    <3> QED BY <2>1, <2>3, <3>1 DEF OffsetOf, EndOfFile
  <2> QED BY <2>1, <2>2, <2>3
<1> QED BY <1>2, <1>3

(* The plan's size of a box is the size of what the loop writes for it.    *)
LEMMA SizesAgree ==
  ASSUME TypeOK, KindsInv, NEW i \in Roots
  PROVE  /\ PieceSize(i) = rewritten_root_box_size(i)
         /\ PieceSize(i) \in Nat
<1>1. root[i].size \in Nat
  BY RootBoxes DEF TypeOK
<1>2. moov_replacement # None => moov_replacement.size \in Nat
  BY DEF TypeOK
<1>3. i \in DOMAIN moof_replacements => moof_replacements[i].size \in Nat
  BY DEF TypeOK
<1>4. i \in DOMAIN mfra_replacements => i \notin DOMAIN moof_replacements
  BY DEF KindsInv
<1>5. PieceSize(i) = rewritten_root_box_size(i)
  BY <1>4 DEF PieceSize, rewritten_root_box_size, IsMoovReplaced
<1>6. rewritten_root_box_size(i) \in Nat
  BY <1>1, <1>2, <1>3 DEF rewritten_root_box_size
<1> QED BY <1>5, <1>6

-----------------------------------------------------------------------------
LEMMA ElementOfSeq ==
  ASSUME NEW S, NEW s \in Seq(S), NEW i \in DOMAIN s
  PROVE  s[i] \in S
OBVIOUS

LEMMA AppendKeeps ==
  ASSUME NEW S, NEW s \in Seq(S), NEW e \in S, NEW i \in DOMAIN s
  PROVE  Append(s, e)[i] = s[i]
OBVIOUS

LEMMA InitIInv == Init => IInv
<1> SUFFICES ASSUME Init PROVE IInv
  OBVIOUS
<1>1. file \in Files /\ Len(root) \in Nat
  BY RootBoxes DEF Init
<1>2. TypeOK
  BY <1>1 DEF Init, TypeOK, Planning
<1>3. IdleInv /\ KindsInv /\ OffsetsInv /\ ProgressInv /\ RootLoopAligned /\ PlannedOffsetsHold
  BY DEF Init, IdleInv, KindsInv, OffsetsInv, ProgressInv, RootLoopAligned,
     PlannedOffsetsHold
<1> QED BY <1>2, <1>3 DEF IInv

(* A failure changes the outcome, and leaves everything else of the plan.  *)
LEMMA FailureKeepsIInv ==
  ASSUME IInv, pc' = "failed", error' \in {"SampleDataRangeNotFound", "Plan", "Overlap", "Eof", "Io"},
         UNCHANGED << file, next_root, planVars, input_position, cursor, output >>,
         output_length' \in Nat
  PROVE  IInv'
<1>1. TypeOK'
  BY DEF IInv, TypeOK, planVars, Outcomes, root, Roots
<1>2. KindsInv'
  BY DEF IInv, KindsInv, planVars, root
<1>3. IdleInv' /\ OffsetsInv' /\ ProgressInv' /\ RootLoopAligned' /\ PlannedOffsetsHold'
  BY DEF IdleInv, Planning, OffsetsInv, ProgressInv, RootLoopAligned, PlannedOffsetsHold
<1> QED BY <1>1, <1>2, <1>3 DEF IInv
-----------------------------------------------------------------------------
(* The steps of the plan.                                                  *)
LEMMA PlanMoovKeeps ==
  ASSUME IInv, PlanMoov
  PROVE  IInv'
<1> USE DEF IInv
<1>1. file \in Files /\ Len(root) \in Nat /\ root' = root
  BY RootBoxes DEF TypeOK, PlanMoov, root
<1>2. pc' = "plan_moofs" /\ next_root' = 1
  BY DEF PlanMoov, GoTo
<1>3. \/ moov_replacement' = moov_replacement
      \/ \E i \in Roots : /\ root[i].kind = "moov"
                          /\ moov_replacement' = [root |-> i, size |-> root[i].size - root[i].shrink]
  BY DEF PlanMoov
<1>4. /\ moov_replacement' = None \/ moov_replacement' \in [root : Roots, size : Nat]
      /\ moov_replacement' # None => root[moov_replacement'.root].kind = "moov"
  <2>1. \A i \in Roots : root[i].size - root[i].shrink \in Nat
    BY <1>1, RootBoxes
  <2>2. CASE moov_replacement' = moov_replacement
    BY <2>2 DEF TypeOK, KindsInv
  <2>3. CASE \E i \in Roots :
               /\ root[i].kind = "moov"
               /\ moov_replacement' = [root |-> i, size |-> root[i].size - root[i].shrink]
    BY <2>1, <2>3
  <2> QED BY <1>3, <2>2, <2>3
<1>5. TypeOK'
  BY <1>1, <1>2, <1>4 DEF TypeOK, PlanMoov, Planning, streamVars, Roots, root
<1>6. KindsInv'
  BY <1>1, <1>4 DEF KindsInv, PlanMoov
<1>7. IdleInv'
  BY <1>2 DEF IdleInv, PlanMoov, Planning, streamVars
<1>8. OffsetsInv' /\ ProgressInv' /\ RootLoopAligned' /\ PlannedOffsetsHold'
  BY <1>2 DEF OffsetsInv, ProgressInv, RootLoopAligned, PlannedOffsetsHold, PlanMoov
<1> QED BY <1>5, <1>6, <1>7, <1>8

LEMMA PlanMoofKeeps ==
  ASSUME IInv, PlanMoof
  PROVE  IInv'
<1> USE DEF IInv
<1>1. file \in Files /\ Len(root) \in Nat /\ Roots = 1..Len(root) /\ next_root \in Roots
  BY RootBoxes DEF TypeOK, PlanMoof
<1>2. root' = root /\ Roots' = Roots
  BY DEF PlanMoof, root, Roots
<1>3. CASE pc' = "failed"
  <2>1. /\ error' = "SampleDataRangeNotFound"
        /\ UNCHANGED << file, next_root, planVars, streamVars >>
    BY <1>3 DEF PlanMoof, Fail, planVars
  <2> QED BY <1>3, <2>1, FailureKeepsIInv DEF streamVars, TypeOK
<1>4. CASE pc' # "failed"
  <2>1. pc' = "plan_moofs" /\ next_root' = next_root + 1 /\ error' = error
    BY <1>4 DEF PlanMoof, Fail
  <2>2. \/ UNCHANGED << mdat_edits, moof_replacements >>
        \/ /\ root[next_root].kind = "moof"
           /\ mdat_edits' = WithEditsOf(next_root)
           /\ \/ moof_replacements' = moof_replacements
              \/ moof_replacements' =
                   Including(moof_replacements, next_root, RebuiltMoof(root[next_root]))
    BY <1>4 DEF PlanMoof, Fail
  <2>3. DOMAIN mdat_edits' \subseteq Roots
    BY <2>2 DEF TypeOK, WithEditsOf
  <2>4. RebuiltMoof(root[next_root]).size \in Nat
    BY <1>1, RootBoxes DEF RebuiltMoof
  <2>5. /\ DOMAIN moof_replacements' \subseteq Roots
        /\ \A i \in DOMAIN moof_replacements' :
             moof_replacements'[i].size \in Nat /\ root[i].kind = "moof"
    <3>1. CASE moof_replacements' = moof_replacements
      BY <3>1 DEF TypeOK, KindsInv
    <3>2. CASE /\ root[next_root].kind = "moof"
               /\ moof_replacements' =
                    Including(moof_replacements, next_root, RebuiltMoof(root[next_root]))
      <4>1. DOMAIN moof_replacements \subseteq Roots
        BY DEF TypeOK
      <4>2. \A i \in DOMAIN moof_replacements :
              moof_replacements[i].size \in Nat /\ root[i].kind = "moof"
        BY DEF TypeOK, KindsInv
      <4>3. /\ DOMAIN moof_replacements' = DOMAIN moof_replacements \cup {next_root}
            /\ moof_replacements'[next_root] = RebuiltMoof(root[next_root])
            /\ \A i \in DOMAIN moof_replacements :
                 i # next_root => moof_replacements'[i] = moof_replacements[i]
        BY <3>2 DEF Including
      <4> QED BY <1>1, <2>4, <3>2, <4>1, <4>2, <4>3
    <3> QED BY <2>2, <3>1, <3>2
  <2>6. TypeOK'
    BY <1>1, <1>2, <2>1, <2>3, <2>5 DEF TypeOK, PlanMoof, Planning, streamVars
  <2>7. KindsInv'
    BY <1>2, <2>5 DEF KindsInv, PlanMoof
  <2>8. IdleInv'
    BY DEF IdleInv, PlanMoof, Planning, streamVars
  <2>9. OffsetsInv' /\ ProgressInv' /\ RootLoopAligned' /\ PlannedOffsetsHold'
    BY <2>1 DEF OffsetsInv, ProgressInv, RootLoopAligned, PlannedOffsetsHold, PlanMoof
  <2> QED BY <2>6, <2>7, <2>8, <2>9
<1> QED BY <1>3, <1>4

(* The root loop begins: nothing was read or written, and the first box is *)
(* planned for the start of the output.                                    *)
LEMMA LoopBegins ==
  ASSUME IInv, pc \in Planning, pc' = "execute", next_root' = 1,
         UNCHANGED << file, moov_replacement, moof_replacements, rewritten_offsets, streamVars >>,
         rewritten_offsets # << >> => PlannedTo(Len(root))
  PROVE  /\ OffsetsInv' /\ ProgressInv' /\ RootLoopAligned' /\ PlannedOffsetsHold' /\ IdleInv'
<1> USE DEF IInv
<1>1. file \in Files /\ Len(root) \in Nat /\ Roots = 1..Len(root)
  BY RootBoxes DEF TypeOK
<1>2. root' = root /\ Roots' = Roots
  BY DEF root, Roots
<1>3. output' = << >> /\ output_length' = 0 /\ cursor' = 0 /\ input_position' = 0
  BY DEF IdleInv, streamVars
<1>4. rewritten_offsets # << >> => PlannedTo(Len(root))'
  BY <1>2 DEF PlannedTo, PlannedAt, rewritten_root_box_size
<1>5. OffsetsInv'
  BY <1>2, <1>4 DEF OffsetsInv
<1>6. ProgressInv'
  BY <1>1, <1>2, <1>3, <1>4 DEF ProgressInv, PlannedTo
<1>7. RootLoopAligned'
  <2>1. OffsetOf(1)' = OffsetOf(1)
    BY <1>2 DEF OffsetOf, EndOfFile
  <2> QED BY <1>1, <1>3, <2>1, OffsetsAdvance DEF RootLoopAligned
<1>8. PlannedOffsetsHold'
  BY <1>3 DEF PlannedOffsetsHold
<1>9. IdleInv'
  BY DEF IdleInv, Planning
<1> QED BY <1>5, <1>6, <1>7, <1>8, <1>9

LEMMA EndMoofsKeeps ==
  ASSUME IInv, EndMoofs
  PROVE  IInv'
<1> USE DEF IInv
<1>1. file \in Files /\ Len(root) \in Nat /\ Roots = 1..Len(root) /\ pc \in Planning
  BY RootBoxes DEF TypeOK, EndMoofs, Planning
<1>2. root' = root /\ Roots' = Roots /\ next_root' = 1 /\ pc' \in {"plan_offsets", "execute"}
      /\ UNCHANGED << file, planVars, streamVars, error >>
  BY DEF EndMoofs, GoTo, root, Roots
<1>3. TypeOK'
  BY <1>1, <1>2 DEF TypeOK, planVars, streamVars, Planning
<1>4. KindsInv'
  BY <1>2 DEF KindsInv, planVars
<1>5. rewritten_offsets = << >> /\ next_offset = 0
  BY DEF OffsetsInv, EndMoofs
<1>6. CASE pc' = "execute"
  BY <1>1, <1>2, <1>3, <1>4, <1>5, <1>6, LoopBegins DEF planVars
<1>7. CASE pc' = "plan_offsets"
  <2>1. IdleInv'
    BY <1>1, <1>2 DEF IdleInv, streamVars
  <2>2. OffsetsInv'
    <3>1. (next_root - 1)' = 0 /\ rewritten_offsets' = << >> /\ next_offset' = 0
      BY <1>2, <1>5 DEF planVars
    <3>2. PlannedTo(next_root - 1)'
      BY <3>1 DEF PlannedTo
    <3> QED BY <1>2, <1>7, <3>1, <3>2 DEF OffsetsInv
  <2>3. ProgressInv' /\ RootLoopAligned' /\ PlannedOffsetsHold'
    BY <1>7 DEF ProgressInv, RootLoopAligned, PlannedOffsetsHold
  <2> QED BY <1>3, <1>4, <2>1, <2>2, <2>3
<1> QED BY <1>2, <1>6, <1>7

LEMMA PlanOffsetKeeps ==
  ASSUME IInv, PlanOffset
  PROVE  IInv'
<1> USE DEF IInv
<1> SUFFICES ASSUME NEW n, n = next_root PROVE IInv'
  OBVIOUS
<1>1. file \in Files /\ Len(root) \in Nat /\ Roots = 1..Len(root) /\ n \in Roots
  BY RootBoxes DEF TypeOK, PlanOffset
<1>2. root' = root /\ Roots' = Roots
  BY DEF PlanOffset, root, Roots
<1>3. /\ DOMAIN rewritten_offsets' = DOMAIN rewritten_offsets \cup {root[n].offset}
      /\ rewritten_offsets'[root[n].offset] = next_offset
      /\ \A o \in DOMAIN rewritten_offsets :
           o # root[n].offset => rewritten_offsets'[o] = rewritten_offsets[o]
  <2>1. rewritten_offsets' = Including(rewritten_offsets, root[n].offset, next_offset)
    BY DEF PlanOffset
  <2> QED BY <2>1 DEF Including
<1>4. rewritten_root_box_size(n) \in Nat /\ next_offset \in Nat
  BY <1>1, SizesAgree DEF TypeOK
<1>5. TypeOK'
  <2>1. \A o \in DOMAIN rewritten_offsets' : rewritten_offsets'[o] \in Nat
    BY <1>3, <1>4 DEF TypeOK
  <2>2. next_offset' \in Nat /\ next_root' \in 1..(Len(root) + 1)
    BY <1>1, <1>4 DEF PlanOffset
  <2> QED BY <1>2, <2>1, <2>2 DEF TypeOK, PlanOffset, streamVars
<1>6. KindsInv'
  BY <1>2 DEF KindsInv, PlanOffset
<1>7. IdleInv'
  BY DEF IdleInv, PlanOffset, streamVars
<1>8. OffsetsInv'
  <2>1. /\ PlannedTo(n - 1)
        /\ \A o \in DOMAIN rewritten_offsets : \E i \in 1..(n - 1) : o = root[i].offset
        /\ next_offset = IF n = 1 THEN 0
                         ELSE PlannedAt(n - 1) + rewritten_root_box_size(n - 1)
    BY DEF OffsetsInv, PlanOffset
  <2>2. \A i \in 1..(n - 1) : i \in Roots /\ root[i].offset # root[n].offset
    <3> TAKE i \in 1..(n - 1)
    <3>1. i \in Roots /\ i < n
      BY <1>1
    <3>2. root[i].offset < root[n].offset /\ root[i].offset \in Nat /\ root[n].offset \in Nat
      BY <1>1, <3>1, RootBoxesAdjoin, RootBoxes
    <3> QED BY <3>1, <3>2
  <2>3. \A i \in Roots : rewritten_root_box_size(i)' = rewritten_root_box_size(i)
    BY <1>2 DEF rewritten_root_box_size, PlanOffset
  <2>4. /\ \A i \in 1..(n - 1) : PlannedAt(i)' = PlannedAt(i)
        /\ PlannedAt(n)' = next_offset
    BY <1>2, <1>3, <2>1, <2>2 DEF PlannedAt, PlannedTo
  <2>5. PlannedTo(n)'
    <3>1. \A i \in 1..n : root'[i].offset \in DOMAIN rewritten_offsets'
      BY <1>1, <1>2, <1>3, <2>1, SMTT(20) DEF PlannedTo
    <3>2. PlannedAt(1)' = 0
      BY <1>1, <2>1, <2>4 DEF PlannedTo
    <3>3. ASSUME NEW i \in 1..n, i > 1
          PROVE  PlannedAt(i)' = PlannedAt(i - 1)' + rewritten_root_box_size(i - 1)'
      <4>1. i - 1 \in 1..(n - 1) /\ i - 1 \in Roots
        BY <1>1, <3>3
      <4>2. CASE i = n
        BY <2>1, <2>3, <2>4, <3>3, <4>1, <4>2
      <4>3. CASE i # n
        <5>1. i \in 1..(n - 1)
          BY <1>1, <4>3
        <5>2. PlannedAt(i) = PlannedAt(i - 1) + rewritten_root_box_size(i - 1)
          BY <2>1, <3>3, <5>1 DEF PlannedTo
        <5> QED BY <2>3, <2>4, <4>1, <5>1, <5>2
      <4> QED BY <4>2, <4>3
    <3> QED BY <3>1, <3>2, <3>3 DEF PlannedTo
  <2>6. next_root' = n + 1 /\ pc' = "plan_offsets" /\ next_root' - 1 = n /\ next_root' # 1
    BY <1>1 DEF PlanOffset
  <2>7. \A o \in DOMAIN rewritten_offsets' : \E i \in 1..n : o = root'[i].offset
    <3> TAKE o \in DOMAIN rewritten_offsets'
    <3>1. CASE o = root[n].offset
      BY <1>1, <1>2, <3>1
    <3>2. CASE o # root[n].offset
      <4>1. PICK i \in 1..(n - 1) : o = root[i].offset
        BY <1>3, <2>1, <3>2
      <4> QED BY <1>1, <1>2, <4>1
    <3> QED BY <3>1, <3>2
  <2>8. next_offset' = PlannedAt(n)' + rewritten_root_box_size(n)'
    BY <1>1, <2>3, <2>4 DEF PlanOffset
  <2>9. /\ PlannedTo(next_root - 1)'
        /\ (PlannedAt(next_root - 1) + rewritten_root_box_size(next_root - 1))'
             = PlannedAt(n)' + rewritten_root_box_size(n)'
    BY <2>5, <2>6 DEF PlannedTo, PlannedAt, rewritten_root_box_size
  <2> QED BY <2>6, <2>7, <2>8, <2>9 DEF OffsetsInv
<1>9. ProgressInv' /\ RootLoopAligned' /\ PlannedOffsetsHold'
  BY DEF ProgressInv, RootLoopAligned, PlannedOffsetsHold, PlanOffset
<1> QED BY <1>5, <1>6, <1>7, <1>8, <1>9

LEMMA EndOffsetsKeeps ==
  ASSUME IInv, EndOffsets
  PROVE  IInv'
<1> USE DEF IInv
<1>1. file \in Files /\ Len(root) \in Nat /\ Roots = 1..Len(root) /\ next_root = Len(root) + 1
  BY RootBoxes DEF TypeOK, EndOffsets
<1>2. root' = root /\ Roots' = Roots /\ next_root' = 1 /\ pc' = "plan_mfra"
      /\ UNCHANGED << file, planVars, streamVars, error >>
  BY DEF EndOffsets, GoTo, root, Roots
<1>3. TypeOK'
  BY <1>1, <1>2 DEF TypeOK, planVars, streamVars, Planning
<1>4. KindsInv'
  BY <1>2 DEF KindsInv, planVars
<1>5. IdleInv'
  BY <1>2 DEF IdleInv, streamVars, EndOffsets, Planning
<1>6. PlannedTo(Len(root))
  BY <1>1 DEF OffsetsInv, EndOffsets
<1>7. OffsetsInv'
  <2>1. PlannedTo(Len(root))'
    BY <1>2, <1>6 DEF PlannedTo, PlannedAt, rewritten_root_box_size, planVars
  <2> QED BY <1>2, <2>1 DEF OffsetsInv
<1>8. ProgressInv' /\ RootLoopAligned' /\ PlannedOffsetsHold'
  BY <1>2 DEF ProgressInv, RootLoopAligned, PlannedOffsetsHold
<1> QED BY <1>3, <1>4, <1>5, <1>7, <1>8

LEMMA PlanMfraKeeps ==
  ASSUME IInv, PlanMfra
  PROVE  IInv'
<1> USE DEF IInv
<1>1. file \in Files /\ Len(root) \in Nat
  BY RootBoxes DEF TypeOK
<1>2. root' = root /\ Roots' = Roots /\ next_root' = 1 /\ pc' = "execute" /\ pc \in Planning
  BY DEF PlanMfra, GoTo, root, Roots, Planning
<1>3. /\ DOMAIN mfra_replacements' \subseteq Roots
      /\ \A i \in DOMAIN mfra_replacements' : root[i].kind = "mfra"
  BY DEF PlanMfra
<1>4. TypeOK'
  BY <1>1, <1>2, <1>3 DEF TypeOK, PlanMfra, streamVars
<1>5. KindsInv'
  BY <1>2, <1>3 DEF KindsInv, PlanMfra
<1>6. rewritten_offsets # << >> => PlannedTo(Len(root))
  BY DEF OffsetsInv, PlanMfra
<1>7. UNCHANGED << file, moov_replacement, moof_replacements, rewritten_offsets, streamVars >>
  BY DEF PlanMfra
<1> QED BY <1>2, <1>4, <1>5, <1>6, <1>7, LoopBegins
-----------------------------------------------------------------------------
(* The steps of the root loop.                                             *)
LEMMA WriteRootKeeps ==
  ASSUME IInv, pc = "execute", next_root \in Roots, WriteRoot
  PROVE  IInv'
<1> USE DEF IInv
<1> SUFFICES ASSUME NEW n, n = next_root PROVE IInv'
  OBVIOUS
<1>1. file \in Files /\ Len(root) \in Nat /\ Roots = 1..Len(root) /\ n \in Nat
  BY RootBoxes DEF TypeOK
<1>2. /\ root' = root /\ Roots' = Roots /\ pc' = "execute" /\ next_root' = n + 1
      /\ UNCHANGED << file, planVars, error >>
  BY DEF WriteRoot, root, Roots
<1>3. /\ cursor = root[n].offset /\ input_position = root[n].offset
      /\ Len(output) = n - 1 /\ root[n].offset \in Nat /\ root[n].size \in Nat
      /\ OffsetOf(n + 1) = root[n].offset + root[n].size
  BY <1>1, OffsetsAdvance, RootBoxes DEF RootLoopAligned
<1>4. Gap(n) = 0
  BY <1>3 DEF Gap
<1>5. PieceSize(n) = rewritten_root_box_size(n) /\ PieceSize(n) \in Nat
  BY SizesAgree
<1>6. /\ output' = Append(output, [start |-> output_length, size |-> PieceSize(n)])
      /\ output_length' = output_length + PieceSize(n)
      /\ cursor' = root[n].offset + root[n].size
      /\ input_position' = root[n].offset + root[n].size
  <2>1. output_length \in Nat
    BY DEF TypeOK
  <2> QED BY <1>3, <1>4, <1>5, <2>1 DEF WriteRoot, TakenSize
<1>7. TypeOK'
  <2>1. output \in Seq([start : Nat, size : Nat]) /\ output_length \in Nat
    BY DEF TypeOK
  <2>2. output' \in Seq([start : Nat, size : Nat]) /\ output_length' \in Nat
    BY <1>5, <1>6, <2>1
  <2>3. cursor' \in Nat /\ input_position' \in Nat /\ next_root' \in 1..(Len(root) + 1)
    BY <1>1, <1>2, <1>3, <1>6
  <2> QED BY <1>2, <2>2, <2>3 DEF TypeOK, planVars
<1>8. KindsInv'
  BY <1>2 DEF KindsInv, planVars
<1>9. IdleInv'
  BY <1>2 DEF IdleInv, Planning
<1>10. OffsetsInv'
  <2>1. rewritten_offsets # << >> => PlannedTo(Len(root))
    BY DEF OffsetsInv
  <2>2. rewritten_offsets # << >> => PlannedTo(Len(root))'
    BY <1>2, <2>1 DEF PlannedTo, PlannedAt, rewritten_root_box_size, planVars
  <2> QED BY <1>2, <2>2 DEF OffsetsInv, planVars
<1>11. RootLoopAligned'
  <2>1. OffsetOf(n + 1)' = OffsetOf(n + 1)
    BY <1>2 DEF OffsetOf, EndOfFile
  <2>2. OffsetOf(next_root)' = OffsetOf(n + 1)
    BY <1>2, <2>1 DEF OffsetOf, EndOfFile
  <2>3. output \in Seq([start : Nat, size : Nat])
    BY DEF TypeOK
  <2>4. Len(output') = next_root' - 1
    BY <1>1, <1>2, <1>3, <1>6, <2>3
  <2> QED BY <1>3, <1>6, <2>2, <2>4 DEF RootLoopAligned
<1>12. ASSUME rewritten_offsets # << >>
       PROVE  ProgressInv' /\ PlannedOffsetsHold'
  <2>1. PlannedTo(Len(root)) /\ output_length = PlannedAt(n) /\ rewritten_offsets' = rewritten_offsets
    BY <1>2, <1>12 DEF OffsetsInv, ProgressInv, planVars
  <2>2. ProgressInv'
    <3>1. CASE n + 1 \in Roots
      <4>1. n + 1 \in 1..Len(root) /\ n + 1 > 1 /\ (n + 1) - 1 = n
        BY <1>1, <3>1
      <4>2. PlannedAt(n + 1) = PlannedAt(n) + rewritten_root_box_size(n)
        BY <2>1, <4>1 DEF PlannedTo
      <4>3. PlannedAt(next_root)' = PlannedAt(n + 1)
        BY <1>2, <2>1 DEF PlannedAt
      <4> QED BY <1>5, <1>6, <2>1, <4>2, <4>3 DEF ProgressInv
    <3>2. CASE n + 1 \notin Roots
      BY <1>2, <3>2 DEF ProgressInv
    <3> QED BY <3>1, <3>2
  <2>3. PlannedOffsetsHold'
    <3>1. output \in Seq([start : Nat, size : Nat]) /\ DOMAIN output = 1..(n - 1)
          /\ DOMAIN output' = 1..n
      BY <1>1, <1>3, <1>6 DEF TypeOK
    <3>2. ASSUME NEW i \in 1..n
          PROVE  /\ root[i].offset \in DOMAIN rewritten_offsets
                 /\ output'[i].start = rewritten_offsets[root[i].offset]
      <4>1. CASE i = n
        <5>1. output'[n] = [start |-> output_length, size |-> PieceSize(n)]
          BY <1>1, <1>3, <1>6, <3>1
        <5>2. root[n].offset \in DOMAIN rewritten_offsets
          BY <1>1, <2>1 DEF PlannedTo
        <5> QED BY <2>1, <4>1, <5>1, <5>2 DEF PlannedAt
      <4>2. CASE i # n
        <5>1. i \in DOMAIN output
          BY <1>1, <3>1, <4>2
        <5>2. [start |-> output_length, size |-> PieceSize(n)] \in [start : Nat, size : Nat]
          BY <1>5 DEF TypeOK
        <5>3. output'[i] = output[i]
          BY <1>6, <3>1, <5>1, <5>2, AppendKeeps
        <5> QED BY <1>12, <5>1, <5>3 DEF PlannedOffsetsHold, Place
      <4> QED BY <4>1, <4>2
    <3> QED BY <1>2, <2>1, <3>1, <3>2 DEF PlannedOffsetsHold, Place
  <2> QED BY <2>2, <2>3
<1>13. ASSUME rewritten_offsets = << >>
       PROVE  ProgressInv' /\ PlannedOffsetsHold'
  BY <1>2, <1>13 DEF ProgressInv, PlannedOffsetsHold, planVars
<1> QED BY <1>7, <1>8, <1>9, <1>10, <1>11, <1>12, <1>13

LEMMA LeavePartFails ==
  ASSUME IInv, next_root \in Roots, LeavePart(next_root), pc' = "failed",
         error' \in {"SampleDataRangeNotFound", "Plan", "Overlap", "Eof", "Io"}
  PROVE  IInv'
<1>1. output_length \in Nat /\ PieceSize(next_root) \in Nat
  BY SizesAgree DEF IInv, TypeOK
<1>2. output_length' \in Nat
  BY <1>1 DEF LeavePart
<1> QED BY <1>2, FailureKeepsIInv DEF LeavePart

LEMMA StillKeepsIInv ==
  ASSUME IInv, UNCHANGED vars
  PROVE  IInv'
BY DEF IInv, TypeOK, IdleInv, KindsInv, OffsetsInv, ProgressInv, RootLoopAligned,
   PlannedOffsetsHold, PlannedTo, PlannedAt, rewritten_root_box_size, OffsetOf, EndOfFile,
   Place, Roots, root, vars, planVars, streamVars

LEMMA FlushKeeps ==
  ASSUME IInv, Flush
  PROVE  IInv'
<1> USE DEF IInv
<1>1. /\ root' = root /\ Roots' = Roots /\ pc' = "done"
      /\ UNCHANGED << file, next_root, planVars, streamVars, error >>
  BY DEF Flush, root, Roots
<1>2. TypeOK'
  BY <1>1 DEF TypeOK, planVars, streamVars, Outcomes
<1>3. KindsInv'
  BY <1>1 DEF KindsInv, planVars
<1>4. IdleInv' /\ ProgressInv'
  BY <1>1 DEF IdleInv, Planning, ProgressInv
<1>5. OffsetsInv'
  <2>1. rewritten_offsets # << >> => PlannedTo(Len(root))
    BY DEF OffsetsInv, Flush
  <2>2. rewritten_offsets # << >> => PlannedTo(Len(root))'
    BY <1>1, <2>1 DEF PlannedTo, PlannedAt, rewritten_root_box_size, planVars
  <2> QED BY <1>1, <2>2 DEF OffsetsInv, planVars
<1>6. RootLoopAligned'
  BY <1>1 DEF RootLoopAligned, OffsetOf, EndOfFile, streamVars, Flush
<1>7. PlannedOffsetsHold'
  BY <1>1 DEF PlannedOffsetsHold, Place, streamVars, planVars, Flush
<1> QED BY <1>2, <1>3, <1>4, <1>5, <1>6, <1>7

LEMMA NextKeeps ==
  ASSUME IInv, [Next]_vars
  PROVE  IInv'
<1>1. CASE PlanMoov
  BY <1>1, PlanMoovKeeps
<1>2. CASE PlanMoof
  BY <1>2, PlanMoofKeeps
<1>3. CASE EndMoofs
  BY <1>3, EndMoofsKeeps
<1>4. CASE PlanOffset
  BY <1>4, PlanOffsetKeeps
<1>5. CASE EndOffsets
  BY <1>5, EndOffsetsKeeps
<1>6. CASE PlanMfra
  BY <1>6, PlanMfraKeeps
<1>7. CASE ReplaceRoot \/ StreamMdat \/ CopyRoot
  BY <1>7, WriteRootKeeps DEF ReplaceRoot, StreamMdat, CopyRoot, InLoop
<1>8. CASE RejectMdat
  BY <1>8, LeavePartFails DEF RejectMdat, InLoop, Fail
<1>9. CASE InputEnds
  <2>1. CASE LeavePart(next_root)
    BY <1>9, <2>1, LeavePartFails DEF InputEnds, Fail
  <2>2. CASE UNCHANGED << file, next_root, planVars, streamVars >>
    BY <1>9, <2>2, FailureKeepsIInv DEF InputEnds, Fail, streamVars, IInv, TypeOK
  <2> QED BY <1>9, <2>1, <2>2 DEF InputEnds
<1>10. CASE Flush
  BY <1>10, FlushKeeps
<1>11. CASE PlanFails \/ FlushFails
  BY <1>11, FailureKeepsIInv DEF PlanFails, FlushFails, Fail, streamVars, IInv, TypeOK
<1>12. CASE StreamFails
  BY <1>12, LeavePartFails DEF StreamFails, Fail
<1>13. CASE Returned \/ UNCHANGED vars
  BY <1>13, StillKeepsIInv DEF Returned
<1> QED BY <1>1, <1>2, <1>3, <1>4, <1>5, <1>6, <1>7, <1>8, <1>9, <1>10, <1>11, <1>12, <1>13
        DEF Next, Advance
-----------------------------------------------------------------------------
(* The plan and the loop agree in every reachable state.                   *)
THEOREM PlanAndLoopAgree == Spec => []IInv
<1>1. IInv /\ [Next]_vars => IInv'
  BY NextKeeps
<1> QED BY <1>1, InitIInv, PTL DEF Spec

(* Every variable keeps to its type.                                       *)
THEOREM StreamTypeCorrect == Spec => []TypeOK
<1>1. IInv => TypeOK
  BY DEF IInv
<1> QED BY <1>1, PlanAndLoopAgree, PTL

(* execute_common_encryption_stream_plan_non_seekable never loses its place*)
(* in the input it can only read forward.                                  *)
THEOREM RootLoopStaysAligned == Spec => []RootLoopAligned
<1>1. IInv => RootLoopAligned
  BY DEF IInv
<1> QED BY <1>1, PlanAndLoopAgree, PTL

(* Every root box is written at the offset compute_rewritten_root_offsets_ *)
(* stream computed for it before anything was written.                     *)
THEOREM PlannedOffsetsAreActual == Spec => []PlannedOffsetsHold
<1>1. IInv => PlannedOffsetsHold
  BY DEF IInv
<1> QED BY <1>1, PlanAndLoopAgree, PTL
-----------------------------------------------------------------------------
(* Once the loop has begun, the plan stays as it is.                       *)
LEMMA LoopKeepsPlan ==
  ASSUME [Next]_vars, pc \in {"execute", "done"}
  PROVE  /\ UNCHANGED << file, planVars >>
         /\ pc' = "done" => (pc = "done" /\ next_root' = next_root) \/ Flush
BY DEF Next, Advance, PlanMoov, PlanMoof, EndMoofs, PlanOffset, EndOffsets, PlanMfra,
   PlanFails, ReplaceRoot, StreamMdat, CopyRoot, WriteRoot, RejectMdat, LeavePart,
   InputEnds, StreamFails, Flush, FlushFails, Returned, vars, streamVars, Planning,
   InLoop, Fail

(* Only two actions begin the loop, and only one begins the mfra plan.     *)
LEMMA PlanningSteps ==
  ASSUME [Next]_vars, pc \in Planning
  PROVE  /\ file' = file
         /\ pc' # "done"
         /\ pc' = "execute" => EndMoofs \/ PlanMfra
         /\ pc' = "plan_mfra" => EndOffsets \/ (pc = "plan_mfra" /\ UNCHANGED planVars)
BY DEF Next, Advance, PlanMoov, PlanMoof, EndMoofs, PlanOffset, EndOffsets, PlanMfra,
   PlanFails, ReplaceRoot, StreamMdat, CopyRoot, WriteRoot, RejectMdat, LeavePart,
   InputEnds, StreamFails, Flush, FlushFails, Returned, vars, streamVars, Planning,
   InLoop, Fail, GoTo, Outcomes

LEMMA EntriesKept ==
  ASSUME IInv, EntriesInv, [Next]_vars
  PROVE  EntriesInv'
<1>1. CASE pc \in {"execute", "done"}
  <2>1. /\ UNCHANGED << file, planVars >>
        /\ pc' = "done" => (pc = "done" /\ next_root' = next_root) \/ Flush
    BY <1>1, LoopKeepsPlan
  <2>2. root' = root /\ Roots' = Roots
    BY <2>1 DEF root, Roots
  <2>3. \A i \in Roots : /\ EntriesWritten(i)' = EntriesWritten(i)
                         /\ RewrittenEntries(i)' = RewrittenEntries(i)
    BY <2>1, <2>2 DEF EntriesWritten, RewrittenEntries, RewrittenEntry, planVars
  <2>4. pc' = "done" => (next_root \notin Roots)'
    BY <2>1, <2>2 DEF EntriesInv, Flush
  <2> QED BY <1>1, <2>1, <2>2, <2>3, <2>4 DEF EntriesInv, planVars
<1>2. CASE pc \in Planning
  <2>1. /\ file' = file /\ root' = root /\ Roots' = Roots /\ pc' # "done"
        /\ pc' = "execute" => EndMoofs \/ PlanMfra
        /\ pc' = "plan_mfra" => EndOffsets \/ (pc = "plan_mfra" /\ UNCHANGED planVars)
    BY <1>2, PlanningSteps DEF root, Roots
  <2>2. CASE pc' \notin {"plan_mfra", "execute"}
    BY <2>1, <2>2 DEF EntriesInv
  <2>3. CASE pc' = "plan_mfra" /\ pc = "plan_mfra" /\ UNCHANGED planVars
    BY <2>1, <2>3 DEF EntriesInv, planVars
  <2>4. CASE pc' = "plan_mfra" /\ EndOffsets
    <3>1. /\ pc = "plan_offsets" /\ next_root \notin Roots
          /\ rewritten_offsets' = rewritten_offsets
      BY <2>4 DEF EndOffsets, planVars
    <3>2. Len(root) \in Nat /\ Roots = 1..Len(root) /\ next_root = Len(root) + 1
      BY <3>1, RootBoxes DEF IInv, TypeOK
    <3>3. \A i \in Roots : root[i].offset \in DOMAIN rewritten_offsets
      BY <3>1, <3>2 DEF IInv, OffsetsInv, PlannedTo
    <3>4. \A i \in Roots : rewritten_offsets # << >>
      BY <3>3
    <3> QED BY <2>1, <2>4, <3>1, <3>4 DEF EntriesInv
  <2>5. CASE pc' = "execute" /\ EndMoofs
    <3>1. ~ \E i \in Roots : root[i].kind = "mfra"
      BY <2>5 DEF EndMoofs, GoTo
    <3> QED BY <2>1, <2>5, <3>1 DEF EntriesInv
  <2>6. CASE pc' = "execute" /\ PlanMfra
    <3>1. /\ pc = "plan_mfra" /\ rewritten_offsets' = rewritten_offsets
          /\ mfra_replacements' =
               [ i \in { j \in Roots : /\ root[j].kind = "mfra"
                                       /\ RewrittenEntries(j) # root[j].entries } |->
                   RewrittenEntries(i) ]
      BY <2>6 DEF PlanMfra
    <3>2. \A i \in Roots : RewrittenEntries(i)' = RewrittenEntries(i)
      BY <2>1, <3>1 DEF RewrittenEntries, RewrittenEntry
    <3>3. ASSUME NEW i \in Roots, root[i].kind = "mfra"
          PROVE  EntriesWritten(i)' = RewrittenEntries(i)
      <4>1. CASE RewrittenEntries(i) # root[i].entries
        BY <3>1, <3>3, <4>1 DEF EntriesWritten
      <4>2. CASE RewrittenEntries(i) = root[i].entries
        BY <2>1, <3>1, <3>3, <4>2 DEF EntriesWritten
      <4> QED BY <4>1, <4>2
    <3> QED BY <2>1, <2>6, <3>1, <3>2, <3>3 DEF EntriesInv
  <2> QED BY <2>1, <2>2, <2>3, <2>4, <2>5, <2>6
<1>3. CASE pc \notin Planning \cup {"execute", "done"}
  <2>1. pc = "failed"
    BY <1>3 DEF IInv, TypeOK, Outcomes
  <2>2. pc' = "failed"
    BY <2>1 DEF Next, Advance, PlanMoov, PlanMoof, EndMoofs, PlanOffset, EndOffsets,
       PlanMfra, PlanFails, ReplaceRoot, StreamMdat, CopyRoot, RejectMdat,
       InputEnds, StreamFails, Flush, FlushFails, Returned, vars, Planning, InLoop
  <2> QED BY <2>2 DEF EntriesInv
<1> QED BY <1>1, <1>2, <1>3

(* A player that seeks by the mfra of a rewritten file reaches the boxes   *)
(* it reached before: the entries were patched with planned offsets, and   *)
(* every box was then written at the planned one.                          *)
THEOREM RandomAccessIsKept == Spec => []RandomAccessSurvives
<1>1. Init => EntriesInv
  BY DEF Init, EntriesInv
<1>2. IInv /\ EntriesInv => RandomAccessSurvives
  <2> SUFFICES ASSUME IInv, EntriesInv, pc = "done",
                      NEW i \in Roots, NEW j \in Roots, NEW e \in DOMAIN root[i].entries,
                      root[i].kind = "mfra", root[i].entries[e] = root[j].offset
               PROVE  EntriesWritten(i)[e] = Place(j)
    BY DEF RandomAccessSurvives
  <2>1. rewritten_offsets # << >> /\ EntriesWritten(i) = RewrittenEntries(i)
        /\ next_root \notin Roots
    BY DEF EntriesInv
  <2>2. Len(root) \in Nat /\ Roots = 1..Len(root) /\ next_root \in 1..(Len(root) + 1)
        /\ output \in Seq([start : Nat, size : Nat]) /\ Len(output) = next_root - 1
    BY RootBoxes DEF IInv, TypeOK, RootLoopAligned
  <2>3. j \in DOMAIN output
    BY <2>1, <2>2
  <2>4. /\ root[j].offset \in DOMAIN rewritten_offsets
        /\ Place(j) = rewritten_offsets[root[j].offset]
    BY <2>1, <2>3 DEF IInv, PlannedOffsetsHold
  <2>5. EntriesWritten(i)[e] = rewritten_offsets[root[j].offset]
    BY <2>1, <2>4 DEF RewrittenEntries, RewrittenEntry
  <2> QED BY <2>4, <2>5
<1>3. IInv /\ EntriesInv /\ [Next]_vars => EntriesInv'
  BY EntriesKept
<1> QED BY <1>1, <1>2, <1>3, PlanAndLoopAgree, PTL DEF Spec
-----------------------------------------------------------------------------
(* Only the walk over the moofs replaces them.                             *)
LEMMA OnlyPlanMoofReplaces ==
  ASSUME [Next]_vars
  PROVE  file' = file /\ (moof_replacements' = moof_replacements \/ PlanMoof)
BY DEF Next, Advance, PlanMoov, EndMoofs, PlanOffset, EndOffsets, PlanMfra,
   PlanFails, ReplaceRoot, StreamMdat, CopyRoot, WriteRoot, RejectMdat, LeavePart,
   InputEnds, StreamFails, Flush, FlushFails, Returned, vars, planVars, streamVars, PlanMoof

LEMMA ReplacementsKept ==
  ASSUME ReplacementsInv, [Next]_vars
  PROVE  ReplacementsInv'
<1>1. file' = file /\ (moof_replacements' = moof_replacements \/ PlanMoof) /\ root' = root
  BY OnlyPlanMoofReplaces DEF root
<1>2. CASE moof_replacements' = moof_replacements
  BY <1>1, <1>2 DEF ReplacementsInv
<1>3. CASE moof_replacements' # moof_replacements
  <2>1. /\ IsRebuilt(root[next_root])
        /\ moof_replacements' =
             Including(moof_replacements, next_root, RebuiltMoof(root[next_root]))
    BY <1>1, <1>3 DEF PlanMoof
  <2>2. ASSUME NEW i \in DOMAIN moof_replacements'
        PROVE  IsRebuilt(root[i]) /\ moof_replacements'[i] = RebuiltMoof(root[i])
    <3>1. CASE i = next_root
      BY <2>1, <3>1 DEF Including
    <3>2. CASE i # next_root
      <4>1. i \in DOMAIN moof_replacements /\ moof_replacements'[i] = moof_replacements[i]
        BY <2>1, <3>2 DEF Including
      <4> QED BY <4>1 DEF ReplacementsInv
    <3> QED BY <3>1, <3>2
  <2> QED BY <1>1, <2>2 DEF ReplacementsInv
<1> QED BY <1>2, <1>3

(* A box that is written comes right behind the one before it.             *)
LEMMA WriteRootAdjoins ==
  ASSUME IInv, PiecesInv, pc = "execute", next_root \in Roots, WriteRoot
  PROVE  PiecesInv'
<1> SUFFICES ASSUME NEW n, n = next_root PROVE PiecesInv'
  OBVIOUS
<1>1. file \in Files /\ Len(root) \in Nat /\ Roots = 1..Len(root) /\ n \in Roots
  BY RootBoxes DEF IInv, TypeOK
<1>2. /\ pc' = "execute" /\ root' = root
      /\ UNCHANGED << file, planVars >>
  BY DEF WriteRoot, root
<1>3. \A i : PieceSize(i)' = PieceSize(i)
  BY <1>2 DEF PieceSize, IsMoovReplaced, planVars
<1>4. /\ cursor = root[n].offset /\ Len(output) = n - 1 /\ root[n].offset \in Nat
  BY <1>1, OffsetsAdvance, RootBoxes DEF RootLoopAligned, IInv
<1>5. Gap(n) = 0
  BY <1>4 DEF Gap
<1>6. PieceSize(n) \in Nat
  BY <1>1, SizesAgree DEF IInv
<1> DEFINE piece == [start |-> output_length, size |-> PieceSize(n)]
<1>7. /\ output \in Seq([start : Nat, size : Nat]) /\ output_length \in Nat
      /\ DOMAIN output = 1..(n - 1) /\ n \in Nat /\ n > 0
  BY <1>1, <1>4 DEF IInv, TypeOK
<1>8. output' = Append(output, piece) /\ output_length' = output_length + PieceSize(n)
  BY <1>5, <1>6, <1>7 DEF WriteRoot
<1>9. piece \in [start : Nat, size : Nat]
  BY <1>6, <1>7
<1>10. /\ DOMAIN output' = 1..n /\ Len(output') = n /\ output' # << >>
       /\ output'[n] = piece
       /\ \A i \in 1..(n - 1) : output'[i] = output[i]
  <2> HIDE DEF piece
  <2> QED BY <1>4, <1>7, <1>8, <1>9
<1>11. output_length = IF n = 1 THEN 0 ELSE Place(n - 1) + PieceSize(n - 1)
  <2>1. output = << >> <=> n = 1
    BY <1>4, <1>7
  <2> QED BY <1>4, <2>1 DEF PiecesInv
<1>12. ASSUME NEW i \in 1..n
       PROVE  /\ output'[i].size = PieceSize(i)
              /\ output'[i].start = IF i = 1 THEN 0 ELSE output'[i - 1].start + PieceSize(i - 1)
  <2>1. i > 1 => i - 1 \in 1..(n - 1)
    BY <1>7
  <2>2. CASE i = n
    <3>1. i > 1 => output'[i - 1] = output[i - 1]
      BY <1>10, <2>1
    <3> QED BY <1>7, <1>10, <1>11, <2>2, <3>1 DEF Place
  <2>3. CASE i # n
    <3>1. i \in 1..(n - 1) /\ output'[i] = output[i]
      BY <1>7, <1>10, <2>3
    <3>2. i > 1 => output'[i - 1] = output[i - 1]
      BY <1>10, <2>1
    <3>3. /\ output[i].size = PieceSize(i)
          /\ output[i].start = IF i = 1 THEN 0 ELSE output[i - 1].start + PieceSize(i - 1)
      BY <1>7, <3>1 DEF PiecesInv, Place
    <3> QED BY <1>7, <3>1, <3>2, <3>3
  <2> QED BY <2>2, <2>3
<1>13. output_length' = output'[n].start + PieceSize(n)
  BY <1>8, <1>10
<1> QED BY <1>2, <1>3, <1>10, <1>12, <1>13 DEF PiecesInv, Place

LEMMA PiecesKept ==
  ASSUME IInv, PiecesInv, [Next]_vars
  PROVE  PiecesInv'
<1> SUFFICES ASSUME pc' \in {"execute", "done"} PROVE PiecesInv'
  BY DEF PiecesInv
<1>1. CASE pc \in Planning
  <2>1. pc' = "execute" /\ (EndMoofs \/ PlanMfra)
    BY <1>1, PlanningSteps
  <2>2. output' = << >> /\ output_length' = 0
    BY <1>1, <2>1 DEF IInv, IdleInv, EndMoofs, PlanMfra, streamVars
  <2> QED BY <2>2 DEF PiecesInv
<1>2. CASE pc \in {"execute", "done"} /\ UNCHANGED << output, output_length >>
  <2>1. UNCHANGED << file, planVars >>
    BY <1>2, LoopKeepsPlan
  <2>2. \A i : PieceSize(i)' = PieceSize(i) /\ Place(i)' = Place(i)
    BY <1>2, <2>1 DEF PieceSize, IsMoovReplaced, Place, planVars, root
  <2> QED BY <1>2, <2>2 DEF PiecesInv
<1>3. CASE ReplaceRoot \/ StreamMdat \/ CopyRoot
  BY <1>3, WriteRootAdjoins DEF ReplaceRoot, StreamMdat, CopyRoot, InLoop
<1>4. \/ pc \in Planning
      \/ pc \in {"execute", "done"} /\ UNCHANGED << output, output_length >>
      \/ ReplaceRoot \/ StreamMdat \/ CopyRoot
  BY DEF Next, Advance, PlanMoov, PlanMoof, EndMoofs, PlanOffset, EndOffsets, PlanMfra,
     PlanFails, RejectMdat, InputEnds, StreamFails, Flush, FlushFails,
     Returned, vars, streamVars, Planning, InLoop, Fail, IInv, TypeOK, Outcomes
<1> QED BY <1>1, <1>2, <1>3, <1>4

(* Boxes that keep their size keep their distance.                         *)
LEMMA DistanceKept ==
  ASSUME IInv, PiecesInv, pc = "done", NEW i \in Roots, NEW j \in Roots, i < j,
         DOMAIN output = Roots, \A k \in (i + 1)..(j - 1) : PieceSize(k) = root[k].size
  PROVE  /\ Place(i) \in Nat /\ Place(j) \in Nat /\ PieceSize(i) \in Nat
         /\ Place(j) = Place(i) + (root[j].offset - root[i].offset)
                       + (PieceSize(i) - root[i].size)
<1>1. /\ file \in Files /\ Len(root) \in Nat /\ Roots = 1..Len(root)
      /\ i \in Nat /\ j \in Nat /\ i > 0 /\ i < j
  BY RootBoxes DEF IInv, TypeOK
<1>2. ASSUME NEW k \in Roots
      PROVE  /\ Place(k) \in Nat /\ PieceSize(k) \in Nat
             /\ root[k].offset \in Nat /\ root[k].size \in Nat
  <2>1. output \in Seq([start : Nat, size : Nat]) /\ k \in DOMAIN output
    BY DEF IInv, TypeOK
  <2>2. output[k] \in [start : Nat, size : Nat]
    BY <2>1, ElementOfSeq
  <2> QED BY <1>1, <2>2, RootBoxes, SizesAgree DEF Place, IInv
<1>3. ASSUME NEW k \in Roots, k > i
      PROVE  /\ k - 1 \in Roots
             /\ Place(k) = Place(k - 1) + PieceSize(k - 1)
             /\ root[k].offset = root[k - 1].offset + root[k - 1].size
  <2>1. k - 1 \in Roots /\ k > 1
    BY <1>1, <1>3
  <2>2. Place(k) = Place(k - 1) + PieceSize(k - 1)
    BY <2>1 DEF PiecesInv
  <2>3. root[k].offset = root[k - 1].offset + root[k - 1].size
    BY <1>1, <2>1, RootBoxesAdjoin
  <2> QED BY <2>1, <2>2, <2>3
<1> DEFINE Moved(k) == Place(k) = Place(i) + (root[k].offset - root[i].offset)
                                  + (PieceSize(i) - root[i].size)
           T == { m \in 0..j : m > i => Moved(m) }
<1>4. 0 \in T
  BY <1>1
<1>5. ASSUME NEW m \in 1..j, m - 1 \in T PROVE m \in T
  <2>1. m > i => m - 1 = i \/ (m - 1 > i /\ Moved(m - 1))
    BY <1>1, <1>5
  <2> HIDE DEF T, Moved
  <2>2. ASSUME m > i PROVE Moved(m)
    <3>1. m \in Roots /\ m - 1 \in Roots
      BY <1>1, <2>2
    <3>2. /\ Place(m) = Place(m - 1) + PieceSize(m - 1)
          /\ root[m].offset = root[m - 1].offset + root[m - 1].size
      BY <1>3, <2>2, <3>1
    <3>3. CASE m - 1 = i
      BY <1>2, <3>1, <3>2, <3>3 DEF Moved
    <3>4. CASE m - 1 > i /\ Moved(m - 1)
      <4>1. PieceSize(m - 1) = root[m - 1].size
        BY <1>1, <3>4
      <4> QED BY <1>2, <3>1, <3>2, <3>4, <4>1 DEF Moved
    <3> QED BY <2>1, <2>2, <3>3, <3>4
  <2> QED BY <2>2 DEF T
<1> HIDE DEF T, Moved
<1>6. 0..j \subseteq T
  BY <1>1, <1>4, <1>5, BoundedInduction
<1>7. Moved(j)
  BY <1>1, <1>6 DEF T
<1> QED BY <1>2, <1>7 DEF Moved

(* A traf of a moof of the usual form says the same in the output, less    *)
(* what its moof has lost.                                                 *)
LEMMA TrafsSayTheSame ==
  ASSUME IInv, ReplacementsInv, NEW i \in Roots, root[i].kind = "moof",
         NEW t \in DOMAIN root[i].trafs, root[i].trafs[t].base_data_offset = None,
         NEW at \in Int, NEW to \in Int
  PROVE  /\ root[i].trafs[t].runs \in Seq(Run)
         /\ root[i].trafs[t].base_data_offset \in Int \cup {None}
         /\ TrafsWritten(i)[t].runs \in Seq(Run)
         /\ root[i].size - PieceSize(i) \in Int
         /\ SaysTheSame(root[i].trafs[t], TrafsWritten(i)[t], at, to,
                        root[i].size - PieceSize(i))
<1> DEFINE traf == root[i].trafs[t]
           lost == root[i].size - PieceSize(i)
<1>1. file \in Files /\ root[i] \in RootBox /\ root[i].size \in Nat
  BY RootBoxes, FilesAssumption DEF IInv, TypeOK, root, Roots, File
<1>2. traf \in Traf
  <2>1. root[i].trafs \in Seq(Traf)
    BY <1>1 DEF RootBox
  <2> QED BY <2>1
<1>3. traf.runs \in Seq(Run) /\ Len(traf.runs) \in Nat /\ DOMAIN traf.runs = 1..Len(traf.runs)
  BY <1>2 DEF Traf
<1>4. moov_replacement # None => moov_replacement.root # i
  BY DEF IInv, KindsInv
<1>5. i \notin DOMAIN mfra_replacements
  BY DEF IInv, KindsInv
<1>6. CASE i \notin DOMAIN moof_replacements
  <2>1. TrafsWritten(i)[t] = traf /\ lost = 0
    BY <1>1, <1>4, <1>5, <1>6 DEF TrafsWritten, PieceSize, IsMoovReplaced
  <2> HIDE DEF traf, lost
  <2>2. traf.base_data_offset = None
    BY DEF traf
  <2>3. SaysTheSame(traf, traf, at, to, 0)
    BY <1>3, <2>2, UntouchedSaysTheSame
  <2> QED BY <1>3, <2>1, <2>3 DEF traf, lost
<1>7. CASE i \in DOMAIN moof_replacements
  <2>1. /\ ~PatchBlocked(root[i]) /\ moof_replacements[i] = RebuiltMoof(root[i])
        /\ MoofRemoved(root[i]) \in Nat
    BY <1>1, <1>7, RootBoxes DEF ReplacementsInv, IsRebuilt
  <2> DEFINE moved == RebuiltTraf(root[i], traf)
             removed == MoofRemoved(root[i])
  <2>2. lost = removed
    BY <1>1, <1>4, <1>5, <1>7, <2>1 DEF PieceSize, IsMoovReplaced, RebuiltMoof
  <2>3. TrafsWritten(i)[t] = moved
    BY <1>7, <2>1 DEF TrafsWritten, RebuiltMoof
  <2>4. \A r \in DOMAIN traf.runs : traf.runs[r].data_offset # None
    BY <2>1 DEF PatchBlocked
  <2>5. {"runs", "base_data_offset", "default_base_is_moof"} \subseteq DOMAIN traf
    BY <1>2 DEF Traf
  <2> HIDE DEF moved, traf
  <2>6. traf.base_data_offset = None
    BY DEF traf
  <2>7. /\ moved.runs \in Seq(Run)
        /\ SaysTheSame(traf, moved, at, to, MoofRemoved(root[i]))
    BY <1>3, <2>1, <2>4, <2>5, <2>6, RebuiltSaysTheSame DEF moved
  <2> QED BY <1>3, <2>1, <2>2, <2>3, <2>7 DEF traf
<1> QED BY <1>6, <1>7

(* A fragment of the usual form is found again.                            *)
LEMMA FragmentFound ==
  ASSUME IInv, ReplacementsInv, PiecesInv, pc = "done", DOMAIN output = Roots,
         NEW i \in Roots, root[i].kind = "moof", SelfContained(i)
  PROVE  FindsItsSamples(i)
<1> SUFFICES ASSUME NEW t \in DOMAIN root[i].trafs,
                    NEW s \in SampleSpans(root[i].trafs[t], root[i].offset)
             PROVE  \E u \in SampleSpans(TrafsWritten(i)[t], Place(i)) :
                      u.run = s.run /\ u.index = s.index /\ WentTo(s, u.offset)
  BY DEF FindsItsSamples
<1>1. PICK j \in Roots : /\ i < j /\ HoldsSample(root[j], s)
                         /\ \A k \in (i + 1)..(j - 1) : PieceSize(k) = root[k].size
  BY DEF SelfContained
<1>2. /\ Place(i) \in Nat /\ Place(j) \in Nat /\ PieceSize(i) \in Nat
      /\ Place(j) = Place(i) + (root[j].offset - root[i].offset)
                    + (PieceSize(i) - root[i].size)
  BY <1>1, DistanceKept
<1> DEFINE traf == root[i].trafs[t]
           moved == TrafsWritten(i)[t]
           lost == root[i].size - PieceSize(i)
<1>3. /\ root[i].offset \in Int /\ root[j].offset \in Int /\ root[i].size \in Int
      /\ Place(i) \in Int
  <2>1. file \in Files
    BY DEF IInv, TypeOK
  <2>2. root[i].offset \in Nat /\ root[j].offset \in Nat /\ root[i].size \in Nat
    BY <2>1, RootBoxes
  <2> QED BY <1>2, <2>2
<1>4. traf.base_data_offset = None
  BY DEF SelfContained
<1>5. /\ traf.runs \in Seq(Run) /\ traf.base_data_offset \in Int \cup {None}
      /\ moved.runs \in Seq(Run) /\ lost \in Int
      /\ SaysTheSame(traf, moved, root[i].offset, Place(i), lost)
  BY <1>3, <1>4, TrafsSayTheSame
<1> HIDE DEF traf, moved, lost
<1>6. s \in SampleSpans(traf, root[i].offset)
  BY DEF traf
<1>7. /\ s.offset \in Int
      /\ \E u \in SampleSpans(moved, Place(i)) :
           /\ u.run = s.run /\ u.index = s.index
           /\ u.offset = s.offset + (Place(i) - root[i].offset) - lost
  BY <1>3, <1>5, <1>6, SpansMove
<1>8. PICK u \in SampleSpans(moved, Place(i)) :
           /\ u.run = s.run /\ u.index = s.index
           /\ u.offset = s.offset + (Place(i) - root[i].offset) - lost
  BY <1>7
<1>9. u.offset = Place(j) + (s.offset - root[j].offset)
  BY <1>2, <1>3, <1>7, <1>8 DEF lost
<1>10. WentTo(s, u.offset)
  BY <1>1, <1>9 DEF WentTo
<1> QED BY <1>8, <1>10 DEF moved

(* A reader of the output finds the samples of every fragment of the usual *)
(* form, decrypted or not: patched data offsets, boxes that have shrunk in *)
(* front of the fragment and samples that were moved with it add up.       *)
THEOREM FragmentsAreFound == Spec => []FragmentsFindSamples
<1>1. Init => ReplacementsInv /\ PiecesInv /\ EntriesInv
  BY DEF Init, ReplacementsInv, PiecesInv, EntriesInv
<1>2. IInv /\ EntriesInv /\ ReplacementsInv /\ PiecesInv => FragmentsFindSamples
  <2> SUFFICES ASSUME IInv, EntriesInv, ReplacementsInv, PiecesInv, pc = "done",
                      NEW i \in Roots, root[i].kind = "moof", SelfContained(i)
               PROVE  FindsItsSamples(i)
    BY DEF FragmentsFindSamples
  <2>1. Len(root) \in Nat /\ Roots = 1..Len(root) /\ next_root \in 1..(Len(root) + 1)
        /\ output \in Seq([start : Nat, size : Nat]) /\ Len(output) = next_root - 1
        /\ next_root \notin Roots
    BY RootBoxes DEF IInv, TypeOK, RootLoopAligned, EntriesInv
  <2>2. DOMAIN output = Roots
    BY <2>1
  <2> QED BY <2>2, FragmentFound
<1>3. IInv /\ EntriesInv /\ ReplacementsInv /\ PiecesInv /\ [Next]_vars
      => EntriesInv' /\ ReplacementsInv' /\ PiecesInv'
  BY EntriesKept, ReplacementsKept, PiecesKept
<1> QED BY <1>1, <1>2, <1>3, PlanAndLoopAgree, PTL DEF Spec
=============================================================================
