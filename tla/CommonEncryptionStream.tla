----------------------- MODULE CommonEncryptionStream -----------------------
(***************************************************************************)
(* The stream-first Common Encryption rewrite of a whole file or segment   *)
(* (src/src/decrypt.rs): build_common_encryption_stream_plan decides, root *)
(* box by root box, what replaces what, and patches every offset that will *)
(* move; execute_common_encryption_stream_plan_non_seekable then reads the *)
(* input once, forward, and writes the result.  The plan is made before a  *)
(* byte is written, so every offset in it is a promise about a write that  *)
(* happens later.                                                          *)
(*                                                                         *)
(* The streaming of one mdat is a single step here, with the outcomes that *)
(* MdatStream proves it to have (ForwardRewrite).                          *)
(***************************************************************************)
EXTENDS Fragments

CONSTANT Files   \* the files: their root boxes, and how far they can be read

(* A traf: its tfhd, its truns, and the bytes of sample encryption metadata*)
(* that are removed when its track is decrypted (0: it is left alone).     *)
Traf == [base_data_offset : Nat \cup {None}, default_base_is_moof : BOOLEAN,
         removed : Nat, runs : Seq(Run)]

Kinds == {"moov", "moof", "mdat", "mfra", "sidx", "other"}

(* shrink: the bytes rebuild_common_encryption_moov takes from a moov.     *)
(* entries: the moof offsets of an mfra's tfra boxes, or the sizes of a    *)
(* sidx's references.                                                      *)
RootBox == [kind : Kinds, offset : Nat, size : Nat, header_size : Nat, shrink : Nat,
            trafs : Seq(Traf), entries : Seq(Nat)]

File == [root_boxes : Seq(RootBox), readable : Nat]

(* What read_root_box_infos_from_reader guarantees: it seeks to the end of *)
(* each box before it reads the next, so the boxes adjoin; at most one is a*)
(* moov (analyze_init_segment).  What is removed was part of its box.      *)
ASSUME FilesAssumption ==
  \A f \in Files :
    /\ f \in File
    /\ \A i \in DOMAIN f.root_boxes :
         LET box == f.root_boxes[i] IN
         /\ box.offset = IF i = 1 THEN 0
                         ELSE f.root_boxes[i - 1].offset + f.root_boxes[i - 1].size
         /\ MoofRemoved(box) + box.shrink + box.header_size <= box.size
         /\ box.header_size > 0
         /\ box.kind = "moov" => \A j \in DOMAIN f.root_boxes :
                                   f.root_boxes[j].kind = "moov" => j = i

VARIABLES
  file,
  next_root,          \* the root box the current loop has come to
  moov_replacement,   \* None, or the root box and the size of its replacement
  moof_replacements,  \* root box -> size and trafs of its replacement
  mdat_edits,         \* root box -> the samples filed under it
  next_offset, rewritten_offsets,  \* compute_rewritten_root_offsets_stream
  mfra_replacements,  \* extra_root_replacements: root box -> entries
  input_position, cursor,
  output,             \* the pieces written, one for each root box
  output_length,
  pc, error

planVars == << moov_replacement, moof_replacements, mdat_edits, next_offset,
               rewritten_offsets, mfra_replacements >>

streamVars == << input_position, cursor, output, output_length >>

vars == << file, next_root, planVars, streamVars, pc, error >>

root == file.root_boxes

Roots == DOMAIN root

Planning == {"plan_moov", "plan_moofs", "plan_offsets", "plan_mfra"}

Outcomes == {"done", "failed"}

EndOfFile == IF root = << >> THEN 0 ELSE root[Len(root)].offset + root[Len(root)].size

OffsetOf(i) == IF i \in Roots THEN root[i].offset ELSE EndOfFile

Fail(reason) == pc' = "failed" /\ error' = reason

GoTo(phase) == pc' = phase /\ next_root' = 1

Init ==
  /\ file \in Files
  /\ next_root = 1
  /\ moov_replacement = None
  /\ moof_replacements = << >> /\ mdat_edits = << >> /\ mfra_replacements = << >>
  /\ next_offset = 0 /\ rewritten_offsets = << >>
  /\ input_position = 0 /\ cursor = 0
  /\ output = << >> /\ output_length = 0
  /\ pc = "plan_moov" /\ error = "None"
-----------------------------------------------------------------------------
(* find_mdat_info_containing_sample: the first that holds it.              *)
IsMdatOf(i, span) ==
  /\ HoldsSample(root[i], span)
  /\ \A j \in Roots : j < i => ~HoldsSample(root[j], span)

(* append_common_encryption_sample_edits runs for the trafs that are       *)
(* decrypted only; their places in the moof tell equal spans apart.        *)
EditsOf(i) ==
  UNION { { [moof |-> i, traf |-> t, span |-> s] :
              s \in SampleSpans(root[i].trafs[t], root[i].offset) } :
            t \in { u \in DOMAIN root[i].trafs : root[i].trafs[u].removed # 0 } }

EditsFound(i) == \A edit \in EditsOf(i) : \E j \in Roots : HoldsSample(root[j], edit.span)

(* The edits of moof i join those of earlier moofs.                        *)
WithEditsOf(i) ==
  LET filed(j) == { edit \in EditsOf(i) : IsMdatOf(j, edit.span) }
      known(j) == IF j \in DOMAIN mdat_edits THEN mdat_edits[j] ELSE {}
  IN [ j \in DOMAIN mdat_edits \cup { k \in Roots : filed(k) # {} } |->
         known(j) \cup filed(j) ]

-----------------------------------------------------------------------------
(* Defect: the planned size of a moof is that of the encrypted one.        *)
original_moof_size(i) ==
  IF moov_replacement # None /\ moov_replacement.root = i
    THEN moov_replacement.size ELSE root[i].size

rewritten_root_box_size(i) ==
  IF moov_replacement # None /\ moov_replacement.root = i
    THEN moov_replacement.size
  ELSE IF i \in DOMAIN moof_replacements THEN moof_replacements[i].size
  ELSE root[i].size

(* An entry that names a root box of the input is moved with it.           *)
(* Defect: an entry is taken to be right already.                          *)
KeptEntry(entry) == entry

RewrittenEntry(entry) ==
  IF entry \in DOMAIN rewritten_offsets THEN rewritten_offsets[entry] ELSE entry

RewrittenEntries(i) ==
  [e \in DOMAIN root[i].entries |-> RewrittenEntry(root[i].entries[e])]
-----------------------------------------------------------------------------
PlanMoov ==
  /\ pc = "plan_moov"
  /\ IF \E i \in Roots : root[i].kind = "moov"
       THEN \E i \in Roots :
              /\ root[i].kind = "moov"
              /\ moov_replacement' = [root |-> i, size |-> root[i].size - root[i].shrink]
       ELSE UNCHANGED moov_replacement
  /\ GoTo("plan_moofs")
  /\ UNCHANGED << file, moof_replacements, mdat_edits, next_offset, rewritten_offsets,
                  mfra_replacements, streamVars, error >>

(* One turn of build_common_encryption_fragment_replacements_from_stream.  *)
(* The samples are filed before it is known whether the moof is rebuilt.   *)
PlanMoof ==
  /\ pc = "plan_moofs" /\ next_root \in Roots
  /\ IF root[next_root].kind = "moof"
       THEN IF EditsFound(next_root)
         THEN /\ mdat_edits' = WithEditsOf(next_root)
              /\ moof_replacements' =
                   IF IsRebuilt(root[next_root])
                     THEN Including(moof_replacements, next_root,
                                    RebuiltMoof(root[next_root]))
                     ELSE moof_replacements
              /\ next_root' = next_root + 1
              /\ UNCHANGED << pc, error >>
         ELSE /\ Fail("SampleDataRangeNotFound")
              /\ UNCHANGED << mdat_edits, moof_replacements, next_root >>
       ELSE /\ next_root' = next_root + 1
            /\ UNCHANGED << mdat_edits, moof_replacements, pc, error >>
  /\ UNCHANGED << file, moov_replacement, next_offset, rewritten_offsets,
                  mfra_replacements, streamVars >>

(* A file without an mfra has no use for the offsets.                      *)
EndMoofs ==
  /\ pc = "plan_moofs" /\ next_root \notin Roots
  /\ GoTo(IF \E i \in Roots : root[i].kind = "mfra" THEN "plan_offsets" ELSE "execute")
  /\ UNCHANGED << file, planVars, streamVars, error >>

(* One turn of compute_rewritten_root_offsets_stream's loop.               *)
PlanOffset ==
  /\ pc = "plan_offsets" /\ next_root \in Roots
  /\ rewritten_offsets' = Including(rewritten_offsets, root[next_root].offset, next_offset)
  /\ next_offset' = next_offset + rewritten_root_box_size(next_root)
  /\ next_root' = next_root + 1
  /\ UNCHANGED << file, moov_replacement, moof_replacements, mdat_edits,
                  mfra_replacements, streamVars, pc, error >>

EndOffsets ==
  /\ pc = "plan_offsets" /\ next_root \notin Roots
  /\ GoTo("plan_mfra")
  /\ UNCHANGED << file, planVars, streamVars, error >>

(* The entries keep their width, so the rebuilt mfra keeps its size, and   *)
(* the size its mfro repeats stays right.  An unchanged mfra is no         *)
(* replacement.                                                            *)
PlanMfra ==
  /\ pc = "plan_mfra"
  /\ mfra_replacements' =
       [ i \in { j \in Roots : /\ root[j].kind = "mfra"
                               /\ RewrittenEntries(j) # root[j].entries } |->
           RewrittenEntries(i) ]
  /\ GoTo("execute")
  /\ UNCHANGED << file, moov_replacement, moof_replacements, mdat_edits, next_offset,
                  rewritten_offsets, streamVars, error >>

(* Metadata the model leaves out is malformed (no senc, no key that fits,  *)
(* a patched offset beyond an i32), or the input cannot be read.           *)
PlanFails ==
  /\ pc \in Planning
  /\ Fail("Plan")
  /\ UNCHANGED << file, next_root, planVars, streamVars >>
-----------------------------------------------------------------------------
(* The root loop.  The order of its tests decides what becomes of a box.   *)
IsMoovReplaced(i) == moov_replacement # None /\ moov_replacement.root = i

Form(i) ==
  IF IsMoovReplaced(i) \/ i \in DOMAIN mfra_replacements \/ i \in DOMAIN moof_replacements
    THEN "replaced"
  ELSE IF root[i].kind = "mdat" THEN "streamed" ELSE "copied"

(* The bytes that are written for the box.                                 *)
PieceSize(i) ==
  IF IsMoovReplaced(i) THEN moov_replacement.size
  ELSE IF i \in DOMAIN mfra_replacements THEN root[i].size
  ELSE IF i \in DOMAIN moof_replacements THEN moof_replacements[i].size
  ELSE root[i].size

(* Defect: as many bytes are discarded as are written.                     *)
DiscardWritten(i) == PieceSize(i)

(* Every form of a box takes the whole box from the input.                 *)
TakenSize(i) == root[i].size

(* Bytes between the cursor and the box are copied before it.              *)
Gap(i) == IF root[i].offset > cursor THEN root[i].offset - cursor ELSE 0

CanRead(n) == input_position + n <= file.readable

(* The stream of an mdat serves its samples by where they begin, and those *)
(* that begin together in the order they were filed in: by moof, traf, run *)
(* and place in the run (sort_by_key is stable).                           *)
FiledBefore(e, f) ==
  LET place(edit) == << edit.moof, edit.traf, edit.span.run, edit.span.index >>
  IN \E n \in 1..4 : /\ place(e)[n] < place(f)[n]
                     /\ \A m \in 1..(n - 1) : place(e)[m] = place(f)[m]

ServedBefore(e, f) ==
  \/ e.span.offset < f.span.offset
  \/ e.span.offset = f.span.offset /\ FiledBefore(e, f)

EndOf(edit) == edit.span.offset + edit.span.size


(* A sample filed under the mdat, empty or not, begins in front of the end *)
(* of one that is served before it: the stream meets an Overlap.           *)
Clash(i) ==
  i \in DOMAIN mdat_edits /\
  \E e, f \in mdat_edits[i] : ServedBefore(e, f) /\ f.span.offset < EndOf(e)

InLoop(form) == pc = "execute" /\ next_root \in Roots /\ Form(next_root) = form

WriteRoot ==
  /\ CanRead(Gap(next_root) + TakenSize(next_root))
  /\ input_position' = input_position + Gap(next_root) + TakenSize(next_root)
  /\ cursor' = cursor + Gap(next_root) + root[next_root].size
  /\ output' = Append(output, [ start |-> output_length + Gap(next_root),
                                size  |-> PieceSize(next_root) ])
  /\ output_length' = output_length + Gap(next_root) + PieceSize(next_root)
  /\ next_root' = next_root + 1
  /\ UNCHANGED << file, planVars, pc, error >>

ReplaceRoot == InLoop("replaced") /\ WriteRoot

StreamMdat == InLoop("streamed") /\ ~Clash(next_root) /\ WriteRoot

CopyRoot == InLoop("copied") /\ WriteRoot

(* A box that fails leaves a part of it behind, and the input anywhere in  *)
(* the box; nobody reads either again (OutputIsRewrite of MdatStream says  *)
(* what the part is).  A sample can be refused when all is written.        *)
LeavePart(i) ==
  /\ output_length' \in output_length..(output_length + PieceSize(i))
  /\ UNCHANGED << file, next_root, planVars, input_position, cursor, output >>

RejectMdat ==
  /\ InLoop("streamed") /\ Clash(next_root)
  /\ Fail("Overlap") /\ LeavePart(next_root)

InputEnds ==
  /\ pc = "execute" /\ next_root \in Roots
  /\ ~CanRead(Gap(next_root) + TakenSize(next_root))
  /\ Fail("Eof")
  /\ IF Form(next_root) = "replaced" THEN UNCHANGED << file, next_root, planVars, streamVars >>
                                     ELSE LeavePart(next_root)

StreamFails ==
  /\ pc = "execute" /\ next_root \in Roots
  /\ Fail("Io") /\ LeavePart(next_root)

Flush ==
  /\ pc = "execute" /\ next_root \notin Roots
  /\ pc' = "done"
  /\ UNCHANGED << file, next_root, planVars, streamVars, error >>

FlushFails ==
  /\ pc = "execute" /\ next_root \notin Roots
  /\ Fail("Io")
  /\ UNCHANGED << file, next_root, planVars, streamVars >>

Returned == pc \in Outcomes /\ UNCHANGED vars

Advance ==
  \/ PlanMoov \/ PlanMoof \/ EndMoofs \/ PlanOffset \/ EndOffsets \/ PlanMfra
  \/ ReplaceRoot \/ StreamMdat \/ CopyRoot \/ RejectMdat \/ InputEnds \/ Flush

Next == Advance \/ PlanFails \/ StreamFails \/ FlushFails \/ Returned

(* One thread runs the plan and the loops; every loop runs over the boxes  *)
(* read at the start.                                                      *)
Spec == Init /\ [][Next]_vars /\ WF_vars(Advance)
-----------------------------------------------------------------------------
(***************************************************************************)
(* What the rewrite promises.                                              *)
(***************************************************************************)
(* Where a root box went, and what it says there.                          *)
Place(i) == output[i].start

TrafsWritten(i) ==
  IF i \in DOMAIN moof_replacements THEN moof_replacements[i].trafs ELSE root[i].trafs

EntriesWritten(i) ==
  IF i \in DOMAIN mfra_replacements THEN mfra_replacements[i] ELSE root[i].entries

TypeOK ==
  /\ file \in Files
  /\ next_root \in 1..(Len(root) + 1)
  /\ \/ moov_replacement = None
     \/ moov_replacement \in [root : Roots, size : Nat]
  /\ DOMAIN moof_replacements \subseteq Roots
  /\ \A i \in DOMAIN moof_replacements :
       moof_replacements[i].size \in Nat
  /\ DOMAIN mdat_edits \subseteq Roots
  /\ next_offset \in Nat
  /\ \A o \in DOMAIN rewritten_offsets : rewritten_offsets[o] \in Nat
  /\ DOMAIN mfra_replacements \subseteq Roots
  /\ input_position \in Nat /\ cursor \in Nat /\ output_length \in Nat
  /\ output \in Seq([start : Nat, size : Nat])
  /\ pc \in Planning \cup {"execute"} \cup Outcomes
  /\ error \in {"None", "SampleDataRangeNotFound", "Plan", "Overlap", "Eof", "Io"}

(* At the head of the root loop the loop's cursor, the input and the list  *)
(* of boxes agree, whatever was written for the boxes before: the input is *)
(* only ever read forward (execute_..._non_seekable has no Seek).          *)
RootLoopAligned ==
  pc \in {"execute", "done"} =>
    /\ cursor = OffsetOf(next_root)
    /\ input_position = OffsetOf(next_root)
    /\ Len(output) = next_root - 1

(* Each root box is written where the plan said it would be, which is what *)
(* the entries of an mfra were patched with before anything was written.   *)
PlannedOffsetsHold ==
  (pc \in {"execute", "done"} /\ rewritten_offsets # << >>) =>
    \A i \in DOMAIN output :
      /\ root[i].offset \in DOMAIN rewritten_offsets
      /\ Place(i) = rewritten_offsets[root[i].offset]

(* Random access survives: an entry that named a root box of the input     *)
(* names the same box in the output.                                       *)
RandomAccessSurvives ==
  pc = "done" =>
    \A i, j \in Roots : \A e \in DOMAIN root[i].entries :
      root[i].kind = "mfra" /\ root[i].entries[e] = root[j].offset =>
        EntriesWritten(i)[e] = Place(j)

(* A fragment like those the fixtures of the repository hold: everything in*)
(* it is placed relative to its own moof, its samples lie in mdats behind  *)
(* it, and no box in between changes its size.                             *)
SelfContained(i) ==
  /\ \A t \in DOMAIN root[i].trafs : root[i].trafs[t].base_data_offset = None
  /\ MoofRemoved(root[i]) # 0 => ~PatchBlocked(root[i])
  /\ \A t \in DOMAIN root[i].trafs :
       \A s \in SampleSpans(root[i].trafs[t], root[i].offset) :
         \E j \in Roots : /\ i < j /\ HoldsSample(root[j], s)
                          /\ \A k \in (i + 1)..(j - 1) : PieceSize(k) = root[k].size

(* Where the bytes at an offset of the input went.                         *)
WentTo(span, target) ==
  \E j \in Roots :
    HoldsSample(root[j], span) /\ target = Place(j) + (span.offset - root[j].offset)

(* A reader of the moof that was written finds each of its samples where it*)
(* went.                                                                   *)
FindsItsSamples(i) ==
  \A t \in DOMAIN root[i].trafs :
    LET before == SampleSpans(root[i].trafs[t], root[i].offset)
        after  == SampleSpans(TrafsWritten(i)[t], Place(i))
    IN \A s \in before :
         \E u \in after : u.run = s.run /\ u.index = s.index /\ WentTo(s, u.offset)

(* Every fragment of the usual form finds its samples in the output, those *)
(* of the tracks that were not decrypted included.                         *)
FragmentsFindSamples ==
  pc = "done" =>
    \A i \in Roots : root[i].kind = "moof" /\ SelfContained(i) => FindsItsSamples(i)

(* A file whose samples lie in its mdats, apart from each other, and which *)
(* can be read to its end.  Where an empty sample lies at the start of     *)
(* another, it is listed in front of it.                                   *)
SoundFile ==
  /\ \A i \in Roots : root[i].kind = "moof" => EditsFound(i)
  /\ LET edits == UNION { EditsOf(i) : i \in { j \in Roots : root[j].kind = "moof" } } IN
     \A e, f \in edits : e # f =>
       /\ EndOf(e) <= f.span.offset \/ EndOf(f) <= e.span.offset
       /\ e.span.offset = f.span.offset /\ e.span.size > 0 => FiledBefore(f, e)
  /\ file.readable >= EndOfFile

-----------------------------------------------------------------------------
(***************************************************************************)
(* What the repository says and the code does not do; see README.md.       *)
(***************************************************************************)
(* A reference of a top-level sidx, which counts from the end of the sidx, *)
(* still begins at the box it began at.                                    *)
ReferenceStart(i, sizes, end, n) == end + SumTo(sizes, n - 1)

SidxFindsFragments ==
  pc = "done" =>
    \A i, j \in Roots : \A n \in DOMAIN root[i].entries :
      /\ root[i].kind = "sidx"
      /\ ReferenceStart(i, root[i].entries, root[i].offset + root[i].size, n)
           = root[j].offset
      => ReferenceStart(i, EntriesWritten(i), Place(i) + output[i].size, n) = Place(j)

(* Every fragment, of whatever form, finds its samples in the output.      *)
AllFragmentsFindSamples ==
  pc = "done" => \A i \in Roots : root[i].kind = "moof" => FindsItsSamples(i)
=============================================================================
