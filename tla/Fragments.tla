------------------------------ MODULE Fragments ------------------------------
(***************************************************************************)
(* Movie fragments as both Common Encryption rewrites read and patch them  *)
(* (src/src/decrypt.rs): where the samples of a traf lie, what a moof loses*)
(* when its tracks are decrypted, and how the runs in it are moved.  A root*)
(* box is a record with its kind, offset, size, header_size and trafs.     *)
(***************************************************************************)
EXTENDS Sums, Sequences, Options

ASSUME NoneAssumption == None \notin Int

(* A trun: where its samples begin, if it says so, and their sizes.        *)
Run == [data_offset : Int \cup {None}, sizes : Seq(Nat)]

MoofRemoved(box) ==
  SumTo([t \in DOMAIN box.trafs |-> box.trafs[t].removed], Len(box.trafs))

(* compute_sample_spans: where the samples of a traf are, for a moof that  *)
(* begins at the given offset.  A run without data_offset follows the run  *)
(* before it.  This is also how a reader of the output finds them.         *)
BaseOf(traf, moof_offset) ==
  IF traf.base_data_offset = None THEN moof_offset ELSE traf.base_data_offset

RunStart(traf, moof_offset) ==
  LET start[r \in DOMAIN traf.runs] ==
        IF traf.runs[r].data_offset # None
          THEN BaseOf(traf, moof_offset) + traf.runs[r].data_offset
        ELSE IF r > 1
          THEN start[r - 1] + SumTo(traf.runs[r - 1].sizes, Len(traf.runs[r - 1].sizes))
        ELSE IF traf.default_base_is_moof
          THEN moof_offset
          ELSE BaseOf(traf, moof_offset)
  IN start

SampleSpans(traf, moof_offset) ==
  UNION { { [ run |-> r, index |-> k, size |-> traf.runs[r].sizes[k],
              offset |-> RunStart(traf, moof_offset)[r]
                         + SumTo(traf.runs[r].sizes, k - 1) ] :
              k \in DOMAIN traf.runs[r].sizes } : r \in DOMAIN traf.runs }

(* read_sample_range, find_mdat_info_containing_sample: a sample lies in   *)
(* one mdat.                                                               *)
HoldsSample(box, span) ==
  /\ box.kind = "mdat"
  /\ box.offset + box.header_size <= span.offset
  /\ span.offset + span.size <= box.offset + box.size
-----------------------------------------------------------------------------
(* A moof that loses metadata is rebuilt with its data offsets patched,    *)
(* unless one of its trafs or runs is not placed relative to the moof.     *)
PatchBlocked(box) ==
  \E t \in DOMAIN box.trafs :
    \/ box.trafs[t].base_data_offset # None
    \/ \E r \in DOMAIN box.trafs[t].runs : box.trafs[t].runs[r].data_offset = None

IsRebuilt(box) == MoofRemoved(box) # 0 /\ ~PatchBlocked(box)

(* Defect: a run is moved by what its own traf lost.                       *)
PatchedByTraf(box, traf, run) == [run EXCEPT !.data_offset = @ - traf.removed]

PatchedRun(box, traf, run) == [run EXCEPT !.data_offset = @ - MoofRemoved(box)]

RebuiltTraf(box, traf) ==
  [traf EXCEPT !.removed = 0,
               !.runs = [r \in DOMAIN traf.runs |-> PatchedRun(box, traf, traf.runs[r])]]

RebuiltMoof(box) ==
  [ size  |-> box.size - MoofRemoved(box),
    trafs |-> [t \in DOMAIN box.trafs |-> RebuiltTraf(box, box.trafs[t])] ]

Including(map, key, value) ==
  [k \in DOMAIN map \cup {key} |-> IF k = key THEN value ELSE map[k]]
=============================================================================
