--------------------- MODULE MCCommonEncryptionStream ---------------------
(***************************************************************************)
(* CommonEncryptionStream on files of three to seven root boxes.  A file is*)
(* written down without offsets; Laid puts its boxes one behind the other  *)
(* and fills in what refers to where they lie.                             *)
(***************************************************************************)
EXTENDS CommonEncryptionStreamInvariant

Box(kind, size) ==
  [kind |-> kind, offset |-> 0, size |-> size, header_size |-> 1, shrink |-> 0,
   trafs |-> << >>, entries |-> << >>]

Other == Box("other", 2)
Moov(shrink) == [Box("moov", 6) EXCEPT !.shrink = shrink]
Mdat(size) == Box("mdat", size)

(* A run of one or more samples that begins skip bytes into root box mdat; *)
(* Laid replaces the pair by an offset relative to the moof.               *)
RunAt(mdat, skip, sizes) == [data_offset |-> << mdat, skip >>, sizes |-> sizes]
Chained(sizes) == [data_offset |-> None, sizes |-> sizes]

TrafOf(removed, runs) ==
  [base_data_offset |-> None, default_base_is_moof |-> TRUE, removed |-> removed,
   runs |-> runs]

(* The same with an absolute base, laid at the moof.                       *)
BasedTrafOf(removed, runs) == [TrafOf(removed, runs) EXCEPT !.base_data_offset = 0]

Moof(size, trafs) == [Box("moof", size) EXCEPT !.trafs = trafs]

(* The entries of an mfra name root boxes; 0 stands for an offset at which *)
(* no box begins.                                                          *)
Mfra(entries) == [Box("mfra", 3) EXCEPT !.entries = entries]

Laid(boxes, missing) ==
  LET offset[i \in 1..(Len(boxes) + 1)] ==
        IF i = 1 THEN 0 ELSE offset[i - 1] + boxes[i - 1].size
      laidRun(i, run) ==
        IF run.data_offset = None THEN run
        ELSE [run EXCEPT !.data_offset = offset[@[1]] + 1 + @[2] - offset[i]]
      laidTraf(i, traf) ==
        [traf EXCEPT !.base_data_offset = IF @ = None THEN None ELSE offset[i],
                     !.runs = [r \in DOMAIN @ |-> laidRun(i, @[r])]]
      laidEntries(box) ==
        IF box.kind = "mfra" THEN [e \in DOMAIN box.entries |->
                                  IF box.entries[e] = 0 THEN 1 ELSE offset[box.entries[e]]]
        ELSE box.entries
  IN [ root_boxes |->
         [ i \in DOMAIN boxes |->
             [ boxes[i] EXCEPT !.offset = offset[i], !.entries = laidEntries(boxes[i]),
                               !.trafs = [t \in DOMAIN @ |-> laidTraf(i, @[t])] ] ],
       readable |-> offset[Len(boxes) + 1] - missing ]

(* Two tracks of which either may be decrypted, in the usual layout: their *)
(* samples follow their moof, and an mfra behind names the moofs, the mdat *)
(* and itself.                                                             *)
UsualFiles ==
  { Laid(<< Moov(s),
            Moof(6, << TrafOf(r[1], << RunAt(3, 0, << 1, 2 >>) >>),
                       TrafOf(r[2], << RunAt(3, 3, << 1 >>), RunAt(3, 4, << 1 >>) >>) >>),
            Mdat(6),
            Moof(5, << TrafOf(r[3], << RunAt(5, 0, << 2 >>) >>) >>),
            Mdat(4), Mfra(<< 2, 4, 3, 6, 0 >>) >>, 0) :
      s \in 0..2, r \in (0..2) \X (0..2) \X (0..2) }

(* A segment without a moov, its samples spread over two mdats, sharing    *)
(* bytes or running out of their mdat for some values of the parameters.   *)
SegmentFiles ==
  { Laid(<< Other, Mfra(<< 3 >>),
            Moof(6, << TrafOf(r, << RunAt(4, 0, << 2 >>), RunAt(5, skip, << 1, size >>) >>),
                       TrafOf(q, << RunAt(5, 2, << 1 >>) >>) >>),
            Mdat(4), Mdat(4) >>, missing) :
      r, q \in 0..2, skip \in 0..1, size \in 0..2, missing \in 0..4 }

(* Two moofs in front of their mdats.                                      *)
SiblingFiles ==
  { Laid(<< Moov(s), Moof(4, << TrafOf(r, << RunAt(4, 0, << 2 >>) >>) >>),
            Moof(4, << TrafOf(q, << RunAt(5, 0, << 2 >>) >>) >>),
            Mdat(3), Mdat(3) >>, 0) : s \in 0..1, r, q \in 0..2 }

(* An absolute base, beside a track without.                               *)
BasedFiles ==
  { Laid(<< Moov(s), Moof(4, << BasedTrafOf(r, << RunAt(3, 0, << 2 >>) >>),
                                TrafOf(q, << RunAt(3, 2, << 1 >>) >>) >>),
            Mdat(4) >>, 0) : s \in 0..1, r, q \in 0..1 }

(* An mdat in front of its moof; a run that follows another.               *)
OtherFiles ==
  { Laid(<< Moov(s), Mdat(3), Moof(4, << TrafOf(r, << RunAt(2, 0, << 2 >>) >>) >>) >>, 0) :
      s \in 0..1, r \in 0..2 }
  \cup
  { Laid(<< Moov(s), Moof(4, << TrafOf(r, << RunAt(3, 0, << 2 >>), Chained(<< 1 >>) >>) >>),
            Mdat(4) >>, 0) : s \in 0..1, r \in 0..2 }

(* A sidx in front of two fragments, referring to both.                    *)
IndexedFiles ==
  { Laid(<< Moov(1), [Box("sidx", 3) EXCEPT !.entries = << 7, 7 >>],
            Moof(4, << TrafOf(r, << RunAt(4, 0, << 2 >>) >>) >>), Mdat(3),
            Moof(4, << TrafOf(q, << RunAt(6, 0, << 2 >>) >>) >>), Mdat(3) >>, 0) :
      r, q \in 0..2 }

(* An empty sample in front of, at the start of, inside and behind others  *)
(* of its own traf or of another.                                          *)
EmptySampleFiles ==
  { Laid(<< Moov(s), Moof(4, << TrafOf(r, << RunAt(3, 0, << size, 2, 1 >>) >>),
                                TrafOf(q, << RunAt(3, skip, << 0 >>) >>) >>),
            Mdat(5) >>, 0) : s, r, q, size \in 0..1, skip \in 0..4 }

MCFiles == EmptySampleFiles \cup UsualFiles \cup SegmentFiles \cup SiblingFiles \cup BasedFiles \cup OtherFiles
           \cup IndexedFiles
=============================================================================
