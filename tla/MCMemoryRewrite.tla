--------------------------- MODULE MCMemoryRewrite ---------------------------
(***************************************************************************)
(* MemoryRewrite on files of up to eleven root boxes, and the refresh of a *)
(* sidx in front of every arrangement of up to five root boxes.  A file is *)
(* written down without offsets; Filed puts its boxes one behind the other *)
(* and fills in what refers to where they lie.                             *)
(***************************************************************************)
EXTENDS MemoryRewrite

Box(kind, size) ==
  [kind |-> kind, offset |-> 0, size |-> size, header_size |-> 1, shrink |-> 0,
   trafs |-> << >>, entries |-> << >>, origin |-> 0]

Video == [id |-> 1, handler |-> "vide"]
Audio == [id |-> 2, handler |-> "soun"]

Moov(shrink) ==
  [Box("moov", 6) EXCEPT !.shrink = shrink] @@
  [mvex |-> TRUE, tracks |-> << Audio, Video >>, extended |-> {1, 2}]

Styp == Box("styp", 3)
Mdat(size) == Box("mdat", size)

(* A run that begins skip bytes into root box mdat.                        *)
RunAt(mdat, skip, sizes) == [data_offset |-> << mdat, skip >>, sizes |-> sizes]
Chained(sizes) == [data_offset |-> None, sizes |-> sizes]

TrafOf(track, removed, runs) ==
  [base_data_offset |-> None, default_base_is_moof |-> TRUE, removed |-> removed,
   active |-> removed # 0, runs |-> runs,
   track |-> track, tfdt |-> 0, duration |-> 10 * Len(runs) + removed, composition |-> 0]

(* The same with an absolute base, laid at the moof.                       *)
BasedTrafOf(track, removed, runs) ==
  [TrafOf(track, removed, runs) EXCEPT !.base_data_offset = 0]

Moof(size, trafs) == [Box("moof", size) EXCEPT !.trafs = trafs]

(* The entries of an mfra name root boxes; those of a sidx, the boxes where*)
(* its references begin and the one behind the last.                       *)
Mfra(entries) == [Box("mfra", 3) EXCEPT !.entries = entries]

Sidx(version, boundaries) ==
  [Box("sidx", EncodedSidxSize(version, Len(boundaries) - 1)) EXCEPT
     !.entries = boundaries] @@
  [version |-> version, first_offset |-> 0, chained |-> FALSE, earliest |-> 0,
   durations |-> << >>]

Laid(boxes) ==
  LET offset[i \in 1..(Len(boxes) + 1)] ==
        IF i = 1 THEN 0 ELSE offset[i - 1] + boxes[i - 1].size
      laidRun(i, run) ==
        IF run.data_offset = None THEN run
        ELSE [run EXCEPT !.data_offset = offset[@[1]] + 1 + @[2] - offset[i]]
      laidTraf(i, traf) ==
        [traf EXCEPT !.base_data_offset = IF @ = None THEN None ELSE offset[i],
                     !.runs = [r \in DOMAIN @ |-> laidRun(i, @[r])]]
      laidEntries(box) ==
        IF box.kind = "mfra" THEN [e \in DOMAIN box.entries |-> offset[box.entries[e]]]
        ELSE IF box.kind = "sidx"
          THEN [e \in 1..(Len(box.entries) - 1) |->
                  offset[box.entries[e + 1]] - offset[box.entries[e]]]
        ELSE box.entries
      laid(i) ==
        [ boxes[i] EXCEPT !.offset = offset[i], !.entries = laidEntries(boxes[i]),
                          !.trafs = [t \in DOMAIN @ |-> laidTraf(i, @[t])],
                          !.origin = i ]
  IN [ i \in DOMAIN boxes |->
         IF boxes[i].kind = "sidx"
           THEN [laid(i) EXCEPT !.first_offset =
                   offset[boxes[i].entries[1]] - offset[i] - boxes[i].size]
           ELSE laid(i) ]

Defaults == [add_if_not_exists |-> FALSE, non_zero_ept |-> FALSE]

Asked(operation, boxes) ==
  [operation |-> operation, options |-> Defaults, root_boxes |-> Laid(boxes)]
-----------------------------------------------------------------------------
(* Two fragments of two tracks behind a sidx, its references one or both,  *)
(* and an mfra; with and without styps.                                    *)
IndexedFiles ==
  { Asked("file",
      << Moov(s), Sidx(v, b), Moof(6, << TrafOf(1, r[1], << RunAt(4, 0, << 1, 2 >>) >>),
                                         TrafOf(2, r[2], << RunAt(4, 3, << 1 >>) >>) >>),
         Mdat(6), Moof(5, << TrafOf(1, r[3], << RunAt(6, 0, << 2 >>) >>) >>),
         Mdat(4), Mfra(<< 3, 5, 7 >>) >>) :
      s \in 0..2, v \in 0..1, b \in {<< 3, 7 >>, << 3, 5, 7 >>},
      r \in (0..2) \X (0..2) \X (0..2) }

StypFiles ==
  { Asked("file",
      << Moov(s), Sidx(v, << 3, 6, 9 >>), Styp,
         Moof(6, << TrafOf(1, r, << RunAt(5, 0, << 2 >>) >>) >>), Mdat(3), Styp,
         Moof(6, << TrafOf(t, q, << RunAt(8, 0, << 2 >>) >>) >>), Mdat(3), Mfra(<< 3, 6 >>) >>) :
      s \in 0..1, v \in 0..1, r, q \in 0..2, t \in 1..2 }

(* No sidx: the second fragment may lack the timing track or its tfdt.     *)
UnindexedFiles ==
  { Asked("file",
      << Moov(s), Styp, Moof(6, << TrafOf(1, r, << RunAt(4, 0, << 2 >>) >>) >>), Mdat(3), Styp,
         Moof(6, << [TrafOf(t, q, << RunAt(7, 0, << 2 >>) >>) EXCEPT !.tfdt = d] >>), Mdat(3),
         Mfra(<< 3, 6 >>) >>) :
      s \in 0..1, r, q \in 0..1, t \in 1..2, d \in {None, 5} }

(* A fragment between two with styps has a reference of its own.  When the *)
(* first two lose as much as a styp is long, the third comes to lie where  *)
(* its reference began.                                                    *)
MixedFiles ==
  { Asked("file",
      << Moov(0), Sidx(0, << 3, 6, 8, 11 >>), Styp,
         Moof(6, << TrafOf(1, r, << RunAt(5, 0, << 2 >>) >>) >>), Mdat(3),
         Moof(6, << TrafOf(1, q, << RunAt(7, 0, << 2 >>) >>) >>), Mdat(3), Styp,
         Moof(6, << TrafOf(1, 0, << RunAt(10, 0, << 2 >>) >>) >>), Mdat(3),
         Mfra(<< 3, 6, 8 >>) >>) :
      r, q \in 0..2 }

(* Segments with sidx boxes of their own, one or two, behind an mdat or not*)
(* (no styp between them): only the first adds to the size of its segment. *)
Fragment(mdat) == Moof(5, << TrafOf(1, 0, << RunAt(mdat, 0, << 1 >>) >>) >>)

OwnSidxFiles ==
  { [operation |-> "refresh", root_boxes |-> Laid(boxes),
     options |-> [add_if_not_exists |-> TRUE, non_zero_ept |-> FALSE]] :
      boxes \in
        { << Moov(0), Styp, Fragment(4), Mdat(3), Sidx(1, << 6, 10 >>) >> \o rest :
            rest \in { << Fragment(7), Mdat(3), Fragment(9), Mdat(3) >>,
                       << Fragment(7), Mdat(3), Fragment(10), Sidx(1, << 10, 11 >>), Mdat(3) >>,
                       << Fragment(7), Mdat(3), Sidx(1, << 9, 11 >>), Fragment(10), Mdat(3) >>,
                       << Fragment(7), Mdat(3), Styp, Fragment(11), Sidx(1, << 11, 12 >>),
                          Mdat(3) >> } } }

(* A fragment that cannot be patched, with an absolute base or a run that  *)
(* follows another, beside one that can; in front of them a sidx, the      *)
(* references of which may not be those of the fragments.                  *)
BlockedFiles ==
  { Asked("file",
      << Moov(s), Sidx(0, b), Moof(6, << traf >>), Mdat(4),
         Moof(6, << TrafOf(1, q, << RunAt(6, 0, << size >>) >>) >>), Mdat(3), Mfra(<< 3, 5 >>) >>) :
      s \in 0..1, b \in {<< 3, 7 >>, << 3, 5, 7 >>}, q \in 0..1, size \in 2..3,
      traf \in { BasedTrafOf(1, r, << RunAt(4, 0, << 2 >>) >>) : r \in 0..1 }
               \cup { TrafOf(1, r, << RunAt(4, 0, << 2 >>), Chained(<< 1 >>) >>) : r \in 0..1 } }

(* Segments without a moov; one has its samples in front.                  *)
Segments ==
  { Asked("segment",
      << Styp, Moof(6, << TrafOf(1, r, << RunAt(m, 0, << 2 >>) >>),
                          TrafOf(2, q, << RunAt(4, skip, << 1, 1 >>) >>) >>),
         Mdat(4), Mdat(4), Mfra(<< 2 >>) >>) :
      r, q \in 0..2, skip \in 0..2, m \in 3..4 }
  \cup
  { Asked("segment", << Mdat(3), Moof(6, << TrafOf(1, r, << RunAt(1, 0, << 2 >>) >>) >>) >>) :
      r \in 0..2 }
-----------------------------------------------------------------------------
(* A moov, then any boxes; a sidx among them has one reference to all that *)
(* is behind it, or one from each moof to the next.  The sample of a moof  *)
(* lies in the last mdat, or the first, which may be in front of it.       *)
Arranged(kinds, version, split) ==
  LET count == Len(kinds) + 1
      moofs(i) == { m \in i..count : m > i /\ kinds[m - 1] = "moof" }
      bounds(i) == IF split /\ moofs(i) # {}
                     THEN SetToSortSeq(moofs(i) \cup {count + 1}, <)
                     ELSE << i + 1, count + 1 >>
      mdats == { j \in 2..count : kinds[j - 1] = "mdat" }
      runs == IF mdats = {} THEN << >>
              ELSE << RunAt(IF split THEN Min(mdats) ELSE Max(mdats), 0, << 1 >>) >>
      box(i) ==
        CASE i = 1 -> Moov(0)
          [] kinds[i - 1] = "moof" ->
               Moof(5, << [TrafOf(1, 0, runs) EXCEPT !.duration = i, !.tfdt = 10 * i] >>)
          [] kinds[i - 1] = "sidx" -> Sidx(version, bounds(i))
          [] kinds[i - 1] = "mdat" -> Mdat(6)
          [] kinds[i - 1] = "emsg" -> Box("emsg", 4)
          [] kinds[i - 1] = "styp" -> Styp
          [] OTHER -> Box("other", 2)
  IN Laid([i \in 1..count |-> box(i)])

(* An arrangement without a fragment is refused; it has one at least.      *)
MaxArranged == 5

Arrangements ==
  { kinds \in UNION { [1..n -> MediaKinds \cup {"other"}] : n \in 2..MaxArranged } :
      \E i \in DOMAIN kinds : kinds[i] = "moof" }

Refreshes ==
  { [operation |-> "refresh", root_boxes |-> Arranged(kinds, 1, split),
     options |-> [add_if_not_exists |-> TRUE, non_zero_ept |-> split]] :
      kinds \in Arrangements, split \in BOOLEAN }

MCRequests == IndexedFiles \cup StypFiles \cup UnindexedFiles \cup MixedFiles
              \cup OwnSidxFiles \cup BlockedFiles \cup Segments \cup Refreshes
=============================================================================
