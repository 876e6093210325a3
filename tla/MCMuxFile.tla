----------------------------- MODULE MCMuxFile -----------------------------
(***************************************************************************)
(* MuxFile on mixes of up to two tracks: every cut of three samples into   *)
(* chunks, chunk after chunk as the planner lays them out, samples of equal*)
(* and of different size and description, empty samples, sidx groups and   *)
(* trims that fit and that do not, payloads and times around the limits of *)
(* the fields they are written to.                                         *)
(***************************************************************************)
EXTENDS MuxFile

(* The planner's promise (ChunksLieWhole of MCMuxPreparation): output      *)
(* offsets add up the sizes of the items before.                           *)
LaidOut(list) ==
  [k \in DOMAIN list |->
     [track |-> list[k][1], size |-> list[k][2], description |-> list[k][3],
      is_sync |-> list[k][4], decode_time |-> list[k][5], duration |-> 2,
      composition |-> list[k][6],
      output_offset |-> MapThenSumSet(LAMBDA i : list[i][2], 1..k - 1)]]

Track(counts, trim, groups) ==
  [video |-> FALSE, descriptions |-> 2, counts |-> counts, keeps_terminal |-> FALSE,
   trim |-> trim, groups |-> groups, indexed |-> TRUE]

Base ==
  [layout |-> "flat", items |-> << >>, tracks |-> << >>, single_reference |-> FALSE,
   prefix |-> 0, metadata |-> [f \in 1..3 |-> IF f = 2 THEN 6 ELSE 0], padded |-> FALSE]

Cuts == { << 1, 1, 1 >>, << 1, 2 >>, << 2, 1 >>, << 3 >> }

(* One track of three samples.                                             *)
OneTrack(sizes, descriptions, track_) ==
  [Base EXCEPT !.tracks = << track_ >>,
     !.items = LaidOut([k \in 1..3 |->
        << 1, sizes[k], descriptions[k], k = 1, 2 * (k - 1), 0 >>])]

SizeLists == { << 3, 3, 3 >>, << 3, 0, 5 >>, << 0, 0, 0 >> }
DescriptionLists == { << 1, 1, 1 >>, << 1, 1, 2 >>, << 1, 2, 1 >>, << 1, 1, 3 >> }
GroupLists == { << >>, << 1, 2 >>, << 2, 1 >>, << 1, 1 >>, << 3 >> }

Variants(m) ==
  { [m EXCEPT !.layout = layout, !.single_reference = single, !.padded = single,
              !.prefix = IF single THEN 4 ELSE 0, !.tracks[1].keeps_terminal = single] :
      layout \in Layouts, single \in BOOLEAN }

OneTrackMixes ==
  UNION { Variants(OneTrack(sizes, << 1, 1, 1 >>, Track(cut, 0, << >>))) :
            sizes \in SizeLists, cut \in Cuts }
  \cup
  UNION { Variants(OneTrack(<< 3, 0, 5 >>, descriptions, Track(cut, 0, << >>))) :
            descriptions \in DescriptionLists, cut \in Cuts }
  \cup
  { [OneTrack(<< 3, 0, 5 >>, << 1, 1, 1 >>, Track(cut, trim, groups))
       EXCEPT !.layout = layout, !.single_reference = groups = << >>] :
      layout \in Layouts \ {"flat", "split"}, cut \in Cuts, trim \in {0, 1, 2, 3, 5},
      groups \in GroupLists }

(* Two tracks whose chunks alternate; the first may have fewer of them.    *)
TwoTracks(video, counts, composition, order) ==
  [Base EXCEPT
     !.tracks = << [Track(counts, 0, << >>) EXCEPT !.video = TRUE],
                   [Track(<< 1, 1 >>, 1, << >>) EXCEPT !.video = video] >>,
     !.items = LaidOut([k \in 1..4 |->
        IF order[k] = 1 THEN << 1, k, IF k = 4 THEN 2 ELSE 1, TRUE, k, composition >>
        ELSE << 2, 2, 1, k = 1, k, 0 >>])]

TwoTrackMixes ==
  UNION { Variants(TwoTracks(video, << 1, 1 >>, composition, order)) :
            video \in BOOLEAN, composition \in {0, 1},
            order \in { << 1, 2, 1, 2 >>, << 2, 1, 2, 1 >>, << 1, 1, 2, 2 >> } }
  \cup
  UNION { Variants(TwoTracks(video, << 2 >>, 0, order)) :
            video \in BOOLEAN, order \in { << 1, 1, 2, 2 >>, << 2, 1, 1, 2 >> } }

(* Payloads around the limit, no samples, no index, and decode times that  *)
(* run backward.                                                           *)
OddMixes ==
  UNION { Variants(OneTrack(sizes, << 1, 1, 1 >>, Track(cut, 0, << >>))) :
            sizes \in { << U32Max - 80, 10, 10 >>, << U32Max, 10, 10 >>, << U32Max, U32Max, 1 >> },
            cut \in { << 1, 1, 1 >>, << 3 >> } }
  \cup
  Variants([Base EXCEPT !.tracks = << Track(<< >>, 0, << >>) >>])
  \cup
  Variants([OneTrack(<< 3, 0, 5 >>, << 1, 1, 1 >>, Track(<< 2, 1 >>, 0, << >>))
              EXCEPT !.tracks[1].indexed = FALSE])
  \cup
  Variants([OneTrack(<< 3, 0, 5 >>, << 1, 1, 1 >>, Track(<< 2, 1 >>, 0, << >>))
              EXCEPT !.items[1].decode_time = 9])

(* A later run behind a payload around what its trun can point to, a       *)
(* fragment around what a reference can count, samples too long for one,   *)
(* and a sync sample that comes around as late as it can say.              *)
Limits ==
  UNION { Variants(OneTrack(<< I32Max - k, 3, 5 >>, descriptions, Track(cut, 0, << >>))) :
            k \in {0, 53, 54, 80, 100, 200}, descriptions \in { << 1, 1, 1 >>, << 1, 2, 2 >> },
            cut \in { << 1, 2 >>, << 3 >> } }
  \cup
  UNION { Variants([OneTrack(<< 3, 0, 5 >>, << 1, 1, 1 >>, Track(cut, 0, << >>))
                      EXCEPT !.items[1].duration = U32Max - k, !.items[3].duration = 3]) :
            k \in {0, 4, 5, 6}, cut \in { << 1, 2 >>, << 3 >> } }
  \cup
  UNION { Variants([OneTrack(<< 3, 0, 5 >>, << 1, 1, 1 >>, Track(cut, 0, << >>))
                      EXCEPT !.items[1].is_sync = FALSE, !.items[2].is_sync = TRUE,
                             !.items[2].composition = SapMax - k]) :
            k \in {1, 2, 3}, cut \in { << 1, 2 >>, << 3 >> } }

MCMixes == OneTrackMixes \cup TwoTrackMixes \cup OddMixes \cup Limits
=============================================================================
