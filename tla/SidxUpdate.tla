------------------------------ MODULE SidxUpdate ------------------------------
(***************************************************************************)
(* The refresh of a top-level sidx (src/src/sidx.rs): the root boxes are   *)
(* grouped into media segments, each segment is measured, a sidx with one  *)
(* reference for each is planned, and the plan is applied by putting the   *)
(* new box in the place of the old one.  The functions read a file and     *)
(* return a value; a state machine that calls them is in MemoryRewrite.    *)
(*                                                                         *)
(* A file is a sequence of root boxes.  A moov has its tracks, whether it  *)
(* has an mvex, and the tracks with a trex; a traf its track, its tfdt (or *)
(* None), the duration of its runs and its first composition offset; a sidx*)
(* its version, first_offset, and its references as sizes and durations.   *)
(***************************************************************************)
EXTENDS Fragments, SequencesExt, FiniteSetsExt

BoxesOf(boxes, kind) == { i \in DOMAIN boxes : boxes[i].kind = kind }

PreviousKind(boxes, i) == IF i = 1 THEN "none" ELSE boxes[i - 1].kind
-----------------------------------------------------------------------------
(* Grouping.  The state of the loop: the segments so far, each with its    *)
(* first box, its moofs, its size and the sidx boxes met in it; and the    *)
(* sidx boxes taken for those of the file.                                 *)
StartSegment(state, i) ==
  [state EXCEPT !.segments =
     Append(@, [first |-> i, moofs |-> << >>, size |-> 0, sidx_count |-> 0])]

(* Boxes in front of the first segment are nobody's.                       *)
UpdateLast(state, segment) ==
  IF state.segments = << >> THEN state
  ELSE [state EXCEPT !.segments[Len(state.segments)] = segment]

AddSize(state, box) ==
  UpdateLast(state, [Last(state.segments) EXCEPT !.size = @ + box.size])

AddMoof(state, i) ==
  UpdateLast(state, [Last(state.segments) EXCEPT !.moofs = Append(@, i)])

AddSidx(state) ==
  UpdateLast(state, [Last(state.segments) EXCEPT !.sidx_count = @ + 1])

(* Where the references of a sidx begin: they count from its end.          *)
SegmentStarts(sidx) ==
  [ n \in DOMAIN sidx.entries |->
      sidx.offset + sidx.size + sidx.first_offset + SumTo(sidx.entries, n - 1) ]

(* Defect: the reference of the segment before is compared.                *)
ShouldStartLate(boxes, state, offset) ==
  LET count  == Len(state.segments)
      starts == FlattenSeq([ k \in DOMAIN state.existing |->
                               SegmentStarts(boxes[state.existing[k]]) ])
  IN IF state.existing = << >> THEN count = 0
     ELSE count \in DOMAIN starts /\ starts[count] = offset

(* Without a sidx the first fragment opens the only segment; with one, a   *)
(* fragment opens a segment where the next reference begins.               *)
ShouldStart(boxes, state, offset) ==
  LET count  == Len(state.segments)
      starts == FlattenSeq([ k \in DOMAIN state.existing |->
                               SegmentStarts(boxes[state.existing[k]]) ])
  IN IF state.existing = << >> THEN count = 0
     ELSE count + 1 \in DOMAIN starts /\ starts[count + 1] = offset

IsPendingStyp(boxes, segment) ==
  /\ boxes[segment.first].kind = "styp"
  /\ segment.moofs = << >> /\ segment.sidx_count = 0
  /\ segment.size = boxes[segment.first].size

(* A sidx in front of all segments, or behind a styp that has opened one   *)
(* and nothing else, is the file's; one behind an mdat opens a segment; any*)
(* other is part of the segment, and only the first adds to its size.      *)
GroupSidx(boxes, state, i) ==
  LET previous == PreviousKind(boxes, i)
      segments == state.segments
      existing == Append(state.existing, i)
  IN CASE segments = << >> /\ previous # "mdat" ->
            [state EXCEPT !.existing = existing]
       [] previous = "styp" /\ segments # << >> /\ IsPendingStyp(boxes, Last(segments)) ->
            [segments |-> Front(segments), existing |-> existing]
       [] previous = "mdat" ->
            AddSidx(AddSize(StartSegment(state, i), boxes[i]))
       [] OTHER ->
            AddSidx(IF segments # << >> /\ Last(segments).sidx_count = 0
                      THEN AddSize(state, boxes[i]) ELSE state)

GroupFragment(boxes, state, i) ==
  LET open  == IF ShouldStart(boxes, state, boxes[i].offset)
                 THEN StartSegment(state, i) ELSE state
      sized == AddSize(open, boxes[i])
  IN IF boxes[i].kind = "moof" THEN AddMoof(sized, i) ELSE sized

(* Defect: a styp is counted with the segment before it.                   *)
GroupStypBefore(boxes, state, i) == StartSegment(AddSize(state, boxes[i]), i)

GroupStyp(boxes, state, i) == AddSize(StartSegment(state, i), boxes[i])

GroupBox(boxes, state, i) ==
  CASE boxes[i].kind = "styp"             -> GroupStyp(boxes, state, i)
    [] boxes[i].kind = "sidx"             -> GroupSidx(boxes, state, i)
    [] boxes[i].kind \in {"emsg", "moof"} -> GroupFragment(boxes, state, i)
    [] boxes[i].kind = "mdat"             -> AddSize(state, boxes[i])
    [] OTHER                              -> state

group_media_segments(boxes) ==
  LET grouped[i \in 0..Len(boxes)] ==
        IF i = 0 THEN [segments |-> << >>, existing |-> << >>]
        ELSE GroupBox(boxes, grouped[i - 1], i)
  IN grouped[Len(boxes)]
-----------------------------------------------------------------------------
(* The track whose times are written: the first video track, else the first*)
(* audio track, else the first.                                            *)
TimingTrack(moov) ==
  LET handled(h) == { n \in DOMAIN moov.tracks : moov.tracks[n].handler = h }
      chosen == IF handled("vide") # {} THEN handled("vide")
                ELSE IF handled("soun") # {} THEN handled("soun")
                ELSE DOMAIN moov.tracks
  IN moov.tracks[Min(chosen)].id

TimingTrafs(moof, track) == { t \in DOMAIN moof.trafs : moof.trafs[t].track = track }

(* Each matching traf of a segment's first moof replaces the time found in *)
(* the one before; a first moof without any leaves it 0.                   *)
PresentationTime(boxes, segment, track) ==
  LET moof   == boxes[segment.moofs[1]]
      timing == TimingTrafs(moof, track)
  IN IF timing = {} THEN 0
     ELSE moof.trafs[Max(timing)].tfdt + moof.trafs[Max(timing)].composition

(* Every matching traf counts, every moof of the segment.                  *)
MoofDuration(moof, track) ==
  SumTo([ t \in DOMAIN moof.trafs |->
            IF moof.trafs[t].track = track THEN moof.trafs[t].duration ELSE 0 ],
        Len(moof.trafs))

SegmentDuration(boxes, segment, track) ==
  SumTo([ k \in DOMAIN segment.moofs |-> MoofDuration(boxes[segment.moofs[k]], track) ],
        Len(segment.moofs))

SegmentError(boxes, segment, track) ==
  LET trafs == UNION { { boxes[m].trafs[t] : t \in TimingTrafs(boxes[m], track) } :
                         m \in ToSet(segment.moofs) }
  IN IF segment.moofs = << >> THEN "SegmentWithoutMovieFragment"
     ELSE IF \E traf \in trafs : traf.tfdt = None THEN "MissingTrackFragmentDecodeTime"
     ELSE IF trafs = {} THEN "MissingTimingTrackFragments"
     ELSE "None"

(* The errors of analyze_top_level_sidx_update, in the order of its tests. *)
InitError(boxes) ==
  LET moov == boxes[Min(BoxesOf(boxes, "moov"))]
  IN IF BoxesOf(boxes, "moov") = {} THEN "MissingMovieBox"
     ELSE IF ~moov.mvex
       THEN IF \E i \in DOMAIN boxes : boxes[i].kind \in {"moof", "styp", "sidx"}
              THEN "MissingMovieExtendsBox" ELSE "NotFragmented"
     ELSE IF moov.tracks = << >> THEN "MissingTracks"
     ELSE IF TimingTrack(moov) \notin moov.extended THEN "MissingTrackExtends"
     ELSE "None"

GroupError(boxes, grouped) ==
  IF \E k \in DOMAIN grouped.existing : boxes[grouped.existing[k]].chained
    THEN "UnsupportedTopLevelSidxIndirectEntry"
  ELSE IF grouped.segments = << >> THEN "MissingMediaSegments"
  ELSE "None"

AnalysisError(boxes) ==
  LET grouped == group_media_segments(boxes)
      track   == TimingTrack(boxes[Min(BoxesOf(boxes, "moov"))])
      error(n) == SegmentError(boxes, grouped.segments[n], track)
      failing == { n \in DOMAIN grouped.segments : error(n) # "None" }
  IN IF InitError(boxes) # "None" THEN InitError(boxes)
     ELSE IF GroupError(boxes, grouped) # "None" THEN GroupError(boxes, grouped)
     ELSE IF failing # {} THEN error(Min(failing))
     ELSE "None"
-----------------------------------------------------------------------------
(* build_top_level_sidx_plan.  A replacement must begin where the old sidx *)
(* says that the media begins.                                             *)
PlacementError(boxes, grouped) ==
  LET count == Len(grouped.existing)
      starts == SegmentStarts(boxes[grouped.existing[1]])
      media  == boxes[grouped.segments[1].first].offset
  IN IF count > 1 THEN "UnsupportedTopLevelSidxCount"
     ELSE IF count = 1 /\ (starts = << >> \/ starts[1] # media)
       THEN "UnsupportedReplacementPlacement"
     ELSE "None"

PlanError(boxes) ==
  IF AnalysisError(boxes) # "None" THEN AnalysisError(boxes)
  ELSE PlacementError(boxes, group_media_segments(boxes))

(* No sidx and none wanted: there is nothing to do.                        *)
IsPlanned(boxes, options) ==
  options.add_if_not_exists \/ group_media_segments(boxes).existing # << >>

Plan(boxes, options) ==
  LET grouped  == group_media_segments(boxes)
      segments == grouped.segments
      track    == TimingTrack(boxes[Min(BoxesOf(boxes, "moov"))])
  IN [ replaced      |-> IF grouped.existing = << >> THEN None ELSE grouped.existing[1],
       insertion_box |-> segments[1].first,
       version       |-> 1,
       earliest      |-> IF options.non_zero_ept
                           THEN PresentationTime(boxes, segments[1], track) ELSE 0,
       starts        |-> [n \in DOMAIN segments |-> boxes[segments[n].first].offset],
       sizes         |-> [n \in DOMAIN segments |-> segments[n].size],
       durations     |-> [n \in DOMAIN segments |->
                            SegmentDuration(boxes, segments[n], track)] ]

(* preserve_existing_top_level_sidx_version (the time fits 32 bits).       *)
VersionKept(boxes, plan) ==
  IF plan.replaced # None /\ boxes[plan.replaced].version = 0
    THEN [plan EXCEPT !.version = 0] ELSE plan
-----------------------------------------------------------------------------
(* apply_top_level_sidx_plan: bytes behind what is removed move by the     *)
(* difference in size.  Only the two boxes the plan names are validated.   *)
EncodedSidxSize(version, count) == (IF version = 0 THEN 32 ELSE 40) + 12 * count

WriteOffset(boxes, plan) ==
  boxes[IF plan.replaced = None THEN plan.insertion_box ELSE plan.replaced].offset

RemovedSize(boxes, plan) == IF plan.replaced = None THEN 0 ELSE boxes[plan.replaced].size

(* Defect: everything is taken to lie behind the sidx by what was inserted.*)
ShiftedByInserted(offset, removed_end, inserted_size, removed_size) ==
  IF offset < removed_end THEN offset ELSE offset + inserted_size

Shifted(offset, removed_end, inserted_size, removed_size) ==
  IF offset < removed_end THEN offset ELSE offset + inserted_size - removed_size

RewrittenSidx(boxes, plan) ==
  LET write_offset == WriteOffset(boxes, plan)
      removed      == RemovedSize(boxes, plan)
      size         == EncodedSidxSize(plan.version, Len(plan.sizes))
      shift(o)     == Shifted(o, write_offset + removed, size, removed)
  IN [ kind |-> "sidx", offset |-> write_offset, size |-> size, header_size |-> 8,
       trafs |-> << >>, chained |-> FALSE, version |-> plan.version,
       earliest |-> plan.earliest,
       first_offset |-> shift(plan.starts[1]) - (write_offset + size),
       entries |-> [ n \in DOMAIN plan.sizes |->
                       shift(plan.starts[n] + plan.sizes[n]) - shift(plan.starts[n]) ],
       durations |-> plan.durations,
       origin |-> IF plan.replaced = None THEN 0 ELSE boxes[plan.replaced].origin ]

(* Root boxes one behind the other.                                        *)
Relaid(boxes) ==
  LET offset[i \in DOMAIN boxes] ==
        IF i = 1 THEN 0 ELSE offset[i - 1] + boxes[i - 1].size
  IN [i \in DOMAIN boxes |-> [boxes[i] EXCEPT !.offset = offset[i]]]

Applied(boxes, plan) ==
  Relaid(IF plan.replaced = None
           THEN InsertAt(boxes, plan.insertion_box, RewrittenSidx(boxes, plan))
           ELSE ReplaceAt(boxes, plan.replaced, RewrittenSidx(boxes, plan)))
=============================================================================
