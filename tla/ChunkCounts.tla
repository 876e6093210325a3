----------------------------- MODULE ChunkCounts -----------------------------
(***************************************************************************)
(* How many samples go into each chunk of a track: the loops of            *)
(* src/src/mux/coordination.rs and of src/src/mux/import.rs that cut a     *)
(* track's samples by duration, by segment, by fragment, or after the      *)
(* chunks of a driving video track.  One turn of a loop is one action, and *)
(* every loop keeps its clocks in the variables below; which loop runs is  *)
(* the rule of the request.                                                *)
(*                                                                         *)
(* Times are ticks.  The loops add in u64 and i128 with checks; the        *)
(* model's times stay far below those bounds.                              *)
(***************************************************************************)
EXTENDS Sums, Sequences, SequencesExt, FiniteSetsExt

FlatRules == {"capped", "previous_sample", "authority", "vp08"}
SyncRules == {"sync_segment", "sync_fragmented"}
FragmentRules == {"fragmented", "sync_fragmented"}
Rules == {"duration"} \cup FlatRules \cup SyncRules \cup FragmentRules

ChunkSample == [duration : Nat, composition : Int, sync : BOOLEAN]

(* What a caller hands over.  target is the fragment's or the chunk's, in  *)
(* ticks; driving holds the sample durations of each chunk of the video    *)
(* track that audio follows, whose own timescales matter there only.       *)
ChunkRequest ==
  [ rule : Rules, samples : Seq(ChunkSample), target : Nat \ {0},
    segment_target : Nat \ {0}, start_time : Int, driving : Seq(Seq(Nat) \ {<< >>}),
    timescales : [audio : Nat \ {0}, video : Nat \ {0}, movie : Nat \ {0}],
    rebalance : BOOLEAN, split_terminal : BOOLEAN ]

VideoChunk == [chunk : Nat, open : BOOLEAN, last_start : Nat, end : Nat]

VARIABLES
  cut,              \* the request being worked on
  cut_stage,        \* "idle", "sampling", "closing", "cut" or "refused"
  taken,            \* samples consumed by the loop
  counts,           \* the chunks pushed so far
  current_count,    \* samples of the chunk being filled
  groups,           \* reference_group_fragment_counts
  group_count,      \* fragments of the reference group being filled
  clock,            \* where the next sample starts, on the loop's timeline
  boundary,         \* next_boundary, of the loops that keep one
  segment,          \* current_segment_index
  subsegment,       \* current_subsegment_index
  segment_start,    \* segment_start_time
  chunk_duration,   \* duration of the chunk being filled
  previous_start,   \* where the previous sample started
  video             \* authority: the video chunk audio follows

chunkVars == << cut, cut_stage, taken, counts, current_count, groups, group_count, clock,
                boundary, segment, subsegment, segment_start, chunk_duration,
                previous_start, video >>

segmentVars == << groups, group_count, segment, subsegment, segment_start >>
durationVars == << chunk_duration, previous_start >>
fixedVars == << cut, cut_stage, video >>
-----------------------------------------------------------------------------
HasSample == cut_stage = "sampling" /\ taken < Len(cut.samples)

NextSample == cut.samples[taken + 1]

RuleIs(rule) == cut.rule = rule

TotalOf(durations) == SumTo(durations, Len(durations))

(* Defect: the multiple at the time itself is taken for the next one.      *)
BoundaryAt(time) == cut.target * ((time + cut.target - 1) \div cut.target)

(* The inner while of the loops that keep a boundary: the first multiple of*)
(* the target after a time that has reached the old boundary.              *)
BoundaryAfter(time) == cut.target * (time \div cut.target + 1)

(* Which segment a time lies in; what is before zero counts as zero.       *)
PeriodOf(time, target) == IF time < 0 THEN 0 ELSE time \div target

Begin(request) ==
  /\ cut_stage \in {"idle", "cut"}
  /\ cut' = request
  /\ cut_stage' = "sampling"
  /\ taken' = 0 /\ current_count' = 0 /\ group_count' = 0
  /\ counts' = << >> /\ groups' = << >>
  /\ clock' = IF request.rule = "duration" THEN request.start_time ELSE 0
  /\ boundary' = request.target
  /\ segment' = 0 /\ subsegment' = 0 /\ segment_start' = 0
  /\ chunk_duration' = 0 /\ previous_start' = 0
  /\ video' = [chunk |-> 0, open |-> FALSE, last_start |-> 0, end |-> 0]

(* The sample goes into a chunk, after the loop cut or did not cut before  *)
(* it, and the clock moves to where the next sample starts.                *)
TakeSample(cut_before) ==
  /\ taken' = taken + 1
  /\ clock' = clock + NextSample.duration
  /\ counts' = IF cut_before THEN Append(counts, current_count) ELSE counts
  /\ current_count' = IF cut_before THEN 1 ELSE current_count + 1

(* build_duration_chunk_sample_counts_with_start_time: the chunk that      *)
(* reaches the boundary ends with the sample that reached it.              *)
DurationTurn ==
  /\ HasSample /\ RuleIs("duration")
  /\ taken' = taken + 1
  /\ clock' = clock + NextSample.duration
  /\ IF clock' >= boundary
       THEN /\ counts' = Append(counts, current_count + 1)
            /\ current_count' = 0
            /\ boundary' = BoundaryAfter(clock')
       ELSE /\ current_count' = current_count + 1
            /\ UNCHANGED << counts, boundary >>
  /\ UNCHANGED << fixedVars, segmentVars, durationVars >>

(* build_capped_duration_chunk_sample_counts: no chunk outgrows the target *)
(* unless its first sample does.                                           *)
CappedTurn ==
  /\ HasSample /\ RuleIs("capped")
  /\ LET full == current_count # 0 /\ chunk_duration + NextSample.duration > cut.target
     IN  /\ TakeSample(full)
         /\ chunk_duration' = NextSample.duration + (IF full THEN 0 ELSE chunk_duration)
  /\ UNCHANGED << fixedVars, segmentVars, boundary, previous_start >>

(* build_prev_sample_duration_chunk_sample_counts: as above, judged by the *)
(* duration of the sample before.                                          *)
PreviousSampleTurn ==
  /\ HasSample /\ RuleIs("previous_sample")
  /\ LET full == current_count # 0 /\ clock - previous_start + chunk_duration > cut.target
     IN  /\ TakeSample(full)
         /\ chunk_duration' = NextSample.duration + (IF full THEN 0 ELSE chunk_duration)
  /\ previous_start' = clock
  /\ UNCHANGED << fixedVars, segmentVars, boundary >>
-----------------------------------------------------------------------------
(* The two loops that cut fragments and group them into segments share     *)
(* what they do when a sample starts a segment or only a fragment; they    *)
(* differ in the time they judge a sample by and in which samples they ask.*)
StartSegment(time, index) ==
  /\ TakeSample(TRUE)
  /\ segment' = index
  /\ subsegment' = 0
  /\ groups' = Append(groups, group_count + 1)
  /\ group_count' = 0
  /\ segment_start' = time

StartFragment(index) ==
  /\ TakeSample(TRUE)
  /\ subsegment' = index
  /\ group_count' = group_count + 1
  /\ UNCHANGED << segment, segment_start, groups >>

StayInFragment ==
  /\ TakeSample(FALSE)
  /\ UNCHANGED segmentVars

(* Where a sample may start something: its segment from one timeline, its  *)
(* fragment from the offset into the segment on another.                   *)
AskSample(period, time, offset) ==
  \/ period # segment /\ StartSegment(time, period)
  \/ /\ period = segment /\ cut.target # cut.segment_target
     /\ offset \div cut.target # subsegment
     /\ StartFragment(offset \div cut.target)
  \/ /\ period = segment
     /\ cut.target = cut.segment_target \/ offset \div cut.target = subsegment
     /\ StayInFragment

(* build_fragmented_duration_chunk_sample_counts_with_start_time           *)
FragmentedTurn ==
  /\ HasSample /\ RuleIs("fragmented")
  /\ IF current_count = 0
       THEN StayInFragment
       ELSE AskSample(PeriodOf(clock + cut.start_time, cut.segment_target),
                      clock, clock - segment_start)
  /\ UNCHANGED << fixedVars, durationVars, boundary >>

PresentationStart == clock + NextSample.composition + cut.start_time

MayStart == current_count # 0 /\ NextSample.sync

(* build_sync_aligned_fragmented_duration_chunk_sample_counts              *)
SyncFragmentedTurn ==
  /\ HasSample /\ RuleIs("sync_fragmented")
  /\ \/ /\ taken = 0
        /\ segment' = PeriodOf(PresentationStart, cut.segment_target)
        /\ segment_start' = PresentationStart
        /\ TakeSample(FALSE)
        /\ UNCHANGED << groups, group_count, subsegment >>
     \/ /\ taken # 0 /\ MayStart
        /\ AskSample(PeriodOf(PresentationStart, cut.segment_target), PresentationStart,
                     IF PresentationStart < segment_start
                       THEN 0 ELSE PresentationStart - segment_start)
     \/ taken # 0 /\ ~MayStart /\ StayInFragment
  /\ UNCHANGED << fixedVars, durationVars, boundary >>

(* build_sync_aligned_segment_chunk_sample_counts: the first sync sample   *)
(* whose presentation has reached the boundary starts the next segment.    *)
SyncSegmentTurn ==
  /\ HasSample /\ RuleIs("sync_segment")
  /\ LET starts == MayStart /\ PresentationStart >= boundary
     IN  /\ TakeSample(starts)
         /\ boundary' = IF starts THEN BoundaryAfter(PresentationStart) ELSE boundary
  /\ UNCHANGED << fixedVars, segmentVars, durationVars >>
-----------------------------------------------------------------------------
(* build_preserved_authority_flat_audio_chunk_sample_counts: one audio     *)
(* chunk for each chunk of the authority's video track, closed where it    *)
(* outgrows the interleave target or runs past the video chunk by more.    *)
timestamp_greater(lhs, lhs_timescale, rhs, rhs_timescale) ==
  lhs * rhs_timescale > rhs * lhs_timescale

FollowVideoChunk ==
  /\ HasSample /\ RuleIs("authority")
  /\ ~ video.open /\ video.chunk < Len(cut.driving)
  /\ LET durations == cut.driving[video.chunk + 1]
     IN  video' = [ chunk |-> video.chunk + 1, open |-> TRUE,
                    last_start |-> video.end + TotalOf(Front(durations)),
                    end |-> video.end + TotalOf(durations) ]
  /\ UNCHANGED << cut, cut_stage, taken, counts, current_count, clock, boundary,
                  segmentVars, durationVars >>

(* chunk_last_dts: the drift allowed is the interleave target.             *)
LastStartAllowed ==
  video.last_start + (cut.timescales.video * cut.target) \div cut.timescales.movie

ExceedsVideoChunk ==
  \/ timestamp_greater(clock - previous_start + chunk_duration, cut.timescales.audio,
                       cut.target, cut.timescales.movie)
  \/ /\ LastStartAllowed # 0
     /\ timestamp_greater(previous_start, cut.timescales.audio,
                          LastStartAllowed, cut.timescales.video)

AuthorityTurn ==
  /\ HasSample /\ RuleIs("authority") /\ video.open
  /\ ~ ExceedsVideoChunk \/ chunk_duration = 0
  /\ TakeSample(FALSE)
  /\ chunk_duration' = chunk_duration + NextSample.duration
  /\ previous_start' = clock
  /\ UNCHANGED << fixedVars, segmentVars, boundary >>

LeaveVideoChunk ==
  /\ HasSample /\ RuleIs("authority") /\ video.open
  /\ ExceedsVideoChunk /\ chunk_duration # 0
  /\ counts' = IF current_count = 0 THEN counts ELSE Append(counts, current_count)
  /\ current_count' = 0
  /\ chunk_duration' = 0
  /\ video' = [video EXCEPT !.open = FALSE]
  /\ UNCHANGED << cut, cut_stage, taken, clock, boundary, segmentVars, previous_start >>

(* No video chunk is left: the rest of the audio is one chunk.             *)
TakeRest ==
  /\ HasSample /\ RuleIs("authority")
  /\ ~ video.open /\ video.chunk = Len(cut.driving)
  /\ counts' = Append(counts, Len(cut.samples) - taken)
  /\ taken' = Len(cut.samples)
  /\ UNCHANGED << fixedVars, current_count, clock, boundary, segmentVars, durationVars >>

(* build_fragmented_imported_vp08_flat_chunk_sample_counts: one chunk up to*)
(* the next sync sample, and one for each sample from there on.            *)
Vp08Chunks ==
  /\ HasSample /\ RuleIs("vp08") /\ taken = 0
  /\ LET length == Len(cut.samples)
         later == { i \in 2..length : cut.samples[i].sync }
         first == IF later = {} THEN length ELSE Min(later) - 1
     IN  counts' = << first >> \o [i \in 1..length - first |-> 1]
  /\ taken' = Len(cut.samples)
  /\ UNCHANGED << fixedVars, current_count, clock, boundary, segmentVars, durationVars >>
-----------------------------------------------------------------------------
(* Defect: the fragment being filled is left out of its group.             *)
PushedFragments == group_count

(* The end of each loop: what is being filled is pushed, and a loop that   *)
(* pushed nothing is refused (InvalidChunkPlan).                           *)
Fragments == group_count + (IF current_count = 0 THEN 0 ELSE 1)

CloseLoop ==
  /\ cut_stage = "sampling" /\ taken = Len(cut.samples)
  /\ counts' = IF current_count = 0 THEN counts ELSE Append(counts, current_count)
  /\ groups' = IF cut.rule \in FragmentRules /\ Fragments # 0
                 THEN Append(groups, Fragments) ELSE groups
  /\ current_count' = 0 /\ group_count' = 0
  /\ cut_stage' = IF counts' = << >> THEN "refused" ELSE "closing"
  /\ UNCHANGED << cut, taken, clock, boundary, segment, subsegment, segment_start,
                  durationVars, video >>

(* rebalance_small_multi_audio_chunk_sample_counts: its while moves samples*)
(* from the second chunk to the third while that still evens them out.     *)
Rebalances(c) == Len(c) = 3 /\ c[1] = c[2] /\ c[2] <= 4 /\ c[3] + 1 < c[2]

Rebalanced(c) ==
  IF Rebalances(c)
    THEN LET moved == (c[2] - c[3]) \div 2 IN << c[1], c[2] - moved, c[3] + moved >>
    ELSE c

(* split_terminal_short_{video,audio}_chunk_sample_counts                  *)
SplitsTerminal(c, samples) ==
  LET n == Len(samples)
  IN  /\ n >= 2
      /\ samples[n].duration < samples[n - 1].duration
      /\ Last(c) > 1

(* Defect: the chunk the sample is taken from keeps it.                    *)
SplitKept(c, samples) == IF SplitsTerminal(c, samples) THEN Append(c, 1) ELSE c

TerminalSplit(c, samples) ==
  IF SplitsTerminal(c, samples) THEN Append(Front(c), Last(c) - 1) \o << 1 >> ELSE c

(* What the importer still does to the counts of a flat track.             *)
AdjustCounts ==
  /\ cut_stage = "closing"
  /\ LET balanced == IF cut.rebalance THEN Rebalanced(counts) ELSE counts
     IN  counts' = IF cut.split_terminal THEN TerminalSplit(balanced, cut.samples)
                                         ELSE balanced
  /\ cut_stage' = "cut"
  /\ UNCHANGED << cut, taken, current_count, clock, boundary, segmentVars, durationVars,
                  video >>

CutStep ==
  \/ DurationTurn \/ CappedTurn \/ PreviousSampleTurn
  \/ FragmentedTurn \/ SyncFragmentedTurn \/ SyncSegmentTurn
  \/ FollowVideoChunk \/ AuthorityTurn \/ LeaveVideoChunk \/ TakeRest
  \/ Vp08Chunks
  \/ CloseLoop \/ AdjustCounts
=============================================================================
