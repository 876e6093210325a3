--------------------------- MODULE MuxPreparation ---------------------------
(***************************************************************************)
(* From imported tracks to a plan: the tail of finish_prepared_request in  *)
(* src/src/mux/import.rs, which asks ChunkCounts to cut each track, stages *)
(* the samples on the movie's timeline, and hands both to MuxPlan.  A      *)
(* caller of the library may also hand staged items and counts of its own  *)
(* to the planner.                                                         *)
(*                                                                         *)
(* Counts and items come from one track by two ways: the counts from scaled*)
(* durations in import order, the items from decode times the planner sorts*)
(* by.  The two have to agree once the plan is cut.                        *)
(***************************************************************************)
EXTENDS ChunkCounts, MuxPlan, FiniteSets

CONSTANT Jobs

(* An imported sample; gap is what the source's timeline leaves out before *)
(* it (FragmentedDecodeTimeGap), on the track's timescale.                 *)
ImportedSample ==
  [ duration : Nat, composition : Int, sync : BOOLEAN, gap : Nat,
    source_index : Nat, data_offset : Nat, data_size : Nat ]

(* decode_offset is source_media_decode_time_offset, edit source_edit_media*)
(* _time.  headed says whether the track has a header_policy of its source:*)
(* its times may then be rounded when they are scaled.  carried says       *)
(* whether it has the carry of an MP4 file.  The rest matters in a flat    *)
(* file: codec stands for the families the code tells apart; terminal says *)
(* whether a short last sample gets a chunk of its own; source_counts are  *)
(* the chunks the samples lay in at their source, stsc the lengths of the  *)
(* chunks its stsc lists, the last one standing for all further chunks;    *)
(* many_entries says whether the samples need several sample entries.      *)
Codecs == {"plain", "speex", "vorbis", "vp08", "aifc"}

ImportedTrack ==
  [ track_id : TrackIds, kind : {"video", "audio", "text"}, timescale : Nat \ {0},
    headed : BOOLEAN, decode_offset : Nat, edit : Nat, carried : BOOLEAN,
    codec : Codecs, terminal : BOOLEAN, source_counts : Seq(Nat) \cup {None},
    stsc : (Seq(Nat \ {0}) \ {<< >>}) \cup {None}, many_entries : BOOLEAN,
    samples : Seq(ImportedSample) ]

(* What is asked: a request to import, or items for the planner.           *)
ImportJob ==
  [ way : {"import"}, mode : {"segment", "fragment", "flat"}, target : Nat \ {0},
    movie_timescale : Nat \ {0}, auto_flat : BOOLEAN, preserve : BOOLEAN,
    tracks : Seq(ImportedTrack) ]

PlannerJob ==
  [way : {"planner"}, items : Seq(StagedItem), directives : Seq(Directive), policy : Policies]

ASSUME JobsAssumption == Jobs \subseteq ImportJob \cup PlannerJob

(* assign_imported_track_ids gives no identifier twice.                    *)
ASSUME IdsAssumption ==
  \A j \in Jobs : j.way = "import" =>
    \A i, k \in DOMAIN j.tracks : j.tracks[i].track_id = j.tracks[k].track_id => i = k

(* imported_track_selected_mp4_carry finds the carry by the header policy. *)
ASSUME CarriesAssumption ==
  \A j \in Jobs : j.way = "import" => \A i \in DOMAIN j.tracks :
    j.tracks[i].carried => j.tracks[i].headed

VARIABLES
  job,
  prepare_stage,    \* "asked", "aligning", "tracks", "cutting", "handed_over", "refused"
  tracks_done,      \* imported tracks staged
  driving_counts,   \* the counts audio follows, or None
  reference_groups, \* track -> fragmented_reference_group_fragment_counts, or None
  staged_items,
  given

prepareVars == << job, prepare_stage, tracks_done, driving_counts, reference_groups,
                  staged_items, given >>

vars == << chunkVars, planVars, prepareVars >>
-----------------------------------------------------------------------------
IsFlat == job.mode = "flat"

(* reconcile_flat_imported_fragment_decode_time_gaps: in a flat file a gap *)
(* becomes part of the sample before it.                                   *)
Reconciled(s) ==
  [ i \in DOMAIN s |->
      [s[i] EXCEPT !.gap = 0, !.duration = @ + IF i < Len(s) THEN s[i + 1].gap ELSE 0] ]

SamplesNow(t) == IF IsFlat THEN Reconciled(t.samples) ELSE t.samples

track == job.tracks[tracks_done + 1]
samples == SamplesNow(track)

Divides(d, n) == n % d = 0

Magnitude(n) == IF n < 0 THEN 0 - n ELSE n

(* scale_track_time_to_movie: exact unless the track may be rounded; the   *)
(* magnitude is divided, so that rounding is toward zero.                  *)
Scales(time) ==
  track.headed \/ Divides(track.timescale, Magnitude(time) * job.movie_timescale)

Scaled(time) ==
  LET scaled == (Magnitude(time) * job.movie_timescale) \div track.timescale
  IN  IF time < 0 THEN 0 - scaled ELSE scaled

(* Every time the track's turn scales.                                     *)
TimesOf(s) ==
  { s[i].duration : i \in DOMAIN s } \cup { s[i].composition : i \in DOMAIN s }
    \cup (IF IsFlat THEN {} ELSE { s[i].gap : i \in DOMAIN s } \cup {track.decode_offset})
    \cup {track.edit}

(* imported_timing_start_time_ticks                                        *)
StartTicks ==
  (IF IsFlat THEN 0 ELSE Scaled(track.decode_offset)) - Scaled(track.edit)

OnMovieTimeline(s) ==
  [ i \in DOMAIN s |-> [ duration |-> Scaled(s[i].duration), sync |-> s[i].sync,
                         composition |-> Scaled(s[i].composition) ] ]

OnTrackTimeline(s) ==
  [ i \in DOMAIN s |-> [ duration |-> s[i].duration, sync |-> s[i].sync,
                         composition |-> s[i].composition ] ]

OfKind(kind) == { i \in DOMAIN job.tracks : job.tracks[i].kind = kind }

Mixed(s) ==
  (\E i \in DOMAIN s : s[i].sync) /\ (\E i \in DOMAIN s : ~ s[i].sync)

(* default_fragmented_reference_group_target_ticks: six seconds.           *)
ReferenceTarget == Max({6 * job.movie_timescale, 1, job.target})

(* Which loop cuts a track when durations are asked for.                   *)
DurationRule ==
  CASE job.mode = "segment" ->
         IF track.kind = "video" \/ Mixed(samples) THEN "sync_segment" ELSE "duration"
    [] job.mode = "fragment" ->
         IF track.kind = "video" \/ (Mixed(samples) /\ ReferenceTarget > job.target)
           THEN "sync_fragmented"
           ELSE IF ReferenceTarget > job.target THEN "fragmented" ELSE "duration"

Plain(rule, cut_samples, target) ==
  [ rule |-> rule, samples |-> cut_samples, target |-> target, segment_target |-> target,
    start_time |-> 0, driving |-> << >>, rebalance |-> FALSE, split_terminal |-> FALSE,
    timescales |-> [audio |-> 1, video |-> 1, movie |-> 1] ]

DurationRequest ==
  [ Plain(DurationRule, OnMovieTimeline(samples), job.target) EXCEPT
      !.segment_target = ReferenceTarget,
      !.start_time = IF job.mode = "fragment" /\ DurationRule = "duration"
                       THEN 0 ELSE StartTicks ]

(* auto_flat_interleave_target_ticks: half a second, of a movie's or of a  *)
(* track's timescale.                                                      *)
FlatTarget(timescale) == Max({1, (timescale + 1) \div 2})

(* preserved_authority_flat_video_alignment: there is one video track that *)
(* the one audio track can follow.                                         *)
Follows(j) ==
  /\ j.mode = "flat" /\ j.auto_flat /\ j.preserve
  /\ Cardinality({ i \in DOMAIN j.tracks : j.tracks[i].kind = "audio" }) = 1
  /\ \E i \in DOMAIN j.tracks :
       /\ j.tracks[i].kind = "video" /\ j.tracks[i].codec # "vp08"
       /\ j.tracks[i].samples # << >>
       /\ \A k \in DOMAIN j.tracks : j.tracks[k].kind = "video" => k = i

VideoTrack == job.tracks[CHOOSE i \in OfKind("video") : TRUE]

VideoRequest(t) ==
  [Plain("capped", OnTrackTimeline(SamplesNow(t)), FlatTarget(t.timescale))
     EXCEPT !.split_terminal = TRUE]

(* driving_chunk_sample_counts: a last chunk of one sample does not drive. *)
Driving(c) == IF Len(c) > 1 /\ Last(c) = 1 THEN Front(c) ELSE c

DrivingDurations ==
  LET s == SamplesNow(VideoTrack)
      c == driving_counts
  IN  [ i \in DOMAIN c |->
          [ k \in 1..c[i] |-> s[CountBefore(c, i - 1) + k].duration ] ]

(* imported_track_uses_speex_family, and sample_entry_carries_oti 0xDD.    *)
IsPaced == track.codec \in {"speex", "vorbis"}

(* build_imported_flat_audio_chunk_sample_counts, unless there is video to *)
(* follow.                                                                 *)
FlatAudioRequest ==
  LET plain == Plain(IF IsPaced THEN "previous_sample" ELSE "capped",
                     OnTrackTimeline(samples), FlatTarget(track.timescale))
      asked == [plain EXCEPT !.rebalance = Cardinality(OfKind("audio")) > 1,
                             !.split_terminal = track.terminal]
  IN  IF driving_counts # None /\ track.carried
        THEN [asked EXCEPT !.rule = "authority", !.driving = DrivingDurations,
                !.target = FlatTarget(job.movie_timescale),
                !.timescales = [ audio |-> track.timescale, video |-> VideoTrack.timescale,
                                 movie |-> job.movie_timescale ]]
        ELSE asked

OneSource == \A i \in DOMAIN samples : samples[i].source_index = samples[1].source_index

FlatVideoRequest ==
  LET rule == IF track.codec = "vp08" /\ OneSource /\ track.carried
                THEN "vp08" ELSE "capped"
  IN  [Plain(rule, OnTrackTimeline(samples), FlatTarget(track.timescale))
         EXCEPT !.split_terminal = (track.terminal /\ track.codec # "vp08")]
-----------------------------------------------------------------------------
(* Some tracks of a flat file keep the chunks of their source: no loop cuts*)
(* them, and their counts go to the planner as they are.                   *)

(* expand_preserved_flat_chunk_sample_counts_from_stsc: n samples dealt    *)
(* into chunks of the listed lengths.                                      *)
Dealt(lengths, n) ==
  LET upto(k) == SumTo([m \in 1..n |-> lengths[IF m < Len(lengths) THEN m ELSE Len(lengths)]], k)
  IN  [ k \in 1..Cardinality({ m \in 1..n : upto(m - 1) < n }) |->
          Cardinality({ i \in 1..n : upto(k - 1) < i /\ i <= upto(k) }) ]

(* synthesized_imported_speex_flat_chunk_sample_counts: the samples of one *)
(* tick in front of a last sample of none, and what lies in front of the   *)
(* sample in front of those.                                               *)
TrailingOnes ==
  Cardinality({ i \in 1..Len(samples) - 1 :
                  \A k \in i..Len(samples) - 1 : samples[k].duration = 1 })

BaseSamples == 1..Len(samples) - TrailingOnes - 2

BaseDurations == { samples[i].duration : i \in BaseSamples } \ {0, 1}

HasSpeexTail ==
  /\ track.codec = "speex" /\ Len(samples) >= 3
  /\ Last(samples).duration = 0 /\ TrailingOnes > 0
  /\ BaseDurations # {}
  /\ samples[Len(samples) - TrailingOnes - 1].duration > 1

SpeexCounts ==
  LET each == Max({1, FlatTarget(track.timescale) \div Min(BaseDurations)})
  IN  Dealt(<< each >>, Cardinality(BaseSamples)) \o << 1, 1, TrailingOnes >>

CoversTrack(c) == CountBefore(c, Len(c)) = Len(samples)

(* preserved_imported_flat_audio_chunk_sample_counts: counts that do not   *)
(* fit are passed over.  (For two well-known Vorbis files it replaces the  *)
(* counts by others with the same total.)                                  *)
PreservedAudioCounts ==
  CASE HasSpeexTail -> SpeexCounts
    [] ~HasSpeexTail /\ track.source_counts # None /\ CoversTrack(track.source_counts) ->
         track.source_counts
    [] OTHER -> IF track.carried /\ track.stsc # None
                  THEN Dealt(track.stsc, Len(samples)) ELSE None

KeepsEntries == track.carried /\ track.many_entries /\ track.source_counts # None

(* imported_track_should_rechunk_flat_audio is the last conjunct.          *)
KeepsAudio ==
  /\ job.auto_flat /\ track.kind = "audio" /\ samples # << >>
  /\ track.codec # "aifc" /\ OneSource /\ (IsPaced \/ ~track.headed)

KeepsVideo ==
  /\ job.auto_flat /\ track.kind = "video" /\ samples # << >>
  /\ track.codec = "vp08" /\ OneSource

(* None: a loop makes the counts, or nobody does.                          *)
KeptCounts ==
  CASE ~IsFlat -> None
    [] IsFlat /\ (KeepsEntries \/ KeepsVideo) -> track.source_counts
    [] IsFlat /\ KeepsAudio /\ ~KeepsEntries -> PreservedAudioCounts
    [] OTHER -> None

(* Of what is kept, only audio gets its short last sample cut off.         *)
HandedOn(c) ==
  IF track.kind = "audio" /\ track.terminal /\ ~KeepsEntries
    THEN TerminalSplit(c, samples) ELSE c

(* A track that keeps no chunks and that no loop cuts has the planner's    *)
(* default, a chunk for a sample.  The code spells that out for audio under*)
(* FlatChunkingMode::OneSamplePerChunk and for mp4s text.                  *)
IsCut ==
  /\ samples # << >> /\ KeptCounts = None
  /\ IsFlat => job.auto_flat /\ track.kind # "text" /\ track.codec # "aifc"

RequestOf ==
  IF ~ IsFlat THEN DurationRequest
  ELSE IF track.kind = "audio" THEN FlatAudioRequest ELSE FlatVideoRequest
-----------------------------------------------------------------------------
(* The samples of the track on the movie's timeline.  Each duration is     *)
(* scaled by itself, and the decode time is the sum of the scaled ones.    *)
TimeSteps ==
  LET s == samples
      offset == IF IsFlat THEN 0 ELSE Scaled(track.decode_offset)
  IN  [ i \in DOMAIN s |->
          Scaled(s[i].gap) + IF i = 1 THEN offset ELSE Scaled(s[i - 1].duration) ]

DecodeTimes == [ i \in DOMAIN samples |-> SumTo(TimeSteps, i) ]

Staged ==
  [ i \in DOMAIN samples |->
      [ source_index |-> samples[i].source_index, track_id |-> track.track_id,
        decode_time |-> DecodeTimes[i], duration |-> Scaled(samples[i].duration),
        data_offset |-> samples[i].data_offset, data_size |-> samples[i].data_size ] ]

Init ==
  /\ job \in Jobs
  /\ prepare_stage = "asked"
  /\ tracks_done = 0 /\ driving_counts = None
  /\ reference_groups = [t \in TrackIds |-> None]
  /\ staged_items = << >> /\ given = << >>
  /\ cut = None /\ cut_stage = "idle" /\ taken = 0 /\ counts = << >> /\ current_count = 0
  /\ groups = << >> /\ group_count = 0 /\ clock = 0 /\ boundary = 0 /\ segment = 0
  /\ subsegment = 0 /\ segment_start = 0 /\ chunk_duration = 0 /\ previous_start = 0
  /\ video = [chunk |-> 0, open |-> FALSE, last_start |-> 0, end |-> 0]
  /\ PlanInit

RefuseRequest ==
  /\ prepare_stage' = "refused"
  /\ UNCHANGED << job, tracks_done, driving_counts, reference_groups, staged_items, given,
                  chunkVars, planVars >>

(* finish_prepared_request turns down a second video track in fragments.   *)
RefuseSecondVideo ==
  /\ prepare_stage = "asked" /\ job.way = "import"
  /\ ~ IsFlat /\ Cardinality(OfKind("video")) > 1
  /\ RefuseRequest

BeginTracks ==
  /\ prepare_stage = "asked" /\ job.way = "import"
  /\ IsFlat \/ Cardinality(OfKind("video")) <= 1
  /\ ~ Follows(job)
  /\ prepare_stage' = "tracks"
  /\ UNCHANGED << job, tracks_done, driving_counts, reference_groups, staged_items, given,
                  chunkVars, planVars >>

AlignToVideo ==
  /\ prepare_stage = "asked" /\ job.way = "import" /\ Follows(job)
  /\ Begin(VideoRequest(VideoTrack))
  /\ prepare_stage' = "aligning"
  /\ UNCHANGED << job, tracks_done, driving_counts, reference_groups, staged_items, given,
                  planVars >>

KeepAlignment ==
  /\ prepare_stage = "aligning" /\ cut_stage = "cut"
  /\ driving_counts' = Driving(counts)
  /\ prepare_stage' = "tracks"
  /\ UNCHANGED << job, tracks_done, reference_groups, staged_items, given, chunkVars, planVars >>

HasTrack == prepare_stage = "tracks" /\ tracks_done < Len(job.tracks)

TimesScale == \A time \in TimesOf(samples) : Scales(time)

RefuseTimes == HasTrack /\ ~TimesScale /\ RefuseRequest

(* InvalidChunkPlan: the counts of the source hold more samples than came, *)
(* or fewer.                                                               *)
RefuseKeptCounts ==
  /\ HasTrack /\ KeptCounts # None /\ ~CoversTrack(KeptCounts)
  /\ RefuseRequest

BeginTrack ==
  /\ HasTrack /\ TimesScale
  /\ IsCut /\ Begin(RequestOf)
  /\ prepare_stage' = "cutting"
  /\ UNCHANGED << job, tracks_done, driving_counts, reference_groups, staged_items, given,
                  planVars >>

StageSamples ==
  /\ staged_items' = staged_items \o Staged
  /\ tracks_done' = tracks_done + 1
  /\ prepare_stage' = "tracks"
  /\ UNCHANGED << job, driving_counts, chunkVars, planVars >>

StageUncut ==
  /\ HasTrack /\ TimesScale
  /\ ~ IsCut /\ KeptCounts = None /\ StageSamples
  /\ UNCHANGED << given, reference_groups >>

StageKept ==
  /\ HasTrack /\ TimesScale
  /\ KeptCounts # None /\ CoversTrack(KeptCounts)
  /\ given' = Append(given, [ track_id |-> track.track_id, counts |-> HandedOn(KeptCounts),
                              boundary_kind |-> None ])
  /\ UNCHANGED reference_groups
  /\ StageSamples

StageCut ==
  /\ prepare_stage = "cutting" /\ cut_stage = "cut"
  /\ given' = Append(given, [ track_id |-> track.track_id, counts |-> counts,
                              boundary_kind |-> IF IsFlat THEN None ELSE job.mode ])
  /\ reference_groups' =
       IF cut.rule \in FragmentRules /\ ReferenceTarget > job.target
         THEN [reference_groups EXCEPT ![track.track_id] = groups]
         ELSE reference_groups
  /\ StageSamples

(* Which order the planner interleaves by.                                 *)
InterleavePolicy ==
  IF \/ driving_counts # None
     \/ (IsFlat /\ job.auto_flat /\ Cardinality(OfKind("video")) > 1)
    THEN "chunk_ordinal_then_source" ELSE "decode_time"

HandOver ==
  /\ prepare_stage = "tracks" /\ tracks_done = Len(job.tracks)
  /\ BeginPlan(staged_items, InterleavePolicy, given)
  /\ prepare_stage' = "handed_over"
  /\ UNCHANGED << job, tracks_done, driving_counts, reference_groups, staged_items, given,
                  chunkVars >>

AskPlanner ==
  /\ prepare_stage = "asked" /\ job.way = "planner"
  /\ BeginPlan(job.items, job.policy, job.directives)
  /\ prepare_stage' = "handed_over"
  /\ UNCHANGED << job, tracks_done, driving_counts, reference_groups, staged_items, given,
                  chunkVars >>

Stopped ==
  \/ prepare_stage = "refused"
  \/ cut_stage = "refused"
  \/ plan_stage \in {"planned", "refused"}

Next ==
  \/ RefuseSecondVideo \/ BeginTracks \/ AlignToVideo \/ KeepAlignment
  \/ RefuseTimes \/ RefuseKeptCounts \/ BeginTrack
  \/ StageUncut \/ StageKept \/ StageCut
  \/ HandOver \/ AskPlanner
  \/ CutStep /\ UNCHANGED << prepareVars, planVars >>
  \/ PlanStep /\ UNCHANGED << prepareVars, chunkVars >>
  \/ Stopped /\ UNCHANGED vars

Spec == Init /\ [][Next]_vars /\ WF_vars(Next)
-----------------------------------------------------------------------------
(* Each variable holds a value of the type its field has in the code.      *)
TypeOK ==
  /\ job \in ImportJob \cup PlannerJob /\ tracks_done \in Nat
  /\ prepare_stage \in {"asked", "aligning", "tracks", "cutting", "handed_over", "refused"}
  /\ cut_stage \in {"idle", "sampling", "closing", "cut", "refused"}
  /\ taken \in Nat /\ current_count \in Nat /\ group_count \in Nat
  /\ counts \in Seq(Nat) /\ groups \in Seq(Nat)
  /\ clock \in Int /\ boundary \in Int /\ segment \in Nat /\ subsegment \in Nat
  /\ segment_start \in Int /\ chunk_duration \in Nat /\ previous_start \in Nat
  /\ video \in VideoChunk
  /\ cut # None => cut \in ChunkRequest
  /\ plan_stage \in Stages /\ policy \in Policies
  /\ staged_items \in Seq(StagedItem) /\ given \in Seq(Directive)
  /\ queue_items \in Seq(StagedItem)
  /\ items_by_track \in [TrackIds -> Seq(StagedItem)]
  /\ coordination \in [TrackIds -> Seq(Nat)]
  /\ planned_items \in Seq([staged : StagedItem, output_offset : Nat])
  /\ total_payload_size \in Nat

Total(c) == CountBefore(c, Len(c))

(* At every turn the chunks pushed and the chunk being filled hold exactly *)
(* the samples the loop has consumed, no chunk is empty, and the reference *)
(* groups hold exactly the fragments: the two kinds of count are pushed at *)
(* different places of the loops, and adjusted afterwards.                 *)
CountsCoverTrack ==
  cut_stage \in {"sampling", "closing", "cut"} =>
    /\ Total(counts) + current_count = taken
    /\ \A i \in DOMAIN counts : counts[i] > 0
    /\ cut.rule \in FragmentRules =>
         /\ Total(groups) + group_count = Len(counts)
         /\ \A i \in DOMAIN groups : groups[i] > 0

(* Where the i-th sample of the request starts.                            *)
StartOf(i) == TotalOf([k \in 1..i - 1 |-> cut.samples[k].duration])

ChunkSamples(i) == CountBefore(counts, i - 1) + 1 .. CountBefore(counts, i)

PeriodIn(i) ==
  PeriodOf(StartOf(i) + cut.start_time
             + (IF cut.rule \in SyncRules THEN cut.samples[i].composition ELSE 0),
           cut.segment_target)

(* Which multiple of the target the i-th sample starts in.                 *)
TargetIn(i) == PeriodOf(StartOf(i) + cut.start_time, cut.target)

(* What each rule promises of the chunks it makes: chunks of the sync rules*)
(* start on sync samples; the capped ones hold no more than the target or a*)
(* single sample; a chunk cut by duration stays between two multiples of   *)
(* the target, and the next one is beyond; and samples of two segments     *)
(* never share a fragment where any sample may start one.                  *)
ChunksRespectRule ==
  cut_stage = "closing" =>
    \A i \in DOMAIN counts :
      LET chunk == ChunkSamples(i)
      IN  /\ (cut.rule \in SyncRules /\ i > 1) => cut.samples[Min(chunk)].sync
          /\ (cut.rule = "capped" /\ counts[i] > 1) =>
               StartOf(Max(chunk) + 1) - StartOf(Min(chunk)) <= cut.target
          /\ cut.rule = "duration" =>
               /\ \A k \in chunk : TargetIn(k) = TargetIn(Min(chunk))
               /\ i > 2 => TargetIn(Min(chunk)) > TargetIn(Min(chunk) - 1)
          /\ cut.rule = "fragmented" =>
               \A k, m \in chunk : PeriodIn(k) = PeriodIn(m)

(* A flat file asks of the counts of a source that no chunk is empty, and  *)
(* that they hold the track, unless they are those of a single audio entry.*)
CountsFit(t) ==
  t.source_counts # None =>
    /\ \A i \in DOMAIN t.source_counts : t.source_counts[i] > 0
    /\ \/ Total(t.source_counts) = Len(t.samples)
       \/ t.kind = "audio" /\ ~t.many_entries

Importable ==
  /\ job.way = "import"
  /\ IsFlat \/ Cardinality(OfKind("video")) <= 1
  /\ \A i \in DOMAIN job.tracks :
       job.tracks[i].headed \/ job.tracks[i].timescale = job.movie_timescale
  /\ IsFlat => \A i \in DOMAIN job.tracks : CountsFit(job.tracks[i])

(* The counts made from a track, or kept from its source, always fit the   *)
(* items staged from it: an import whose times can be scaled, and whose    *)
(* sources count their samples rightly where it matters, ends in a plan and*)
(* is never turned down by the planner's validation, nor stuck while its   *)
(* chunks are cut.                                                         *)
ImportFinishes == Importable ~> plan_stage = "planned"

StagedOf(t) == { i \in DOMAIN staged_items : staged_items[i].track_id = t }

(* Which of a set of places the i-th is.                                   *)
NumberIn(places, i) == Cardinality({ k \in places : k <= i })

(* Through two sorts and a cut into chunks, each track keeps its samples,  *)
(* in the order of their decode times; an imported track keeps its own     *)
(* order, unless samples of no duration leave times equal.                 *)
PlanKeepsTracks ==
  plan_stage \in {"graphing", "planned"} =>
    \A t \in TrackIds :
      /\ Cardinality(PlannedOf(t)) = Len(items_by_track[t])
      /\ \A i \in PlannedOf(t) :
           planned_items[i].staged = items_by_track[t][NumberIn(PlannedOf(t), i)]
      /\ \A i, j \in PlannedOf(t) :
           i < j => planned_items[i].staged.decode_time <= planned_items[j].staged.decode_time
      /\ (job.way = "import" /\ \A i \in StagedOf(t) : staged_items[i].duration > 0) =>
           /\ Cardinality(StagedOf(t)) = Len(items_by_track[t])
           /\ \A i \in StagedOf(t) :
                staged_items[i] = items_by_track[t][NumberIn(StagedOf(t), i)]

(* The first of the items the track's j-th chunk holds.                    *)
Opener(t, j) == CountBefore(coordination[t], j - 1) + 1

(* The samples of a chunk lie one behind the other in the payload, whatever*)
(* the chunks of other tracks do, and the planned items tile the payload:  *)
(* the sample tables name a chunk by its first offset and find the rest by *)
(* adding up sizes.                                                        *)
ChunksLieWhole ==
  plan_stage \in {"graphing", "planned"} =>
    /\ \A t \in Tracks : \A j \in DOMAIN coordination[t] :
         \E p \in PlannedOf(t) :
           /\ NumberIn(PlannedOf(t), p) = Opener(t, j)
           /\ p..p + coordination[t][j] - 1 \subseteq PlannedOf(t)
    /\ \A i \in DOMAIN planned_items :
         planned_items[i].output_offset
           = IF i = 1 THEN 0 ELSE output_end_offset(planned_items[i - 1])
    /\ planned_items # << >> => total_payload_size = output_end_offset(Last(planned_items))

Numbered(t, kinds) ==
  { i \in DOMAIN events : events[i].kind \in kinds /\ events[i].track_id = t }

SamplesBefore(t, i) == { k \in SamplesOf(events, t) : k < i }

(* What a reader of the events relies on: the samples are the plan in its  *)
(* order; the boundaries of a track part its samples into its chunks; its  *)
(* drain comes once, behind its last sample; and no track's offsets leave  *)
(* the range its stream description announced.                             *)
EventsFollowPlan ==
  plan_stage = "planned" =>
    /\ Cardinality(SamplesIn(events)) = Len(planned_items)
    /\ \A i \in SamplesIn(events) :
         events[i].planned_item = planned_items[NumberIn(SamplesIn(events), i)]
    /\ \A t \in Tracks :
         LET marks == Numbered(t, BoundaryKinds)
             drains == Numbered(t, {"drain"})
             stream == events[Min(Numbered(t, {"stream"}))]
         IN  /\ boundary_kinds[t] # None =>
                  { Cardinality(SamplesBefore(t, i)) : i \in marks }
                    = { CountBefore(coordination[t], j) : j \in DOMAIN coordination[t] }
             /\ boundary_kinds[t] = None => marks = {}
             /\ Cardinality(drains) = 1
             /\ \A i \in drains : Cardinality(SamplesBefore(t, i)) = stream.item_count
             /\ \A i \in Numbered(t, BoundaryKinds \cup {"drain"}) :
                  /\ events[i].output_offset >= stream.first_output_offset
                  /\ events[i].output_offset <= stream.end_output_offset
                  /\ events[i].decode_time <= stream.end_decode_time
    /\ Last(events).kind = "end"
    /\ \A i \in DOMAIN events :
         events[i].kind = "drain" => events[i].decode_time <= Last(events).decode_time
=============================================================================
