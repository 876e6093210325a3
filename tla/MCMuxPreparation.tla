-------------------------- MODULE MCMuxPreparation --------------------------
(***************************************************************************)
(* MuxPreparation on one to three tracks of up to five samples.  The jobs  *)
(* come in families, each of which exhausts what one set of loops depends  *)
(* on; see README.md.                                                      *)
(***************************************************************************)
EXTENDS MuxPreparation

Sample(duration, composition, sync, gap, place) ==
  [ duration |-> duration, composition |-> composition, sync |-> sync, gap |-> gap,
    source_index |-> 0, data_offset |-> place, data_size |-> 1 ]

ATrack(id, kind, samples_) ==
  [ track_id |-> id, kind |-> kind, timescale |-> 1, headed |-> FALSE, decode_offset |-> 0,
    edit |-> 0, carried |-> FALSE, codec |-> "plain", terminal |-> TRUE,
    source_counts |-> None, stsc |-> None, many_entries |-> FALSE, samples |-> samples_ ]

AJob(mode, target, tracks) ==
  [ way |-> "import", mode |-> mode, target |-> target, movie_timescale |-> 1,
    auto_flat |-> TRUE, preserve |-> FALSE, tracks |-> tracks ]

(* Samples at successive places of the source.                             *)
InPlace(durations, syncs) ==
  [ i \in DOMAIN durations |-> Sample(durations[i], 0, syncs[i], 0, i) ]

AllSync(durations) == InPlace(durations, [i \in DOMAIN durations |-> TRUE])

(* One track whose samples last anything from nothing to beyond a segment, *)
(* start anywhere on the timeline, and may start a segment or not.         *)
CutJobs ==
  { AJob(mode, target,
         << [ATrack(1, kind, InPlace(d, y)) EXCEPT !.decode_offset = start, !.edit = 1] >>) :
      mode \in {"segment", "fragment"}, kind \in {"video", "audio"}, target \in {2, 7},
      start \in {0, 3}, d \in [1..4 -> {1, 4}] \cup { << 0, 4, 0, 1 >>, << 4, 0, 0, 0 >> },
      y \in { [i \in 1..4 |-> i \in k] : k \in {{1}, {1, 3}, {2, 4}, {1, 2, 3, 4}} } }

(* Presentation out of decode order, before and after zero.                *)
ReorderedJobs ==
  { AJob(mode, 2,
         << [ATrack(1, "video",
               [i \in 1..4 |-> Sample(2, c[i], i # 2, 0, i)]) EXCEPT !.edit = edit] >>) :
      mode \in {"segment", "fragment"}, c \in [1..4 -> {0 - 3, 0, 5}], edit \in {0, 3} }

FlatJob(tracks) == [AJob("flat", 1, tracks) EXCEPT !.movie_timescale = 4]

(* A flat file with an audio and a video track, by every rule for either.  *)
FlatJobs ==
  { [FlatJob(<< [ATrack(2, "audio", AllSync(d)) EXCEPT
                   !.timescale = 4, !.codec = codecs[1], !.terminal = terminal],
                [ATrack(1, "video", InPlace(<< 1, 2, 1 >>, y)) EXCEPT
                   !.timescale = 4, !.codec = codecs[2], !.carried = carried,
                   !.headed = carried] >>)
       EXCEPT !.auto_flat = auto] :
      auto \in BOOLEAN, terminal \in BOOLEAN, carried \in BOOLEAN,
      d \in [1..3 -> {1, 3}] \cup { << 0, 1, 0 >> },
      codecs \in {"plain", "vorbis"} \X {"plain", "vp08"},
      y \in { << TRUE, FALSE, TRUE >>, << TRUE, FALSE, FALSE >> } }

(* Audio that follows the chunks of the video it was imported with; the two*)
(* have timescales of their own.                                           *)
FollowingJobs ==
  { [FlatJob(<< [ATrack(1, "video", AllSync(v)) EXCEPT !.timescale = 2],
                [ATrack(2, "audio", AllSync(d)) EXCEPT !.timescale = 4, !.carried = carried,
                                                  !.headed = carried] >>)
       EXCEPT !.preserve = TRUE, !.tracks[1].headed = TRUE] :
      carried \in BOOLEAN, v \in { << 1, 2, 1 >>, << 2, 1, 1 >>, << 1, 1, 1 >>, << 2, 2, 2 >> },
      d \in [1..4 -> {1, 3}] \cup { << 0, 0, 3, 1 >> } }

(* Two audio tracks, the chunks of the first small enough to be balanced,  *)
(* beside a text track; and two video tracks.                              *)
CompanionJobs ==
  { [FlatJob(<< [ATrack(1, "audio", AllSync([i \in 1..n |-> 1])) EXCEPT !.timescale = 8],
                ATrack(2, kind, AllSync(<< 1, 1 >>)), ATrack(3, "text", text) >>)
       EXCEPT !.movie_timescale = 8] :
      n \in 8..11, kind \in {"audio", "video"}, text \in { << >>, AllSync(<< 2 >>) } }
  \cup
  { AJob(mode, 2, << ATrack(1, "video", AllSync(<< 1, 3 >>)),
                     ATrack(2, "video", AllSync(<< 2, 1 >>)) >>) :
      mode \in {"flat", "fragment"} }

(* Gaps in the source's timeline, and times that do not divide.            *)
ScaledJobs ==
  { AJob(mode, 2,
         << [ATrack(1, "video",
               [i \in 1..3 |-> Sample(d[i], 0 - 1, TRUE, IF i = 2 THEN gap ELSE 0, 4 - i)])
               EXCEPT !.timescale = scale, !.headed = headed] >>) :
      mode \in {"flat", "segment"}, d \in [1..3 -> {0, 1, 2}], gap \in {0, 2},
      scale \in {1, 2}, headed \in BOOLEAN }

(* Chunks kept from the source: counts that fit, that do not, that hold an *)
(* empty chunk or are missing, for tracks of one source or of two.  Audio  *)
(* also has an stsc of its own, or ends like Speex.                        *)
SourceCounts == {None, << 1, 2 >>, << 3 >>, << 2, 2 >>, << 1, 1 >>, << 0, 3 >>}

FromTwo(track_) == [track_ EXCEPT !.samples[2].source_index = 1]

KeptVideoJobs ==
  { [FlatJob(<< source >>) EXCEPT !.auto_flat = auto] :
      auto \in BOOLEAN,
      source \in UNION { {t, FromTwo(t)} :
        t \in { [ATrack(1, entry[1], InPlace(<< 2, 2, 1 >>, << TRUE, FALSE, TRUE >>)) EXCEPT
                  !.timescale = 4, !.codec = entry[2], !.source_counts = counts_,
                  !.carried = carried, !.headed = carried, !.many_entries = many] :
                entry \in { << "video", "plain" >>, << "video", "vp08" >>,
                            << "text", "plain" >> },
                counts_ \in SourceCounts, carried \in BOOLEAN, many \in BOOLEAN } } }

KeptAudio(d) ==
  { [ATrack(1, "audio", AllSync(d)) EXCEPT
      !.timescale = 8, !.codec = codec, !.source_counts = counts_, !.stsc = stsc,
      !.carried = kept[1], !.headed = kept[2], !.many_entries = kept[3]] :
      codec \in {"plain", "speex", "aifc"}, counts_ \in SourceCounts,
      stsc \in {None, << 1, 2 >>},
      kept \in { << FALSE, FALSE, FALSE >>, << FALSE, TRUE, FALSE >>,
                 << TRUE, TRUE, FALSE >>, << TRUE, TRUE, TRUE >> } }

KeptAudioJobs ==
  { [FlatJob(<< source >>) EXCEPT !.movie_timescale = 8] :
      source \in UNION { KeptAudio(d) : d \in { << 2, 2, 1 >>, << 1, 0, 1, 3, 1, 1, 0 >>,
                                                << 2, 1, 2, 3, 1, 0 >> } }
                \cup { FromTwo(t) : t \in KeptAudio(<< 2, 2, 1 >>) } }

Item(id, time, source, place, size) ==
  [ source_index |-> source, track_id |-> id, decode_time |-> time, duration |-> 1,
    data_offset |-> place, data_size |-> size ]

(* Staged items and counts a caller makes up, those the planner must turn  *)
(* down among them.                                                        *)
PlannerJobs ==
  { [ way |-> "planner", policy |-> by,
      items |-> [ i \in 1..4 |-> Item(IF i <= 2 THEN 1 ELSE 2, t[i], s[i], (3 * i) % 4, z[i]) ],
      directives |-> g ] :
      by \in Policies, t \in [1..4 -> {0, 2}], s \in { << 0, 0, 0, 0 >>, << 1, 0, 1, 0 >> },
      z \in { << 1, 0, 2, 1 >> },
      g \in { << >>,
              << [track_id |-> 2, counts |-> << 2 >>, boundary_kind |-> "segment"] >>,
              << [track_id |-> 1, counts |-> << 2 >>, boundary_kind |-> "fragment"],
                 [track_id |-> 1, counts |-> << 1, 1 >>, boundary_kind |-> "segment"] >>,
              << [track_id |-> 1, counts |-> << 2, 1 >>, boundary_kind |-> None] >>,
              << [track_id |-> 1, counts |-> << 0, 2 >>, boundary_kind |-> None] >>,
              << [track_id |-> 3, counts |-> << 1 >>, boundary_kind |-> None] >> } }

MCJobs ==
  CutJobs \cup ReorderedJobs \cup FlatJobs \cup FollowingJobs \cup CompanionJobs
  \cup ScaledJobs \cup KeptVideoJobs \cup KeptAudioJobs \cup PlannerJobs
=============================================================================
