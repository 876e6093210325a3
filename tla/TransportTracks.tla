-------------------------- MODULE TransportTracks ---------------------------
(***************************************************************************)
(* The tracks of a transport stream while they are collected and once they *)
(* are finished: TransportTrackBuilder and the functions of                *)
(* src/src/mux/demux/ts.rs that turn frames and timestamp anchors into     *)
(* samples, with the segmented source of demux/container_common.rs they    *)
(* are read through.                                                       *)
(*                                                                         *)
(* A frame is a stretch of the track's bytes with a duration.  What a codec*)
(* makes of the bytes is left out: frames have FrameSize bytes each, and   *)
(* only a track that holds whole frames can be scanned.                    *)
(***************************************************************************)
EXTENDS ProgramClock, SequencesExt

CONSTANTS
  FrameSize,          \* bytes of a frame
  FrameTime,          \* how long a frame of a kind of track lasts, at 27 MHz
  PtsModulus,         \* what differences of timestamps wrap at: 2^32
  JitterTolerance,    \* TRANSPORT_AC3_ANCHOR_JITTER_TOLERANCE_90K
  InterleaveTarget    \* TRANSPORT_FLAT_AUDIO_INTERLEAVE_TARGET_90K

(* One kind stands for all that are timed alike: "audio" for MPEG audio,   *)
(* AAC, LATM, MHAS, TrueHD and E-AC-3, "text" for DVB subtitles and        *)
(* teletext.  Other video, and AC-4 and DTS, which keep the durations      *)
(* their frames state, have no kind here.                                  *)
Kinds == { "audio", "ac3", "av1", "text" }

(* n frames in ticks, rounded down.                                        *)
SpanTicks(kind, n) == (n * FrameTime[kind]) \div PcrPerTick

transport_track_uses_full_au(kind) == kind \in { "av1", "text" }

transport_track_uses_program_clock_translation(kind) == kind \in { "audio", "ac3" }

new_transport_track_builder(kind) ==
  [kind |-> kind, segments |-> << >>, total_size |-> 0,
   sample_offsets |-> << >>, pts_anchors |-> << >>]
-----------------------------------------------------------------------------
segment_logical_end(segment) == segment.logical_offset + segment.size

Touches(segment, logical_size, source_offset) ==
  /\ segment_logical_end(segment) = logical_size
  /\ segment.source_offset + segment.size = source_offset

(* append_file_range_segment: a range that goes on where the last one ended*)
(* in the file makes it longer.                                            *)
append_file_range_segment(builder, source_offset, size) ==
  LET segments == builder.segments
      total == builder.total_size
  IN IF size = 0 THEN builder
     ELSE [builder EXCEPT
       !.total_size = total + size,
       !.segments =
         IF segments # << >> /\ Touches(Last(segments), total, source_offset)
           THEN [segments EXCEPT ![Len(segments)].size = @ + size]
           ELSE Append(segments, [logical_offset |-> total,
                                  source_offset |-> source_offset, size |-> size])]

(* read_segmented_bytes_sync: the segments in order, each asked for what it*)
(* holds of the bytes still wanted, as offsets in the file.                *)
ReadSegment(read, segment) ==
  LET skipped == read.at - segment.logical_offset
      count == LET rest == segment.size - skipped
               IN IF rest < read.wanted THEN rest ELSE read.wanted
  IN IF read.wanted = 0 \/ segment_logical_end(segment) <= read.at \/ skipped < 0
       THEN read
       ELSE [at |-> read.at + count, wanted |-> read.wanted - count,
             bytes |-> read.bytes \o [i \in 1..count |-> segment.source_offset + skipped + i - 1]]

read_segmented_bytes(builder, offset, size) ==
  FoldLeft(ReadSegment, [at |-> offset, wanted |-> size, bytes |-> << >>], builder.segments).bytes
-----------------------------------------------------------------------------
(* What a scan of whole frames stages.                                     *)
FrameCount(builder) == builder.total_size \div FrameSize

StagedFrames(builder) ==
  [i \in 1..FrameCount(builder) |->
     [data_offset |-> (i - 1) * FrameSize, data_size |-> FrameSize,
      duration |-> SpanTicks(builder.kind, 1)]]

Tracks(samples) == [samples |-> samples, error |-> "None", chunks |-> << >>]

Refused(error) == [samples |-> << >>, error |-> error, chunks |-> << >>]

Timed(frames, durations) == [i \in DOMAIN frames |-> [frames[i] EXCEPT !.duration = durations[i]]]

(* anchors_by_offset: two timestamps at one place contradict each other.   *)
Conflict(anchors) ==
  \E a, b \in ToSet(anchors) : a.sample_offset = b.sample_offset /\ a.pts_90k # b.pts_90k

(* The frame an anchor is about: the first that begins at it or later, or  *)
(* the last of all.                                                        *)
AnchoredFrame(frames, anchor) ==
  LET before == Cardinality({ i \in DOMAIN frames : frames[i].data_offset < anchor.sample_offset })
  IN IF before < Len(frames) THEN before + 1 ELSE Len(frames)

(* Of the anchors about one frame the first in the track counts, which is  *)
(* the first that was left.                                                *)
AnchoredPts(frames, anchors) ==
  LET about(i) == { k \in DOMAIN anchors : AnchoredFrame(frames, anchors[k]) = i }
  IN [ i \in { AnchoredFrame(frames, a) : a \in ToSet(anchors) } |->
         anchors[Min(about(i))].pts_90k ]

BeginsAnchored(frames, anchors) ==
  /\ frames # << >>
  /\ \E a \in ToSet(anchors) : a.sample_offset = frames[1].data_offset

(* The windows between anchored frames, by the frame they end before.      *)
AnchoredBefore(pts, end) == { i \in DOMAIN pts : i < end }

Windows(pts) == { end \in DOMAIN pts : AnchoredBefore(pts, end) # {} }

WindowStart(pts, end) == Max(AnchoredBefore(pts, end))

(* wrapped_transport_audio_anchor_delta.                                   *)
AnchoredSpan(pts, end) == (pts[end] - pts[WindowStart(pts, end)]) % PtsModulus

Prefix(pts, end, ticks) == (end - 1 - WindowStart(pts, end)) * ticks

(* build_transport_timestamped_audio_samples: the last frame before an     *)
(* anchored one lasts up to the anchor.                                    *)
TimestampedAudio(frames, anchors, ticks) ==
  LET pts == AnchoredPts(frames, anchors)
      duration(i) == IF i + 1 \in Windows(pts)
                       THEN AnchoredSpan(pts, i + 1) - Prefix(pts, i + 1, ticks)
                       ELSE ticks
  IN IF anchors # << >> /\ Conflict(anchors) THEN Refused("Conflict")
     ELSE IF ~ BeginsAnchored(frames, anchors) THEN Tracks(frames)
     ELSE IF \E end \in Windows(pts) : AnchoredSpan(pts, end) < Prefix(pts, end, ticks)
       THEN Refused("Cadence")
     ELSE Tracks(Timed(frames, [i \in DOMAIN frames |-> duration(i)]))
-----------------------------------------------------------------------------
(* AC-3 keeps its cadence through windows that differ little from it; what *)
(* they differed by is made up for at the next window that differs more.   *)
Deviation(pts, end) ==
  AnchoredSpan(pts, end) - SpanTicks("ac3", end - WindowStart(pts, end))

IsDeferred(pts, end) == Magnitude(Deviation(pts, end)) <= JitterTolerance

DeferredBefore(pts, end) ==
  { w \in Windows(pts) :
      w < end /\ \A v \in Windows(pts) : w <= v /\ v < end => IsDeferred(pts, v) }

Residual(pts, end) ==
  AnchoredSpan(pts, end) - Prefix(pts, end, SpanTicks("ac3", 1))
    + MapThenSumSet(LAMBDA w : Deviation(pts, w), DeferredBefore(pts, end))

(* build_transport_ac3_flat_chunk_sample_counts: chunks of about half a    *)
(* second; a sample longer than that ends the chunk it comes in, and the   *)
(* one after it is a chunk of its own.                                     *)
CountSample(state, duration) ==
  LET closed == Append(state.counts, state.count)
      over == state.count # 0 /\ state.duration + duration > InterleaveTarget
  IN CASE state.alone ->
            [counts |-> Append(state.counts, 1), count |-> 0, duration |-> 0, alone |-> FALSE]
       [] ~ state.alone /\ over /\ duration > InterleaveTarget ->
            [counts |-> Append(state.counts, state.count + 1),
             count |-> 0, duration |-> 0, alone |-> TRUE]
       [] ~ state.alone /\ over /\ duration <= InterleaveTarget ->
            [counts |-> closed, count |-> 1, duration |-> duration, alone |-> FALSE]
       [] OTHER ->
            [state EXCEPT !.count = @ + 1, !.duration = @ + duration]

FlatChunkCounts(samples) ==
  LET begun == [counts |-> << >>, count |-> 0, duration |-> 0, alone |-> FALSE]
      ended == FoldLeft(CountSample, begun, [i \in DOMAIN samples |-> samples[i].duration])
  IN IF ended.count = 0 THEN ended.counts ELSE Append(ended.counts, ended.count)

(* build_transport_ac3_packet_anchored_samples.                            *)
AnchoredAc3(frames, anchors) ==
  LET pts == AnchoredPts(frames, anchors)
      adjusted == { end \in Windows(pts) : ~ IsDeferred(pts, end) }
      ticks == SpanTicks("ac3", 1)
      durations == [i \in DOMAIN frames |->
                      IF i + 1 \in adjusted THEN Residual(pts, i + 1) ELSE ticks]
      samples == Timed(frames, durations)
  IN IF anchors # << >> /\ Conflict(anchors) THEN Refused("Conflict")
     ELSE IF ~ BeginsAnchored(frames, anchors) THEN Tracks(frames)
     ELSE IF \E end \in adjusted : \/ AnchoredSpan(pts, end) < Prefix(pts, end, ticks)
                                   \/ Residual(pts, end) <= 0
       THEN Refused("Cadence")
     ELSE [samples |-> samples, error |-> "None", chunks |-> FlatChunkCounts(samples)]
-----------------------------------------------------------------------------
(* Tracks whose samples are the payloads of their PES packets: each begins *)
(* where a packet did and ends where the next one begins.                  *)
UnitEnd(builder, i) ==
  IF i < Len(builder.sample_offsets) THEN builder.sample_offsets[i + 1] ELSE builder.total_size

UnitSample(builder, i, duration) ==
  [data_offset |-> builder.sample_offsets[i],
   data_size |-> UnitEnd(builder, i) - builder.sample_offsets[i], duration |-> duration]

Units(builder) == DOMAIN builder.sample_offsets

HasEmptyUnit(builder) ==
  \E i \in Units(builder) : UnitEnd(builder, i) <= builder.sample_offsets[i]

(* build_transport_full_au_samples; a second each, whatever the stamps say.*)
FullAccessUnits(builder) ==
  IF HasEmptyUnit(builder) THEN Refused("EmptyUnit")
  ELSE Tracks([i \in Units(builder) |-> UnitSample(builder, i, 1)])

(* build_transport_av1_samples, after a scan that refuses empty units and a*)
(* track without one.  The scan also rewrites the bytes of each unit, which*)
(* stay those of the unit here.                                            *)
Av1Units(builder) ==
  LET anchors == builder.pts_anchors
      duration(i) == IF i < Len(anchors) THEN anchors[i + 1].pts_90k - anchors[i].pts_90k ELSE 0
  IN IF HasEmptyUnit(builder) \/ Units(builder) = {} THEN Refused("EmptyUnit")
     ELSE IF anchors # << >> /\ Len(anchors) # Len(builder.sample_offsets)
       THEN Refused("Anchors")
     ELSE IF \E i \in 2..Len(anchors) : anchors[i].pts_90k <= anchors[i - 1].pts_90k
       THEN Refused("NotMonotonic")
     ELSE Tracks([i \in Units(builder) |-> UnitSample(builder, i, duration(i))])

(* A text track without a packet is left out.                              *)
IsSkipped(builder) == builder.kind = "text" /\ builder.sample_offsets = << >>

(* The branches of finalize_transport_tracks_sync.                         *)
Finalized(builder) ==
  IF builder.kind \in { "audio", "ac3" } /\ builder.total_size % FrameSize # 0
    THEN Refused("Truncated")
  ELSE IF builder.total_size = 0 THEN Refused("Empty")
  ELSE CASE builder.kind = "audio" ->
              TimestampedAudio(StagedFrames(builder), builder.pts_anchors, SpanTicks("audio", 1))
         [] builder.kind = "ac3" -> AnchoredAc3(StagedFrames(builder), builder.pts_anchors)
         [] builder.kind = "av1" -> Av1Units(builder)
         [] builder.kind = "text" -> FullAccessUnits(builder)
=============================================================================
