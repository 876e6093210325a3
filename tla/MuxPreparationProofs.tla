------------------------ MODULE MuxPreparationProofs ------------------------
(***************************************************************************)
(* What the importer and the planner promise of every import and of every  *)
(* request to the planner. First the counting: what the loops of           *)
(* ChunkCounts count holds the samples taken and obeys the rule of its     *)
(* loop. Then the planning: from the queue to the tracks' items, from      *)
(* these to chunks and from the chunks to the layout, no item is lost,     *)
(* swapped with one of its track or torn from its chunk.                   *)
(***************************************************************************)
EXTENDS MuxPreparation, FiniteSetTheorems, SequenceTheorems, SharedProofs

(* Pushing a chunk adds its samples to the total, and leaves what stood in *)
(* front of every earlier chunk.                                           *)
LEMMA TotalOfAppend ==
  ASSUME NEW c \in Seq(Nat), NEW n \in Nat
  PROVE  /\ Append(c, n) \in Seq(Nat) /\ Len(Append(c, n)) = Len(c) + 1
         /\ Append(c, n)[Len(c) + 1] = n
         /\ \A i \in 1..Len(c) : Append(c, n)[i] = c[i]
         /\ \A i \in 0..Len(c) : CountBefore(Append(c, n), i) = CountBefore(c, i)
         /\ Total(Append(c, n)) = Total(c) + n
<1> DEFINE d == Append(c, n)
<1>1. /\ d \in Seq(Nat) /\ Len(d) = Len(c) + 1 /\ Len(c) \in Nat
      /\ d[Len(c) + 1] = n /\ \A i \in 1..Len(c) : d[i] = c[i]
  OBVIOUS
<1>2. \A j \in 1..Len(c) : c[j] \in Int /\ d[j] = c[j]
  BY <1>1
<1>3. \A j \in 1..(Len(c) + 1) : d[j] \in Int
  BY <1>1
<1> HIDE DEF d
<1>4. ASSUME NEW i \in 0..Len(c) PROVE SumTo(d, i) = SumTo(c, i)
  <2>1. i \in Nat /\ \A j \in 1..i : c[j] \in Int /\ d[j] = c[j]
    BY <1>1, <1>2
  <2> QED BY <2>1, SumToSame
<1>5. Len(c) + 1 \in Nat /\ Len(c) + 1 > 0 /\ Len(c) + 1 - 1 = Len(c)
  BY <1>1
<1>6. SumTo(d, Len(c) + 1) = SumTo(d, Len(c)) + d[Len(c) + 1]
  BY <1>3, <1>5, SumToIs
<1>7. SumTo(d, Len(c)) = SumTo(c, Len(c))
  BY <1>4, <1>1
<1> QED BY <1>1, <1>4, <1>6, <1>7 DEF d, Total, CountBefore

(* What stands in front of a chunk is a natural number, and the chunk's    *)
(* samples follow it.                                                      *)
LEMMA TotalIs ==
  ASSUME NEW c \in Seq(Nat)
  PROVE  /\ \A i \in 0..Len(c) : CountBefore(c, i) \in 0..Total(c)
         /\ CountBefore(c, 0) = 0 /\ Total(c) \in Nat
         /\ \A i \in 1..Len(c) : CountBefore(c, i) = CountBefore(c, i - 1) + c[i]
         /\ Total(<< >>) = 0
<1>1. Len(c) \in Nat /\ \A j \in 1..Len(c) : c[j] \in Nat /\ c[j] \in Int
  OBVIOUS
<1>2. \A m \in 0..Len(c) : SumTo(c, m) \in 0..SumTo(c, Len(c))
  BY <1>1, SumToNat
<1>3. SumTo(c, Len(c)) \in Int /\ SumTo(c, 0) = 0
  BY <1>1, SumToIs
<1>4. ASSUME NEW i \in 1..Len(c) PROVE SumTo(c, i) = SumTo(c, i - 1) + c[i]
  <2>1. i \in Nat /\ i > 0 /\ \A j \in 1..i : c[j] \in Int
    BY <1>1
  <2> QED BY <2>1, SumToIs
<1>5. Len(<< >>) = 0
  OBVIOUS
<1>6. 0 \in Nat /\ \A j \in 1..0 : (<< >>)[j] \in Int
  OBVIOUS
<1>7. SumTo(<< >>, 0) = 0
  BY <1>6, SumToIs
<1>8. SumTo(c, Len(c)) \in Nat
  <2>1. Len(c) \in 0..Len(c)
    BY <1>1
  <2> QED BY <2>1, <1>2, <1>3
<1> QED BY <1>2, <1>3, <1>4, <1>5, <1>7, <1>8 DEF Total, CountBefore

(* A chunk of the length first and n chunks of one sample.                 *)
FirstThenOnes(c, first, n) == c = << first >> \o [i \in 1..n |-> 1]

(* What such chunks hold.                                                  *)
LEMMA TotalOfOnes ==
  ASSUME NEW first \in Nat, NEW n \in Nat, NEW c, FirstThenOnes(c, first, n)
  PROVE  /\ c \in Seq(Nat) /\ Len(c) = n + 1 /\ c[1] = first
         /\ \A i \in 2..(n + 1) : c[i] = 1
         /\ Total(c) = first + n
<1> DEFINE ones == [i \in 1..n |-> 1]
<1>1. ones \in Seq(Nat) /\ Len(ones) = n /\ << first >> \in Seq(Nat) /\ Len(<< first >>) = 1
  OBVIOUS
<1>2. /\ c \in Seq(Nat) /\ Len(c) = n + 1 /\ c[1] = first
      /\ \A i \in 2..(n + 1) : c[i] = 1
  <2>1. \A i \in 1..n : ones[i] = 1
    OBVIOUS
  <2>2. (<< first >>)[1] = first
    OBVIOUS
  <2>4. c = << first >> \o ones
    BY DEF FirstThenOnes
  <2> HIDE DEF ones
  <2>3. /\ << first >> \o ones \in Seq(Nat)
        /\ Len(<< first >> \o ones) = Len(<< first >>) + Len(ones)
        /\ \A i \in 1 .. Len(<< first >>) + Len(ones) : (<< first >> \o ones)[i] =
             IF i <= Len(<< first >>) THEN (<< first >>)[i] ELSE ones[i - Len(<< first >>)]
    BY <1>1, ConcatProperties
  <2> QED BY <1>1, <2>1, <2>2, <2>3, <2>4
<1> DEFINE T == {m \in 0..(n + 1) : SumTo(c, m) = IF m = 0 THEN 0 ELSE first + m - 1}
<1>3. ASSUME NEW m \in 1..(n + 1) PROVE SumTo(c, m) = SumTo(c, m - 1) + c[m]
  <2>1. m \in Nat /\ m > 0 /\ \A j \in 1..m : c[j] \in Int
    BY <1>2
  <2> QED BY <2>1, SumToIs
<1>4. SumTo(c, 0) = 0
  <2>1. 0 \in Nat /\ \A j \in 1..0 : c[j] \in Int
    OBVIOUS
  <2> QED BY <2>1, SumToIs
<1>5. 0 \in T /\ n + 1 \in Nat
  BY <1>4
<1>6. ASSUME NEW m \in 1..(n + 1), m - 1 \in T PROVE m \in T
  <2>1. SumTo(c, m) = SumTo(c, m - 1) + c[m]
    BY <1>3
  <2>2. CASE m = 1
    BY <2>1, <2>2, <1>2, <1>4
  <2>3. CASE m # 1
    <3>1. m \in 2..(n + 1) /\ m - 1 # 0
      BY <2>3
    <3>2. c[m] = 1 /\ SumTo(c, m - 1) = first + (m - 1) - 1
      BY <3>1, <1>2, <1>6
    <3> QED BY <3>1, <3>2, <2>1
  <2> QED BY <2>2, <2>3
<1>7. 0..(n + 1) \subseteq T
  <2> HIDE DEF T
  <2> QED BY <1>5, <1>6, BoundedInduction
<1>8. SumTo(c, n + 1) = first + n
  <2>1. n + 1 \in 0..(n + 1) /\ n + 1 # 0 /\ first + (n + 1) - 1 = first + n
    OBVIOUS
  <2>2. n + 1 \in T
    BY <2>1, <1>7
  <2> QED BY <2>1, <2>2
<1> QED BY <1>2, <1>8 DEF Total, CountBefore

(* The least of some natural numbers.                                      *)
LEMMA MinIs ==
  ASSUME NEW S, S \subseteq Nat, S # {}
  PROVE  Min(S) \in S /\ \A y \in S : Min(S) <= y
<1>1. \E x \in S : \A y \in S : x <= y
  BY LeastExists
<1> QED BY <1>1 DEF Min
-----------------------------------------------------------------------------
(* What the loops need of a request: its samples have durations, and what  *)
(* the importer does to the counts of a flat track it never does to those  *)
(* of fragments.                                                           *)
IsSound(request) ==
  /\ request.rule \in Rules /\ request.samples \in Seq(ChunkSample)
  /\ request.target \in Nat \ {0} /\ request.segment_target \in Nat \ {0}
  /\ request.start_time \in Int
  /\ request.rule \in FragmentRules => ~ request.rebalance /\ ~ request.split_terminal

(* Before the plan: which job is prepared, and how far.                    *)
PreparesImport ==
  /\ job \in ImportJob \cup PlannerJob /\ tracks_done \in Nat
  /\ prepare_stage \in {"aligning", "tracks", "cutting"} => job \in ImportJob
  /\ prepare_stage = "aligning" => IsFlat

(* A cut in progress or done, and not turned down.                         *)
IsCounting == cut_stage \in {"sampling", "closing", "cut"}

(* The chunks pushed and the open one hold the samples taken.              *)
ChunksCover ==
  /\ counts \in Seq(Nat) /\ current_count \in Nat
  /\ taken \in Nat /\ Total(counts) + current_count = taken
  /\ \A i \in DOMAIN counts : counts[i] > 0

(* The groups pushed and the open one hold the chunks pushed.              *)
GroupsCover ==
  /\ groups \in Seq(Nat) /\ group_count \in Nat
  /\ cut.rule \in FragmentRules =>
       /\ Total(groups) + group_count = Len(counts)
       /\ \A i \in DOMAIN groups : groups[i] > 0

(* So far for a cut in progress, and for one that is done.                 *)
CountsInv ==
  IsCounting =>
    /\ IsSound(cut) /\ ChunksCover /\ GroupsCover
    /\ taken <= Len(cut.samples)
    /\ cut_stage \in {"closing", "cut"} => counts # << >>
-----------------------------------------------------------------------------
(* A time scaled to the movie's timeline keeps its sign.                   *)
LEMMA ScaledIs ==
  ASSUME job \in ImportJob, tracks_done \in Nat, tracks_done < Len(job.tracks),
         NEW time \in Int
  PROVE  Scaled(time) \in Int /\ (time >= 0 => Scaled(time) \in Nat)
<1>1. track \in ImportedTrack
  BY DEF track, ImportJob
<1>2. track.timescale \in Nat \ {0} /\ job.movie_timescale \in Nat \ {0}
  BY <1>1 DEF ImportedTrack, ImportJob
<1>3. Magnitude(time) \in Nat
  BY DEF Magnitude
<1> DEFINE n == Magnitude(time) * job.movie_timescale
<1>4. n \in Nat
  BY <1>2, <1>3
<1> HIDE DEF n
<1>5. n \div track.timescale \in Nat
  BY <1>2, <1>4
<1> QED BY <1>5 DEF Scaled, n

(* The samples of a track as they are cut.                                 *)
LEMMA SamplesNowAre ==
  ASSUME NEW t \in ImportedTrack
  PROVE  /\ SamplesNow(t) \in Seq(ImportedSample)
         /\ Len(SamplesNow(t)) = Len(t.samples)
<1>1. t.samples \in Seq(ImportedSample)
  BY DEF ImportedTrack
<1> DEFINE s == t.samples
<1>2. /\ Len(s) \in Nat /\ DOMAIN s = 1..Len(s)
      /\ \A i \in 1..Len(s) : s[i] \in ImportedSample
  BY <1>1
<1> HIDE DEF s
<1>3. ASSUME NEW i \in 1..Len(s)
      PROVE  [s[i] EXCEPT !.gap = 0, !.duration = @ + IF i < Len(s) THEN s[i + 1].gap ELSE 0]
               \in ImportedSample
  <2> DEFINE more == IF i < Len(s) THEN s[i + 1].gap ELSE 0
  <2>1. more \in Nat
    <3>1. CASE i < Len(s)
      <4>1. i + 1 \in 1..Len(s)
        BY <3>1, <1>2
      <4>2. s[i + 1].gap \in Nat
        BY <4>1, <1>2 DEF ImportedSample
      <4> QED BY <3>1, <4>2
    <3>2. CASE ~ (i < Len(s))
      BY <3>2
    <3> QED BY <3>1, <3>2
  <2>2. s[i] \in ImportedSample
    BY <1>2
  <2> HIDE DEF more
  <2>3. s[i].duration + more \in Nat
    BY <2>1, <2>2 DEF ImportedSample
  <2>4. [s[i] EXCEPT !.gap = 0, !.duration = @ + more] \in ImportedSample
    BY <2>2, <2>3 DEF ImportedSample
  <2> QED BY <2>4 DEF more
<1>4. Reconciled(s) \in Seq(ImportedSample) /\ Len(Reconciled(s)) = Len(s)
  <2> DEFINE e(i) == [s[i] EXCEPT !.gap = 0,
                        !.duration = @ + IF i < Len(s) THEN s[i + 1].gap ELSE 0]
  <2>1. Reconciled(s) = [i \in 1..Len(s) |-> e(i)]
    BY <1>2 DEF Reconciled
  <2>2. \A i \in 1..Len(s) : e(i) \in ImportedSample
    BY <1>3
  <2> HIDE DEF e
  <2> QED BY <1>2, <2>1, <2>2
<1> QED BY <1>1, <1>4 DEF SamplesNow, s

(* Either timeline gives samples the loops can add up.                     *)
LEMMA TimelinesAreSound ==
  ASSUME NEW s \in Seq(ImportedSample), job \in ImportJob
  PROVE  /\ OnTrackTimeline(s) \in Seq(ChunkSample)
         /\ (tracks_done \in Nat /\ tracks_done < Len(job.tracks)) =>
              OnMovieTimeline(s) \in Seq(ChunkSample)
<1>1. /\ Len(s) \in Nat /\ DOMAIN s = 1..Len(s)
      /\ \A i \in 1..Len(s) : s[i] \in ImportedSample
  OBVIOUS
<1>2. OnTrackTimeline(s) \in Seq(ChunkSample)
  <2>1. \A i \in 1..Len(s) : [ duration |-> s[i].duration, sync |-> s[i].sync,
                               composition |-> s[i].composition ] \in ChunkSample
    BY <1>1 DEF ImportedSample, ChunkSample
  <2> QED BY <1>1, <2>1 DEF OnTrackTimeline
<1>3. ASSUME tracks_done \in Nat, tracks_done < Len(job.tracks)
      PROVE  OnMovieTimeline(s) \in Seq(ChunkSample)
  <2>1. ASSUME NEW i \in 1..Len(s)
        PROVE  [ duration |-> Scaled(s[i].duration), sync |-> s[i].sync,
                 composition |-> Scaled(s[i].composition) ] \in ChunkSample
    <3>1. s[i].duration \in Nat /\ s[i].composition \in Int /\ s[i].sync \in BOOLEAN
      BY <1>1 DEF ImportedSample
    <3>2. s[i].duration \in Int /\ s[i].duration >= 0
      BY <3>1
    <3>3. Scaled(s[i].duration) \in Nat
      BY <3>2, <1>3, ScaledIs
    <3>4. Scaled(s[i].composition) \in Int
      BY <3>1, <1>3, ScaledIs
    <3> QED BY <3>1, <3>3, <3>4 DEF ChunkSample
  <2> QED BY <1>1, <2>1 DEF OnMovieTimeline
<1> QED BY <1>2, <1>3

(* The targets a track is cut by are positive.                             *)
LEMMA TargetsArePositive ==
  /\ job \in ImportJob => ReferenceTarget \in Nat \ {0}
  /\ \A timescale \in Nat : FlatTarget(timescale) \in Nat \ {0}
<1>1. ASSUME NEW a \in Nat \ {0}, NEW b \in Nat, NEW c \in Nat
      PROVE  Max({a, b, c}) \in Nat \ {0}
  <2>1. \E x \in {a, b, c} : \A y \in {a, b, c} : x >= y
    <3>1. CASE a >= b /\ a >= c
      BY <3>1
    <3>2. CASE b >= a /\ b >= c
      BY <3>2
    <3>3. CASE c >= a /\ c >= b
      BY <3>3
    <3> QED BY <3>1, <3>2, <3>3
  <2>2. Max({a, b, c}) \in {a, b, c} /\ Max({a, b, c}) >= a
    BY <2>1 DEF Max
  <2> QED BY <2>2
<1>2. ASSUME job \in ImportJob PROVE ReferenceTarget \in Nat \ {0}
  <2>1. 6 * job.movie_timescale \in Nat \ {0} /\ job.target \in Nat
    BY <1>2 DEF ImportJob
  <2> QED BY <2>1, <1>1 DEF ReferenceTarget
<1>3. ASSUME NEW timescale \in Nat PROVE FlatTarget(timescale) \in Nat \ {0}
  <2> DEFINE half == (timescale + 1) \div 2
  <2>1. half \in Nat /\ 1 \in Nat \ {0}
    OBVIOUS
  <2>2. {1, half} = {1, half, half}
    OBVIOUS
  <2> HIDE DEF half
  <2>3. Max({1, half, half}) \in Nat \ {0}
    BY <2>1, <1>1
  <2> QED BY <2>2, <2>3 DEF FlatTarget, half
<1> QED BY <1>2, <1>3

(* Whatever loop is asked for, with whatever request, the request is sound.*)
LEMMA TrackRequestIsSound ==
  ASSUME job \in ImportJob, tracks_done \in Nat, tracks_done < Len(job.tracks)
  PROVE  IsSound(RequestOf)
<1>1. track \in ImportedTrack
  BY DEF track, ImportJob
<1>2. /\ track.timescale \in Nat /\ track.edit \in Nat /\ track.decode_offset \in Nat
  BY <1>1 DEF ImportedTrack
<1>3. /\ job.mode \in {"segment", "fragment", "flat"} /\ job.target \in Nat \ {0}
      /\ job.movie_timescale \in Nat
  BY DEF ImportJob
<1>4. samples \in Seq(ImportedSample)
  BY <1>1, SamplesNowAre DEF samples
<1>5. OnTrackTimeline(samples) \in Seq(ChunkSample)
  BY <1>4, TimelinesAreSound
<1>6. OnMovieTimeline(samples) \in Seq(ChunkSample)
  BY <1>4, TimelinesAreSound
<1>7. ReferenceTarget \in Nat \ {0}
  BY TargetsArePositive
<1>8. FlatTarget(track.timescale) \in Nat \ {0} /\ FlatTarget(job.movie_timescale) \in Nat \ {0}
  BY <1>2, <1>3, TargetsArePositive
<1>9. StartTicks \in Int
  <2>1. track.decode_offset \in Int /\ track.edit \in Int
    BY <1>2
  <2>2. Scaled(track.decode_offset) \in Int
    BY <2>1, ScaledIs
  <2>3. Scaled(track.edit) \in Int
    BY <2>1, ScaledIs
  <2> QED BY <2>2, <2>3 DEF StartTicks
<1>10. ASSUME ~ IsFlat PROVE IsSound(DurationRequest)
  <2>1. job.mode \in {"segment", "fragment"}
    BY <1>3, <1>10 DEF IsFlat
  <2>2. DurationRule \in {"sync_segment", "duration", "sync_fragmented", "fragmented"}
    BY <2>1 DEF DurationRule
  <2> QED BY <2>2, <1>3, <1>6, <1>7, <1>9
          DEF DurationRequest, Plain, IsSound, Rules, SyncRules, FragmentRules, FlatRules
<1>11. IsSound(FlatAudioRequest)
  BY <1>2, <1>5, <1>8
     DEF FlatAudioRequest, IsPaced, Plain, IsSound, Rules, SyncRules, FragmentRules, FlatRules
<1>12. IsSound(FlatVideoRequest)
  BY <1>2, <1>5, <1>8
     DEF FlatVideoRequest, Plain, IsSound, Rules, SyncRules, FragmentRules, FlatRules
<1> QED BY <1>10, <1>11, <1>12 DEF RequestOf

(* So is that for the chunks audio is going to follow.                     *)
LEMMA VideoRequestIsSound ==
  ASSUME job \in ImportJob, Follows(job)
  PROVE  IsSound(VideoRequest(VideoTrack))
<1>1. OfKind("video") # {} /\ OfKind("video") \subseteq DOMAIN job.tracks
  BY DEF Follows, OfKind
<1>2. VideoTrack \in ImportedTrack
  <2>1. (CHOOSE i \in OfKind("video") : TRUE) \in DOMAIN job.tracks
    BY <1>1
  <2> QED BY <2>1 DEF VideoTrack, ImportJob
<1>3. VideoTrack.timescale \in Nat
  BY <1>2 DEF ImportedTrack
<1>4. SamplesNow(VideoTrack) \in Seq(ImportedSample)
  BY <1>2, SamplesNowAre
<1>5. OnTrackTimeline(SamplesNow(VideoTrack)) \in Seq(ChunkSample)
  BY <1>4, TimelinesAreSound
<1>6. FlatTarget(VideoTrack.timescale) \in Nat \ {0}
  BY <1>3, TargetsArePositive
<1> QED BY <1>5, <1>6
        DEF VideoRequest, Plain, IsSound, Rules, SyncRules, FragmentRules, FlatRules
-----------------------------------------------------------------------------
(* A chunk is pushed: the samples it holds are as many as the loop took for*)
(* it, or took now.                                                        *)
LEMMA PushCovers ==
  ASSUME ChunksCover, NEW n \in Nat \ {0}, counts' = Append(counts, n),
         current_count' \in Nat, taken' = taken + (n - current_count) + current_count'
  PROVE  ChunksCover' /\ Len(counts') = Len(counts) + 1 /\ counts' # << >>
<1>1. /\ counts \in Seq(Nat) /\ n \in Nat /\ Len(counts) \in Nat
      /\ current_count \in Nat /\ taken \in Nat /\ Total(counts) \in Nat
      /\ Total(counts) + current_count = taken
  BY TotalIs DEF ChunksCover
<1>2. /\ counts' \in Seq(Nat) /\ Len(counts') = Len(counts) + 1
      /\ counts'[Len(counts) + 1] = n
      /\ \A i \in 1..Len(counts) : counts'[i] = counts[i]
      /\ Total(counts') = Total(counts) + n
  BY <1>1, TotalOfAppend
<1>3. DOMAIN counts = 1..Len(counts) /\ DOMAIN counts' = 1..(Len(counts) + 1)
  BY <1>1, <1>2
<1>4. \A i \in DOMAIN counts' : counts'[i] > 0
  BY <1>1, <1>2, <1>3 DEF ChunksCover
<1>5. taken' \in Nat /\ Total(counts') + current_count' = taken'
  <2> DEFINE a == Total(counts)
  <2>1. a \in Nat /\ a + current_count = taken /\ current_count \in Nat /\ n \in Nat
    BY <1>1
  <2> HIDE DEF a
  <2>2. taken' = a + n + current_count'
    BY <2>1
  <2>3. a + n + current_count' \in Nat
    <3>1. current_count' \in Nat
      OBVIOUS
    <3>2. a + n \in Nat
      BY <2>1
    <3> QED BY <3>1, <3>2
  <2>4. Total(counts') = a + n
    BY <1>2 DEF a
  <2> QED BY <2>2, <2>3, <2>4
<1>6. counts' # << >>
  BY <1>1, <1>2
<1> QED BY <1>2, <1>4, <1>5, <1>6 DEF ChunksCover, Total, CountBefore

(* No chunk is pushed: the samples taken are in the one being filled.      *)
LEMMA FillCovers ==
  ASSUME ChunksCover, counts' = counts, current_count' = current_count + 1,
         taken' = taken + 1
  PROVE  ChunksCover'
<1>1. Total(counts) \in Nat
  BY TotalIs DEF ChunksCover
<1> QED BY <1>1 DEF ChunksCover, Total, CountBefore

(* A sample is taken, behind a cut only if there was something to cut.     *)
LEMMA TakeCovers ==
  ASSUME ChunksCover, NEW b \in BOOLEAN, TakeSample(b), b => current_count # 0
  PROVE  /\ ChunksCover' /\ current_count' > 0
         /\ Len(counts') = Len(counts) + (IF b THEN 1 ELSE 0)
<1>1. current_count \in Nat /\ Len(counts) \in Nat /\ taken \in Nat
  BY DEF ChunksCover
<1>2. CASE b
  <2>1. /\ counts' = Append(counts, current_count) /\ current_count' = 1
        /\ taken' = taken + 1 /\ current_count \in Nat \ {0}
    BY <1>1, <1>2 DEF TakeSample
  <2>2. current_count' \in Nat /\ taken' = taken + (current_count - current_count) + current_count'
    BY <2>1, <1>1
  <2>3. ChunksCover' /\ Len(counts') = Len(counts) + 1
    BY <2>1, <2>2, PushCovers
  <2> QED BY <1>2, <2>1, <2>3
<1>3. CASE ~ b
  <2>1. counts' = counts /\ current_count' = current_count + 1 /\ taken' = taken + 1
    BY <1>3 DEF TakeSample
  <2> QED BY <1>1, <1>3, <2>1, FillCovers
<1> QED BY <1>2, <1>3

(* The groups of fragments follow the chunks.                              *)
LEMMA GroupCovers ==
  ASSUME GroupsCover, ChunksCover, cut' = cut
  PROVE  /\ (groups' = groups /\ group_count' = group_count /\ Len(counts') = Len(counts))
              => GroupsCover'
         /\ (groups' = groups /\ group_count' = group_count + 1
              /\ Len(counts') = Len(counts) + 1) => GroupsCover'
         /\ \A n \in {0, 1} :
              (groups' = Append(groups, group_count + n) /\ group_count' = 0
                /\ group_count + n # 0 /\ Len(counts') = Len(counts) + n) => GroupsCover'
<1>1. /\ groups \in Seq(Nat) /\ group_count \in Nat /\ Len(groups) \in Nat
      /\ Total(groups) \in Nat /\ Len(counts) \in Nat
      /\ cut.rule \in FragmentRules => Total(groups) + group_count = Len(counts)
  BY TotalIs DEF GroupsCover, ChunksCover
<1>2. ASSUME groups' = groups, group_count' = group_count, Len(counts') = Len(counts)
      PROVE  GroupsCover'
  BY <1>2 DEF GroupsCover, Total, CountBefore
<1>3. ASSUME groups' = groups, group_count' = group_count + 1,
             Len(counts') = Len(counts) + 1
      PROVE  GroupsCover'
  <2>1. groups' \in Seq(Nat) /\ group_count' \in Nat
    BY <1>1, <1>3
  <2>2. ASSUME cut.rule \in FragmentRules
        PROVE  Total(groups') + group_count' = Len(counts')
    <3>1. Total(groups') = Total(groups)
      BY <1>3
    <3> QED BY <1>1, <1>3, <2>2, <3>1
  <2>3. ASSUME cut.rule \in FragmentRules PROVE \A i \in DOMAIN groups' : groups'[i] > 0
    BY <1>3, <2>3 DEF GroupsCover
  <2> QED BY <2>1, <2>2, <2>3 DEF GroupsCover
<1>4. ASSUME NEW n \in {0, 1}, groups' = Append(groups, group_count + n), group_count' = 0,
             group_count + n # 0, Len(counts') = Len(counts) + n
      PROVE  GroupsCover'
  <2> DEFINE m == group_count + n
  <2>1. m \in Nat \ {0}
    BY <1>1, <1>4
  <2>2. /\ groups' \in Seq(Nat) /\ Len(groups') = Len(groups) + 1
        /\ groups'[Len(groups) + 1] = m
        /\ \A i \in 1..Len(groups) : groups'[i] = groups[i]
        /\ Total(groups') = Total(groups) + m
    BY <1>1, <1>4, <2>1, TotalOfAppend
  <2>3. DOMAIN groups = 1..Len(groups) /\ DOMAIN groups' = 1..(Len(groups) + 1)
    BY <1>1, <2>2
  <2> HIDE DEF m
  <2>4. ASSUME cut.rule \in FragmentRules PROVE \A i \in DOMAIN groups' : groups'[i] > 0
    <3>1. \A i \in 1..Len(groups) : groups[i] > 0
      BY <2>3, <2>4 DEF GroupsCover
    <3>2. ASSUME NEW i \in 1..(Len(groups) + 1) PROVE groups'[i] > 0
      <4>1. CASE i \in 1..Len(groups)
        BY <4>1, <3>1, <2>2
      <4>2. CASE i = Len(groups) + 1
        BY <4>2, <2>1, <2>2
      <4> QED BY <1>1, <4>1, <4>2
    <3> QED BY <2>3, <3>2
  <2>5. ASSUME cut.rule \in FragmentRules
        PROVE  Total(groups') + group_count' = Len(counts')
    BY <1>1, <1>4, <2>2, <2>5 DEF m
  <2> QED BY <1>4, <2>2, <2>4, <2>5 DEF GroupsCover
<1> QED BY <1>2, <1>3, <1>4

(* A request starts with nothing counted.                                  *)
LEMMA BeginCounts ==
  ASSUME NEW request, IsSound(request), Begin(request)
  PROVE  CountsInv'
<1>1. /\ cut' = request /\ cut_stage' = "sampling" /\ taken' = 0 /\ current_count' = 0
      /\ group_count' = 0 /\ counts' = << >> /\ groups' = << >>
  BY DEF Begin
<1>2. << >> \in Seq(Nat) /\ Total(<< >>) = 0 /\ Len(<< >>) = 0 /\ DOMAIN << >> = {}
  <2>1. << >> \in Seq(Nat) /\ Len(<< >>) = 0 /\ DOMAIN << >> = {}
    OBVIOUS
  <2> QED BY <2>1, TotalIs
<1>3. IsSound(cut')
  BY <1>1
<1>4. Len(request.samples) \in Nat
  BY DEF IsSound
<1> HIDE DEF Total
<1>5. ChunksCover'
  BY <1>1, <1>2 DEF ChunksCover, Total, CountBefore
<1>6. GroupsCover'
  BY <1>1, <1>2 DEF GroupsCover, Total, CountBefore
<1>7. taken' <= Len(cut.samples)'
  BY <1>1, <1>4
<1>8. cut_stage' \notin {"closing", "cut"}
  BY <1>1
<1> QED BY <1>3, <1>5, <1>6, <1>7, <1>8 DEF CountsInv, IsSound

(* Where a sample may start a segment or a fragment, chunks and groups are *)
(* pushed as one.                                                          *)
LEMMA AskCounts ==
  ASSUME ChunksCover, GroupsCover, current_count # 0, cut' = cut,
         NEW period, NEW time, NEW offset, AskSample(period, time, offset)
  PROVE  ChunksCover' /\ GroupsCover' /\ taken' = taken + 1
<1>1. ASSUME TakeSample(TRUE)
      PROVE  ChunksCover' /\ taken' = taken + 1 /\ Len(counts') = Len(counts) + 1
  <2>1. ChunksCover' /\ Len(counts') = Len(counts) + (IF TRUE THEN 1 ELSE 0)
    BY <1>1, TakeCovers
  <2> QED BY <1>1, <2>1 DEF TakeSample
<1>2. ASSUME TakeSample(FALSE)
      PROVE  ChunksCover' /\ taken' = taken + 1 /\ Len(counts') = Len(counts)
  <2>1. ChunksCover'
    BY <1>2, TakeCovers
  <2> QED BY <1>2, <2>1 DEF TakeSample
<1>3. CASE StartSegment(time, period)
  <2>1. TakeSample(TRUE) /\ groups' = Append(groups, group_count + 1) /\ group_count' = 0
    BY <1>3 DEF StartSegment
  <2>2. group_count + 1 # 0 /\ 1 \in {0, 1}
    BY DEF GroupsCover
  <2>3. ChunksCover' /\ taken' = taken + 1 /\ Len(counts') = Len(counts) + 1
    BY <2>1, <1>1
  <2>4. GroupsCover'
    BY <2>1, <2>2, <2>3, GroupCovers
  <2> QED BY <2>3, <2>4
<1>4. CASE StartFragment(offset \div cut.target)
  <2>1. TakeSample(TRUE) /\ groups' = groups /\ group_count' = group_count + 1
    BY <1>4 DEF StartFragment
  <2>2. ChunksCover' /\ taken' = taken + 1 /\ Len(counts') = Len(counts) + 1
    BY <2>1, <1>1
  <2>3. GroupsCover'
    BY <2>1, <2>2, GroupCovers
  <2> QED BY <2>2, <2>3
<1>5. CASE StayInFragment
  <2>1. TakeSample(FALSE) /\ groups' = groups /\ group_count' = group_count
    BY <1>5 DEF StayInFragment, segmentVars
  <2>2. ChunksCover' /\ taken' = taken + 1 /\ Len(counts') = Len(counts)
    BY <2>1, <1>2
  <2>3. GroupsCover'
    BY <2>1, <2>2, GroupCovers
  <2> QED BY <2>2, <2>3
<1> QED BY <1>3, <1>4, <1>5 DEF AskSample

(* Every turn of every loop keeps the counts of what it took.              *)
LEMMA TurnCounts ==
  ASSUME CountsInv, CutStep, cut_stage = "sampling", cut_stage' = "sampling"
  PROVE  CountsInv'
<1>1. /\ IsSound(cut) /\ ChunksCover /\ GroupsCover
      /\ taken \in Nat /\ current_count \in Nat /\ Len(cut.samples) \in Nat
      /\ Len(counts) \in Nat
  BY DEF CountsInv, IsCounting, ChunksCover, IsSound
<1>2. SUFFICES cut' = cut /\ ChunksCover' /\ GroupsCover' /\ taken' <= Len(cut.samples)
  BY <1>1 DEF CountsInv, IsSound
<1>3. ASSUME NEW b \in BOOLEAN, TakeSample(b), b => current_count # 0, HasSample,
             cut' = cut, UNCHANGED segmentVars, cut.rule \notin FragmentRules
      PROVE  cut' = cut /\ ChunksCover' /\ GroupsCover' /\ taken' <= Len(cut.samples)
  <2>1. ChunksCover'
    BY <1>1, <1>3, TakeCovers
  <2>2. GroupsCover'
    BY <1>1, <1>3 DEF GroupsCover, segmentVars
  <2>3. taken' <= Len(cut.samples)
    BY <1>1, <1>3 DEF TakeSample, HasSample
  <2> QED BY <1>3, <2>1, <2>2, <2>3
<1>4. CASE DurationTurn
  <2>1. /\ HasSample /\ cut' = cut /\ taken' = taken + 1 /\ cut.rule = "duration"
        /\ UNCHANGED segmentVars
    BY <1>4 DEF DurationTurn, fixedVars, RuleIs
  <2>2. ASSUME counts' = Append(counts, current_count + 1), current_count' = 0
        PROVE  ChunksCover'
    <3> DEFINE n == current_count + 1
    <3>1. n \in Nat \ {0} /\ current_count' \in Nat /\ counts' = Append(counts, n)
      BY <1>1, <2>2
    <3>2. taken' = taken + (n - current_count) + current_count'
      BY <1>1, <2>1, <2>2
    <3> HIDE DEF n
    <3> QED BY <1>1, <3>1, <3>2, PushCovers
  <2>3. ASSUME counts' = counts, current_count' = current_count + 1
        PROVE  ChunksCover'
    BY <1>1, <2>1, <2>3, FillCovers
  <2>4. ChunksCover'
    BY <1>4, <2>2, <2>3 DEF DurationTurn
  <2>5. GroupsCover'
    BY <1>1, <2>1 DEF GroupsCover, segmentVars, FragmentRules
  <2>6. taken' <= Len(cut.samples)
    BY <1>1, <2>1 DEF HasSample
  <2> QED BY <2>1, <2>4, <2>5, <2>6
<1>5. CASE CappedTurn
  <2>1. PICK b \in BOOLEAN : TakeSample(b) /\ (b => current_count # 0)
    BY <1>5 DEF CappedTurn
  <2>2. /\ HasSample /\ cut' = cut /\ UNCHANGED segmentVars /\ cut.rule = "capped"
    BY <1>5 DEF CappedTurn, fixedVars, RuleIs
  <2> QED BY <2>1, <2>2, <1>3 DEF FragmentRules
<1>6. CASE PreviousSampleTurn
  <2>1. PICK b \in BOOLEAN : TakeSample(b) /\ (b => current_count # 0)
    BY <1>6 DEF PreviousSampleTurn
  <2>2. /\ HasSample /\ cut' = cut /\ UNCHANGED segmentVars /\ cut.rule = "previous_sample"
    BY <1>6 DEF PreviousSampleTurn, fixedVars, RuleIs
  <2> QED BY <2>1, <2>2, <1>3 DEF FragmentRules
<1>7. CASE SyncSegmentTurn
  <2>1. PICK b \in BOOLEAN : TakeSample(b) /\ (b => current_count # 0)
    BY <1>7 DEF SyncSegmentTurn, MayStart
  <2>2. /\ HasSample /\ cut' = cut /\ UNCHANGED segmentVars /\ cut.rule = "sync_segment"
    BY <1>7 DEF SyncSegmentTurn, fixedVars, RuleIs
  <2> QED BY <2>1, <2>2, <1>3 DEF FragmentRules
<1>8. CASE AuthorityTurn
  <2>1. TakeSample(FALSE) /\ (FALSE => current_count # 0) /\ FALSE \in BOOLEAN
    BY <1>8 DEF AuthorityTurn
  <2>2. /\ HasSample /\ cut' = cut /\ UNCHANGED segmentVars /\ cut.rule = "authority"
    BY <1>8 DEF AuthorityTurn, fixedVars, RuleIs
  <2>3. cut.rule \notin FragmentRules
    BY <2>2 DEF FragmentRules
  <2> QED BY <2>1, <2>2, <2>3, <1>3
<1>9. ASSUME StayInFragment, HasSample, cut' = cut
      PROVE  ChunksCover' /\ GroupsCover' /\ taken' <= Len(cut.samples)
  <2>1. TakeSample(FALSE) /\ groups' = groups /\ group_count' = group_count
    BY <1>9 DEF StayInFragment, segmentVars
  <2>2. ChunksCover'
    BY <1>1, <2>1, TakeCovers
  <2>3. counts' = counts /\ taken' = taken + 1
    BY <2>1 DEF TakeSample
  <2>4. GroupsCover'
    BY <1>1, <1>9, <2>1, <2>3, GroupCovers
  <2> QED BY <1>1, <1>9, <2>2, <2>3, <2>4 DEF HasSample
<1>10. CASE FragmentedTurn
  <2>1. HasSample /\ cut' = cut
    BY <1>10 DEF FragmentedTurn, fixedVars
  <2>2. CASE current_count = 0
    BY <1>9, <1>10, <2>1, <2>2 DEF FragmentedTurn
  <2>3. CASE current_count # 0
    <3>1. AskSample(PeriodOf(clock + cut.start_time, cut.segment_target),
                    clock, clock - segment_start)
      BY <1>10, <2>3 DEF FragmentedTurn
    <3>2. ChunksCover' /\ GroupsCover' /\ taken' = taken + 1
      BY <1>1, <2>1, <2>3, <3>1, AskCounts
    <3> QED BY <1>1, <2>1, <3>2 DEF HasSample
  <2> QED BY <2>2, <2>3
<1>11. CASE SyncFragmentedTurn
  <2>1. HasSample /\ cut' = cut
    BY <1>11 DEF SyncFragmentedTurn, fixedVars
  <2>2. CASE taken = 0 /\ TakeSample(FALSE) /\ UNCHANGED << groups, group_count, subsegment >>
    <3>1. ChunksCover'
      BY <1>1, <2>2, TakeCovers
    <3>2. counts' = counts /\ taken' = taken + 1
      BY <2>2 DEF TakeSample
    <3>3. GroupsCover'
      BY <1>1, <2>1, <2>2, <3>2, GroupCovers
    <3> QED BY <1>1, <2>1, <3>1, <3>2, <3>3 DEF HasSample
  <2>3. ASSUME MayStart, NEW period, NEW time, NEW offset, AskSample(period, time, offset)
        PROVE  ChunksCover' /\ GroupsCover' /\ taken' <= Len(cut.samples)
    <3>1. ChunksCover' /\ GroupsCover' /\ taken' = taken + 1
      BY <1>1, <2>1, <2>3, AskCounts DEF MayStart
    <3> QED BY <1>1, <2>1, <3>1 DEF HasSample
  <2>4. CASE StayInFragment
    BY <1>9, <2>1, <2>4
  <2> QED BY <1>11, <2>1, <2>2, <2>3, <2>4 DEF SyncFragmentedTurn
<1>12. CASE FollowVideoChunk
  BY <1>1, <1>12
     DEF FollowVideoChunk, ChunksCover, GroupsCover, segmentVars, CountsInv, IsCounting,
         Total, CountBefore
<1>13. CASE LeaveVideoChunk
  <2>1. /\ cut' = cut /\ taken' = taken /\ UNCHANGED segmentVars /\ cut.rule = "authority"
        /\ counts' = IF current_count = 0 THEN counts ELSE Append(counts, current_count)
        /\ current_count' = 0
    BY <1>13 DEF LeaveVideoChunk, RuleIs
  <2>2. ASSUME current_count = 0 PROVE ChunksCover'
    <3>1. counts' = counts /\ current_count' = current_count
      BY <2>1, <2>2
    <3> QED BY <1>1, <2>1, <3>1 DEF ChunksCover, Total, CountBefore
  <2>3. ASSUME current_count # 0 PROVE ChunksCover'
    <3>1. /\ current_count \in Nat \ {0} /\ current_count' \in Nat
          /\ counts' = Append(counts, current_count)
      BY <1>1, <2>1, <2>3
    <3>2. taken' = taken + (current_count - current_count) + current_count'
      BY <1>1, <2>1
    <3> QED BY <1>1, <3>1, <3>2, PushCovers
  <2>4. GroupsCover'
    BY <1>1, <2>1 DEF GroupsCover, segmentVars, FragmentRules
  <2>5. taken' <= Len(cut.samples)
    BY <2>1 DEF CountsInv, IsCounting
  <2> QED BY <2>1, <2>2, <2>3, <2>4, <2>5
<1>14. CASE TakeRest
  <2> DEFINE n == Len(cut.samples) - taken
  <2>1. /\ cut' = cut /\ UNCHANGED segmentVars /\ cut.rule = "authority"
        /\ counts' = Append(counts, n) /\ taken' = Len(cut.samples)
        /\ current_count' = current_count
    BY <1>14 DEF TakeRest, RuleIs, fixedVars
  <2>2. n \in Nat \ {0}
    BY <1>1, <1>14 DEF TakeRest, HasSample
  <2>3. current_count' \in Nat
    BY <1>1, <2>1
  <2>4. taken' = taken + (n - current_count) + current_count'
    BY <1>1, <2>1
  <2> HIDE DEF n
  <2>5. ChunksCover'
    BY <1>1, <2>1, <2>2, <2>3, <2>4, PushCovers
  <2>6. GroupsCover'
    BY <1>1, <2>1 DEF GroupsCover, segmentVars, FragmentRules
  <2> QED BY <1>1, <2>1, <2>5, <2>6
<1>15. CASE Vp08Chunks
  <2> DEFINE length == Len(cut.samples)
             later == { i \in 2..length : cut.samples[i].sync }
             first == IF later = {} THEN length ELSE Min(later) - 1
  <2>1. /\ cut' = cut /\ UNCHANGED segmentVars /\ cut.rule = "vp08"
        /\ counts' = << first >> \o [i \in 1..length - first |-> 1]
        /\ taken' = length /\ current_count' = current_count /\ taken = 0
    BY <1>15 DEF Vp08Chunks, RuleIs, fixedVars
  <2>2. length \in Nat \ {0}
    BY <1>1, <1>15 DEF Vp08Chunks, HasSample
  <2>3. first \in 1..length
    <3>1. later \subseteq 2..length
      OBVIOUS
    <3> HIDE DEF later, length
    <3>2. CASE later = {}
      BY <2>2, <3>2
    <3>3. CASE later # {}
      <4>1. later \subseteq Nat
        BY <2>2, <3>1
      <4>2. Min(later) \in later
        BY <3>3, <4>1, MinIs
      <4>3. Min(later) \in 2..length
        BY <3>1, <4>2
      <4>4. Min(later) - 1 \in 1..length
        BY <2>2, <4>3
      <4> QED BY <3>3, <4>4
    <3> QED BY <3>2, <3>3
  <2> HIDE DEF first, length
  <2>4. first \in Nat /\ length - first \in Nat
    BY <2>2, <2>3
  <2> DEFINE n == length - first
  <2> HIDE DEF n
  <2>5. /\ counts' \in Seq(Nat) /\ Len(counts') = n + 1
        /\ counts'[1] = first /\ \A i \in 2..(n + 1) : counts'[i] = 1
        /\ Total(counts') = first + n
    <3>1. n \in Nat /\ counts' = << first >> \o [i \in 1..n |-> 1]
      BY <2>1, <2>4 DEF n
    <3>2. PICK c : c = counts'
      OBVIOUS
    <3>3. FirstThenOnes(c, first, n) /\ n \in Nat /\ first \in Nat
      BY <2>4, <3>1, <3>2 DEF FirstThenOnes
    <3>4. /\ c \in Seq(Nat) /\ Len(c) = n + 1 /\ c[1] = first
          /\ \A i \in 2..(n + 1) : c[i] = 1
          /\ Total(c) = first + n
      BY <3>3, TotalOfOnes
    <3> QED BY <3>2, <3>4
  <2>6. current_count = 0
    BY <2>1, <1>1, TotalIs DEF ChunksCover
  <2>7. Total(counts') + current_count' = taken' /\ taken' \in Nat /\ current_count' \in Nat
    BY <2>1, <2>2, <2>3, <2>5, <2>6 DEF n
  <2>8. ASSUME NEW i \in DOMAIN counts' PROVE counts'[i] > 0
    <3>1. i \in 1..(n + 1)
      BY <2>5
    <3>2. CASE i = 1
      BY <2>3, <2>5, <3>2
    <3>3. CASE i # 1
      BY <2>5, <3>1, <3>3
    <3> QED BY <3>2, <3>3
  <2>9. ChunksCover'
    BY <2>5, <2>7, <2>8 DEF ChunksCover, Total, CountBefore
  <2>10. GroupsCover'
    BY <1>1, <2>1 DEF GroupsCover, segmentVars, FragmentRules
  <2> QED BY <2>1, <2>2, <2>9, <2>10 DEF length
<1> QED BY <1>4, <1>5, <1>6, <1>7, <1>8, <1>10, <1>11, <1>12, <1>13, <1>14, <1>15
        DEF CutStep, CloseLoop, AdjustCounts

(* Counts that hold so many samples, none of them empty.                   *)
Holds(c, n) ==
  /\ c \in Seq(Nat) /\ c # << >> /\ \A i \in DOMAIN c : c[i] > 0
  /\ Total(c) = n

(* The end of a loop pushes what is being filled, with its group.          *)
LEMMA CloseCounts ==
  ASSUME CountsInv, CloseLoop
  PROVE  CountsInv'
<1>1. /\ IsSound(cut) /\ ChunksCover /\ GroupsCover /\ cut' = cut
      /\ taken \in Nat /\ current_count \in Nat /\ group_count \in Nat
      /\ Len(counts) \in Nat /\ taken' = taken /\ taken = Len(cut.samples)
      /\ current_count' = 0 /\ group_count' = 0
      /\ counts' = IF current_count = 0 THEN counts ELSE Append(counts, current_count)
      /\ groups' = IF cut.rule \in FragmentRules /\ Fragments # 0
                     THEN Append(groups, Fragments) ELSE groups
  BY DEF CountsInv, IsCounting, ChunksCover, GroupsCover, CloseLoop
<1> DEFINE n == IF current_count = 0 THEN 0 ELSE 1
<1>2. ChunksCover' /\ Len(counts') = Len(counts) + n
  <2>1. ASSUME current_count = 0 PROVE ChunksCover' /\ Len(counts') = Len(counts) + n
    <3>1. counts' = counts /\ current_count' = current_count
      BY <1>1, <2>1
    <3>2. ChunksCover'
      BY <1>1, <3>1 DEF ChunksCover, Total, CountBefore
    <3> QED BY <1>1, <2>1, <3>1, <3>2
  <2>2. ASSUME current_count # 0 PROVE ChunksCover' /\ Len(counts') = Len(counts) + n
    <3>1. /\ current_count \in Nat \ {0} /\ current_count' \in Nat
          /\ counts' = Append(counts, current_count)
      BY <1>1, <2>2
    <3>2. taken' = taken + (current_count - current_count) + current_count'
      BY <1>1
    <3>3. ChunksCover' /\ Len(counts') = Len(counts) + 1
      BY <1>1, <3>1, <3>2, PushCovers
    <3> QED BY <2>2, <3>3
  <2> QED BY <2>1, <2>2
<1>3. n \in {0, 1} /\ Fragments = group_count + n
  BY DEF Fragments
<1> HIDE DEF n
<1>4. GroupsCover'
  <2>1. CASE cut.rule \notin FragmentRules
    BY <1>1, <2>1 DEF GroupsCover
  <2>2. CASE cut.rule \in FragmentRules /\ Fragments = 0
    <3>1. n = 0 /\ group_count = 0
      BY <1>1, <1>3, <2>2
    <3>2. groups' = groups /\ group_count' = group_count /\ Len(counts') = Len(counts)
      BY <1>1, <1>2, <2>2, <3>1
    <3> QED BY <1>1, <3>2, GroupCovers
  <2>3. CASE cut.rule \in FragmentRules /\ Fragments # 0
    <3>1. groups' = Append(groups, group_count + n) /\ group_count + n # 0
      BY <1>1, <1>3, <2>3
    <3> QED BY <1>1, <1>2, <1>3, <3>1, GroupCovers
  <2> QED BY <2>1, <2>2, <2>3
<1>5. cut_stage' = IF counts' = << >> THEN "refused" ELSE "closing"
  BY DEF CloseLoop
<1> QED BY <1>1, <1>2, <1>4, <1>5 DEF CountsInv, IsCounting, IsSound

(* Rebalancing three chunks moves samples between two of them.             *)
LEMMA RebalancedHolds ==
  ASSUME NEW c, NEW n, Holds(c, n)
  PROVE  Holds(Rebalanced(c), n)
<1>1. CASE ~ Rebalances(c)
  BY <1>1 DEF Rebalanced
<1>2. CASE Rebalances(c)
  <2> DEFINE moved == (c[2] - c[3]) \div 2
             d == << c[1], c[2] - moved, c[3] + moved >>
  <2>1. c \in Seq(Nat) /\ Len(c) = 3 /\ Total(c) = n
    BY <1>2 DEF Holds, Rebalances
  <2>2. c[1] \in Nat \ {0} /\ c[2] \in Nat \ {0} /\ c[3] \in Nat \ {0} /\ c[3] + 1 < c[2]
    <3>1. DOMAIN c = {1, 2, 3} /\ \A i \in {1, 2, 3} : c[i] \in Nat
      <4>1. 1..3 = {1, 2, 3}
        OBVIOUS
      <4>2. DOMAIN c = 1..Len(c) /\ \A i \in 1..Len(c) : c[i] \in Nat
        BY <2>1, LenProperties, ElementOfSeq
      <4>3. DOMAIN c = 1..3 /\ \A i \in 1..3 : c[i] \in Nat
        BY <2>1, <4>2
      <4> QED BY <4>1, <4>3
    <3>2. \A i \in {1, 2, 3} : c[i] > 0
      BY <3>1 DEF Holds
    <3>3. c[3] + 1 < c[2]
      BY <1>2 DEF Rebalances
    <3> QED BY <3>1, <3>2, <3>3
  <2>3. moved \in Nat /\ 2 * moved <= c[2] - c[3]
    BY <2>2
  <2> HIDE DEF moved
  <2>4. c[2] - moved \in Nat \ {0} /\ c[3] + moved \in Nat \ {0}
    BY <2>2, <2>3
  <2>5. d \in Seq(Nat) /\ d # << >> /\ Len(d) = 3 /\ \A i \in DOMAIN d : d[i] > 0
    BY <2>2, <2>4
  <2>6. d[1] = c[1] /\ d[2] = c[2] - moved /\ d[3] = c[3] + moved
    OBVIOUS
  <2> HIDE DEF d
  <2>7. ASSUME NEW e \in Seq(Nat), Len(e) = 3 PROVE Total(e) = e[1] + e[2] + e[3]
    <3>1. /\ CountBefore(e, 0) = 0 /\ CountBefore(e, 1) = CountBefore(e, 1 - 1) + e[1]
          /\ CountBefore(e, 2) = CountBefore(e, 2 - 1) + e[2]
          /\ CountBefore(e, 3) = CountBefore(e, 3 - 1) + e[3]
      <4>1. \A i \in 1..Len(e) : CountBefore(e, i) = CountBefore(e, i - 1) + e[i]
        BY TotalIs
      <4>2. CountBefore(e, 0) = 0
        BY TotalIs
      <4> QED BY <2>7, <4>1, <4>2
    <3>2. e[1] \in Nat /\ e[2] \in Nat /\ e[3] \in Nat
      <4>1. \A i \in 1..Len(e) : e[i] \in Nat
        OBVIOUS
      <4> QED BY <2>7, <4>1
    <3> QED BY <2>7, <3>1, <3>2 DEF Total
  <2>8. Total(d) = n
    BY <2>1, <2>2, <2>3, <2>5, <2>6, <2>7
  <2>9. Rebalanced(c) = d
    BY <1>2 DEF Rebalanced, d, moved
  <2> QED BY <2>5, <2>8, <2>9 DEF Holds
<1> QED BY <1>1, <1>2

(* A chunk of its own for the last sample takes it from the last chunk.    *)
LEMMA SplitHolds ==
  ASSUME NEW c, NEW n, Holds(c, n), NEW s
  PROVE  Holds(TerminalSplit(c, s), n)
<1>1. CASE ~ SplitsTerminal(c, s)
  BY <1>1 DEF TerminalSplit
<1>2. CASE SplitsTerminal(c, s)
  <2> DEFINE k == Len(c)
             front == Front(c)
             d == Append(front, Last(c) - 1)
             e == Append(d, 1)
  <2>1. c \in Seq(Nat) /\ Total(c) = n /\ k \in Nat \ {0}
    BY DEF Holds
  <2>2. Last(c) = c[k] /\ c[k] > 1 /\ c[k] \in Nat
    BY <1>2, <2>1 DEF SplitsTerminal, Last
  <2>3. /\ front \in Seq(Nat) /\ Len(front) = k - 1
        /\ \A i \in 1..(k - 1) : front[i] = c[i]
    <3>1. 1 \in Int /\ k - 1 \in Int /\ \A i \in 1..(k - 1) : c[i] \in Nat
      BY <2>1
    <3>2. front = SubSeq(c, 1, k - 1)
      BY DEF Front
    <3> HIDE DEF front, k
    <3>3. /\ SubSeq(c, 1, k - 1) \in Seq(Nat)
          /\ Len(SubSeq(c, 1, k - 1)) = IF 1 <= k - 1 THEN (k - 1) - 1 + 1 ELSE 0
          /\ \A i \in 1..(k - 1) - 1 + 1 : SubSeq(c, 1, k - 1)[i] = c[1 + i - 1]
      BY <2>1, <3>1, SubSeqProperties
    <3> QED BY <2>1, <3>2, <3>3
  <2>4. Last(c) - 1 \in Nat \ {0} /\ 1 \in Nat
    BY <2>2
  <2> HIDE DEF front, k
  <2>5. Total(front) = CountBefore(c, k - 1)
    <3>1. k - 1 \in Nat /\ \A j \in 1..(k - 1) : c[j] \in Int /\ front[j] = c[j]
      BY <2>1, <2>3 DEF k
    <3>2. SumTo(front, k - 1) = SumTo(c, k - 1)
      BY <3>1, SumToSame
    <3> QED BY <2>3, <3>2 DEF Total, CountBefore
  <2>6. Total(c) = CountBefore(c, k - 1) + c[k] /\ CountBefore(c, k - 1) \in Nat
    <3>1. k \in 1..Len(c) /\ k - 1 \in 0..Len(c)
      BY <2>1 DEF k
    <3> QED BY <2>1, <3>1, TotalIs DEF Total, k
  <2>7. /\ d \in Seq(Nat) /\ Len(d) = k
        /\ d[k] = Last(c) - 1
        /\ \A i \in 1..(k - 1) : d[i] = front[i]
        /\ Total(d) = Total(front) + (Last(c) - 1)
    <3> DEFINE m == Last(c) - 1
    <3>1. m \in Nat
      BY <2>4
    <3> HIDE DEF m
    <3>2. /\ Append(front, m) \in Seq(Nat) /\ Len(Append(front, m)) = Len(front) + 1
          /\ Append(front, m)[Len(front) + 1] = m
          /\ \A i \in 1..Len(front) : Append(front, m)[i] = front[i]
          /\ Total(Append(front, m)) = Total(front) + m
      BY <2>3, <3>1, TotalOfAppend
    <3>3. Len(front) + 1 = k
      BY <2>1, <2>3
    <3> QED BY <2>3, <3>2, <3>3 DEF m
  <2> HIDE DEF d
  <2>8. /\ e \in Seq(Nat) /\ Len(e) = k + 1 /\ e[k + 1] = 1
        /\ \A i \in 1..k : e[i] = d[i]
        /\ Total(e) = Total(d) + 1
    BY <2>4, <2>7, TotalOfAppend
  <2>9. TerminalSplit(c, s) = e
    <3>1. d \in Seq(Nat) /\ 1 \in Nat
      BY <2>7
    <3>2. d \o << 1 >> = e
      BY <3>1, AppendIsConcat
    <3> QED BY <1>2, <3>2 DEF TerminalSplit, d, front
  <2> HIDE DEF e
  <2>10. ASSUME NEW i \in 1..(k + 1) PROVE e[i] > 0
    <3>1. CASE i = k + 1
      BY <2>8, <3>1
    <3>2. CASE i = k
      <4>1. k \in 1..k
        BY <2>1
      <4>2. e[k] = d[k] /\ d[k] = Last(c) - 1
        BY <2>7, <2>8, <4>1
      <4>3. Last(c) - 1 > 0
        BY <2>2
      <4>4. e[k] > 0
        BY <4>2, <4>3
      <4> QED BY <3>2, <4>4
    <3>3. CASE i \in 1..(k - 1)
      <4>1. c[i] > 0
        BY <2>1, <3>3 DEF Holds, k
      <4>2. e[i] = c[i]
        BY <2>1, <2>3, <2>7, <2>8, <3>3
      <4> QED BY <4>1, <4>2
    <3> QED BY <2>1, <3>1, <3>2, <3>3
  <2>11. Total(e) = n
    <3> DEFINE p == CountBefore(c, k - 1)
               m == Last(c)
    <3>1. Total(c) = n /\ Total(c) = p + m
      BY <2>1, <2>2, <2>6 DEF Holds
    <3>2. Total(d) = p + (m - 1) /\ Total(e) = Total(d) + 1
      BY <2>5, <2>7, <2>8
    <3>3. p \in Nat /\ m \in Nat
      BY <2>2, <2>4, <2>6
    <3> HIDE DEF p, m
    <3> QED BY <3>1, <3>2, <3>3
  <2>12. e # << >> /\ \A i \in DOMAIN e : e[i] > 0
    BY <2>1, <2>8, <2>10
  <2> QED BY <2>8, <2>9, <2>11, <2>12 DEF Holds
<1> QED BY <1>1, <1>2

(* What the importer still does to the counts leaves their total alone.    *)
LEMMA AdjustKeepsCounts ==
  ASSUME CountsInv, AdjustCounts
  PROVE  CountsInv'
<1>1. /\ IsSound(cut) /\ ChunksCover /\ GroupsCover /\ cut' = cut
      /\ taken \in Nat /\ current_count \in Nat /\ taken' = taken
      /\ current_count' = current_count /\ groups' = groups /\ group_count' = group_count
      /\ taken <= Len(cut.samples) /\ counts # << >>
  BY DEF CountsInv, IsCounting, ChunksCover, AdjustCounts, segmentVars
<1> DEFINE n == Total(counts)
           balanced == IF cut.rebalance THEN Rebalanced(counts) ELSE counts
<1>2. Holds(counts, n)
  BY <1>1 DEF ChunksCover, Holds
<1> HIDE DEF n
<1>3. Holds(balanced, n)
  BY <1>2, RebalancedHolds
<1>4. counts' = IF cut.split_terminal THEN TerminalSplit(balanced, cut.samples) ELSE balanced
  BY DEF AdjustCounts
<1> HIDE DEF balanced
<1>5. Holds(counts', n)
  BY <1>3, <1>4, SplitHolds
<1>6. ChunksCover'
  BY <1>1, <1>5 DEF ChunksCover, Holds, n, Total, CountBefore
<1>7. cut.rule \in FragmentRules => counts' = counts
  BY <1>1, <1>4 DEF IsSound, balanced
<1>8. GroupsCover'
  BY <1>1, <1>7 DEF GroupsCover, Total, CountBefore
<1> QED BY <1>1, <1>5, <1>6, <1>8 DEF CountsInv, IsSound, Holds
-----------------------------------------------------------------------------
(* One step of a loop, or of what follows it.                              *)
LEMMA CutStepCounts ==
  ASSUME CountsInv, CutStep
  PROVE  CountsInv'
<1>1. CASE CloseLoop
  BY <1>1, CloseCounts
<1>2. CASE AdjustCounts
  BY <1>2, AdjustKeepsCounts
<1>3. CASE ~ CloseLoop /\ ~ AdjustCounts
  <2>1. cut_stage = "sampling" /\ cut_stage' = "sampling"
    BY <1>3 DEF CutStep, DurationTurn, CappedTurn, PreviousSampleTurn, FragmentedTurn,
       SyncFragmentedTurn, SyncSegmentTurn, FollowVideoChunk, AuthorityTurn,
       LeaveVideoChunk, TakeRest, Vp08Chunks, HasSample, fixedVars
  <2> QED BY <2>1, TurnCounts
<1> QED BY <1>1, <1>2, <1>3

(* What the importer hands to the loops, and when.                         *)
CountingInv == PreparesImport /\ CountsInv

(* Nothing is counted at first.                                            *)
LEMMA CountingInit == Init => CountingInv
<1> SUFFICES ASSUME Init PROVE CountingInv
  OBVIOUS
<1>1. job \in Jobs /\ prepare_stage = "asked" /\ tracks_done = 0 /\ cut_stage = "idle"
  BY DEF Init
<1> QED BY <1>1, JobsAssumption DEF CountingInv, PreparesImport, CountsInv, IsCounting

(* The loops are started on sound requests only, and left alone otherwise. *)
LEMMA CountingStep == CountingInv /\ [Next]_vars => CountingInv'
<1> SUFFICES ASSUME CountingInv, [Next]_vars PROVE CountingInv'
  OBVIOUS
<1>1. PreparesImport /\ CountsInv
  BY DEF CountingInv
<1>2. ASSUME UNCHANGED chunkVars PROVE CountsInv'
  BY <1>1, <1>2
     DEF CountsInv, chunkVars, IsCounting, ChunksCover, GroupsCover, IsSound, Total,
         CountBefore
<1>3. job.way = "import" => job \in ImportJob
  BY <1>1 DEF PreparesImport, PlannerJob
<1>4. CASE CutStep /\ UNCHANGED << prepareVars, planVars >>
  <2>1. CountsInv'
    BY <1>1, <1>4, CutStepCounts
  <2>2. PreparesImport'
    BY <1>1, <1>4 DEF PreparesImport, prepareVars, IsFlat
  <2> QED BY <2>1, <2>2 DEF CountingInv
<1>5. CASE PlanStep /\ UNCHANGED << prepareVars, chunkVars >>
  <2>1. PreparesImport'
    BY <1>1, <1>5 DEF PreparesImport, prepareVars, IsFlat
  <2> QED BY <1>2, <1>5, <2>1 DEF CountingInv
<1>6. CASE UNCHANGED vars
  <2>1. PreparesImport'
    BY <1>1, <1>6 DEF PreparesImport, prepareVars, IsFlat, vars
  <2> QED BY <1>2, <1>6, <2>1 DEF CountingInv, vars
<1>7. CASE RefuseSecondVideo
  BY <1>1, <1>2, <1>7 DEF RefuseSecondVideo, RefuseRequest, PreparesImport, CountingInv
<1>8. CASE BeginTracks
  BY <1>1, <1>2, <1>3, <1>8 DEF BeginTracks, PreparesImport, CountingInv
<1>9. CASE AlignToVideo
  <2>1. /\ Begin(VideoRequest(VideoTrack)) /\ job \in ImportJob /\ Follows(job)
        /\ job' = job /\ tracks_done' = tracks_done /\ prepare_stage' = "aligning"
    BY <1>3, <1>9 DEF AlignToVideo
  <2>2. IsSound(VideoRequest(VideoTrack))
    BY <2>1, VideoRequestIsSound
  <2>3. CountsInv'
    BY <2>1, <2>2, BeginCounts
  <2>4. PreparesImport'
    BY <1>1, <2>1 DEF PreparesImport, IsFlat, Follows
  <2> QED BY <2>3, <2>4 DEF CountingInv
<1>10. CASE KeepAlignment
  BY <1>1, <1>2, <1>10 DEF KeepAlignment, PreparesImport, CountingInv
<1>11. CASE RefuseTimes
  BY <1>1, <1>2, <1>11 DEF RefuseTimes, HasTrack, RefuseRequest, PreparesImport, CountingInv
<1>12. CASE BeginTrack
  <2>1. /\ Begin(RequestOf) /\ job \in ImportJob /\ tracks_done \in Nat
        /\ tracks_done < Len(job.tracks)
        /\ job' = job /\ tracks_done' = tracks_done /\ prepare_stage' = "cutting"
    BY <1>1, <1>12 DEF BeginTrack, HasTrack, PreparesImport
  <2>2. IsSound(RequestOf)
    BY <2>1, TrackRequestIsSound
  <2>3. CountsInv'
    BY <2>1, <2>2, BeginCounts
  <2>4. PreparesImport'
    BY <1>1, <2>1 DEF PreparesImport
  <2> QED BY <2>3, <2>4 DEF CountingInv
<1>13. CASE StageUncut
  BY <1>1, <1>2, <1>13 DEF StageUncut, HasTrack, StageSamples, PreparesImport, CountingInv
<1>14. CASE StageCut
  BY <1>1, <1>2, <1>14 DEF StageCut, StageSamples, PreparesImport, CountingInv
<1>15. CASE HandOver
  BY <1>1, <1>2, <1>15 DEF HandOver, PreparesImport, CountingInv
<1>16. CASE AskPlanner
  BY <1>1, <1>2, <1>16 DEF AskPlanner, PreparesImport, CountingInv
<1>17. CASE RefuseKeptCounts
  BY <1>1, <1>2, <1>17
     DEF RefuseKeptCounts, HasTrack, RefuseRequest, PreparesImport, CountingInv
<1>18. CASE StageKept
  BY <1>1, <1>2, <1>18 DEF StageKept, HasTrack, StageSamples, PreparesImport, CountingInv
<1> QED BY <1>4, <1>5, <1>6, <1>7, <1>8, <1>9, <1>10, <1>11, <1>12, <1>13, <1>14, <1>15,
           <1>16, <1>17, <1>18 DEF Next

(* A step that has a loop in progress has a sound request, whatever the    *)
(* track: the counting of every loop is right at every turn.               *)
THEOREM CountingIsSound == Spec => []CountingInv
<1>1. Init => CountingInv
  BY CountingInit
<1>2. CountingInv /\ [Next]_vars => CountingInv'
  BY CountingStep
<1> QED BY <1>1, <1>2, PTL DEF Spec

(* For every imported track, and at every turn of every loop, the chunks   *)
(* pushed and the chunk being filled hold exactly the samples taken, none  *)
(* is empty, and the reference groups hold exactly the fragments.          *)
THEOREM CountsAlwaysCover == Spec => []CountsCoverTrack
<1>1. CountingInv => CountsCoverTrack
  BY DEF CountingInv, CountsInv, IsCounting, ChunksCover, GroupsCover, CountsCoverTrack
<1> QED BY <1>1, CountingIsSound, PTL
-----------------------------------------------------------------------------
(* What a time divided by a target says of the time.                       *)
LEMMA DivisionIs ==
  ASSUME NEW t \in Nat, NEW d \in Nat \ {0}
  PROVE  /\ t \div d \in Nat /\ d * (t \div d) <= t /\ t < d * (t \div d) + d
         /\ d * ((t \div d) + 1) = d * (t \div d) + d
<1>1. t \div d \in Nat
  OBVIOUS
<1>2. t = d * (t \div d) + (t % d) /\ t % d \in 0..(d - 1)
  OBVIOUS
<1> QED BY <1>1, <1>2

(* Multiples of a target are in the order of what multiplies it.           *)
LEMMA MultiplesGrow ==
  ASSUME NEW d \in Nat \ {0}, NEW q \in Nat, NEW r \in Nat, q < r
  PROVE  d * q + d <= d * r
<1>1. PICK k \in Nat : r = q + 1 + k
  <2>1. r - q - 1 \in Nat /\ r = q + 1 + (r - q - 1)
    OBVIOUS
  <2> QED BY <2>1
<1>2. d * r = d * q + d + d * k /\ d * k >= 0 /\ d * q \in Nat /\ d * k \in Nat
  BY <1>1
<1> QED BY <1>2

(* Which multiple a time lies behind.                                      *)
LEMMA PeriodIs ==
  ASSUME NEW t \in Int, NEW d \in Nat \ {0}, NEW q \in Nat, t < d * q + d,
         t >= d * q \/ q = 0
  PROVE  PeriodOf(t, d) = q
<1>1. CASE t < 0
  <2>1. d * q \in Nat /\ (t >= d * q => t >= 0)
    OBVIOUS
  <2>2. q = 0
    BY <1>1, <2>1
  <2> QED BY <1>1, <2>2 DEF PeriodOf
<1>2. CASE t >= 0
  <2> DEFINE r == t \div d
  <2>1. t \in Nat /\ PeriodOf(t, d) = r
    BY <1>2 DEF PeriodOf
  <2>2. r \in Nat /\ d * r <= t /\ t < d * r + d /\ d * r \in Nat /\ d * q \in Nat
    BY <2>1, DivisionIs
  <2>3. d * q <= t
    <3>1. CASE q = 0
      <4>1. d * q = 0
        BY <3>1
      <4> QED BY <1>2, <4>1
    <3>2. CASE q # 0
      BY <3>2
    <3> QED BY <3>1, <3>2
  <2> HIDE DEF r
  <2>4. ~ (r < q)
    <3> SUFFICES ASSUME r < q PROVE FALSE
      OBVIOUS
    <3>1. d * r + d <= d * q
      BY <2>2, MultiplesGrow
    <3> QED BY <2>2, <2>3, <3>1
  <2>5. ~ (q < r)
    <3> SUFFICES ASSUME q < r PROVE FALSE
      OBVIOUS
    <3>1. d * q + d <= d * r
      BY <2>2, MultiplesGrow
    <3> QED BY <2>2, <3>1
  <2> QED BY <2>1, <2>2, <2>4, <2>5
<1> QED BY <1>1, <1>2

(* A later time lies in the same period or a later one.                    *)
LEMMA PeriodsGrow ==
  ASSUME NEW t \in Int, NEW u \in Int, t <= u, NEW d \in Nat \ {0}
  PROVE  /\ PeriodOf(t, d) \in Nat /\ PeriodOf(u, d) \in Nat
         /\ PeriodOf(t, d) <= PeriodOf(u, d)
<1>1. ASSUME NEW v \in Int PROVE PeriodOf(v, d) \in Nat
  <2>1. CASE v < 0
    BY <2>1 DEF PeriodOf
  <2>2. CASE v >= 0
    <3>1. v \in Nat
      BY <2>2
    <3>2. v \div d \in Nat
      BY <3>1, DivisionIs
    <3> QED BY <2>2, <3>2 DEF PeriodOf
  <2> QED BY <2>1, <2>2
<1>2. CASE t < 0
  <2>1. PeriodOf(t, d) = 0
    BY <1>2 DEF PeriodOf
  <2> QED BY <1>1, <2>1
<1>3. CASE t >= 0
  <2> DEFINE q == t \div d
             r == u \div d
  <2>1. t \in Nat /\ u \in Nat /\ PeriodOf(t, d) = q /\ PeriodOf(u, d) = r
    BY <1>3 DEF PeriodOf
  <2>2. q \in Nat /\ d * q <= t
    BY <2>1, DivisionIs
  <2>3. r \in Nat /\ u < d * r + d
    BY <2>1, DivisionIs
  <2>4. d * q \in Nat /\ d * r \in Nat
    BY <2>2, <2>3
  <2> HIDE DEF q, r
  <2>5. ~ (r < q)
    <3> SUFFICES ASSUME r < q PROVE FALSE
      OBVIOUS
    <3>1. d * r + d <= d * q
      BY <2>2, <2>3, MultiplesGrow
    <3> QED BY <2>1, <2>2, <2>3, <2>4, <3>1
  <2> QED BY <1>1, <2>1, <2>2, <2>3, <2>5
<1> QED BY <1>2, <1>3
-----------------------------------------------------------------------------
(* Where a sample of a request starts, and in which multiple of its targets*)
StartIn(c, i) == TotalOf([k \in 1..i - 1 |-> c.samples[k].duration])
TargetOf(c, i) == PeriodOf(StartIn(c, i) + c.start_time, c.target)
SegmentOf(c, i) == PeriodOf(StartIn(c, i) + c.start_time, c.segment_target)

(* What its rule promises of a chunk that holds the samples a to b.        *)
Obeys(c, a, b) ==
  /\ (c.rule \in SyncRules /\ a > 1) => c.samples[a].sync
  /\ (c.rule = "capped" /\ b > a) => StartIn(c, b + 1) - StartIn(c, a) <= c.target
  /\ c.rule = "duration" => \A k \in a..b : TargetOf(c, k) = TargetOf(c, a)
  /\ c.rule = "fragmented" => \A k, m \in a..b : SegmentOf(c, k) = SegmentOf(c, m)

(* Chunks cut by duration lie beyond one another, from the third on.       *)
LiesBeyond(c, a) == c.rule = "duration" => TargetOf(c, a) > TargetOf(c, a - 1)

(* All chunks of n obey.                                                   *)
AllObey(c, n) ==
  /\ \A i \in 1..Len(n) : Obeys(c, CountBefore(n, i - 1) + 1, CountBefore(n, i))
  /\ \A i \in 3..Len(n) : LiesBeyond(c, CountBefore(n, i - 1) + 1)

(* Starts add up, and never run backward.                                  *)
LEMMA StartsAddUp ==
  ASSUME NEW c, c.samples \in Seq(ChunkSample)
  PROVE  /\ StartIn(c, 1) = 0
         /\ \A i \in 1..(Len(c.samples) + 1) : StartIn(c, i) \in Nat
         /\ \A i \in 1..Len(c.samples) :
              /\ StartIn(c, i + 1) = StartIn(c, i) + c.samples[i].duration
              /\ c.samples[i].duration \in Nat
<1> DEFINE s == c.samples
           d == [k \in 1..Len(s) |-> s[k].duration]
<1>1. /\ Len(s) \in Nat /\ DOMAIN s = 1..Len(s)
      /\ \A i \in 1..Len(s) : s[i].duration \in Nat
  <2>1. s \in Seq(ChunkSample)
    OBVIOUS
  <2> HIDE DEF s
  <2>2. Len(s) \in Nat /\ DOMAIN s = 1..Len(s) /\ \A i \in 1..Len(s) : s[i] \in ChunkSample
    BY <2>1, LenProperties, ElementOfSeq
  <2>3. \A x \in ChunkSample : x.duration \in Nat
    BY DEF ChunkSample
  <2> QED BY <2>2, <2>3
<1>2. \A i \in 1..Len(s) : d[i] \in Nat /\ d[i] \in Int /\ d[i] = s[i].duration
  BY <1>1
<1>3. ASSUME NEW i \in 1..(Len(s) + 1) PROVE StartIn(c, i) = SumTo(d, i - 1)
  <2> DEFINE f == [k \in 1..i - 1 |-> s[k].duration]
  <2>1. i - 1 \in Nat /\ Len(f) = i - 1
    BY <1>1
  <2>2. \A j \in 1..(i - 1) : d[j] \in Int /\ f[j] = d[j]
    BY <1>1, <1>2
  <2>3. StartIn(c, i) = SumTo(f, i - 1)
    BY <2>1 DEF StartIn, TotalOf
  <2> HIDE DEF f, d
  <2>4. SumTo(f, i - 1) = SumTo(d, i - 1)
    <3> DEFINE n == i - 1
    <3>1. n \in Nat /\ \A j \in 1..n : d[j] \in Int /\ f[j] = d[j]
      BY <2>1, <2>2
    <3> HIDE DEF n
    <3>2. SumTo(f, n) = SumTo(d, n)
      BY <3>1, SumToSame
    <3> QED BY <3>2 DEF n
  <2> QED BY <2>3, <2>4
<1> HIDE DEF d, s
<1>4. ASSUME NEW m \in 0..Len(s)
      PROVE  SumTo(d, m) \in Nat /\ SumTo(d, 0) = 0
  <2>1. Len(s) \in Nat /\ \A j \in 1..Len(s) : d[j] \in Nat
    BY <1>1, <1>2
  <2>2. SumTo(d, m) \in 0..SumTo(d, Len(s))
    BY <2>1, SumToNat
  <2>3. \A j \in 1..Len(s) : d[j] \in Int
    BY <1>2
  <2>4. SumTo(d, 0) = 0 /\ SumTo(d, Len(s)) \in Int
    BY <2>1, <2>3, SumToIs
  <2> QED BY <2>2, <2>4
<1>5. ASSUME NEW i \in 1..Len(s) PROVE SumTo(d, i) = SumTo(d, i - 1) + d[i]
  <2>1. i \in Nat /\ i > 0 /\ \A j \in 1..i : d[j] \in Int
    BY <1>1, <1>2
  <2> QED BY <2>1, SumToIs
<1>6. StartIn(c, 1) = 0
  <2>1. 1 \in 1..(Len(s) + 1) /\ 0 \in 0..Len(s) /\ 1 - 1 = 0
    BY <1>1
  <2> QED BY <2>1, <1>3, <1>4
<1>7. ASSUME NEW i \in 1..(Len(s) + 1) PROVE StartIn(c, i) \in Nat
  <2>1. i - 1 \in 0..Len(s)
    BY <1>1
  <2> QED BY <2>1, <1>3, <1>4
<1>8. ASSUME NEW i \in 1..Len(s)
      PROVE  StartIn(c, i + 1) = StartIn(c, i) + s[i].duration /\ s[i].duration \in Nat
  <2>1. i \in 1..(Len(s) + 1) /\ i + 1 \in 1..(Len(s) + 1) /\ (i + 1) - 1 = i
    BY <1>1
  <2>2. StartIn(c, i) = SumTo(d, i - 1) /\ StartIn(c, i + 1) = SumTo(d, i)
    BY <2>1, <1>3
  <2> QED BY <2>2, <1>1, <1>2, <1>5
<1> QED BY <1>6, <1>7, <1>8 DEF s

(* The chunk being filled is pushed: it had better obey.                   *)
LEMMA PushObeys ==
  ASSUME NEW c, NEW n \in Seq(Nat), AllObey(c, n), NEW m \in Nat,
         NEW a, a = Total(n) + 1, NEW b, b = Total(n) + m,
         Obeys(c, a, b), Len(n) >= 2 => LiesBeyond(c, a)
  PROVE  AllObey(c, Append(n, m))
<1> DEFINE p == Append(n, m)
<1>1. /\ Len(p) = Len(n) + 1 /\ Len(n) \in Nat
      /\ \A i \in 0..Len(n) : CountBefore(p, i) = CountBefore(n, i)
      /\ Total(p) = Total(n) + m
  BY TotalOfAppend
<1> HIDE DEF p
<1>2. CountBefore(p, Len(n)) = Total(n) /\ CountBefore(p, Len(n) + 1) = Total(n) + m
  <2>1. Len(n) \in 0..Len(n)
    BY <1>1
  <2> QED BY <1>1, <2>1 DEF Total
<1>3. ASSUME NEW i \in 1..(Len(n) + 1)
      PROVE  Obeys(c, CountBefore(p, i - 1) + 1, CountBefore(p, i))
  <2>1. CASE i \in 1..Len(n)
    <3>1. i - 1 \in 0..Len(n) /\ i \in 0..Len(n)
      BY <1>1, <2>1
    <3> QED BY <1>1, <2>1, <3>1 DEF AllObey
  <2>2. CASE i = Len(n) + 1
    <3>1. i - 1 = Len(n)
      BY <1>1, <2>2
    <3> QED BY <1>2, <2>2, <3>1
  <2> QED BY <1>1, <2>1, <2>2
<1>4. ASSUME NEW i \in 3..(Len(n) + 1) PROVE LiesBeyond(c, CountBefore(p, i - 1) + 1)
  <2>1. CASE i \in 3..Len(n)
    <3>1. i - 1 \in 0..Len(n)
      BY <1>1, <2>1
    <3> QED BY <1>1, <2>1, <3>1 DEF AllObey
  <2>2. CASE i = Len(n) + 1
    <3>1. i - 1 = Len(n) /\ Len(n) >= 2
      BY <1>1, <2>2
    <3> QED BY <1>2, <3>1
  <2> QED BY <1>1, <2>1, <2>2
<1> QED BY <1>1, <1>3, <1>4 DEF AllObey, p
-----------------------------------------------------------------------------
(* The first sample of the chunk being filled.                             *)
Opens == Total(counts) + 1

(* What the clocks of each loop know of the chunk being filled: by         *)
(* duration, that it lies in one multiple of the target, which the boundary*)
(* ends and which no earlier chunk but the first reaches.                  *)
DurationFill ==
  /\ clock = StartIn(cut, taken + 1) + cut.start_time
  /\ \E q \in Nat :
       /\ boundary = cut.target * q + cut.target
       /\ taken > 0 => clock < boundary
       /\ counts # << >> => clock >= cut.target * q
       /\ counts = << >> => q = 0
       /\ \A k \in Opens..taken : TargetOf(cut, k) = q
       /\ Len(counts) >= 2 => TargetOf(cut, Opens - 1) < q

(* Capped, what it lasts.                                                  *)
CappedFill ==
  /\ chunk_duration = StartIn(cut, taken + 1) - StartIn(cut, Opens)
  /\ current_count > 1 => chunk_duration <= cut.target

(* In fragments, that its samples lie in one segment: the current one, or a*)
(* later one if it is the track's first and nothing has judged it yet.     *)
FragmentedFill ==
  /\ clock = StartIn(cut, taken + 1) /\ segment \in Nat
  /\ current_count = 0 => taken = 0 /\ segment = 0
  /\ current_count > 0 => SegmentOf(cut, taken) >= segment
  /\ \A k, m \in Opens..taken : SegmentOf(cut, k) = SegmentOf(cut, m)

(* On sync samples, that it was opened by one.                             *)
SyncFill ==
  /\ current_count = 0 => taken = 0
  /\ Opens > 1 => cut.samples[Opens].sync

(* What the open chunk obeys already, by rule.                             *)
FillInv ==
  /\ cut.rule = "duration" => DurationFill
  /\ cut.rule = "capped" => CappedFill
  /\ cut.rule = "fragmented" => FragmentedFill
  /\ cut.rule \in SyncRules => SyncFill

(* The chunks pushed obey the rule, and so does the open one.              *)
RulesInv ==
  /\ cut_stage \in {"sampling", "closing"} => AllObey(cut, counts)
  /\ cut_stage = "sampling" => FillInv
-----------------------------------------------------------------------------
(* Where the chunk being filled lies in the track.                         *)
LEMMA Opening ==
  ASSUME CountsInv, IsCounting
  PROVE  /\ Opens \in Nat /\ Opens >= 1 /\ Opens = taken - current_count + 1
         /\ taken \in Nat /\ current_count \in Nat /\ taken <= Len(cut.samples)
         /\ counts \in Seq(Nat) /\ Len(counts) \in Nat /\ Total(counts) = Opens - 1
         /\ counts # << >> => Opens > 1
         /\ IsSound(cut) /\ Len(cut.samples) \in Nat
         /\ cut.samples \in Seq(ChunkSample)
         /\ cut.target \in Nat \ {0} /\ cut.segment_target \in Nat \ {0}
         /\ cut.start_time \in Int
<1>1. /\ IsSound(cut) /\ ChunksCover /\ taken <= Len(cut.samples)
      /\ counts \in Seq(Nat) /\ Len(counts) \in Nat /\ taken \in Nat
      /\ current_count \in Nat
  BY DEF CountsInv, ChunksCover
<1>2. Total(counts) \in Nat /\ Total(counts) + current_count = taken
  BY <1>1, TotalIs DEF ChunksCover
<1>3. ASSUME counts # << >> PROVE Total(counts) > 0
  <2> DEFINE n == Len(counts)
  <2>1. n \in Nat \ {0}
    BY <1>1, <1>3
  <2>2. n \in 1..Len(counts) /\ n - 1 \in 0..Len(counts)
    BY <2>1
  <2>3. Total(counts) = CountBefore(counts, n - 1) + counts[n]
    BY <1>1, <2>2, TotalIs DEF Total
  <2>4. CountBefore(counts, n - 1) \in Nat
    BY <1>1, <1>2, <2>2, TotalIs
  <2>5. counts[n] > 0 /\ counts[n] \in Nat
    BY <1>1, <2>2 DEF ChunksCover
  <2> QED BY <2>3, <2>4, <2>5
<1> QED BY <1>1, <1>2, <1>3 DEF Opens, IsSound

(* The chunk being filled obeys, whenever the loop ends or cuts.           *)
LEMMA FillObeys ==
  ASSUME CountsInv, IsCounting, FillInv, current_count > 0
  PROVE  /\ Obeys(cut, Opens, taken)
         /\ Len(counts) >= 2 => LiesBeyond(cut, Opens)
<1>1. /\ Opens \in Nat /\ Opens >= 1 /\ Opens = taken - current_count + 1
      /\ taken \in Nat /\ current_count \in Nat
  BY Opening
<1>2. Opens \in Opens..taken
  BY <1>1
<1>3. ASSUME cut.rule \in SyncRules, Opens > 1 PROVE cut.samples[Opens].sync
  BY <1>3 DEF FillInv, SyncFill
<1>4. ASSUME cut.rule = "capped", taken > Opens
      PROVE  StartIn(cut, taken + 1) - StartIn(cut, Opens) <= cut.target
  <2>1. current_count > 1
    BY <1>1, <1>4
  <2> QED BY <1>4, <2>1 DEF FillInv, CappedFill
<1>5. ASSUME cut.rule = "duration"
      PROVE  /\ \A k \in Opens..taken : TargetOf(cut, k) = TargetOf(cut, Opens)
             /\ Len(counts) >= 2 => TargetOf(cut, Opens) > TargetOf(cut, Opens - 1)
  <2>1. PICK q \in Nat : /\ \A k \in Opens..taken : TargetOf(cut, k) = q
                         /\ Len(counts) >= 2 => TargetOf(cut, Opens - 1) < q
    BY <1>5 DEF FillInv, DurationFill
  <2>2. TargetOf(cut, Opens) = q
    BY <1>2, <2>1
  <2> QED BY <2>1, <2>2
<1>6. ASSUME cut.rule = "fragmented"
      PROVE  \A k, m \in Opens..taken : SegmentOf(cut, k) = SegmentOf(cut, m)
  BY <1>6 DEF FillInv, FragmentedFill
<1> QED BY <1>3, <1>4, <1>5, <1>6 DEF Obeys, LiesBeyond

(* By duration: the boundary is the end of the multiple the chunk lies in, *)
(* and moves to the end of the one the clock has reached.                  *)
LEMMA DurationTurnObeys ==
  ASSUME CountsInv, IsCounting, CountsInv', IsCounting', cut.rule = "duration",
         DurationFill, AllObey(cut, counts), DurationTurn
  PROVE  DurationFill' /\ AllObey(cut, counts')
<1> DEFINE k == taken + 1
           c == cut
<1>1. /\ Opens \in Nat /\ Opens >= 1 /\ Opens = taken - current_count + 1
      /\ taken \in Nat /\ current_count \in Nat /\ taken < Len(c.samples)
      /\ counts \in Seq(Nat) /\ Len(counts) \in Nat /\ Total(counts) = Opens - 1
      /\ counts # << >> => Opens > 1
      /\ c.samples \in Seq(ChunkSample) /\ Len(c.samples) \in Nat
      /\ c.target \in Nat \ {0} /\ c.start_time \in Int
  BY Opening DEF DurationTurn, HasSample
<1>2. /\ cut' = cut /\ taken' = k /\ clock' = clock + c.samples[k].duration
      /\ clock' >= boundary =>
           /\ counts' = Append(counts, current_count + 1) /\ current_count' = 0
           /\ boundary' = c.target * ((clock' \div c.target) + 1)
      /\ ~ (clock' >= boundary) =>
           current_count' = current_count + 1 /\ counts' = counts /\ boundary' = boundary
  BY DEF DurationTurn, NextSample, fixedVars, BoundaryAfter
<1>3. PICK q \in Nat :
       /\ boundary = c.target * q + c.target
       /\ taken > 0 => clock < boundary
       /\ counts # << >> => clock >= c.target * q
       /\ counts = << >> => q = 0
       /\ \A j \in Opens..taken : TargetOf(c, j) = q
       /\ Len(counts) >= 2 => TargetOf(c, Opens - 1) < q
  BY DEF DurationFill
<1>4. /\ k \in 1..Len(c.samples) /\ k \in 1..(Len(c.samples) + 1)
      /\ k + 1 \in 1..(Len(c.samples) + 1)
  BY <1>1
<1>5. /\ StartIn(c, k + 1) = StartIn(c, k) + c.samples[k].duration
      /\ c.samples[k].duration \in Nat /\ StartIn(c, k) \in Nat /\ StartIn(c, k + 1) \in Nat
  BY <1>1, <1>4, StartsAddUp
<1>6. /\ clock = StartIn(c, k) + c.start_time
      /\ clock' = StartIn(c, k + 1) + c.start_time /\ clock \in Int /\ clock' \in Int
      /\ clock <= clock'
  <2>1. clock = StartIn(c, k) + c.start_time
    BY DEF DurationFill
  <2> DEFINE d == c.samples[k].duration
             a == StartIn(c, k)
             b == StartIn(c, k + 1)
             t == c.start_time
  <2>2. clock = a + t /\ clock' = clock + d /\ b = a + d
    BY <1>2, <1>5, <2>1
  <2>3. a \in Nat /\ d \in Nat /\ t \in Int
    BY <1>1, <1>5
  <2> HIDE DEF a, b, d, t, k, c
  <2>4. clock' = b + t /\ clock \in Int /\ clock' \in Int /\ clock <= clock'
    BY <2>2, <2>3
  <2> QED BY <2>1, <2>4 DEF b, t
<1>7. c.target * q \in Nat /\ boundary \in Nat
  <2>1. c.target \in Nat /\ boundary = c.target * q + c.target
    BY <1>1, <1>3
  <2> DEFINE t == c.target
  <2>2. t \in Nat /\ q \in Nat
    BY <2>1
  <2> HIDE DEF c, t
  <2>3. t * q \in Nat
    BY <2>2
  <2> QED BY <2>1, <2>2, <2>3 DEF t
<1>8. ASSUME clock < boundary PROVE TargetOf(c, k) = q
  <2>1. clock < c.target * q + c.target
    BY <1>3, <1>8
  <2>2. clock >= c.target * q \/ q = 0
    BY <1>3
  <2>3. PeriodOf(clock, c.target) = q
    BY <1>1, <1>6, <2>1, <2>2, PeriodIs
  <2> QED BY <1>6, <2>3 DEF TargetOf
<1>9. ASSUME clock < boundary PROVE \A j \in Opens..k : TargetOf(c, j) = q
  <2>1. \A j \in Opens..k : j \in Opens..taken \/ j = k
    BY <1>1
  <2> QED BY <1>3, <1>8, <1>9, <2>1
<1> HIDE DEF c
<1>10. CASE ~ (clock' >= boundary)
  <2>1. clock < boundary /\ clock' < boundary
    BY <1>6, <1>7, <1>10
  <2>2. counts' = counts /\ boundary' = boundary /\ Opens' = Opens
    BY <1>2, <1>10 DEF Opens
  <2>3. AllObey(cut, counts')
    BY <2>2
  <2>4. counts # << >> => clock' >= c.target * q
    BY <1>3, <1>6, <1>7
  <2>5. \A j \in Opens..k : TargetOf(c, j) = q
    BY <1>9, <2>1
  <2> HIDE DEF k
  <2>6. /\ boundary' = c.target * q + c.target
        /\ taken' > 0 => clock' < boundary'
        /\ counts' # << >> => clock' >= c.target * q
        /\ counts' = << >> => q = 0
        /\ \A j \in Opens'..taken' : TargetOf(c, j) = q
        /\ Len(counts') >= 2 => TargetOf(c, Opens' - 1) < q
    BY <1>2, <1>3, <2>1, <2>2, <2>4, <2>5
  <2>7. clock' = StartIn(c, taken' + 1) + c.start_time
    BY <1>2, <1>6
  <2>8. c' = c
    BY <1>2 DEF c
  <2> QED BY <2>3, <2>6, <2>7, <2>8 DEF DurationFill, c
<1>11. CASE clock' >= boundary
  <2> DEFINE r == clock' \div c.target
             m == current_count + 1
  <2>1. clock' \in Nat
    BY <1>6, <1>7, <1>11
  <2>2. /\ r \in Nat /\ c.target * r <= clock' /\ clock' < c.target * r + c.target
        /\ c.target * (r + 1) = c.target * r + c.target
    BY <1>1, <2>1, DivisionIs
  <2>3. /\ counts' = Append(counts, m) /\ m \in Nat /\ current_count' = 0
        /\ boundary' = c.target * (r + 1)
    BY <1>1, <1>2, <1>11 DEF c
  <2> HIDE DEF r
  <2>4. r > q
    <3> SUFFICES ASSUME r <= q PROVE FALSE
      BY <2>2
    <3>1. c.target * r \in Nat
      BY <1>1, <2>2
    <3>2. c.target * r <= c.target * q
      <4>1. CASE r = q
        BY <1>7, <4>1
      <4>2. CASE r < q
        <5>1. c.target * r + c.target <= c.target * q
          BY <1>1, <2>2, <4>2, MultiplesGrow
        <5> QED BY <1>1, <1>7, <3>1, <5>1
      <4> QED BY <2>2, <4>1, <4>2
    <3>3. clock' < c.target * q + c.target
      <4> DEFINE x == c.target * r
                 y == c.target * q
                 z == c.target
      <4>1. x \in Nat /\ y \in Nat /\ z \in Nat /\ x <= y /\ clock' < x + z /\ clock' \in Int
        BY <1>1, <1>6, <1>7, <2>2, <3>1, <3>2
      <4> HIDE DEF x, y, z
      <4>2. clock' < y + z
        BY <4>1
      <4> QED BY <4>2 DEF y, z
    <3>4. clock' >= c.target * q + c.target
      BY <1>3, <1>11 DEF c
    <3> QED BY <1>1, <1>6, <1>7, <3>3, <3>4
  <2>5. taken = 0 => Opens = 1 /\ k = 1 /\ Len(counts) = 0
    BY <1>1
  <2>6. taken > 0 => clock < boundary
    BY <1>3
  <2>7. Obeys(c, Opens, k)
    <3>1. \A j \in Opens..k : TargetOf(c, j) = TargetOf(c, Opens)
      <4>1. CASE taken = 0
        <5>1. \A j \in Opens..k : j = Opens
          BY <2>5, <4>1
        <5> QED BY <5>1
      <4>2. CASE taken > 0
        <5>1. \A j \in Opens..k : TargetOf(c, j) = q
          BY <1>9, <2>6, <4>2
        <5>2. Opens \in Opens..k
          BY <1>1
        <5> QED BY <5>1, <5>2
      <4> QED BY <1>1, <4>1, <4>2
    <3> QED BY <3>1 DEF Obeys, SyncRules, c
  <2>8. ASSUME Len(counts) >= 2 PROVE LiesBeyond(c, Opens)
    <3>1. taken > 0
      BY <1>1, <2>5, <2>8
    <3>2. Opens \in Opens..k
      BY <1>1
    <3>3. TargetOf(c, Opens) = q /\ TargetOf(c, Opens - 1) < q
      BY <1>3, <1>9, <2>6, <2>8, <3>1, <3>2
    <3> QED BY <3>3 DEF LiesBeyond
  <2>9. AllObey(c, counts')
    <3>1. Opens = Total(counts) + 1 /\ k = Total(counts) + m /\ AllObey(c, counts)
      BY <1>1 DEF Opens, c
    <3> HIDE DEF k, m
    <3>2. AllObey(c, Append(counts, m))
      BY <1>1, <2>3, <2>7, <2>8, <3>1, PushObeys
    <3> QED BY <2>3, <3>2
  <2>10. Total(counts') = k /\ Len(counts') = Len(counts) + 1 /\ counts' # << >>
    <3> HIDE DEF m
    <3>1. Total(counts') = Total(counts) + m /\ Len(counts') = Len(counts) + 1
      BY <1>1, <2>3, TotalOfAppend
    <3>2. counts' # << >>
      BY <1>1, <2>3, <3>1
    <3> QED BY <1>1, <3>1, <3>2 DEF m
  <2>11. Opens' = k + 1
    BY <2>10 DEF Opens
  <2>12. ASSUME Len(counts') >= 2 PROVE TargetOf(c, k) < r
    <3>1. counts # << >>
      BY <1>1, <2>10, <2>12
    <3>2. taken > 0
      BY <1>1, <3>1
    <3> QED BY <1>8, <2>2, <2>4, <2>6, <3>2
  <2>13. k \in Nat /\ (k + 1) - 1 = k /\ (k + 1)..k = {}
    BY <1>1
  <2> HIDE DEF k
  <2>14. /\ boundary' = c.target * r + c.target
         /\ taken' > 0 => clock' < boundary'
         /\ counts' # << >> => clock' >= c.target * r
         /\ counts' = << >> => r = 0
         /\ \A j \in Opens'..taken' : TargetOf(c, j) = r
         /\ Len(counts') >= 2 => TargetOf(c, Opens' - 1) < r
    <3>1. boundary' = c.target * r + c.target
      BY <2>2, <2>3
    <3>2. clock' >= c.target * r
      BY <1>1, <1>6, <2>2
    <3> QED BY <1>2, <2>2, <2>10, <2>11, <2>12, <2>13, <3>1, <3>2
  <2>15. clock' = StartIn(c, taken' + 1) + c.start_time
    BY <1>2, <1>6
  <2>16. c' = c
    BY <1>2 DEF c
  <2> QED BY <2>2, <2>9, <2>14, <2>15, <2>16 DEF DurationFill, c
<1> QED BY <1>10, <1>11

(* The samples of one request do not change while they are cut.            *)
LEMMA TakeMoves ==
  ASSUME CountsInv, IsCounting, NEW b \in BOOLEAN, TakeSample(b), HasSample, cut' = cut
  PROVE  /\ taken' = taken + 1 /\ current_count' = IF b THEN 1 ELSE current_count + 1
         /\ counts' = IF b THEN Append(counts, current_count) ELSE counts
         /\ Opens' = IF b THEN taken + 1 ELSE Opens
         /\ taken + 1 \in 1..Len(cut.samples)
         /\ StartIn(cut, taken + 2) = StartIn(cut, taken + 1) + NextSample.duration
         /\ StartIn(cut, taken + 1) \in Nat /\ NextSample.duration \in Nat
         /\ clock' = clock + NextSample.duration
<1>1. /\ Opens \in Nat /\ Opens >= 1 /\ Opens = taken - current_count + 1
      /\ taken \in Nat /\ current_count \in Nat /\ Total(counts) = Opens - 1
      /\ counts \in Seq(Nat) /\ Len(cut.samples) \in Nat /\ taken < Len(cut.samples)
      /\ cut.samples \in Seq(ChunkSample)
  BY Opening DEF HasSample
<1>2. /\ taken' = taken + 1 /\ current_count' = IF b THEN 1 ELSE current_count + 1
      /\ counts' = IF b THEN Append(counts, current_count) ELSE counts
      /\ clock' = clock + NextSample.duration
  BY DEF TakeSample
<1>3. Opens' = IF b THEN taken + 1 ELSE Opens
  <2>1. CASE b
    <3>1. Total(Append(counts, current_count)) = Total(counts) + current_count
      BY <1>1, TotalOfAppend
    <3>2. Total(counts') = taken
      BY <1>1, <1>2, <2>1, <3>1
    <3> QED BY <2>1, <3>2 DEF Opens
  <2>2. CASE ~ b
    BY <1>2, <2>2 DEF Opens
  <2> QED BY <2>1, <2>2
<1>4. taken + 1 \in 1..Len(cut.samples) /\ (taken + 1) + 1 = taken + 2
      /\ taken + 1 \in 1..(Len(cut.samples) + 1)
  BY <1>1
<1> DEFINE k == taken + 1
           c == cut
<1>5. /\ StartIn(c, k + 1) = StartIn(c, k) + c.samples[k].duration
      /\ StartIn(c, k) \in Nat /\ c.samples[k].duration \in Nat
  <2> HIDE DEF k, c
  <2>1. k \in 1..Len(c.samples) /\ k \in 1..(Len(c.samples) + 1)
    BY <1>4 DEF k, c
  <2> QED BY <2>1, <1>1, StartsAddUp DEF c
<1>6. NextSample.duration = c.samples[k].duration
  BY DEF NextSample
<1> QED BY <1>2, <1>3, <1>4, <1>5, <1>6

(* A chunk that is cut obeys, and the chunks pushed with it.               *)
LEMMA CutObeys ==
  ASSUME CountsInv, IsCounting, FillInv, AllObey(cut, counts), NEW b \in BOOLEAN,
         b => current_count # 0,
         counts' = IF b THEN Append(counts, current_count) ELSE counts
  PROVE  AllObey(cut, counts')
<1>1. CASE ~ b
  BY <1>1
<1>2. CASE b
  <2>1. /\ Opens = Total(counts) + 1 /\ taken = Total(counts) + current_count
        /\ counts \in Seq(Nat) /\ current_count \in Nat /\ current_count > 0
    <3>1. /\ Opens \in Nat /\ Opens = taken - current_count + 1 /\ taken \in Nat
          /\ current_count \in Nat /\ Total(counts) = Opens - 1 /\ counts \in Seq(Nat)
      BY Opening
    <3>2. Opens = Total(counts) + 1 /\ taken = Total(counts) + current_count
      BY <3>1
    <3> QED BY <1>2, <3>1, <3>2
  <2>2. /\ Obeys(cut, Opens, taken)
        /\ Len(counts) >= 2 => LiesBeyond(cut, Opens)
    BY <2>1, FillObeys
  <2>3. AllObey(cut, Append(counts, current_count))
    BY <2>1, <2>2, PushObeys
  <2> QED BY <1>2, <2>3
<1> QED BY <1>1, <1>2

(* Capped: what the chunk lasts is the time from its first sample to the   *)
(* next one.                                                               *)
LEMMA CappedTurnObeys ==
  ASSUME CountsInv, IsCounting, cut.rule = "capped", CappedFill, CappedTurn
  PROVE  CappedFill'
<1> DEFINE full == current_count # 0 /\ chunk_duration + NextSample.duration > cut.target
           d == NextSample.duration
<1>1. full \in BOOLEAN /\ TakeSample(full) /\ HasSample /\ cut' = cut
      /\ chunk_duration' = d + (IF full THEN 0 ELSE chunk_duration)
  BY DEF CappedTurn, fixedVars
<1>2. /\ taken' = taken + 1 /\ current_count' = IF full THEN 1 ELSE current_count + 1
      /\ Opens' = IF full THEN taken + 1 ELSE Opens
      /\ StartIn(cut, taken + 2) = StartIn(cut, taken + 1) + d
      /\ StartIn(cut, taken + 1) \in Nat /\ d \in Nat
  <2> HIDE DEF full
  <2> QED BY <1>1, TakeMoves
<1>3. /\ Opens \in Nat /\ Opens >= 1 /\ Opens = taken - current_count + 1
      /\ taken \in Nat /\ current_count \in Nat /\ cut.target \in Nat \ {0}
      /\ taken < Len(cut.samples) /\ cut.samples \in Seq(ChunkSample)
      /\ Len(cut.samples) \in Nat
  BY <1>1, Opening DEF HasSample
<1>4. StartIn(cut, Opens) \in Nat
  <2>1. Opens \in 1..(Len(cut.samples) + 1)
    BY <1>3
  <2> QED BY <1>3, <2>1, StartsAddUp
<1>5. /\ chunk_duration = StartIn(cut, taken + 1) - StartIn(cut, Opens)
      /\ current_count > 1 => chunk_duration <= cut.target
  BY DEF CappedFill
<1>6. taken' + 1 = taken + 2
  BY <1>2, <1>3
<1>7. CASE full
  <2>1. chunk_duration' = d /\ current_count' = 1 /\ Opens' = taken + 1
    BY <1>1, <1>2, <1>7
  <2> HIDE DEF d, full
  <2>2. chunk_duration' = StartIn(cut, taken + 2) - StartIn(cut, taken + 1)
    BY <1>2, <2>1
  <2> QED BY <1>1, <1>6, <2>1, <2>2 DEF CappedFill
<1>8. CASE ~ full
  <2>1. /\ chunk_duration' = d + chunk_duration /\ current_count' = current_count + 1
        /\ Opens' = Opens
    BY <1>1, <1>2, <1>8
  <2>2. chunk_duration \in Int
    BY <1>2, <1>4, <1>5
  <2>3. current_count' > 1 => chunk_duration' <= cut.target
    <3> SUFFICES ASSUME current_count' > 1 PROVE chunk_duration' <= cut.target
      OBVIOUS
    <3>1. current_count # 0
      BY <1>3, <2>1
    <3>2. ~ (chunk_duration + d > cut.target)
      BY <1>8, <3>1
    <3> QED BY <1>2, <1>3, <2>1, <2>2, <3>2
  <2> HIDE DEF d, full
  <2>4. chunk_duration' = StartIn(cut, taken + 2) - StartIn(cut, Opens)
    BY <1>2, <1>4, <1>5, <2>1
  <2> QED BY <1>1, <1>6, <2>1, <2>3, <2>4 DEF CappedFill
<1> QED BY <1>7, <1>8

(* On sync samples: a chunk behind another is opened by one.               *)
LEMMA SyncTurnObeys ==
  ASSUME CountsInv, IsCounting, SyncFill, HasSample, cut' = cut, NEW b \in BOOLEAN,
         TakeSample(b), b => MayStart
  PROVE  SyncFill'
<1>1. /\ taken' = taken + 1 /\ current_count' = IF b THEN 1 ELSE current_count + 1
      /\ Opens' = IF b THEN taken + 1 ELSE Opens
  BY TakeMoves
<1>2. current_count \in Nat
  BY Opening
<1>3. current_count' # 0
  BY <1>1, <1>2
<1>4. Opens' > 1 => cut.samples[Opens'].sync
  <2>1. CASE b
    BY <1>1, <2>1 DEF MayStart, NextSample
  <2>2. CASE ~ b
    BY <1>1, <2>2 DEF SyncFill
  <2> QED BY <2>1, <2>2
<1> QED BY <1>3, <1>4 DEF SyncFill

(* In fragments: a segment starts with the first sample that lies beyond   *)
(* the current one, so that no chunk holds samples of two.                 *)
LEMMA FragmentedTurnObeys ==
  ASSUME CountsInv, IsCounting, cut.rule = "fragmented", FragmentedFill, FragmentedTurn
  PROVE  FragmentedFill'
<1> DEFINE k == taken + 1
           period == SegmentOf(cut, k)
<1>1. /\ Opens \in Nat /\ Opens >= 1 /\ Opens = taken - current_count + 1
      /\ taken \in Nat /\ current_count \in Nat /\ taken < Len(cut.samples)
      /\ cut.samples \in Seq(ChunkSample) /\ Len(cut.samples) \in Nat
      /\ cut.segment_target \in Nat \ {0} /\ cut.start_time \in Int
      /\ HasSample /\ cut' = cut
  BY Opening DEF FragmentedTurn, HasSample, fixedVars
<1>2. /\ clock = StartIn(cut, k) /\ segment \in Nat
      /\ current_count = 0 => taken = 0 /\ segment = 0
      /\ current_count > 0 => SegmentOf(cut, taken) >= segment
      /\ \A j, m \in Opens..taken : SegmentOf(cut, j) = SegmentOf(cut, m)
  BY DEF FragmentedFill
<1>3. ASSUME NEW b \in BOOLEAN, TakeSample(b)
      PROVE  /\ taken' = k /\ current_count' = IF b THEN 1 ELSE current_count + 1
             /\ Opens' = IF b THEN k ELSE Opens
             /\ clock' = StartIn(cut, taken' + 1)
  <2>1. /\ taken' = taken + 1 /\ current_count' = IF b THEN 1 ELSE current_count + 1
        /\ Opens' = IF b THEN taken + 1 ELSE Opens
        /\ StartIn(cut, taken + 2) = StartIn(cut, taken + 1) + NextSample.duration
        /\ clock' = clock + NextSample.duration
    BY <1>1, <1>3, TakeMoves
  <2>2. taken' + 1 = taken + 2
    BY <1>1, <2>1
  <2> QED BY <1>2, <2>1, <2>2
<1>4. period \in Nat
  <2> DEFINE t == StartIn(cut, k) + cut.start_time
             d == cut.segment_target
  <2>1. StartIn(cut, k) \in Nat
    <3> HIDE DEF k
    <3>1. k \in 1..(Len(cut.samples) + 1)
      BY <1>1 DEF k
    <3> QED BY <1>1, <3>1, StartsAddUp
  <2>2. t \in Int /\ t <= t /\ d \in Nat \ {0}
    BY <1>1, <2>1
  <2>3. period = PeriodOf(t, d)
    BY DEF SegmentOf
  <2> HIDE DEF t, d, period
  <2>4. PeriodOf(t, d) \in Nat
    BY <2>2, PeriodsGrow
  <2> QED BY <2>3, <2>4
<1>5. taken > 0 => SegmentOf(cut, taken) \in Nat /\ SegmentOf(cut, taken) <= period
  <2> SUFFICES ASSUME taken > 0
               PROVE  SegmentOf(cut, taken) \in Nat /\ SegmentOf(cut, taken) <= period
    OBVIOUS
  <2> DEFINE t == StartIn(cut, taken) + cut.start_time
             u == StartIn(cut, k) + cut.start_time
             d == cut.segment_target
  <2>1. /\ taken \in 1..Len(cut.samples) /\ taken \in 1..(Len(cut.samples) + 1)
    BY <1>1
  <2>2. /\ StartIn(cut, k) = StartIn(cut, taken) + cut.samples[taken].duration
        /\ cut.samples[taken].duration \in Nat /\ StartIn(cut, taken) \in Nat
    BY <1>1, <2>1, StartsAddUp
  <2>3. t \in Int /\ u \in Int /\ t <= u /\ d \in Nat \ {0}
    <3> DEFINE a == StartIn(cut, taken)
               b == StartIn(cut, k)
               e == cut.samples[taken].duration
               f == cut.start_time
    <3>1. a \in Nat /\ e \in Nat /\ f \in Int /\ b = a + e /\ t = a + f /\ u = b + f
      BY <1>1, <2>2
    <3> HIDE DEF a, b, e, f, t, u
    <3>2. t \in Int /\ u \in Int /\ t <= u
      BY <3>1
    <3> QED BY <1>1, <3>2
  <2>4. SegmentOf(cut, taken) = PeriodOf(t, d) /\ period = PeriodOf(u, d)
    BY DEF SegmentOf
  <2> HIDE DEF t, u, d, period
  <2>5. PeriodOf(t, d) \in Nat /\ PeriodOf(t, d) <= PeriodOf(u, d)
    BY <2>3, PeriodsGrow
  <2> QED BY <2>4, <2>5
<1>6. k \in Nat /\ k..k = {k} /\ k > 0
  BY <1>1
<1> HIDE DEF k, period
<1>7. ASSUME taken' = k, current_count' = 1, Opens' = k, clock' = StartIn(cut, taken' + 1),
             segment' \in Nat, segment' <= period
      PROVE  FragmentedFill'
  <2>1. SegmentOf(cut, taken') >= segment'
    BY <1>4, <1>7 DEF period
  <2>2. \A j, m \in Opens'..taken' : SegmentOf(cut, j) = SegmentOf(cut, m)
    BY <1>6, <1>7
  <2>3. current_count' # 0
    BY <1>7
  <2> QED BY <1>1, <1>7, <2>1, <2>2, <2>3 DEF FragmentedFill
<1>8. CASE current_count = 0
  <2>1. StayInFragment
    BY <1>8 DEF FragmentedTurn
  <2>2. TakeSample(FALSE) /\ segment' = segment
    BY <2>1 DEF StayInFragment, segmentVars
  <2>3. /\ taken' = k /\ current_count' = current_count + 1 /\ Opens' = Opens
        /\ clock' = StartIn(cut, taken' + 1)
    BY <1>3, <2>2
  <2>4. current_count' = 1 /\ Opens' = k /\ segment' \in Nat /\ segment' <= period
    BY <1>1, <1>2, <1>4, <1>8, <2>2, <2>3 DEF k
  <2> QED BY <1>7, <2>3, <2>4
<1>9. CASE current_count # 0
  <2>1. AskSample(PeriodOf(clock + cut.start_time, cut.segment_target),
                  clock, clock - segment_start)
    BY <1>9 DEF FragmentedTurn
  <2>2. PeriodOf(clock + cut.start_time, cut.segment_target) = period
    BY <1>2 DEF period, SegmentOf
  <2>3. AskSample(period, clock, clock - segment_start)
    BY <2>1, <2>2
  <2>4. taken > 0 /\ SegmentOf(cut, taken) >= segment
    BY <1>1, <1>2, <1>9
  <2>5. segment <= period
    BY <1>2, <1>4, <1>5, <2>4
  <2>6. CASE StartSegment(clock, period)
    <3>1. TakeSample(TRUE) /\ segment' = period
      BY <2>6 DEF StartSegment
    <3>2. /\ taken' = k /\ current_count' = 1 /\ Opens' = k
          /\ clock' = StartIn(cut, taken' + 1)
      BY <1>3, <3>1
    <3>3. segment' \in Nat /\ segment' <= period
      BY <1>4, <3>1
    <3> QED BY <1>7, <3>2, <3>3
  <2>7. CASE StartFragment((clock - segment_start) \div cut.target)
    <3>1. TakeSample(TRUE) /\ segment' = segment
      BY <2>7 DEF StartFragment
    <3>2. /\ taken' = k /\ current_count' = 1 /\ Opens' = k
          /\ clock' = StartIn(cut, taken' + 1)
      BY <1>3, <3>1
    <3>3. segment' \in Nat /\ segment' <= period
      BY <1>2, <2>5, <3>1
    <3> QED BY <1>7, <3>2, <3>3
  <2>8. CASE period = segment /\ StayInFragment
    <3>1. TakeSample(FALSE) /\ segment' = segment
      BY <2>8 DEF StayInFragment, segmentVars
    <3>2. /\ taken' = k /\ current_count' = current_count + 1 /\ Opens' = Opens
          /\ clock' = StartIn(cut, taken' + 1)
      BY <1>3, <3>1
    <3>3. SegmentOf(cut, taken) = segment /\ SegmentOf(cut, k) = segment
      BY <1>2, <1>4, <1>5, <2>4, <2>8 DEF period
    <3>4. ASSUME NEW j \in Opens'..taken' PROVE SegmentOf(cut, j) = segment
      <4>1. taken \in Opens..taken
        BY <1>1, <1>9
      <4>2. j = k \/ j \in Opens..taken
        BY <1>1, <3>2 DEF k
      <4>3. j \in Opens..taken => SegmentOf(cut, j) = SegmentOf(cut, taken)
        BY <1>2, <4>1
      <4> QED BY <3>3, <4>2, <4>3
    <3>5. \A j, m \in Opens'..taken' : SegmentOf(cut, j) = SegmentOf(cut, m)
      BY <3>4
    <3>6. SegmentOf(cut, taken') >= segment' /\ segment' \in Nat
      BY <1>2, <3>1, <3>2, <3>3
    <3>7. current_count' # 0
      BY <1>1, <3>2
    <3> QED BY <1>1, <3>2, <3>5, <3>6, <3>7 DEF FragmentedFill
  <2> QED BY <2>3, <2>6, <2>7, <2>8 DEF AskSample
<1> QED BY <1>1, <1>8, <1>9

(* A request starts with no chunk to obey, and its clocks at the start.    *)
LEMMA BeginObeys ==
  ASSUME NEW request, IsSound(request), Begin(request)
  PROVE  RulesInv'
<1>1. /\ cut' = request /\ cut_stage' = "sampling" /\ taken' = 0 /\ current_count' = 0
      /\ counts' = << >> /\ boundary' = request.target /\ segment' = 0
      /\ clock' = (IF request.rule = "duration" THEN request.start_time ELSE 0)
      /\ chunk_duration' = 0
  BY DEF Begin
<1>2. /\ request.samples \in Seq(ChunkSample) /\ request.target \in Nat \ {0}
      /\ request.start_time \in Int
  BY DEF IsSound
<1>3. Total(<< >>) = 0 /\ Len(<< >>) = 0
  <2>1. << >> \in Seq(Nat) /\ Len(<< >>) = 0
    OBVIOUS
  <2> QED BY <2>1, TotalIs
<1>4. Opens' = 1
  BY <1>1, <1>3 DEF Opens
<1>5. StartIn(request, 1) = 0
  BY <1>2, StartsAddUp
<1>6. AllObey(cut', counts')
  BY <1>1, <1>3 DEF AllObey
<1>7. taken' + 1 = 1 /\ Opens'..taken' = {} /\ Len(counts') = 0
  BY <1>1, <1>3, <1>4
<1>8. ASSUME request.rule = "duration" PROVE DurationFill'
  <2>1. clock' = StartIn(cut', taken' + 1) + cut'.start_time
    BY <1>1, <1>2, <1>5, <1>7, <1>8
  <2>2. boundary' = cut'.target * 0 + cut'.target /\ 0 \in Nat
    BY <1>1, <1>2
  <2> QED BY <1>1, <1>7, <2>1, <2>2 DEF DurationFill
<1>9. ASSUME request.rule = "capped" PROVE CappedFill'
  BY <1>1, <1>4, <1>5, <1>7 DEF CappedFill
<1>10. ASSUME request.rule = "fragmented" PROVE FragmentedFill'
  BY <1>1, <1>5, <1>7, <1>10 DEF FragmentedFill
<1>11. SyncFill'
  BY <1>1, <1>4 DEF SyncFill
<1> QED BY <1>1, <1>6, <1>8, <1>9, <1>10, <1>11 DEF RulesInv, FillInv

(* Rules that promise nothing are obeyed by every chunk.                   *)
LEMMA OthersObey ==
  ASSUME NEW c, NEW n,
         c.rule \notin {"duration", "capped", "fragmented"} \cup SyncRules
  PROVE  AllObey(c, n)
BY DEF AllObey, Obeys, LiesBeyond

(* Each turn leaves the chunks, and the one being filled, as promised.     *)
LEMMA TurnObeys ==
  ASSUME CountsInv, CountsInv', RulesInv, CutStep,
         cut_stage = "sampling", cut_stage' = "sampling"
  PROVE  RulesInv'
<1>1. IsCounting /\ IsCounting' /\ FillInv /\ AllObey(cut, counts)
  BY DEF IsCounting, RulesInv
<1>2. cut' = cut
  BY DEF CutStep, DurationTurn, CappedTurn, PreviousSampleTurn, FragmentedTurn,
     SyncFragmentedTurn, SyncSegmentTurn, FollowVideoChunk, AuthorityTurn,
     LeaveVideoChunk, TakeRest, Vp08Chunks, CloseLoop, AdjustCounts, fixedVars
<1>3. SUFFICES AllObey(cut, counts') /\ FillInv'
  BY <1>2 DEF RulesInv
<1>4. ASSUME cut.rule \notin {"duration", "capped", "fragmented"} \cup SyncRules
      PROVE  AllObey(cut, counts') /\ FillInv'
  <2>1. AllObey(cut, counts')
    BY <1>4, OthersObey
  <2> QED BY <1>2, <1>4, <2>1 DEF FillInv
<1>5. CASE DurationTurn
  <2>1. cut.rule = "duration"
    BY <1>5 DEF DurationTurn, RuleIs
  <2>2. DurationFill' /\ AllObey(cut, counts')
    BY <1>1, <1>5, <2>1, DurationTurnObeys DEF FillInv
  <2> QED BY <1>2, <2>1, <2>2 DEF FillInv, SyncRules
<1>6. CASE CappedTurn
  <2>1. cut.rule = "capped"
    BY <1>6 DEF CappedTurn, RuleIs
  <2>2. CappedFill'
    BY <1>1, <1>6, <2>1, CappedTurnObeys DEF FillInv
  <2>3. PICK b \in BOOLEAN : TakeSample(b) /\ (b => current_count # 0)
    BY <1>6 DEF CappedTurn
  <2>4. counts' = IF b THEN Append(counts, current_count) ELSE counts
    BY <2>3 DEF TakeSample
  <2>5. AllObey(cut, counts')
    BY <1>1, <2>3, <2>4, CutObeys
  <2> QED BY <1>2, <2>1, <2>2, <2>5 DEF FillInv, SyncRules
<1>7. ASSUME NEW b \in BOOLEAN, TakeSample(b), HasSample, b => MayStart,
             cut.rule \in SyncRules
      PROVE  AllObey(cut, counts') /\ FillInv'
  <2>1. SyncFill'
    BY <1>1, <1>2, <1>7, SyncTurnObeys DEF FillInv
  <2>2. counts' = IF b THEN Append(counts, current_count) ELSE counts
    BY <1>7 DEF TakeSample
  <2>3. b => current_count # 0
    BY <1>7 DEF MayStart
  <2>4. AllObey(cut, counts')
    BY <1>1, <2>2, <2>3, CutObeys
  <2> QED BY <1>2, <1>7, <2>1, <2>4 DEF FillInv, SyncRules
<1>8. CASE SyncSegmentTurn
  <2>1. PICK b \in BOOLEAN : TakeSample(b) /\ (b => MayStart)
    BY <1>8 DEF SyncSegmentTurn
  <2>2. HasSample /\ cut.rule \in SyncRules
    BY <1>8 DEF SyncSegmentTurn, RuleIs, SyncRules
  <2> QED BY <1>7, <2>1, <2>2
<1>9. CASE SyncFragmentedTurn
  <2>1. HasSample /\ cut.rule \in SyncRules
    BY <1>9 DEF SyncFragmentedTurn, RuleIs, SyncRules
  <2>2. CASE TakeSample(FALSE)
    BY <1>7, <2>1, <2>2
  <2>3. CASE MayStart /\ TakeSample(TRUE)
    BY <1>7, <2>1, <2>3
  <2>4. TakeSample(FALSE) \/ (MayStart /\ TakeSample(TRUE))
    BY <1>9 DEF SyncFragmentedTurn, AskSample, StartSegment, StartFragment, StayInFragment
  <2> QED BY <2>2, <2>3, <2>4
<1>10. CASE FragmentedTurn
  <2>1. cut.rule = "fragmented"
    BY <1>10 DEF FragmentedTurn, RuleIs
  <2>2. FragmentedFill'
    BY <1>1, <1>10, <2>1, FragmentedTurnObeys DEF FillInv
  <2>3. PICK b \in BOOLEAN : TakeSample(b) /\ (b => current_count # 0)
    BY <1>10 DEF FragmentedTurn, AskSample, StartSegment, StartFragment, StayInFragment
  <2>4. counts' = IF b THEN Append(counts, current_count) ELSE counts
    BY <2>3 DEF TakeSample
  <2>5. AllObey(cut, counts')
    BY <1>1, <2>3, <2>4, CutObeys
  <2> QED BY <1>2, <2>1, <2>2, <2>5 DEF FillInv, SyncRules
<1>11. CASE PreviousSampleTurn \/ FollowVideoChunk \/ AuthorityTurn \/ LeaveVideoChunk
            \/ TakeRest \/ Vp08Chunks
  <2>1. cut.rule \in {"previous_sample", "authority", "vp08"}
    BY <1>11 DEF PreviousSampleTurn, FollowVideoChunk, AuthorityTurn, LeaveVideoChunk,
       TakeRest, Vp08Chunks, RuleIs
  <2> QED BY <1>4, <2>1 DEF SyncRules
<1> QED BY <1>5, <1>6, <1>8, <1>9, <1>10, <1>11 DEF CutStep, CloseLoop, AdjustCounts

(* The end of a loop pushes a chunk that obeys; what the importer does to  *)
(* the counts afterwards is no matter of the rule.                         *)
LEMMA CutStepObeys ==
  ASSUME CountsInv, CountsInv', RulesInv, CutStep
  PROVE  RulesInv'
<1>1. CASE CloseLoop
  <2>1. IsCounting /\ FillInv /\ AllObey(cut, counts)
    BY <1>1 DEF IsCounting, RulesInv, CloseLoop
  <2>2. counts' = IF current_count # 0 THEN Append(counts, current_count) ELSE counts
    BY <1>1 DEF CloseLoop
  <2> DEFINE b == current_count # 0
  <2>3. b \in BOOLEAN /\ (b => current_count # 0)
    OBVIOUS
  <2>4. counts' = IF b THEN Append(counts, current_count) ELSE counts
    BY <2>2
  <2> HIDE DEF b
  <2>5. AllObey(cut, counts')
    BY <2>1, <2>3, <2>4, CutObeys
  <2>6. cut' = cut /\ cut_stage' # "sampling"
    BY <1>1 DEF CloseLoop
  <2> QED BY <2>5, <2>6 DEF RulesInv
<1>2. CASE AdjustCounts
  BY <1>2 DEF AdjustCounts, RulesInv
<1>3. CASE ~ CloseLoop /\ ~ AdjustCounts
  <2>1. cut_stage = "sampling" /\ cut_stage' = "sampling"
    BY <1>3 DEF CutStep, DurationTurn, CappedTurn, PreviousSampleTurn, FragmentedTurn,
       SyncFragmentedTurn, SyncSegmentTurn, FollowVideoChunk, AuthorityTurn,
       LeaveVideoChunk, TakeRest, Vp08Chunks, HasSample, fixedVars
  <2> QED BY <2>1, TurnObeys
<1> QED BY <1>1, <1>2, <1>3

(* What holds of the chunks is what the rule promises of them.             *)
LEMMA ObeyingRespects ==
  ASSUME CountsInv, RulesInv
  PROVE  ChunksRespectRule
<1> SUFFICES ASSUME cut_stage = "closing", NEW i \in DOMAIN counts
             PROVE  LET chunk == ChunkSamples(i)
                    IN  /\ (cut.rule \in SyncRules /\ i > 1) => cut.samples[Min(chunk)].sync
                        /\ (cut.rule = "capped" /\ counts[i] > 1) =>
                             StartOf(Max(chunk) + 1) - StartOf(Min(chunk)) <= cut.target
                        /\ cut.rule = "duration" =>
                             /\ \A k \in chunk : TargetIn(k) = TargetIn(Min(chunk))
                             /\ i > 2 => TargetIn(Min(chunk)) > TargetIn(Min(chunk) - 1)
                        /\ cut.rule = "fragmented" =>
                             \A k, m \in chunk : PeriodIn(k) = PeriodIn(m)
  BY DEF ChunksRespectRule
<1> DEFINE a == CountBefore(counts, i - 1) + 1
           b == CountBefore(counts, i)
<1>1. /\ IsCounting /\ AllObey(cut, counts) /\ ChunksCover
      /\ counts \in Seq(Nat) /\ Len(counts) \in Nat /\ DOMAIN counts = 1..Len(counts)
  BY DEF IsCounting, RulesInv, CountsInv, ChunksCover
<1>2. i \in 1..Len(counts) /\ i \in 0..Len(counts) /\ i - 1 \in 0..Len(counts)
  BY <1>1
<1>3. /\ CountBefore(counts, i) = CountBefore(counts, i - 1) + counts[i]
      /\ CountBefore(counts, i - 1) \in Nat /\ counts[i] \in Nat /\ counts[i] > 0
  <2>1. CountBefore(counts, i) = CountBefore(counts, i - 1) + counts[i]
    BY <1>1, <1>2, TotalIs
  <2>2. CountBefore(counts, i - 1) \in Nat
    BY <1>1, <1>2, TotalIs
  <2> QED BY <1>1, <1>2, <2>1, <2>2 DEF ChunksCover
<1>4. a \in Nat /\ b \in Nat /\ a <= b /\ a >= 1 /\ b = a + counts[i] - 1
  BY <1>3
<1>5. ASSUME i > 1 PROVE a > 1
  <2> DEFINE j == i - 1
  <2>1. j \in 1..Len(counts) /\ j - 1 \in 0..Len(counts)
    BY <1>2, <1>5
  <2>2. CountBefore(counts, j) = CountBefore(counts, j - 1) + counts[j]
    BY <1>1, <2>1, TotalIs
  <2>3. CountBefore(counts, j - 1) \in Nat
    BY <1>1, <2>1, TotalIs
  <2>4. counts[j] > 0 /\ counts[j] \in Nat
    BY <1>1, <2>1 DEF ChunksCover
  <2> QED BY <1>3, <2>2, <2>3, <2>4
<1>6. Obeys(cut, a, b) /\ (i > 2 => LiesBeyond(cut, a))
  <2>1. Obeys(cut, a, b)
    BY <1>1, <1>2 DEF AllObey
  <2>2. i > 2 => i \in 3..Len(counts)
    BY <1>2
  <2> QED BY <1>1, <2>1, <2>2 DEF AllObey
<1>7. ChunkSamples(i) = a..b
  BY DEF ChunkSamples
<1> HIDE DEF a, b
<1>8. Min(a..b) = a /\ Max(a..b) = b
  <2>1. a \in a..b /\ b \in a..b /\ \A y \in a..b : y \in Nat /\ a <= y /\ y <= b
    BY <1>4
  <2>2. Min(a..b) \in a..b /\ Min(a..b) <= a
    BY <2>1 DEF Min
  <2>3. Max(a..b) \in a..b /\ Max(a..b) >= b
    BY <2>1 DEF Max
  <2> QED BY <1>4, <2>1, <2>2, <2>3
<1>9. \A k : StartOf(k) = StartIn(cut, k) /\ TargetIn(k) = TargetOf(cut, k)
  BY DEF StartOf, StartIn, TargetIn, TargetOf
<1>10. ASSUME cut.rule = "fragmented", NEW k \in a..b PROVE PeriodIn(k) = SegmentOf(cut, k)
  <2>1. cut.rule \notin SyncRules
    BY <1>10 DEF SyncRules
  <2>2. StartIn(cut, k) + cut.start_time + 0 = StartIn(cut, k) + cut.start_time
    <3>1. /\ cut.samples \in Seq(ChunkSample) /\ Len(cut.samples) \in Nat
          /\ cut.start_time \in Int /\ Total(counts) <= Len(cut.samples)
          /\ Total(counts) \in Nat
      <4>1. /\ Opens \in Nat /\ Opens = taken - current_count + 1 /\ taken \in Nat
            /\ current_count \in Nat /\ taken <= Len(cut.samples) /\ Total(counts) = Opens - 1
            /\ cut.samples \in Seq(ChunkSample) /\ Len(cut.samples) \in Nat
            /\ cut.start_time \in Int /\ Opens >= 1
        BY <1>1, Opening
      <4> QED BY <4>1
    <3>2. b <= Total(counts)
      BY <1>1, <1>2, <3>1, TotalIs DEF b
    <3>3. k \in 1..(Len(cut.samples) + 1)
      BY <1>4, <3>1, <3>2
    <3>4. StartIn(cut, k) \in Nat
      BY <3>1, <3>3, StartsAddUp
    <3> QED BY <3>1, <3>4
  <2> QED BY <1>9, <2>1, <2>2 DEF PeriodIn, SegmentOf
<1>11. (cut.rule \in SyncRules /\ i > 1) => cut.samples[a].sync
  BY <1>5, <1>6 DEF Obeys
<1>12. (cut.rule = "capped" /\ counts[i] > 1) => StartOf(b + 1) - StartOf(a) <= cut.target
  BY <1>3, <1>4, <1>6, <1>9 DEF Obeys
<1>13. cut.rule = "duration" =>
         /\ \A k \in a..b : TargetIn(k) = TargetIn(a)
         /\ i > 2 => TargetIn(a) > TargetIn(a - 1)
  BY <1>6, <1>9 DEF Obeys, LiesBeyond
<1>14. cut.rule = "fragmented" => \A k, m \in a..b : PeriodIn(k) = PeriodIn(m)
  BY <1>6, <1>10 DEF Obeys
<1> QED BY <1>7, <1>8, <1>11, <1>12, <1>13, <1>14

(* Every loop keeps its promise, for every track and target.               *)
THEOREM RulesAlwaysRespected == Spec => []ChunksRespectRule
<1>1. Init => CountingInv /\ RulesInv
  <2> SUFFICES ASSUME Init PROVE RulesInv
    BY CountingInit
  <2>1. cut_stage = "idle"
    BY DEF Init
  <2> QED BY <2>1 DEF RulesInv
<1>2. (CountingInv /\ RulesInv) /\ [Next]_vars => (CountingInv /\ RulesInv)'
  <2> SUFFICES ASSUME CountingInv, RulesInv, [Next]_vars PROVE RulesInv'
    BY CountingStep
  <2>1. CountsInv /\ CountsInv' /\ PreparesImport
    BY CountingStep DEF CountingInv
  <2>2. ASSUME UNCHANGED chunkVars PROVE RulesInv'
    BY <2>2
       DEF chunkVars, RulesInv, FillInv, DurationFill, CappedFill, FragmentedFill, SyncFill,
           Opens
  <2>3. CASE CutStep
    BY <2>1, <2>3, CutStepObeys
  <2>4. CASE AlignToVideo
    <3>1. Begin(VideoRequest(VideoTrack)) /\ job.way = "import" /\ Follows(job)
      BY <2>4 DEF AlignToVideo
    <3>2. job \in ImportJob
      BY <2>1, <3>1 DEF PreparesImport, PlannerJob
    <3> QED BY <3>1, <3>2, VideoRequestIsSound, BeginObeys
  <2>5. CASE BeginTrack
    <3>1. /\ Begin(RequestOf) /\ job \in ImportJob /\ tracks_done \in Nat
          /\ tracks_done < Len(job.tracks)
      BY <2>1, <2>5 DEF BeginTrack, HasTrack, PreparesImport
    <3> QED BY <3>1, TrackRequestIsSound, BeginObeys
  <2>6. CASE ~ CutStep /\ ~ AlignToVideo /\ ~ BeginTrack
    <3>1. UNCHANGED chunkVars
      BY <2>6 DEF Next, vars, RefuseSecondVideo, RefuseRequest, BeginTracks, KeepAlignment,
         RefuseTimes, RefuseKeptCounts, StageUncut, StageKept, StageCut, StageSamples,
         HandOver, AskPlanner
    <3> QED BY <2>2, <3>1
  <2> QED BY <2>3, <2>4, <2>5, <2>6
<1>3. CountingInv /\ RulesInv => ChunksRespectRule
  BY ObeyingRespects DEF CountingInv
<1> QED BY <1>1, <1>2, <1>3, PTL DEF Spec
-----------------------------------------------------------------------------
(* Places of a sequence, the ones up to a place, and how many they are.    *)
LEMMA PlacesAreFinite ==
  ASSUME NEW n \in Nat, NEW S, S \subseteq 1..n
  PROVE  /\ IsFiniteSet(S) /\ Cardinality(S) \in Nat
         /\ \A i : /\ IsFiniteSet({k \in S : k <= i})
                   /\ NumberIn(S, i) \in 0..Cardinality(S)
<1>1. IsFiniteSet(S)
  <2>1. IsFiniteSet(1..n)
    BY FS_Interval
  <2> QED BY <2>1, FS_Subset
<1>2. Cardinality(S) \in Nat
  BY <1>1, FS_CardinalityType
<1>3. ASSUME NEW i
      PROVE  IsFiniteSet({k \in S : k <= i}) /\ NumberIn(S, i) \in 0..Cardinality(S)
  <2> DEFINE T == {k \in S : k <= i}
  <2>1. T \in SUBSET S
    OBVIOUS
  <2> HIDE DEF T
  <2>2. IsFiniteSet(T) /\ Cardinality(T) <= Cardinality(S)
    BY <1>1, <2>1, FS_Subset
  <2>3. Cardinality(T) \in Nat
    BY <2>2, FS_CardinalityType
  <2> QED BY <1>2, <2>2, <2>3 DEF NumberIn, T
<1> QED BY <1>1, <1>2, <1>3

(* A place behind another has a greater number, and the last one bears the *)
(* number of all.                                                          *)
LEMMA NumbersGrow ==
  ASSUME NEW n \in Nat, NEW S, S \subseteq 1..n
  PROVE  /\ \A i \in S : NumberIn(S, i) \in 1..Cardinality(S)
         /\ \A i, j \in S : i < j => NumberIn(S, i) < NumberIn(S, j)
<1>1. IsFiniteSet(S) /\ Cardinality(S) \in Nat
  BY PlacesAreFinite
<1>2. \A i : /\ IsFiniteSet({k \in S : k <= i})
             /\ NumberIn(S, i) \in 0..Cardinality(S)
  BY PlacesAreFinite
<1> \A k \in S : k \in Int
  OBVIOUS
<1>3. ASSUME NEW i \in S PROVE NumberIn(S, i) \in 1..Cardinality(S)
  <2> DEFINE T == {k \in S : k <= i}
  <2>1. i \in T
    OBVIOUS
  <2>2. IsFiniteSet(T) /\ NumberIn(S, i) = Cardinality(T)
    BY <1>2 DEF NumberIn
  <2> HIDE DEF T
  <2>3. Cardinality(T) # 0
    BY <2>1, <2>2, FS_EmptySet
  <2>4. NumberIn(S, i) \in 0..Cardinality(S)
    BY <1>2
  <2> QED BY <1>1, <2>2, <2>3, <2>4
<1>4. ASSUME NEW i \in S, NEW j \in S, i < j PROVE NumberIn(S, i) < NumberIn(S, j)
  <2> DEFINE T == {k \in S : k <= i}
             U == {k \in S : k <= j}
  <2>0. \A k \in S : k <= i => k <= j
    <3>1. i \in Int /\ j \in Int
      OBVIOUS
    <3> QED BY <1>4, <3>1
  <2>1. T \in SUBSET U /\ j \in U /\ j \notin T
    <3>1. i \in Int /\ j \in Int
      OBVIOUS
    <3>2. j <= j /\ ~ (j <= i)
      BY <1>4, <3>1
    <3> QED BY <2>0, <3>2
  <2>2. /\ IsFiniteSet(T) /\ IsFiniteSet(U)
        /\ NumberIn(S, i) = Cardinality(T) /\ NumberIn(S, j) = Cardinality(U)
    BY <1>2 DEF NumberIn
  <2> HIDE DEF T, U
  <2>3. Cardinality(T) <= Cardinality(U) /\ Cardinality(T) # Cardinality(U)
    BY <2>1, <2>2, FS_Subset
  <2>4. Cardinality(T) \in Nat /\ Cardinality(U) \in Nat
    BY <2>2, FS_CardinalityType
  <2> QED BY <2>2, <2>3, <2>4
<1> QED BY <1>3, <1>4

(* Each number up to that of all is borne by a place.                      *)
LEMMA NumbersAreBorne ==
  ASSUME NEW n \in Nat, NEW S, S \subseteq 1..n, NEW m \in 1..Cardinality(S)
  PROVE  \E i \in S : NumberIn(S, i) = m
<1> DEFINE c == Cardinality(S)
           f == [i \in S |-> NumberIn(S, i)]
<1>1. IsFiniteSet(S) /\ c \in Nat
  BY PlacesAreFinite
<1>2. /\ \A i \in S : NumberIn(S, i) \in 1..c
      /\ \A i, j \in S : i < j => NumberIn(S, i) < NumberIn(S, j)
  BY NumbersGrow
<1>3. f \in [S -> 1..c]
  BY <1>2
<1>4. ASSUME NEW i \in S, NEW j \in S, f[i] = f[j] PROVE i = j
  <2>1. i \in Int /\ j \in Int
    OBVIOUS
  <2>2. f[i] = NumberIn(S, i) /\ f[j] = NumberIn(S, j)
    OBVIOUS
  <2>3. NumberIn(S, i) \in 1..c /\ NumberIn(S, i) = NumberIn(S, j)
    BY <1>2, <1>4, <2>2
  <2> HIDE DEF f, c
  <2>4. NumberIn(S, i) \in Int
    BY <1>1, <2>3
  <2>5. /\ i < j => NumberIn(S, i) < NumberIn(S, j)
        /\ j < i => NumberIn(S, j) < NumberIn(S, i)
    BY <1>2
  <2>6. ~ (i < j) /\ ~ (j < i)
    BY <2>3, <2>4, <2>5
  <2> QED BY <2>1, <2>6
<1>5. IsFiniteSet(1..c) /\ Cardinality(1..c) = c
  BY <1>1, FS_Interval
<1> HIDE DEF f
<1>6. f \in Injection(S, 1..c)
  BY <1>3, <1>4 DEF Injection, IsInjective
<1>7. f \in Surjection(S, 1..c)
  BY <1>1, <1>5, <1>6, FS_Injection
<1>8. PICK i \in S : f[i] = m
  BY <1>7 DEF Surjection
<1> QED BY <1>8 DEF f

(* A place behind all others gets the next number, and takes none away.    *)
LEMMA NumbersExtend ==
  ASSUME NEW n \in Nat, NEW S, S \subseteq 1..n, NEW m \in Int, m > n
  PROVE  /\ Cardinality(S \cup {m}) = Cardinality(S) + 1
         /\ NumberIn(S \cup {m}, m) = Cardinality(S) + 1
         /\ \A i \in Int : i < m => NumberIn(S \cup {m}, i) = NumberIn(S, i)
<1>5. \A k \in S : k \in Int /\ k < m
  OBVIOUS
<1>1. IsFiniteSet(S) /\ m \notin S
  <2>1. IsFiniteSet(S)
    BY PlacesAreFinite
  <2>2. ~ (m < m)
    OBVIOUS
  <2> QED BY <1>5, <2>1, <2>2
<1>2. Cardinality(S \cup {m}) = Cardinality(S) + 1
  BY <1>1, FS_AddElement
<1>3. {k \in S \cup {m} : k <= m} = S \cup {m}
  <2>1. \A k \in S \cup {m} : k <= m
    BY <1>5
  <2> QED BY <2>1
<1>4. ASSUME NEW i \in Int, i < m PROVE NumberIn(S \cup {m}, i) = NumberIn(S, i)
  <2>1. {k \in S \cup {m} : k <= i} = {k \in S : k <= i}
    BY <1>4, <1>5
  <2> QED BY <2>1 DEF NumberIn
<1> QED BY <1>2, <1>3, <1>4 DEF NumberIn

(* f takes the places S to the places T, in order.                         *)
Corresponds(f, S, T) ==
  /\ \A i \in S : f[i] \in T
  /\ \A i, j \in S : i < j => f[i] < f[j]
  /\ \A k \in T : \E i \in S : f[i] = k

(* Places that correspond in order bear the same numbers.                  *)
LEMMA NumbersCorrespond ==
  ASSUME NEW n \in Nat, NEW S \in SUBSET (1..n), NEW T \in SUBSET (1..n),
         NEW f, Corresponds(f, S, T)
  PROVE  /\ Cardinality(S) = Cardinality(T)
         /\ \A i \in S : NumberIn(T, f[i]) = NumberIn(S, i)
<1> USE DEF Corresponds
<1> \A k \in T : k \in Int
  OBVIOUS
<1> \A i \in S : i \in Int /\ f[i] \in Int
  <2>1. \A i \in S : i \in Int
    OBVIOUS
  <2> QED BY <2>1
<1>1. IsFiniteSet(S) /\ IsFiniteSet(T)
  BY PlacesAreFinite
<1>2. ASSUME NEW A, A \subseteq S, NEW B, IsFiniteSet(A),
             \A i \in A : f[i] \in B, \A k \in B : \E i \in A : f[i] = k
      PROVE  Cardinality(A) = Cardinality(B)
  <2> DEFINE g == [i \in A |-> f[i]]
  <2>1. g \in [A -> B] /\ \A i \in A : g[i] = f[i]
    BY <1>2
  <2> HIDE DEF g
  <2>2. ASSUME NEW i \in A, NEW j \in A, g[i] = g[j] PROVE i = j
    <3>1. i \in Int /\ j \in Int /\ i \in S /\ j \in S /\ f[i] = f[j] /\ f[i] \in Int
      BY <1>2, <2>1, <2>2
    <3>3. (i < j => f[i] < f[j]) /\ (j < i => f[j] < f[i])
      BY <3>1
    <3>2. ~ (i < j) /\ ~ (j < i)
      BY <3>1, <3>3
    <3> QED BY <3>1, <3>2
  <2>3. g \in Bijection(A, B)
    <3>1. \A k \in B : \E i \in A : g[i] = k
      BY <1>2, <2>1
    <3> QED BY <2>1, <2>2, <3>1 DEF Bijection, Injection, Surjection, IsInjective
  <2>4. ExistsBijection(A, B)
    BY <2>3 DEF ExistsBijection
  <2> QED BY <1>2, <2>4, FS_Bijection
<1>3. Cardinality(S) = Cardinality(T)
  BY <1>1, <1>2
<1>4. ASSUME NEW i \in S PROVE NumberIn(T, f[i]) = NumberIn(S, i)
  <2> DEFINE A == {k \in S : k <= i}
             B == {k \in T : k <= f[i]}
  <2>1. A \subseteq S /\ i \in Int /\ f[i] \in Int
    OBVIOUS
  <2>2. IsFiniteSet(A)
    BY PlacesAreFinite
  <2>3. ASSUME NEW k \in A PROVE f[k] \in B
    <3>1. k \in S /\ (k = i \/ k < i) /\ f[k] \in T /\ f[k] \in Int
      BY <2>1, <2>3
    <3>2. f[k] <= f[i]
      BY <2>1, <3>1
    <3> QED BY <3>1, <3>2
  <2>4. ASSUME NEW k \in B PROVE \E x \in A : f[x] = k
    <3>1. k \in T /\ k <= f[i]
      BY <2>4
    <3>2. PICK x \in S : f[x] = k
      BY <3>1
    <3>3. i < x => f[i] < f[x]
      OBVIOUS
    <3>4. x \in Int /\ ~ (i < x)
      BY <2>1, <3>1, <3>2, <3>3
    <3> QED BY <2>1, <3>2, <3>4
  <2> HIDE DEF A, B
  <2>5. Cardinality(A) = Cardinality(B)
    BY <1>2, <2>1, <2>2, <2>3, <2>4
  <2> QED BY <2>5 DEF NumberIn, A, B
<1> QED BY <1>3, <1>4
-----------------------------------------------------------------------------
(* r takes every item of s from a place of its own.                        *)
Rearranges(p, s, r) ==
  /\ Len(r) = Len(s) /\ r = [i \in DOMAIN s |-> s[p[i]]]
  /\ \A i \in DOMAIN s : p[i] \in DOMAIN s
  /\ \A k \in DOMAIN s : \E i \in DOMAIN s : p[i] = k
  /\ \A i, j \in DOMAIN s : p[i] = p[j] => i = j

(* Such places, if they are in the order of the keys.                      *)
SortsBy(p, s, keys) ==
  /\ { p[i] : i \in DOMAIN s } = DOMAIN s
  /\ \A i, j \in DOMAIN s : i < j =>
       \/ Precedes(keys[p[i]], keys[p[j]])
       \/ keys[p[i]] = keys[p[j]] /\ p[i] < p[j]

(* Each sort of the planner is a sort by its key.                          *)
LEMMA SortsByKeys ==
  ASSUME NEW s, NEW r
  PROVE  /\ r \in SortedByKey(s, SourceKey) =>
              \E p : /\ r = [i \in DOMAIN s |-> s[p[i]]]
                     /\ SortsBy(p, s, [i \in DOMAIN s |-> SourceKey(s[i])])
         /\ r \in SortedByKey(s, DecodeKey) =>
              \E p : /\ r = [i \in DOMAIN s |-> s[p[i]]]
                     /\ SortsBy(p, s, [i \in DOMAIN s |-> DecodeKey(s[i])])
         /\ r \in SortedByKey(s, TimeKey) =>
              \E p : /\ r = [i \in DOMAIN s |-> s[p[i]]]
                     /\ SortsBy(p, s, [i \in DOMAIN s |-> TimeKey(s[i])])
         /\ r \in SortedByKey(s, OrdinalKey) =>
              \E p : /\ r = [i \in DOMAIN s |-> s[p[i]]]
                     /\ SortsBy(p, s, [i \in DOMAIN s |-> OrdinalKey(s[i])])
<1>1. ASSUME NEW p, NEW keys, { p[i] : i \in DOMAIN s } = DOMAIN s
      PROVE  \A i \in DOMAIN s : p[i] \in DOMAIN s
  BY <1>1
<1>2. ASSUME r \in SortedByKey(s, SourceKey)
      PROVE  \E p : /\ r = [i \in DOMAIN s |-> s[p[i]]]
                    /\ SortsBy(p, s, [i \in DOMAIN s |-> SourceKey(s[i])])
  <2> DEFINE p == Ranking(s, SourceKey)
  <2>1. /\ r = [i \in DOMAIN s |-> s[p[i]]]
        /\ { p[i] : i \in DOMAIN s } = DOMAIN s
        /\ \A i, j \in DOMAIN s : i < j => ComesBefore(s, SourceKey, p[i], p[j])
    BY <1>2 DEF SortedByKey
  <2> HIDE DEF p
  <2>2. \A i \in DOMAIN s : p[i] \in DOMAIN s
    BY <2>1
  <2> QED BY <2>1, <2>2 DEF SortsBy, ComesBefore
<1>3. ASSUME r \in SortedByKey(s, DecodeKey)
      PROVE  \E p : /\ r = [i \in DOMAIN s |-> s[p[i]]]
                    /\ SortsBy(p, s, [i \in DOMAIN s |-> DecodeKey(s[i])])
  <2> DEFINE p == Ranking(s, DecodeKey)
  <2>1. /\ r = [i \in DOMAIN s |-> s[p[i]]]
        /\ { p[i] : i \in DOMAIN s } = DOMAIN s
        /\ \A i, j \in DOMAIN s : i < j => ComesBefore(s, DecodeKey, p[i], p[j])
    BY <1>3 DEF SortedByKey
  <2> HIDE DEF p
  <2>2. \A i \in DOMAIN s : p[i] \in DOMAIN s
    BY <2>1
  <2> QED BY <2>1, <2>2 DEF SortsBy, ComesBefore
<1>4. ASSUME r \in SortedByKey(s, TimeKey)
      PROVE  \E p : /\ r = [i \in DOMAIN s |-> s[p[i]]]
                    /\ SortsBy(p, s, [i \in DOMAIN s |-> TimeKey(s[i])])
  <2> DEFINE p == Ranking(s, TimeKey)
  <2>1. /\ r = [i \in DOMAIN s |-> s[p[i]]]
        /\ { p[i] : i \in DOMAIN s } = DOMAIN s
        /\ \A i, j \in DOMAIN s : i < j => ComesBefore(s, TimeKey, p[i], p[j])
    BY <1>4 DEF SortedByKey
  <2> HIDE DEF p
  <2>2. \A i \in DOMAIN s : p[i] \in DOMAIN s
    BY <2>1
  <2> QED BY <2>1, <2>2 DEF SortsBy, ComesBefore
<1>5. ASSUME r \in SortedByKey(s, OrdinalKey)
      PROVE  \E p : /\ r = [i \in DOMAIN s |-> s[p[i]]]
                    /\ SortsBy(p, s, [i \in DOMAIN s |-> OrdinalKey(s[i])])
  <2> DEFINE p == Ranking(s, OrdinalKey)
  <2>1. /\ r = [i \in DOMAIN s |-> s[p[i]]]
        /\ { p[i] : i \in DOMAIN s } = DOMAIN s
        /\ \A i, j \in DOMAIN s : i < j => ComesBefore(s, OrdinalKey, p[i], p[j])
    BY <1>5 DEF SortedByKey
  <2> HIDE DEF p
  <2>2. \A i \in DOMAIN s : p[i] \in DOMAIN s
    BY <2>1
  <2> QED BY <2>1, <2>2 DEF SortsBy, ComesBefore
<1> QED BY <1>2, <1>3, <1>4, <1>5

(* A sort takes every item from a place of its own.                        *)
LEMMA SortsRearrange ==
  ASSUME NEW X, NEW s \in Seq(X), NEW p, NEW keys, SortsBy(p, s, keys),
         NEW r, r = [i \in DOMAIN s |-> s[p[i]]],
         \A i \in DOMAIN s : ~ Precedes(keys[i], keys[i])
  PROVE  Rearranges(p, s, r) /\ r \in Seq(X)
<1>1. DOMAIN s = 1..Len(s) /\ Len(s) \in Nat /\ \A i \in DOMAIN s : s[i] \in X
  OBVIOUS
<1>2. /\ \A i \in DOMAIN s : p[i] \in DOMAIN s
      /\ \A k \in DOMAIN s : \E i \in DOMAIN s : p[i] = k
  BY DEF SortsBy
<1>3. r \in [1..Len(s) -> X]
  BY <1>1, <1>2
<1>4. r \in Seq(X) /\ Len(r) = Len(s)
  BY <1>1, <1>3
<1>5. ASSUME NEW i \in DOMAIN s, NEW j \in DOMAIN s, i < j PROVE p[i] # p[j]
  <2>1. p[i] \in DOMAIN s /\ p[i] \in Int
    BY <1>1, <1>2
  <2>2. \/ Precedes(keys[p[i]], keys[p[j]])
        \/ keys[p[i]] = keys[p[j]] /\ p[i] < p[j]
    BY <1>5 DEF SortsBy
  <2>3. ~ Precedes(keys[p[i]], keys[p[i]])
    BY <2>1
  <2>4. SUFFICES ASSUME p[i] = p[j] PROVE FALSE
    OBVIOUS
  <2>5. ~ (p[i] < p[j])
    BY <2>1, <2>4
  <2>6. ~ Precedes(keys[p[i]], keys[p[j]])
    BY <2>3, <2>4
  <2> QED BY <2>2, <2>5, <2>6
<1>6. ASSUME NEW i \in DOMAIN s, NEW j \in DOMAIN s, p[i] = p[j] PROVE i = j
  <2>1. i \in Int /\ j \in Int
    BY <1>1
  <2>2. ~ (i < j) /\ ~ (j < i)
    BY <1>5, <1>6
  <2> QED BY <2>1, <2>2
<1> QED BY <1>2, <1>4, <1>6 DEF Rearranges

(* The order of the keys, written out.                                     *)
LEMMA DecodeOrder ==
  ASSUME NEW a, NEW b, a.decode_time \in Int, b.decode_time \in Int
  PROVE  /\ Precedes(DecodeKey(a), DecodeKey(b)) <=> a.decode_time < b.decode_time
         /\ DecodeKey(a) = DecodeKey(b) <=> a.decode_time = b.decode_time
<1> DEFINE x == DecodeKey(a)
           y == DecodeKey(b)
<1>1. DOMAIN x = 1..1 /\ x[1] = a.decode_time /\ y[1] = b.decode_time
      /\ (x = y <=> x[1] = y[1])
  BY DEF DecodeKey
<1>2. Precedes(x, y) <=> \E i \in 1..1 : x[i] < y[i] /\ \A j \in 1..i - 1 : x[j] = y[j]
  BY <1>1 DEF Precedes
<1> HIDE DEF x, y
<1>3. 1..1 = {1} /\ 1..1 - 1 = {}
  OBVIOUS
<1>4. Precedes(x, y) <=> x[1] < y[1]
  BY <1>2, <1>3
<1> QED BY <1>1, <1>4 DEF x, y

(* The keys of the first sort of the queue, compared.                      *)
LEMMA SourceOrder ==
  ASSUME NEW a, NEW b,
         a.source_index \in Int, a.data_offset \in Int, a.track_id \in Int,
         b.source_index \in Int, b.data_offset \in Int, b.track_id \in Int
  PROVE  /\ Precedes(SourceKey(a), SourceKey(b)) <=>
              \/ a.source_index < b.source_index
              \/ a.source_index = b.source_index /\ a.data_offset < b.data_offset
              \/ /\ a.source_index = b.source_index /\ a.data_offset = b.data_offset
                 /\ a.track_id < b.track_id
         /\ SourceKey(a) = SourceKey(b) <=>
              /\ a.source_index = b.source_index /\ a.data_offset = b.data_offset
              /\ a.track_id = b.track_id
<1> DEFINE x == SourceKey(a)
           y == SourceKey(b)
<1>1. /\ DOMAIN x = 1..3
      /\ x[1] = a.source_index /\ x[2] = a.data_offset /\ x[3] = a.track_id
      /\ y[1] = b.source_index /\ y[2] = b.data_offset /\ y[3] = b.track_id
      /\ (x = y <=> x[1] = y[1] /\ x[2] = y[2] /\ x[3] = y[3])
  BY DEF SourceKey
<1>2. Precedes(x, y) <=> \E i \in 1..3 : x[i] < y[i] /\ \A j \in 1..i - 1 : x[j] = y[j]
  BY <1>1 DEF Precedes
<1> HIDE DEF x, y
<1>3. 1..3 = {1, 2, 3} /\ 1..1 - 1 = {} /\ 1..2 - 1 = {1} /\ 1..3 - 1 = {1, 2}
  OBVIOUS
<1>4. Precedes(x, y) <=> \/ x[1] < y[1]
                         \/ x[1] = y[1] /\ x[2] < y[2]
                         \/ x[1] = y[1] /\ x[2] = y[2] /\ x[3] < y[3]
  BY <1>2, <1>3
<1> QED BY <1>1, <1>4 DEF x, y

(* The keys of the sort of the chunks, compared.                           *)
LEMMA TimeOrder ==
  ASSUME NEW a, NEW b,
         a.decode_time \in Int, a.source_index \in Int, a.data_offset \in Int,
         a.track_id \in Int, b.decode_time \in Int, b.source_index \in Int,
         b.data_offset \in Int, b.track_id \in Int
  PROVE  Precedes(TimeKey(a), TimeKey(b)) <=>
           \/ a.decode_time < b.decode_time
           \/ a.decode_time = b.decode_time /\ a.source_index < b.source_index
           \/ /\ a.decode_time = b.decode_time /\ a.source_index = b.source_index
              /\ a.data_offset < b.data_offset
           \/ /\ a.decode_time = b.decode_time /\ a.source_index = b.source_index
              /\ a.data_offset = b.data_offset /\ a.track_id < b.track_id
<1> DEFINE x == TimeKey(a)
           y == TimeKey(b)
<1>1. /\ DOMAIN x = 1..4
      /\ x[1] = a.decode_time /\ x[2] = a.source_index /\ x[3] = a.data_offset
      /\ x[4] = a.track_id
      /\ y[1] = b.decode_time /\ y[2] = b.source_index /\ y[3] = b.data_offset
      /\ y[4] = b.track_id
  BY DEF TimeKey
<1>2. Precedes(x, y) <=> \E i \in 1..4 : x[i] < y[i] /\ \A j \in 1..i - 1 : x[j] = y[j]
  BY <1>1 DEF Precedes
<1> HIDE DEF x, y
<1>3. 1..4 = {1, 2, 3, 4} /\ 1..1 - 1 = {} /\ 1..2 - 1 = {1} /\ 1..3 - 1 = {1, 2}
      /\ 1..4 - 1 = {1, 2, 3}
  OBVIOUS
<1>4. Precedes(x, y) <=>
        \/ x[1] < y[1]
        \/ x[1] = y[1] /\ x[2] < y[2]
        \/ x[1] = y[1] /\ x[2] = y[2] /\ x[3] < y[3]
        \/ x[1] = y[1] /\ x[2] = y[2] /\ x[3] = y[3] /\ x[4] < y[4]
  BY <1>2, <1>3
<1> QED BY <1>1, <1>4 DEF x, y

(* By ordinal, all that matters is that an ordinal comes first.            *)
LEMMA OrdinalOrder ==
  ASSUME NEW a, NEW b, a.chunk_index \in Int, b.chunk_index \in Int
  PROVE  /\ Precedes(OrdinalKey(a), OrdinalKey(b)) => a.chunk_index <= b.chunk_index
         /\ OrdinalKey(a) = OrdinalKey(b) => a.chunk_index = b.chunk_index
<1> DEFINE x == OrdinalKey(a)
           y == OrdinalKey(b)
<1>1. DOMAIN x = 1..5 /\ x[1] = a.chunk_index /\ y[1] = b.chunk_index
  BY DEF OrdinalKey
<1>2. Precedes(x, y) <=> \E i \in 1..5 : x[i] < y[i] /\ \A j \in 1..i - 1 : x[j] = y[j]
  BY <1>1 DEF Precedes
<1> HIDE DEF x, y
<1>3. ASSUME NEW i \in 1..5, x[i] < y[i], \A j \in 1..i - 1 : x[j] = y[j]
      PROVE  x[1] <= y[1]
  <2>1. CASE i = 1
    BY <1>1, <1>3, <2>1
  <2>2. CASE i # 1
    <3>1. 1 \in 1..i - 1
      BY <2>2
    <3>2. x[1] = y[1]
      BY <1>3, <3>1
    <3> QED BY <1>1, <3>2
  <2> QED BY <2>1, <2>2
<1> QED BY <1>1, <1>2, <1>3 DEF x, y

(* No key precedes itself.                                                 *)
LEMMA KeysAreIrreflexive ==
  ASSUME NEW key, \A i \in DOMAIN key : key[i] \in Int
  PROVE  ~ Precedes(key, key)
BY DEF Precedes
-----------------------------------------------------------------------------
(* The order of places in the sources, a track apart.                      *)
SourceAtMost(a, b) ==
  \/ a.source_index < b.source_index
  \/ a.source_index = b.source_index /\ a.data_offset <= b.data_offset

(* The order of the queue: by decode time, then by place in the sources.   *)
AtMost(a, b) ==
  \/ a.decode_time < b.decode_time
  \/ a.decode_time = b.decode_time /\ SourceAtMost(a, b)

(* A queue in that order.                                                  *)
IsOrdered(w) == \A i, j \in DOMAIN w : i < j => AtMost(w[i], w[j])

(* The two sorts of the work queue take each item from a place of its own. *)
LEMMA QueueIsOrdered ==
  ASSUME NEW items \in Seq(StagedItem),
         NEW s \in SortedByKey(items, SourceKey), NEW w \in SortedByKey(s, DecodeKey)
  PROVE  w \in Seq(StagedItem) /\ IsOrdered(w) /\ \E r : Rearranges(r, items, w)
<1>1. TrackIds \subseteq Nat
  BY TrackIdsAssumption
<1>2. ASSUME NEW a \in StagedItem
      PROVE  /\ a.source_index \in Int /\ a.data_offset \in Int /\ a.track_id \in Int
             /\ a.decode_time \in Int
  <2>1. /\ a.source_index \in Nat /\ a.data_offset \in Nat /\ a.decode_time \in Nat
        /\ a.track_id \in TrackIds
    BY DEF StagedItem
  <2>2. a.track_id \in Nat
    BY <1>1, <2>1
  <2> QED BY <2>1, <2>2
<1>3. ASSUME NEW a \in StagedItem
      PROVE  ~ Precedes(SourceKey(a), SourceKey(a)) /\ ~ Precedes(DecodeKey(a), DecodeKey(a))
  <2>1. ~ Precedes(SourceKey(a), SourceKey(a))
    BY <1>2, SourceOrder
  <2>2. ~ Precedes(DecodeKey(a), DecodeKey(a))
    BY <1>2, DecodeOrder
  <2> QED BY <2>1, <2>2
<1>4. \A i \in DOMAIN items : items[i] \in StagedItem
  OBVIOUS
<1> DEFINE skeys == [i \in DOMAIN items |-> SourceKey(items[i])]
<1>5. PICK p : s = [i \in DOMAIN items |-> items[p[i]]] /\ SortsBy(p, items, skeys)
  BY SortsByKeys
<1>6. \A i \in DOMAIN items : skeys[i] = SourceKey(items[i]) /\ ~ Precedes(skeys[i], skeys[i])
  BY <1>3, <1>4
<1> HIDE DEF skeys
<1>7. Rearranges(p, items, s) /\ s \in Seq(StagedItem)
  BY <1>5, <1>6, SortsRearrange
<1>8. /\ DOMAIN s = DOMAIN items /\ \A i \in DOMAIN items : s[i] = items[p[i]] /\ p[i] \in DOMAIN items
      /\ \A i \in DOMAIN s : s[i] \in StagedItem
      /\ DOMAIN items = 1..Len(items)
  BY <1>7 DEF Rearranges
<1>9. ASSUME NEW i \in DOMAIN s, NEW j \in DOMAIN s, i <= j PROVE SourceAtMost(s[i], s[j])
  <2>1. CASE i = j
    BY <1>2, <1>8, <2>1 DEF SourceAtMost
  <2>2. CASE i # j
    <3>1. i < j
      BY <1>8, <1>9, <2>2
    <3>2. \/ Precedes(skeys[p[i]], skeys[p[j]])
          \/ skeys[p[i]] = skeys[p[j]]
      BY <1>5, <1>8, <3>1 DEF SortsBy
    <3>3. skeys[p[i]] = SourceKey(s[i]) /\ skeys[p[j]] = SourceKey(s[j])
      BY <1>6, <1>8
    <3>4. s[i] \in StagedItem /\ s[j] \in StagedItem
      BY <1>8
    <3> QED BY <1>2, <3>2, <3>3, <3>4, SourceOrder DEF SourceAtMost
  <2> QED BY <2>1, <2>2
<1> DEFINE dkeys == [i \in DOMAIN s |-> DecodeKey(s[i])]
<1>10. PICK q : w = [i \in DOMAIN s |-> s[q[i]]] /\ SortsBy(q, s, dkeys)
  BY SortsByKeys
<1>11. \A i \in DOMAIN s : dkeys[i] = DecodeKey(s[i]) /\ ~ Precedes(dkeys[i], dkeys[i])
  BY <1>3, <1>8
<1> HIDE DEF dkeys
<1>12. Rearranges(q, s, w) /\ w \in Seq(StagedItem)
  BY <1>7, <1>10, <1>11, SortsRearrange
<1>13. /\ DOMAIN w = DOMAIN s /\ \A i \in DOMAIN s : w[i] = s[q[i]] /\ q[i] \in DOMAIN s
       /\ \A i \in DOMAIN w : w[i] \in StagedItem
  BY <1>8, <1>12 DEF Rearranges
<1>14. IsOrdered(w)
  <2>1. SUFFICES ASSUME NEW i \in DOMAIN w, NEW j \in DOMAIN w, i < j PROVE AtMost(w[i], w[j])
    BY DEF IsOrdered
  <2>2. \/ Precedes(dkeys[q[i]], dkeys[q[j]])
        \/ dkeys[q[i]] = dkeys[q[j]] /\ q[i] < q[j]
    BY <1>10, <1>13, <2>1 DEF SortsBy
  <2>3. dkeys[q[i]] = DecodeKey(w[i]) /\ dkeys[q[j]] = DecodeKey(w[j])
    BY <1>11, <1>13
  <2>4. w[i] \in StagedItem /\ w[j] \in StagedItem
    BY <1>13
  <2>5. \/ w[i].decode_time < w[j].decode_time
        \/ w[i].decode_time = w[j].decode_time /\ q[i] < q[j]
    BY <1>2, <2>2, <2>3, <2>4, DecodeOrder
  <2>6. q[i] < q[j] => SourceAtMost(w[i], w[j])
    <3>1. q[i] \in DOMAIN s /\ q[j] \in DOMAIN s /\ q[i] \in Int /\ q[j] \in Int
      BY <1>8, <1>13
    <3> QED BY <1>9, <1>13, <3>1
  <2> QED BY <2>5, <2>6 DEF AtMost
<1> DEFINE r == [i \in DOMAIN items |-> p[q[i]]]
<1>15. Rearranges(r, items, w)
  <2>1. Len(w) = Len(items)
    BY <1>7, <1>12 DEF Rearranges
  <2>2. \A i \in DOMAIN items : r[i] = p[q[i]] /\ r[i] \in DOMAIN items /\ w[i] = items[r[i]]
    BY <1>8, <1>13
  <2>3. w = [i \in DOMAIN items |-> items[r[i]]]
    <3>1. w = [i \in DOMAIN items |-> s[q[i]]]
      BY <1>8, <1>10
    <3> QED BY <1>13, <2>2, <1>8, <3>1
  <2>4. ASSUME NEW k \in DOMAIN items PROVE \E i \in DOMAIN items : r[i] = k
    <3>1. PICK x \in DOMAIN items : p[x] = k
      BY <1>7 DEF Rearranges
    <3>2. PICK i \in DOMAIN s : q[i] = x
      BY <1>8, <1>12, <3>1 DEF Rearranges
    <3> QED BY <1>8, <3>1, <3>2
  <2>5. ASSUME NEW i \in DOMAIN items, NEW j \in DOMAIN items, r[i] = r[j] PROVE i = j
    <3>1. q[i] = q[j]
      BY <1>7, <1>8, <1>13, <2>2, <2>5 DEF Rearranges
    <3> QED BY <1>8, <1>12, <3>1 DEF Rearranges
  <2> HIDE DEF r
  <2> QED BY <2>1, <2>2, <2>3, <2>4, <2>5 DEF Rearranges
<1> QED BY <1>12, <1>14, <1>15
-----------------------------------------------------------------------------
(* How a number among the places grows, one place at a time.               *)
LEMMA NumberStep ==
  ASSUME NEW n \in Nat, NEW S, S \subseteq 1..n
  PROVE  /\ NumberIn(S, 0) = 0
         /\ \A i \in Int : i >= n => NumberIn(S, i) = Cardinality(S)
         /\ \A i \in Int : NumberIn(S, i + 1) = IF i + 1 \in S THEN NumberIn(S, i) + 1
                                                ELSE NumberIn(S, i)
         /\ \A k \in S : \A i \in Int : k <= i => NumberIn(S, k) \in 1..NumberIn(S, i)
<1>1. \A k \in S : k \in Int /\ k >= 1 /\ k <= n
  OBVIOUS
<1>2. NumberIn(S, 0) = 0
  <2>0. \A k \in S : ~ (k <= 0)
    BY <1>1
  <2>1. {k \in S : k <= 0} = {}
    BY <2>0
  <2> QED BY <2>1, FS_EmptySet DEF NumberIn
<1>3. ASSUME NEW i \in Int, i >= n PROVE NumberIn(S, i) = Cardinality(S)
  <2>0. \A k \in S : k <= i
    BY <1>1, <1>3
  <2>1. {k \in S : k <= i} = S
    BY <2>0
  <2> QED BY <2>1 DEF NumberIn
<1>4. ASSUME NEW i \in Int
      PROVE  NumberIn(S, i + 1) = IF i + 1 \in S THEN NumberIn(S, i) + 1 ELSE NumberIn(S, i)
  <2> DEFINE T == {k \in S : k <= i}
             U == {k \in S : k <= i + 1}
  <2>1. IsFiniteSet(T)
    BY PlacesAreFinite
  <2>2. CASE i + 1 \in S
    <3>1. \A k \in S : k <= i + 1 <=> k <= i \/ k = i + 1
      BY <1>1
    <3>4. i + 1 <= i + 1 /\ ~ (i + 1 <= i)
      OBVIOUS
    <3>2. U = T \cup {i + 1} /\ i + 1 \notin T
      BY <2>2, <3>1, <3>4
    <3> HIDE DEF T, U
    <3>3. Cardinality(U) = Cardinality(T) + 1
      BY <2>1, <3>2, FS_AddElement
    <3> QED BY <2>2, <3>3 DEF NumberIn, T, U
  <2>3. CASE i + 1 \notin S
    <3>1. \A k \in S : k <= i + 1 <=> k <= i
      BY <1>1, <2>3
    <3>2. U = T
      BY <3>1
    <3> QED BY <2>3, <3>2 DEF NumberIn
  <2> QED BY <2>2, <2>3
<1>5. ASSUME NEW k \in S, NEW i \in Int, k <= i PROVE NumberIn(S, k) \in 1..NumberIn(S, i)
  <2> DEFINE T == {j \in S : j <= k}
             U == {j \in S : j <= i}
  <2>1. \A j \in S : j <= k => j <= i
    BY <1>1, <1>5
  <2>2. T \in SUBSET U
    BY <2>1
  <2>3. IsFiniteSet(U) /\ NumberIn(S, i) = Cardinality(U) /\ NumberIn(S, k) = Cardinality(T)
    <3>1. IsFiniteSet(U)
      BY PlacesAreFinite
    <3> QED BY <3>1 DEF NumberIn
  <2> HIDE DEF T, U
  <2>4. Cardinality(T) <= Cardinality(U)
    BY <2>2, <2>3, FS_Subset
  <2>5. NumberIn(S, k) \in 1..Cardinality(S) /\ Cardinality(S) \in Nat
    BY NumbersGrow, PlacesAreFinite
  <2>6. Cardinality(U) \in Nat
    BY <2>3, FS_CardinalityType
  <2> QED BY <2>3, <2>4, <2>5, <2>6
<1> QED BY <1>2, <1>3, <1>4, <1>5
-----------------------------------------------------------------------------
(* The places of a track's items in a queue.                               *)
OfTrack(w, t) == { i \in DOMAIN w : w[i].track_id = t }

(* Of the queue w, the items in front of the rest are filed by track.      *)
IsFiled(w, rest, filed) ==
  LET n == Len(w) - Len(rest)
  IN  /\ n \in Nat /\ rest = SubSeq(w, n + 1, Len(w))
      /\ \A t \in TrackIds :
           /\ Len(filed[t]) = NumberIn(OfTrack(w, t), n)
           /\ \A k \in OfTrack(w, t) :
                k <= n => filed[t][NumberIn(OfTrack(w, t), k)] = w[k]

(* They are places of the queue, and every item has its track.             *)
LEMMA TrackPlaces ==
  ASSUME NEW w \in Seq(StagedItem), NEW t
  PROVE  /\ Len(w) \in Nat /\ DOMAIN w = 1..Len(w)
         /\ OfTrack(w, t) \subseteq 1..Len(w)
         /\ \A i \in 1..Len(w) : w[i] \in StagedItem /\ w[i].track_id \in TrackIds
         /\ \A i \in 1..Len(w) : i \in OfTrack(w, t) <=> w[i].track_id = t
<1>1. Len(w) \in Nat /\ DOMAIN w = 1..Len(w) /\ \A i \in 1..Len(w) : w[i] \in StagedItem
  OBVIOUS
<1> QED BY <1>1 DEF OfTrack, StagedItem

(* Nothing is filed yet.                                                   *)
LEMMA NothingFiled ==
  ASSUME NEW w \in Seq(StagedItem), NEW filed, \A t \in TrackIds : filed[t] = << >>
  PROVE  IsFiled(w, w, filed)
<1>1. Len(w) - Len(w) = 0 /\ SubSeq(w, 1, Len(w)) = w
  <2>1. Len(w) \in Nat
    OBVIOUS
  <2>2. SubSeq(w, 1, Len(w)) = w
    OBVIOUS
  <2> QED BY <2>1, <2>2
<1>2. ASSUME NEW t \in TrackIds
      PROVE  /\ Len(filed[t]) = NumberIn(OfTrack(w, t), 0)
             /\ \A k \in OfTrack(w, t) : ~ (k <= 0)
  <2>1. Len(filed[t]) = 0
    OBVIOUS
  <2>2. Len(w) \in Nat /\ OfTrack(w, t) \subseteq 1..Len(w)
    BY TrackPlaces
  <2>3. NumberIn(OfTrack(w, t), 0) = 0
    BY <2>2, NumberStep
  <2> QED BY <2>1, <2>2, <2>3
<1>3. 0 \in Nat /\ 0 + 1 = 1
  OBVIOUS
<1> QED BY <1>1, <1>2, <1>3 DEF IsFiled

(* One more item is filed.                                                 *)
LEMMA FileOne ==
  ASSUME NEW w \in Seq(StagedItem), NEW rest, rest # << >>,
         NEW filed \in [TrackIds -> Seq(StagedItem)], IsFiled(w, rest, filed),
         NEW more, more = [filed EXCEPT ![Head(rest).track_id] = Append(@, Head(rest))]
  PROVE  IsFiled(w, Tail(rest), more) /\ more \in [TrackIds -> Seq(StagedItem)]
<1> DEFINE n == Len(w) - Len(rest)
           item == Head(rest)
<1>1. /\ n \in Nat /\ rest = SubSeq(w, n + 1, Len(w))
      /\ \A t \in TrackIds :
           /\ Len(filed[t]) = NumberIn(OfTrack(w, t), n)
           /\ \A k \in OfTrack(w, t) :
                k <= n => filed[t][NumberIn(OfTrack(w, t), k)] = w[k]
  BY DEF IsFiled
<1>2. /\ Len(w) \in Nat /\ \A i \in 1..Len(w) : w[i] \in StagedItem /\ w[i].track_id \in TrackIds
  BY TrackPlaces
<1>3. /\ rest \in Seq(StagedItem) /\ n + 1 \in 1..Len(w) /\ item = w[n + 1]
      /\ Tail(rest) = SubSeq(w, (n + 1) + 1, Len(w)) /\ Len(w) - Len(Tail(rest)) = n + 1
  <2> DEFINE a == n + 1
             e == Len(w)
  <2>1. a \in Int /\ a >= 1 /\ rest = SubSeq(w, a, e) /\ e \in Nat /\ n \in Nat /\ n = e - Len(rest)
    BY <1>1, <1>2
  <2>2. \A i \in a..e : w[i] \in StagedItem
    BY <1>2, <2>1
  <2>0. a = n + 1
    OBVIOUS
  <2> HIDE DEF n, a, e
  <2>3. rest \in Seq(StagedItem) /\ Len(rest) = IF a <= e THEN e - a + 1 ELSE 0
    <3>1. SubSeq(w, a, e) \in Seq(StagedItem) /\ Len(SubSeq(w, a, e)) = IF a <= e THEN e - a + 1 ELSE 0
      BY <2>1, <2>2, SubSeqProperties
    <3> QED BY <2>1, <3>1
  <2>4. Len(rest) > 0 /\ Len(rest) \in Nat
    BY <2>3
  <2>5. a \in 1..e /\ e \in a..e /\ Len(rest) = e - a + 1
    BY <2>1, <2>3, <2>4
  <2>6. Head(SubSeq(w, a, e)) = w[a] /\ Tail(SubSeq(w, a, e)) = SubSeq(w, a + 1, e)
    <3>1. a \in 1..Len(w) /\ e \in a..Len(w)
      BY <2>5 DEF e
    <3> QED BY <3>1, HeadTailOfSubSeq
  <2>7. item = w[a] /\ Tail(rest) = SubSeq(w, a + 1, e)
    BY <2>1, <2>6
  <2>8. Len(Tail(rest)) = Len(rest) - 1
    BY <2>3, HeadTailProperties
  <2>9. Len(w) - Len(Tail(rest)) = n + 1 /\ n + 1 \in 1..Len(w)
    <3>1. e - Len(Tail(rest)) = n + 1
      BY <2>0, <2>1, <2>4, <2>5, <2>8
    <3> QED BY <2>0, <2>5, <3>1 DEF e
  <2> QED BY <2>0, <2>3, <2>7, <2>9 DEF e
<1>4. item.track_id \in TrackIds /\ item \in StagedItem
  BY <1>2, <1>3
<1>5. more \in [TrackIds -> Seq(StagedItem)]
  <2>1. Append(filed[item.track_id], item) \in Seq(StagedItem)
    BY <1>4
  <2> QED BY <1>4, <2>1
<1> HIDE DEF n, item
<1>6. ASSUME NEW t \in TrackIds
      PROVE  /\ Len(more[t]) = NumberIn(OfTrack(w, t), n + 1)
             /\ \A k \in OfTrack(w, t) :
                  k <= n + 1 => more[t][NumberIn(OfTrack(w, t), k)] = w[k]
  <2> DEFINE S == OfTrack(w, t)
  <2>1. S \subseteq 1..Len(w) /\ \A i \in 1..Len(w) : i \in S <=> w[i].track_id = t
    BY TrackPlaces
  <2> HIDE DEF S
  <2>2. /\ NumberIn(S, n + 1) = IF n + 1 \in S THEN NumberIn(S, n) + 1 ELSE NumberIn(S, n)
        /\ \A k \in S : k <= n => NumberIn(S, k) \in 1..NumberIn(S, n)
    <3>1. n \in Int
      BY <1>1
    <3> QED BY <1>2, <2>1, <3>1, NumberStep
  <2>3. /\ Len(filed[t]) = NumberIn(S, n)
        /\ \A k \in S : k <= n => filed[t][NumberIn(S, k)] = w[k]
    BY <1>1 DEF S
  <2>4. filed[t] \in Seq(StagedItem) /\ Len(filed[t]) \in Nat
    OBVIOUS
  <2>5. \A k \in S : k <= n + 1 => k <= n \/ k = n + 1
    BY <1>1, <2>1
  <2>6. CASE item.track_id = t
    <3>1. more[t] = Append(filed[t], item)
      BY <2>6 DEF item
    <3>2. /\ Len(more[t]) = Len(filed[t]) + 1 /\ more[t][Len(filed[t]) + 1] = item
          /\ \A i \in 1..Len(filed[t]) : more[t][i] = filed[t][i]
      BY <1>4, <2>4, <3>1
    <3>3. n + 1 \in S
      BY <1>3, <2>1, <2>6
    <3> QED BY <1>3, <2>2, <2>3, <2>5, <3>2, <3>3 DEF S
  <2>7. CASE item.track_id # t
    <3>1. more[t] = filed[t]
      BY <2>7 DEF item
    <3>2. n + 1 \notin S
      BY <1>3, <2>1, <2>7
    <3> QED BY <2>2, <2>3, <2>5, <3>1, <3>2 DEF S
  <2> QED BY <2>6, <2>7
<1>7. n + 1 \in Nat
  BY <1>1
<1> QED BY <1>3, <1>5, <1>6, <1>7 DEF IsFiled
-----------------------------------------------------------------------------
(* When the queue is empty, each track has its items in the queue's order. *)
LEMMA AllFiled ==
  ASSUME NEW w \in Seq(StagedItem), NEW filed \in [TrackIds -> Seq(StagedItem)],
         IsFiled(w, << >>, filed), IsOrdered(w), NEW t \in TrackIds
  PROVE  /\ Len(filed[t]) = Cardinality(OfTrack(w, t))
         /\ \A k \in OfTrack(w, t) : filed[t][NumberIn(OfTrack(w, t), k)] = w[k]
         /\ \A i \in DOMAIN filed[t] : filed[t][i].track_id = t
         /\ IsOrdered(filed[t])
<1> DEFINE S == OfTrack(w, t)
<1>1. /\ Len(w) \in Nat /\ DOMAIN w = 1..Len(w) /\ S \subseteq 1..Len(w)
      /\ \A k \in S : w[k].track_id = t
  BY TrackPlaces
<1>2. Len(<< >>) = 0 /\ Len(w) - 0 = Len(w)
  BY <1>1
<1>3. /\ Len(filed[t]) = NumberIn(S, Len(w))
      /\ \A k \in S : k <= Len(w) => filed[t][NumberIn(S, k)] = w[k]
  BY <1>2 DEF IsFiled
<1> HIDE DEF S
<1>4. NumberIn(S, Len(w)) = Cardinality(S)
  <2>1. Len(w) \in Int /\ Len(w) >= Len(w)
    BY <1>1
  <2>2. \A i \in Int : i >= Len(w) => NumberIn(S, i) = Cardinality(S)
    BY <1>1, NumberStep
  <2> QED BY <2>1, <2>2
<1>5. \A k \in S : filed[t][NumberIn(S, k)] = w[k]
  <2>1. \A k \in S : k <= Len(w)
    BY <1>1
  <2> QED BY <1>3, <2>1
<1>6. DOMAIN filed[t] = 1..Cardinality(S)
  <2>1. filed[t] \in Seq(StagedItem)
    OBVIOUS
  <2> QED BY <1>3, <1>4, <2>1
<1>7. ASSUME NEW i \in DOMAIN filed[t]
      PROVE  \E k \in S : NumberIn(S, k) = i /\ filed[t][i] = w[k]
  <2>1. PICK k \in S : NumberIn(S, k) = i
    BY <1>1, <1>6, NumbersAreBorne
  <2> QED BY <1>5, <2>1
<1>8. IsOrdered(filed[t])
  <2>1. SUFFICES ASSUME NEW i \in DOMAIN filed[t], NEW j \in DOMAIN filed[t], i < j
                 PROVE  AtMost(filed[t][i], filed[t][j])
    BY DEF IsOrdered
  <2>2. PICK k \in S : NumberIn(S, k) = i /\ filed[t][i] = w[k]
    BY <1>7
  <2>3. PICK m \in S : NumberIn(S, m) = j /\ filed[t][j] = w[m]
    BY <1>7
  <2>4. k \in Int /\ m \in Int /\ k \in DOMAIN w /\ m \in DOMAIN w
    BY <1>1
  <2>5. k < m
    <3>1. i \in Int /\ j \in Int
      BY <1>6
    <3>2. m < k => NumberIn(S, m) < NumberIn(S, k)
      BY <1>1, NumbersGrow
    <3> QED BY <2>1, <2>2, <2>3, <2>4, <3>1, <3>2
  <2> QED BY <2>2, <2>3, <2>4, <2>5 DEF IsOrdered
<1> QED BY <1>1, <1>3, <1>4, <1>5, <1>7, <1>8 DEF S

(* A track whose times increase keeps its own order.                       *)
LEMMA IncreasingKept ==
  ASSUME NEW items \in Seq(StagedItem), NEW w \in Seq(StagedItem),
         NEW r, Rearranges(r, items, w), IsOrdered(w), NEW t,
         \A i, j \in OfTrack(items, t) :
           i < j => items[i].decode_time < items[j].decode_time
  PROVE  /\ Cardinality(OfTrack(w, t)) = Cardinality(OfTrack(items, t))
         /\ \A i \in OfTrack(items, t) : \E k \in OfTrack(w, t) :
              /\ w[k] = items[i]
              /\ NumberIn(OfTrack(w, t), k) = NumberIn(OfTrack(items, t), i)
<1> DEFINE S == OfTrack(w, t)
           T == OfTrack(items, t)
<1>1. /\ Len(w) \in Nat /\ DOMAIN w = 1..Len(w) /\ S \subseteq 1..Len(w)
      /\ \A i \in 1..Len(w) : i \in S <=> w[i].track_id = t
      /\ \A i \in 1..Len(w) : w[i].decode_time \in Int
  <2>1. \A a \in StagedItem : a.decode_time \in Int
    BY DEF StagedItem
  <2> QED BY <2>1, TrackPlaces
<1>2. /\ Len(items) \in Nat /\ DOMAIN items = 1..Len(items) /\ T \subseteq 1..Len(items)
      /\ \A i \in 1..Len(items) : i \in T <=> items[i].track_id = t
  BY TrackPlaces
<1>3. /\ Len(w) = Len(items)
      /\ \A i \in 1..Len(w) : r[i] \in 1..Len(items) /\ w[i] = items[r[i]]
      /\ \A k \in 1..Len(w) : \E i \in 1..Len(w) : r[i] = k
      /\ \A i, j \in 1..Len(w) : r[i] = r[j] => i = j
  BY <1>2 DEF Rearranges
<1> HIDE DEF S, T
<1>4. ASSUME NEW i \in S PROVE r[i] \in T
  <2>1. i \in 1..Len(w) /\ w[i].track_id = t
    BY <1>1
  <2> QED BY <1>2, <1>3, <2>1
<1>5. ASSUME NEW k \in T PROVE \E i \in S : r[i] = k
  <2>1. k \in 1..Len(w) /\ items[k].track_id = t
    BY <1>2, <1>3
  <2>2. PICK i \in 1..Len(w) : r[i] = k
    BY <1>3, <2>1
  <2> QED BY <1>1, <1>3, <2>1, <2>2
<1>6. ASSUME NEW i \in S, NEW j \in S, i < j PROVE r[i] < r[j]
  <2>0. i \in 1..Len(w) /\ j \in 1..Len(w) /\ i \in Int /\ j \in Int
    BY <1>1
  <2>1. /\ i \in 1..Len(w) /\ j \in 1..Len(w) /\ r[i] \in Int /\ r[j] \in Int
        /\ i \in Int /\ j \in Int
    BY <1>2, <1>3, <2>0
  <2>2. w[i].decode_time <= w[j].decode_time
    <3>1. AtMost(w[i], w[j])
      BY <1>1, <1>6, <2>1 DEF IsOrdered
    <3>2. w[i].decode_time \in Int /\ w[j].decode_time \in Int
      BY <1>1, <2>1
    <3> QED BY <3>1, <3>2 DEF AtMost
  <2>3. r[j] < r[i] => w[j].decode_time < w[i].decode_time
    <3>1. r[i] \in T /\ r[j] \in T
      BY <1>4
    <3>2. r[j] < r[i] => items[r[j]].decode_time < items[r[i]].decode_time
      BY <3>1 DEF T
    <3> QED BY <1>3, <2>1, <3>2
  <2>4. r[i] # r[j]
    <3>1. i # j
      BY <1>6, <2>1
    <3> QED BY <1>3, <2>1, <3>1
  <2>5. ~ (r[j] < r[i])
    <3>1. w[i].decode_time \in Int /\ w[j].decode_time \in Int
      BY <1>1, <2>1
    <3> QED BY <2>2, <2>3, <3>1
  <2> QED BY <2>1, <2>4, <2>5
<1>7. /\ Cardinality(S) = Cardinality(T)
      /\ \A i \in S : NumberIn(T, r[i]) = NumberIn(S, i)
  <2> DEFINE n == Len(w)
  <2>1. n \in Nat /\ S \in SUBSET (1..n) /\ T \in SUBSET (1..n)
    BY <1>1, <1>2, <1>3
  <2> HIDE DEF n
  <2>2. Corresponds(r, S, T)
    BY <1>4, <1>5, <1>6 DEF Corresponds
  <2> QED BY <2>1, <2>2, NumbersCorrespond
<1>8. ASSUME NEW i \in T PROVE \E k \in S : w[k] = items[i] /\ NumberIn(S, k) = NumberIn(T, i)
  <2>1. PICK k \in S : r[k] = i
    BY <1>5
  <2> QED BY <1>1, <1>3, <1>7, <2>1
<1> QED BY <1>7, <1>8 DEF S, T
-----------------------------------------------------------------------------
(* Counts that are positive and add up to the items of each track.         *)
Cover(items, coord) ==
  /\ coord \in [TrackIds -> Seq(Nat)]
  /\ \A t \in TrackIds :
       /\ items[t] \in Seq(StagedItem)
       /\ \A j \in 1..Len(coord[t]) : coord[t][j] > 0
       /\ Total(coord[t]) = Len(items[t])

(* Positive counts: each chunk ends behind the ones before it.             *)
LEMMA EndsGrow ==
  ASSUME NEW c \in Seq(Nat), \A j \in 1..Len(c) : c[j] > 0
  PROVE  /\ \A i \in 0..Len(c) : CountBefore(c, i) \in 0..Total(c)
         /\ CountBefore(c, 0) = 0 /\ CountBefore(c, Len(c)) = Total(c) /\ Total(c) \in Nat
         /\ \A i \in 1..Len(c) : CountBefore(c, i) = CountBefore(c, i - 1) + c[i]
         /\ \A i, k \in 0..Len(c) : i < k => CountBefore(c, i) < CountBefore(c, k)
<1>1. /\ Len(c) \in Nat
      /\ \A i \in 0..Len(c) : CountBefore(c, i) \in 0..Total(c)
      /\ CountBefore(c, 0) = 0 /\ CountBefore(c, Len(c)) = Total(c) /\ Total(c) \in Nat
      /\ \A i \in 1..Len(c) : CountBefore(c, i) = CountBefore(c, i - 1) + c[i]
  BY TotalIs DEF Total
<1>2. ASSUME NEW i \in 0..Len(c)
      PROVE  \A k \in 0..Len(c) : i < k => CountBefore(c, i) < CountBefore(c, k)
  <2> DEFINE T == {k \in 0..Len(c) : i < k => CountBefore(c, i) < CountBefore(c, k)}
  <2>1. 0 \in T
    BY <1>1
  <2>2. ASSUME NEW k \in 1..Len(c), k - 1 \in T PROVE k \in T
    <3>1. SUFFICES ASSUME i < k PROVE CountBefore(c, i) < CountBefore(c, k)
      OBVIOUS
    <3>2. CountBefore(c, k) = CountBefore(c, k - 1) + c[k] /\ c[k] > 0 /\ c[k] \in Nat
      BY <1>1
    <3>3. k - 1 \in 0..Len(c) /\ k \in 0..Len(c)
      OBVIOUS
    <3>4. CountBefore(c, k - 1) \in Int /\ CountBefore(c, i) \in Int
      BY <1>1, <3>3
    <3>5. CASE i = k - 1
      BY <3>2, <3>4, <3>5
    <3>6. CASE i # k - 1
      <4>1. i < k - 1
        BY <3>1, <3>6
      <4>2. CountBefore(c, i) < CountBefore(c, k - 1)
        BY <2>2, <4>1
      <4> QED BY <3>2, <3>4, <4>2
    <3> QED BY <3>5, <3>6
  <2> HIDE DEF T
  <2>3. 0..Len(c) \subseteq T
    BY <1>1, <2>1, <2>2, BoundedInduction
  <2> QED BY <2>3 DEF T
<1> QED BY <1>1, <1>2

(* The chunks of a cover end ever further, up to the last item.            *)
LEMMA CoverEnds ==
  ASSUME NEW items, NEW coord, Cover(items, coord), NEW t \in TrackIds
  PROVE  /\ items[t] \in Seq(StagedItem) /\ Len(items[t]) \in Nat
         /\ coord[t] \in Seq(Nat) /\ Len(coord[t]) \in Nat /\ DOMAIN coord[t] = 1..Len(coord[t])
         /\ \A j \in 1..Len(coord[t]) : coord[t][j] \in Nat \ {0}
         /\ \A i \in 0..Len(coord[t]) : CountBefore(coord[t], i) \in 0..Len(items[t])
         /\ CountBefore(coord[t], 0) = 0
         /\ CountBefore(coord[t], Len(coord[t])) = Len(items[t])
         /\ \A i \in 1..Len(coord[t]) :
              CountBefore(coord[t], i) = CountBefore(coord[t], i - 1) + coord[t][i]
         /\ \A i, k \in 0..Len(coord[t]) :
              i < k => CountBefore(coord[t], i) < CountBefore(coord[t], k)
<1> DEFINE c == coord[t]
<1>1. /\ c \in Seq(Nat) /\ items[t] \in Seq(StagedItem) /\ Total(c) = Len(items[t])
      /\ \A j \in 1..Len(c) : c[j] > 0
  BY DEF Cover
<1>2. Len(c) \in Nat /\ DOMAIN c = 1..Len(c) /\ Len(items[t]) \in Nat
      /\ \A j \in 1..Len(c) : c[j] \in Nat
  BY <1>1
<1>3. \A j \in 1..Len(c) : c[j] \in Nat \ {0}
  BY <1>1, <1>2
<1> HIDE DEF c
<1>4. /\ \A i \in 0..Len(c) : CountBefore(c, i) \in 0..Total(c)
      /\ CountBefore(c, 0) = 0 /\ CountBefore(c, Len(c)) = Total(c)
      /\ \A i \in 1..Len(c) : CountBefore(c, i) = CountBefore(c, i - 1) + c[i]
      /\ \A i, k \in 0..Len(c) : i < k => CountBefore(c, i) < CountBefore(c, k)
  BY <1>1, EndsGrow
<1> QED BY <1>1, <1>2, <1>3, <1>4 DEF c
-----------------------------------------------------------------------------
(* The chunks the planner cuts, with what it sorts them by.                *)
PlannedChunk ==
  [ track_id : TrackIds, chunk_index : Nat, start_index : Nat, end_index : Nat,
    decode_time : Nat, source_index : Nat, data_offset : Nat ]

(* Where the track's first j chunks end.                                   *)
ChunkEnd(coord, t, j) == CountBefore(coord[t], j)

(* x ends where a chunk of its track does.                                 *)
IsChunk(x, coord) ==
  /\ x \in PlannedChunk
  /\ x.chunk_index + 1 \in 1..Len(coord[x.track_id])
  /\ x.end_index = ChunkEnd(coord, x.track_id, x.chunk_index + 1)

(* x has lost none of its items yet.                                       *)
StartsChunk(x, coord) == x.start_index = ChunkEnd(coord, x.track_id, x.chunk_index)

(* A chunk bears the keys of its first item.                               *)
Bears(x, items) ==
  LET first == items[x.track_id][x.start_index + 1]
  IN  /\ x.decode_time = first.decode_time
      /\ x.source_index = first.source_index
      /\ x.data_offset = first.data_offset

(* The chunks of a track come in its order.                                *)
InOrder(c) ==
  \A i, j \in DOMAIN c :
    i < j /\ c[i].track_id = c[j].track_id => c[i].chunk_index < c[j].chunk_index

(* The chunks c are those cut so far.                                      *)
IsCutUp(c, at, items, coord) ==
  /\ c \in Seq(PlannedChunk) /\ InOrder(c)
  /\ \A i \in DOMAIN c :
       /\ IsChunk(c[i], coord) /\ StartsChunk(c[i], coord) /\ Bears(c[i], items)
       /\ c[i].chunk_index < at[c[i].track_id].chunk_index
  /\ at \in [TrackIds -> [chunk_index : Nat, sample : Nat]]
  /\ \A t \in TrackIds :
       /\ at[t].chunk_index \in 0..Len(coord[t])
       /\ at[t].sample = ChunkEnd(coord, t, at[t].chunk_index)
       /\ \A n \in 1..at[t].chunk_index :
            \E i \in DOMAIN c : c[i].track_id = t /\ c[i].chunk_index = n - 1

(* The cutting starts with no chunk and every track at its first.          *)
LEMMA NothingCut ==
  ASSUME NEW items, NEW coord, Cover(items, coord), NEW c, c = << >>, NEW at,
         at = [t \in TrackIds |-> [chunk_index |-> 0, sample |-> 0]]
  PROVE  IsCutUp(c, at, items, coord)
<1>1. c \in Seq(PlannedChunk) /\ DOMAIN c = {}
  OBVIOUS
<1>2. at \in [TrackIds -> [chunk_index : Nat, sample : Nat]]
  OBVIOUS
<1>3. ASSUME NEW t \in TrackIds
      PROVE  /\ at[t].chunk_index = 0 /\ at[t].sample = 0 /\ 0 \in 0..Len(coord[t])
             /\ ChunkEnd(coord, t, 0) = 0 /\ 1..0 = {}
  BY CoverEnds DEF ChunkEnd
<1> QED BY <1>1, <1>2, <1>3 DEF IsCutUp, InOrder

(* One more chunk is cut.                                                  *)
LEMMA CutOne ==
  ASSUME NEW items, NEW coord, Cover(items, coord), NEW c, NEW at, IsCutUp(c, at, items, coord),
         NEW t \in TrackIds, at[t].chunk_index < Len(coord[t]),
         NEW end, end = at[t].sample + coord[t][at[t].chunk_index + 1],
         NEW first, first = items[t][at[t].sample + 1],
         NEW x, x = [ track_id |-> t, chunk_index |-> at[t].chunk_index,
                      start_index |-> at[t].sample, end_index |-> end,
                      decode_time |-> first.decode_time, source_index |-> first.source_index,
                      data_offset |-> first.data_offset ],
         NEW d, d = Append(c, x),
         NEW to, to = [at EXCEPT ![t] = [chunk_index |-> at[t].chunk_index + 1, sample |-> end]]
  PROVE  IsCutUp(d, to, items, coord)
<1> DEFINE k == at[t].chunk_index
<1>1. /\ c \in Seq(PlannedChunk) /\ InOrder(c)
      /\ at \in [TrackIds -> [chunk_index : Nat, sample : Nat]]
      /\ k \in Nat /\ k < Len(coord[t]) /\ at[t].sample = ChunkEnd(coord, t, k)
  BY DEF IsCutUp
<1>2. /\ Len(coord[t]) \in Nat /\ items[t] \in Seq(StagedItem) /\ Len(items[t]) \in Nat
      /\ \A j \in 1..Len(coord[t]) : coord[t][j] \in Nat \ {0}
      /\ \A i \in 0..Len(coord[t]) : CountBefore(coord[t], i) \in 0..Len(items[t])
      /\ \A i \in 1..Len(coord[t]) :
              CountBefore(coord[t], i) = CountBefore(coord[t], i - 1) + coord[t][i]
      /\ \A i, m \in 0..Len(coord[t]) :
              i < m => CountBefore(coord[t], i) < CountBefore(coord[t], m)
  BY CoverEnds
<1> HIDE DEF k
<1>3. k + 1 \in 1..Len(coord[t]) /\ k \in 0..Len(coord[t]) /\ k + 1 \in 0..Len(coord[t])
      /\ (k + 1) - 1 = k /\ k < k + 1
  BY <1>1, <1>2
<1>4. /\ end = ChunkEnd(coord, t, k + 1) /\ end \in 0..Len(items[t])
      /\ at[t].sample \in 0..Len(items[t]) /\ at[t].sample < end
  BY <1>1, <1>2, <1>3 DEF ChunkEnd, k
<1>5. first \in StagedItem
  <2>1. at[t].sample + 1 \in 1..Len(items[t])
    BY <1>2, <1>4
  <2> QED BY <1>2, <2>1
<1>6. /\ x \in PlannedChunk /\ x.track_id = t /\ x.chunk_index = k
      /\ x.start_index = at[t].sample /\ x.end_index = end
      /\ Bears(x, items)
  <2>1. first.decode_time \in Nat /\ first.source_index \in Nat /\ first.data_offset \in Nat
    BY <1>5 DEF StagedItem
  <2>2. at[t].sample \in Nat /\ end \in Nat /\ k \in Nat
    BY <1>1, <1>2, <1>4
  <2>3. /\ x.track_id = t /\ x.chunk_index = k /\ x.start_index = at[t].sample
        /\ x.end_index = end /\ x.decode_time = first.decode_time
        /\ x.source_index = first.source_index /\ x.data_offset = first.data_offset
    BY DEF k
  <2>4. x \in PlannedChunk
    <3> HIDE DEF k
    <3> QED BY <2>1, <2>2 DEF PlannedChunk, k
  <2> QED BY <2>3, <2>4 DEF Bears
<1>7. IsChunk(x, coord) /\ StartsChunk(x, coord)
  BY <1>1, <1>3, <1>4, <1>6 DEF IsChunk, StartsChunk
<1> HIDE DEF Bears, IsChunk, StartsChunk
<1>8. /\ d \in Seq(PlannedChunk) /\ Len(d) = Len(c) + 1 /\ d[Len(c) + 1] = x
      /\ Len(c) \in Nat /\ DOMAIN c = 1..Len(c) /\ DOMAIN d = 1..Len(c) + 1
      /\ \A i \in 1..Len(c) : d[i] = c[i] /\ i \in DOMAIN d
  BY <1>1, <1>6
<1>9. /\ to \in [TrackIds -> [chunk_index : Nat, sample : Nat]]
      /\ to[t].chunk_index = k + 1 /\ to[t].sample = end
      /\ \A u \in TrackIds : u # t => to[u] = at[u]
  BY <1>1, <1>4 DEF k
<1>10. \A u \in TrackIds : at[u].chunk_index <= to[u].chunk_index
  BY <1>1, <1>9 DEF k
<1>11. ASSUME NEW i \in DOMAIN d
       PROVE  /\ IsChunk(d[i], coord) /\ StartsChunk(d[i], coord) /\ Bears(d[i], items)
              /\ d[i].chunk_index < to[d[i].track_id].chunk_index
  <2>1. CASE i = Len(c) + 1
    BY <1>3, <1>6, <1>7, <1>8, <1>9, <2>1
  <2>2. CASE i \in 1..Len(c)
    <3>1. /\ d[i] = c[i] /\ IsChunk(c[i], coord) /\ StartsChunk(c[i], coord) /\ Bears(c[i], items)
          /\ c[i].chunk_index < at[c[i].track_id].chunk_index
      BY <1>8, <2>2 DEF IsCutUp
    <3>2. c[i].track_id \in TrackIds /\ c[i].chunk_index \in Nat
      BY <3>1 DEF IsChunk, PlannedChunk
    <3>3. at[c[i].track_id].chunk_index \in Nat /\ to[c[i].track_id].chunk_index \in Nat
      BY <1>1, <1>9, <3>2
    <3> QED BY <1>10, <3>1, <3>2, <3>3
  <2>3. i = Len(c) + 1 \/ i \in 1..Len(c)
    <3>1. i \in 1..Len(c) + 1 /\ Len(c) \in Nat
      BY <1>8, <1>11
    <3> QED BY <3>1
  <2> QED BY <2>1, <2>2, <2>3
<1>12. InOrder(d)
  <2>1. SUFFICES ASSUME NEW i \in DOMAIN d, NEW j \in DOMAIN d, i < j,
                        d[i].track_id = d[j].track_id
                 PROVE  d[i].chunk_index < d[j].chunk_index
    BY DEF InOrder
  <2>2. i \in 1..Len(c)
    <3>1. i \in 1..Len(c) + 1 /\ j \in 1..Len(c) + 1 /\ Len(c) \in Nat
      BY <1>8
    <3> QED BY <2>1, <3>1
  <2>3. CASE j = Len(c) + 1
    <3>1. c[i].chunk_index < at[c[i].track_id].chunk_index /\ c[i].track_id = t
      BY <1>6, <1>8, <2>1, <2>2, <2>3 DEF IsCutUp
    <3> QED BY <1>6, <1>8, <2>2, <2>3, <3>1 DEF k
  <2>4. CASE j \in 1..Len(c)
    <3>1. d[i] = c[i] /\ d[j] = c[j] /\ i \in DOMAIN c /\ j \in DOMAIN c
      BY <1>8, <2>2, <2>4
    <3> QED BY <1>1, <2>1, <3>1 DEF InOrder
  <2> QED BY <1>8, <2>3, <2>4
<1>13. ASSUME NEW u \in TrackIds
       PROVE  /\ to[u].chunk_index \in 0..Len(coord[u])
              /\ to[u].sample = ChunkEnd(coord, u, to[u].chunk_index)
              /\ \A n \in 1..to[u].chunk_index :
                   \E i \in DOMAIN d : d[i].track_id = u /\ d[i].chunk_index = n - 1
  <2>1. /\ at[u].chunk_index \in 0..Len(coord[u])
        /\ at[u].sample = ChunkEnd(coord, u, at[u].chunk_index)
        /\ \A n \in 1..at[u].chunk_index :
             \E i \in DOMAIN c : c[i].track_id = u /\ c[i].chunk_index = n - 1
    BY DEF IsCutUp
  <2>2. \A n \in 1..at[u].chunk_index :
             \E i \in DOMAIN d : d[i].track_id = u /\ d[i].chunk_index = n - 1
    <3> SUFFICES ASSUME NEW n \in 1..at[u].chunk_index
                 PROVE  \E i \in DOMAIN d : d[i].track_id = u /\ d[i].chunk_index = n - 1
      OBVIOUS
    <3>1. PICK i \in DOMAIN c : c[i].track_id = u /\ c[i].chunk_index = n - 1
      BY <2>1
    <3>2. i \in DOMAIN d /\ d[i] = c[i]
      BY <1>8, <3>1
    <3> QED BY <3>1, <3>2
  <2>3. CASE u # t
    BY <1>9, <2>1, <2>2, <2>3
  <2>4. CASE u = t
    <3>1. ASSUME NEW n \in 1..k + 1
          PROVE  \E i \in DOMAIN d : d[i].track_id = t /\ d[i].chunk_index = n - 1
      <4>1. CASE n = k + 1
        <5>1. PICK i : i = Len(c) + 1
          OBVIOUS
        <5>2. i \in DOMAIN d /\ d[i] = x
          BY <1>8, <5>1
        <5>3. n - 1 = k
          BY <1>1, <4>1
        <5> QED BY <1>6, <5>2, <5>3
      <4>2. CASE n # k + 1
        <5>1. n \in 1..k
          BY <1>1, <4>2
        <5> QED BY <2>2, <2>4, <5>1 DEF k
      <4> QED BY <4>1, <4>2
    <3>2. to[t].chunk_index = k + 1 /\ to[t].sample = end
      BY <1>9
    <3>3. k + 1 \in 0..Len(coord[t]) /\ end = ChunkEnd(coord, t, k + 1)
      BY <1>3, <1>4
    <3> QED BY <2>4, <3>1, <3>2, <3>3
  <2> QED BY <2>3, <2>4
<1> QED BY <1>8, <1>9, <1>11, <1>12, <1>13 DEF IsCutUp
-----------------------------------------------------------------------------
(* The places of a track in the layout.                                    *)
PlacesIn(p, t) == { i \in DOMAIN p : p[i].staged.track_id = t }

(* The track's j-th chunk lies in one piece.                               *)
LiesWhole(p, coord, t, j) ==
  \E o \in PlacesIn(p, t) :
    /\ NumberIn(PlacesIn(p, t), o) = ChunkEnd(coord, t, j - 1) + 1
    /\ o..o + coord[t][j] - 1 \subseteq PlacesIn(p, t)

(* The places of a track's chunks among those still to come.               *)
RestOf(c, t) == { i \in DOMAIN c : c[i].track_id = t }

(* Each chunk either lies whole or is still to come, those of a track in   *)
(* its order and from where the layout has got to.                         *)
IsRest(c, items, coord, p) ==
  /\ c \in Seq(PlannedChunk) /\ InOrder(c)
  /\ \A i \in DOMAIN c : IsChunk(c[i], coord) /\ (i > 1 => StartsChunk(c[i], coord))
  /\ \A t \in TrackIds :
       /\ \A j \in 1..Len(coord[t]) :
            \/ \E i \in RestOf(c, t) : c[i].chunk_index = j - 1
            \/ /\ LiesWhole(p, coord, t, j)
               /\ ChunkEnd(coord, t, j) <= Cardinality(PlacesIn(p, t))
       /\ RestOf(c, t) = {} => Cardinality(PlacesIn(p, t)) = Len(items[t])
       /\ \A i \in RestOf(c, t) :
            (\A j \in RestOf(c, t) : i <= j) => Cardinality(PlacesIn(p, t)) = c[i].start_index

(* What is laid of the chunk at hand stands last.                          *)
IsHead(c, coord, p) ==
  c # << >> =>
    LET t == c[1].track_id
        done == c[1].start_index - ChunkEnd(coord, t, c[1].chunk_index)
    IN  /\ done \in 0..Len(p) /\ c[1].start_index < c[1].end_index
        /\ Len(p) - done + 1..Len(p) \subseteq PlacesIn(p, t)
        /\ done > 0 => NumberIn(PlacesIn(p, t), Len(p) - done + 1)
                         = ChunkEnd(coord, t, c[1].chunk_index) + 1

(* What the keys of a chunk are made of.                                   *)
LEMMA ChunkKeysAre ==
  ASSUME NEW x,
         x.decode_time \in Int, x.source_index \in Int, x.data_offset \in Int,
         x.track_id \in Int, x.chunk_index \in Int
  PROVE  ~ Precedes(TimeKey(x), TimeKey(x)) /\ ~ Precedes(OrdinalKey(x), OrdinalKey(x))
<1> DEFINE a == TimeKey(x)
           b == OrdinalKey(x)
<1>1. /\ DOMAIN a = 1..4 /\ a[1] = x.decode_time /\ a[2] = x.source_index
      /\ a[3] = x.data_offset /\ a[4] = x.track_id
  BY DEF TimeKey
<1>2. /\ DOMAIN b = 1..5 /\ b[1] = x.chunk_index /\ b[2] = x.source_index
      /\ b[3] = x.data_offset /\ b[4] = x.track_id /\ b[5] = x.decode_time
  BY DEF OrdinalKey
<1> HIDE DEF a, b
<1>3. 1..4 = {1, 2, 3, 4} /\ 1..5 = {1, 2, 3, 4, 5}
  OBVIOUS
<1>4. /\ \A i \in DOMAIN a : a[i] \in Int
      /\ \A i \in DOMAIN b : b[i] \in Int
  BY <1>1, <1>2, <1>3
<1> QED BY <1>4, KeysAreIrreflexive DEF a, b

(* A sort by either key leaves the chunks of a track in its order.         *)
LEMMA SortKeepsOrder ==
  ASSUME NEW items, \A t \in TrackIds : items[t] \in Seq(StagedItem) /\ IsOrdered(items[t]),
         NEW coord, Cover(items, coord), NEW at, NEW c, IsCutUp(c, at, items, coord),
         NEW d, d \in SortedByKey(c, TimeKey) \/ d \in SortedByKey(c, OrdinalKey)
  PROVE  InOrder(d) /\ \E p : Rearranges(p, c, d)
<1>1. /\ c \in Seq(PlannedChunk) /\ InOrder(c) /\ DOMAIN c = 1..Len(c) /\ Len(c) \in Nat
      /\ \A i \in DOMAIN c : /\ c[i] \in PlannedChunk /\ IsChunk(c[i], coord)
                             /\ StartsChunk(c[i], coord) /\ Bears(c[i], items)
  BY DEF IsCutUp
<1>2. ASSUME NEW x \in PlannedChunk
      PROVE  /\ x.track_id \in Int /\ x.track_id \in TrackIds /\ x.chunk_index \in Nat
             /\ x.start_index \in Nat
             /\ x.decode_time \in Int /\ x.source_index \in Int /\ x.data_offset \in Int
             /\ ~ Precedes(TimeKey(x), TimeKey(x)) /\ ~ Precedes(OrdinalKey(x), OrdinalKey(x))
  <2>1. /\ x.track_id \in TrackIds /\ x.chunk_index \in Nat /\ x.start_index \in Nat
        /\ x.decode_time \in Nat /\ x.source_index \in Nat /\ x.data_offset \in Nat
    BY DEF PlannedChunk
  <2>2. x.track_id \in Nat
    BY <2>1, TrackIdsAssumption
  <2>4. ~ Precedes(TimeKey(x), TimeKey(x)) /\ ~ Precedes(OrdinalKey(x), OrdinalKey(x))
    BY <2>1, <2>2, ChunkKeysAre
  <2> QED BY <2>1, <2>2, <2>4
<1>3. ASSUME NEW i \in DOMAIN c, NEW j \in DOMAIN c, c[i].track_id = c[j].track_id,
             c[i].chunk_index < c[j].chunk_index
      PROVE  ~ Precedes(TimeKey(c[j]), TimeKey(c[i]))
  <2> DEFINE t == c[i].track_id
             a == c[i].start_index + 1
             b == c[j].start_index + 1
             C == coord[t]
  <2>1. /\ t \in TrackIds /\ c[i] \in PlannedChunk /\ c[j] \in PlannedChunk
        /\ c[i].chunk_index \in Nat /\ c[j].chunk_index \in Nat
        /\ c[i].start_index \in Nat /\ c[j].start_index \in Nat
    BY <1>1, <1>2
  <2>2. /\ items[t] \in Seq(StagedItem) /\ Len(C) \in Nat
        /\ \A m \in 0..Len(C) : CountBefore(C, m) \in 0..Len(items[t])
        /\ CountBefore(C, Len(C)) = Len(items[t])
        /\ \A m, k \in 0..Len(C) : m < k => CountBefore(C, m) < CountBefore(C, k)
    BY <2>1, CoverEnds
  <2>3. /\ c[i].chunk_index + 1 \in 1..Len(C) /\ c[j].chunk_index + 1 \in 1..Len(C)
        /\ c[i].start_index = CountBefore(C, c[i].chunk_index)
        /\ c[j].start_index = CountBefore(C, c[j].chunk_index)
    BY <1>1, <1>3 DEF IsChunk, StartsChunk, ChunkEnd
  <2> HIDE DEF C
  <2>4. a < b /\ a \in 1..Len(items[t]) /\ b \in 1..Len(items[t])
    <3>1. /\ c[i].chunk_index \in 0..Len(C) /\ c[j].chunk_index \in 0..Len(C)
          /\ Len(C) \in 0..Len(C) /\ c[j].chunk_index < Len(C)
      <4>1. PICK m : m = c[i].chunk_index
        OBVIOUS
      <4>2. PICK k : k = c[j].chunk_index
        OBVIOUS
      <4>3. m \in Nat /\ k \in Nat
        BY <1>1, <1>3, <4>1, <4>2 DEF PlannedChunk
      <4>4. m + 1 \in 1..Len(C) /\ k + 1 \in 1..Len(C) /\ Len(C) \in Nat
        BY <2>2, <2>3, <4>1, <4>2
      <4>5. m \in 0..Len(C) /\ k \in 0..Len(C) /\ Len(C) \in 0..Len(C) /\ k < Len(C)
        BY <4>3, <4>4
      <4> QED BY <4>1, <4>2, <4>5
    <3>2. CountBefore(C, c[i].chunk_index) < CountBefore(C, c[j].chunk_index)
      BY <1>3, <2>2, <3>1
    <3>3. CountBefore(C, c[j].chunk_index) < Len(items[t])
      BY <2>2, <3>1
    <3>4. /\ Len(items[t]) \in Nat /\ CountBefore(C, c[i].chunk_index) \in Nat
          /\ CountBefore(C, c[j].chunk_index) \in Nat
      BY <2>2, <3>1
    <3>5. c[i].start_index < c[j].start_index /\ c[j].start_index < Len(items[t])
          /\ c[i].start_index \in Nat /\ c[j].start_index \in Nat
      BY <2>3, <3>2, <3>3, <3>4
    <3> QED BY <3>4, <3>5
  <2>5. AtMost(items[t][a], items[t][b])
    <3>1. a \in DOMAIN items[t] /\ b \in DOMAIN items[t] /\ IsOrdered(items[t])
      BY <2>1, <2>2, <2>4
    <3> QED BY <2>4, <3>1 DEF IsOrdered
  <2>6. /\ c[i].decode_time = items[t][a].decode_time /\ c[j].decode_time = items[t][b].decode_time
        /\ c[i].source_index = items[t][a].source_index
        /\ c[j].source_index = items[t][b].source_index
        /\ c[i].data_offset = items[t][a].data_offset /\ c[j].data_offset = items[t][b].data_offset
    BY <1>1, <1>3 DEF Bears
  <2>7. AtMost(c[i], c[j])
    BY <2>5, <2>6 DEF AtMost, SourceAtMost
  <2> HIDE DEF t
  <2>8. /\ c[i].decode_time \in Int /\ c[i].source_index \in Int /\ c[i].data_offset \in Int
        /\ c[j].decode_time \in Int /\ c[j].source_index \in Int /\ c[j].data_offset \in Int
        /\ c[i].track_id \in Int /\ c[j].track_id \in Int
    BY <1>2, <2>1
  <2> QED BY <1>3, <2>7, <2>8, TimeOrder DEF AtMost, SourceAtMost
<1>4. ASSUME NEW p, Rearranges(p, c, d),
             \A i, j \in DOMAIN c : (i < j /\ d[i].track_id = d[j].track_id) =>
               ~ (d[j].chunk_index < d[i].chunk_index)
      PROVE  InOrder(d)
  <2>1. /\ DOMAIN d = DOMAIN c /\ \A i \in DOMAIN c : p[i] \in DOMAIN c /\ d[i] = c[p[i]]
        /\ \A i, j \in DOMAIN c : p[i] = p[j] => i = j
    BY <1>4 DEF Rearranges
  <2>2. SUFFICES ASSUME NEW i \in DOMAIN c, NEW j \in DOMAIN c, i < j,
                        d[i].track_id = d[j].track_id
                 PROVE  d[i].chunk_index < d[j].chunk_index
    BY <2>1 DEF InOrder
  <2>3. p[i] # p[j] /\ p[i] \in DOMAIN c /\ p[j] \in DOMAIN c /\ p[i] \in Int /\ p[j] \in Int
    <3>1. i # j
      BY <1>1, <2>2
    <3> QED BY <1>1, <2>1, <3>1
  <2>4. d[i].chunk_index # d[j].chunk_index
    <3>1. p[i] < p[j] \/ p[j] < p[i]
      BY <2>3
    <3>2. c[p[i]].chunk_index \in Int /\ c[p[j]].chunk_index \in Int
      BY <1>1, <1>2, <2>3
    <3>3. c[p[i]].track_id = c[p[j]].track_id
      BY <2>1, <2>2
    <3>4. c[p[i]].chunk_index < c[p[j]].chunk_index \/ c[p[j]].chunk_index < c[p[i]].chunk_index
      BY <1>1, <2>3, <3>1, <3>3 DEF InOrder
    <3> QED BY <2>1, <3>2, <3>4
  <2>5. ~ (d[j].chunk_index < d[i].chunk_index)
    BY <1>4, <2>2
  <2>6. d[i].chunk_index \in Int /\ d[j].chunk_index \in Int
    BY <1>1, <1>2, <2>1, <2>3
  <2> QED BY <2>4, <2>5, <2>6
<1>5. CASE d \in SortedByKey(c, TimeKey)
  <2> DEFINE keys == [i \in DOMAIN c |-> TimeKey(c[i])]
  <2>1. PICK p : d = [i \in DOMAIN c |-> c[p[i]]] /\ SortsBy(p, c, keys)
    BY <1>5, SortsByKeys
  <2>2. \A i \in DOMAIN c : keys[i] = TimeKey(c[i]) /\ ~ Precedes(keys[i], keys[i])
    BY <1>1, <1>2
  <2> HIDE DEF keys
  <2>3. Rearranges(p, c, d)
    BY <1>1, <2>1, <2>2, SortsRearrange
  <2>4. ASSUME NEW i \in DOMAIN c, NEW j \in DOMAIN c, i < j, d[i].track_id = d[j].track_id
        PROVE  ~ (d[j].chunk_index < d[i].chunk_index)
    <3>1. p[i] \in DOMAIN c /\ p[j] \in DOMAIN c /\ d[i] = c[p[i]] /\ d[j] = c[p[j]]
      BY <2>1, <2>3 DEF Rearranges
    <3>2. \/ Precedes(TimeKey(c[p[i]]), TimeKey(c[p[j]]))
          \/ p[i] < p[j]
      BY <2>1, <2>2, <2>4, <3>1 DEF SortsBy
    <3>3. SUFFICES ASSUME c[p[j]].chunk_index < c[p[i]].chunk_index PROVE FALSE
      BY <3>1
    <3>4. c[p[j]].track_id = c[p[i]].track_id
      BY <2>4, <3>1
    <3>5. ~ Precedes(TimeKey(c[p[i]]), TimeKey(c[p[j]]))
      BY <1>3, <3>1, <3>3, <3>4
    <3>6. c[p[i]].chunk_index < c[p[j]].chunk_index
      BY <1>1, <3>1, <3>2, <3>4, <3>5 DEF InOrder
    <3>7. c[p[i]].chunk_index \in Nat /\ c[p[j]].chunk_index \in Nat
      BY <1>1, <1>2, <3>1
    <3> QED BY <3>3, <3>6, <3>7
  <2> QED BY <1>4, <2>3, <2>4
<1>6. CASE d \in SortedByKey(c, OrdinalKey)
  <2> DEFINE keys == [i \in DOMAIN c |-> OrdinalKey(c[i])]
  <2>1. PICK p : d = [i \in DOMAIN c |-> c[p[i]]] /\ SortsBy(p, c, keys)
    BY <1>6, SortsByKeys
  <2>2. \A i \in DOMAIN c : keys[i] = OrdinalKey(c[i]) /\ ~ Precedes(keys[i], keys[i])
    BY <1>1, <1>2
  <2> HIDE DEF keys
  <2>3. Rearranges(p, c, d)
    BY <1>1, <2>1, <2>2, SortsRearrange
  <2>4. ASSUME NEW i \in DOMAIN c, NEW j \in DOMAIN c, i < j, d[i].track_id = d[j].track_id
        PROVE  ~ (d[j].chunk_index < d[i].chunk_index)
    <3>1. p[i] \in DOMAIN c /\ p[j] \in DOMAIN c /\ d[i] = c[p[i]] /\ d[j] = c[p[j]]
      BY <2>1, <2>3 DEF Rearranges
    <3>2. \/ Precedes(OrdinalKey(c[p[i]]), OrdinalKey(c[p[j]]))
          \/ OrdinalKey(c[p[i]]) = OrdinalKey(c[p[j]])
      BY <2>1, <2>2, <2>4, <3>1 DEF SortsBy
    <3>3. c[p[i]].chunk_index \in Nat /\ c[p[j]].chunk_index \in Nat
      BY <1>1, <1>2, <3>1
    <3>4. c[p[i]].chunk_index <= c[p[j]].chunk_index
      <4>1. c[p[i]].chunk_index \in Int /\ c[p[j]].chunk_index \in Int
        BY <3>3
      <4>2. /\ Precedes(OrdinalKey(c[p[i]]), OrdinalKey(c[p[j]])) =>
                 c[p[i]].chunk_index <= c[p[j]].chunk_index
            /\ OrdinalKey(c[p[i]]) = OrdinalKey(c[p[j]]) =>
                 c[p[i]].chunk_index = c[p[j]].chunk_index
        BY <4>1, OrdinalOrder
      <4> QED BY <3>2, <4>1, <4>2
    <3> QED BY <3>1, <3>3, <3>4
  <2> QED BY <1>4, <2>3, <2>4
<1> QED BY <1>5, <1>6
-----------------------------------------------------------------------------
(* The items of the layout.                                                *)
PlannedItem == [staged : StagedItem, output_offset : Nat]

(* q is p with the item x behind it, which takes its track's next number.  *)
IsExtended(p, x, q, t, n) ==
  /\ n \in Nat /\ PlacesIn(p, t) \subseteq 1..n
  /\ Len(q) = n + 1 /\ q \in Seq(PlannedItem)
  /\ q[n + 1] = x /\ \A i \in 1..n : q[i] = p[i]
  /\ x.staged.track_id # t => PlacesIn(q, t) = PlacesIn(p, t)
  /\ x.staged.track_id = t =>
       /\ PlacesIn(q, t) = PlacesIn(p, t) \cup {n + 1}
       /\ Cardinality(PlacesIn(q, t)) = Cardinality(PlacesIn(p, t)) + 1
       /\ NumberIn(PlacesIn(q, t), n + 1) = Cardinality(PlacesIn(p, t)) + 1
  /\ \A i \in 1..n : NumberIn(PlacesIn(q, t), i) = NumberIn(PlacesIn(p, t), i)
  /\ PlacesIn(p, t) \subseteq PlacesIn(q, t)
  /\ Cardinality(PlacesIn(p, t)) \in Nat /\ Cardinality(PlacesIn(q, t)) \in Nat
  /\ Cardinality(PlacesIn(p, t)) <= Cardinality(PlacesIn(q, t))

(* Laying an item out is such an extension, for every track.               *)
LEMMA PlacesExtend ==
  ASSUME NEW p \in Seq(PlannedItem), NEW x \in PlannedItem, NEW t
  PROVE  IsExtended(p, x, Append(p, x), t, Len(p))
<1> DEFINE n == Len(p)
           q == Append(p, x)
<1>1. /\ n \in Nat /\ DOMAIN p = 1..n /\ q \in Seq(PlannedItem) /\ Len(q) = n + 1
      /\ DOMAIN q = 1..n + 1 /\ q[n + 1] = x /\ \A i \in 1..n : q[i] = p[i]
  OBVIOUS
<1> HIDE DEF n, q
<1>2. PlacesIn(p, t) \subseteq 1..n
  BY <1>1 DEF PlacesIn
<1>3. Cardinality(PlacesIn(p, t)) \in Nat
  BY <1>1, <1>2, PlacesAreFinite
<1>4. \A i : i \in 1..n + 1 <=> i \in 1..n \/ i = n + 1
  BY <1>1
<1>5. CASE x.staged.track_id # t
  <2>1. PlacesIn(q, t) = PlacesIn(p, t)
    BY <1>1, <1>4, <1>5 DEF PlacesIn
  <2> QED BY <1>1, <1>2, <1>3, <1>5, <2>1 DEF IsExtended, n, q
<1>6. CASE x.staged.track_id = t
  <2>1. PlacesIn(q, t) = PlacesIn(p, t) \cup {n + 1}
    BY <1>1, <1>4, <1>6 DEF PlacesIn
  <2> DEFINE S == PlacesIn(p, t)
             m == n + 1
  <2>3. S \subseteq 1..n /\ m \in Int /\ m > n
    BY <1>1, <1>2
  <2>4. \A i \in 1..n : i \in Int /\ i < m
    BY <1>1
  <2>5. PlacesIn(q, t) = S \cup {m}
    BY <2>1
  <2> HIDE DEF S, m
  <2>6. /\ Cardinality(S \cup {m}) = Cardinality(S) + 1
        /\ NumberIn(S \cup {m}, m) = Cardinality(S) + 1
        /\ \A i \in Int : i < m => NumberIn(S \cup {m}, i) = NumberIn(S, i)
    <3>1. n \in Nat
      BY <1>1
    <3> QED BY <2>3, <3>1, NumbersExtend
  <2>7. Cardinality(PlacesIn(q, t)) = Cardinality(S) + 1
    BY <2>5, <2>6
  <2>8. NumberIn(PlacesIn(q, t), m) = Cardinality(S) + 1
    BY <2>5, <2>6
  <2>9. \A i \in 1..n : NumberIn(PlacesIn(q, t), i) = NumberIn(S, i)
    BY <2>4, <2>5, <2>6
  <2>10. Cardinality(S) \in Nat /\ S \subseteq PlacesIn(q, t)
    BY <1>3, <2>5 DEF S
  <2>11. Cardinality(PlacesIn(q, t)) \in Nat /\ Cardinality(S) <= Cardinality(PlacesIn(q, t))
    BY <2>7, <2>10
  <2> QED BY <1>1, <1>2, <1>6, <2>5, <2>7, <2>8, <2>9, <2>10, <2>11 DEF S, m, IsExtended, n, q
<1> QED BY <1>5, <1>6

(* What lies whole still does when the layout grows.                       *)
LEMMA WholeKept ==
  ASSUME NEW p \in Seq(PlannedItem), NEW x \in PlannedItem, NEW q, q = Append(p, x),
         NEW coord, NEW t, NEW j, LiesWhole(p, coord, t, j)
  PROVE  LiesWhole(q, coord, t, j)
<1>1. PICK o \in PlacesIn(p, t) :
        /\ NumberIn(PlacesIn(p, t), o) = ChunkEnd(coord, t, j - 1) + 1
        /\ o..o + coord[t][j] - 1 \subseteq PlacesIn(p, t)
  BY DEF LiesWhole
<1> DEFINE n == Len(p)
<1>4. IsExtended(p, x, q, t, n)
  BY PlacesExtend
<1> HIDE DEF n
<1>2. /\ PlacesIn(p, t) \subseteq 1..n /\ PlacesIn(p, t) \subseteq PlacesIn(q, t)
      /\ \A i \in 1..n : NumberIn(PlacesIn(q, t), i) = NumberIn(PlacesIn(p, t), i)
  BY <1>4 DEF IsExtended
<1>3. NumberIn(PlacesIn(q, t), o) = NumberIn(PlacesIn(p, t), o)
  BY <1>1, <1>2
<1> QED BY <1>1, <1>2, <1>3 DEF LiesWhole

(* Of a chunk's track, the first one still to come and the others.         *)
LEMMA LayoutStands ==
  ASSUME NEW items, NEW coord, Cover(items, coord), NEW c, c # << >>,
         NEW p \in Seq(PlannedItem), IsRest(c, items, coord, p), IsHead(c, coord, p)
  PROVE  LET t == c[1].track_id
             k == c[1].chunk_index
             s == c[1].start_index
             from == ChunkEnd(coord, t, k)
         IN  /\ c \in Seq(PlannedChunk) /\ Len(c) \in Nat \ {0} /\ 1 \in DOMAIN c
             /\ DOMAIN c = 1..Len(c)
             /\ c[1] \in PlannedChunk /\ t \in TrackIds /\ k \in Nat /\ k + 1 \in 1..Len(coord[t])
             /\ s \in Nat /\ c[1].end_index \in Nat /\ s < c[1].end_index
             /\ c[1].end_index = ChunkEnd(coord, t, k + 1) /\ from \in Nat
             /\ c[1].end_index = from + coord[t][k + 1] /\ coord[t][k + 1] \in Nat
             /\ Cardinality(PlacesIn(p, t)) = s
             /\ s - from \in 0..Len(p)
             /\ (k + 1 < Len(coord[t])) => /\ k + 2 \in 1..Len(coord[t])
                                           /\ ChunkEnd(coord, t, k + 2) \in Nat
                                           /\ s < ChunkEnd(coord, t, k + 2)
             /\ (k + 1 = Len(coord[t])) => c[1].end_index = Len(items[t])
<1> DEFINE t == c[1].track_id
           k == c[1].chunk_index
           s == c[1].start_index
           e == c[1].end_index
           C == coord[t]
           L == Len(coord[t])
           from == CountBefore(coord[t], k)
<1>1. /\ c \in Seq(PlannedChunk) /\ \A i \in DOMAIN c : IsChunk(c[i], coord)
  BY DEF IsRest
<1>2. Len(c) \in Nat \ {0} /\ DOMAIN c = 1..Len(c)
  BY <1>1
<1>3. 1 \in DOMAIN c
  BY <1>2
<1>4. c[1] \in PlannedChunk /\ k + 1 \in 1..L /\ e = CountBefore(C, k + 1)
  BY <1>1, <1>3 DEF IsChunk, ChunkEnd
<1>5. t \in TrackIds /\ k \in Nat /\ s \in Nat /\ e \in Nat
  BY <1>4 DEF PlannedChunk
<1>6. /\ L \in Nat /\ \A j \in 1..L : C[j] \in Nat \ {0}
      /\ \A i \in 0..L : CountBefore(C, i) \in 0..Len(items[t])
      /\ CountBefore(C, L) = Len(items[t]) /\ Len(items[t]) \in Nat
      /\ \A i \in 1..L : CountBefore(C, i) = CountBefore(C, i - 1) + C[i]
      /\ \A i, m \in 0..L : i < m => CountBefore(C, i) < CountBefore(C, m)
  <2>1. ASSUME NEW u \in TrackIds
        PROVE  /\ Len(coord[u]) \in Nat /\ \A j \in 1..Len(coord[u]) : coord[u][j] \in Nat \ {0}
               /\ \A i \in 0..Len(coord[u]) : CountBefore(coord[u], i) \in 0..Len(items[u])
               /\ CountBefore(coord[u], Len(coord[u])) = Len(items[u]) /\ Len(items[u]) \in Nat
               /\ \A i \in 1..Len(coord[u]) :
                    CountBefore(coord[u], i) = CountBefore(coord[u], i - 1) + coord[u][i]
               /\ \A i, m \in 0..Len(coord[u]) :
                    i < m => CountBefore(coord[u], i) < CountBefore(coord[u], m)
    BY CoverEnds
  <2> HIDE DEF t
  <2> QED BY <1>5, <2>1
<1>7. s - from \in 0..Len(p) /\ s < e
  BY DEF IsHead, ChunkEnd
<1>8. Cardinality(PlacesIn(p, t)) = s
  <2>1. 1 \in RestOf(c, t) /\ \A j \in RestOf(c, t) : 1 <= j
    BY <1>2, <1>3 DEF RestOf
  <2> QED BY <1>5, <2>1 DEF IsRest
<1> HIDE DEF t, k, s, e, C, L, from
<1>9. k \in 0..L /\ k + 1 \in 0..L /\ (k + 1) - 1 = k
  BY <1>4, <1>5, <1>6
<1>10. from \in Nat /\ e = from + C[k + 1] /\ C[k + 1] \in Nat
  <2>1. CountBefore(C, k) \in Nat
    BY <1>6, <1>9
  <2> QED BY <1>4, <1>6, <1>9, <2>1 DEF C, from
<1>11. k + 1 < L => k + 2 \in 1..L /\ CountBefore(C, k + 2) \in Nat /\ s < CountBefore(C, k + 2)
  <2>1. SUFFICES ASSUME k + 1 < L
                 PROVE  k + 2 \in 1..L /\ CountBefore(C, k + 2) \in Nat /\ s < CountBefore(C, k + 2)
    OBVIOUS
  <2>2. k + 2 \in 1..L /\ k + 2 \in 0..L /\ k + 1 < k + 2
    BY <1>5, <1>6, <2>1
  <2>3. CountBefore(C, k + 2) \in Nat /\ CountBefore(C, k + 1) < CountBefore(C, k + 2)
    BY <1>6, <1>9, <2>2
  <2> QED BY <1>4, <1>5, <1>7, <2>2, <2>3
<1>12. k + 1 = L => e = Len(items[t])
  BY <1>4, <1>6
<1> QED BY <1>1, <1>2, <1>3, <1>4, <1>5, <1>7, <1>8, <1>10, <1>11, <1>12
        DEF t, k, s, e, C, L, from, ChunkEnd

(* What is laid of the chunk at hand, with one more item behind it.        *)
StandsLast(q, t, o, from) ==
  /\ o \in PlacesIn(q, t) /\ o \in 1..Len(q) /\ o..Len(q) \subseteq PlacesIn(q, t)
  /\ NumberIn(PlacesIn(q, t), o) = from + 1

(* The item laid out joins those of its chunk that stand last.             *)
LEMMA HeadExtends ==
  ASSUME NEW items, NEW coord, Cover(items, coord), NEW c, c # << >>,
         NEW p \in Seq(PlannedItem), IsRest(c, items, coord, p), IsHead(c, coord, p),
         NEW x \in PlannedItem, x.staged.track_id = c[1].track_id
  PROVE  LET from == ChunkEnd(coord, c[1].track_id, c[1].chunk_index)
         IN  \E o : /\ o = Len(p) - (c[1].start_index - from) + 1
                    /\ StandsLast(Append(p, x), c[1].track_id, o, from)
<1> DEFINE q == Append(p, x)
<1>0. PICK o : o = Len(p) - (c[1].start_index
                               - ChunkEnd(coord, c[1].track_id, c[1].chunk_index)) + 1
  OBVIOUS
<1> DEFINE t == c[1].track_id
           s == c[1].start_index
           from == ChunkEnd(coord, t, c[1].chunk_index)
           done == s - from
           n == Len(p)
           S == PlacesIn(p, t)
           T == PlacesIn(q, t)
<1>1. s \in Nat /\ from \in Nat /\ done \in 0..n /\ Cardinality(S) = s
  BY LayoutStands
<1>2. /\ n - done + 1..n \subseteq S
      /\ done > 0 => NumberIn(S, n - done + 1) = from + 1
  BY DEF IsHead
<1>3. /\ n \in Nat /\ T = S \cup {n + 1} /\ NumberIn(T, n + 1) = Cardinality(S) + 1
      /\ \A i \in 1..n : NumberIn(T, i) = NumberIn(S, i)
  <2>1. IsExtended(p, x, q, t, n)
    BY PlacesExtend
  <2> HIDE DEF t, n, q
  <2> QED BY <2>1 DEF IsExtended, t
<1>4. o = n - done + 1
  BY <1>0
<1>5. done = s - from
  OBVIOUS
<1> HIDE DEF s, from, done, n, S, T
<1>6. o \in 1..n + 1 /\ \A i \in o..n + 1 : i \in n - done + 1..n \/ i = n + 1
  BY <1>1, <1>3, <1>4
<1>7. o..n + 1 \subseteq T /\ o \in o..n + 1
  BY <1>2, <1>3, <1>6
<1>8. NumberIn(T, o) = from + 1
  <2>1. CASE done = 0
    <3>1. o = n + 1 /\ s = from
      BY <1>1, <1>3, <1>4, <1>5, <2>1
    <3> QED BY <1>1, <1>3, <3>1
  <2>2. CASE done # 0
    <3>1. done > 0 /\ o \in 1..n
      BY <1>1, <1>3, <1>4, <2>2
    <3> QED BY <1>2, <1>3, <1>4, <3>1
  <2> QED BY <2>1, <2>2
<1>9. Len(q) = n + 1
  BY DEF n
<1> HIDE DEF q
<1>10. StandsLast(q, t, o, from)
  BY <1>6, <1>7, <1>8, <1>9 DEF StandsLast, T
<1> QED BY <1>0, <1>10 DEF from, q
-----------------------------------------------------------------------------
(* Once every track is cut, the sorted chunks are all still to come.       *)
LEMMA SortStartsLayout ==
  ASSUME NEW items, NEW coord, Cover(items, coord), NEW at, NEW c, IsCutUp(c, at, items, coord),
         \A t \in TrackIds : at[t].chunk_index = Len(coord[t]),
         NEW d, InOrder(d), \E p : Rearranges(p, c, d),
         NEW e, e = << >>
  PROVE  IsRest(d, items, coord, e) /\ IsHead(d, coord, e)
<1>1. /\ c \in Seq(PlannedChunk) /\ DOMAIN c = 1..Len(c) /\ Len(c) \in Nat
      /\ \A i \in DOMAIN c : c[i] \in PlannedChunk /\ IsChunk(c[i], coord) /\ StartsChunk(c[i], coord)
  BY DEF IsCutUp
<1>2. PICK p : Rearranges(p, c, d)
  OBVIOUS
<1>3. /\ DOMAIN d = DOMAIN c /\ \A i \in DOMAIN c : p[i] \in DOMAIN c /\ d[i] = c[p[i]]
      /\ \A k \in DOMAIN c : \E i \in DOMAIN c : p[i] = k
  BY <1>2 DEF Rearranges
<1>4. d \in Seq(PlannedChunk)
  <2>1. d = [i \in 1..Len(c) |-> d[i]]
    BY <1>1, <1>2 DEF Rearranges
  <2>2. \A i \in 1..Len(c) : d[i] \in PlannedChunk
    BY <1>1, <1>3
  <2>3. d \in [1..Len(c) -> PlannedChunk]
    BY <2>1, <2>2
  <2> QED BY <1>1, <2>3
<1>5. \A i \in DOMAIN d : d[i] \in PlannedChunk /\ IsChunk(d[i], coord) /\ StartsChunk(d[i], coord)
  BY <1>1, <1>3
<1>6. ASSUME NEW t \in TrackIds, NEW j \in 1..Len(coord[t])
      PROVE  \E i \in RestOf(d, t) : d[i].chunk_index = j - 1
  <2>1. j \in 1..at[t].chunk_index
    OBVIOUS
  <2>2. PICK k \in DOMAIN c : c[k].track_id = t /\ c[k].chunk_index = j - 1
    BY <2>1 DEF IsCutUp
  <2>3. PICK i \in DOMAIN c : p[i] = k
    BY <1>3
  <2> QED BY <1>3, <2>2, <2>3 DEF RestOf
<1>7. \A t : PlacesIn(e, t) = {} /\ Cardinality(PlacesIn(e, t)) = 0
  <2>1. \A t : PlacesIn(e, t) = {}
    BY DEF PlacesIn
  <2> QED BY <2>1, FS_EmptySet
<1>8. ASSUME NEW t \in TrackIds
      PROVE  /\ RestOf(d, t) = {} => Len(items[t]) = 0
             /\ \A i \in RestOf(d, t) :
                  (\A j \in RestOf(d, t) : i <= j) => d[i].start_index = 0
  <2>1. /\ Len(coord[t]) \in Nat /\ CountBefore(coord[t], 0) = 0
        /\ CountBefore(coord[t], Len(coord[t])) = Len(items[t])
    BY CoverEnds
  <2>2. CASE Len(coord[t]) = 0
    <3>1. ASSUME NEW i \in RestOf(d, t) PROVE FALSE
      <4>1. i \in DOMAIN d /\ d[i].track_id = t
        BY DEF RestOf
      <4>2. d[i].chunk_index + 1 \in 1..0
        BY <1>5, <2>2, <4>1 DEF IsChunk
      <4> QED BY <4>2
    <3> QED BY <2>1, <2>2, <3>1
  <2>3. CASE Len(coord[t]) # 0
    <3>1. 1 \in 1..Len(coord[t])
      BY <2>1, <2>3
    <3>2. PICK k \in RestOf(d, t) : d[k].chunk_index = 0
      BY <1>6, <3>1
    <3>3. ASSUME NEW i \in RestOf(d, t), \A j \in RestOf(d, t) : i <= j
          PROVE  d[i].start_index = 0
      <4>0. i \in DOMAIN d /\ d[i].track_id = t /\ k \in DOMAIN d /\ d[k].track_id = t
        BY <3>2 DEF RestOf
      <4>1. /\ i \in DOMAIN d /\ d[i].track_id = t /\ k \in DOMAIN d /\ d[k].track_id = t
            /\ i \in Int /\ k \in Int /\ i <= k
        <5>1. i <= k
          BY <3>2, <3>3
        <5> QED BY <1>1, <1>3, <4>0, <5>1
      <4>2. d[i].chunk_index \in Nat
        BY <1>5, <4>1 DEF PlannedChunk
      <4>3. i < k => d[i].chunk_index < d[k].chunk_index
        BY <4>1 DEF InOrder
      <4>4. ~ (i < k)
        BY <3>2, <4>2, <4>3
      <4>5. d[i].chunk_index = 0
        BY <3>2, <4>1, <4>4
      <4> QED BY <1>5, <2>1, <4>1, <4>5 DEF StartsChunk, ChunkEnd
    <3> QED BY <3>2, <3>3
  <2> QED BY <2>2, <2>3
<1>9. IsRest(d, items, coord, e)
  <2> HIDE DEF IsChunk, StartsChunk
  <2> QED BY <1>4, <1>5, <1>6, <1>7, <1>8 DEF IsRest
<1>10. IsHead(d, coord, e)
  <2>1. SUFFICES ASSUME d # << >>
                 PROVE  LET t == d[1].track_id
                            done == d[1].start_index - ChunkEnd(coord, t, d[1].chunk_index)
                        IN  done = 0 /\ d[1].start_index < d[1].end_index
    <3>1. Len(e) = 0 /\ 0 \in 0..0 /\ 0 - 0 + 1..0 = {} /\ ~ (0 > 0)
      OBVIOUS
    <3> QED BY <3>1 DEF IsHead
  <2> DEFINE h == d[1]
  <2>2. 1 \in DOMAIN d
    BY <1>4, <2>1
  <2>3. h \in PlannedChunk /\ IsChunk(h, coord) /\ StartsChunk(h, coord)
    BY <1>5, <2>2
  <2> HIDE DEF h
  <2> DEFINE t == h.track_id
             k == h.chunk_index
             C == coord[t]
  <2>4. t \in TrackIds /\ k \in Nat /\ h.start_index \in Nat
    BY <2>3 DEF PlannedChunk
  <2>5. /\ k + 1 \in 1..Len(C) /\ h.end_index = CountBefore(C, k + 1)
        /\ h.start_index = CountBefore(C, k)
    BY <2>3 DEF IsChunk, StartsChunk, ChunkEnd
  <2>6. /\ Len(C) \in Nat
        /\ \A i, m \in 0..Len(C) : i < m => CountBefore(C, i) < CountBefore(C, m)
    BY <2>4, CoverEnds
  <2> HIDE DEF t, k, C
  <2>7. k \in 0..Len(C) /\ k + 1 \in 0..Len(C) /\ k < k + 1
    BY <2>4, <2>5, <2>6
  <2>8. h.start_index < h.end_index
    BY <2>5, <2>6, <2>7
  <2>9. h.start_index - ChunkEnd(coord, t, k) = 0
    BY <2>4, <2>5 DEF ChunkEnd, C
  <2> QED BY <2>8, <2>9 DEF h, t, k
<1> QED BY <1>9, <1>10

(* The last item of a chunk: the chunk lies whole.                         *)
LEMMA LayOutLast ==
  ASSUME NEW items, NEW coord, Cover(items, coord), NEW c, c # << >>,
         NEW p \in Seq(PlannedItem), IsRest(c, items, coord, p), IsHead(c, coord, p),
         NEW x \in PlannedItem, x.staged.track_id = c[1].track_id, NEW q, q = Append(p, x),
         c[1].start_index + 1 = c[1].end_index, NEW d, d = Tail(c)
  PROVE  IsRest(d, items, coord, q) /\ IsHead(d, coord, q)
<1> DEFINE t == c[1].track_id
           k == c[1].chunk_index
           s == c[1].start_index
           e == c[1].end_index
           from == ChunkEnd(coord, t, k)
           n == Len(p)
           L == Len(coord[t])
<1>1. /\ c \in Seq(PlannedChunk) /\ Len(c) \in Nat \ {0} /\ 1 \in DOMAIN c
      /\ DOMAIN c = 1..Len(c) /\ c[1] \in PlannedChunk
  BY LayoutStands
<1>2. /\ t \in TrackIds /\ k \in Nat /\ k + 1 \in 1..L
      /\ s \in Nat /\ e \in Nat /\ s < e
      /\ e = ChunkEnd(coord, t, k + 1) /\ from \in Nat
      /\ e = from + coord[t][k + 1] /\ coord[t][k + 1] \in Nat
      /\ Cardinality(PlacesIn(p, t)) = s
  BY LayoutStands
<1>3. /\ k + 1 < L => /\ k + 2 \in 1..L /\ ChunkEnd(coord, t, k + 2) \in Nat
                      /\ s < ChunkEnd(coord, t, k + 2)
      /\ k + 1 = L => e = Len(items[t])
  BY LayoutStands
<1>4. s + 1 = e
  OBVIOUS
<1>5. \A u : IsExtended(p, x, q, u, n)
  BY PlacesExtend
<1>6. ASSUME NEW u \in TrackIds
      PROVE  /\ Len(coord[u]) \in Nat
             /\ \A i \in 0..Len(coord[u]) : ChunkEnd(coord, u, i) \in Nat
             /\ \A i \in 1..Len(coord[u]) :
                  ChunkEnd(coord, u, i) = ChunkEnd(coord, u, i - 1) + coord[u][i]
             /\ \A i, m \in 0..Len(coord[u]) :
                  i < m => ChunkEnd(coord, u, i) < ChunkEnd(coord, u, m)
  <2>1. Len(items[u]) \in Nat
    BY CoverEnds
  <2> QED BY <2>1, CoverEnds DEF ChunkEnd
<1>7. /\ InOrder(c) /\ \A i \in DOMAIN c : IsChunk(c[i], coord) /\ (i > 1 => StartsChunk(c[i], coord))
      /\ \A u \in TrackIds :
           /\ \A j \in 1..Len(coord[u]) :
                \/ \E i \in RestOf(c, u) : c[i].chunk_index = j - 1
                \/ /\ LiesWhole(p, coord, u, j)
                   /\ ChunkEnd(coord, u, j) <= Cardinality(PlacesIn(p, u))
           /\ RestOf(c, u) = {} => Cardinality(PlacesIn(p, u)) = Len(items[u])
           /\ \A i \in RestOf(c, u) :
                (\A j \in RestOf(c, u) : i <= j) => Cardinality(PlacesIn(p, u)) = c[i].start_index
  BY DEF IsRest
<1>8. \A u, j : LiesWhole(p, coord, u, j) => LiesWhole(q, coord, u, j)
  BY WholeKept
<1>9. LiesWhole(q, coord, t, k + 1)
  <2> DEFINE T == PlacesIn(q, t)
  <2>1. PICK o : o = n - (s - from) + 1 /\ StandsLast(q, t, o, from)
    BY HeadExtends
  <2>6. Len(q) = n + 1
    OBVIOUS
  <2>2. /\ o \in T /\ o \in 1..n + 1 /\ o..n + 1 \subseteq T /\ NumberIn(T, o) = from + 1
    BY <2>1, <2>6 DEF StandsLast
  <2>3. n \in Nat
    OBVIOUS
  <2> HIDE DEF t, k, s, e, n, T, from
  <2>4. coord[t][k + 1] = s + 1 - from
    <3>1. PICK z : z = coord[t][k + 1]
      OBVIOUS
    <3>2. z \in Nat /\ from \in Nat /\ s \in Nat /\ e = from + z /\ s + 1 = e
      BY <1>2, <1>4, <3>1
    <3>3. z = s + 1 - from
      BY <3>2
    <3> QED BY <3>1, <3>3
  <2>5. o + coord[t][k + 1] - 1 = n + 1 /\ (k + 1) - 1 = k
    <3>1. s \in Nat /\ from \in Nat /\ k \in Nat
      BY <1>2
    <3>2. o = n - (s - from) + 1
      BY <2>1
    <3>3. o + (s + 1 - from) - 1 = n + 1
      BY <2>3, <3>1, <3>2
    <3> QED BY <2>4, <3>1, <3>3
  <2> QED BY <2>2, <2>5 DEF LiesWhole, T, from
<1> HIDE DEF t, k, s, e, n, L, from, LiesWhole, IsChunk, StartsChunk, InOrder, IsExtended
<1>10. /\ Cardinality(PlacesIn(q, t)) = s + 1
       /\ \A u : u # t => PlacesIn(q, u) = PlacesIn(p, u)
       /\ \A u : /\ Cardinality(PlacesIn(p, u)) \in Nat /\ Cardinality(PlacesIn(q, u)) \in Nat
                 /\ Cardinality(PlacesIn(p, u)) <= Cardinality(PlacesIn(q, u))
  BY <1>2, <1>5 DEF IsExtended, t
<1>11. /\ d \in Seq(PlannedChunk) /\ Len(d) = Len(c) - 1 /\ DOMAIN d = 1..Len(c) - 1
       /\ \A i \in DOMAIN d : d[i] = c[i + 1] /\ i + 1 \in DOMAIN c /\ i + 1 > 1 /\ i \in Int
       /\ \A i \in DOMAIN c : i \in Int /\ (i # 1 => i > 1 /\ i - 1 \in DOMAIN d /\ d[i - 1] = c[i])
  <2>1. Len(d) = Len(c) - 1 /\ d \in Seq(PlannedChunk) /\ \A i \in 1..Len(c) - 1 : d[i] = c[i + 1]
    BY <1>1
  <2>2. DOMAIN d = 1..Len(c) - 1
    BY <2>1
  <2>3. ASSUME NEW i \in DOMAIN c, i # 1 PROVE i > 1 /\ i - 1 \in DOMAIN d /\ d[i - 1] = c[i]
    <3>1. i > 1 /\ i - 1 \in 1..Len(c) - 1 /\ (i - 1) + 1 = i
      BY <1>1, <2>3
    <3> QED BY <2>1, <2>2, <3>1
  <2>4. \A i \in DOMAIN c : i \in Int
    BY <1>1
  <2>5. \A i \in DOMAIN d : i \in Int /\ i + 1 > 1 /\ i + 1 \in DOMAIN c
    BY <1>1, <2>2
  <2> QED BY <2>1, <2>2, <2>3, <2>4, <2>5
<1>12. \A i \in DOMAIN d :
         d[i] \in PlannedChunk /\ IsChunk(d[i], coord) /\ StartsChunk(d[i], coord)
  BY <1>7, <1>11
<1>13. /\ \A u : \A i \in RestOf(c, u) : i # 1 => i - 1 \in RestOf(d, u) /\ d[i - 1] = c[i]
       /\ \A u : \A i \in RestOf(d, u) : i + 1 \in RestOf(c, u) /\ d[i] = c[i + 1]
       /\ \A u : 1 \in RestOf(c, u) <=> u = t
  BY <1>1, <1>11 DEF RestOf, t
<1>14. InOrder(d)
  <2>1. SUFFICES ASSUME NEW i \in DOMAIN d, NEW j \in DOMAIN d, i < j,
                        d[i].track_id = d[j].track_id
                 PROVE  d[i].chunk_index < d[j].chunk_index
    BY DEF InOrder
  <2>2. i + 1 < j + 1
    BY <1>11, <2>1
  <2> QED BY <1>7, <1>11, <2>1, <2>2 DEF InOrder
<1>15. ASSUME NEW u \in TrackIds, NEW j \in 1..Len(coord[u])
       PROVE  \/ \E i \in RestOf(d, u) : d[i].chunk_index = j - 1
              \/ /\ LiesWhole(q, coord, u, j)
                 /\ ChunkEnd(coord, u, j) <= Cardinality(PlacesIn(q, u))
  <2>1. CASE LiesWhole(p, coord, u, j) /\ ChunkEnd(coord, u, j) <= Cardinality(PlacesIn(p, u))
    <3>1. ChunkEnd(coord, u, j) \in Nat
      BY <1>6
    <3>2. ChunkEnd(coord, u, j) <= Cardinality(PlacesIn(q, u))
      BY <1>10, <2>1, <3>1
    <3> QED BY <1>8, <2>1, <3>2
  <2>2. ASSUME NEW i \in RestOf(c, u), c[i].chunk_index = j - 1
        PROVE  \/ \E m \in RestOf(d, u) : d[m].chunk_index = j - 1
               \/ /\ LiesWhole(q, coord, u, j)
                  /\ ChunkEnd(coord, u, j) <= Cardinality(PlacesIn(q, u))
    <3>1. CASE i # 1
      BY <1>13, <2>2, <3>1
    <3>2. CASE i = 1
      <4>1. u = t /\ j = k + 1
        <5>1. u = t /\ k = j - 1
          BY <1>13, <2>2, <3>2 DEF k
        <5> QED BY <5>1
      <4>2. ChunkEnd(coord, u, j) <= Cardinality(PlacesIn(q, u))
        BY <1>2, <1>4, <1>10, <4>1
      <4> QED BY <1>9, <4>1, <4>2
    <3> QED BY <3>1, <3>2
  <2> QED BY <1>7, <2>1, <2>2
<1>16. ASSUME k + 1 < L PROVE \E i \in RestOf(d, t) : d[i].chunk_index = k + 1
  <2>1. k + 2 \in 1..Len(coord[t]) /\ (k + 2) - 1 = k + 1
    BY <1>2, <1>3, <1>16 DEF L
  <2>2. ~ (ChunkEnd(coord, t, k + 2) <= Cardinality(PlacesIn(p, t)))
    BY <1>2, <1>3, <1>16
  <2>3. PICK i \in RestOf(c, t) : c[i].chunk_index = k + 1
    BY <1>2, <1>7, <2>1, <2>2
  <2>4. i # 1
    BY <1>2, <2>3 DEF k
  <2> QED BY <1>13, <2>3, <2>4
<1>17. ASSUME NEW u \in TrackIds, RestOf(d, u) = {}
       PROVE  Cardinality(PlacesIn(q, u)) = Len(items[u])
  <2>1. CASE u # t
    <3>1. RestOf(c, u) = {}
      BY <1>13, <1>17, <2>1
    <3> QED BY <1>7, <1>10, <2>1, <3>1
  <2>2. CASE u = t
    <3>1. k + 1 = L
      <4>1. ~ (k + 1 < L)
        BY <1>16, <1>17, <2>2
      <4>2. L \in Nat
        BY <1>2, <1>6 DEF L
      <4> QED BY <1>2, <4>1, <4>2
    <3> QED BY <1>3, <1>4, <1>10, <2>2, <3>1
  <2> QED BY <2>1, <2>2
<1>18. ASSUME NEW u \in TrackIds, NEW i \in RestOf(d, u), \A j \in RestOf(d, u) : i <= j
       PROVE  Cardinality(PlacesIn(q, u)) = d[i].start_index
  <2>1. i + 1 \in RestOf(c, u) /\ d[i] = c[i + 1] /\ i \in DOMAIN d /\ i \in Int /\ d[i].track_id = u
    BY <1>11, <1>13 DEF RestOf
  <2>2. CASE u # t
    <3>1. ASSUME NEW j \in RestOf(c, u) PROVE i + 1 <= j
      <4>1. j # 1 /\ j - 1 \in RestOf(d, u) /\ j \in Int
        BY <1>11, <1>13, <2>2 DEF RestOf
      <4>2. i <= j - 1
        BY <1>18, <4>1
      <4> QED BY <2>1, <4>1, <4>2
    <3> QED BY <1>7, <1>10, <2>1, <2>2, <3>1
  <2>3. CASE u = t
    <3> DEFINE m == d[i].chunk_index
    <3>1. m \in Nat /\ m + 1 \in 1..L /\ d[i].start_index = ChunkEnd(coord, t, m)
      <4>1. d[i] \in PlannedChunk /\ IsChunk(d[i], coord) /\ StartsChunk(d[i], coord)
        BY <1>11, <1>12, <2>1
      <4> QED BY <2>1, <2>3, <4>1 DEF PlannedChunk, IsChunk, StartsChunk, L
    <3>2. k < m
      <4>1. 1 \in DOMAIN c /\ i + 1 \in DOMAIN c /\ 1 < i + 1 /\ c[1].track_id = c[i + 1].track_id
        BY <1>1, <1>11, <2>1, <2>3 DEF t
      <4> QED BY <1>7, <2>1, <4>1 DEF InOrder, k
    <3>3. m = k + 1
      <4> HIDE DEF m
      <4>1. k + 1 < L
        <5>1. L \in Nat
          BY <1>2, <1>6 DEF L
        <5> QED BY <1>2, <3>1, <3>2, <5>1
      <4>2. PICK j \in RestOf(d, t) : d[j].chunk_index = k + 1
        BY <1>16, <4>1
      <4>3. j \in DOMAIN d /\ d[j].track_id = t /\ i <= j /\ j \in Int
        BY <1>11, <1>18, <2>3, <4>2 DEF RestOf
      <4>4. CASE i = j
        BY <4>2, <4>4 DEF m
      <4>5. CASE i # j
        <5>1. m < k + 1
          BY <1>14, <2>1, <2>3, <4>2, <4>3, <4>5 DEF InOrder, m
        <5> QED BY <1>2, <3>1, <3>2, <5>1
      <4> QED BY <4>4, <4>5
    <3> QED BY <1>2, <1>4, <1>10, <2>3, <3>1, <3>3
  <2> QED BY <2>2, <2>3
<1>19. IsRest(d, items, coord, q)
  BY <1>11, <1>12, <1>14, <1>15, <1>17, <1>18 DEF IsRest
<1>20. IsHead(d, coord, q)
  <2>1. SUFFICES ASSUME d # << >> PROVE IsHead(d, coord, q)
    BY DEF IsHead
  <2> DEFINE h == d[1]
             b == h.chunk_index
             C == coord[h.track_id]
  <2>2. 1 \in DOMAIN d
    BY <1>11, <2>1
  <2>3. h \in PlannedChunk /\ IsChunk(h, coord) /\ StartsChunk(h, coord)
    BY <1>12, <2>2
  <2> HIDE DEF h
  <2>4. h.track_id \in TrackIds /\ b \in Nat /\ h.start_index \in Nat
    BY <2>3 DEF PlannedChunk
  <2>5. /\ b + 1 \in 1..Len(C) /\ h.end_index = ChunkEnd(coord, h.track_id, b + 1)
        /\ h.start_index = ChunkEnd(coord, h.track_id, b)
    BY <2>3 DEF IsChunk, StartsChunk
  <2> HIDE DEF b, C
  <2>6. b \in 0..Len(C) /\ b + 1 \in 0..Len(C) /\ b < b + 1
    BY <1>6, <2>4, <2>5 DEF C
  <2>7. h.start_index < h.end_index
    BY <1>6, <2>4, <2>5, <2>6 DEF C
  <2>8. h.start_index - ChunkEnd(coord, h.track_id, b) = 0
    BY <2>4, <2>5
  <2>9. Len(q) \in Nat
    BY <1>5 DEF IsExtended, n
  <2>10. Len(q) - 0 + 1..Len(q) = {} /\ 0 \in 0..Len(q) /\ ~ (0 > 0)
    BY <2>9
  <2> QED BY <2>7, <2>8, <2>10 DEF IsHead, h, b
<1> QED BY <1>19, <1>20
-----------------------------------------------------------------------------
(* Any other item of a chunk: more of the chunk stands last.               *)
LEMMA LayOutInner ==
  ASSUME NEW items, NEW coord, Cover(items, coord), NEW c, c # << >>,
         NEW p \in Seq(PlannedItem), IsRest(c, items, coord, p), IsHead(c, coord, p),
         NEW x \in PlannedItem, x.staged.track_id = c[1].track_id, NEW q, q = Append(p, x),
         c[1].start_index + 1 # c[1].end_index,
         NEW d, d = << [c[1] EXCEPT !.start_index = c[1].start_index + 1] >> \o Tail(c)
  PROVE  IsRest(d, items, coord, q) /\ IsHead(d, coord, q)
<1> DEFINE h == c[1]
           t == c[1].track_id
           k == c[1].chunk_index
           s == c[1].start_index
           e == c[1].end_index
           from == ChunkEnd(coord, t, k)
           n == Len(p)
           g == [c[1] EXCEPT !.start_index = c[1].start_index + 1]
<1>1. /\ c \in Seq(PlannedChunk) /\ Len(c) \in Nat \ {0} /\ 1 \in DOMAIN c
      /\ DOMAIN c = 1..Len(c) /\ c[1] \in PlannedChunk
  BY LayoutStands
<1>2. /\ t \in TrackIds /\ k \in Nat /\ s \in Nat /\ e \in Nat /\ s < e /\ from \in Nat
      /\ Cardinality(PlacesIn(p, t)) = s /\ s - from \in 0..Len(p)
  BY LayoutStands
<1>3. s + 1 # e
  OBVIOUS
<1>4. /\ g \in PlannedChunk /\ g.track_id = t /\ g.chunk_index = k /\ g.start_index = s + 1
      /\ g.end_index = e
  <2>1. h \in PlannedChunk /\ s + 1 \in Nat
    BY <1>1, <1>2
  <2>2. g = [h EXCEPT !.start_index = s + 1]
    OBVIOUS
  <2>3. g \in PlannedChunk /\ g.track_id = h.track_id /\ g.chunk_index = h.chunk_index
        /\ g.start_index = s + 1 /\ g.end_index = h.end_index
    <3> HIDE DEF h, s, g
    <3> QED BY <2>1, <2>2 DEF PlannedChunk
  <2> QED BY <2>3
<1>5. \A u : IsExtended(p, x, q, u, n)
  BY PlacesExtend
<1>6. ASSUME NEW u \in TrackIds, NEW j \in 1..Len(coord[u]) PROVE ChunkEnd(coord, u, j) \in Nat
  <2>1. Len(items[u]) \in Nat /\ Len(coord[u]) \in Nat
    BY CoverEnds
  <2>2. j \in 0..Len(coord[u])
    BY <2>1
  <2> QED BY <2>1, <2>2, CoverEnds DEF ChunkEnd
<1>7. /\ InOrder(c) /\ \A i \in DOMAIN c : IsChunk(c[i], coord) /\ (i > 1 => StartsChunk(c[i], coord))
      /\ \A u \in TrackIds :
           /\ \A j \in 1..Len(coord[u]) :
                \/ \E i \in RestOf(c, u) : c[i].chunk_index = j - 1
                \/ /\ LiesWhole(p, coord, u, j)
                   /\ ChunkEnd(coord, u, j) <= Cardinality(PlacesIn(p, u))
           /\ RestOf(c, u) = {} => Cardinality(PlacesIn(p, u)) = Len(items[u])
           /\ \A i \in RestOf(c, u) :
                (\A j \in RestOf(c, u) : i <= j) => Cardinality(PlacesIn(p, u)) = c[i].start_index
  BY DEF IsRest
<1>8. \A u, j : LiesWhole(p, coord, u, j) => LiesWhole(q, coord, u, j)
  BY WholeKept
<1>9. PICK o : o = n - (s - from) + 1 /\ StandsLast(q, t, o, from)
  BY HeadExtends
<1>10. IsChunk(g, coord)
  <2>1. IsChunk(h, coord)
    BY <1>1, <1>7
  <2> HIDE DEF g
  <2> QED BY <1>4, <2>1 DEF IsChunk
<1>11. /\ d \in Seq(PlannedChunk) /\ DOMAIN d = DOMAIN c /\ d[1] = g
       /\ \A i \in DOMAIN c : i \in Int /\ (i # 1 => d[i] = c[i] /\ i > 1)
  <2>1. Tail(c) \in Seq(PlannedChunk) /\ Len(Tail(c)) = Len(c) - 1
        /\ \A i \in 1..Len(c) - 1 : Tail(c)[i] = c[i + 1]
    BY <1>1
  <2>2. d = << g >> \o Tail(c)
    OBVIOUS
  <2> HIDE DEF g
  <2>3. << g >> \in Seq(PlannedChunk) /\ Len(<< g >>) = 1 /\ << g >>[1] = g
    BY <1>4
  <2>4. d \in Seq(PlannedChunk) /\ Len(d) = Len(c) /\ d[1] = g
        /\ \A i \in 2..Len(c) : d[i] = Tail(c)[i - 1]
    <3> DEFINE a == << g >>
               b == Tail(c)
    <3>1. a \in Seq(PlannedChunk) /\ b \in Seq(PlannedChunk) /\ Len(a) = 1 /\ a[1] = g
          /\ Len(b) = Len(c) - 1 /\ d = a \o b
      BY <2>1, <2>2, <2>3
    <3> HIDE DEF a, b
    <3>2. /\ Len(d) = Len(a) + Len(b) /\ d \in Seq(PlannedChunk)
          /\ \A i \in 1..Len(a) + Len(b) : d[i] = IF i <= Len(a) THEN a[i] ELSE b[i - Len(a)]
      <4> DEFINE ab == a \o b
      <4>1. /\ Len(ab) = Len(a) + Len(b) /\ ab \in Seq(PlannedChunk)
            /\ \A i \in 1..Len(a) + Len(b) : ab[i] = IF i <= Len(a) THEN a[i] ELSE b[i - Len(a)]
        <5>1. a \in Seq(PlannedChunk) /\ b \in Seq(PlannedChunk)
          BY <3>1
        <5> QED BY ONLY <5>1, ConcatProperties DEF ab
      <4>2. d = ab
        BY <3>1
      <4> QED BY <4>1, <4>2
    <3>3. Len(a) + Len(b) = Len(c)
      BY <1>1, <3>1
    <3>4. d[1] = g
      <4>1. 1 \in 1..Len(c) /\ 1 <= 1
        BY <1>1
      <4> QED BY <3>1, <3>2, <3>3, <4>1
    <3>5. ASSUME NEW i \in 2..Len(c) PROVE d[i] = b[i - 1]
      <4>1. i \in 1..Len(c) /\ ~ (i <= 1)
        OBVIOUS
      <4> QED BY <3>1, <3>2, <3>3, <4>1
    <3> QED BY <3>2, <3>3, <3>4, <3>5 DEF b
  <2>5. ASSUME NEW i \in DOMAIN c, i # 1 PROVE d[i] = c[i] /\ i > 1
    <3>1. i \in 2..Len(c) /\ i - 1 \in 1..Len(c) - 1 /\ (i - 1) + 1 = i
      BY <1>1, <2>5
    <3> QED BY <2>1, <2>4, <3>1
  <2>6. \A i \in DOMAIN c : i \in Int
    BY <1>1
  <2> QED BY <1>1, <2>4, <2>5, <2>6
<1> HIDE DEF h, t, k, s, e, n, from, g, LiesWhole, IsChunk, StartsChunk, IsExtended
<1>12. /\ Cardinality(PlacesIn(q, t)) = s + 1
       /\ \A u : u # t => PlacesIn(q, u) = PlacesIn(p, u)
       /\ \A u : /\ Cardinality(PlacesIn(p, u)) \in Nat /\ Cardinality(PlacesIn(q, u)) \in Nat
                 /\ Cardinality(PlacesIn(p, u)) <= Cardinality(PlacesIn(q, u))
  BY <1>2, <1>5 DEF IsExtended, t
<1>13. \A i \in DOMAIN c : /\ d[i].track_id = c[i].track_id
                           /\ d[i].chunk_index = c[i].chunk_index
                           /\ IsChunk(d[i], coord) /\ (i > 1 => StartsChunk(d[i], coord))
  <2>1. c[1].track_id = t /\ c[1].chunk_index = k
    BY DEF t, k
  <2>2. ASSUME NEW i \in DOMAIN c
        PROVE  /\ d[i].track_id = c[i].track_id
               /\ d[i].chunk_index = c[i].chunk_index
               /\ IsChunk(d[i], coord) /\ (i > 1 => StartsChunk(d[i], coord))
    <3>1. CASE i = 1
      <4>1. ~ (1 > 1)
        OBVIOUS
      <4> QED BY <1>4, <1>10, <1>11, <2>1, <3>1, <4>1
    <3>2. CASE i # 1
      BY <1>7, <1>11, <3>2
    <3> QED BY <3>1, <3>2
  <2> QED BY <2>2
<1>14. \A u : RestOf(d, u) = RestOf(c, u)
  BY <1>11, <1>13 DEF RestOf
<1>15. InOrder(d)
  <2>1. SUFFICES ASSUME NEW i \in DOMAIN c, NEW j \in DOMAIN c, i < j,
                        d[i].track_id = d[j].track_id
                 PROVE  d[i].chunk_index < d[j].chunk_index
    BY <1>11 DEF InOrder
  <2>2. c[i].track_id = c[j].track_id
    BY <1>13, <2>1
  <2>3. c[i].chunk_index < c[j].chunk_index
    BY <1>7, <2>1, <2>2 DEF InOrder
  <2> QED BY <1>13, <2>3
<1>16. ASSUME NEW u \in TrackIds, NEW j \in 1..Len(coord[u])
       PROVE  \/ \E i \in RestOf(d, u) : d[i].chunk_index = j - 1
              \/ /\ LiesWhole(q, coord, u, j)
                 /\ ChunkEnd(coord, u, j) <= Cardinality(PlacesIn(q, u))
  <2>1. CASE LiesWhole(p, coord, u, j) /\ ChunkEnd(coord, u, j) <= Cardinality(PlacesIn(p, u))
    <3>1. ChunkEnd(coord, u, j) \in Nat
      BY <1>6
    <3>2. ChunkEnd(coord, u, j) <= Cardinality(PlacesIn(q, u))
      BY <1>12, <2>1, <3>1
    <3> QED BY <1>8, <2>1, <3>2
  <2>2. CASE \E i \in RestOf(c, u) : c[i].chunk_index = j - 1
    <3>1. PICK i \in RestOf(c, u) : c[i].chunk_index = j - 1
      BY <2>2
    <3>2. i \in RestOf(d, u) /\ d[i].chunk_index = j - 1
      BY <1>13, <1>14, <3>1 DEF RestOf
    <3> QED BY <3>2
  <2> QED BY <1>7, <2>1, <2>2
<1>17. 1 \in RestOf(c, t)
  BY <1>1 DEF RestOf, t
<1>18. ASSUME NEW u \in TrackIds, RestOf(d, u) = {}
       PROVE  Cardinality(PlacesIn(q, u)) = Len(items[u])
  <2>1. u # t /\ RestOf(c, u) = {}
    BY <1>14, <1>17, <1>18
  <2> QED BY <1>7, <1>12, <2>1
<1>19. ASSUME NEW u \in TrackIds, NEW i \in RestOf(d, u), \A j \in RestOf(d, u) : i <= j
       PROVE  Cardinality(PlacesIn(q, u)) = d[i].start_index
  <2>1. i \in RestOf(c, u) /\ i \in DOMAIN c /\ c[i].track_id = u /\ \A j \in RestOf(c, u) : i <= j
    <3>1. RestOf(d, u) = RestOf(c, u)
      BY <1>14
    <3>2. i \in RestOf(c, u) /\ \A j \in RestOf(c, u) : i <= j
      BY <1>19, <3>1
    <3> QED BY <3>2 DEF RestOf
  <2>2. CASE u # t
    <3>1. i # 1
      BY <2>1, <2>2 DEF t
    <3> QED BY <1>7, <1>11, <1>12, <2>1, <2>2, <3>1
  <2>3. CASE u = t
    <3>1. i = 1
      <4>1. i <= 1 /\ i \in 1..Len(c)
        BY <1>1, <1>17, <2>1, <2>3
      <4> QED BY <1>1, <4>1
    <3> QED BY <1>4, <1>11, <1>12, <2>3, <3>1
  <2> QED BY <2>2, <2>3
<1>20. IsRest(d, items, coord, q)
  BY <1>11, <1>13, <1>15, <1>16, <1>18, <1>19 DEF IsRest
<1>21. IsHead(d, coord, q)
  <2>1. /\ d[1].track_id = t /\ d[1].chunk_index = k /\ d[1].start_index = s + 1
        /\ d[1].end_index = e
    BY <1>4, <1>11
  <2>2. n \in Nat /\ Len(q) = n + 1
    BY <1>5 DEF IsExtended
  <2>3. s + 1 < e
    BY <1>2, <1>3
  <2>4. (s + 1) - from \in 0..Len(q) /\ Len(q) - ((s + 1) - from) + 1 = o
    <3>1. s - from \in 0..n
      BY <1>2 DEF n
    <3> QED BY <1>2, <1>9, <2>2, <3>1
  <2>5. o..Len(q) \subseteq PlacesIn(q, t) /\ NumberIn(PlacesIn(q, t), o) = from + 1
    BY <1>9 DEF StandsLast
  <2>6. ChunkEnd(coord, d[1].track_id, d[1].chunk_index) = from
    BY <2>1 DEF from
  <2> QED BY <2>1, <2>3, <2>4, <2>5, <2>6 DEF IsHead
<1> QED BY <1>20, <1>21
-----------------------------------------------------------------------------
(* The layout p is made of the items of the tracks in their order, and its *)
(* items tile the payload.                                                 *)
IsPlanned(p, total, items) ==
  /\ p \in Seq(PlannedItem) /\ total \in Nat
  /\ \A t \in TrackIds : \A i \in PlacesIn(p, t) :
       /\ NumberIn(PlacesIn(p, t), i) \in 1..Len(items[t])
       /\ p[i].staged = items[t][NumberIn(PlacesIn(p, t), i)]
  /\ \A i \in DOMAIN p :
       p[i].output_offset = IF i = 1 THEN 0 ELSE output_end_offset(p[i - 1])
  /\ total = IF p = << >> THEN 0 ELSE output_end_offset(p[Len(p)])

(* The next item of the first chunk lies behind the payload so far.        *)
LEMMA PlanOne ==
  ASSUME NEW items, NEW coord, Cover(items, coord), NEW c, c # << >>,
         NEW p, NEW total, IsPlanned(p, total, items),
         IsRest(c, items, coord, p), IsHead(c, coord, p),
         \A u \in TrackIds : \A i \in 1..Len(items[u]) : items[u][i].track_id = u,
         NEW item, item = items[c[1].track_id][c[1].start_index + 1],
         NEW x, x = Planned(item, total)
  PROVE  /\ x \in PlannedItem /\ x.staged.track_id = c[1].track_id
         /\ IsPlanned(Append(p, x), total + item.data_size, items)
<1> DEFINE t == c[1].track_id
           s == c[1].start_index
           q == Append(p, x)
           n == Len(p)
<1>0. p \in Seq(PlannedItem)
  BY DEF IsPlanned
<1>1. /\ t \in TrackIds /\ s \in Nat /\ s < Len(items[t]) /\ Cardinality(PlacesIn(p, t)) = s
  <2> DEFINE k == c[1].chunk_index
             e == c[1].end_index
  <2>1. /\ t \in TrackIds /\ s \in Nat /\ Cardinality(PlacesIn(p, t)) = s /\ s < e
        /\ e = ChunkEnd(coord, t, k + 1) /\ k + 1 \in 1..Len(coord[t])
    BY <1>0, LayoutStands
  <2> HIDE DEF t, s, e, k
  <2>2. /\ Len(coord[t]) \in Nat /\ Len(items[t]) \in Nat
        /\ \A i \in 0..Len(coord[t]) : CountBefore(coord[t], i) \in 0..Len(items[t])
    BY <2>1, CoverEnds
  <2>3. k + 1 \in 0..Len(coord[t])
    BY <2>1, <2>2
  <2>4. e \in 0..Len(items[t])
    BY <2>1, <2>2, <2>3 DEF ChunkEnd
  <2> QED BY <2>1, <2>2, <2>4
<1>2. /\ Len(items[t]) \in Nat /\ s + 1 \in 1..Len(items[t]) /\ item = items[t][s + 1]
      /\ item \in StagedItem /\ item.track_id = t
  <2>1. items[t] \in Seq(StagedItem)
    BY <1>1, CoverEnds
  <2>2. item = items[t][s + 1]
    OBVIOUS
  <2> HIDE DEF t, s
  <2>3. Len(items[t]) \in Nat /\ s + 1 \in 1..Len(items[t])
    BY <1>1, <2>1
  <2> QED BY <1>1, <2>1, <2>2, <2>3
<1>3. total \in Nat /\ item.data_size \in Nat
  BY <1>2 DEF IsPlanned, StagedItem
<1>4. x \in PlannedItem /\ x.staged = item /\ x.output_offset = total
  BY <1>2, <1>3 DEF Planned, PlannedItem
<1>5. \A u : IsExtended(p, x, q, u, n)
  BY <1>0, <1>4, PlacesExtend
<1> HIDE DEF t, s, q, n
<1>6. /\ n \in Nat /\ q \in Seq(PlannedItem) /\ Len(q) = n + 1 /\ DOMAIN q = 1..n + 1
      /\ q[n + 1] = x /\ \A i \in 1..n : q[i] = p[i]
  BY <1>5 DEF IsExtended
<1>7. ASSUME NEW u \in TrackIds, NEW i \in PlacesIn(q, u)
      PROVE  /\ NumberIn(PlacesIn(q, u), i) \in 1..Len(items[u])
             /\ q[i].staged = items[u][NumberIn(PlacesIn(q, u), i)]
  <2>1. i \in 1..n + 1
    BY <1>6 DEF PlacesIn
  <2>2. CASE i \in 1..n
    <3>1. i \in PlacesIn(p, u)
      BY <1>0, <1>6, <2>2 DEF PlacesIn, n
    <3>2. /\ NumberIn(PlacesIn(p, u), i) \in 1..Len(items[u])
          /\ p[i].staged = items[u][NumberIn(PlacesIn(p, u), i)]
      BY <3>1 DEF IsPlanned
    <3>3. NumberIn(PlacesIn(q, u), i) = NumberIn(PlacesIn(p, u), i)
      BY <1>5, <2>2 DEF IsExtended
    <3> QED BY <1>6, <2>2, <3>2, <3>3
  <2>3. CASE i = n + 1
    <3>1. u = t
      BY <1>2, <1>4, <1>6, <2>3 DEF PlacesIn
    <3>2. NumberIn(PlacesIn(q, u), i) = s + 1
      BY <1>1, <1>2, <1>4, <1>5, <2>3, <3>1 DEF IsExtended
    <3> QED BY <1>2, <1>4, <1>6, <2>3, <3>1, <3>2
  <2> QED BY <1>6, <2>1, <2>2, <2>3
<1>8. ASSUME NEW i \in DOMAIN q
      PROVE  q[i].output_offset = IF i = 1 THEN 0 ELSE output_end_offset(q[i - 1])
  <2>1. CASE i \in 1..n
    <3>1. p[i].output_offset = IF i = 1 THEN 0 ELSE output_end_offset(p[i - 1])
      BY <1>0, <2>1 DEF IsPlanned, n
    <3>2. i # 1 => i - 1 \in 1..n
      BY <1>6, <2>1
    <3> QED BY <1>6, <2>1, <3>1, <3>2
  <2>2. CASE i = n + 1
    <3>1. CASE p = << >>
      <4>1. n = 0 /\ total = 0
        BY <3>1 DEF IsPlanned, n
      <4> QED BY <1>4, <1>6, <2>2, <4>1
    <3>2. CASE p # << >>
      <4>1. n # 0 /\ total = output_end_offset(p[n])
        BY <1>0, <3>2 DEF IsPlanned, n
      <4>2. n \in 1..n /\ i # 1 /\ i - 1 = n
        BY <1>6, <2>2, <4>1
      <4> QED BY <1>4, <1>6, <2>2, <4>1, <4>2
    <3> QED BY <3>1, <3>2
  <2> QED BY <1>6, <2>1, <2>2
<1>9. /\ total + item.data_size \in Nat
      /\ total + item.data_size = IF q = << >> THEN 0 ELSE output_end_offset(q[Len(q)])
  <2>1. q # << >>
    BY <1>6
  <2>2. output_end_offset(q[Len(q)]) = total + item.data_size
    BY <1>4, <1>6 DEF output_end_offset
  <2> QED BY <1>3, <2>1, <2>2
<1>10. IsPlanned(q, total + item.data_size, items)
  BY <1>6, <1>7, <1>8, <1>9 DEF IsPlanned
<1> QED BY <1>2, <1>4, <1>10 DEF t, q
-----------------------------------------------------------------------------
(* A chunk for a sample, the planner's default, covers a track.            *)
LEMMA OnesCover ==
  ASSUME NEW items \in Seq(StagedItem), NEW c, c = OneEach(items)
  PROVE  /\ c \in Seq(Nat) /\ Total(c) = Len(items)
         /\ \A j \in 1..Len(c) : c[j] > 0
<1> DEFINE n == Len(items)
<1>1. /\ n \in Nat /\ c \in Seq(Nat) /\ Len(c) = n /\ \A i \in 1..n : c[i] = 1
  BY DEF OneEach
<1> HIDE DEF n
<1> DEFINE T == {m \in 0..n : SumTo(c, m) = m}
<1>2. 0 \in T
  <2>1. 0 \in Nat /\ \A j \in 1..0 : c[j] \in Int
    OBVIOUS
  <2>2. SumTo(c, 0) = 0
    BY <2>1, SumToIs
  <2> QED BY <1>1, <2>2
<1>3. ASSUME NEW m \in 1..n, m - 1 \in T PROVE m \in T
  <2>1. m \in Nat /\ m > 0 /\ \A j \in 1..m : c[j] \in Int
    BY <1>1
  <2>2. SumTo(c, m) = SumTo(c, m - 1) + c[m]
    BY <2>1, SumToIs
  <2> QED BY <1>1, <1>3, <2>2
<1>4. 0..n \subseteq T
  <2> HIDE DEF T
  <2> QED BY <1>1, <1>2, <1>3, BoundedInduction
<1>5. SumTo(c, n) = n
  <2>1. n \in 0..n
    BY <1>1
  <2> QED BY <1>4, <2>1
<1> QED BY <1>1, <1>5 DEF Total, CountBefore, n

(* The items staged of the job j, its first tracks done.                   *)
IsStaged(staged, j, done) ==
  /\ staged \in Seq(StagedItem)
  /\ j.way = "import" =>
       \A i \in DOMAIN staged :
         \E k \in 1..done : k \in DOMAIN j.tracks /\ j.tracks[k].track_id = staged[i].track_id
  /\ \A t : (\A i \in OfTrack(staged, t) : staged[i].duration > 0) =>
              \A i, k \in OfTrack(staged, t) :
                i < k => staged[i].decode_time < staged[k].decode_time

(* What a track's turn adds.                                               *)
IsBatch(b, id) ==
  /\ b \in Seq(StagedItem) /\ \A i \in DOMAIN b : b[i].track_id = id
  /\ (\A i \in DOMAIN b : b[i].duration > 0) =>
       \A i, k \in DOMAIN b : i < k => b[i].decode_time < b[k].decode_time

(* Staging one more track leaves what is staged as it must be.             *)
LEMMA StagedMore ==
  ASSUME NEW j \in ImportJob,
         \A i, k \in DOMAIN j.tracks : j.tracks[i].track_id = j.tracks[k].track_id => i = k,
         NEW done \in Nat, done < Len(j.tracks), NEW staged, IsStaged(staged, j, done),
         NEW b, IsBatch(b, j.tracks[done + 1].track_id)
  PROVE  IsStaged(staged \o b, j, done + 1)
<1> DEFINE w == staged \o b
           id == j.tracks[done + 1].track_id
           n == Len(staged)
           m == Len(b)
<1>1. staged \in Seq(StagedItem) /\ b \in Seq(StagedItem) /\ \A i \in DOMAIN b : b[i].track_id = id
  BY DEF IsStaged, IsBatch
<1>2. /\ n \in Nat /\ m \in Nat /\ DOMAIN staged = 1..n /\ DOMAIN b = 1..m
      /\ w \in Seq(StagedItem) /\ Len(w) = n + m /\ DOMAIN w = 1..n + m
      /\ \A i \in 1..n + m : w[i] = IF i <= n THEN staged[i] ELSE b[i - n]
  <2>1. /\ w \in Seq(StagedItem) /\ Len(w) = Len(staged) + Len(b)
        /\ \A i \in 1..Len(staged) + Len(b) :
             w[i] = IF i <= Len(staged) THEN staged[i] ELSE b[i - Len(staged)]
    BY <1>1, ConcatProperties
  <2> QED BY <1>1, <2>1
<1>3. j.way = "import" /\ j.tracks \in Seq(ImportedTrack) /\ done + 1 \in DOMAIN j.tracks
      /\ done + 1 \in 1..done + 1
  <2>1. j.way = "import" /\ j.tracks \in Seq(ImportedTrack)
    BY DEF ImportJob
  <2>2. DOMAIN j.tracks = 1..Len(j.tracks) /\ Len(j.tracks) \in Nat
    BY <2>1
  <2> QED BY <2>1, <2>2
<1> HIDE DEF w, n, m, id
<1>4. ASSUME NEW i \in 1..n + m
      PROVE  \/ i \in 1..n /\ w[i] = staged[i]
             \/ i - n \in 1..m /\ w[i] = b[i - n] /\ ~ (i <= n)
  <2>1. CASE i <= n
    BY <1>2, <2>1
  <2>2. CASE ~ (i <= n)
    BY <1>2, <2>2
  <2> QED BY <2>1, <2>2
<1>5. ASSUME NEW i \in 1..n
      PROVE  /\ w[i] = staged[i] /\ i \in DOMAIN staged /\ staged[i].track_id # id
             /\ \E k \in 1..done : k \in DOMAIN j.tracks /\ j.tracks[k].track_id = staged[i].track_id
  <2>1. i \in 1..n + m /\ i <= n
    BY <1>2
  <2>2. PICK k \in 1..done : k \in DOMAIN j.tracks /\ j.tracks[k].track_id = staged[i].track_id
    BY <1>2, <1>3 DEF IsStaged
  <2>3. k # done + 1
    OBVIOUS
  <2>4. staged[i].track_id # id
    BY <1>3, <2>2, <2>3 DEF id
  <2> QED BY <1>2, <2>1, <2>2, <2>4
<1>6. ASSUME NEW i \in DOMAIN w
      PROVE  \E k \in 1..done + 1 : k \in DOMAIN j.tracks /\ j.tracks[k].track_id = w[i].track_id
  <2>1. CASE i \in 1..n
    <3>1. PICK k \in 1..done : k \in DOMAIN j.tracks /\ j.tracks[k].track_id = w[i].track_id
      BY <1>5, <2>1
    <3>2. k \in 1..done + 1
      OBVIOUS
    <3> QED BY <3>1, <3>2
  <2>2. CASE i - n \in 1..m /\ w[i] = b[i - n]
    <3>1. w[i].track_id = id
      BY <1>1, <1>2, <2>2
    <3> QED BY <1>3, <3>1 DEF id
  <2> QED BY <1>2, <1>4, <2>1, <2>2
<1>7. ASSUME NEW t, \A i \in OfTrack(w, t) : w[i].duration > 0,
             NEW i \in OfTrack(w, t), NEW k \in OfTrack(w, t), i < k
      PROVE  w[i].decode_time < w[k].decode_time
  <2>1. i \in 1..n + m /\ k \in 1..n + m /\ w[i].track_id = t /\ w[k].track_id = t
    BY <1>2 DEF OfTrack
  <2>2. CASE t = id
    <3>1. ASSUME NEW x \in 1..n + m, w[x].track_id = id PROVE x - n \in 1..m /\ w[x] = b[x - n]
      <4>1. x \notin 1..n
        BY <1>5, <3>1
      <4> QED BY <1>4, <4>1
    <3>2. ASSUME NEW y \in DOMAIN b PROVE b[y].duration > 0
      <4>1. y + n \in 1..n + m /\ ~ (y + n <= n) /\ (y + n) - n = y
        BY <1>2
      <4>2. w[y + n] = b[y]
        BY <1>2, <4>1
      <4>3. y + n \in OfTrack(w, t)
        BY <1>1, <1>2, <2>2, <4>1, <4>2 DEF OfTrack
      <4> QED BY <1>7, <4>2, <4>3
    <3>3. i - n \in DOMAIN b /\ k - n \in DOMAIN b /\ w[i] = b[i - n] /\ w[k] = b[k - n]
      BY <1>2, <2>1, <2>2, <3>1
    <3>4. i - n < k - n
      BY <1>2, <1>7, <2>1
    <3> QED BY <3>2, <3>3, <3>4 DEF IsBatch
  <2>3. CASE t # id
    <3>1. ASSUME NEW x \in 1..n + m, w[x].track_id = t PROVE x \in 1..n /\ w[x] = staged[x]
      <4>1. ~ (x - n \in 1..m /\ w[x] = b[x - n])
        BY <1>1, <1>2, <2>3, <3>1
      <4> QED BY <1>4, <4>1
    <3>2. ASSUME NEW x \in OfTrack(staged, t) PROVE staged[x].duration > 0
      <4>1. x \in 1..n /\ staged[x].track_id = t
        BY <1>2 DEF OfTrack
      <4>2. x \in DOMAIN w /\ w[x] = staged[x]
        <5>1. x \in 1..n + m
          BY <1>2, <4>1
        <5> QED BY <1>2, <1>5, <4>1, <5>1
      <4>3. x \in OfTrack(w, t)
        BY <4>1, <4>2 DEF OfTrack
      <4> QED BY <1>7, <4>2, <4>3
    <3>3. i \in OfTrack(staged, t) /\ k \in OfTrack(staged, t) /\ w[i] = staged[i] /\ w[k] = staged[k]
      BY <1>2, <2>1, <3>1 DEF OfTrack
    <3> QED BY <1>7, <3>2, <3>3 DEF IsStaged
  <2> QED BY <2>2, <2>3
<1>8. IsStaged(w, j, done + 1)
  BY <1>2, <1>6, <1>7 DEF IsStaged
<1> QED BY <1>8 DEF w

(* The samples of a track are staged at times that increase with every     *)
(* sample that lasts.                                                      *)
LEMMA StagedIsBatch ==
  ASSUME job \in ImportJob, tracks_done \in Nat, tracks_done < Len(job.tracks)
  PROVE  IsBatch(Staged, track.track_id)
<1>1. track \in ImportedTrack
  BY DEF track, ImportJob
<1>2. samples \in Seq(ImportedSample) /\ track.track_id \in TrackIds /\ track.decode_offset \in Nat
  <2>1. samples \in Seq(ImportedSample)
    BY <1>1, SamplesNowAre DEF samples
  <2> QED BY <1>1, <2>1 DEF ImportedTrack
<1> DEFINE s == samples
           n == Len(samples)
           id == track.track_id
           offset == IF IsFlat THEN 0 ELSE Scaled(track.decode_offset)
           steps == TimeSteps
           b == Staged
<1>3. n \in Nat /\ DOMAIN s = 1..n /\ \A i \in 1..n : s[i] \in ImportedSample
  BY <1>2
<1>4. ASSUME NEW time \in Nat PROVE Scaled(time) \in Nat
  BY <1>4, ScaledIs
<1>5. offset \in Nat
  BY <1>2, <1>4
<1>6. /\ \A i \in 1..n : steps[i] = Scaled(s[i].gap)
                           + IF i = 1 THEN offset ELSE Scaled(s[i - 1].duration)
  BY <1>3 DEF TimeSteps
<1>7. /\ DOMAIN b = 1..n /\ b = [i \in 1..n |-> b[i]]
      /\ \A i \in 1..n :
           b[i] = [ source_index |-> s[i].source_index, track_id |-> id,
                    decode_time |-> SumTo(steps, i), duration |-> Scaled(s[i].duration),
                    data_offset |-> s[i].data_offset, data_size |-> s[i].data_size ]
  BY <1>3 DEF Staged, DecodeTimes
<1> HIDE DEF s, n, id, offset, steps, b
<1>8. ASSUME NEW i \in 1..n
      PROVE  /\ s[i].gap \in Nat /\ s[i].duration \in Nat /\ s[i].source_index \in Nat
             /\ s[i].data_offset \in Nat /\ s[i].data_size \in Nat
  BY <1>3 DEF ImportedSample
<1>9. ASSUME NEW i \in 1..n
      PROVE  /\ steps[i] \in Nat
             /\ i # 1 => steps[i] >= Scaled(s[i - 1].duration)
  <2>1. Scaled(s[i].gap) \in Nat
    BY <1>4, <1>8
  <2>2. i # 1 => i - 1 \in 1..n
    BY <1>3
  <2>3. i # 1 => Scaled(s[i - 1].duration) \in Nat
    BY <1>4, <1>8, <2>2
  <2>4. CASE i = 1
    <3>1. steps[i] = Scaled(s[i].gap) + offset
      BY <1>6, <2>4
    <3> QED BY <1>5, <2>1, <2>4, <3>1
  <2>5. CASE i # 1
    <3>1. steps[i] = Scaled(s[i].gap) + Scaled(s[i - 1].duration)
      BY <1>6, <2>5
    <3> QED BY <2>1, <2>3, <2>5, <3>1
  <2> QED BY <2>4, <2>5
<1>10. ASSUME NEW i \in 1..n
       PROVE  /\ SumTo(steps, i) \in Nat /\ SumTo(steps, i - 1) \in Nat
              /\ SumTo(steps, i) = SumTo(steps, i - 1) + steps[i]
  <2>1. i \in Nat /\ i > 0 /\ (\A j \in 1..i : steps[j] \in Nat) /\ \A j \in 1..i : steps[j] \in Int
    BY <1>3, <1>9
  <2>2. SumTo(steps, i) = SumTo(steps, i - 1) + steps[i] /\ SumTo(steps, i) \in Int
    BY <2>1, SumToIs
  <2>3. i - 1 \in 0..i /\ i \in 0..i
    BY <2>1
  <2>4. SumTo(steps, i) \in 0..SumTo(steps, i) /\ SumTo(steps, i - 1) \in 0..SumTo(steps, i)
    BY <2>1, <2>3, SumToNat
  <2> QED BY <2>2, <2>4
<1>11. ASSUME NEW i \in 1..n
       PROVE  /\ b[i] \in StagedItem /\ b[i].track_id = id /\ b[i].decode_time = SumTo(steps, i)
              /\ b[i].duration = Scaled(s[i].duration)
  <2>1. Scaled(s[i].duration) \in Nat
    BY <1>4, <1>8
  <2>2. b[i] = [ source_index |-> s[i].source_index, track_id |-> id,
                 decode_time |-> SumTo(steps, i), duration |-> Scaled(s[i].duration),
                 data_offset |-> s[i].data_offset, data_size |-> s[i].data_size ]
    BY <1>7
  <2>3. id \in TrackIds
    BY <1>2 DEF id
  <2> QED BY <1>8, <1>10, <2>1, <2>2, <2>3 DEF StagedItem
<1>12. b \in Seq(StagedItem)
  <2>1. b \in [1..n -> StagedItem]
    BY <1>7, <1>11
  <2> QED BY <1>3, <2>1
<1>13. ASSUME \A i \in 1..n : b[i].duration > 0
       PROVE  \A i, k \in 1..n : i < k => b[i].decode_time < b[k].decode_time
  <2> DEFINE T == {k \in 0..n : \A i \in 1..n : i < k => SumTo(steps, i) < SumTo(steps, k)}
  <2>1. 0 \in T
    BY <1>3
  <2>2. ASSUME NEW k \in 1..n, k - 1 \in T PROVE k \in T
    <3>1. SUFFICES ASSUME NEW i \in 1..n, i < k PROVE SumTo(steps, i) < SumTo(steps, k)
      BY <1>3
    <3>2. k - 1 \in 1..n /\ k # 1
      BY <1>3, <3>1
    <3>3. SumTo(steps, k) = SumTo(steps, k - 1) + steps[k] /\ SumTo(steps, k - 1) \in Nat
      BY <1>10
    <3>4. steps[k] \in Nat /\ steps[k] > 0
      <4>1. Scaled(s[k - 1].duration) > 0 /\ Scaled(s[k - 1].duration) \in Nat
        BY <1>4, <1>8, <1>11, <1>13, <3>2
      <4> QED BY <1>9, <3>2, <4>1
    <3>5. CASE i = k - 1
      BY <3>3, <3>4, <3>5
    <3>6. CASE i # k - 1
      <4>1. i < k - 1
        BY <1>3, <3>1, <3>6
      <4>2. SumTo(steps, i) < SumTo(steps, k - 1) /\ SumTo(steps, i) \in Nat
        BY <1>10, <2>2, <4>1
      <4> QED BY <3>3, <3>4, <4>2
    <3> QED BY <3>5, <3>6
  <2>3. 0..n \subseteq T
    <3> HIDE DEF T
    <3> QED BY <1>3, <2>1, <2>2, BoundedInduction
  <2>4. ASSUME NEW i \in 1..n, NEW k \in 1..n, i < k PROVE b[i].decode_time < b[k].decode_time
    <3>1. k \in 0..n
      BY <1>3
    <3>2. SumTo(steps, i) < SumTo(steps, k)
      BY <2>3, <2>4, <3>1
    <3> QED BY <1>11, <3>2
  <2> QED BY <2>4
<1>14. IsBatch(b, id)
  BY <1>7, <1>11, <1>12, <1>13 DEF IsBatch
<1> QED BY <1>14 DEF b, id
-----------------------------------------------------------------------------
(* filed and queue are what is left of a queue of the items a.             *)
QueuedFrom(a, queue, filed) ==
  /\ a \in Seq(StagedItem) /\ filed \in [TrackIds -> Seq(StagedItem)]
  /\ \E s \in SortedByKey(a, SourceKey) :
       \E w \in SortedByKey(s, DecodeKey) : IsFiled(w, queue, filed)

(* The items the planner was asked to plan.                                *)
Asked == IF job.way = "import" THEN staged_items ELSE job.items

(* What is staged so far, and of which import.                             *)
ImportInv ==
  /\ job \in Jobs
  /\ prepare_stage = "cutting" => tracks_done < Len(job.tracks)
  /\ given \in Seq(Directive)
  /\ IsStaged(staged_items, job, tracks_done)

(* What each stage of the planner has used up or not begun.                *)
PhaseInv ==
  /\ plan_stage = "unplanned" <=> prepare_stage # "handed_over"
  /\ plan_stage = "unplanned" => items_by_track = [t \in TrackIds |-> << >>]
  /\ plan_stage \in {"unplanned", "filing", "coordinating"} =>
       /\ chunks = << >>
       /\ cut_at = [t \in TrackIds |-> [chunk_index |-> 0, sample |-> 0]]
  /\ plan_stage \in {"unplanned", "filing", "coordinating", "cutting"} =>
       planned_items = << >> /\ total_payload_size = 0
  /\ plan_stage \in {"coordinating", "cutting", "laying_out", "graphing", "planned"} =>
       queue_items = << >>
  /\ plan_stage \in {"graphing", "planned"} => chunks = << >>

(* The filed items and the queue are those the planner was asked for.      *)
FiledInv ==
  /\ directives \in Seq(Directive)
  /\ plan_stage # "unplanned" => QueuedFrom(Asked, queue_items, items_by_track)

(* The chunks are cut, or partly laid out, or all laid out.                *)
LayoutInv ==
  /\ plan_stage \in {"coordinating", "cutting", "laying_out", "graphing", "planned"} =>
       Cover(items_by_track, coordination)
  /\ plan_stage = "cutting" => IsCutUp(chunks, cut_at, items_by_track, coordination)
  /\ plan_stage \in {"laying_out", "graphing", "planned"} =>
       /\ IsRest(chunks, items_by_track, coordination, planned_items)
       /\ IsHead(chunks, coordination, planned_items)
       /\ IsPlanned(planned_items, total_payload_size, items_by_track)

(* The inductive invariant of the plan.                                    *)
PlanInv == ImportInv /\ PhaseInv /\ FiledInv /\ LayoutInv

(* It holds before anything is imported or asked for.                      *)
LEMMA PlanInvInit == Init => PlanInv
<1> SUFFICES ASSUME Init PROVE PlanInv
  OBVIOUS
<1>1. /\ job \in Jobs /\ prepare_stage = "asked" /\ given = << >> /\ staged_items = << >>
      /\ plan_stage = "unplanned" /\ directives = << >>
      /\ items_by_track = [t \in TrackIds |-> << >>] /\ chunks = << >> /\ planned_items = << >>
      /\ total_payload_size = 0
      /\ cut_at = [t \in TrackIds |-> [chunk_index |-> 0, sample |-> 0]]
  BY DEF Init, PlanInit
<1>2. staged_items \in Seq(StagedItem) /\ DOMAIN staged_items = {}
      /\ given \in Seq(Directive) /\ directives \in Seq(Directive)
  BY <1>1
<1>3. IsStaged(staged_items, job, tracks_done)
  <2>1. \A t : OfTrack(staged_items, t) = {}
    BY <1>2 DEF OfTrack
  <2> QED BY <1>2, <2>1 DEF IsStaged
<1>4. ImportInv
  BY <1>1, <1>2, <1>3 DEF ImportInv
<1>5. PhaseInv /\ FiledInv /\ LayoutInv
  BY <1>1, <1>2 DEF PhaseInv, FiledInv, LayoutInv
<1> QED BY <1>4, <1>5 DEF PlanInv

(* Samples dealt into chunks are counted.                                  *)
LEMMA DealtAreCounts ==
  ASSUME NEW lengths, NEW n \in Nat
  PROVE  Dealt(lengths, n) \in Seq(Nat)
<1> DEFINE upto(k) ==
             SumTo([m \in 1..n |-> lengths[IF m < Len(lengths) THEN m ELSE Len(lengths)]], k)
           begun == { m \in 1..n : upto(m - 1) < n }
           inside(k) == { i \in 1..n : upto(k - 1) < i /\ i <= upto(k) }
<1>1. ASSUME NEW S \in SUBSET (1..n) PROVE Cardinality(S) \in Nat
  BY PlacesAreFinite
<1>2. Dealt(lengths, n) = [k \in 1..Cardinality(begun) |-> Cardinality(inside(k))]
  BY DEF Dealt
<1>3. begun \subseteq 1..n /\ \A k : inside(k) \subseteq 1..n
  OBVIOUS
<1> HIDE DEF upto, begun, inside
<1>4. Cardinality(begun) \in Nat /\ \A k : Cardinality(inside(k)) \in Nat
  BY <1>1, <1>3
<1> QED BY <1>2, <1>4

(* Counts kept from a source are a sequence of numbers, also when the last *)
(* sample has been given a chunk of its own.                               *)
LEMMA HandedOnAreCounts ==
  ASSUME job \in ImportJob, tracks_done \in Nat, tracks_done < Len(job.tracks),
         KeptCounts # None, CoversTrack(KeptCounts)
  PROVE  HandedOn(KeptCounts) \in Seq(Nat)
<1>1. track \in ImportedTrack
  BY DEF track, ImportJob
<1>2. samples \in Seq(ImportedSample) /\ Len(samples) \in Nat
  BY <1>1, SamplesNowAre DEF samples
<1>3. /\ track.source_counts # None => track.source_counts \in Seq(Nat)
      /\ track.kind \in {"video", "audio", "text"}
  BY <1>1 DEF ImportedTrack
<1>4. SpeexCounts \in Seq(Nat)
  <2> DEFINE each == Max({1, FlatTarget(track.timescale) \div Min(BaseDurations)})
             dealt == Dealt(<< each >>, Cardinality(BaseSamples))
  <2>1. TrailingOnes \in Nat
    <3>1. { i \in 1..Len(samples) - 1 : \A k \in i..Len(samples) - 1 :
               samples[k].duration = 1 } \subseteq 1..Len(samples)
      BY <1>2
    <3> QED BY <1>2, <3>1, PlacesAreFinite DEF TrailingOnes
  <2>2. Cardinality(BaseSamples) \in Nat
    <3>1. BaseSamples \subseteq 1..Len(samples)
      BY <1>2, <2>1 DEF BaseSamples
    <3> QED BY <1>2, <3>1, PlacesAreFinite
  <2>3. dealt \in Seq(Nat)
    BY <2>2, DealtAreCounts
  <2>4. SpeexCounts = dealt \o << 1, 1, TrailingOnes >>
    BY DEF SpeexCounts
  <2>5. << 1, 1, TrailingOnes >> \in Seq(Nat)
    BY <2>1
  <2> HIDE DEF dealt
  <2> QED BY <2>3, <2>4, <2>5, ConcatProperties
<1>5. PreservedAudioCounts # None => PreservedAudioCounts \in Seq(Nat)
  BY <1>2, <1>3, <1>4, DealtAreCounts DEF PreservedAudioCounts
<1>6. KeptCounts \in Seq(Nat)
  BY <1>3, <1>5 DEF KeptCounts
<1>7. CASE HandedOn(KeptCounts) = KeptCounts
  BY <1>6, <1>7
<1>8. CASE HandedOn(KeptCounts) # KeptCounts
  <2> DEFINE c == KeptCounts
             k == Len(c)
  <2>1. HandedOn(KeptCounts) = TerminalSplit(c, samples) /\ track.kind = "audio" /\ ~KeepsEntries
    BY <1>8 DEF HandedOn
  <2>2. SplitsTerminal(c, samples)
    BY <1>8, <2>1 DEF TerminalSplit
  <2>3. TerminalSplit(c, samples) = Append(Front(c), Last(c) - 1) \o << 1 >>
    BY <2>2 DEF TerminalSplit
  <2>4. c # << >>
    <3>1. Len(samples) >= 2
      BY <2>2 DEF SplitsTerminal
    <3>2. Total(c) = Len(samples)
      BY DEF CoversTrack, Total
    <3>3. Total(<< >>) = 0
      BY <1>6, TotalIs
    <3> QED BY <1>2, <3>1, <3>2, <3>3
  <2>5. c \in Seq(Nat) /\ k \in Nat \ {0}
    BY <1>6, <2>4
  <2>6. Last(c) - 1 \in Nat
    <3>1. Last(c) = c[k] /\ c[k] \in Nat /\ c[k] > 1
      BY <2>2, <2>5 DEF SplitsTerminal, Last
    <3> QED BY <3>1
  <2>7. Front(c) \in Seq(Nat)
    <3>1. Front(c) = SubSeq(c, 1, k - 1) /\ 1 \in Int /\ k - 1 \in Int
      BY <2>5 DEF Front
    <3>2. \A i \in 1..(k - 1) : c[i] \in Nat
      BY <2>5
    <3> HIDE DEF c, k
    <3> QED BY <2>5, <3>1, <3>2, SubSeqProperties
  <2> HIDE DEF c, k
  <2>8. Append(Front(c), Last(c) - 1) \in Seq(Nat) /\ << 1 >> \in Seq(Nat)
    BY <2>6, <2>7
  <2> QED BY <2>1, <2>3, <2>8, ConcatProperties DEF c
<1> QED BY <1>7, <1>8

(* What the importer prepares.                                             *)
LEMMA ImportKept ==
  ASSUME CountingInv, ImportInv, [Next]_vars
  PROVE  ImportInv'
<1>1. PreparesImport /\ CountsInv
  BY DEF CountingInv
<1>2. job' = job
  BY DEF Next, RefuseSecondVideo, RefuseRequest, BeginTracks, AlignToVideo, KeepAlignment,
     RefuseTimes, RefuseKeptCounts, BeginTrack, StageUncut, StageKept, StageCut,
     StageSamples, HandOver, AskPlanner, prepareVars, vars
<1>3. CASE UNCHANGED << tracks_done, staged_items, given >>
           /\ (prepare_stage' = "cutting" => tracks_done < Len(job.tracks))
  BY <1>2, <1>3 DEF ImportInv
<1>4. ASSUME StageSamples, tracks_done < Len(job.tracks), job \in ImportJob
      PROVE  IsStaged(staged_items, job, tracks_done)'
  <2>1. /\ staged_items' = staged_items \o Staged /\ tracks_done' = tracks_done + 1
        /\ tracks_done \in Nat
    BY <1>1, <1>4 DEF StageSamples, PreparesImport
  <2>2. IsBatch(Staged, track.track_id) /\ track = job.tracks[tracks_done + 1]
    BY <1>4, <2>1, StagedIsBatch DEF track
  <2>3. \A i, k \in DOMAIN job.tracks : job.tracks[i].track_id = job.tracks[k].track_id => i = k
    BY <1>4, IdsAssumption DEF ImportInv, ImportJob
  <2>4. IsStaged(staged_items, job, tracks_done)
    BY DEF ImportInv
  <2>5. IsStaged(staged_items \o Staged, job, tracks_done + 1)
    <3> DEFINE b == Staged
               d == tracks_done
    <3> HIDE DEF b
    <3> QED BY <1>4, <2>1, <2>2, <2>3, <2>4, StagedMore DEF b
  <2> QED BY <1>2, <2>1, <2>5
<1>5. CASE StageUncut
  <2>1. StageSamples /\ tracks_done < Len(job.tracks) /\ job \in ImportJob /\ given' = given
        /\ prepare_stage' = "tracks"
    BY <1>1, <1>5 DEF StageUncut, HasTrack, StageSamples, PreparesImport
  <2>2. IsStaged(staged_items, job, tracks_done)'
    BY <1>4, <2>1
  <2> QED BY <1>2, <2>1, <2>2 DEF ImportInv
<1>6. CASE StageCut
  <2>1. StageSamples /\ tracks_done < Len(job.tracks) /\ job \in ImportJob
        /\ prepare_stage' = "tracks" /\ cut_stage = "cut"
        /\ given' = Append(given, [ track_id |-> track.track_id, counts |-> counts,
                              boundary_kind |-> IF IsFlat THEN None ELSE job.mode ])
    BY <1>1, <1>6 DEF StageCut, StageSamples, PreparesImport, ImportInv
  <2>2. IsStaged(staged_items, job, tracks_done)'
    BY <1>4, <2>1
  <2>3. counts \in Seq(Nat)
    BY <1>1, <2>1 DEF CountsInv, IsCounting, ChunksCover
  <2>4. track.track_id \in TrackIds
    <3>1. job.tracks \in Seq(ImportedTrack) /\ tracks_done \in Nat
      BY <1>1, <2>1 DEF ImportJob, PreparesImport
    <3>2. track \in ImportedTrack
      BY <2>1, <3>1 DEF track
    <3> QED BY <3>2 DEF ImportedTrack
  <2>5. (IF IsFlat THEN None ELSE job.mode) \in BoundaryKinds \cup {None}
    BY <2>1 DEF ImportJob, BoundaryKinds, IsFlat
  <2>6. given' \in Seq(Directive)
    <3> DEFINE kind == IF IsFlat THEN None ELSE job.mode
               id == track.track_id
               x == [track_id |-> id, counts |-> counts, boundary_kind |-> kind]
    <3>1. given' = Append(given, x) /\ given \in Seq(Directive)
      BY <2>1 DEF ImportInv
    <3>2. kind \in BoundaryKinds \cup {None} /\ id \in TrackIds
      BY <2>4, <2>5
    <3> HIDE DEF kind, id
    <3>3. x \in Directive
      BY <2>3, <3>2 DEF Directive
    <3> HIDE DEF x
    <3> QED BY <3>1, <3>3
  <2> QED BY <1>2, <2>1, <2>2, <2>6 DEF ImportInv
<1>7. CASE StageKept
  <2>1. /\ StageSamples /\ tracks_done < Len(job.tracks) /\ job \in ImportJob
        /\ prepare_stage' = "tracks" /\ KeptCounts # None /\ CoversTrack(KeptCounts)
        /\ given' = Append(given, [ track_id |-> track.track_id,
                                    counts |-> HandedOn(KeptCounts), boundary_kind |-> None ])
    BY <1>1, <1>7 DEF StageKept, HasTrack, StageSamples, PreparesImport
  <2>2. IsStaged(staged_items, job, tracks_done)'
    BY <1>4, <2>1
  <2>3. tracks_done \in Nat
    BY <1>1, <2>1 DEF PreparesImport
  <2>4. HandedOn(KeptCounts) \in Seq(Nat)
    BY <2>1, <2>3, HandedOnAreCounts
  <2>5. track.track_id \in TrackIds
    <3>1. job.tracks \in Seq(ImportedTrack)
      BY <2>1 DEF ImportJob
    <3>2. track \in ImportedTrack
      BY <2>1, <2>3, <3>1 DEF track
    <3> QED BY <3>2 DEF ImportedTrack
  <2>6. given' \in Seq(Directive)
    <3> DEFINE id == track.track_id
               c == HandedOn(KeptCounts)
               x == [track_id |-> id, counts |-> c, boundary_kind |-> None]
    <3>1. given' = Append(given, x) /\ given \in Seq(Directive)
      BY <2>1 DEF ImportInv
    <3>2. c \in Seq(Nat) /\ id \in TrackIds
      BY <2>4, <2>5
    <3> HIDE DEF c, id
    <3>3. x \in Directive
      BY <3>2 DEF Directive
    <3> HIDE DEF x
    <3> QED BY <3>1, <3>3
  <2> QED BY <1>2, <2>1, <2>2, <2>6 DEF ImportInv
<1>8. CASE ~ StageUncut /\ ~ StageCut /\ ~ StageKept
  <2>1. UNCHANGED << tracks_done, staged_items, given >>
    BY <1>8 DEF Next, RefuseSecondVideo, RefuseRequest, BeginTracks, AlignToVideo,
       KeepAlignment, RefuseTimes, RefuseKeptCounts, BeginTrack, HandOver, AskPlanner,
       prepareVars, vars
  <2>2. prepare_stage' = "cutting" => tracks_done < Len(job.tracks)
    BY <1>8 DEF Next, RefuseSecondVideo, RefuseRequest, BeginTracks, AlignToVideo,
       KeepAlignment, RefuseTimes, RefuseKeptCounts, BeginTrack, HasTrack, HandOver,
       AskPlanner, prepareVars, vars, ImportInv
  <2> QED BY <1>3, <2>1, <2>2
<1> QED BY <1>5, <1>6, <1>7, <1>8

(* The plan's part, while the importer prepares.                           *)
PlanFrame == PhaseInv /\ FiledInv /\ LayoutInv

(* A step that leaves the plan alone, or precedes it, keeps its part.      *)
LEMMA FrameKept ==
  ASSUME PlanFrame, UNCHANGED << planVars >>,
         \/ UNCHANGED << job, staged_items, prepare_stage >>
         \/ prepare_stage # "handed_over" /\ prepare_stage' # "handed_over"
  PROVE  PlanFrame'
<1>1. /\ plan_stage' = plan_stage /\ queue_items' = queue_items /\ directives' = directives
      /\ items_by_track' = items_by_track /\ coordination' = coordination /\ chunks' = chunks
      /\ cut_at' = cut_at /\ planned_items' = planned_items
      /\ total_payload_size' = total_payload_size
  BY DEF planVars
<1>2. PhaseInv'
  BY <1>1 DEF PlanFrame, PhaseInv
<1>3. LayoutInv'
  BY <1>1 DEF PlanFrame, LayoutInv
<1>4. FiledInv'
  <2>1. CASE UNCHANGED << job, staged_items, prepare_stage >>
    BY <1>1, <2>1 DEF PlanFrame, FiledInv, Asked
  <2>2. CASE prepare_stage # "handed_over" /\ prepare_stage' # "handed_over"
    BY <1>1, <2>2 DEF PlanFrame, FiledInv, PhaseInv
  <2> QED BY <2>1, <2>2
<1> QED BY <1>2, <1>3, <1>4 DEF PlanFrame

(* The planner begins with a queue of what was asked.                      *)
LEMMA BeginPlanKeeps ==
  ASSUME PlanFrame, NEW a, a \in Seq(StagedItem), NEW given_now, given_now \in Seq(Directive),
         NEW by, BeginPlan(a, by, given_now), Asked' = a,
         prepare_stage # "handed_over", prepare_stage' = "handed_over"
  PROVE  PlanFrame'
<1>1. /\ plan_stage = "unplanned" /\ plan_stage' = "filing" /\ directives' = given_now
      /\ items_by_track' = items_by_track /\ chunks' = chunks /\ cut_at' = cut_at
      /\ planned_items' = planned_items /\ total_payload_size' = total_payload_size
      /\ \E s \in SortedByKey(a, SourceKey) :
           \E w \in SortedByKey(s, DecodeKey) : queue_items' = w
  BY DEF BeginPlan, cutVars, laidVars
<1>2. items_by_track = [t \in TrackIds |-> << >>]
  BY <1>1 DEF PlanFrame, PhaseInv
<1>3. PhaseInv'
  BY <1>1 DEF PlanFrame, PhaseInv
<1>4. LayoutInv'
  BY <1>1 DEF LayoutInv
<1>11. PICK s \in SortedByKey(a, SourceKey) :
         \E w \in SortedByKey(s, DecodeKey) : queue_items' = w
  BY <1>1
<1>5. PICK w \in SortedByKey(s, DecodeKey) : queue_items' = w
  BY <1>11
<1>6. w \in Seq(StagedItem)
  BY QueueIsOrdered
<1>7. IsFiled(w, w, items_by_track)
  BY <1>2, <1>6, NothingFiled
<1>8. items_by_track \in [TrackIds -> Seq(StagedItem)]
  BY <1>2
<1>9. QueuedFrom(a, queue_items', items_by_track')
  BY <1>1, <1>5, <1>7, <1>8 DEF QueuedFrom
<1>10. FiledInv'
  BY <1>1, <1>9 DEF FiledInv
<1> QED BY <1>3, <1>4, <1>10 DEF PlanFrame
-----------------------------------------------------------------------------
(* Once the queue is empty, every track's items are its own, in order.     *)
LEMMA TracksAreOrdered ==
  ASSUME NEW a, NEW filed, QueuedFrom(a, << >>, filed)
  PROVE  /\ filed \in [TrackIds -> Seq(StagedItem)]
         /\ \A t \in TrackIds :
              /\ filed[t] \in Seq(StagedItem) /\ IsOrdered(filed[t])
              /\ \A i \in 1..Len(filed[t]) : filed[t][i].track_id = t
<1>1. a \in Seq(StagedItem) /\ filed \in [TrackIds -> Seq(StagedItem)]
  BY DEF QueuedFrom
<1>2. PICK s \in SortedByKey(a, SourceKey) :
        \E w \in SortedByKey(s, DecodeKey) : IsFiled(w, << >>, filed)
  BY DEF QueuedFrom
<1>3. PICK w \in SortedByKey(s, DecodeKey) : IsFiled(w, << >>, filed)
  BY <1>2
<1>4. w \in Seq(StagedItem) /\ IsOrdered(w)
  BY <1>1, QueueIsOrdered
<1>5. ASSUME NEW t \in TrackIds
      PROVE  /\ filed[t] \in Seq(StagedItem) /\ IsOrdered(filed[t])
             /\ \A i \in 1..Len(filed[t]) : filed[t][i].track_id = t
  <2>1. IsOrdered(filed[t]) /\ \A i \in DOMAIN filed[t] : filed[t][i].track_id = t
    BY <1>1, <1>3, <1>4, AllFiled
  <2>2. filed[t] \in Seq(StagedItem)
    BY <1>1
  <2> QED BY <2>1, <2>2
<1> QED BY <1>1, <1>5

(* So does filing an item of the queue by its track.                       *)
LEMMA FileItemKeeps ==
  ASSUME PlanFrame, FileItem, UNCHANGED << job, staged_items, prepare_stage >>
  PROVE  PlanFrame'
<1>1. /\ plan_stage = "filing" /\ plan_stage' = "filing" /\ queue_items # << >>
      /\ queue_items' = Tail(queue_items) /\ directives' = directives
      /\ items_by_track' = [items_by_track EXCEPT ![Head(queue_items).track_id] =
                              Append(@, Head(queue_items))]
      /\ chunks' = chunks /\ cut_at' = cut_at
      /\ planned_items' = planned_items /\ total_payload_size' = total_payload_size
      /\ Asked' = Asked /\ prepare_stage' = prepare_stage
  BY DEF FileItem, directedVars, cutVars, laidVars, Asked
<1>2. PhaseInv'
  BY <1>1 DEF PlanFrame, PhaseInv
<1>3. LayoutInv'
  BY <1>1 DEF LayoutInv
<1>4. QueuedFrom(Asked, queue_items, items_by_track)
  BY <1>1 DEF PlanFrame, FiledInv
<1>5. QueuedFrom(Asked, queue_items', items_by_track')
  <2> DEFINE a == Asked
  <2>1. QueuedFrom(a, queue_items, items_by_track)
    BY <1>4
  <2> HIDE DEF a
  <2>2. a \in Seq(StagedItem) /\ items_by_track \in [TrackIds -> Seq(StagedItem)]
    BY <2>1 DEF QueuedFrom
  <2>3. PICK s \in SortedByKey(a, SourceKey) :
          \E w \in SortedByKey(s, DecodeKey) : IsFiled(w, queue_items, items_by_track)
    BY <2>1 DEF QueuedFrom
  <2>4. PICK w \in SortedByKey(s, DecodeKey) : IsFiled(w, queue_items, items_by_track)
    BY <2>3
  <2>5. w \in Seq(StagedItem)
    BY <2>2, QueueIsOrdered
  <2>6. IsFiled(w, queue_items', items_by_track')
        /\ items_by_track' \in [TrackIds -> Seq(StagedItem)]
    BY <1>1, <2>2, <2>4, <2>5, FileOne
  <2>7. QueuedFrom(a, queue_items', items_by_track')
    BY <2>2, <2>6 DEF QueuedFrom
  <2> QED BY <2>7 DEF a
<1>6. FiledInv'
  BY <1>1, <1>5 DEF PlanFrame, FiledInv
<1> QED BY <1>2, <1>3, <1>6 DEF PlanFrame

(* So do the default coordination and each directive, taken or refused.    *)
LEMMA CoordinationKeeps ==
  ASSUME PlanFrame, UNCHANGED << job, staged_items, prepare_stage >>,
         DefaultCoordination \/ ApplyDirective \/ RefuseDirective \/ BeginCutting
  PROVE  PlanFrame'
<1>1. /\ queue_items' = queue_items /\ items_by_track' = items_by_track
      /\ chunks' = chunks /\ cut_at' = cut_at
      /\ planned_items' = planned_items /\ total_payload_size' = total_payload_size
      /\ Asked' = Asked /\ prepare_stage' = prepare_stage
  BY DEF DefaultCoordination, ApplyDirective, RefuseDirective, BeginCutting, RefusePlan,
     filedVars, cutVars, laidVars, directedVars, Asked
<1>2. /\ plan_stage \in {"filing", "coordinating"} /\ plan_stage # "unplanned"
      /\ plan_stage' \in {"coordinating", "cutting", "refused"}
      /\ queue_items = << >>
      /\ plan_stage' = "cutting" => BeginCutting
      /\ plan_stage' = "coordinating" => DefaultCoordination \/ ApplyDirective
  BY DEF DefaultCoordination, ApplyDirective, RefuseDirective, BeginCutting, RefusePlan,
     PlanFrame, PhaseInv
<1>3. chunks = << >> /\ cut_at = [t \in TrackIds |-> [chunk_index |-> 0, sample |-> 0]]
      /\ planned_items = << >> /\ total_payload_size = 0 /\ prepare_stage = "handed_over"
  BY <1>2 DEF PlanFrame, PhaseInv
<1>4. PhaseInv'
  BY <1>1, <1>2, <1>3 DEF PhaseInv
<1>5. directives' \in Seq(Directive)
  <2>1. directives \in Seq(Directive)
    BY DEF PlanFrame, FiledInv
  <2>2. directives' = directives \/ (directives # << >> /\ directives' = Tail(directives))
    BY DEF DefaultCoordination, ApplyDirective, RefuseDirective, BeginCutting, RefusePlan,
       directedVars
  <2> QED BY <2>1, <2>2
<1>6. QueuedFrom(Asked, queue_items, items_by_track)
  BY <1>2 DEF PlanFrame, FiledInv
<1>7. FiledInv'
  BY <1>1, <1>2, <1>5, <1>6 DEF FiledInv
<1>8. \A t \in TrackIds : items_by_track[t] \in Seq(StagedItem)
  BY <1>6 DEF QueuedFrom
<1>9. Cover(items_by_track, coordination)'
      \/ plan_stage' = "refused"
  <2>1. CASE DefaultCoordination
    <3>1. coordination' = [t \in TrackIds |-> OneEach(items_by_track[t])]
      BY <2>1 DEF DefaultCoordination
    <3>2. ASSUME NEW t \in TrackIds
          PROVE  /\ coordination'[t] \in Seq(Nat) /\ items_by_track[t] \in Seq(StagedItem)
                 /\ \A j \in 1..Len(coordination'[t]) : coordination'[t][j] > 0
                 /\ Total(coordination'[t]) = Len(items_by_track[t])
      <4>1. coordination'[t] = OneEach(items_by_track[t])
        BY <3>1
      <4> DEFINE c == coordination'[t]
                 items == items_by_track[t]
      <4>2. items \in Seq(StagedItem) /\ c = OneEach(items)
        BY <1>8, <4>1
      <4> HIDE DEF c, items
      <4>3. c \in Seq(Nat) /\ Total(c) = Len(items) /\ \A j \in 1..Len(c) : c[j] > 0
        BY <4>2, OnesCover
      <4> QED BY <4>2, <4>3 DEF c, items
    <3>4. coordination' \in [TrackIds -> Seq(Nat)]
      BY <3>1, <3>2
    <3>3. Cover(items_by_track, coordination')
      BY <3>2, <3>4 DEF Cover
    <3> QED BY <1>1, <3>3
  <2>2. CASE ApplyDirective
    <3> DEFINE directive == Head(directives)
               t == directive.track_id
    <3>1. /\ plan_stage = "coordinating" /\ directive.track_id \in Tracks
          /\ CountsCover(directive.counts, items_by_track[directive.track_id])
          /\ coordination' = [coordination EXCEPT ![directive.track_id] = directive.counts]
          /\ directives # << >>
      BY <2>2 DEF ApplyDirective
    <3>2. directive \in Directive
      BY <3>1 DEF PlanFrame, FiledInv
    <3>3. directive.counts \in Seq(Nat) /\ t \in TrackIds
      BY <3>2 DEF Directive
    <3>4. Cover(items_by_track, coordination)
      BY <3>1 DEF PlanFrame, LayoutInv
    <3> HIDE DEF directive
    <3>5. ASSUME NEW u \in TrackIds
          PROVE  coordination'[u] = IF u = t THEN directive.counts ELSE coordination[u]
      BY <3>1, <3>3, <3>4 DEF Cover
    <3>8. coordination' \in [TrackIds -> Seq(Nat)]
      BY <3>1, <3>3, <3>4 DEF Cover
    <3>6. /\ \A j \in 1..Len(directive.counts) : directive.counts[j] > 0
          /\ Total(directive.counts) = Len(items_by_track[t])
      <4>1. DOMAIN directive.counts = 1..Len(directive.counts)
            /\ \A j \in 1..Len(directive.counts) : directive.counts[j] \in Nat
        BY <3>3
      <4> QED BY <3>1, <4>1 DEF CountsCover, Total
    <3>7. Cover(items_by_track, coordination')
      BY <1>8, <3>3, <3>4, <3>5, <3>6, <3>8 DEF Cover
    <3> QED BY <1>1, <3>7
  <2>3. CASE RefuseDirective
    BY <2>3 DEF RefuseDirective, RefusePlan
  <2>4. CASE BeginCutting
    <3>1. Cover(items_by_track, coordination) /\ coordination' = coordination
      BY <2>4 DEF BeginCutting, PlanFrame, LayoutInv, directedVars
    <3> QED BY <1>1, <3>1
  <2> QED BY <2>1, <2>2, <2>3, <2>4
<1>10. plan_stage' = "cutting" =>
         IsCutUp(chunks, cut_at, items_by_track, coordination)'
  <2>1. SUFFICES ASSUME plan_stage' = "cutting"
                 PROVE  IsCutUp(chunks, cut_at, items_by_track, coordination)'
    OBVIOUS
  <2>2. Cover(items_by_track, coordination')
    BY <1>1, <1>9, <2>1
  <2>3. IsCutUp(chunks, cut_at, items_by_track, coordination')
    BY <1>3, <2>2, NothingCut
  <2> QED BY <1>1, <2>3
<1>11. LayoutInv'
  BY <1>2, <1>9, <1>10 DEF LayoutInv
<1> QED BY <1>4, <1>7, <1>11 DEF PlanFrame

(* So does cutting a chunk.                                                *)
LEMMA CutChunkKeeps ==
  ASSUME PlanFrame, CutChunk, UNCHANGED << job, staged_items, prepare_stage >>
  PROVE  PlanFrame'
<1>1. /\ plan_stage = "cutting" /\ plan_stage' = "cutting"
      /\ queue_items' = queue_items /\ directives' = directives
      /\ items_by_track' = items_by_track /\ coordination' = coordination
      /\ planned_items' = planned_items /\ total_payload_size' = total_payload_size
      /\ Asked' = Asked /\ prepare_stage' = prepare_stage
  BY DEF CutChunk, filedVars, directedVars, laidVars, Asked
<1>2. PhaseInv'
  BY <1>1 DEF PlanFrame, PhaseInv
<1>3. FiledInv'
  BY <1>1 DEF PlanFrame, FiledInv
<1>4. /\ Cover(items_by_track, coordination)
      /\ IsCutUp(chunks, cut_at, items_by_track, coordination)
  BY <1>1 DEF PlanFrame, LayoutInv
<1>5. IsCutUp(chunks', cut_at', items_by_track, coordination)
  <2>1. PICK t \in Uncut :
          LET at == cut_at[t]
              end == at.sample + coordination[t][at.chunk_index + 1]
              first == items_by_track[t][at.sample + 1]
          IN  /\ chunks' = Append(chunks,
                   [ track_id |-> t, chunk_index |-> at.chunk_index,
                     start_index |-> at.sample, end_index |-> end,
                     decode_time |-> first.decode_time, source_index |-> first.source_index,
                     data_offset |-> first.data_offset ])
              /\ cut_at' = [cut_at EXCEPT ![t] = [chunk_index |-> @.chunk_index + 1, sample |-> end]]
    BY DEF CutChunk
  <2>2. t \in TrackIds /\ cut_at[t].chunk_index < Len(coordination[t])
    BY DEF Uncut, Tracks
  <2>3. PICK end : end = cut_at[t].sample + coordination[t][cut_at[t].chunk_index + 1]
    OBVIOUS
  <2>4. PICK first : first = items_by_track[t][cut_at[t].sample + 1]
    OBVIOUS
  <2>5. PICK x : x = [ track_id |-> t, chunk_index |-> cut_at[t].chunk_index,
                     start_index |-> cut_at[t].sample, end_index |-> end,
                     decode_time |-> first.decode_time, source_index |-> first.source_index,
                     data_offset |-> first.data_offset ]
    OBVIOUS
  <2>6. /\ chunks' = Append(chunks, x)
        /\ cut_at' = [cut_at EXCEPT ![t] =
                        [chunk_index |-> cut_at[t].chunk_index + 1, sample |-> end]]
    BY <2>1, <2>3, <2>4, <2>5
  <2> QED BY <1>4, <2>2, <2>3, <2>4, <2>5, <2>6, CutOne
<1>6. LayoutInv'
  BY <1>1, <1>4, <1>5 DEF LayoutInv
<1> QED BY <1>2, <1>3, <1>6 DEF PlanFrame

(* So does sorting the chunks.                                             *)
LEMMA SortChunksKeeps ==
  ASSUME PlanFrame, SortChunks, UNCHANGED << job, staged_items, prepare_stage >>
  PROVE  PlanFrame'
<1>1. /\ plan_stage = "cutting" /\ plan_stage' = "laying_out" /\ Uncut = {}
      /\ queue_items' = queue_items /\ directives' = directives
      /\ items_by_track' = items_by_track /\ coordination' = coordination
      /\ planned_items' = planned_items /\ total_payload_size' = total_payload_size
      /\ Asked' = Asked /\ prepare_stage' = prepare_stage
      /\ chunks' \in SortedByKey(chunks, TimeKey) \/ chunks' \in SortedByKey(chunks, OrdinalKey)
  BY DEF SortChunks, filedVars, directedVars, laidVars, Asked
<1>2. PhaseInv'
  BY <1>1 DEF PlanFrame, PhaseInv
<1>3. FiledInv'
  BY <1>1 DEF PlanFrame, FiledInv
<1>4. /\ Cover(items_by_track, coordination)
      /\ IsCutUp(chunks, cut_at, items_by_track, coordination)
      /\ planned_items = << >> /\ total_payload_size = 0 /\ queue_items = << >>
      /\ QueuedFrom(Asked, << >>, items_by_track)
  BY <1>1 DEF PlanFrame, LayoutInv, PhaseInv, FiledInv
<1>5. \A t \in TrackIds : items_by_track[t] \in Seq(StagedItem) /\ IsOrdered(items_by_track[t])
  BY <1>4, TracksAreOrdered
<1>6. InOrder(chunks') /\ \E p : Rearranges(p, chunks, chunks')
  BY <1>1, <1>4, <1>5, SortKeepsOrder
<1>7. ASSUME NEW t \in TrackIds PROVE cut_at[t].chunk_index = Len(coordination[t])
  <2>1. cut_at[t].chunk_index \in 0..Len(coordination[t])
    BY <1>4 DEF IsCutUp
  <2>2. /\ Len(coordination[t]) \in Nat
        /\ CountBefore(coordination[t], 0) = 0
        /\ CountBefore(coordination[t], Len(coordination[t])) = Len(items_by_track[t])
        /\ \A i, k \in 0..Len(coordination[t]) :
             i < k => CountBefore(coordination[t], i) < CountBefore(coordination[t], k)
    BY <1>4, CoverEnds
  <2>3. CASE t \in Tracks
    <3>1. ~ (cut_at[t].chunk_index < Len(coordination[t]))
      BY <1>1, <2>3 DEF Uncut
    <3> QED BY <2>1, <2>2, <3>1
  <2>4. CASE t \notin Tracks
    <3>1. Len(items_by_track[t]) = 0
      BY <2>4 DEF Tracks
    <3>2. Len(coordination[t]) = 0
      <4>1. 0 \in 0..Len(coordination[t]) /\ Len(coordination[t]) \in 0..Len(coordination[t])
        BY <2>2
      <4>2. ~ (0 < Len(coordination[t]))
        BY <2>2, <3>1, <4>1
      <4> QED BY <2>2, <4>2
    <3> QED BY <2>1, <3>2
  <2> QED BY <2>3, <2>4
<1>8. /\ IsRest(chunks', items_by_track, coordination, planned_items)
      /\ IsHead(chunks', coordination, planned_items)
  BY <1>4, <1>6, <1>7, SortStartsLayout
<1>9. IsPlanned(planned_items, total_payload_size, items_by_track)
  <2>1. planned_items \in Seq(PlannedItem) /\ DOMAIN planned_items = {}
    BY <1>4
  <2>2. \A t \in TrackIds : PlacesIn(planned_items, t) = {}
    BY <2>1 DEF PlacesIn
  <2> QED BY <1>4, <2>1, <2>2 DEF IsPlanned
<1>10. LayoutInv'
  BY <1>1, <1>4, <1>8, <1>9 DEF LayoutInv
<1> QED BY <1>2, <1>3, <1>10 DEF PlanFrame

(* So does laying an item out.                                             *)
LEMMA LayOutItemKeeps ==
  ASSUME PlanFrame, LayOutItem, UNCHANGED << job, staged_items, prepare_stage >>
  PROVE  PlanFrame'
<1>1. /\ plan_stage = "laying_out" /\ plan_stage' = "laying_out" /\ chunks # << >>
      /\ queue_items' = queue_items /\ directives' = directives
      /\ items_by_track' = items_by_track /\ coordination' = coordination
      /\ Asked' = Asked /\ prepare_stage' = prepare_stage /\ chunks' = Advanced(chunks)
  BY DEF LayOutItem, filedVars, directedVars, Asked
<1>2. PhaseInv'
  BY <1>1 DEF PlanFrame, PhaseInv
<1>3. FiledInv'
  BY <1>1 DEF PlanFrame, FiledInv
<1>4. /\ Cover(items_by_track, coordination) /\ queue_items = << >>
      /\ QueuedFrom(Asked, << >>, items_by_track)
      /\ IsRest(chunks, items_by_track, coordination, planned_items)
      /\ IsHead(chunks, coordination, planned_items)
      /\ IsPlanned(planned_items, total_payload_size, items_by_track)
  BY <1>1 DEF PlanFrame, LayoutInv, PhaseInv, FiledInv
<1>5. planned_items \in Seq(PlannedItem) /\ chunks \in Seq(PlannedChunk)
  BY <1>4 DEF IsPlanned, IsRest
<1>6. Head(chunks) = chunks[1]
  BY <1>1, <1>5
<1>7. PICK item : item = items_by_track[chunks[1].track_id][chunks[1].start_index + 1]
  OBVIOUS
<1>8. PICK x : x = Planned(item, total_payload_size)
  OBVIOUS
<1>9. /\ planned_items' = Append(planned_items, x)
      /\ total_payload_size' = total_payload_size + item.data_size
  BY <1>6, <1>7, <1>8 DEF LayOutItem
<1>10. \A u \in TrackIds :
         \A i \in 1..Len(items_by_track[u]) : items_by_track[u][i].track_id = u
  BY <1>4, TracksAreOrdered
<1>11. /\ x \in PlannedItem /\ x.staged.track_id = chunks[1].track_id
       /\ IsPlanned(planned_items', total_payload_size', items_by_track)
  <2>1. /\ x \in PlannedItem /\ x.staged.track_id = chunks[1].track_id
        /\ IsPlanned(Append(planned_items, x), total_payload_size + item.data_size,
                     items_by_track)
    BY <1>1, <1>4, <1>7, <1>8, <1>10, PlanOne
  <2> QED BY <1>9, <2>1
<1>12. /\ IsRest(chunks', items_by_track, coordination, planned_items')
       /\ IsHead(chunks', coordination, planned_items')
  <2>1. CASE chunks[1].start_index + 1 = chunks[1].end_index
    <3>1. chunks' = Tail(chunks)
      BY <1>1, <1>6, <2>1 DEF Advanced
    <3> QED BY <1>1, <1>4, <1>5, <1>9, <1>11, <2>1, <3>1, LayOutLast
  <2>2. CASE chunks[1].start_index + 1 # chunks[1].end_index
    <3>1. chunks' = << [chunks[1] EXCEPT !.start_index = chunks[1].start_index + 1] >>
                      \o Tail(chunks)
      BY <1>1, <1>6, <2>2 DEF Advanced
    <3> QED BY <1>1, <1>4, <1>5, <1>9, <1>11, <2>2, <3>1, LayOutInner
  <2> QED BY <2>1, <2>2
<1>13. LayoutInv'
  BY <1>1, <1>4, <1>11, <1>12 DEF LayoutInv
<1> QED BY <1>2, <1>3, <1>13 DEF PlanFrame

(* So do the steps that make the events of the plan.                       *)
LEMMA GraphKeeps ==
  ASSUME PlanFrame, UNCHANGED << job, staged_items, prepare_stage >>,
         DescribeStreams \/ GraphItem \/ EndPlan
  PROVE  PlanFrame'
<1>1. /\ queue_items' = queue_items /\ directives' = directives
      /\ items_by_track' = items_by_track /\ coordination' = coordination
      /\ planned_items' = planned_items /\ total_payload_size' = total_payload_size
      /\ chunks' = chunks /\ cut_at' = cut_at
      /\ Asked' = Asked /\ prepare_stage' = prepare_stage
      /\ plan_stage \in {"laying_out", "graphing"} /\ plan_stage' \in {"graphing", "planned"}
      /\ plan_stage = "laying_out" => chunks = << >>
  BY DEF DescribeStreams, GraphItem, EndPlan, filedVars, directedVars, cutVars, laidVars, Asked
<1>2. PhaseInv'
  BY <1>1 DEF PlanFrame, PhaseInv
<1>3. FiledInv'
  BY <1>1 DEF PlanFrame, FiledInv
<1>4. /\ Cover(items_by_track, coordination)
      /\ IsRest(chunks, items_by_track, coordination, planned_items)
      /\ IsHead(chunks, coordination, planned_items)
      /\ IsPlanned(planned_items, total_payload_size, items_by_track)
  BY <1>1 DEF PlanFrame, LayoutInv
<1>5. LayoutInv'
  BY <1>1, <1>4 DEF LayoutInv
<1> QED BY <1>2, <1>3, <1>5 DEF PlanFrame
-----------------------------------------------------------------------------
(* Every step of the importer and the planner keeps the plan invariant.    *)
LEMMA PlanInvStep == CountingInv /\ PlanInv /\ [Next]_vars => PlanInv'
<1> SUFFICES ASSUME CountingInv, PlanInv, [Next]_vars PROVE PlanInv'
  OBVIOUS
<1>1. ImportInv /\ PlanFrame /\ PreparesImport
  BY DEF PlanInv, PlanFrame, CountingInv
<1>2. ImportInv'
  BY <1>1, ImportKept
<1>3. SUFFICES PlanFrame'
  BY <1>2 DEF PlanInv, PlanFrame
<1>4. CASE PlanStep /\ UNCHANGED << prepareVars, chunkVars >>
  <2>1. UNCHANGED << job, staged_items, prepare_stage >>
    BY <1>4 DEF prepareVars
  <2> QED BY <1>1, <1>4, <2>1, FileItemKeeps, CoordinationKeeps, CutChunkKeeps,
             SortChunksKeeps, LayOutItemKeeps, GraphKeeps DEF PlanStep
<1>5. CASE HandOver
  <2>1. /\ BeginPlan(staged_items, InterleavePolicy, given) /\ given \in Seq(Directive)
        /\ prepare_stage # "handed_over" /\ prepare_stage' = "handed_over"
        /\ job' = job /\ staged_items' = staged_items /\ job \in ImportJob
    BY <1>1, <1>5 DEF HandOver, PreparesImport, ImportInv
  <2>2. staged_items \in Seq(StagedItem)
    BY <1>1 DEF ImportInv, IsStaged
  <2>3. Asked' = staged_items
    BY <2>1 DEF Asked, ImportJob
  <2> QED BY <1>1, <2>1, <2>2, <2>3, BeginPlanKeeps
<1>6. CASE AskPlanner
  <2>1. /\ BeginPlan(job.items, job.policy, job.directives)
        /\ prepare_stage # "handed_over" /\ prepare_stage' = "handed_over"
        /\ job' = job /\ job.way = "planner"
    BY <1>6 DEF AskPlanner
  <2>2. job \in PlannerJob
    BY <1>1, <2>1 DEF PreparesImport, ImportJob
  <2>3. job.items \in Seq(StagedItem) /\ job.directives \in Seq(Directive)
    BY <2>2 DEF PlannerJob
  <2>4. Asked' = job.items
    BY <2>1 DEF Asked
  <2> QED BY <1>1, <2>1, <2>3, <2>4, BeginPlanKeeps
<1>7. CASE (CutStep /\ UNCHANGED << prepareVars, planVars >>) \/ UNCHANGED vars
  <2>1. UNCHANGED planVars /\ UNCHANGED << job, staged_items, prepare_stage >>
    BY <1>7 DEF prepareVars, vars
  <2> QED BY <1>1, <2>1, FrameKept
<1>8. CASE \/ RefuseSecondVideo \/ BeginTracks \/ AlignToVideo \/ KeepAlignment
           \/ RefuseTimes \/ RefuseKeptCounts \/ BeginTrack
           \/ StageUncut \/ StageKept \/ StageCut
  <2>1. UNCHANGED planVars /\ prepare_stage # "handed_over" /\ prepare_stage' # "handed_over"
    BY <1>8 DEF RefuseSecondVideo, RefuseRequest, BeginTracks, AlignToVideo, KeepAlignment,
       RefuseTimes, RefuseKeptCounts, HasTrack, BeginTrack, StageUncut, StageKept, StageCut,
       StageSamples
  <2> QED BY <1>1, <2>1, FrameKept
<1> QED BY <1>4, <1>5, <1>6, <1>7, <1>8 DEF Next

(* Whatever is imported or handed to the planner, its steps go from queue  *)
(* to tracks to chunks to layout without losing or swapping an item.       *)
THEOREM PlanningIsSound == Spec => []PlanInv
<1>1. Init => CountingInv /\ PlanInv
  BY CountingInit, PlanInvInit
<1>2. (CountingInv /\ PlanInv) /\ [Next]_vars => (CountingInv /\ PlanInv)'
  BY CountingStep, PlanInvStep
<1> QED BY <1>1, <1>2, PTL DEF Spec

(* What the invariant says of a plan laid out.                             *)
LEMMA PlanIsLaid ==
  ASSUME PlanInv, plan_stage \in {"graphing", "planned"}
  PROVE  /\ QueuedFrom(Asked, << >>, items_by_track) /\ Cover(items_by_track, coordination)
         /\ IsPlanned(planned_items, total_payload_size, items_by_track)
         /\ \A t \in TrackIds :
              /\ PlannedOf(t) = PlacesIn(planned_items, t)
              /\ Cardinality(PlannedOf(t)) = Len(items_by_track[t])
              /\ \A j \in 1..Len(coordination[t]) : LiesWhole(planned_items, coordination, t, j)
<1>1. /\ queue_items = << >> /\ chunks = << >> /\ plan_stage # "unplanned"
      /\ QueuedFrom(Asked, << >>, items_by_track) /\ Cover(items_by_track, coordination)
      /\ IsPlanned(planned_items, total_payload_size, items_by_track)
      /\ IsRest(chunks, items_by_track, coordination, planned_items)
  BY DEF PlanInv, PhaseInv, FiledInv, LayoutInv
<1>2. \A t : RestOf(chunks, t) = {} /\ PlannedOf(t) = PlacesIn(planned_items, t)
  BY <1>1 DEF RestOf, PlannedOf, PlacesIn
<1>3. ASSUME NEW t \in TrackIds
      PROVE  /\ Cardinality(PlacesIn(planned_items, t)) = Len(items_by_track[t])
             /\ \A j \in 1..Len(coordination[t]) : LiesWhole(planned_items, coordination, t, j)
  BY <1>1, <1>2 DEF IsRest
<1> QED BY <1>1, <1>2, <1>3

(* For every import and every request to the planner: each track's planned *)
(* items are its filed ones, all of them and in their order, which is that *)
(* of decode times; and where every sample of an imported track lasts, it  *)
(* is the order they were imported in.                                     *)
THEOREM PlanAlwaysKeepsTracks == Spec => []PlanKeepsTracks
<1>1. ASSUME PlanInv PROVE PlanKeepsTracks
  <2> SUFFICES ASSUME plan_stage \in {"graphing", "planned"}, NEW t \in TrackIds
               PROVE  /\ Cardinality(PlannedOf(t)) = Len(items_by_track[t])
                      /\ \A i \in PlannedOf(t) :
                           planned_items[i].staged = items_by_track[t][NumberIn(PlannedOf(t), i)]
                      /\ \A i, j \in PlannedOf(t) :
                           i < j => planned_items[i].staged.decode_time
                                      <= planned_items[j].staged.decode_time
                      /\ (job.way = "import" /\ \A i \in StagedOf(t) : staged_items[i].duration > 0)
                           => /\ Cardinality(StagedOf(t)) = Len(items_by_track[t])
                              /\ \A i \in StagedOf(t) :
                                   staged_items[i] = items_by_track[t][NumberIn(StagedOf(t), i)]
    BY DEF PlanKeepsTracks
  <2>1. /\ QueuedFrom(Asked, << >>, items_by_track)
        /\ IsPlanned(planned_items, total_payload_size, items_by_track)
        /\ PlannedOf(t) = PlacesIn(planned_items, t)
        /\ Cardinality(PlannedOf(t)) = Len(items_by_track[t])
    BY <1>1, PlanIsLaid
  <2> DEFINE P == PlannedOf(t)
             items == items_by_track[t]
  <2>2. items \in Seq(StagedItem) /\ IsOrdered(items) /\ Len(items) \in Nat
        /\ \A i \in 1..Len(items) : items[i].decode_time \in Int
    <3>1. items \in Seq(StagedItem) /\ IsOrdered(items)
      BY <2>1, TracksAreOrdered
    <3> HIDE DEF items
    <3>2. Len(items) \in Nat /\ \A i \in 1..Len(items) : items[i] \in StagedItem
      BY <3>1
    <3>3. \A x \in StagedItem : x.decode_time \in Int
      BY DEF StagedItem
    <3> QED BY <3>1, <3>2, <3>3
  <2>3. \A i \in P : /\ NumberIn(P, i) \in 1..Len(items)
                     /\ planned_items[i].staged = items[NumberIn(P, i)]
    BY <2>1 DEF IsPlanned
  <2>4. P \subseteq 1..Len(planned_items) /\ Len(planned_items) \in Nat
    <3>1. planned_items \in Seq(PlannedItem)
      BY <2>1 DEF IsPlanned
    <3> QED BY <3>1 DEF PlannedOf
  <2> HIDE DEF P, items
  <2>5. ASSUME NEW i \in P, NEW j \in P, i < j
        PROVE  planned_items[i].staged.decode_time <= planned_items[j].staged.decode_time
    <3>1. PICK a : a = NumberIn(P, i)
      OBVIOUS
    <3>2. PICK b : b = NumberIn(P, j)
      OBVIOUS
    <3>3. NumberIn(P, i) < NumberIn(P, j)
      BY <2>4, <2>5, NumbersGrow
    <3>4. a \in 1..Len(items) /\ b \in 1..Len(items) /\ a < b
          /\ planned_items[i].staged = items[a] /\ planned_items[j].staged = items[b]
      BY <2>3, <3>1, <3>2, <3>3
    <3>5. AtMost(items[a], items[b])
      <4>1. a \in DOMAIN items /\ b \in DOMAIN items
        BY <2>2, <3>4
      <4> QED BY <2>2, <3>4, <4>1 DEF IsOrdered
    <3>6. items[a].decode_time \in Int /\ items[b].decode_time \in Int
      BY <2>2, <3>4
    <3> QED BY <3>4, <3>5, <3>6 DEF AtMost
  <2>6. ASSUME job.way = "import", \A i \in StagedOf(t) : staged_items[i].duration > 0
        PROVE  /\ Cardinality(StagedOf(t)) = Len(items)
               /\ \A i \in StagedOf(t) : staged_items[i] = items[NumberIn(StagedOf(t), i)]
    <3>1. /\ staged_items \in Seq(StagedItem) /\ StagedOf(t) = OfTrack(staged_items, t)
          /\ IsStaged(staged_items, job, tracks_done) /\ Asked = staged_items
      BY <1>1, <2>6 DEF PlanInv, ImportInv, IsStaged, StagedOf, OfTrack, Asked
    <3>2. \A i, k \in OfTrack(staged_items, t) :
            i < k => staged_items[i].decode_time < staged_items[k].decode_time
      BY <2>6, <3>1 DEF IsStaged
    <3>3. PICK s \in SortedByKey(staged_items, SourceKey) :
            \E w \in SortedByKey(s, DecodeKey) : IsFiled(w, << >>, items_by_track)
      BY <2>1, <3>1 DEF QueuedFrom
    <3>4. PICK w \in SortedByKey(s, DecodeKey) : IsFiled(w, << >>, items_by_track)
      BY <3>3
    <3>5. /\ w \in Seq(StagedItem) /\ IsOrdered(w)
          /\ items_by_track \in [TrackIds -> Seq(StagedItem)]
      BY <2>1, <3>1, QueueIsOrdered DEF QueuedFrom
    <3>6. PICK r : Rearranges(r, staged_items, w)
      BY <3>1, QueueIsOrdered
    <3>7. /\ Len(items) = Cardinality(OfTrack(w, t))
          /\ \A k \in OfTrack(w, t) : items[NumberIn(OfTrack(w, t), k)] = w[k]
      BY <3>4, <3>5, AllFiled DEF items
    <3>8. /\ Cardinality(OfTrack(w, t)) = Cardinality(OfTrack(staged_items, t))
          /\ \A i \in OfTrack(staged_items, t) : \E k \in OfTrack(w, t) :
               /\ w[k] = staged_items[i]
               /\ NumberIn(OfTrack(w, t), k) = NumberIn(OfTrack(staged_items, t), i)
      BY <3>1, <3>2, <3>5, <3>6, IncreasingKept
    <3>9. ASSUME NEW i \in OfTrack(staged_items, t)
          PROVE  staged_items[i] = items[NumberIn(OfTrack(staged_items, t), i)]
      <4>1. PICK k \in OfTrack(w, t) :
              /\ w[k] = staged_items[i]
              /\ NumberIn(OfTrack(w, t), k) = NumberIn(OfTrack(staged_items, t), i)
        BY <3>8
      <4> QED BY <3>7, <4>1
    <3> QED BY <3>1, <3>7, <3>8, <3>9
  <2> QED BY <2>1, <2>3, <2>5, <2>6 DEF P, items
<1> QED BY <1>1, PlanningIsSound, PTL

(* For every plan: the samples of a chunk lie one behind the other in the  *)
(* payload, and the planned items tile it.                                 *)
THEOREM ChunksAlwaysLieWhole == Spec => []ChunksLieWhole
<1>1. ASSUME PlanInv PROVE ChunksLieWhole
  <2>1. SUFFICES ASSUME plan_stage \in {"graphing", "planned"} PROVE ChunksLieWhole
    BY DEF ChunksLieWhole
  <2>2. /\ Cover(items_by_track, coordination)
        /\ IsPlanned(planned_items, total_payload_size, items_by_track)
        /\ \A t \in TrackIds :
              /\ PlannedOf(t) = PlacesIn(planned_items, t)
              /\ \A j \in 1..Len(coordination[t]) : LiesWhole(planned_items, coordination, t, j)
    BY <1>1, <2>1, PlanIsLaid
  <2>3. ASSUME NEW t \in Tracks, NEW j \in DOMAIN coordination[t]
        PROVE  \E p \in PlannedOf(t) :
                 /\ NumberIn(PlannedOf(t), p) = Opener(t, j)
                 /\ p..p + coordination[t][j] - 1 \subseteq PlannedOf(t)
    <3>1. t \in TrackIds
      BY DEF Tracks
    <3>2. j \in 1..Len(coordination[t])
      BY <2>2, <3>1, CoverEnds
    <3>3. LiesWhole(planned_items, coordination, t, j) /\ PlannedOf(t) = PlacesIn(planned_items, t)
      BY <2>2, <3>1, <3>2
    <3> QED BY <3>3 DEF LiesWhole, ChunkEnd, Opener
  <2>4. \A i \in DOMAIN planned_items :
          planned_items[i].output_offset
            = IF i = 1 THEN 0 ELSE output_end_offset(planned_items[i - 1])
    BY <2>2 DEF IsPlanned
  <2>5. planned_items # << >> => total_payload_size = output_end_offset(Last(planned_items))
    BY <2>2 DEF IsPlanned, Last
  <2> QED BY <2>3, <2>4, <2>5 DEF ChunksLieWhole
<1> QED BY <1>1, PlanningIsSound, PTL
-----------------------------------------------------------------------------
(* The least and the greatest of some places.                              *)
LEMMA EndsOfPlaces ==
  ASSUME NEW n \in Nat, NEW S, S \subseteq 0..n, S # {}
  PROVE  /\ Min(S) \in S /\ \A i \in S : Min(S) <= i
         /\ Max(S) \in S /\ \A i \in S : i <= Max(S)
<1> DEFINE L == { m \in Nat : m \in S => \E x \in S : \A y \in S : x <= y }
           LL == { m \in Nat : (\E i \in S : i <= m) => \E x \in S : \A y \in S : x <= y }
           G == { m \in Nat : (\E i \in S : \A y \in S : y - i <= m)
                                => \E x \in S : \A y \in S : x >= y }
<1>0. \A i \in S : i \in Nat /\ i <= n
  OBVIOUS
<1>1. \E x \in S : \A y \in S : x <= y
  <2>1. 0 \in LL
    BY <1>0
  <2>2. ASSUME NEW m \in Nat, m \in LL PROVE m + 1 \in LL
    <3>1. SUFFICES ASSUME NEW i \in S, i <= m + 1, ~ \E k \in S : k <= m
                   PROVE  \E x \in S : \A y \in S : x <= y
      BY <2>2
    <3>2. \A y \in S : i <= y
      BY <1>0, <3>1
    <3> QED BY <3>2
  <2> HIDE DEF LL
  <2>3. Nat \subseteq LL
    BY <2>1, <2>2, SetInduction
  <2>4. n \in LL /\ \E i \in S : i <= n
    BY <1>0, <2>3
  <2> QED BY <2>4 DEF LL
<1>2. \E x \in S : \A y \in S : x >= y
  <2>1. 0 \in G
    BY <1>0
  <2>2. ASSUME NEW m \in Nat, m \in G PROVE m + 1 \in G
    <3>1. SUFFICES ASSUME NEW i \in S, \A y \in S : y - i <= m + 1,
                          ~ \E k \in S : \A y \in S : y - k <= m
                   PROVE  \E x \in S : \A y \in S : x >= y
      BY <2>2
    <3>2. CASE \A y \in S : i >= y
      BY <3>2
    <3>3. CASE ~ \A y \in S : i >= y
      <4>1. PICK k \in S : ~ (i >= k)
        BY <3>3
      <4>2. \A y \in S : y - k <= m
        BY <1>0, <3>1, <4>1
      <4> QED BY <3>1, <4>2
    <3> QED BY <3>2, <3>3
  <2>3. \E i \in S : \A y \in S : y - i <= n
    <3>1. PICK i \in S : TRUE
      OBVIOUS
    <3>2. \A y \in S : y - i <= n
      BY <1>0
    <3> QED BY <3>2
  <2> HIDE DEF G
  <2>4. Nat \subseteq G
    BY <2>1, <2>2, SetInduction
  <2>5. n \in G
    BY <2>4
  <2> QED BY <2>3, <2>5 DEF G
<1>3. Min(S) \in S /\ \A y \in S : Min(S) <= y
  BY <1>1 DEF Min
<1>4. Max(S) \in S /\ \A y \in S : Max(S) >= y
  BY <1>2 DEF Max
<1> QED BY <1>0, <1>3, <1>4

(* A sequence of whatever it has.                                          *)
IsList(s) == \E S : s \in Seq(S)

(* x is put behind the list s.                                             *)
IsLonger(s, x, q) ==
  /\ Len(s) \in Nat /\ DOMAIN s = 1..Len(s)
  /\ IsList(q) /\ Len(q) = Len(s) + 1 /\ DOMAIN q = 1..Len(s) + 1
  /\ q[Len(s) + 1] = x /\ \A i \in 1..Len(s) : q[i] = s[i]

LEMMA AppendIsLonger ==
  ASSUME NEW s, IsList(s), NEW x
  PROVE  IsLonger(s, x, Append(s, x))
<1>1. PICK S : s \in Seq(S)
  BY DEF IsList
<1> DEFINE U == S \cup {x}
           q == Append(s, x)
<1>2. s \in Seq(U) /\ x \in U
  BY <1>1
<1> HIDE DEF U
<1>3. /\ q \in Seq(U) /\ Len(q) = Len(s) + 1 /\ q[Len(s) + 1] = x
      /\ \A i \in 1..Len(s) : q[i] = s[i]
      /\ Len(s) \in Nat /\ DOMAIN s = 1..Len(s) /\ DOMAIN q = 1..Len(q)
  BY <1>2
<1> QED BY <1>3 DEF IsLonger, IsList

(* Putting one, two or three behind a list.                                *)
Appends(s, x, y, z) ==
  /\ s \o (<< x >> \o << >> \o << >>) = Append(s, x)
  /\ s \o (<< x >> \o << y >> \o << >>) = Append(Append(s, x), y)
  /\ s \o (<< x >> \o << >> \o << z >>) = Append(Append(s, x), z)
  /\ s \o (<< x >> \o << y >> \o << z >>) = Append(Append(Append(s, x), y), z)

LEMMA ConcatAppends ==
  ASSUME NEW s, IsList(s), NEW x, NEW y, NEW z
  PROVE  Appends(s, x, y, z)
<1>1. PICK S : s \in Seq(S)
  BY DEF IsList
<1> DEFINE U == S \cup {x, y, z}
<1>2. s \in Seq(U) /\ x \in U /\ y \in U /\ z \in U
  BY <1>1
<1> HIDE DEF U
<1>3. ASSUME NEW a \in Seq(U), NEW v \in U PROVE a \o << v >> = Append(a, v) /\ Append(a, v) \in Seq(U)
  OBVIOUS
<1>4. << x >> \in Seq(U) /\ << y >> \in Seq(U) /\ << z >> \in Seq(U) /\ << >> \in Seq(U)
  BY <1>2
<1>5. \A a \in Seq(U) : a \o << >> = a
  OBVIOUS
<1>6. /\ \A a, b \in Seq(U) : a \o b \in Seq(U)
      /\ \A a, b, c \in Seq(U) : a \o (b \o c) = (a \o b) \o c
  OBVIOUS
<1> DEFINE X == << x >>
           Y == << y >>
           Z == << z >>
           E == << >>
<1>7. X \in Seq(U) /\ Y \in Seq(U) /\ Z \in Seq(U) /\ E \in Seq(U)
  BY <1>4
<1>8. /\ s \o X = Append(s, x) /\ s \o X \in Seq(U)
      /\ (s \o X) \o Y = Append(s \o X, y) /\ (s \o X) \o Y \in Seq(U)
      /\ (s \o X) \o Z = Append(s \o X, z)
      /\ ((s \o X) \o Y) \o Z = Append((s \o X) \o Y, z)
  <2>1. s \o X = Append(s, x) /\ s \o X \in Seq(U)
    BY <1>2, <1>3
  <2>2. (s \o X) \o Y = Append(s \o X, y) /\ (s \o X) \o Y \in Seq(U)
    <3>1. PICK a : a = s \o X
      OBVIOUS
    <3>2. a \o Y = Append(a, y) /\ Append(a, y) \in Seq(U)
      BY <1>2, <1>3, <2>1, <3>1
    <3> QED BY <3>1, <3>2
  <2>3. (s \o X) \o Z = Append(s \o X, z)
    <3>1. PICK a : a = s \o X
      OBVIOUS
    <3>2. a \o Z = Append(a, z)
      BY <1>2, <1>3, <2>1, <3>1
    <3> QED BY <3>1, <3>2
  <2>4. ((s \o X) \o Y) \o Z = Append((s \o X) \o Y, z)
    <3>1. PICK a : a = (s \o X) \o Y
      OBVIOUS
    <3>2. a \o Z = Append(a, z)
      BY <1>2, <1>3, <2>2, <3>1
    <3> QED BY <3>1, <3>2
  <2> QED BY <2>1, <2>2, <2>3, <2>4
<1> HIDE DEF X, Y, Z, E
<1>9. \A a \in Seq(U) : a \o E = a
  BY <1>5 DEF E
<1>10. s \o (X \o E \o E) = s \o X
  BY <1>7, <1>9
<1>11. s \o (X \o Y \o E) = (s \o X) \o Y
  <2>1. X \o Y \in Seq(U) /\ s \o (X \o Y) = (s \o X) \o Y
    BY <1>2, <1>6, <1>7
  <2> QED BY <1>9, <2>1
<1>12. s \o (X \o E \o Z) = (s \o X) \o Z
  <2>1. X \o E = X
    BY <1>7, <1>9
  <2>2. s \o (X \o Z) = (s \o X) \o Z
    BY <1>2, <1>6, <1>7
  <2> QED BY <2>1, <2>2
<1>13. s \o (X \o Y \o Z) = ((s \o X) \o Y) \o Z
  <2>1. PICK b : b = X \o Y
    OBVIOUS
  <2>2. b \in Seq(U) /\ s \o b = (s \o X) \o Y
    BY <1>2, <1>6, <1>7, <2>1
  <2>3. s \o (b \o Z) = (s \o b) \o Z
    <3>1. b \in Seq(U)
      BY <2>2
    <3> QED BY <1>2, <1>6, <1>7, <3>1
  <2> QED BY <2>1, <2>2, <2>3
<1> QED BY <1>8, <1>10, <1>11, <1>12, <1>13 DEF X, Y, Z, E, Appends
-----------------------------------------------------------------------------
(* The kinds of events that mark a place between samples.                  *)
MarkKinds == BoundaryKinds \cup {"drain"}

(* How many samples of a track stand in front of the i-th event.           *)
Before(list, t, i) == Cardinality({ k \in SamplesOf(list, t) : k < i })

(* A chunk of the track ends with its n-th sample.                         *)
ChunkEndsAt(coord, t, n) == \E j \in DOMAIN coord[t] : CountBefore(coord[t], j) = n

(* k is the last of the places S.                                          *)
IsLast(k, S) == k \in S /\ \A m \in S : m <= k

(* The samples are the first n items of the layout p.                      *)
SamplesAre(list, n, p) ==
  /\ Cardinality(SamplesIn(list)) = n
  /\ \A i \in SamplesIn(list) : list[i].planned_item = p[NumberIn(SamplesIn(list), i)]
  /\ \A t \in TrackIds : Cardinality(SamplesOf(list, t)) = NumberIn(PlacesIn(p, t), n)

(* x bears what a boundary or a drain behind the k-th item does, which has *)
(* b samples of its track in front.                                        *)
IsMark(x, b, k, p, coord, kinds) ==
  LET t == p[k].staged.track_id
  IN  /\ x.kind \in MarkKinds /\ x.track_id = t
      /\ x.output_offset = output_end_offset(p[k])
      /\ x.decode_time = decode_end_time(p[k])
      /\ b = NumberIn(PlacesIn(p, t), k)
      /\ x.kind = "drain" => IsLast(k, PlacesIn(p, t))
      /\ x.kind # "drain" => x.kind = kinds[t] /\ kinds[t] # None /\ ChunkEndsAt(coord, t, b)

(* Every boundary and every drain is one of the first n items.             *)
MarksAre(list, n, p, coord, kinds) ==
  \A i \in DOMAIN list : list[i].kind \in MarkKinds =>
    \E k \in 1..n : IsMark(list[i], Before(list, list[i].track_id, i), k, p, coord, kinds)

(* An event of that kind stands behind b samples of the track.             *)
Stands(list, kind, t, b) ==
  \E i \in DOMAIN list : list[i].kind = kind /\ list[i].track_id = t /\ Before(list, t, i) = b

(* Every boundary and every drain the first n items call for is there.     *)
MarkCalled(list, k, p, coord, kinds) ==
  LET t == p[k].staged.track_id
      b == NumberIn(PlacesIn(p, t), k)
  IN  /\ kinds[t] # None /\ ChunkEndsAt(coord, t, b) => Stands(list, kinds[t], t, b)
      /\ IsLast(k, PlacesIn(p, t)) => Stands(list, "drain", t, b)

(* None of those the first n items call for is missing.                    *)
MarksCome(list, n, p, coord, kinds) == \A k \in 1..n : MarkCalled(list, k, p, coord, kinds)

(* No track is drained twice.                                              *)
OneDrain(list) ==
  \A i, j \in DOMAIN list :
    /\ list[i].kind = "drain" /\ list[j].kind = "drain"
    /\ list[i].track_id = list[j].track_id
    => i = j

(* q has the events of the list, with the same samples in front.           *)
Continues(q, list) ==
  \A i \in DOMAIN list :
    i \in DOMAIN q /\ q[i] = list[i] /\ \A u : Before(q, u, i) = Before(list, u, i)

(* A list's samples are places of it.                                      *)
LEMMA SamplesArePlaces ==
  ASSUME NEW s, NEW n \in Nat, DOMAIN s = 1..n, NEW t
  PROVE  SamplesIn(s) \subseteq 1..n /\ SamplesOf(s, t) \subseteq 1..n
BY DEF SamplesIn, SamplesOf

(* What an event put behind others does to the samples.                    *)
LEMMA SamplesGrow ==
  ASSUME NEW s, NEW x, NEW q, IsLonger(s, x, q)
  PROVE  /\ Continues(q, s)
         /\ SamplesIn(q) = SamplesIn(s) \cup IF x.kind = "sample" THEN {Len(s) + 1} ELSE {}
         /\ \A u : /\ SamplesOf(q, u) = SamplesOf(s, u) \cup
                        IF x.kind = "sample" /\ x.track_id = u THEN {Len(s) + 1} ELSE {}
                   /\ Before(q, u, Len(s) + 1) = Cardinality(SamplesOf(s, u))
<1> DEFINE n == Len(s)
<1>1. /\ n \in Nat /\ DOMAIN s = 1..n /\ DOMAIN q = 1..n + 1 /\ q[n + 1] = x
      /\ \A i \in 1..n : q[i] = s[i]
  BY DEF IsLonger
<1> HIDE DEF n
<1>2. \A i : i \in 1..n + 1 <=> i \in 1..n \/ i = n + 1
  BY <1>1
<1>3. SamplesIn(q) = SamplesIn(s) \cup IF x.kind = "sample" THEN {n + 1} ELSE {}
  <2>1. \A i : i \in SamplesIn(q) <=> i \in SamplesIn(s) \/ (i = n + 1 /\ x.kind = "sample")
    BY <1>1, <1>2 DEF SamplesIn
  <2> QED BY <2>1
<1>4. ASSUME NEW u
      PROVE  /\ SamplesOf(q, u) = SamplesOf(s, u) \cup
                        IF x.kind = "sample" /\ x.track_id = u THEN {n + 1} ELSE {}
             /\ SamplesOf(s, u) \subseteq 1..n
             /\ \A i \in 1..n + 1 :
                  {k \in SamplesOf(q, u) : k < i} = {k \in SamplesOf(s, u) : k < i}
             /\ {k \in SamplesOf(s, u) : k < n + 1} = SamplesOf(s, u)
  <2>0. SamplesOf(s, u) \subseteq 1..n
    BY <1>1, SamplesArePlaces
  <2>1. \A i : i \in SamplesOf(q, u)
                 <=> i \in SamplesOf(s, u) \/ (i = n + 1 /\ x.kind = "sample" /\ x.track_id = u)
    BY <1>1, <1>2 DEF SamplesOf, SamplesIn
  <2>2. ASSUME NEW i \in 1..n + 1
        PROVE  {k \in SamplesOf(q, u) : k < i} = {k \in SamplesOf(s, u) : k < i}
    <3>1. ~ (n + 1 < i)
      BY <1>1
    <3> QED BY <2>1, <3>1
  <2>3. \A k \in SamplesOf(s, u) : k < n + 1
    BY <1>1, <2>0
  <2> QED BY <2>0, <2>1, <2>2, <2>3
<1>5. \A u : \A i \in 1..n + 1 : Before(q, u, i) = Before(s, u, i)
  BY <1>4 DEF Before
<1>6. \A u : Before(s, u, n + 1) = Cardinality(SamplesOf(s, u))
  BY <1>4 DEF Before
<1>7. n + 1 \in 1..n + 1
  BY <1>1
<1>8. Continues(q, s)
  BY <1>1, <1>2, <1>5 DEF Continues
<1> QED BY <1>3, <1>4, <1>5, <1>6, <1>7, <1>8 DEF n

(* The sample of the next item joins the samples.                          *)
LEMMA SampleComes ==
  ASSUME NEW p \in Seq(PlannedItem), NEW n \in Nat, n < Len(p),
         NEW s, SamplesAre(s, n, p), NEW x, x.kind = "sample", x.planned_item = p[n + 1],
         x.track_id = p[n + 1].staged.track_id, NEW q, IsLonger(s, x, q)
  PROVE  SamplesAre(q, n + 1, p)
<1> DEFINE l == Len(s)
           S == SamplesIn(s)
<1>1. l \in Nat /\ DOMAIN s = 1..l /\ q[l + 1] = x /\ \A i \in 1..l : q[i] = s[i]
  BY DEF IsLonger
<1>2. SamplesIn(q) = S \cup {l + 1} /\ S \subseteq 1..l
  BY <1>1, SamplesGrow, SamplesArePlaces
<1>3. /\ Cardinality(S) = n /\ \A i \in S : s[i].planned_item = p[NumberIn(S, i)]
      /\ \A t \in TrackIds : Cardinality(SamplesOf(s, t)) = NumberIn(PlacesIn(p, t), n)
  BY DEF SamplesAre
<1>4. ASSUME NEW t \in TrackIds
      PROVE  Cardinality(SamplesOf(q, t)) = NumberIn(PlacesIn(p, t), n + 1)
  <2> DEFINE P == PlacesIn(p, t)
  <2>1. Len(p) \in Nat /\ DOMAIN p = 1..Len(p) /\ n + 1 \in DOMAIN p
    OBVIOUS
  <2>2. P \subseteq 1..Len(p) /\ (n + 1 \in P <=> p[n + 1].staged.track_id = t)
    BY <2>1 DEF PlacesIn
  <2> HIDE DEF P
  <2>3. NumberIn(P, n + 1) = IF n + 1 \in P THEN NumberIn(P, n) + 1 ELSE NumberIn(P, n)
    <3>1. \A i \in Int : NumberIn(P, i + 1) = IF i + 1 \in P THEN NumberIn(P, i) + 1
                                             ELSE NumberIn(P, i)
      BY <2>1, <2>2, NumberStep
    <3>2. n \in Int
      OBVIOUS
    <3> QED BY <3>1, <3>2
  <2>4. SamplesOf(q, t) = SamplesOf(s, t) \cup IF x.track_id = t THEN {l + 1} ELSE {}
    BY SamplesGrow
  <2>5. SamplesOf(s, t) \subseteq 1..l
    BY <1>1, SamplesArePlaces
  <2>6. CASE x.track_id = t
    <3>1. l + 1 \in Int /\ l + 1 > l
      BY <1>1
    <3>2. Cardinality(SamplesOf(s, t) \cup {l + 1}) = Cardinality(SamplesOf(s, t)) + 1
      BY <1>1, <2>5, <3>1, NumbersExtend
    <3> QED BY <1>3, <2>2, <2>3, <2>4, <2>6, <3>2 DEF P
  <2>7. CASE x.track_id # t
    BY <1>3, <2>2, <2>3, <2>4, <2>7 DEF P
  <2> QED BY <2>6, <2>7
<1> HIDE DEF l, S
<1>5. /\ Cardinality(S \cup {l + 1}) = n + 1 /\ NumberIn(S \cup {l + 1}, l + 1) = n + 1
      /\ \A i \in Int : i < l + 1 => NumberIn(S \cup {l + 1}, i) = NumberIn(S, i)
  <2>1. PICK m : m = l + 1
    OBVIOUS
  <2>2. l \in Nat /\ m \in Int /\ m > l /\ S \subseteq 1..l
    BY <1>1, <1>2, <2>1
  <2>3. /\ Cardinality(S \cup {m}) = Cardinality(S) + 1
        /\ NumberIn(S \cup {m}, m) = Cardinality(S) + 1
        /\ \A i \in Int : i < m => NumberIn(S \cup {m}, i) = NumberIn(S, i)
    BY <2>2, NumbersExtend
  <2> QED BY <1>3, <2>1, <2>3
<1>6. ASSUME NEW i \in S PROVE i \in Int /\ i < l + 1 /\ q[i] = s[i]
  <2>1. i \in 1..l
    BY <1>2
  <2> QED BY <1>1, <2>1
<1>7. \A i \in S \cup {l + 1} : q[i].planned_item = p[NumberIn(S \cup {l + 1}, i)]
  BY <1>1, <1>3, <1>5, <1>6
<1> QED BY <1>2, <1>4, <1>5, <1>7 DEF SamplesAre

(* Any other event leaves the samples alone.                               *)
LEMMA OtherComes ==
  ASSUME NEW p, NEW n, NEW s, SamplesAre(s, n, p), NEW x, x.kind # "sample",
         NEW q, IsLonger(s, x, q)
  PROVE  SamplesAre(q, n, p)
<1>1. SamplesIn(q) = SamplesIn(s) /\ \A u : SamplesOf(q, u) = SamplesOf(s, u)
  <2>1. SamplesIn(q) = SamplesIn(s) \cup IF x.kind = "sample" THEN {Len(s) + 1} ELSE {}
    BY SamplesGrow
  <2>2. ASSUME NEW u
        PROVE  SamplesOf(q, u) = SamplesOf(s, u) \cup
                        IF x.kind = "sample" /\ x.track_id = u THEN {Len(s) + 1} ELSE {}
    BY SamplesGrow
  <2> QED BY <2>1, <2>2
<1>2. \A i \in SamplesIn(s) : q[i] = s[i]
  BY DEF IsLonger, SamplesIn
<1> QED BY <1>1, <1>2 DEF SamplesAre

(* A mark of the n-th item, put behind its sample.                         *)
LEMMA MarkComes ==
  ASSUME NEW p, NEW n, NEW coord, NEW kinds, NEW s, SamplesAre(s, n, p),
         NEW x, p[n].staged.track_id \in TrackIds, n \in Nat \ {0},
         IsMark(x, NumberIn(PlacesIn(p, p[n].staged.track_id), n), n, p, coord, kinds),
         NEW q, IsLonger(s, x, q)
  PROVE  /\ SamplesAre(q, n, p)
         /\ MarksAre(s, n, p, coord, kinds) => MarksAre(q, n, p, coord, kinds)
         /\ Stands(q, x.kind, x.track_id, NumberIn(PlacesIn(p, x.track_id), n))
<1> DEFINE t == p[n].staged.track_id
           l == Len(s) + 1
           b == NumberIn(PlacesIn(p, t), n)
<1>1. x.kind \in MarkKinds /\ x.track_id = t
  BY DEF IsMark
<1>2. x.kind # "sample"
  BY <1>1 DEF MarkKinds, BoundaryKinds
<1>3. SamplesAre(q, n, p)
  BY <1>2, OtherComes
<1>4. Before(q, t, l) = b
  <2>1. Before(q, t, l) = Cardinality(SamplesOf(s, t))
    BY SamplesGrow
  <2> QED BY <2>1 DEF SamplesAre
<1>5. /\ l \in DOMAIN q /\ q[l] = x /\ DOMAIN s = 1..Len(s) /\ Len(s) \in Nat
      /\ \A i \in DOMAIN q : i \in DOMAIN s \/ i = l
  BY DEF IsLonger
<1>6. Continues(q, s)
  BY SamplesGrow
<1> HIDE DEF l
<1>7. Stands(q, x.kind, x.track_id, b)
  BY <1>1, <1>4, <1>5 DEF Stands
<1>8. ASSUME MarksAre(s, n, p, coord, kinds), NEW i \in DOMAIN q, q[i].kind \in MarkKinds
      PROVE  \E k \in 1..n : IsMark(q[i], Before(q, q[i].track_id, i), k, p, coord, kinds)
  <2>1. CASE i = l
    <3>1. n \in 1..n
      OBVIOUS
    <3>2. IsMark(q[i], Before(q, q[i].track_id, i), n, p, coord, kinds)
      BY <1>1, <1>4, <1>5, <2>1
    <3> QED BY <3>1, <3>2
  <2>2. CASE i \in DOMAIN s
    <3>1. q[i] = s[i] /\ \A u : Before(q, u, i) = Before(s, u, i)
      BY <1>6, <2>2 DEF Continues
    <3> QED BY <1>8, <2>2, <3>1 DEF MarksAre
  <2> QED BY <1>5, <2>1, <2>2
<1> QED BY <1>1, <1>3, <1>7, <1>8 DEF MarksAre

(* What stands in a list stands in one that continues it.                  *)
LEMMA MarksStay ==
  ASSUME NEW s, NEW q, Continues(q, s), NEW n, NEW p, NEW coord, NEW kinds
  PROVE  /\ \A kind, t, b : Stands(s, kind, t, b) => Stands(q, kind, t, b)
         /\ MarksCome(s, n, p, coord, kinds) => MarksCome(q, n, p, coord, kinds)
<1>1. ASSUME NEW kind, NEW t, NEW b, Stands(s, kind, t, b) PROVE Stands(q, kind, t, b)
  <2>1. PICK i \in DOMAIN s : s[i].kind = kind /\ s[i].track_id = t /\ Before(s, t, i) = b
    BY <1>1 DEF Stands
  <2>2. i \in DOMAIN q /\ q[i] = s[i] /\ Before(q, t, i) = Before(s, t, i)
    BY <2>1 DEF Continues
  <2> QED BY <2>1, <2>2 DEF Stands
<1> QED BY <1>1 DEF MarksCome, MarkCalled

(* A sample put behind the others is no mark.                              *)
LEMMA SampleKeepsMarks ==
  ASSUME NEW p, NEW n \in Nat, NEW coord, NEW kinds, NEW s, MarksAre(s, n, p, coord, kinds),
         NEW x, x.kind = "sample", NEW q, IsLonger(s, x, q)
  PROVE  MarksAre(q, n + 1, p, coord, kinds)
<1> SUFFICES ASSUME NEW i \in DOMAIN q, q[i].kind \in MarkKinds
             PROVE  \E k \in 1..n + 1 :
                      IsMark(q[i], Before(q, q[i].track_id, i), k, p, coord, kinds)
  BY DEF MarksAre
<1>1. i \in DOMAIN s
  <2>1. "sample" \notin MarkKinds
    BY DEF MarkKinds, BoundaryKinds
  <2>2. i \in 1..Len(s) + 1 /\ DOMAIN s = 1..Len(s) /\ q[Len(s) + 1] = x /\ Len(s) \in Nat
    BY DEF IsLonger
  <2> QED BY <2>1, <2>2
<1>2. q[i] = s[i] /\ \A u : Before(q, u, i) = Before(s, u, i)
  BY <1>1, SamplesGrow DEF Continues
<1>3. PICK k \in 1..n : IsMark(s[i], Before(s, s[i].track_id, i), k, p, coord, kinds)
  BY <1>1, <1>2 DEF MarksAre
<1>4. k \in 1..n + 1
  OBVIOUS
<1> QED BY <1>2, <1>3, <1>4
-----------------------------------------------------------------------------
(* The track is not drained yet.                                           *)
NoDrain(list, t) == \A i \in DOMAIN list : list[i].kind = "drain" => list[i].track_id # t

(* What the description x of a stream says of its track holds of its items.*)
Announces(x, items, p) ==
  LET t == x.track_id
  IN  /\ t \in TrackIds /\ x.item_count = Len(items[t])
      /\ \A k \in PlacesIn(p, t) :
           /\ x.first_output_offset <= output_end_offset(p[k])
           /\ output_end_offset(p[k]) <= x.end_output_offset
           /\ decode_end_time(p[k]) <= x.end_decode_time

(* Every track with items has its stream described, and truly.             *)
IsDescribed(list, items, p) ==
  /\ \A i \in DOMAIN list : list[i].kind = "stream" => Announces(list[i], items, p)
  /\ \A t \in TrackIds : items[t] # << >> =>
       \E i \in DOMAIN list : list[i].kind = "stream" /\ list[i].track_id = t

(* The events of the first n items.                                        *)
IsGraph(list, n, p, items, coord, kinds) ==
  /\ IsList(list) /\ SamplesAre(list, n, p) /\ MarksAre(list, n, p, coord, kinds)
  /\ MarksCome(list, n, p, coord, kinds) /\ OneDrain(list) /\ IsDescribed(list, items, p)

(* What any event but a stream's leaves as it was.                         *)
LEMMA OthersKeep ==
  ASSUME NEW s, NEW x, NEW q, IsLonger(s, x, q), x.kind # "stream",
         x.kind = "drain" => NoDrain(s, x.track_id)
  PROVE  /\ OneDrain(s) => OneDrain(q)
         /\ \A items, p : IsDescribed(s, items, p) => IsDescribed(q, items, p)
         /\ x.kind # "drain" => \A t : NoDrain(s, t) => NoDrain(q, t)
<1> DEFINE l == Len(s) + 1
<1>1. /\ l \in DOMAIN q /\ q[l] = x /\ \A i \in DOMAIN s : i \in DOMAIN q /\ q[i] = s[i]
      /\ \A i \in DOMAIN q : i \in DOMAIN s \/ i = l
  BY DEF IsLonger
<1> HIDE DEF l
<1>2. ASSUME OneDrain(s) PROVE OneDrain(q)
  <2> SUFFICES ASSUME NEW i \in DOMAIN q, NEW j \in DOMAIN q, q[i].kind = "drain",
                      q[j].kind = "drain", q[i].track_id = q[j].track_id
               PROVE  i = j
    BY DEF OneDrain
  <2>1. CASE i \in DOMAIN s /\ j \in DOMAIN s
    BY <1>1, <1>2, <2>1 DEF OneDrain
  <2>2. CASE i \in DOMAIN s /\ j = l
    BY <1>1, <2>2 DEF NoDrain
  <2>3. CASE j \in DOMAIN s /\ i = l
    BY <1>1, <2>3 DEF NoDrain
  <2> QED BY <1>1, <2>1, <2>2, <2>3
<1>3. ASSUME NEW items, NEW p, IsDescribed(s, items, p) PROVE IsDescribed(q, items, p)
  BY <1>1, <1>3 DEF IsDescribed
<1>4. ASSUME x.kind # "drain", NEW t, NoDrain(s, t) PROVE NoDrain(q, t)
  BY <1>1, <1>4 DEF NoDrain
<1> QED BY <1>2, <1>3, <1>4

(* What the events of an item are added to and with.                       *)
LEMMA GraphOne ==
  ASSUME NEW p \in Seq(PlannedItem), NEW items, NEW coord,
         NEW kinds \in [TrackIds -> BoundaryKinds \cup {None}],
         NEW n \in Nat, n < Len(p), NEW s, IsGraph(s, n, p, items, coord, kinds),
         NEW t, t = p[n + 1].staged.track_id,
         NEW number, number = Cardinality(SamplesOf(s, t)) + 1,
         NEW x, x.kind = "sample", x.track_id = t, x.planned_item = p[n + 1],
         NEW B, B = IF kinds[t] # None /\ ChunkEndsAt(coord, t, number)
                      THEN << Boundary(kinds[t], t, p[n + 1]) >> ELSE << >>,
         NEW D, D = IF n + 1 = Max(PlacesIn(p, t))
                      THEN << Boundary("drain", t, p[n + 1]) >> ELSE << >>
  PROVE  IsGraph(s \o (<< x >> \o B \o D), n + 1, p, items, coord, kinds)
<1> DEFINE m == n + 1
           P == PlacesIn(p, t)
           y == Boundary(kinds[t], t, p[m])
           z == Boundary("drain", t, p[m])
           s1 == Append(s, x)
           bounded == kinds[t] # None /\ ChunkEndsAt(coord, t, number)
           drained == m = Max(P)
           s2 == IF bounded THEN Append(s1, y) ELSE s1
           s3 == IF drained THEN Append(s2, z) ELSE s2
<1>1. /\ m \in Nat \ {0} /\ m \in DOMAIN p /\ Len(p) \in Nat /\ DOMAIN p = 1..Len(p)
      /\ \A k \in DOMAIN p : p[k] \in PlannedItem
  OBVIOUS
<1>2. t \in TrackIds
  BY <1>1 DEF PlannedItem, StagedItem
<1>3. m \in P /\ P \subseteq 1..Len(p)
  BY <1>1 DEF PlacesIn
<1>4. drained <=> IsLast(m, P)
  <2>1. P \subseteq 0..Len(p) /\ P # {}
    BY <1>1, <1>3
  <2>2. Max(P) \in P /\ \A i \in P : i <= Max(P)
    BY <1>1, <2>1, EndsOfPlaces
  <2>3. \A i \in P : i \in Nat
    BY <1>1, <1>3
  <2> HIDE DEF P
  <2>4. Max(P) \in Nat
    BY <2>2, <2>3
  <2>5. IsLast(m, P) => m = Max(P)
    BY <1>1, <2>2, <2>4 DEF IsLast
  <2>6. m = Max(P) => IsLast(m, P)
    BY <2>2 DEF IsLast
  <2> QED BY <2>5, <2>6
<1>5. number = NumberIn(P, m)
  <2>1. Cardinality(SamplesOf(s, t)) = NumberIn(P, n)
    BY <1>2 DEF IsGraph, SamplesAre
  <2> HIDE DEF P
  <2>2. \A i \in Int : NumberIn(P, i + 1) = IF i + 1 \in P THEN NumberIn(P, i) + 1
                                            ELSE NumberIn(P, i)
    BY <1>1, <1>3, NumberStep
  <2>3. n \in Int
    OBVIOUS
  <2> QED BY <1>3, <2>1, <2>2, <2>3
<1>6. NoDrain(s, t)
  <2> SUFFICES ASSUME NEW i \in DOMAIN s, s[i].kind = "drain", s[i].track_id = t PROVE FALSE
    BY DEF NoDrain
  <2>1. PICK k \in 1..n : IsMark(s[i], Before(s, s[i].track_id, i), k, p, coord, kinds)
    BY DEF IsGraph, MarksAre, MarkKinds
  <2>2. IsLast(k, P)
    BY <2>1 DEF IsMark
  <2>3. m <= k
    BY <1>3, <2>2 DEF IsLast
  <2> QED BY <2>1, <2>3
<1> HIDE DEF m, P, bounded, drained, y, z, s1, s2, s3
<1>7. /\ IsList(s1) /\ SamplesAre(s1, m, p) /\ MarksAre(s1, m, p, coord, kinds)
      /\ MarksCome(s1, n, p, coord, kinds) /\ OneDrain(s1) /\ IsDescribed(s1, items, p)
      /\ NoDrain(s1, t)
  <2>1. IsLonger(s, x, s1)
    BY AppendIsLonger DEF s1, IsGraph
  <2>2. IsList(s1)
    BY <2>1 DEF IsLonger
  <2>3. SamplesAre(s1, m, p)
    BY <2>1, SampleComes DEF m, IsGraph
  <2>4. MarksAre(s1, m, p, coord, kinds)
    BY <2>1, SampleKeepsMarks DEF m, IsGraph
  <2>5. MarksCome(s1, n, p, coord, kinds)
    <3>1. Continues(s1, s)
      BY <2>1, SamplesGrow
    <3> QED BY <3>1, MarksStay DEF IsGraph
  <2>6. OneDrain(s1) /\ IsDescribed(s1, items, p) /\ NoDrain(s1, t)
    <3>1. x.kind # "stream" /\ x.kind # "drain"
      OBVIOUS
    <3> QED BY <1>6, <2>1, <3>1, OthersKeep DEF IsGraph
  <2> QED BY <2>2, <2>3, <2>4, <2>5, <2>6
<1>8. /\ y.kind = kinds[t] /\ y.track_id = t /\ z.kind = "drain" /\ z.track_id = t
      /\ bounded => IsMark(y, number, m, p, coord, kinds) /\ y.kind # "drain" /\ y.kind # "stream"
      /\ drained => IsMark(z, number, m, p, coord, kinds)
  <2>1. t = p[m].staged.track_id
    BY DEF m
  <2>2. kinds[t] # None => kinds[t] \in BoundaryKinds
    BY <1>2
  <2>3. /\ y.kind = kinds[t] /\ y.track_id = t /\ y.output_offset = output_end_offset(p[m])
        /\ y.decode_time = decode_end_time(p[m])
    BY DEF y, Boundary
  <2>4. /\ z.kind = "drain" /\ z.track_id = t /\ z.output_offset = output_end_offset(p[m])
        /\ z.decode_time = decode_end_time(p[m])
    BY DEF z, Boundary
  <2>5. bounded => IsMark(y, number, m, p, coord, kinds) /\ y.kind # "drain" /\ y.kind # "stream"
    <3>1. ASSUME bounded
          PROVE  y.kind \in BoundaryKinds /\ kinds[t] # None /\ ChunkEndsAt(coord, t, number)
      BY <2>2, <2>3, <3>1 DEF bounded
    <3>2. "drain" \notin BoundaryKinds /\ "stream" \notin BoundaryKinds
      BY DEF BoundaryKinds
    <3> QED BY <1>5, <2>1, <2>3, <3>1, <3>2 DEF IsMark, MarkKinds, P
  <2>6. drained => IsMark(z, number, m, p, coord, kinds)
    BY <1>4, <1>5, <2>1, <2>4 DEF IsMark, MarkKinds, P
  <2> QED BY <2>3, <2>4, <2>5, <2>6
<1>9. number = NumberIn(PlacesIn(p, p[m].staged.track_id), m) /\ p[m].staged.track_id = t
  BY <1>5 DEF m, P
<1>10. /\ IsList(s2) /\ SamplesAre(s2, m, p) /\ MarksAre(s2, m, p, coord, kinds)
       /\ MarksCome(s2, n, p, coord, kinds) /\ OneDrain(s2) /\ IsDescribed(s2, items, p)
       /\ NoDrain(s2, t)
       /\ bounded => Stands(s2, kinds[t], t, number)
  <2>1. CASE ~ bounded
    BY <1>7, <2>1 DEF s2
  <2>2. CASE bounded
    <3>1. s2 = Append(s1, y)
      BY <2>2 DEF s2
    <3>2. IsLonger(s1, y, s2)
      BY <1>7, <3>1, AppendIsLonger
    <3>3. IsMark(y, number, m, p, coord, kinds) /\ y.kind # "drain" /\ y.kind # "stream"
      BY <1>8, <2>2
    <3>4. /\ SamplesAre(s2, m, p) /\ MarksAre(s2, m, p, coord, kinds)
          /\ Stands(s2, y.kind, y.track_id, NumberIn(PlacesIn(p, y.track_id), m))
      BY <1>1, <1>2, <1>7, <1>9, <3>2, <3>3, MarkComes
    <3>5. Stands(s2, kinds[t], t, number)
      BY <1>8, <1>9, <3>4
    <3>6. MarksCome(s2, n, p, coord, kinds)
      <4>1. Continues(s2, s1)
        BY <3>2, SamplesGrow
      <4> QED BY <1>7, <4>1, MarksStay
    <3>7. OneDrain(s2) /\ IsDescribed(s2, items, p) /\ NoDrain(s2, t)
      BY <1>7, <3>2, <3>3, OthersKeep
    <3>8. IsList(s2)
      BY <3>2 DEF IsLonger
    <3> QED BY <3>4, <3>5, <3>6, <3>7, <3>8
  <2> QED BY <2>1, <2>2
<1>11. /\ IsList(s3) /\ SamplesAre(s3, m, p) /\ MarksAre(s3, m, p, coord, kinds)
       /\ MarksCome(s3, n, p, coord, kinds) /\ OneDrain(s3) /\ IsDescribed(s3, items, p)
       /\ bounded => Stands(s3, kinds[t], t, number)
       /\ drained => Stands(s3, "drain", t, number)
  <2>1. CASE ~ drained
    BY <1>10, <2>1 DEF s3
  <2>2. CASE drained
    <3>1. s3 = Append(s2, z)
      BY <2>2 DEF s3
    <3>2. IsLonger(s2, z, s3)
      BY <1>10, <3>1, AppendIsLonger
    <3>3. IsMark(z, number, m, p, coord, kinds) /\ z.kind = "drain" /\ z.track_id = t
      BY <1>8, <2>2
    <3>4. /\ SamplesAre(s3, m, p) /\ MarksAre(s3, m, p, coord, kinds)
          /\ Stands(s3, z.kind, z.track_id, NumberIn(PlacesIn(p, z.track_id), m))
      BY <1>1, <1>2, <1>10, <1>9, <3>2, <3>3, MarkComes
    <3>5. Stands(s3, "drain", t, number)
      BY <1>9, <3>3, <3>4
    <3>6. Continues(s3, s2)
      BY <3>2, SamplesGrow
    <3>7. bounded => Stands(s3, kinds[t], t, number)
      BY <1>10, <3>6, MarksStay
    <3>8. OneDrain(s3) /\ IsDescribed(s3, items, p)
      <4>1. z.kind # "stream" /\ NoDrain(s2, z.track_id)
        BY <1>10, <3>3
      <4> QED BY <1>10, <3>2, <4>1, OthersKeep
    <3>9. IsList(s3)
      BY <3>2 DEF IsLonger
    <3>10. MarksCome(s3, n, p, coord, kinds)
      BY <1>10, <3>6, MarksStay
    <3> QED BY <3>4, <3>5, <3>7, <3>8, <3>9, <3>10
  <2> QED BY <2>1, <2>2
<1>12. MarksCome(s3, m, p, coord, kinds)
  <2>1. MarkCalled(s3, m, p, coord, kinds)
    <3>1. kinds[t] # None /\ ChunkEndsAt(coord, t, number) => Stands(s3, kinds[t], t, number)
      BY <1>11 DEF bounded
    <3>2. IsLast(m, PlacesIn(p, t)) => Stands(s3, "drain", t, number)
      BY <1>4, <1>11 DEF P
    <3> QED BY <1>9, <3>1, <3>2 DEF MarkCalled
  <2>2. \A k \in 1..m : k \in 1..n \/ k = m
    BY DEF m
  <2> QED BY <1>11, <2>1, <2>2 DEF MarksCome
<1>13. s \o (<< x >> \o B \o D) = s3
  <2>1. /\ B = IF bounded THEN << y >> ELSE << >>
        /\ D = IF drained THEN << z >> ELSE << >>
    BY DEF bounded, drained, y, z, m, P
  <2>2. /\ s \o (<< x >> \o << >> \o << >>) = Append(s, x)
        /\ s \o (<< x >> \o << y >> \o << >>) = Append(Append(s, x), y)
        /\ s \o (<< x >> \o << >> \o << z >>) = Append(Append(s, x), z)
        /\ s \o (<< x >> \o << y >> \o << z >>) = Append(Append(Append(s, x), y), z)
    <3>1. IsList(s)
      BY DEF IsGraph
    <3>2. Appends(s, x, y, z)
      BY <3>1, ConcatAppends
    <3> QED BY <3>2 DEF Appends
  <2>3. CASE bounded /\ drained
    BY <2>1, <2>2, <2>3 DEF s1, s2, s3
  <2>4. CASE bounded /\ ~ drained
    BY <2>1, <2>2, <2>4 DEF s1, s2, s3
  <2>5. CASE ~ bounded /\ drained
    BY <2>1, <2>2, <2>5 DEF s1, s2, s3
  <2>6. CASE ~ bounded /\ ~ drained
    BY <2>1, <2>2, <2>6 DEF s1, s2, s3
  <2> QED BY <2>3, <2>4, <2>5, <2>6
<1> QED BY <1>11, <1>12, <1>13 DEF IsGraph, m
-----------------------------------------------------------------------------
(* Finitely many natural numbers have a bound.                             *)
LEMMA ValuesAreBounded ==
  ASSUME NEW n \in Nat, NEW f, \A i \in 1..n : f[i] \in Nat
  PROVE  \E b \in Nat : \A i \in 1..n : f[i] <= b
<1> DEFINE S == { j \in 0..n : \E b \in Nat : \A i \in 1..j : f[i] <= b }
<1>1. 0 \in S
  <2>1. 0 \in 0..n /\ 0 \in Nat /\ \A i \in 1..0 : f[i] <= 0
    OBVIOUS
  <2> QED BY <2>1
<1>2. ASSUME NEW j \in 1..n, j - 1 \in S PROVE j \in S
  <2>1. PICK b \in Nat : \A i \in 1..j - 1 : f[i] <= b
    BY <1>2
  <2>2. PICK c \in Nat : b <= c /\ f[j] <= c
    <3>1. f[j] \in Nat /\ (b <= f[j] \/ f[j] <= b) /\ b <= b /\ f[j] <= f[j]
      OBVIOUS
    <3> QED BY <3>1
  <2>3. ASSUME NEW i \in 1..j PROVE f[i] <= c
    <3>1. f[i] \in Nat /\ (i \in 1..j - 1 \/ i = j)
      BY <1>2
    <3>2. CASE i \in 1..j - 1
      <4>1. f[i] <= b
        BY <2>1, <3>2
      <4> QED BY <2>2, <3>1, <4>1
    <3> QED BY <2>2, <3>1, <3>2
  <2>4. j \in 0..n
    OBVIOUS
  <2> QED BY <2>3, <2>4
<1> HIDE DEF S
<1>3. 0..n \subseteq S
  BY <1>1, <1>2, BoundedInduction
<1>4. n \in S
  BY <1>3
<1> QED BY <1>4 DEF S

(* S has some of n numbers, and zero perhaps.                              *)
AreValues(S, n, f) ==
  /\ \A i \in 1..n : f[i] \in Nat
  /\ S # {} /\ \A x \in S : x = 0 \/ \E i \in 1..n : x = f[i]

(* The greatest of finitely many natural numbers.                          *)
LEMMA GreatestValue ==
  ASSUME NEW n \in Nat, NEW f, NEW S, AreValues(S, n, f)
  PROVE  Max(S) \in Nat /\ \A x \in S : x <= Max(S)
<1> USE DEF AreValues
<1>1. PICK b \in Nat : \A i \in 1..n : f[i] <= b
  BY ValuesAreBounded
<1>2. ASSUME NEW x \in S PROVE x \in 0..b
  <2>1. CASE x = 0
    BY <2>1
  <2>2. CASE x # 0
    <3>1. PICK i \in 1..n : x = f[i]
      BY <2>2
    <3>2. f[i] \in Nat /\ f[i] <= b
      BY <1>1
    <3> QED BY <3>1, <3>2
  <2> QED BY <2>1, <2>2
<1>3. S \subseteq 0..b
  BY <1>2
<1>4. Max(S) \in S /\ \A x \in S : x <= Max(S)
  BY <1>3, EndsOfPlaces
<1>5. Max(S) \in Nat
  <2>1. Max(S) \in 0..b
    BY <1>3, <1>4
  <2> QED BY <2>1
<1> QED BY <1>4, <1>5

(* Items that tile the payload lie ever further in it.                     *)
LEMMA OffsetsGrow ==
  ASSUME NEW p \in Seq(PlannedItem),
         \A i \in DOMAIN p :
           p[i].output_offset = IF i = 1 THEN 0 ELSE output_end_offset(p[i - 1])
  PROVE  \A i, k \in DOMAIN p : i <= k =>
           /\ p[i].output_offset <= p[k].output_offset
           /\ p[i].output_offset <= output_end_offset(p[k])
           /\ output_end_offset(p[i]) <= output_end_offset(p[k])
<1> DEFINE n == Len(p)
           o == [i \in 1..n |-> p[i].output_offset]
           z == [i \in 1..n |-> output_end_offset(p[i])]
           S == { k \in 0..n : \A i \in 1..k : o[i] <= o[k] /\ z[i] <= z[k] }
<1>1. n \in Nat /\ DOMAIN p = 1..n
  OBVIOUS
<1>2. ASSUME NEW i \in 1..n
      PROVE  /\ o[i] \in Nat /\ z[i] \in Nat /\ o[i] <= z[i]
             /\ i # 1 => i - 1 \in 1..n /\ o[i] = z[i - 1]
             /\ o[i] = p[i].output_offset /\ z[i] = output_end_offset(p[i])
  <2>1. p[i] \in PlannedItem
    BY <1>1
  <2>2. p[i].output_offset \in Nat /\ p[i].staged.data_size \in Nat
    BY <2>1 DEF PlannedItem, StagedItem
  <2>3. o[i] = p[i].output_offset /\ z[i] = output_end_offset(p[i])
    OBVIOUS
  <2>4. z[i] = p[i].output_offset + p[i].staged.data_size
    BY <2>3 DEF output_end_offset
  <2>5. ASSUME i # 1 PROVE i - 1 \in 1..n /\ o[i] = z[i - 1]
    <3>1. i - 1 \in 1..n
      BY <1>1, <2>5
    <3>2. z[i - 1] = output_end_offset(p[i - 1])
      BY <3>1
    <3> QED BY <1>1, <2>3, <2>5, <3>1, <3>2
  <2> HIDE DEF o, z
  <2> QED BY <2>2, <2>3, <2>4, <2>5
<1> HIDE DEF n, o, z
<1>3. 0 \in S
  BY <1>1
<1>4. ASSUME NEW k \in 1..n, k - 1 \in S PROVE k \in S
  <2>1. \A i \in 1..k - 1 : o[i] <= o[k - 1] /\ z[i] <= z[k - 1]
    BY <1>4
  <2>2. ASSUME NEW i \in 1..k PROVE o[i] <= o[k] /\ z[i] <= z[k]
    <3>1. CASE i = k
      BY <1>2, <3>1
    <3>2. CASE i # k
      <4>1. i \in 1..k - 1 /\ k # 1 /\ k - 1 \in 1..n /\ i \in 1..n
        BY <1>1, <3>2
      <4>2. o[i] <= o[k - 1] /\ z[i] <= z[k - 1]
        BY <2>1, <4>1
      <4>3. o[k] = z[k - 1] /\ o[k] <= z[k] /\ o[k] \in Nat /\ z[k] \in Nat
        BY <1>2, <4>1
      <4>4. o[k - 1] <= z[k - 1] /\ o[k - 1] \in Nat /\ z[k - 1] \in Nat
        BY <1>2, <4>1
      <4>5. o[i] \in Nat /\ z[i] \in Nat
        BY <1>2, <4>1
      <4> QED BY <4>2, <4>3, <4>4, <4>5
    <3> QED BY <3>1, <3>2
  <2>3. k \in 0..n
    BY <1>1
  <2> QED BY <2>2, <2>3
<1>5. 0..n \subseteq S
  <2> HIDE DEF S
  <2> QED BY <1>1, <1>3, <1>4, BoundedInduction
<1>6. ASSUME NEW i \in 1..n, NEW k \in 1..n, i <= k
      PROVE  o[i] <= o[k] /\ o[i] <= z[k] /\ z[i] <= z[k]
  <2>1. k \in S /\ i \in 1..k
    BY <1>1, <1>5, <1>6
  <2>2. o[i] <= o[k] /\ z[i] <= z[k]
    BY <2>1
  <2>3. o[i] \in Nat /\ o[k] \in Nat /\ z[k] \in Nat /\ o[k] <= z[k]
    BY <1>2
  <2> QED BY <2>2, <2>3
<1>7. ASSUME NEW i \in DOMAIN p, NEW k \in DOMAIN p, i <= k
      PROVE  /\ p[i].output_offset <= p[k].output_offset
             /\ p[i].output_offset <= output_end_offset(p[k])
             /\ output_end_offset(p[i]) <= output_end_offset(p[k])
  BY <1>1, <1>2, <1>6, <1>7
<1> QED BY <1>7
-----------------------------------------------------------------------------
(* The description of a track's stream holds of its planned items.         *)
LEMMA StreamAnnounces ==
  ASSUME IsPlanned(planned_items, total_payload_size, items_by_track), NEW t \in TrackIds,
         items_by_track[t] \in Seq(StagedItem), items_by_track[t] # << >>,
         Cardinality(PlacesIn(planned_items, t)) = Len(items_by_track[t])
  PROVE  /\ Announces(StreamDescription(t), items_by_track, planned_items)
         /\ StreamDescription(t).kind = "stream" /\ StreamDescription(t).track_id = t
<1> DEFINE p == planned_items
           items == items_by_track[t]
           P == PlacesIn(p, t)
           n == Len(items)
           f == [i \in 1..n |-> items[i].decode_time + items[i].duration]
<1>1. /\ p \in Seq(PlannedItem) /\ Len(p) \in Nat /\ P \subseteq 1..Len(p)
      /\ P \subseteq DOMAIN p /\ P = PlannedOf(t)
  BY DEF IsPlanned, PlacesIn, PlannedOf
<1>2. items \in Seq(StagedItem) /\ n \in Nat /\ n # 0 /\ DOMAIN items = 1..n
      /\ Cardinality(P) = n
  OBVIOUS
<1>3. ASSUME NEW i \in 1..n
      PROVE  items[i].decode_time + items[i].duration \in Nat
             /\ f[i] = items[i].decode_time + items[i].duration
  <2>1. items[i] \in StagedItem
    BY <1>2
  <2>2. items[i].decode_time \in Nat /\ items[i].duration \in Nat
    BY <2>1 DEF StagedItem
  <2>3. f[i] = items[i].decode_time + items[i].duration
    OBVIOUS
  <2> HIDE DEF f, items
  <2> QED BY <2>2, <2>3
<1>4. \A i \in DOMAIN p :
        p[i].output_offset = IF i = 1 THEN 0 ELSE output_end_offset(p[i - 1])
  BY DEF IsPlanned
<1>5. ASSUME NEW k \in P
      PROVE  NumberIn(P, k) \in 1..n /\ p[k].staged = items[NumberIn(P, k)]
  BY DEF IsPlanned
<1>6. StreamDescription(t) =
        [ kind |-> "stream", track_id |-> t, item_count |-> n,
          first_decode_time |-> Min({ items[i].decode_time : i \in DOMAIN items }),
          end_decode_time |-> Max(EndTimes(items)),
          first_output_offset |-> p[Min(P)].output_offset,
          end_output_offset |-> output_end_offset(p[Max(P)]) ]
  BY <1>1 DEF StreamDescription
<1> HIDE DEF p, P, items, n, f
<1>7. P # {} /\ P \subseteq 0..Len(p)
  <2>1. P # {}
    BY <1>2, FS_EmptySet
  <2> QED BY <1>1, <2>1
<1>8. Min(P) \in P /\ Max(P) \in P /\ \A k \in P : Min(P) <= k /\ k <= Max(P)
  BY <1>1, <1>7, EndsOfPlaces
<1>9. ASSUME NEW k \in P
      PROVE  p[Min(P)].output_offset <= output_end_offset(p[k])
             /\ output_end_offset(p[k]) <= output_end_offset(p[Max(P)])
  <2>1. \A i, j \in DOMAIN p : i <= j =>
           /\ p[i].output_offset <= p[j].output_offset
           /\ p[i].output_offset <= output_end_offset(p[j])
           /\ output_end_offset(p[i]) <= output_end_offset(p[j])
    BY <1>1, <1>4, OffsetsGrow
  <2>2. Min(P) \in DOMAIN p /\ Max(P) \in DOMAIN p /\ k \in DOMAIN p
    BY <1>1, <1>8
  <2>3. Min(P) <= k /\ k <= Max(P)
    BY <1>8
  <2> QED BY <2>1, <2>2, <2>3
<1>10. \A x \in EndTimes(items) : x <= Max(EndTimes(items))
  <2>1. \A i \in 1..n : f[i] \in Nat
    BY <1>3
  <2>2. ASSUME NEW x \in EndTimes(items) PROVE \E i \in 1..n : x = f[i]
    BY <1>2, <1>3 DEF EndTimes
  <2>3. EndTimes(items) # {}
    <3>1. 1 \in DOMAIN items
      BY <1>2
    <3> QED BY <3>1 DEF EndTimes
  <2> DEFINE S == EndTimes(items)
  <2>4. AreValues(S, n, f)
    BY <2>1, <2>2, <2>3 DEF AreValues
  <2> HIDE DEF S
  <2>5. \A x \in S : x <= Max(S)
    BY <1>2, <2>4, GreatestValue
  <2> QED BY <2>5 DEF S
<1>11. ASSUME NEW k \in P PROVE decode_end_time(p[k]) <= Max(EndTimes(items))
  <2>1. PICK i : i = NumberIn(P, k)
    OBVIOUS
  <2>2. i \in DOMAIN items /\ p[k].staged = items[i]
    BY <1>2, <1>5, <2>1
  <2>3. decode_end_time(p[k]) = items[i].decode_time + items[i].duration
    BY <2>2 DEF decode_end_time
  <2>4. decode_end_time(p[k]) \in EndTimes(items)
    BY <2>2, <2>3 DEF EndTimes
  <2> QED BY <1>10, <2>4
<1>12. /\ StreamDescription(t).kind = "stream" /\ StreamDescription(t).track_id = t
       /\ StreamDescription(t).item_count = n
       /\ StreamDescription(t).first_output_offset = p[Min(P)].output_offset
       /\ StreamDescription(t).end_output_offset = output_end_offset(p[Max(P)])
       /\ StreamDescription(t).end_decode_time = Max(EndTimes(items))
  BY <1>6
<1>13. n = Len(items_by_track[t]) /\ P = PlacesIn(planned_items, t) /\ p = planned_items
  BY DEF n, items, P, p
<1> QED BY <1>9, <1>11, <1>12, <1>13 DEF Announces

(* The descriptions of the streams are the events of no items.             *)
LEMMA StreamsDescribed ==
  ASSUME IsPlanned(planned_items, total_payload_size, items_by_track),
         Cover(items_by_track, coordination),
         \A t \in TrackIds :
           Cardinality(PlacesIn(planned_items, t)) = Len(items_by_track[t]),
         NEW order \in Ascending(Tracks), NEW q,
         q = [i \in DOMAIN order |-> StreamDescription(order[i])], NEW kinds
  PROVE  IsGraph(q, 0, planned_items, items_by_track, coordination, kinds)
<1> DEFINE p == planned_items
           c == Cardinality(Tracks)
<1>1. p \in Seq(PlannedItem) /\ Len(p) \in Nat /\ DOMAIN p = 1..Len(p)
  BY DEF IsPlanned
<1>2. ASSUME NEW t \in Tracks
      PROVE  /\ t \in TrackIds /\ items_by_track[t] \in Seq(StagedItem)
             /\ items_by_track[t] # << >>
             /\ Cardinality(PlacesIn(p, t)) = Len(items_by_track[t])
  BY DEF Tracks, Cover
<1>3. c \in Nat
  <2> DEFINE T == { p[i].staged.track_id : i \in 1..Len(p) }
  <2>1. IsFiniteSet(T)
    <3> DEFINE g == [i \in 1..Len(p) |-> p[i].staged.track_id]
    <3>1. IsFiniteSet(1..Len(p))
      BY <1>1, FS_Interval
    <3>2. g \in Surjection(1..Len(p), T)
      BY DEF Surjection
    <3> HIDE DEF g, T
    <3> QED BY <3>1, <3>2, FS_Surjection
  <2>2. ASSUME NEW t \in Tracks PROVE t \in T
    <3>1. Len(items_by_track[t]) # 0
      BY <1>2
    <3>2. PlacesIn(p, t) # {}
      BY <1>2, <3>1, FS_EmptySet
    <3>3. PICK i \in DOMAIN p : p[i].staged.track_id = t
      BY <3>2 DEF PlacesIn
    <3> QED BY <1>1, <3>3
  <2> HIDE DEF T
  <2>3. IsFiniteSet(Tracks)
    BY <2>1, <2>2, FS_Subset
  <2> QED BY <2>3, FS_CardinalityType
<1>4. /\ DOMAIN order = 1..c /\ \A i \in 1..c : order[i] \in Tracks
      /\ \A t \in Tracks : \E i \in 1..c : order[i] = t
  BY DEF Ascending
<1>5. DOMAIN q = 1..c /\ \A i \in 1..c : q[i] = StreamDescription(order[i])
  BY <1>4
<1> HIDE DEF c
<1>6. IsList(q)
  <2> DEFINE S == { StreamDescription(t) : t \in Tracks }
  <2>1. q \in [1..c -> S]
    BY <1>4, <1>5
  <2> HIDE DEF S
  <2>2. q \in Seq(S)
    BY <1>3, <2>1
  <2> QED BY <2>2 DEF IsList
<1>7. ASSUME NEW i \in DOMAIN q
      PROVE  /\ q[i].kind = "stream" /\ q[i].track_id = order[i]
             /\ Announces(q[i], items_by_track, p)
  <2>1. i \in 1..c /\ order[i] \in Tracks /\ q[i] = StreamDescription(order[i])
    BY <1>4, <1>5
  <2>2. PICK t \in Tracks : t = order[i]
    BY <2>1
  <2>3. /\ Announces(StreamDescription(t), items_by_track, p)
        /\ StreamDescription(t).kind = "stream" /\ StreamDescription(t).track_id = t
    BY <1>2, StreamAnnounces
  <2> QED BY <2>1, <2>2, <2>3
<1>8. SamplesAre(q, 0, p)
  <2>1. SamplesIn(q) = {}
    BY <1>7 DEF SamplesIn
  <2>2. ASSUME NEW t \in TrackIds
        PROVE  Cardinality(SamplesOf(q, t)) = NumberIn(PlacesIn(p, t), 0)
    <3>1. SamplesOf(q, t) = {}
      BY <2>1 DEF SamplesOf
    <3>2. PlacesIn(p, t) \subseteq 1..Len(p)
      BY <1>1 DEF PlacesIn
    <3>3. NumberIn(PlacesIn(p, t), 0) = 0
      BY <1>1, <3>2, NumberStep
    <3> QED BY <3>1, <3>3, FS_EmptySet
  <2>3. Cardinality(SamplesIn(q)) = 0
    BY <2>1, FS_EmptySet
  <2> QED BY <2>1, <2>2, <2>3 DEF SamplesAre
<1>9. MarksAre(q, 0, p, coordination, kinds) /\ OneDrain(q)
  BY <1>7 DEF MarksAre, MarkKinds, BoundaryKinds, OneDrain
<1>10. MarksCome(q, 0, p, coordination, kinds)
  BY DEF MarksCome
<1>11. IsDescribed(q, items_by_track, p)
  <2>1. ASSUME NEW t \in TrackIds, items_by_track[t] # << >>
        PROVE  \E i \in DOMAIN q : q[i].kind = "stream" /\ q[i].track_id = t
    <3>1. t \in Tracks
      BY <2>1 DEF Tracks
    <3>2. PICK i \in 1..c : order[i] = t
      BY <1>4, <3>1
    <3> QED BY <1>5, <1>7, <3>2
  <2> QED BY <1>7, <2>1 DEF IsDescribed
<1> QED BY <1>6, <1>8, <1>9, <1>10, <1>11 DEF IsGraph
-----------------------------------------------------------------------------
(* The end of the events leaves those of the items as they are.            *)
LEMMA EndComes ==
  ASSUME NEW s, NEW x, NEW q, IsLonger(s, x, q), x.kind = "end",
         NEW n, NEW p, NEW items, NEW coord, NEW kinds, IsGraph(s, n, p, items, coord, kinds)
  PROVE  IsGraph(q, n, p, items, coord, kinds)
<1>1. /\ IsList(s) /\ SamplesAre(s, n, p) /\ MarksAre(s, n, p, coord, kinds)
      /\ MarksCome(s, n, p, coord, kinds) /\ OneDrain(s) /\ IsDescribed(s, items, p)
  BY DEF IsGraph
<1>2. IsList(q) /\ x.kind # "stream" /\ x.kind # "drain" /\ x.kind # "sample"
  BY DEF IsLonger
<1>3. SamplesAre(q, n, p)
  BY <1>1, <1>2, OtherComes
<1>4. OneDrain(q) /\ IsDescribed(q, items, p)
  <2>1. x.kind = "drain" => NoDrain(s, x.track_id)
    BY <1>2
  <2>2. /\ OneDrain(s) => OneDrain(q)
        /\ \A i, k : IsDescribed(s, i, k) => IsDescribed(q, i, k)
    BY <1>2, <2>1, OthersKeep
  <2> QED BY <1>1, <2>2
<1>5. Continues(q, s)
  BY SamplesGrow
<1>6. MarksCome(q, n, p, coord, kinds)
  BY <1>1, <1>5, MarksStay
<1>7. MarksAre(q, n, p, coord, kinds)
  <2> SUFFICES ASSUME NEW i \in DOMAIN q, q[i].kind \in MarkKinds
               PROVE  \E k \in 1..n :
                        IsMark(q[i], Before(q, q[i].track_id, i), k, p, coord, kinds)
    BY DEF MarksAre
  <2>1. x.kind \notin MarkKinds
    BY DEF MarkKinds, BoundaryKinds
  <2>2. i \in DOMAIN s
    BY <2>1 DEF IsLonger
  <2>3. q[i] = s[i] /\ \A u : Before(q, u, i) = Before(s, u, i)
    BY <1>5, <2>2 DEF Continues
  <2>4. \E k \in 1..n : IsMark(s[i], Before(s, s[i].track_id, i), k, p, coord, kinds)
    BY <1>1, <2>2, <2>3 DEF MarksAre
  <2> QED BY <2>3, <2>4
<1> QED BY <1>2, <1>3, <1>4, <1>6, <1>7 DEF IsGraph

(* The greatest of the end times, which the end bears.                     *)
LEMMA EndIsLatest ==
  ASSUME NEW p \in Seq(PlannedItem), NEW i \in DOMAIN p
  PROVE  decode_end_time(p[i])
           <= Max({ decode_end_time(p[k]) : k \in DOMAIN p } \cup {0})
<1> DEFINE n == Len(p)
           f == [k \in 1..n |-> decode_end_time(p[k])]
           S == { decode_end_time(p[k]) : k \in DOMAIN p } \cup {0}
<1>1. n \in Nat /\ DOMAIN p = 1..n
  OBVIOUS
<1>2. ASSUME NEW k \in 1..n PROVE f[k] \in Nat /\ f[k] = decode_end_time(p[k])
  <2>1. p[k] \in PlannedItem /\ f[k] = decode_end_time(p[k])
    BY <1>1
  <2>2. p[k].staged.decode_time \in Nat /\ p[k].staged.duration \in Nat
    BY <2>1 DEF PlannedItem, StagedItem
  <2> HIDE DEF f
  <2>3. f[k] = p[k].staged.decode_time + p[k].staged.duration
    BY <2>1 DEF decode_end_time
  <2> QED BY <2>1, <2>2, <2>3
<1>3. \A x \in S : x = 0 \/ \E k \in 1..n : x = f[k]
  <2> SUFFICES ASSUME NEW x \in S, x # 0 PROVE \E k \in 1..n : x = f[k]
    OBVIOUS
  <2>1. PICK k \in DOMAIN p : x = decode_end_time(p[k])
    OBVIOUS
  <2>2. k \in 1..n
    BY <1>1
  <2> QED BY <1>2, <2>1, <2>2
<1>4. S # {} /\ decode_end_time(p[i]) \in S
  OBVIOUS
<1>5. AreValues(S, n, f)
  BY <1>2, <1>3, <1>4 DEF AreValues
<1> HIDE DEF n, f, S
<1>6. \A x \in S : x <= Max(S)
  BY <1>1, <1>5, GreatestValue
<1>7. decode_end_time(p[i]) <= Max(S)
  BY <1>4, <1>6
<1> QED BY <1>7 DEF S

(* The events so far are those of some of the planned items; once the plan *)
(* is done they are those of all, behind which stands the end.             *)
GraphInv ==
  /\ boundary_kinds \in [TrackIds -> BoundaryKinds \cup {None}]
  /\ plan_stage = "graphing" =>
       \E n \in 0..Len(planned_items) :
         IsGraph(events, n, planned_items, items_by_track, coordination, boundary_kinds)
  /\ plan_stage = "planned" =>
       /\ IsGraph(events, Len(planned_items), planned_items, items_by_track, coordination,
                  boundary_kinds)
       /\ Last(events).kind = "end"
       /\ \A i \in DOMAIN planned_items :
            decode_end_time(planned_items[i]) <= Last(events).decode_time

(* The descriptions of the streams begin the events.                       *)
LEMMA DescribeStreamsGraphs ==
  ASSUME PlanInv, GraphInv, DescribeStreams PROVE GraphInv'
<1>1. /\ plan_stage = "laying_out" /\ chunks = << >> /\ plan_stage' = "graphing"
      /\ planned_items' = planned_items /\ items_by_track' = items_by_track
      /\ coordination' = coordination /\ boundary_kinds' = boundary_kinds
  BY DEF DescribeStreams, filedVars, directedVars, laidVars
<1>2. PICK order \in Ascending(Tracks) :
        events' = [i \in DOMAIN order |-> StreamDescription(order[i])]
  BY DEF DescribeStreams
<1>3. /\ Cover(items_by_track, coordination)
      /\ IsPlanned(planned_items, total_payload_size, items_by_track)
      /\ IsRest(chunks, items_by_track, coordination, planned_items)
  BY <1>1 DEF PlanInv, LayoutInv
<1>4. \A t \in TrackIds : Cardinality(PlacesIn(planned_items, t)) = Len(items_by_track[t])
  <2>1. \A t : RestOf(chunks, t) = {}
    BY <1>1 DEF RestOf
  <2> QED BY <1>3, <2>1 DEF IsRest
<1>5. PICK q : q = events'
  OBVIOUS
<1>6. IsGraph(q, 0, planned_items, items_by_track, coordination, boundary_kinds)
  BY <1>2, <1>3, <1>4, <1>5, StreamsDescribed
<1>7. 0 \in 0..Len(planned_items)
  BY <1>3 DEF IsPlanned
<1> QED BY <1>1, <1>5, <1>6, <1>7 DEF GraphInv

(* Each item's events join those of the items before it.                   *)
LEMMA GraphItemGraphs ==
  ASSUME PlanInv, GraphInv, GraphItem PROVE GraphInv'
<1>1. /\ plan_stage = "graphing" /\ plan_stage' = "graphing"
      /\ planned_items' = planned_items /\ items_by_track' = items_by_track
      /\ coordination' = coordination /\ boundary_kinds' = boundary_kinds
  BY DEF GraphItem, filedVars, directedVars, laidVars
<1>2. PICK n \in 0..Len(planned_items) :
        IsGraph(events, n, planned_items, items_by_track, coordination, boundary_kinds)
  BY <1>1 DEF GraphInv
<1>3. planned_items \in Seq(PlannedItem)
  BY <1>1, PlanIsLaid DEF IsPlanned
<1>4. /\ Cardinality(SamplesIn(events)) = n /\ n \in Nat /\ n < Len(planned_items)
      /\ events' = events \o EventsOf(n + 1)
  BY <1>2 DEF IsGraph, SamplesAre, GraphItem
<1> DEFINE planned == planned_items[n + 1]
           t == planned.staged.track_id
           number == Cardinality(SamplesOf(events, t)) + 1
           x == [kind |-> "sample", track_id |-> t, sample_index |-> number - 1,
                 planned_item |-> planned]
           B == IF boundary_kinds[t] # None /\ ChunkEndsAt(coordination, t, number)
                  THEN << Boundary(boundary_kinds[t], t, planned) >> ELSE << >>
           D == IF n + 1 = Max(PlacesIn(planned_items, t))
                  THEN << Boundary("drain", t, planned) >> ELSE << >>
<1>5. EventsOf(n + 1) = << x >> \o B \o D
  BY DEF EventsOf, EndsChunk, ChunkEndsAt, PlannedOf, PlacesIn
<1>6. x.kind = "sample" /\ x.track_id = t /\ x.planned_item = planned
  OBVIOUS
<1> HIDE DEF x
<1>7. boundary_kinds \in [TrackIds -> BoundaryKinds \cup {None}]
  BY DEF GraphInv
<1>8. IsGraph(events \o (<< x >> \o B \o D), n + 1, planned_items, items_by_track,
              coordination, boundary_kinds)
  BY <1>2, <1>3, <1>4, <1>6, <1>7, GraphOne
<1>9. n + 1 \in 0..Len(planned_items)
  BY <1>3, <1>4
<1>10. IsGraph(events', n + 1, planned_items', items_by_track', coordination', boundary_kinds')
  BY <1>1, <1>4, <1>5, <1>8
<1> QED BY <1>1, <1>7, <1>9, <1>10 DEF GraphInv

(* The end comes behind the events of all items.                           *)
LEMMA EndPlanGraphs ==
  ASSUME PlanInv, GraphInv, EndPlan PROVE GraphInv'
<1>1. /\ plan_stage = "graphing" /\ plan_stage' = "planned"
      /\ planned_items' = planned_items /\ items_by_track' = items_by_track
      /\ coordination' = coordination /\ boundary_kinds' = boundary_kinds
  BY DEF EndPlan, filedVars, directedVars, laidVars
<1>2. PICK n \in 0..Len(planned_items) :
        IsGraph(events, n, planned_items, items_by_track, coordination, boundary_kinds)
  BY <1>1 DEF GraphInv
<1>3. planned_items \in Seq(PlannedItem)
  BY <1>1, PlanIsLaid DEF IsPlanned
<1>4. n = Len(planned_items) /\ IsList(events)
  BY <1>2 DEF IsGraph, SamplesAre, EndPlan
<1> DEFINE ends == { decode_end_time(planned_items[i]) : i \in DOMAIN planned_items }
           x == [ kind |-> "end", track_id |-> None, output_offset |-> total_payload_size,
                  decode_time |-> Max(ends \cup {0}) ]
<1>5. /\ events' = Append(events, x) /\ x.kind = "end" /\ x.decode_time = Max(ends \cup {0})
  BY DEF EndPlan
<1>6. \A i \in DOMAIN planned_items : decode_end_time(planned_items[i]) <= Max(ends \cup {0})
  BY <1>3, EndIsLatest
<1> HIDE DEF ends, x
<1>7. PICK q : q = Append(events, x)
  OBVIOUS
<1>8. IsLonger(events, x, q)
  BY <1>4, <1>7, AppendIsLonger
<1>9. IsGraph(q, n, planned_items, items_by_track, coordination, boundary_kinds)
  BY <1>2, <1>5, <1>8, EndComes
<1>10. Last(q) = x
  BY <1>8 DEF IsLonger, Last
<1>11. /\ Last(events').kind = "end"
       /\ \A i \in DOMAIN planned_items :
            decode_end_time(planned_items[i]) <= Last(events').decode_time
  BY <1>5, <1>6, <1>7, <1>10
<1>12. IsGraph(events', Len(planned_items'), planned_items', items_by_track', coordination',
               boundary_kinds')
  BY <1>1, <1>4, <1>5, <1>7, <1>9
<1>13. boundary_kinds' \in [TrackIds -> BoundaryKinds \cup {None}]
  BY <1>1 DEF GraphInv
<1> QED BY <1>1, <1>11, <1>12, <1>13 DEF GraphInv

(* It holds before anything is imported or asked for.                      *)
LEMMA GraphInvInit == Init => GraphInv
BY DEF Init, PlanInit, GraphInv

(* Every step of the importer and the planner keeps the events' invariant. *)
LEMMA GraphInvStep == PlanInv /\ GraphInv /\ [Next]_vars => GraphInv'
<1> SUFFICES ASSUME PlanInv, GraphInv, [Next]_vars PROVE GraphInv'
  OBVIOUS
<1>1. CASE DescribeStreams \/ GraphItem \/ EndPlan
  BY <1>1, DescribeStreamsGraphs, GraphItemGraphs, EndPlanGraphs
<1>2. CASE ApplyDirective
  <2>1. /\ directives # << >> /\ plan_stage' = "coordinating"
        /\ boundary_kinds' = [boundary_kinds EXCEPT ![Head(directives).track_id]
                                = Head(directives).boundary_kind]
    BY <1>2 DEF ApplyDirective
  <2>2. Head(directives) \in Directive
    BY <2>1 DEF PlanInv, FiledInv
  <2>3. Head(directives).boundary_kind \in BoundaryKinds \cup {None}
    BY <2>2 DEF Directive
  <2>4. boundary_kinds \in [TrackIds -> BoundaryKinds \cup {None}]
    BY DEF GraphInv
  <2>5. boundary_kinds' \in [TrackIds -> BoundaryKinds \cup {None}]
    BY <2>1, <2>3, <2>4
  <2> QED BY <2>1, <2>5 DEF GraphInv
<1>3. CASE \/ FileItem \/ DefaultCoordination \/ RefuseDirective \/ BeginCutting
           \/ CutChunk \/ SortChunks \/ LayOutItem \/ HandOver \/ AskPlanner
  <2>1. boundary_kinds' = boundary_kinds /\ plan_stage' \notin {"graphing", "planned"}
    BY <1>3 DEF FileItem, DefaultCoordination, RefuseDirective, RefusePlan, BeginCutting,
       CutChunk, SortChunks, LayOutItem, HandOver, AskPlanner, BeginPlan, directedVars
  <2> QED BY <2>1 DEF GraphInv
<1>4. CASE UNCHANGED planVars
  <2>1. /\ boundary_kinds' = boundary_kinds /\ plan_stage' = plan_stage
        /\ planned_items' = planned_items /\ items_by_track' = items_by_track
        /\ coordination' = coordination /\ events' = events
    BY <1>4 DEF planVars
  <2> QED BY <2>1 DEF GraphInv
<1>5. CASE \/ RefuseSecondVideo \/ BeginTracks \/ AlignToVideo \/ KeepAlignment
           \/ RefuseTimes \/ RefuseKeptCounts \/ BeginTrack
           \/ StageUncut \/ StageKept \/ StageCut
           \/ (CutStep /\ UNCHANGED << prepareVars, planVars >>) \/ UNCHANGED vars
  <2>1. UNCHANGED planVars
    BY <1>5 DEF RefuseSecondVideo, RefuseRequest, BeginTracks, AlignToVideo, KeepAlignment,
       RefuseTimes, RefuseKeptCounts, BeginTrack, StageUncut, StageKept, StageCut,
       StageSamples, vars
  <2> QED BY <1>4, <2>1
<1> QED BY <1>1, <1>2, <1>3, <1>5 DEF Next, PlanStep

(* What the invariants say of the marks of a track once the plan is done.  *)
LEMMA MarksAreChunks ==
  ASSUME PlanInv, GraphInv, plan_stage = "planned", NEW t \in Tracks
  PROVE  /\ \A i \in Numbered(t, MarkKinds) : \E k \in PlacesIn(planned_items, t) :
              IsMark(events[i], Cardinality(SamplesBefore(t, i)), k, planned_items,
                     coordination, boundary_kinds)
         /\ boundary_kinds[t] # None =>
              \A j \in DOMAIN coordination[t] : \E i \in Numbered(t, BoundaryKinds) :
                Cardinality(SamplesBefore(t, i)) = CountBefore(coordination[t], j)
         /\ Cardinality(Numbered(t, {"drain"})) = 1
         /\ \A k : IsLast(k, PlacesIn(planned_items, t)) =>
              NumberIn(PlacesIn(planned_items, t), k) = Len(items_by_track[t])
         /\ Announces(events[Min(Numbered(t, {"stream"}))], items_by_track, planned_items)
         /\ events[Min(Numbered(t, {"stream"}))].track_id = t
<1> DEFINE p == planned_items
           P == PlacesIn(p, t)
           n == Len(p)
           kinds == boundary_kinds
           coord == coordination
<1>1. /\ SamplesAre(events, n, p) /\ MarksAre(events, n, p, coord, kinds)
      /\ MarksCome(events, n, p, coord, kinds) /\ OneDrain(events) /\ IsList(events)
      /\ IsDescribed(events, items_by_track, p)
  BY DEF GraphInv, IsGraph
<1>2. /\ p \in Seq(PlannedItem) /\ n \in Nat /\ DOMAIN p = 1..n /\ P \subseteq 1..n
      /\ Cover(items_by_track, coord) /\ t \in TrackIds /\ items_by_track[t] # << >>
      /\ Cardinality(P) = Len(items_by_track[t])
      /\ \A k \in 1..n : p[k].staged.track_id = t <=> k \in P
  <2>1. /\ p \in Seq(PlannedItem) /\ Cover(items_by_track, coord)
        /\ t \in TrackIds /\ items_by_track[t] # << >>
    BY PlanIsLaid DEF IsPlanned, Tracks
  <2>2. Cardinality(P) = Len(items_by_track[t])
    BY <2>1, PlanIsLaid
  <2>3. n \in Nat /\ DOMAIN p = 1..n
    BY <2>1
  <2> QED BY <2>1, <2>2, <2>3 DEF PlacesIn
<1>3. kinds[t] \in BoundaryKinds \cup {None}
  BY <1>2 DEF GraphInv
<1>4. \A i : Before(events, t, i) = Cardinality(SamplesBefore(t, i))
  BY DEF Before, SamplesBefore
<1>5. PICK len \in Nat : DOMAIN events = 1..len
  <2>1. PICK S : events \in Seq(S)
    BY <1>1 DEF IsList
  <2>2. Len(events) \in Nat /\ DOMAIN events = 1..Len(events)
    BY <2>1
  <2> QED BY <2>2
<1> HIDE DEF p, P, n, kinds, coord
<1>6. ASSUME NEW i \in Numbered(t, MarkKinds)
      PROVE  \E k \in P : IsMark(events[i], Cardinality(SamplesBefore(t, i)), k, p, coord, kinds)
  <2>1. i \in DOMAIN events /\ events[i].kind \in MarkKinds /\ events[i].track_id = t
    BY DEF Numbered
  <2>2. PICK k \in 1..n : IsMark(events[i], Before(events, t, i), k, p, coord, kinds)
    BY <1>1, <2>1 DEF MarksAre
  <2>3. k \in P
    BY <1>2, <2>1, <2>2 DEF IsMark
  <2> QED BY <1>4, <2>2, <2>3
<1>7. ASSUME NEW k \in P
      PROVE  /\ kinds[t] # None /\ ChunkEndsAt(coord, t, NumberIn(P, k))
                  => Stands(events, kinds[t], t, NumberIn(P, k))
             /\ IsLast(k, P) => Stands(events, "drain", t, NumberIn(P, k))
  <2>1. k \in 1..n /\ p[k].staged.track_id = t
    BY <1>2
  <2>2. MarkCalled(events, k, p, coord, kinds)
    BY <1>1, <2>1 DEF MarksCome
  <2> QED BY <2>1, <2>2 DEF MarkCalled, P
<1>8. ASSUME kinds[t] # None, NEW j \in DOMAIN coord[t]
      PROVE  \E i \in Numbered(t, BoundaryKinds) :
               Cardinality(SamplesBefore(t, i)) = CountBefore(coord[t], j)
  <2>1. PICK c : c = CountBefore(coord[t], j)
    OBVIOUS
  <2>2. c \in 1..Cardinality(P)
    <3>0. /\ Len(coord[t]) \in Nat /\ DOMAIN coord[t] = 1..Len(coord[t])
          /\ Len(items_by_track[t]) \in Nat
          /\ \A i \in 1..Len(coord[t]) : coord[t][i] \in Nat \ {0}
          /\ \A i \in 0..Len(coord[t]) : CountBefore(coord[t], i) \in 0..Len(items_by_track[t])
          /\ \A i \in 1..Len(coord[t]) :
               CountBefore(coord[t], i) = CountBefore(coord[t], i - 1) + coord[t][i]
      BY <1>2, CoverEnds
    <3>1. j \in 1..Len(coord[t]) /\ Len(coord[t]) \in Nat /\ Len(items_by_track[t]) \in Nat
      BY <1>8, <3>0
    <3>2. j - 1 \in 0..Len(coord[t]) /\ j \in 0..Len(coord[t])
      BY <3>1
    <3>3. PICK d : d = CountBefore(coord[t], j - 1)
      OBVIOUS
    <3>4. d \in Nat /\ c \in 0..Len(items_by_track[t])
      BY <2>1, <3>0, <3>2, <3>3
    <3>5. c = d + coord[t][j] /\ coord[t][j] \in Nat \ {0}
      BY <2>1, <3>0, <3>1, <3>3
    <3> QED BY <1>2, <3>1, <3>4, <3>5
  <2>3. PICK k \in P : NumberIn(P, k) = c
    BY <1>2, <2>2, NumbersAreBorne
  <2>4. ChunkEndsAt(coord, t, c)
    BY <1>8, <2>1 DEF ChunkEndsAt
  <2>5. Stands(events, kinds[t], t, c)
    BY <1>7, <1>8, <2>3, <2>4
  <2>6. PICK i \in DOMAIN events : /\ events[i].kind = kinds[t] /\ events[i].track_id = t
                                   /\ Before(events, t, i) = c
    BY <2>5 DEF Stands
  <2>7. i \in Numbered(t, BoundaryKinds)
    BY <1>3, <1>8, <2>6 DEF Numbered
  <2> QED BY <1>4, <2>1, <2>6, <2>7
<1>9. ASSUME NEW k, IsLast(k, P) PROVE NumberIn(P, k) = Cardinality(P)
  <2>1. {m \in P : m <= k} = P
    BY <1>9 DEF IsLast
  <2> QED BY <2>1 DEF NumberIn
<1>10. Cardinality(Numbered(t, {"drain"})) = 1
  <2>1. P \subseteq 0..n /\ P # {}
    <3>1. Cardinality(P) # 0
      <4>1. items_by_track[t] \in Seq(StagedItem)
        BY <1>2 DEF Cover
      <4> QED BY <1>2, <4>1
    <3>2. P # {}
      BY <3>1, FS_EmptySet
    <3> QED BY <1>2, <3>2
  <2>2. IsLast(Max(P), P) /\ Max(P) \in P
    BY <1>2, <2>1, EndsOfPlaces DEF IsLast
  <2>3. Stands(events, "drain", t, NumberIn(P, Max(P)))
    BY <1>7, <2>2
  <2>4. PICK i \in DOMAIN events : events[i].kind = "drain" /\ events[i].track_id = t
    BY <2>3 DEF Stands
  <2>5. Numbered(t, {"drain"}) = {i}
    BY <1>1, <2>4 DEF Numbered, OneDrain
  <2> QED BY <2>5, FS_Singleton
<1>11. /\ Announces(events[Min(Numbered(t, {"stream"}))], items_by_track, p)
       /\ events[Min(Numbered(t, {"stream"}))].track_id = t
  <2> DEFINE S == Numbered(t, {"stream"})
  <2>1. S \subseteq 0..len
    BY <1>5 DEF Numbered
  <2>2. S # {}
    BY <1>1, <1>2 DEF IsDescribed, Numbered
  <2>3. \A i \in S : i \in DOMAIN events /\ events[i].kind = "stream" /\ events[i].track_id = t
    BY DEF Numbered
  <2> HIDE DEF S
  <2>4. Min(S) \in S
    BY <2>1, <2>2, EndsOfPlaces
  <2>5. Announces(events[Min(S)], items_by_track, p) /\ events[Min(S)].track_id = t
    BY <1>1, <2>3, <2>4 DEF IsDescribed
  <2> QED BY <2>5 DEF S
<1> QED BY <1>2, <1>6, <1>8, <1>9, <1>10, <1>11 DEF p, P, kinds, coord

(* For every plan, what a reader of the events relies on: the samples are  *)
(* the plan in its order, each track's boundaries part it into its chunks, *)
(* and its one drain comes behind its last sample.                         *)
THEOREM EventsAlwaysFollowPlan == Spec => []EventsFollowPlan
<1>1. Init => CountingInv /\ PlanInv /\ GraphInv
  BY CountingInit, PlanInvInit, GraphInvInit
<1>2. (CountingInv /\ PlanInv /\ GraphInv) /\ [Next]_vars
        => (CountingInv /\ PlanInv /\ GraphInv)'
  BY CountingStep, PlanInvStep, GraphInvStep
<1>3. ASSUME PlanInv, GraphInv PROVE EventsFollowPlan
  <2>1. SUFFICES ASSUME plan_stage = "planned" PROVE EventsFollowPlan
    BY DEF EventsFollowPlan
  <2>2. /\ SamplesAre(events, Len(planned_items), planned_items)
        /\ MarksAre(events, Len(planned_items), planned_items, coordination, boundary_kinds)
        /\ Last(events).kind = "end"
        /\ \A i \in DOMAIN planned_items :
             decode_end_time(planned_items[i]) <= Last(events).decode_time
    BY <1>3, <2>1 DEF GraphInv, IsGraph
  <2>3. \A i \in DOMAIN events :
          events[i].kind = "drain" => events[i].decode_time <= Last(events).decode_time
    <3> SUFFICES ASSUME NEW i \in DOMAIN events, events[i].kind = "drain"
                 PROVE  events[i].decode_time <= Last(events).decode_time
      OBVIOUS
    <3>1. events[i].kind \in MarkKinds
      BY DEF MarkKinds
    <3>2. PICK k \in 1..Len(planned_items) :
            IsMark(events[i], Before(events, events[i].track_id, i), k, planned_items,
                   coordination, boundary_kinds)
      BY <2>2, <3>1 DEF MarksAre
    <3>3. k \in DOMAIN planned_items
      BY <1>3, <2>1, PlanIsLaid DEF IsPlanned
    <3> QED BY <2>2, <3>2, <3>3 DEF IsMark
  <2>4. ASSUME NEW t \in Tracks
        PROVE  LET marks == Numbered(t, BoundaryKinds)
                   drains == Numbered(t, {"drain"})
                   stream == events[Min(Numbered(t, {"stream"}))]
               IN  /\ boundary_kinds[t] # None =>
                        { Cardinality(SamplesBefore(t, i)) : i \in marks }
                          = { CountBefore(coordination[t], j) : j \in DOMAIN coordination[t] }
                   /\ boundary_kinds[t] = None => marks = {}
                   /\ Cardinality(drains) = 1
                   /\ \A i \in drains : Cardinality(SamplesBefore(t, i)) = stream.item_count
                   /\ \A i \in Numbered(t, BoundaryKinds \cup {"drain"}) :
                        /\ events[i].output_offset >= stream.first_output_offset
                        /\ events[i].output_offset <= stream.end_output_offset
                        /\ events[i].decode_time <= stream.end_decode_time
    <3> DEFINE P == PlacesIn(planned_items, t)
               stream == events[Min(Numbered(t, {"stream"}))]
    <3>1. /\ \A i \in Numbered(t, MarkKinds) : \E k \in P :
               IsMark(events[i], Cardinality(SamplesBefore(t, i)), k, planned_items,
                      coordination, boundary_kinds)
          /\ boundary_kinds[t] # None =>
               \A j \in DOMAIN coordination[t] : \E i \in Numbered(t, BoundaryKinds) :
                 Cardinality(SamplesBefore(t, i)) = CountBefore(coordination[t], j)
          /\ Cardinality(Numbered(t, {"drain"})) = 1
          /\ \A k : IsLast(k, P) => NumberIn(P, k) = Len(items_by_track[t])
          /\ Announces(stream, items_by_track, planned_items)
          /\ stream.track_id = t
      BY <1>3, <2>1, MarksAreChunks
    <3>2. \A k \in P : planned_items[k].staged.track_id = t
      BY DEF PlacesIn
    <3>3. /\ \A i \in Numbered(t, BoundaryKinds) :
               i \in Numbered(t, MarkKinds) /\ events[i].kind # "drain"
          /\ \A i \in Numbered(t, {"drain"}) :
               i \in Numbered(t, MarkKinds) /\ events[i].kind = "drain"
          /\ Numbered(t, BoundaryKinds \cup {"drain"}) = Numbered(t, MarkKinds)
      BY DEF Numbered, MarkKinds, BoundaryKinds
    <3>4. /\ stream.item_count = Len(items_by_track[t])
          /\ \A k \in P : /\ stream.first_output_offset <= output_end_offset(planned_items[k])
                          /\ output_end_offset(planned_items[k]) <= stream.end_output_offset
                          /\ decode_end_time(planned_items[k]) <= stream.end_decode_time
      BY <3>1 DEF Announces
    <3> HIDE DEF P, stream
    <3>5. ASSUME NEW i \in Numbered(t, BoundaryKinds)
          PROVE  /\ boundary_kinds[t] # None
                 /\ \E j \in DOMAIN coordination[t] :
                      Cardinality(SamplesBefore(t, i)) = CountBefore(coordination[t], j)
      <4>1. PICK k \in P : IsMark(events[i], Cardinality(SamplesBefore(t, i)), k, planned_items,
                                  coordination, boundary_kinds)
        BY <3>1, <3>3
      <4>2. boundary_kinds[t] # None
            /\ ChunkEndsAt(coordination, t, Cardinality(SamplesBefore(t, i)))
        BY <3>2, <3>3, <4>1 DEF IsMark
      <4> QED BY <4>2 DEF ChunkEndsAt
    <3>6. ASSUME NEW i \in Numbered(t, {"drain"})
          PROVE  Cardinality(SamplesBefore(t, i)) = stream.item_count
      <4>1. PICK k \in P : IsMark(events[i], Cardinality(SamplesBefore(t, i)), k, planned_items,
                                  coordination, boundary_kinds)
        BY <3>1, <3>3
      <4>2. IsLast(k, P) /\ Cardinality(SamplesBefore(t, i)) = NumberIn(P, k)
        BY <3>2, <3>3, <4>1 DEF IsMark, P
      <4> QED BY <3>1, <3>4, <4>2
    <3>7. ASSUME NEW i \in Numbered(t, MarkKinds)
          PROVE  /\ events[i].output_offset >= stream.first_output_offset
                 /\ events[i].output_offset <= stream.end_output_offset
                 /\ events[i].decode_time <= stream.end_decode_time
      <4>1. PICK k \in P : IsMark(events[i], Cardinality(SamplesBefore(t, i)), k, planned_items,
                                  coordination, boundary_kinds)
        BY <3>1
      <4>2. /\ events[i].output_offset = output_end_offset(planned_items[k])
            /\ events[i].decode_time = decode_end_time(planned_items[k])
        BY <4>1 DEF IsMark
      <4> QED BY <3>4, <4>2
    <3>8. boundary_kinds[t] # None =>
            { Cardinality(SamplesBefore(t, i)) : i \in Numbered(t, BoundaryKinds) }
              = { CountBefore(coordination[t], j) : j \in DOMAIN coordination[t] }
      BY <3>1, <3>5
    <3>9. boundary_kinds[t] = None => Numbered(t, BoundaryKinds) = {}
      BY <3>5
    <3>10. \A i \in Numbered(t, BoundaryKinds \cup {"drain"}) :
             /\ events[i].output_offset >= stream.first_output_offset
             /\ events[i].output_offset <= stream.end_output_offset
             /\ events[i].decode_time <= stream.end_decode_time
      BY <3>3, <3>7
    <3> QED BY <3>1, <3>6, <3>8, <3>9, <3>10 DEF stream
  <2> QED BY <2>2, <2>3, <2>4 DEF EventsFollowPlan, SamplesAre
<1> QED BY <1>1, <1>2, <1>3, PTL DEF Spec
=============================================================================
