-------------------------- MODULE MovieStreamProofs --------------------------
(***************************************************************************)
(* That the rewrite of a movie without fragments writes tables that lead to*)
(* its samples, for every movie and every read or write that may fail.     *)
(***************************************************************************)
EXTENDS MovieStream, FiniteSetTheorems, SharedProofs

(* The pieces of the argument.  Once the chunks are collected, they are    *)
(* those of all tracks, in their order.                                    *)
ChunksInv ==
  /\ Len(chunks) \in Nat /\ DOMAIN chunks = 1..Len(chunks)
  /\ { chunks[p] : p \in DOMAIN chunks } = AllChunks
  /\ \A p \in DOMAIN chunks : chunks[p].number \in Nat \ {0}
  /\ \A p \in DOMAIN chunks : \A q \in 1..p - 1 : Precedes(chunks[q], chunks[p])
  /\ \A t \in Tracks : HasSamples(movie.tracks[t]) /\ IsMapped(movie.tracks[t])

Edit == [offset : Nat \ {0}, size : Nat, process : {"decrypt", "copy"}, clear_size : Nat]

EditSizes == [k \in DOMAIN sample_edits |-> sample_edits[k].clear_size]

ClearSizes(t) == [i \in DOMAIN movie.tracks[t].sizes |-> ClearSize(t, i)]

(* Edit k is that of sample i, in chunk c of track t.                      *)
IsEditOf(k, t, c, i) ==
  LET track == movie.tracks[t] IN
  /\ sample_edits[k] = [offset |-> track.offsets[c]
                                   + SizeBetween(track.sizes, SamplesBefore(track, c), i - 1),
                        size |-> track.sizes[i], process |-> Process(t),
                        clear_size |-> ClearSize(t, i)]
  /\ SumTo(EditSizes, k - 1)
       = relative_offsets[t][c] + SizeBetween(ClearSizes(t), SamplesBefore(track, c), i - 1)

(* Samples of a track that the chunk in hand still holds.                  *)
Pending(t) == IF todo # << >> /\ chunk.track = t THEN Len(todo) ELSE 0

(* How far the tables of a track whose offsets ascend have come.           *)
TrackInv(t) ==
  LET track == movie.tracks[t]
      n == Len(relative_offsets[t])
  IN  /\ n <= Len(track.offsets)
      /\ \A p \in DOMAIN chunks :
           chunks[p].track = t => (p <= opened <=> chunks[p].number <= n)
      /\ Len(rebuilt_sample_sizes[t]) = SamplesBefore(track, n + 1) - Pending(t)
      /\ \A i \in DOMAIN rebuilt_sample_sizes[t] : rebuilt_sample_sizes[t][i] = ClearSize(t, i)
      /\ \A c \in 1..n : \A i \in ChunkSamples(track, c) :
           i <= Len(rebuilt_sample_sizes[t]) => \E k \in DOMAIN sample_edits : IsEditOf(k, t, c, i)

(* Where in the chunk in hand the next sample lies, and where it will be.  *)
InHand ==
  todo # << >> =>
    LET t == chunk.track
        c == chunk.number
        track == movie.tracks[t]
    IN  /\ opened > 0
        /\ Len(todo) <= SampleCount(track, c)
        /\ \A n \in DOMAIN todo : todo[n] = track.sizes[sample_index + n - 1]
        /\ sample_offset = track.offsets[c]
                           + SizeBetween(track.sizes, SamplesBefore(track, c), sample_index - 1)
        /\ Ascends(t) =>
             /\ c = Len(relative_offsets[t])
             /\ payload_size = relative_offsets[t][c]
                  + SizeBetween(ClearSizes(t), SamplesBefore(track, c), sample_index - 1)

PlanTypes ==
  /\ opened \in 0..Len(chunks)
  /\ todo \in Seq(Nat) /\ sample_offset \in Nat /\ payload_size \in Nat
  /\ relative_offsets \in [Tracks -> Seq(Nat)]
  /\ rebuilt_sample_sizes \in [Tracks -> Seq(Nat)]
  /\ sample_edits \in Seq(Edit)
  /\ payload_size = SumTo(EditSizes, Len(sample_edits))

PlanInv ==
  /\ PlanTypes
  /\ InHand
  /\ \A t \in Tracks : Ascends(t) => TrackInv(t)

(* The tables, once they are built from a finished plan.                   *)
TablesInv ==
  /\ opened = Len(chunks) /\ todo = << >>
  /\ tables = [t \in Tracks |-> [sizes |-> NewSizes(t), offsets |-> NewOffsets(t)]]

OutputSizes == [k \in DOMAIN output |-> output[k].size]

Piece ==
  [ kind : {"replaced", "copied", "mdat", "decrypt", "copy"}, of : Nat, size : Int,
    bytes : Seq(Nat) ]

OutputTypes == output \in Seq(Piece)

HeadSizes ==
  [b \in DOMAIN movie.boxes |-> IF movie.boxes[b].type = "mdat" THEN 0 ELSE NewBoxSize(b)]

(* The boxes in front of the mdat, as far as they are out.                 *)
BoxesInv ==
  /\ queue = NewQueue(0)
  /\ written \in 0..Len(movie.boxes)
  /\ \A k \in DOMAIN output : output[k].kind \in {"replaced", "copied"}
  /\ SumTo(OutputSizes, Len(output)) = SumTo(HeadSizes, written)

(* The mdat and its samples, as far as they are out.                       *)
SamplesInv ==
  LET k == Len(output) - written IN
  /\ queue.held = << >> /\ queue.head \in Nat
  /\ queue.head = 0 \/ position = queue.head
  /\ written \in 0..Len(sample_edits) /\ k > 0
  /\ \A j \in 1..k - 1 : output[j].kind \in {"replaced", "copied"}
  /\ output[k].kind = "mdat" /\ output[k].size = EncodedSize(MdatHeader)
  /\ output[k].of = EncodedSize(MdatHeader) + payload_size
  /\ SumTo(OutputSizes, k) = MdatPayloadOffset
  /\ \A n \in 1..written : 
       LET done == sample_edits[n] IN
       /\ output[k + n].kind = done.process /\ output[k + n].size = done.clear_size
       /\ output[k + n].bytes = [j \in 1..done.size |-> done.offset + j - 1]

IInv ==
  /\ movie \in Movies
  /\ state \in {"tracks", "planning", "boxes", "samples", "done", "failed"}
  /\ state = "tracks" =>
       /\ opened = 0 /\ todo = << >> /\ sample_edits = << >> /\ payload_size = 0
       /\ sample_offset = 0
       /\ rebuilt_sample_sizes = [t \in Tracks |-> << >>]
       /\ relative_offsets = [t \in Tracks |-> << >>]
  /\ state \notin {"tracks", "failed"} => ChunksInv /\ PlanInv
  /\ state \in {"tracks", "planning"} => output = << >> /\ written = 0
  /\ state \in {"boxes", "samples", "done"} => TablesInv /\ OutputTypes
  /\ state = "boxes" => BoxesInv
  /\ state \in {"samples", "done"} => SamplesInv
  /\ state = "done" => written = Len(sample_edits)
-----------------------------------------------------------------------------
(* The sizes of places that follow each other add up.                      *)
LEMMA BetweenIs ==
  ASSUME NEW f, NEW n \in Nat, \A j \in 1..n : f[j] \in Nat, NEW a \in 0..n
  PROVE  /\ SizeBetween(f, a, a) = 0
         /\ \A b \in a..n : /\ SizeBetween(f, a, b) \in Nat
                            /\ b < n => SizeBetween(f, a, b + 1) = SizeBetween(f, a, b) + f[b + 1]
<1>1. ASSUME NEW m \in 0..n
      PROVE  /\ SumTo(f, m) \in Int
             /\ m > 0 => SumTo(f, m) = SumTo(f, m - 1) + f[m]
  <2>1. m \in Nat /\ \A j \in 1..m : f[j] \in Int
    OBVIOUS
  <2> QED BY <2>1, SumToIs
<1>2. ASSUME NEW b \in a..n PROVE SumTo(f, b) - SumTo(f, a) \in Nat
  <2>1. b \in Nat /\ a \in 0..b /\ \A j \in 1..b : f[j] \in Nat
    OBVIOUS
  <2>2. SumTo(f, a) \in 0..SumTo(f, b)
    BY <2>1, SumToNat
  <2>3. SumTo(f, a) \in Int /\ SumTo(f, b) \in Int
    BY <1>1
  <2> QED BY <2>2, <2>3
<1>3. ASSUME NEW b \in a..n, b < n
      PROVE  SizeBetween(f, a, b + 1) = SizeBetween(f, a, b) + f[b + 1]
  <2>1. b + 1 \in 0..n /\ (b + 1) - 1 = b /\ b + 1 > 0 /\ f[b + 1] \in Int
    BY <1>3
  <2>2. SumTo(f, b + 1) = SumTo(f, b) + f[b + 1]
    BY <1>1, <2>1
  <2>3. SumTo(f, b) \in Int /\ SumTo(f, a) \in Int
    BY <1>1
  <2> QED BY <2>1, <2>2, <2>3 DEF SizeBetween
<1>4. SumTo(f, a) \in Int
  BY <1>1
<1> QED BY <1>2, <1>3, <1>4 DEF SizeBetween
-----------------------------------------------------------------------------
(* The tables of a track.                                                  *)

(* A track whose stsc the code accepts.                                    *)
LEMMA CountsAre ==
  ASSUME NEW track \in MovieTrack, IsMapped(track)
  PROVE  \A c \in DOMAIN track.offsets : SampleCount(track, c) \in Nat
<1> SUFFICES ASSUME NEW c \in DOMAIN track.offsets PROVE SampleCount(track, c) \in Nat
  OBVIOUS
<1> DEFINE covering == { i \in DOMAIN track.entries : track.entries[i].first_chunk <= c }
           IsLast(i) == \A j \in covering : j <= i
<1>1. track.entries \in Seq(StscEntry) /\ track.offsets \in Seq(Nat)
  BY DEF MovieTrack
<1>2. c \in Nat /\ c >= 1 /\ Len(track.entries) \in Nat /\ DOMAIN track.entries = 1..Len(track.entries)
  BY <1>1
<1>3. 1 \in covering
  BY <1>1, <1>2 DEF IsMapped
<1>4. covering \subseteq 0..Len(track.entries)
  BY <1>2
<1>5. \A i \in covering : track.entries[i].samples_per_chunk \in Nat
  <2>1. \A i \in DOMAIN track.entries : track.entries[i] \in StscEntry
    BY <1>1
  <2> QED BY <2>1 DEF StscEntry
<1>6. SampleCount(track, c) = track.entries[CHOOSE i \in covering : IsLast(i)].samples_per_chunk
  BY DEF SampleCount
<1> HIDE DEF covering
<1>7. \E i \in covering : IsLast(i)
  BY <1>2, <1>3, <1>4, GreatestExists
<1> HIDE DEF IsLast
<1>8. (CHOOSE i \in covering : IsLast(i)) \in covering
  BY <1>7
<1> QED BY <1>5, <1>6, <1>8

(* The chunks of a track take its samples one chunk behind the other.      *)
LEMMA ChunksShare ==
  ASSUME NEW track \in MovieTrack, IsMapped(track)
  PROVE  /\ Len(track.offsets) \in Nat /\ DOMAIN track.offsets = 1..Len(track.offsets)
         /\ Len(track.sizes) \in Nat /\ DOMAIN track.sizes = 1..Len(track.sizes)
         /\ SamplesBefore(track, 1) = 0
         /\ SamplesBefore(track, Len(track.offsets) + 1) = Len(track.sizes)
         /\ \A c \in 1..Len(track.offsets) :
              /\ SampleCount(track, c) \in Nat
              /\ SamplesBefore(track, c + 1) = SamplesBefore(track, c) + SampleCount(track, c)
         /\ \A c \in 1..Len(track.offsets) + 1 :
              /\ SamplesBefore(track, c) \in 0..Len(track.sizes)
              /\ \A d \in 1..c : SamplesBefore(track, d) <= SamplesBefore(track, c)
<1> DEFINE n == Len(track.offsets)
           f == [d \in DOMAIN track.offsets |-> SampleCount(track, d)]
<1>1. track.offsets \in Seq(Nat) /\ track.sizes \in Seq(Nat)
  BY DEF MovieTrack
<1>2. n \in Nat /\ DOMAIN track.offsets = 1..n
  BY <1>1
<1>3. \A d \in 1..n : f[d] \in Nat /\ f[d] = SampleCount(track, d)
  BY <1>2, CountsAre
<1>4. \A c : SamplesBefore(track, c) = SumTo(f, c - 1)
  BY DEF SamplesBefore
<1>5. Len(track.sizes) = SumTo(f, n)
  <2>1. Len(f) = n
    BY <1>2
  <2> QED BY <2>1 DEF IsMapped, Total
<1> HIDE DEF f, n
<1>6. ASSUME NEW m \in 0..n
      PROVE  /\ SumTo(f, m) \in Int
             /\ SumTo(f, 0) = 0
             /\ m > 0 => SumTo(f, m) = SumTo(f, m - 1) + f[m]
  <2>1. m \in Nat /\ \A j \in 1..m : f[j] \in Int
    BY <1>2, <1>3
  <2> QED BY <2>1, SumToIs
<1>7. \A m \in 0..n : SumTo(f, m) \in 0..SumTo(f, n)
  BY <1>2, <1>3, SumToNat
<1>8. SamplesBefore(track, 1) = 0
  <2>1. 0 \in 0..n /\ 1 - 1 = 0
    BY <1>2
  <2> QED BY <1>4, <1>6, <2>1
<1>9. SamplesBefore(track, n + 1) = Len(track.sizes)
  <2>1. (n + 1) - 1 = n
    BY <1>2
  <2> QED BY <1>4, <1>5, <2>1
<1>10. ASSUME NEW c \in 1..n
       PROVE  SamplesBefore(track, c + 1) = SamplesBefore(track, c) + SampleCount(track, c)
  <2>1. c \in 0..n /\ c > 0 /\ (c + 1) - 1 = c
    BY <1>2
  <2>2. SumTo(f, c) = SumTo(f, c - 1) + f[c]
    BY <1>6, <2>1
  <2> QED BY <1>3, <1>4, <2>1, <2>2
<1>11. ASSUME NEW c \in 1..n + 1 PROVE SamplesBefore(track, c) \in 0..Len(track.sizes)
  <2>1. c - 1 \in 0..n
    BY <1>2
  <2> QED BY <1>4, <1>5, <1>7, <2>1
<1>14. ASSUME NEW c \in 1..n + 1, NEW d \in 1..c
       PROVE  SamplesBefore(track, d) <= SamplesBefore(track, c)
  <2>1. c - 1 \in Nat /\ d - 1 \in 0..c - 1 /\ \A j \in 1..c - 1 : f[j] \in Nat
    BY <1>2, <1>3
  <2>2. SumTo(f, d - 1) \in 0..SumTo(f, c - 1)
    BY <2>1, SumToNat
  <2>3. c - 1 \in 0..n
    BY <1>2
  <2>4. SumTo(f, c - 1) \in Int
    BY <1>6, <2>3
  <2> QED BY <1>4, <2>2, <2>4
<1>12. Len(track.sizes) \in Nat /\ DOMAIN track.sizes = 1..Len(track.sizes)
  BY <1>1
<1>13. \A d \in 1..n : SampleCount(track, d) \in Nat
  BY <1>3
<1> QED BY <1>2, <1>8, <1>9, <1>10, <1>11, <1>12, <1>13, <1>14 DEF n

(* Every sample is in the chunk that is looked up for it.                  *)
LEMMA ChunkOfIs ==
  ASSUME NEW track \in MovieTrack, IsMapped(track), NEW i \in DOMAIN track.sizes
  PROVE  ChunkOf(track, i) \in DOMAIN track.offsets /\ i \in ChunkSamples(track, ChunkOf(track, i))
<1> DEFINE n == Len(track.offsets)
           T == { m \in 0..n : i > SamplesBefore(track, m + 1) }
<1>1. /\ n \in Nat /\ DOMAIN track.offsets = 1..n
      /\ i \in 1..Len(track.sizes) /\ Len(track.sizes) \in Nat
      /\ SamplesBefore(track, 1) = 0 /\ SamplesBefore(track, n + 1) = Len(track.sizes)
  BY ChunksShare
<1>2. \A c \in 1..n : /\ SampleCount(track, c) \in Nat
                      /\ SamplesBefore(track, c + 1) = SamplesBefore(track, c) + SampleCount(track, c)
  BY ChunksShare
<1>3. \A c \in 1..n + 1 : SamplesBefore(track, c) \in 0..Len(track.sizes)
  BY ChunksShare
<1> HIDE DEF n
<1>4. SUFFICES ASSUME \A c \in 1..n : i \notin ChunkSamples(track, c) PROVE FALSE
  BY <1>1 DEF ChunkOf
<1>5. 0 \in T
  BY <1>1
<1>6. ASSUME NEW m \in 1..n, m - 1 \in T PROVE m \in T
  <2>1. i > SamplesBefore(track, m) /\ (m - 1) + 1 = m
    BY <1>6
  <2>2. SamplesBefore(track, m) \in Int /\ SampleCount(track, m) \in Nat /\ i \in Int
    BY <1>1, <1>2, <1>3
  <2>3. ~ (i <= SamplesBefore(track, m) + SampleCount(track, m))
    BY <1>4, <2>1, <2>2 DEF ChunkSamples
  <2> QED BY <1>2, <2>2, <2>3
<1> HIDE DEF T
<1>7. 0..n \subseteq T
  BY <1>1, <1>5, <1>6, BoundedInduction
<1>8. n \in T
  BY <1>1, <1>7
<1> QED BY <1>1, <1>8 DEF T
-----------------------------------------------------------------------------
(* The movie and its chunks.                                               *)

LEMMA MovieIs ==
  ASSUME movie \in Movies
  PROVE  /\ DOMAIN movie.tracks = Tracks
         /\ \A t \in Tracks : /\ t \in Nat /\ movie.tracks[t] \in MovieTrack
                              /\ Len(movie.tracks[t].sizes) <= Len(movie.tracks[t].clear)
         /\ Len(movie.boxes) \in Nat /\ DOMAIN movie.boxes = 1..Len(movie.boxes)
         /\ \A b \in DOMAIN movie.boxes : movie.boxes[b].size \in Nat
         /\ movie.new_ftyp \in Nat /\ movie.moov_growth \in Int
<1>1. movie \in ProtectedMovie
  BY MoviesAssumption
<1>2. \A t \in Tracks : Len(movie.tracks[t].sizes) <= Len(movie.tracks[t].clear)
  BY MoviesAssumption DEF Tracks
<1>3. movie.tracks \in Seq(MovieTrack) /\ movie.boxes \in Seq([type : STRING, size : Nat])
  BY <1>1 DEF ProtectedMovie
<1>4. \A b \in DOMAIN movie.boxes : movie.boxes[b].size \in Nat
  <2>1. \A b \in DOMAIN movie.boxes : movie.boxes[b] \in [type : STRING, size : Nat]
    <3> DEFINE boxes == movie.boxes
               BoxType == [type : STRING, size : Nat]
    <3>1. boxes \in Seq(BoxType)
      BY <1>3
    <3> HIDE DEF boxes, BoxType
    <3>2. \A b \in DOMAIN boxes : boxes[b] \in BoxType
      BY <3>1
    <3> QED BY <3>2 DEF boxes, BoxType
  <2> QED BY <2>1
<1>5. Len(movie.boxes) \in Nat /\ DOMAIN movie.boxes = 1..Len(movie.boxes)
  BY <1>3
<1>6. \A t \in Tracks : t \in Nat /\ movie.tracks[t] \in MovieTrack
  BY <1>3 DEF Tracks
<1>7. movie.new_ftyp \in Nat /\ movie.moov_growth \in Int
  BY <1>1 DEF ProtectedMovie
<1> QED BY <1>2, <1>4, <1>5, <1>6, <1>7 DEF Tracks

(* A sample in the clear has a size.                                       *)
LEMMA ClearSizeIs ==
  ASSUME movie \in Movies, NEW t \in Tracks
  PROVE  /\ Len(movie.tracks[t].sizes) \in Nat
         /\ DOMAIN movie.tracks[t].sizes = 1..Len(movie.tracks[t].sizes)
         /\ \A i \in DOMAIN movie.tracks[t].sizes :
              /\ movie.tracks[t].sizes[i] \in Nat
              /\ ClearSize(t, i) \in Nat
              /\ ClearSizes(t)[i] = ClearSize(t, i)
<1> DEFINE track == movie.tracks[t]
<1>1. track \in MovieTrack /\ Len(track.sizes) <= Len(track.clear)
  BY MovieIs
<1> HIDE DEF track
<1>2. track.sizes \in Seq(Nat) /\ track.clear \in Seq(Nat)
  BY <1>1 DEF MovieTrack
<1>3. /\ Len(track.sizes) \in Nat /\ DOMAIN track.sizes = 1..Len(track.sizes)
      /\ \A i \in DOMAIN track.sizes : track.sizes[i] \in Nat /\ track.clear[i] \in Nat
  BY <1>1, <1>2
<1>4. \A i \in DOMAIN track.sizes : ClearSize(t, i) \in Nat
  BY <1>3 DEF ClearSize, track
<1>5. \A i \in DOMAIN track.sizes : ClearSizes(t)[i] = ClearSize(t, i)
  BY DEF ClearSizes, track
<1> QED BY <1>3, <1>4, <1>5 DEF track

(* Chunk number c of track t, as compute_track_chunks makes it.            *)
IsChunk(one, t, c) ==
  LET track == movie.tracks[t] IN
  /\ t \in Tracks /\ track \in MovieTrack /\ IsMapped(track)
  /\ c \in 1..Len(track.offsets) /\ Len(track.offsets) \in Nat
  /\ one.track = t /\ one.number = c
  /\ one.offset = track.offsets[c] /\ one.offset \in Nat
  /\ one.sizes \in Seq(Nat) /\ Len(one.sizes) = SampleCount(track, c)
  /\ \A n \in 1..Len(one.sizes) : one.sizes[n] = track.sizes[SamplesBefore(track, c) + n]

LEMMA ChunkIs ==
  ASSUME movie \in Movies, ChunksInv, NEW p \in DOMAIN chunks
  PROVE  IsChunk(chunks[p], chunks[p].track, chunks[p].number)
<1>1. chunks[p] \in AllChunks
  BY DEF ChunksInv
<1>2. PICK t \in Tracks : chunks[p] \in TrackChunks(t)
  BY <1>1 DEF AllChunks
<1> DEFINE track == movie.tracks[t]
<1>3. track \in MovieTrack /\ IsMapped(track)
  BY MovieIs DEF ChunksInv
<1>4. PICK c \in DOMAIN track.offsets :
        chunks[p] = [track |-> t, number |-> c, offset |-> track.offsets[c],
                     sizes |-> SubSeq(track.sizes, SamplesBefore(track, c) + 1,
                                      SamplesBefore(track, c) + SampleCount(track, c))]
  BY <1>2 DEF TrackChunks
<1> DEFINE s == SamplesBefore(track, c)
           n == SampleCount(track, c)
<1>5. /\ Len(track.offsets) \in Nat /\ c \in 1..Len(track.offsets)
      /\ Len(track.sizes) \in Nat
      /\ s \in 0..Len(track.sizes) /\ n \in Nat /\ s + n \in 0..Len(track.sizes)
  <2>1. /\ Len(track.offsets) \in Nat /\ DOMAIN track.offsets = 1..Len(track.offsets)
        /\ Len(track.sizes) \in Nat
    BY <1>3, ChunksShare
  <2>2. c \in 1..Len(track.offsets) + 1 /\ c + 1 \in 1..Len(track.offsets) + 1
    BY <2>1
  <2>3. s \in 0..Len(track.sizes) /\ SamplesBefore(track, c + 1) \in 0..Len(track.sizes)
    BY <1>3, <2>2, ChunksShare
  <2>4. n \in Nat /\ SamplesBefore(track, c + 1) = s + n
    BY <1>3, <2>1, ChunksShare
  <2> QED BY <2>1, <2>3, <2>4
<1>6. track.sizes \in Seq(Nat) /\ track.offsets \in Seq(Nat)
  BY <1>3 DEF MovieTrack
<1>7. track.offsets[c] \in Nat
  BY <1>6
<1> DEFINE part == SubSeq(track.sizes, s + 1, s + n)
<1>8. part \in Seq(Nat) /\ Len(part) = n /\ \A m \in 1..n : part[m] = track.sizes[s + m]
  <2> DEFINE q == track.sizes
  <2>1. q \in Seq(Nat) /\ s \in Nat /\ n \in Nat /\ s + n <= Len(q) /\ Len(q) \in Nat
    BY <1>5, <1>6
  <2> HIDE DEF q, s, n
  <2>2. /\ SubSeq(q, s + 1, s + n) \in Seq(Nat) /\ Len(SubSeq(q, s + 1, s + n)) = n
        /\ \A m \in 1..n : SubSeq(q, s + 1, s + n)[m] = q[s + m]
    BY <2>1
  <2> QED BY <2>2 DEF q
<1>10. chunks[p] = [track |-> t, number |-> c, offset |-> track.offsets[c], sizes |-> part]
  BY <1>4
<1> HIDE DEF part, s, n
<1>9. chunks[p].track = t /\ chunks[p].number = c /\ chunks[p].offset = track.offsets[c]
      /\ chunks[p].sizes = part
  BY <1>10
<1> QED BY <1>3, <1>5, <1>7, <1>8, <1>9 DEF IsChunk, s, n

(* Every chunk is there.                                                   *)
LEMMA ChunkIsThere ==
  ASSUME ChunksInv, NEW t \in Tracks, NEW c \in DOMAIN movie.tracks[t].offsets
  PROVE  \E p \in DOMAIN chunks : chunks[p].track = t /\ chunks[p].number = c
<1> DEFINE track == movie.tracks[t]
           one == [track |-> t, number |-> c, offset |-> track.offsets[c],
                   sizes |-> SubSeq(track.sizes, SamplesBefore(track, c) + 1,
                                    SamplesBefore(track, c) + SampleCount(track, c))]
<1>1. one \in TrackChunks(t)
  BY DEF TrackChunks
<1>2. one \in AllChunks
  BY <1>1 DEF AllChunks
<1>3. one.track = t /\ one.number = c
  OBVIOUS
<1> HIDE DEF one
<1> QED BY <1>2, <1>3 DEF ChunksInv

(* Offsets that ascend from chunk to chunk ascend.                         *)
LEMMA AscendingIs ==
  ASSUME movie \in Movies, NEW t \in Tracks, Ascends(t)
  PROVE  \A c, d \in 1..Len(movie.tracks[t].offsets) :
           c < d => movie.tracks[t].offsets[c] < movie.tracks[t].offsets[d]
<1> DEFINE o == movie.tracks[t].offsets
           n == Len(o)
<1>1. o \in Seq(Nat)
  BY MovieIs DEF MovieTrack
<1>2. n \in Nat /\ \A c \in 1..n : o[c] \in Nat
  <2> HIDE DEF o
  <2> QED BY <1>1
<1>3. \A c \in 2..n : o[c - 1] < o[c]
  BY DEF Ascends
<1> HIDE DEF o, n
<1> SUFFICES ASSUME NEW c \in 1..n PROVE \A d \in 1..n : c < d => o[c] < o[d]
  BY DEF o, n
<1> DEFINE T == { m \in 0..n : c < m => o[c] < o[m] }
<1>4. 0 \in T
  BY <1>2
<1>5. ASSUME NEW m \in 1..n, m - 1 \in T PROVE m \in T
  <2>1. CASE c < m - 1
    <3>1. o[c] < o[m - 1] /\ o[m - 1] < o[m] /\ m - 1 \in 1..n
      BY <1>3, <1>5, <2>1
    <3>2. o[c] \in Int /\ o[m - 1] \in Int /\ o[m] \in Int
      BY <1>2, <3>1
    <3> QED BY <3>1, <3>2
  <2>2. CASE c = m - 1
    BY <1>3, <2>2
  <2>3. CASE c > m - 1
    BY <2>3
  <2> QED BY <2>1, <2>2, <2>3
<1> HIDE DEF T
<1>6. 0..n \subseteq T
  BY <1>2, <1>4, <1>5, BoundedInduction
<1> QED BY <1>2, <1>6 DEF T

(* So its chunks come in the order of their numbers.                       *)
LEMMA NumbersAscend ==
  ASSUME movie \in Movies, ChunksInv, NEW t \in Tracks, Ascends(t)
  PROVE  \A p, q \in DOMAIN chunks :
           p < q /\ chunks[p].track = t /\ chunks[q].track = t =>
             chunks[p].number < chunks[q].number
<1> SUFFICES ASSUME NEW p \in DOMAIN chunks, NEW q \in DOMAIN chunks, p < q,
                    chunks[p].track = t, chunks[q].track = t
             PROVE  chunks[p].number < chunks[q].number
  OBVIOUS
<1> DEFINE o == movie.tracks[t].offsets
           a == chunks[p].number
           b == chunks[q].number
<1>1. a \in 1..Len(o) /\ b \in 1..Len(o) /\ Len(o) \in Nat
      /\ chunks[p].offset = o[a] /\ chunks[q].offset = o[b]
      /\ chunks[p].offset \in Nat /\ chunks[q].offset \in Nat
  BY ChunkIs DEF IsChunk
<1>2. Precedes(chunks[p], chunks[q])
  BY DEF ChunksInv
<1>3. t \in Nat
  BY MovieIs
<1>4. \A c, d \in 1..Len(o) : c < d => o[c] < o[d]
  BY AscendingIs
<1>5. o[a] < o[b] \/ (o[a] = o[b] /\ a < b)
  BY <1>1, <1>2, <1>3 DEF Precedes
<1> HIDE DEF o, a, b
<1>6. SUFFICES ASSUME ~ (a < b) PROVE FALSE
  BY DEF a, b
<1>7. o[a] < o[b]
  BY <1>5, <1>6
<1>8. b < a \/ a = b
  BY <1>1, <1>6
<1>9. o[b] < o[a] \/ o[a] = o[b]
  BY <1>1, <1>4, <1>8
<1>10. o[a] \in Nat /\ o[b] \in Nat
  BY <1>1
<1> QED BY <1>7, <1>9, <1>10
-----------------------------------------------------------------------------
(* The plan.                                                               *)

LEMMA ChunksKept ==
  ASSUME ChunksInv, UNCHANGED << movie, chunks >>
  PROVE  ChunksInv'
<1>1. AllChunks' = AllChunks /\ Tracks' = Tracks
  BY DEF AllChunks, TrackChunks, Tracks
<1> QED BY <1>1 DEF ChunksInv

LEMMA PlanKept ==
  ASSUME PlanInv, UNCHANGED << movie, chunks, opened, todo, sample_offset, planned >>
  PROVE  PlanInv'
<1>1. UNCHANGED << rebuilt_sample_sizes, relative_offsets, sample_edits, payload_size >>
  BY DEF planned
<1>2. PlanTypes'
  BY <1>1 DEF PlanInv, PlanTypes, Tracks, EditSizes
<1>3. InHand'
  <2>1. chunk' = chunk /\ sample_index' = sample_index
    BY DEF chunk, sample_index
  <2>2. \A t : Ascends(t)' = Ascends(t) /\ ClearSizes(t)' = ClearSizes(t)
    BY DEF Ascends, ClearSizes, ClearSize
  <2>3. InHand
    BY DEF PlanInv
  <2> QED BY <1>1, <2>1, <2>2, <2>3 DEF InHand
<1>4. ASSUME NEW t \in Tracks', Ascends(t)' PROVE TrackInv(t)'
  <2>1. t \in Tracks /\ Ascends(t)
    BY <1>4 DEF Tracks, Ascends
  <2>2. TrackInv(t)
    BY <2>1 DEF PlanInv
  <2>3. \A k, c, i : IsEditOf(k, t, c, i)' <=> IsEditOf(k, t, c, i)
    BY <1>1 DEF IsEditOf, EditSizes, ClearSizes, ClearSize, SizeBetween, SamplesBefore, SampleCount,
                Process
  <2>4. Pending(t)' = Pending(t)
    BY DEF Pending, chunk
  <2>5. \A i : ClearSize(t, i)' = ClearSize(t, i)
    BY DEF ClearSize
  <2>6. \A c : SamplesBefore(movie'.tracks[t], c) = SamplesBefore(movie.tracks[t], c)
    OBVIOUS
  <2>7. \A c : ChunkSamples(movie'.tracks[t], c) = ChunkSamples(movie.tracks[t], c)
    OBVIOUS
  <2> QED BY <1>1, <2>2, <2>3, <2>4, <2>5, <2>6, <2>7 DEF TrackInv
<1> QED BY <1>2, <1>3, <1>4 DEF PlanInv

(* There are finitely many chunks.                                         *)
LEMMA ImageIsFinite ==
  ASSUME NEW S, IsFiniteSet(S), NEW f
  PROVE  IsFiniteSet({ f[x] : x \in S })
<1> DEFINE T == { f[x] : x \in S }
           g == [x \in S |-> f[x]]
<1>1. g \in Surjection(S, T)
  <2>1. g \in [S -> T] /\ \A t \in T : \E x \in S : g[x] = t
    OBVIOUS
  <2> HIDE DEF g, T
  <2> QED BY <2>1 DEF Surjection
<1> HIDE DEF g, T
<1>2. IsFiniteSet(T)
  BY <1>1, FS_Surjection
<1> QED BY <1>2 DEF T

LEMMA ChunksAreFinite ==
  ASSUME movie \in Movies
  PROVE  IsFiniteSet(AllChunks)
<1>1. ASSUME NEW t \in Tracks PROVE IsFiniteSet(TrackChunks(t))
  <2> DEFINE track == movie.tracks[t]
             S == DOMAIN track.offsets
             f == [c \in S |->
                     [track |-> t, number |-> c, offset |-> track.offsets[c],
                      sizes |-> SubSeq(track.sizes, SamplesBefore(track, c) + 1,
                                       SamplesBefore(track, c) + SampleCount(track, c))]]
  <2>1. TrackChunks(t) = { f[c] : c \in S }
    BY DEF TrackChunks
  <2>2. IsFiniteSet(S)
    <3>1. track.offsets \in Seq(Nat)
      BY MovieIs DEF MovieTrack
    <3>2. Len(track.offsets) \in Int /\ DOMAIN track.offsets = 1..Len(track.offsets)
      BY <3>1
    <3> QED BY <3>2, FS_Interval
  <2> HIDE DEF f, S
  <2>3. IsFiniteSet({ f[c] : c \in S })
    BY <2>2, ImageIsFinite
  <2> QED BY <2>1, <2>3
<1> DEFINE g == [t \in Tracks |-> TrackChunks(t)]
           all == { g[t] : t \in Tracks }
<1>2. AllChunks = UNION all
  BY DEF AllChunks
<1>3. IsFiniteSet(Tracks)
  <2>1. movie.tracks \in Seq(MovieTrack)
    BY MoviesAssumption DEF ProtectedMovie
  <2>2. Len(movie.tracks) \in Int /\ Tracks = 1..Len(movie.tracks)
    BY <2>1 DEF Tracks
  <2> QED BY <2>2, FS_Interval
<1>4. \A T \in all : IsFiniteSet(T)
  BY <1>1
<1> HIDE DEF g
<1>5. IsFiniteSet(all)
  BY <1>3, ImageIsFinite
<1> HIDE DEF all
<1> QED BY <1>2, <1>4, <1>5, FS_UNION

LEMMA CollectHolds ==
  ASSUME IInv, CollectChunks
  PROVE  ChunksInv' /\ PlanInv'
<1>1. /\ movie \in Movies /\ state = "tracks"
      /\ opened = 0 /\ todo = << >> /\ sample_edits = << >> /\ payload_size = 0 /\ sample_offset = 0
      /\ rebuilt_sample_sizes = [t \in Tracks |-> << >>]
      /\ relative_offsets = [t \in Tracks |-> << >>]
  BY DEF IInv, CollectChunks
<1>2. /\ chunks' \in Sorted(AllChunks)
      /\ UNCHANGED << movie, opened, todo, sample_offset, planned >>
      /\ \A t \in Tracks : HasSamples(movie.tracks[t]) /\ IsMapped(movie.tracks[t])
  BY DEF CollectChunks
<1>3. UNCHANGED << rebuilt_sample_sizes, relative_offsets, sample_edits, payload_size >>
  BY <1>2 DEF planned
<1>4. Cardinality(AllChunks) \in Nat
  BY <1>1, ChunksAreFinite, FS_CardinalityType
<1>5. /\ { chunks'[n] : n \in DOMAIN chunks' } = AllChunks
      /\ \A n \in DOMAIN chunks' : \A m \in 1..n - 1 : Precedes(chunks'[m], chunks'[n])
      /\ DOMAIN chunks' = 1..Cardinality(AllChunks)
      /\ chunks' = [n \in 1..Cardinality(AllChunks) |-> chunks'[n]]
  <2> DEFINE all == AllChunks
             ranked == [n \in 1..Cardinality(all) |->
                          CHOOSE c \in all : Cardinality({ d \in all : Precedes(d, c) }) = n - 1]
  <2>1. /\ chunks' = ranked
        /\ { chunks'[n] : n \in DOMAIN chunks' } = all
        /\ \A n \in DOMAIN chunks' : \A m \in 1..n - 1 : Precedes(chunks'[m], chunks'[n])
    BY <1>2 DEF Sorted
  <2>2. DOMAIN ranked = 1..Cardinality(all) /\ ranked = [n \in 1..Cardinality(all) |-> ranked[n]]
    OBVIOUS
  <2> HIDE DEF ranked
  <2>3. DOMAIN chunks' = 1..Cardinality(all) /\ chunks' = [n \in 1..Cardinality(all) |-> chunks'[n]]
    BY <2>1, <2>2
  <2> QED BY <2>1, <2>3
<1>6. Len(chunks') = Cardinality(AllChunks)
  BY <1>4, <1>5
<1>7. ASSUME NEW one \in AllChunks PROVE one.number \in Nat \ {0}
  <2>1. PICK t \in Tracks : one \in TrackChunks(t)
    BY <1>7 DEF AllChunks
  <2>2. one.number \in DOMAIN movie.tracks[t].offsets
    BY <2>1 DEF TrackChunks
  <2>3. movie.tracks[t].offsets \in Seq(Nat)
    BY <1>1, MovieIs DEF MovieTrack
  <2> QED BY <2>2, <2>3
<1>8. \A p \in DOMAIN chunks' : chunks'[p].number \in Nat \ {0}
  BY <1>5, <1>7
<1>9. ChunksInv'
  <2>1. AllChunks' = AllChunks /\ Tracks' = Tracks
    BY <1>2 DEF AllChunks, TrackChunks, Tracks
  <2> QED BY <1>2, <1>4, <1>5, <1>6, <1>8, <2>1 DEF ChunksInv
<1>10. \A t \in Tracks : relative_offsets'[t] = << >> /\ rebuilt_sample_sizes'[t] = << >>
  BY <1>1, <1>3
<1>11. PlanTypes'
  <2>1. SumTo(EditSizes', 0) = 0
    <3>1. 0 \in Nat /\ \A j \in 1..0 : EditSizes'[j] \in Int
      OBVIOUS
    <3> QED BY <3>1, SumToIs
  <2>2. Len(sample_edits') = 0 /\ Tracks' = Tracks
    BY <1>1, <1>2, <1>3 DEF Tracks
  <2> QED BY <1>1, <1>2, <1>3, <1>4, <1>6, <1>10, <2>1, <2>2 DEF PlanTypes
<1>12. InHand'
  BY <1>1, <1>2 DEF InHand
<1>13. ASSUME NEW t \in Tracks PROVE TrackInv(t)'
  <2> DEFINE track == movie.tracks[t]
  <2>1. SamplesBefore(track, 1) = 0 /\ Len(track.offsets) \in Nat
    BY <1>1, <1>2, MovieIs, ChunksShare
  <2>2. Pending(t)' = 0
    BY <1>1, <1>2 DEF Pending
  <2>3. Len(relative_offsets'[t]) = 0 /\ Len(rebuilt_sample_sizes'[t]) = 0
        /\ DOMAIN rebuilt_sample_sizes'[t] = {}
    BY <1>10
  <2>4. movie'.tracks[t] = track /\ opened' = 0 /\ \A p \in DOMAIN chunks' : p > 0
    BY <1>1, <1>2, <1>5
  <2> DEFINE n == Len(relative_offsets'[t])
  <2>5. n = 0 /\ 0 + 1 = 1
    BY <2>3
  <2>6. \A p \in DOMAIN chunks' : ~ (p <= opened') /\ ~ (chunks'[p].number <= n)
    BY <1>8, <2>4, <2>5
  <2>7. Len(rebuilt_sample_sizes'[t]) = SamplesBefore(track, n + 1) - Pending(t)'
    BY <2>1, <2>2, <2>3, <2>5
  <2>8. 1..n = {} /\ n <= Len(track.offsets)
    BY <2>1, <2>5
  <2> HIDE DEF track
  <2> QED BY <2>3, <2>4, <2>6, <2>7, <2>8 DEF TrackInv
<1>14. Tracks' = Tracks
  BY <1>2 DEF Tracks
<1> QED BY <1>9, <1>11, <1>12, <1>13, <1>14 DEF PlanInv
-----------------------------------------------------------------------------
(* A chunk is opened.                                                      *)

(* The one of a track whose offsets ascend is the next of its track.       *)
LEMMA NextChunkIs ==
  ASSUME movie \in Movies, ChunksInv, PlanInv, opened < Len(chunks),
         Ascends(next_chunk.track)
  PROVE  next_chunk.number = Len(relative_offsets[next_chunk.track]) + 1
<1> DEFINE p == opened + 1
           t == chunks[p].track
           c == chunks[p].number
           n == Len(relative_offsets[t])
           last == Len(movie.tracks[t].offsets)
<1>1. /\ p \in DOMAIN chunks /\ opened \in Nat /\ Len(chunks) \in Nat
      /\ DOMAIN chunks = 1..Len(chunks) /\ next_chunk = chunks[p]
  BY DEF ChunksInv, PlanInv, PlanTypes, next_chunk
<1>2. /\ t \in Tracks /\ c \in 1..last /\ last \in Nat
      /\ movie.tracks[t] \in MovieTrack /\ IsMapped(movie.tracks[t])
  BY <1>1, ChunkIs DEF IsChunk
<1>3. n \in Nat
  BY <1>2 DEF PlanInv, PlanTypes
<1>4. \A q \in DOMAIN chunks : chunks[q].track = t => (q <= opened <=> chunks[q].number <= n)
  BY <1>1, <1>2 DEF PlanInv, TrackInv
<1>5. c > n
  BY <1>1, <1>2, <1>3, <1>4
<1>6. SUFFICES ASSUME c > n + 1 PROVE FALSE
  <2>1. c = n + 1
    BY <1>2, <1>3, <1>5, <1>6
  <2> QED BY <1>1, <2>1
<1>7. n + 1 \in DOMAIN movie.tracks[t].offsets
  <2>1. DOMAIN movie.tracks[t].offsets = 1..last
    BY <1>2, ChunksShare
  <2> HIDE DEF last, c, n
  <2> QED BY <1>2, <1>3, <1>6, <2>1
<1>8. PICK q \in DOMAIN chunks : chunks[q].track = t /\ chunks[q].number = n + 1
  BY <1>2, <1>7, ChunkIsThere
<1>9. ~ (q <= opened) /\ q # p /\ q \in Nat
  BY <1>1, <1>3, <1>4, <1>6, <1>8
<1>10. p < q
  BY <1>1, <1>9
<1>11. c < n + 1
  BY <1>1, <1>2, <1>8, <1>10, NumbersAscend
<1> QED BY <1>2, <1>3, <1>6, <1>11

LEMMA OpenHolds ==
  ASSUME movie \in Movies, ChunksInv, PlanInv, OpenChunk
  PROVE  PlanInv'
<1> DEFINE p == opened + 1
           u == chunks[p].track
           d == chunks[p].number
           part == movie.tracks[u]
           before == SamplesBefore(part, d)
<1>1. /\ todo = << >> /\ opened < Len(chunks)
      /\ opened' = p
      /\ relative_offsets' = [relative_offsets EXCEPT ![u] = Append(@, payload_size)]
      /\ todo' = chunks[p].sizes /\ sample_offset' = chunks[p].offset
      /\ UNCHANGED << movie, chunks, rebuilt_sample_sizes, sample_edits, payload_size >>
  BY DEF OpenChunk, AtChunk, next_chunk
<1>2. /\ p \in DOMAIN chunks /\ opened \in Nat /\ Len(chunks) \in Nat
      /\ DOMAIN chunks = 1..Len(chunks)
  BY <1>1 DEF ChunksInv, PlanInv, PlanTypes
<1>3. IsChunk(chunks[p], u, d)
  BY <1>2, ChunkIs
<1>4. /\ u \in Tracks /\ part \in MovieTrack /\ IsMapped(part)
      /\ d \in 1..Len(part.offsets) /\ Len(part.offsets) \in Nat
      /\ chunks[p].offset = part.offsets[d] /\ chunks[p].offset \in Nat
      /\ chunks[p].sizes \in Seq(Nat) /\ Len(chunks[p].sizes) = SampleCount(part, d)
      /\ \A n \in 1..Len(chunks[p].sizes) : chunks[p].sizes[n] = part.sizes[before + n]
  BY <1>3 DEF IsChunk
<1>5. /\ relative_offsets \in [Tracks -> Seq(Nat)] /\ payload_size \in Nat
      /\ rebuilt_sample_sizes \in [Tracks -> Seq(Nat)]
  BY DEF PlanInv, PlanTypes
<1>6. /\ relative_offsets' \in [Tracks -> Seq(Nat)]
      /\ \A t \in Tracks : t # u => relative_offsets'[t] = relative_offsets[t]
      /\ relative_offsets'[u] = Append(relative_offsets[u], payload_size)
  BY <1>1, <1>4, <1>5
<1> DEFINE n == Len(relative_offsets[u])
<1>7. /\ n \in Nat /\ Len(relative_offsets'[u]) = n + 1
      /\ relative_offsets'[u][n + 1] = payload_size
      /\ \A c \in 1..n : relative_offsets'[u][c] = relative_offsets[u][c]
  BY <1>4, <1>5, <1>6
<1>8. chunk' = chunks[p] /\ Tracks' = Tracks
  BY <1>1 DEF chunk, Tracks
<1>9. before \in 0..Len(part.sizes) /\ Len(part.sizes) \in Nat /\ SampleCount(part, d) \in Nat
      /\ SamplesBefore(part, d + 1) = before + SampleCount(part, d)
  <2>1. d \in 1..Len(part.offsets) + 1
    BY <1>4
  <2> QED BY <1>4, <2>1, ChunksShare
<1>10. Ascends(u) => d = n + 1
  BY <1>1, NextChunkIs DEF next_chunk
<1>11. PlanTypes'
  <2>1. EditSizes' = EditSizes
    BY <1>1 DEF EditSizes
  <2> QED BY <1>1, <1>2, <1>4, <1>5, <1>6, <1>8, <2>1 DEF PlanInv, PlanTypes
<1>12. InHand'
  <2> SUFFICES ASSUME todo' # << >> PROVE InHand'
    BY DEF InHand
  <2>1. Len(todo') = SampleCount(part, d) /\ opened' > 0
    BY <1>1, <1>2, <1>4
  <2>2. sample_index' = before + 1
    <3>1. sample_index' = before + Len(chunks[p].sizes) - Len(chunks[p].sizes) + 1
      BY <1>1, <1>8 DEF sample_index
    <3> QED BY <1>4, <1>9, <3>1
  <2>3. \A m \in DOMAIN todo' : todo'[m] = part.sizes[sample_index' + m - 1]
    <3> SUFFICES ASSUME NEW m \in DOMAIN todo' PROVE todo'[m] = part.sizes[sample_index' + m - 1]
      OBVIOUS
    <3>1. m \in 1..Len(chunks[p].sizes) /\ m \in Nat
      BY <1>1, <1>4
    <3>2. sample_index' + m - 1 = before + m
      BY <1>9, <2>2, <3>1
    <3> QED BY <1>1, <1>4, <3>1, <3>2
  <2>4. SizeBetween(part.sizes, before, before) = 0 /\ SizeBetween(ClearSizes(u), before, before) = 0
    <3>1. \A j \in 1..Len(part.sizes) : part.sizes[j] \in Nat /\ ClearSizes(u)[j] \in Nat
      BY <1>4, ClearSizeIs
    <3> QED BY <1>9, <3>1, BetweenIs
  <2>5. sample_index' - 1 = before
    BY <1>9, <2>2
  <2>6. sample_offset' = part.offsets[d] + SizeBetween(part.sizes, before, sample_index' - 1)
    <3>1. SizeBetween(part.sizes, before, sample_index' - 1) = 0
      BY <2>4, <2>5
    <3>2. sample_offset' = part.offsets[d] /\ sample_offset' \in Nat
      BY <1>1, <1>4
    <3> QED BY <3>1, <3>2
  <2>7. ASSUME Ascends(u)
        PROVE  /\ d = Len(relative_offsets'[u])
               /\ payload_size' = relative_offsets'[u][d]
                    + SizeBetween(ClearSizes(u), before, sample_index' - 1)
    BY <1>1, <1>5, <1>7, <1>10, <2>4, <2>5, <2>7
  <2>8. movie'.tracks[u] = part
    BY <1>1
  <2>9. Len(todo') <= SampleCount(part, d)
    BY <1>9, <2>1
  <2> HIDE DEF part, before
  <2>10. chunk'.track = u /\ chunk'.number = d
    BY <1>8
  <2>11. ClearSizes(chunk.track)' = ClearSizes(u) /\ Ascends(chunk.track)' = Ascends(u)
    <3> HIDE DEF u
    <3> QED BY <1>1, <2>10 DEF ClearSizes, ClearSize, Ascends
  <2> HIDE DEF u, d
  <2> QED BY <2>1, <2>3, <2>6, <2>7, <2>8, <2>9, <2>10, <2>11 DEF InHand, before
<1>13. ASSUME NEW t \in Tracks, Ascends(t) PROVE TrackInv(t)'
  <2> DEFINE track == movie.tracks[t]
             m == Len(relative_offsets[t])
  <2>1. /\ m <= Len(track.offsets) /\ m \in Nat
        /\ \A q \in DOMAIN chunks :
             chunks[q].track = t => (q <= opened <=> chunks[q].number <= m)
        /\ Len(rebuilt_sample_sizes[t]) = SamplesBefore(track, m + 1) - Pending(t)
        /\ \A i \in DOMAIN rebuilt_sample_sizes[t] : rebuilt_sample_sizes[t][i] = ClearSize(t, i)
        /\ \A c \in 1..m : \A i \in ChunkSamples(track, c) :
             i <= Len(rebuilt_sample_sizes[t]) =>
               \E k \in DOMAIN sample_edits : IsEditOf(k, t, c, i)
    <3>1. TrackInv(t)
      BY <1>13 DEF PlanInv
    <3>2. m \in Nat
      BY <1>5
    <3> QED BY <3>1, <3>2 DEF TrackInv
  <2>2. Pending(t) = 0
    BY <1>1 DEF Pending
  <2>3. track \in MovieTrack /\ IsMapped(track)
    BY MovieIs DEF ChunksInv
  <2>4. SamplesBefore(track, m + 1) \in Nat
    <3>1. m + 1 \in 1..Len(track.offsets) + 1
      BY <2>1, <2>3 DEF MovieTrack
    <3> QED BY <2>3, <3>1, ChunksShare
  <2>5. Len(rebuilt_sample_sizes[t]) = SamplesBefore(track, m + 1)
    BY <2>1, <2>2, <2>4
  <2>6. \A i : ClearSize(t, i)' = ClearSize(t, i)
    BY <1>1 DEF ClearSize
  <2>7. ASSUME NEW c \in 1..m, relative_offsets'[t][c] = relative_offsets[t][c],
               NEW k, NEW i, IsEditOf(k, t, c, i)
        PROVE  IsEditOf(k, t, c, i)'
    BY <1>1, <2>7 DEF IsEditOf, EditSizes, ClearSizes, ClearSize, Process
  <2>8. CASE t # u
    <3>1. relative_offsets'[t] = relative_offsets[t] /\ Pending(t)' = 0
      BY <1>6, <1>8, <2>8 DEF Pending
    <3>2. \A q \in DOMAIN chunks :
            chunks[q].track = t => (q <= p <=> chunks[q].number <= m)
      <4>1. \A q \in DOMAIN chunks : chunks[q].track = t => q # p
        BY <2>8
      <4>2. \A q \in DOMAIN chunks : q \in Nat
        BY <1>2
      <4>3. \A q \in DOMAIN chunks : chunks[q].track = t => (q <= p <=> q <= opened)
        BY <1>2, <4>1, <4>2
      <4> QED BY <2>1, <4>3
    <3>3. \A c \in 1..m : \A i \in ChunkSamples(track, c) :
            i <= Len(rebuilt_sample_sizes'[t]) =>
              \E k \in DOMAIN sample_edits' : IsEditOf(k, t, c, i)'
      BY <1>1, <2>1, <2>7, <3>1
    <3>4. Len(rebuilt_sample_sizes'[t]) = SamplesBefore(track, m + 1) - Pending(t)'
      BY <1>1, <2>4, <2>5, <3>1
    <3>5. movie'.tracks[t] = track /\ Len(relative_offsets'[t]) = m
      BY <1>1, <3>1
    <3> HIDE DEF track, m, p
    <3> QED BY <1>1, <2>1, <2>6, <3>2, <3>3, <3>4, <3>5 DEF TrackInv
  <2>9. CASE t = u
    <3>1. m = n /\ d = n + 1 /\ Len(relative_offsets'[t]) = m + 1 /\ track = part
      BY <1>7, <1>10, <1>13, <2>9
    <3>2. m + 1 <= Len(track.offsets)
      BY <1>4, <2>9, <3>1
    <3>3. \A q \in DOMAIN chunks :
            chunks[q].track = t => (q <= p <=> chunks[q].number <= m + 1)
      <4> SUFFICES ASSUME NEW q \in DOMAIN chunks, chunks[q].track = t
                   PROVE  q <= p <=> chunks[q].number <= m + 1
        OBVIOUS
      <4>1. q \in Nat /\ p \in Nat /\ chunks[q].number \in Nat
        BY <1>2 DEF ChunksInv
      <4>2. CASE q <= opened
        BY <1>2, <2>1, <4>1, <4>2
      <4>3. CASE q = p
        BY <2>9, <3>1, <4>1, <4>3
      <4>4. CASE q > p
        <5>1. chunks[p].number < chunks[q].number
          BY <1>2, <1>13, <2>9, <4>4, NumbersAscend
        <5> QED BY <2>9, <3>1, <4>1, <4>4, <5>1
      <4> QED BY <1>2, <4>1, <4>2, <4>3, <4>4
    <3>4. Len(rebuilt_sample_sizes'[t]) = SamplesBefore(track, (m + 1) + 1) - Pending(t)'
      <4>1. Pending(t)' = SampleCount(part, d)
        <5>1. chunk'.track = t
          BY <1>8, <2>9
        <5>2. todo' = << >> => Len(todo') = 0
          OBVIOUS
        <5>3. Len(todo') = SampleCount(part, d)
          BY <1>1, <1>4
        <5> QED BY <5>1, <5>2, <5>3 DEF Pending
      <4>2. SamplesBefore(track, (m + 1) + 1) = before + SampleCount(part, d)
            /\ before = SamplesBefore(track, m + 1)
        BY <1>9, <3>1
      <4>3. Len(rebuilt_sample_sizes'[t]) = before
        BY <1>1, <2>5, <4>2
      <4> HIDE DEF before, part, d
      <4> QED BY <1>9, <4>1, <4>2, <4>3
    <3>5. ASSUME NEW c \in 1..m + 1, NEW i \in ChunkSamples(track, c),
                 i <= Len(rebuilt_sample_sizes'[t])
          PROVE  \E k \in DOMAIN sample_edits' : IsEditOf(k, t, c, i)'
      <4>1. CASE c = m + 1
        <5>1. i > SamplesBefore(track, m + 1)
          BY <2>4, <3>5, <4>1 DEF ChunkSamples
        <5> QED BY <1>1, <2>4, <2>5, <3>5, <5>1 DEF ChunkSamples
      <4>2. CASE c # m + 1
        <5>1. c \in 1..m
          BY <2>1, <4>2
        <5>2. relative_offsets'[t][c] = relative_offsets[t][c]
          BY <1>7, <2>9, <5>1
        <5>3. PICK k \in DOMAIN sample_edits : IsEditOf(k, t, c, i)
          BY <1>1, <2>1, <3>5, <5>1
        <5> QED BY <1>1, <2>7, <5>1, <5>2, <5>3
      <4> QED BY <4>1, <4>2
    <3>6. movie'.tracks[t] = track
      BY <1>1
    <3> HIDE DEF track, m, p
    <3> QED BY <1>1, <2>1, <2>6, <3>1, <3>2, <3>3, <3>4, <3>5, <3>6 DEF TrackInv
  <2> QED BY <2>8, <2>9
<1>14. \A t : Ascends(t)' = Ascends(t)
  BY <1>1 DEF Ascends
<1> QED BY <1>8, <1>11, <1>12, <1>13, <1>14 DEF PlanInv
-----------------------------------------------------------------------------
(* A sample is planned.                                                    *)

(* No media lies in front of the first header.                             *)
LEMMA MediaLiesBehind ==
  ASSUME movie \in Movies, NEW start \in Nat, NEW end, IsInMdat(start, end)
  PROVE  start # 0
<1>1. PICK b \in DOMAIN movie.boxes : BoxOffset(b) + SmallHeader <= start
  BY DEF IsInMdat, MdatRanges
<1> DEFINE f == [i \in DOMAIN movie.boxes |-> movie.boxes[i].size]
<1>2. b - 1 \in Nat /\ \A j \in 1..b - 1 : f[j] \in Nat
  BY MovieIs
<1> HIDE DEF f
<1>3. SumTo(f, b - 1) \in Nat
  <2>1. SumTo(f, b - 1) \in Int /\ 0 \in 0..b - 1
    BY <1>2, SumToIs
  <2>2. SumTo(f, b - 1) >= 0
    <3>1. SumTo(f, 0) = 0
      BY SumToIs
    <3>2. SumTo(f, 0) \in 0..SumTo(f, b - 1)
      BY <1>2, <2>1, SumToNat
    <3> QED BY <2>1, <3>1, <3>2
  <2> QED BY <2>1, <2>2
<1>4. BoxOffset(b) = SumTo(f, b - 1)
  BY DEF BoxOffset, f
<1> QED BY <1>1, <1>3, <1>4 DEF SmallHeader

(* The sample in hand: sample i of chunk c of track t.                     *)
IsInHand(t, c, i) ==
  LET track == movie.tracks[t]
      before == SamplesBefore(track, c)
      count == SampleCount(track, c)
  IN  /\ chunk.track = t /\ chunk.number = c /\ sample_index = i
      /\ opened \in DOMAIN chunks /\ t \in Tracks
      /\ track \in MovieTrack /\ IsMapped(track)
      /\ c \in 1..Len(track.offsets) /\ Len(track.offsets) \in Nat
      /\ before \in Nat /\ count \in Nat /\ before + count <= Len(track.sizes)
      /\ SamplesBefore(track, c + 1) = before + count
      /\ i = before + count - Len(todo) + 1 /\ Len(todo) \in 1..count
      /\ i \in before + 1..before + count /\ i \in 1..Len(track.sizes)
      /\ Len(track.sizes) \in Nat
      /\ Head(todo) = track.sizes[i] /\ Head(todo) \in Nat
      /\ ClearSize(t, i) \in Nat

LEMMA SampleIsInHand ==
  ASSUME movie \in Movies, ChunksInv, PlanInv, todo # << >>
  PROVE  IsInHand(chunk.track, chunk.number, sample_index)
<1> DEFINE t == chunk.track
           c == chunk.number
           track == movie.tracks[t]
           before == SamplesBefore(track, c)
           count == SampleCount(track, c)
           i == sample_index
<1>1. /\ opened > 0 /\ Len(todo) <= count
      /\ \A n \in DOMAIN todo : todo[n] = track.sizes[i + n - 1]
  BY DEF PlanInv, InHand
<1>2. opened \in 0..Len(chunks) /\ todo \in Seq(Nat)
  BY DEF PlanInv, PlanTypes
<1>3. opened \in DOMAIN chunks
  BY <1>1, <1>2 DEF ChunksInv
<1>4. IsChunk(chunks[opened], t, c)
  BY <1>3, ChunkIs DEF chunk
<1>5. /\ t \in Tracks /\ track \in MovieTrack /\ IsMapped(track)
      /\ c \in 1..Len(track.offsets) /\ Len(track.offsets) \in Nat
      /\ Len(chunk.sizes) = count
  BY <1>4 DEF IsChunk, chunk
<1>6. /\ before \in Nat /\ count \in Nat /\ before + count <= Len(track.sizes)
      /\ SamplesBefore(track, c + 1) = before + count
      /\ Len(track.sizes) \in Nat
  <2>1. c \in 1..Len(track.offsets) + 1 /\ c + 1 \in 1..Len(track.offsets) + 1
    BY <1>5
  <2>2. before \in 0..Len(track.sizes) /\ SamplesBefore(track, c + 1) \in 0..Len(track.sizes)
    BY <1>5, <2>1, ChunksShare
  <2>3. count \in Nat /\ SamplesBefore(track, c + 1) = before + count /\ Len(track.sizes) \in Nat
    BY <1>5, ChunksShare
  <2> QED BY <2>2, <2>3
<1>7. Len(todo) \in Nat /\ Len(todo) # 0 /\ Head(todo) = todo[1] /\ Head(todo) \in Nat
      /\ 1 \in DOMAIN todo
  BY <1>2
<1>8. i = before + count - Len(todo) + 1
  BY <1>5 DEF sample_index
<1> HIDE DEF before, count, i, track, c, t
<1>9. /\ Len(todo) \in 1..count /\ i \in before + 1..before + count
      /\ i \in 1..Len(track.sizes) /\ i + 1 - 1 = i
  BY <1>1, <1>6, <1>7, <1>8
<1>10. Head(todo) = track.sizes[i]
  BY <1>1, <1>7, <1>9
<1>11. ClearSize(t, i) \in Nat
  BY <1>5, <1>9, ClearSizeIs DEF track
<1> QED BY <1>3, <1>5, <1>6, <1>7, <1>8, <1>9, <1>10, <1>11
        DEF IsInHand, t, c, i, track, before, count

(* The sums over the edits so far stay what they are.                      *)
LEMMA PlannedEdit ==
  ASSUME movie \in Movies, PlanTypes, NEW e \in Edit, sample_edits' = Append(sample_edits, e)
  PROVE  /\ sample_edits' \in Seq(Edit) /\ Len(sample_edits) \in Nat
         /\ Len(sample_edits') = Len(sample_edits) + 1
         /\ sample_edits'[Len(sample_edits) + 1] = e
         /\ \A k \in DOMAIN sample_edits : sample_edits'[k] = sample_edits[k]
         /\ DOMAIN sample_edits = 1..Len(sample_edits)
         /\ DOMAIN sample_edits' = 1..Len(sample_edits) + 1
         /\ SumTo(EditSizes', Len(sample_edits) + 1) = payload_size + e.clear_size
         /\ \A m \in 0..Len(sample_edits) : SumTo(EditSizes', m) = SumTo(EditSizes, m)
<1> DEFINE s == sample_edits
           n == Len(s)
<1>1. s \in Seq(Edit) /\ payload_size = SumTo(EditSizes, n)
  BY DEF PlanTypes
<1>2. s' = Append(s, e)
  OBVIOUS
<1>10. EditSizes = [k \in DOMAIN s |-> s[k].clear_size]
       /\ EditSizes' = [k \in DOMAIN s' |-> s'[k].clear_size]
  BY DEF EditSizes
<1> HIDE DEF s
<1>3. /\ s' \in Seq(Edit) /\ n \in Nat /\ Len(s') = n + 1 /\ s'[n + 1] = e
      /\ \A k \in 1..n : s'[k] = s[k] /\ s[k] \in Edit
      /\ DOMAIN s = 1..n /\ DOMAIN s' = 1..n + 1
  BY <1>1, <1>2
<1> HIDE DEF n
<1>4. \A j \in 1..n : EditSizes[j] \in Int /\ EditSizes'[j] = EditSizes[j]
  <2>1. \A one \in Edit : one.clear_size \in Int
    BY DEF Edit
  <2> QED BY <1>3, <1>10, <2>1
<1>5. EditSizes'[n + 1] = e.clear_size /\ e.clear_size \in Int
  <2>1. n + 1 \in 1..n + 1
    BY <1>3
  <2> QED BY <1>3, <1>10, <2>1 DEF Edit
<1> DEFINE f == EditSizes
           g == EditSizes'
<1>6. /\ \A j \in 1..n : f[j] \in Int /\ g[j] = f[j]
      /\ g[n + 1] \in Int
  BY <1>4, <1>5
<1>7. f = EditSizes /\ g = EditSizes'
  OBVIOUS
<1> HIDE DEF f, g
<1>8. SumTo(g, n + 1) = SumTo(f, n) + g[n + 1] /\ \A m \in 0..n : SumTo(g, m) = SumTo(f, m)
  BY <1>3, <1>6, SumOfAppended
<1> QED BY <1>1, <1>3, <1>5, <1>7, <1>8 DEF s, n

(* A number that comes behind i - 1 others is the i-th, and the others stay.*)
LEMMA AppendedIs ==
  ASSUME NEW old \in Seq(Nat), NEW x \in Nat, NEW i \in Nat, i - 1 \in Nat, Len(old) = i - 1
  PROVE  /\ Len(Append(old, x)) = i /\ DOMAIN Append(old, x) = 1..i
         /\ DOMAIN old = 1..i - 1
         /\ Append(old, x)[i] = x
         /\ \A j \in 1..i - 1 : Append(old, x)[j] = old[j]
<1>1. Append(old, x) \in Seq(Nat) /\ Len(Append(old, x)) = Len(old) + 1
  OBVIOUS
<1>2. Len(Append(old, x)) = i
  BY <1>1
<1>3. DOMAIN Append(old, x) = 1..Len(Append(old, x)) /\ DOMAIN old = 1..Len(old)
  BY <1>1
<1>4. Append(old, x)[Len(old) + 1] = x /\ \A j \in 1..Len(old) : Append(old, x)[j] = old[j]
  OBVIOUS
<1>5. Len(old) + 1 = i
  OBVIOUS
<1> QED BY <1>2, <1>3, <1>4, <1>5

(* What the step does to the tables of the track of the sample.            *)
LEMMA PlanHolds ==
  ASSUME movie \in Movies, ChunksInv, PlanInv, PlanSample
  PROVE  PlanInv'
<1> DEFINE t == chunk.track
           c == chunk.number
           i == sample_index
           track == movie.tracks[t]
           before == SamplesBefore(track, c)
           count == SampleCount(track, c)
           clear == ClearSize(t, i)
           e == [offset |-> sample_offset, size |-> Head(todo), process |-> Process(t),
                 clear_size |-> clear]
           last == Len(sample_edits)
<1>1. /\ todo # << >> /\ IsInMdat(sample_offset, sample_end)
      /\ rebuilt_sample_sizes' = [rebuilt_sample_sizes EXCEPT ![t] = Append(@, clear)]
      /\ sample_edits' = Append(sample_edits, e)
      /\ payload_size' = payload_size + clear
      /\ todo' = Tail(todo) /\ sample_offset' = sample_offset + Head(todo)
      /\ UNCHANGED << movie, chunks, opened, relative_offsets >>
  BY DEF PlanSample, sample_end
<1>2. IsInHand(t, c, i)
  BY <1>1, SampleIsInHand
<1>3. /\ opened \in DOMAIN chunks /\ t \in Tracks
      /\ track \in MovieTrack /\ IsMapped(track)
      /\ c \in 1..Len(track.offsets) /\ Len(track.offsets) \in Nat
      /\ before \in Nat /\ count \in Nat /\ before + count <= Len(track.sizes)
      /\ SamplesBefore(track, c + 1) = before + count
      /\ i = before + count - Len(todo) + 1 /\ Len(todo) \in 1..count
      /\ i \in before + 1..before + count /\ i \in 1..Len(track.sizes)
      /\ Len(track.sizes) \in Nat
      /\ Head(todo) = track.sizes[i] /\ Head(todo) \in Nat
      /\ clear \in Nat
  BY <1>2 DEF IsInHand
<1>4. /\ PlanTypes /\ opened \in 0..Len(chunks)
      /\ todo \in Seq(Nat) /\ sample_offset \in Nat /\ payload_size \in Nat
      /\ relative_offsets \in [Tracks -> Seq(Nat)]
      /\ rebuilt_sample_sizes \in [Tracks -> Seq(Nat)]
  BY DEF PlanInv, PlanTypes
<1>5. e \in Edit
  <2>1. sample_offset \in Nat \ {0}
    BY <1>1, <1>4, MediaLiesBehind
  <2>2. Process(t) \in {"decrypt", "copy"}
    BY DEF Process
  <2> HIDE DEF clear, t
  <2> QED BY <1>3, <2>1, <2>2 DEF Edit
<1>6. /\ sample_edits' \in Seq(Edit) /\ last \in Nat
      /\ Len(sample_edits') = last + 1 /\ sample_edits'[last + 1] = e
      /\ \A k \in DOMAIN sample_edits : sample_edits'[k] = sample_edits[k]
      /\ DOMAIN sample_edits = 1..last
      /\ DOMAIN sample_edits' = 1..last + 1
      /\ SumTo(EditSizes', last + 1) = payload_size + clear
      /\ \A m \in 0..last : SumTo(EditSizes', m) = SumTo(EditSizes, m)
  <2>1. e.clear_size = clear
    OBVIOUS
  <2> HIDE DEF e
  <2> QED BY <1>1, <1>4, <1>5, <2>1, PlannedEdit
<1>7. /\ rebuilt_sample_sizes' \in [Tracks -> Seq(Nat)]
      /\ \A u \in Tracks : u # t => rebuilt_sample_sizes'[u] = rebuilt_sample_sizes[u]
      /\ rebuilt_sample_sizes'[t] = Append(rebuilt_sample_sizes[t], clear)
  <2> DEFINE r == rebuilt_sample_sizes
  <2>1. r' = [r EXCEPT ![t] = Append(r[t], clear)]
    BY <1>1
  <2>2. r \in [Tracks -> Seq(Nat)] /\ t \in Tracks /\ clear \in Nat
    BY <1>3, <1>4
  <2> HIDE DEF clear, t, r
  <2>3. Append(r[t], clear) \in Seq(Nat)
    BY <2>2
  <2>4. r' \in [Tracks -> Seq(Nat)] /\ r'[t] = Append(r[t], clear)
        /\ \A u \in Tracks : u # t => r'[u] = r[u]
    BY <2>1, <2>2, <2>3
  <2> QED BY <2>4 DEF r
<1>17. i \in Nat /\ c \in Nat /\ c > 0 /\ i > before /\ i - 1 \in Nat /\ (i - 1) + 1 = i
  <2>1. /\ before \in Nat /\ count \in Nat /\ i \in before + 1..before + count
        /\ c \in 1..Len(track.offsets) /\ Len(track.offsets) \in Nat
    BY <1>3
  <2> HIDE DEF before, count, i, c, track
  <2> QED BY <2>1
<1>8. /\ Tail(todo) \in Seq(Nat) /\ Len(Tail(todo)) = Len(todo) - 1 /\ Len(todo) \in Nat
      /\ \A n \in 1..Len(todo) - 1 : Tail(todo)[n] = todo[n + 1]
  BY <1>1, <1>4
<1>9. chunk' = chunk /\ Tracks' = Tracks
  BY <1>1 DEF chunk, Tracks
<1>10. PlanTypes'
  <2>1. payload_size + clear \in Nat /\ sample_offset + Head(todo) \in Nat
    <3>1. clear \in Nat /\ Head(todo) \in Nat /\ sample_offset \in Nat /\ payload_size \in Nat
      BY <1>3, <1>4
    <3> HIDE DEF clear
    <3> QED BY <3>1
  <2>2. payload_size' = SumTo(EditSizes', Len(sample_edits'))
    BY <1>1, <1>6
  <2> QED BY <1>1, <1>4, <1>6, <1>7, <1>8, <1>9, <2>1, <2>2 DEF PlanTypes
<1>11. /\ SizeBetween(track.sizes, before, i) = SizeBetween(track.sizes, before, i - 1) + track.sizes[i]
       /\ SizeBetween(ClearSizes(t), before, i)
            = SizeBetween(ClearSizes(t), before, i - 1) + clear
       /\ SizeBetween(track.sizes, before, i - 1) \in Nat
       /\ SizeBetween(ClearSizes(t), before, i - 1) \in Nat
  <2> DEFINE n == Len(track.sizes)
             f == track.sizes
             g == ClearSizes(t)
  <2>1. /\ \A j \in 1..n : f[j] \in Nat /\ g[j] \in Nat
        /\ g[i] = clear
    BY <1>3, ClearSizeIs
  <2>2. before \in 0..n /\ i - 1 \in before..n /\ i - 1 < n /\ (i - 1) + 1 = i /\ n \in Nat
    <3> HIDE DEF before, i, count, track
    <3> QED BY <1>3
  <2> HIDE DEF n, f, g, i, before, clear
  <2>3. SizeBetween(f, before, i - 1) \in Nat
        /\ SizeBetween(f, before, (i - 1) + 1) = SizeBetween(f, before, i - 1) + f[(i - 1) + 1]
    BY <2>1, <2>2, BetweenIs
  <2>4. SizeBetween(g, before, i - 1) \in Nat
        /\ SizeBetween(g, before, (i - 1) + 1) = SizeBetween(g, before, i - 1) + g[(i - 1) + 1]
    BY <2>1, <2>2, BetweenIs
  <2> QED BY <2>1, <2>2, <2>3, <2>4 DEF f, g
<1>12. /\ \A n \in DOMAIN todo : todo[n] = track.sizes[i + n - 1]
       /\ sample_offset = track.offsets[c] + SizeBetween(track.sizes, before, i - 1)
       /\ Ascends(t) =>
            /\ c = Len(relative_offsets[t])
            /\ payload_size = relative_offsets[t][c] + SizeBetween(ClearSizes(t), before, i - 1)
  BY <1>1 DEF PlanInv, InHand
<1>13. track.offsets[c] \in Nat
  <2>1. IsChunk(chunks[opened], t, c)
    BY <1>3, ChunkIs DEF chunk
  <2>2. chunks[opened].offset = track.offsets[c] /\ chunks[opened].offset \in Nat
    BY <2>1 DEF IsChunk
  <2> QED BY <2>2
<1> HIDE DEF e, clear, last
<1>14. InHand'
  <2> SUFFICES ASSUME todo' # << >> PROVE InHand'
    BY DEF InHand
  <2>1. Len(todo') <= count /\ opened' > 0
    <3>1. opened > 0
      BY <1>1 DEF PlanInv, InHand
    <3> HIDE DEF before, i, count, track, t, c
    <3> QED BY <1>1, <1>3, <1>8, <3>1
  <2>2. sample_index' = i + 1
    <3>1. sample_index' = before + Len(chunk.sizes) - Len(Tail(todo)) + 1
      BY <1>1, <1>9 DEF sample_index
    <3>2. i = before + Len(chunk.sizes) - Len(todo) + 1
      BY DEF sample_index
    <3>3. Len(chunk.sizes) = count
      <4>1. IsChunk(chunks[opened], t, c)
        BY <1>3, ChunkIs DEF chunk
      <4> QED BY <4>1 DEF IsChunk, chunk
    <3> HIDE DEF before, i, count, track, t, c
    <3> QED BY <1>3, <1>8, <3>1, <3>2, <3>3
  <2> HIDE DEF before, i, count
  <2>3. \A n \in DOMAIN todo' : todo'[n] = track.sizes[sample_index' + n - 1]
    <3> SUFFICES ASSUME NEW n \in DOMAIN todo' PROVE todo'[n] = track.sizes[sample_index' + n - 1]
      OBVIOUS
    <3>1. n \in 1..Len(todo) - 1 /\ todo'[n] = todo[n + 1]
      BY <1>1, <1>8
    <3>2. n + 1 \in DOMAIN todo /\ i + (n + 1) - 1 = i + 1 + n - 1
      <4>1. DOMAIN todo = 1..Len(todo)
        BY <1>4
      <4>2. n \in 1..Len(todo) - 1 /\ Len(todo) \in Nat /\ i \in Nat
        BY <1>8, <1>17, <3>1
      <4> QED BY <4>1, <4>2
    <3> QED BY <1>12, <2>2, <3>1, <3>2
  <2>4. sample_index' - 1 = i
    BY <1>3, <2>2
  <2>5. sample_offset' = track.offsets[c] + SizeBetween(track.sizes, before, sample_index' - 1)
    <3>1. sample_offset' = sample_offset + track.sizes[i]
      BY <1>1, <1>3
    <3>2. track.sizes[i] \in Nat
      BY <1>3
    <3> HIDE DEF track
    <3> QED BY <1>11, <1>12, <1>13, <2>4, <3>1, <3>2
  <2>6. ASSUME Ascends(t)
        PROVE  /\ c = Len(relative_offsets'[t])
               /\ payload_size' = relative_offsets'[t][c]
                    + SizeBetween(ClearSizes(t), before, sample_index' - 1)
    <3>1. c = Len(relative_offsets[t])
          /\ payload_size = relative_offsets[t][c] + SizeBetween(ClearSizes(t), before, i - 1)
      BY <1>12, <2>6
    <3>2. relative_offsets[t][c] \in Nat
      <4> DEFINE r == relative_offsets[t]
      <4>1. r \in Seq(Nat) /\ c = Len(r) /\ c \in Nat /\ c > 0
        <5>1. r \in Seq(Nat)
          BY <1>3, <1>4
        <5> QED BY <1>17, <3>1, <5>1
      <4> HIDE DEF r, t, c
      <4>2. r[c] \in Nat
        BY <4>1
      <4> QED BY <4>2 DEF r
    <3> HIDE DEF t, c
    <3>3. payload_size' = payload_size + clear /\ relative_offsets' = relative_offsets
      BY <1>1
    <3>4. clear \in Nat
      BY <1>3
    <3> QED BY <1>11, <2>4, <3>1, <3>2, <3>3, <3>4
  <2>7. movie'.tracks[t] = track
    BY <1>1
  <2>8. chunk'.track = t /\ chunk'.number = c
    BY <1>9
  <2> HIDE DEF t, c, track
  <2>9. ClearSizes(chunk.track)' = ClearSizes(t) /\ Ascends(chunk.track)' = Ascends(t)
    BY <1>1, <2>8 DEF ClearSizes, ClearSize, Ascends
  <2> QED BY <2>1, <2>3, <2>5, <2>6, <2>7, <2>8, <2>9 DEF InHand, before, count
<1>15. ASSUME NEW u \in Tracks, Ascends(u) PROVE TrackInv(u)'
  <2> DEFINE part == movie.tracks[u]
             m == Len(relative_offsets[u])
             old == rebuilt_sample_sizes[u]
  <2>1. /\ m <= Len(part.offsets) /\ m \in Nat
        /\ \A q \in DOMAIN chunks :
             chunks[q].track = u => (q <= opened <=> chunks[q].number <= m)
        /\ Len(old) = SamplesBefore(part, m + 1) - Pending(u)
        /\ \A j \in DOMAIN old : old[j] = ClearSize(u, j)
        /\ \A d \in 1..m : \A j \in ChunkSamples(part, d) :
             j <= Len(old) => \E k \in DOMAIN sample_edits : IsEditOf(k, u, d, j)
    <3>1. TrackInv(u)
      BY <1>15 DEF PlanInv
    <3>2. m \in Nat
      BY <1>4
    <3> QED BY <3>1, <3>2 DEF TrackInv
  <2>2. \A j : ClearSize(u, j)' = ClearSize(u, j)
    BY <1>1 DEF ClearSize
  <2>3. ASSUME NEW k \in DOMAIN sample_edits, NEW d, NEW j, IsEditOf(k, u, d, j)
        PROVE  IsEditOf(k, u, d, j)'
    <3>1. sample_edits'[k] = sample_edits[k]
      BY <1>6
    <3>2. SumTo(EditSizes', k - 1) = SumTo(EditSizes, k - 1)
      <4>1. k - 1 \in 0..last
        BY <1>6
      <4> QED BY <1>6, <4>1
    <3>3. /\ sample_edits[k] = [offset |-> part.offsets[d]
                                      + SizeBetween(part.sizes, SamplesBefore(part, d), j - 1),
                                size |-> part.sizes[j], process |-> Process(u),
                                clear_size |-> ClearSize(u, j)]
          /\ SumTo(EditSizes, k - 1)
               = relative_offsets[u][d] + SizeBetween(ClearSizes(u), SamplesBefore(part, d), j - 1)
      BY <2>3 DEF IsEditOf
    <3>4. movie'.tracks[u] = part /\ relative_offsets' = relative_offsets
      BY <1>1
    <3>5. ClearSizes(u)' = ClearSizes(u) /\ Process(u)' = Process(u) /\ ClearSize(u, j)' = ClearSize(u, j)
      BY <1>1 DEF ClearSizes, ClearSize, Process
    <3> HIDE DEF part
    <3> QED BY <3>1, <3>2, <3>3, <3>4, <3>5 DEF IsEditOf
  <2>4. movie'.tracks[u] = part /\ Len(relative_offsets'[u]) = m
    BY <1>1
  <2>5. CASE u # t
    <3>1. rebuilt_sample_sizes'[u] = old /\ Pending(u) = 0 /\ Pending(u)' = 0
      BY <1>7, <1>9, <2>5 DEF Pending
    <3>2. \A d \in 1..m : \A j \in ChunkSamples(part, d) :
            j <= Len(old) => \E k \in DOMAIN sample_edits' : IsEditOf(k, u, d, j)'
      <4> SUFFICES ASSUME NEW d \in 1..m, NEW j \in ChunkSamples(part, d), j <= Len(old)
                   PROVE  \E k \in DOMAIN sample_edits' : IsEditOf(k, u, d, j)'
        OBVIOUS
      <4>1. PICK k \in DOMAIN sample_edits : IsEditOf(k, u, d, j)
        BY <2>1
      <4>2. k \in DOMAIN sample_edits'
        BY <1>6
      <4> QED BY <2>3, <4>1, <4>2
    <3> HIDE DEF part, m, old, t
    <3> QED BY <1>1, <2>1, <2>2, <2>4, <3>1, <3>2 DEF TrackInv
  <2>6. CASE u = t
    <3>1. m = c /\ part = track
      BY <1>12, <1>15, <2>6
    <3>2. Pending(u) = Len(todo) /\ Pending(u)' = Len(todo) - 1
      <4>1. Pending(u) = Len(todo)
        BY <1>1, <2>6 DEF Pending
      <4>2. Pending(u)' = IF Tail(todo) # << >> THEN Len(Tail(todo)) ELSE 0
        BY <1>1, <1>9, <2>6 DEF Pending
      <4>3. Tail(todo) = << >> <=> Len(Tail(todo)) = 0
        <5> DEFINE rest == Tail(todo)
        <5>1. rest \in Seq(Nat)
          BY <1>8
        <5> HIDE DEF rest
        <5>2. rest = << >> <=> Len(rest) = 0
          BY <5>1
        <5> QED BY <5>2 DEF rest
      <4> QED BY <1>8, <4>1, <4>2, <4>3
    <3>3. Len(old) = i - 1 /\ old \in Seq(Nat)
      <4>1. old \in Seq(Nat)
        BY <1>4
      <4>2. Len(old) = before + count - Len(todo)
        BY <1>3, <2>1, <3>1, <3>2
      <4> HIDE DEF before, count, i, t, c
      <4> QED BY <1>3, <1>8, <4>1, <4>2
    <3> DEFINE new == rebuilt_sample_sizes'[u]
    <3>4. new = Append(old, clear)
      BY <1>7, <2>6
    <3>5. clear = ClearSize(u, i)
      BY <2>6 DEF clear
    <3>6. i - 1 \in Nat /\ i \in Nat /\ (i - 1) + 1 = i
      <4> HIDE DEF before, count, i, t, c
      <4> QED BY <1>3
    <3> HIDE DEF i
    <3>7. /\ Len(new) = i /\ DOMAIN new = 1..i
          /\ \A j \in DOMAIN new : new[j] = ClearSize(u, j)
      <4> HIDE DEF old, new
      <4>1. /\ Len(new) = i /\ DOMAIN new = 1..i /\ new[i] = clear
            /\ DOMAIN old = 1..i - 1
            /\ \A j \in 1..i - 1 : new[j] = old[j]
        <5>1. clear \in Nat
          BY <1>3
        <5> HIDE DEF clear
        <5>2. Len(old) = i - 1 /\ old \in Seq(Nat) /\ i \in Nat /\ i - 1 \in Nat
          BY <3>3, <3>6
        <5> QED BY <3>4, <5>1, <5>2, AppendedIs
      <4> QED BY <2>1, <3>5, <3>6, <4>1
    <3>8. Len(new) = SamplesBefore(part, m + 1) - Pending(u)'
      <4>1. SamplesBefore(part, m + 1) = before + count
        BY <1>3, <3>1
      <4> HIDE DEF before, count, t, c, new, part, m
      <4> QED BY <1>3, <1>8, <3>2, <3>7, <4>1
    <3>9. ASSUME NEW d \in 1..m, NEW j \in ChunkSamples(part, d), j <= i
          PROVE  \E k \in DOMAIN sample_edits' : IsEditOf(k, u, d, j)'
      <4>1. j \in Nat /\ d \in Nat
        <5>1. d \in 1..Len(track.offsets) /\ d \in 1..Len(track.offsets) + 1
          <6> DEFINE offsets == Len(track.offsets)
          <6>1. c \in 1..offsets /\ offsets \in Nat /\ d \in 1..c
            BY <1>3, <3>1
          <6> HIDE DEF offsets, c
          <6>2. d \in 1..offsets /\ d \in 1..offsets + 1
            BY <6>1
          <6> QED BY <6>2 DEF offsets
        <5>2. SamplesBefore(track, d) \in Nat /\ SampleCount(track, d) \in Nat
          <6>1. track \in MovieTrack /\ IsMapped(track)
            BY <1>3
          <6>2. SampleCount(track, d) \in Nat /\ SamplesBefore(track, d) \in 0..Len(track.sizes)
            BY <5>1, <6>1, ChunksShare
          <6> QED BY <6>2
        <5> QED BY <3>1, <3>9, <5>1, <5>2 DEF ChunkSamples
      <4>2. CASE j <= i - 1
        <5>1. PICK k \in DOMAIN sample_edits : IsEditOf(k, u, d, j)
          BY <2>1, <3>3, <4>2
        <5>2. k \in DOMAIN sample_edits'
          BY <1>6
        <5> QED BY <2>3, <5>1, <5>2
      <4>3. CASE j = i
        <5>1. d = c
          <6> SUFFICES ASSUME d < c PROVE FALSE
            BY <1>3, <3>1, <4>1
          <6>1. d \in 1..Len(track.offsets) /\ d + 1 \in 1..c /\ c \in 1..Len(track.offsets) + 1
            <7> DEFINE offsets == Len(track.offsets)
            <7>1. c \in 1..offsets /\ offsets \in Nat /\ d \in 1..c /\ d < c
              BY <1>3, <3>1
            <7> HIDE DEF offsets, c
            <7>2. d \in 1..offsets /\ d + 1 \in 1..c /\ c \in 1..offsets + 1
              BY <7>1
            <7> QED BY <7>2 DEF offsets
          <6>2. SamplesBefore(track, d + 1) = SamplesBefore(track, d) + SampleCount(track, d)
                /\ SamplesBefore(track, d + 1) <= before
            BY <1>3, <6>1, ChunksShare
          <6>3. SamplesBefore(track, d) \in Nat /\ SampleCount(track, d) \in Nat
            <7>1. d \in 1..Len(track.offsets) + 1
              <8> DEFINE offsets == Len(track.offsets)
              <8>1. offsets \in Nat /\ d \in 1..offsets
                BY <1>3, <6>1
              <8> HIDE DEF offsets
              <8>2. d \in 1..offsets + 1
                BY <8>1
              <8> QED BY <8>2 DEF offsets
            <7>2. track \in MovieTrack /\ IsMapped(track)
              BY <1>3
            <7>3. SampleCount(track, d) \in Nat /\ SamplesBefore(track, d) \in 0..Len(track.sizes)
              BY <6>1, <7>1, <7>2, ChunksShare
            <7> QED BY <7>3
          <6>4. i <= SamplesBefore(track, d) + SampleCount(track, d)
            BY <3>1, <3>9, <4>3, <6>3 DEF ChunkSamples
          <6>5. before \in Nat /\ i > before
            BY <1>3, <1>17
          <6> HIDE DEF before, track, count, t, c
          <6> QED BY <3>6, <6>2, <6>3, <6>4, <6>5
        <5>9. PICK k \in DOMAIN sample_edits' : k = last + 1
          BY <1>6
        <5>2. k \in DOMAIN sample_edits' /\ k - 1 = last /\ last \in 0..last
          BY <1>6, <5>9
        <5>3. sample_edits'[k] = [offset |-> track.offsets[c] + SizeBetween(track.sizes, before, i - 1),
                                  size |-> track.sizes[i], process |-> Process(t),
                                  clear_size |-> ClearSize(t, i)]
          BY <1>3, <1>6, <1>12, <5>9 DEF e, clear, i
        <5>4. SumTo(EditSizes', k - 1)
                = relative_offsets[t][c] + SizeBetween(ClearSizes(t), before, i - 1)
          <6>1. SumTo(EditSizes', last) = payload_size
            BY <1>4, <1>6, <5>2 DEF PlanTypes, last
          <6> QED BY <1>12, <1>15, <2>6, <5>2, <6>1
        <5>5. movie'.tracks[u] = track /\ relative_offsets' = relative_offsets
          BY <1>1, <2>6
        <5>6. ClearSizes(u)' = ClearSizes(t) /\ Process(u)' = Process(t)
              /\ ClearSize(u, j)' = ClearSize(t, i)
          BY <1>1, <2>6, <4>3 DEF ClearSizes, ClearSize, Process
        <5>7. before = SamplesBefore(track, d)
          BY <5>1
        <5> HIDE DEF track, before, c
        <5>8. IsEditOf(k, u, d, j)'
          <6>1. u = t /\ j = i /\ d = c
            BY <2>6, <4>3, <5>1
          <6> HIDE DEF t
          <6> QED BY <2>2, <5>2, <5>3, <5>4, <5>5, <5>6, <5>7, <6>1 DEF IsEditOf
        <5> QED BY <5>2, <5>8
      <4> QED BY <3>6, <3>9, <4>1, <4>2, <4>3
    <3> HIDE DEF part, m, t
    <3> QED BY <1>1, <2>1, <2>2, <2>4, <3>7, <3>8, <3>9 DEF TrackInv
  <2> QED BY <2>5, <2>6
<1>16. \A u : Ascends(u)' = Ascends(u)
  BY <1>1 DEF Ascends
<1> QED BY <1>9, <1>10, <1>14, <1>15, <1>16 DEF PlanInv
-----------------------------------------------------------------------------
(* The second pass.                                                        *)

(* The header that is written counts itself and the samples.               *)
LEMMA MdatHeaderCounts ==
  ASSUME payload_size \in Nat
  PROVE  /\ EncodedSize(MdatHeader) \in Nat
         /\ Encoded(MdatHeader).field = EncodedSize(MdatHeader) + payload_size
<1> DEFINE h == IF payload_size + SmallHeader <= U32Max THEN SmallHeader ELSE LargeHeader
<1>1. /\ MdatHeader.extend_to_eof = FALSE /\ MdatHeader.size = payload_size + h
      /\ MdatHeader.header_size = h
  BY DEF MdatHeader, NewInfo
<1>2. U32Max \in Nat
  BY U32MaxAssumption
<1>3. EncodedSize(MdatHeader) = h
  <2>1. CASE payload_size + SmallHeader <= U32Max
    BY <1>1, <2>1 DEF EncodedSize, HeaderForm, SmallHeader, LargeHeader
  <2>2. CASE ~ (payload_size + SmallHeader <= U32Max)
    BY <1>1, <2>2 DEF EncodedSize, HeaderForm, SmallHeader, LargeHeader
  <2> QED BY <2>1, <2>2
<1>4. Encoded(MdatHeader).field = payload_size + h
  BY <1>1 DEF Encoded
<1>5. h \in Nat
  BY DEF SmallHeader, LargeHeader
<1> HIDE DEF h
<1> QED BY <1>3, <1>4, <1>5

LEMMA HeadSizesAre ==
  ASSUME movie \in Movies
  PROVE  /\ Len(movie.boxes) \in Nat /\ DOMAIN movie.boxes = 1..Len(movie.boxes)
         /\ \A b \in 1..Len(movie.boxes) : HeadSizes[b] \in Int /\ NewBoxSize(b) \in Int
         /\ SumTo(HeadSizes, 0) = 0
         /\ \A m \in 1..Len(movie.boxes) :
              /\ SumTo(HeadSizes, m - 1) \in Int
              /\ SumTo(HeadSizes, m) = SumTo(HeadSizes, m - 1) + HeadSizes[m]
         /\ MdatPayloadOffset = SumTo(HeadSizes, Len(movie.boxes)) + EncodedSize(MdatHeader)
<1>1. /\ Len(movie.boxes) \in Nat /\ DOMAIN movie.boxes = 1..Len(movie.boxes)
      /\ \A b \in DOMAIN movie.boxes : movie.boxes[b].size \in Nat
      /\ movie.new_ftyp \in Nat /\ movie.moov_growth \in Int
  BY MovieIs
<1>2. \A b \in 1..Len(movie.boxes) : NewBoxSize(b) \in Int
  BY <1>1 DEF NewBoxSize, NewMoovSize
<1>3. \A b \in 1..Len(movie.boxes) : HeadSizes[b] \in Int
  BY <1>1, <1>2 DEF HeadSizes
<1> DEFINE f == HeadSizes
           n == Len(movie.boxes)
<1>4. \A m \in 0..n : /\ SumTo(f, m) \in Int /\ SumTo(f, 0) = 0
                      /\ m > 0 => SumTo(f, m) = SumTo(f, m - 1) + f[m]
  <2> SUFFICES ASSUME NEW m \in 0..n
               PROVE  /\ SumTo(f, m) \in Int /\ SumTo(f, 0) = 0
                      /\ m > 0 => SumTo(f, m) = SumTo(f, m - 1) + f[m]
    OBVIOUS
  <2>1. m \in Nat /\ \A j \in 1..m : f[j] \in Int
    BY <1>1, <1>3
  <2> HIDE DEF f
  <2> QED BY <2>1, SumToIs
<1>5. MdatPayloadOffset = SumTo(f, n) + EncodedSize(MdatHeader)
  <2>1. Len(f) = n
    BY <1>1 DEF HeadSizes
  <2>2. MdatPayloadOffset = Total(f) + EncodedSize(MdatHeader)
    BY DEF MdatPayloadOffset, HeadSizes
  <2> QED BY <2>1, <2>2 DEF Total
<1>6. 0 \in 0..n /\ \A m \in 1..n : m \in 0..n /\ m > 0 /\ m - 1 \in 0..n
  BY <1>1
<1> HIDE DEF f, n
<1> QED BY <1>1, <1>2, <1>3, <1>4, <1>5, <1>6 DEF f, n

(* What the second pass leaves alone.                                      *)
LEMMA TablesKept ==
  ASSUME UNCHANGED << movie, planned >>
  PROVE  /\ Tracks' = Tracks /\ HeadSizes' = HeadSizes
         /\ MdatPayloadOffset' = MdatPayloadOffset /\ MdatHeader' = MdatHeader
         /\ \A t : NewSizes(t)' = NewSizes(t) /\ NewOffsets(t)' = NewOffsets(t)
<1>1. UNCHANGED << movie, rebuilt_sample_sizes, relative_offsets, payload_size >>
  BY DEF planned
<1>2. Tracks' = Tracks /\ HeadSizes' = HeadSizes
  BY <1>1 DEF Tracks, HeadSizes, NewBoxSize, NewMoovSize, IsReplaced, FtypIsPatched
<1>3. MdatHeader' = MdatHeader
  BY <1>1 DEF MdatHeader
<1>4. MdatPayloadOffset' = MdatPayloadOffset
  BY <1>1, <1>3 DEF MdatPayloadOffset, NewBoxSize, NewMoovSize, IsReplaced, FtypIsPatched
<1>5. \A t : NewSizes(t)' = NewSizes(t)
  BY <1>1 DEF NewSizes, IsPatched
<1>6. \A t : NewOffsets(t)' = NewOffsets(t)
  BY <1>1, <1>4 DEF NewOffsets
<1> QED BY <1>2, <1>3, <1>4, <1>5, <1>6

LEMMA TablesInvKept ==
  ASSUME TablesInv, UNCHANGED << movie, chunks, opened, todo, planned, tables >>
  PROVE  TablesInv'
<1>1. Tracks' = Tracks /\ \A t : NewSizes(t)' = NewSizes(t) /\ NewOffsets(t)' = NewOffsets(t)
  BY TablesKept
<1> QED BY <1>1 DEF TablesInv

(* One piece more is out.                                                  *)
LEMMA OutputGrows ==
  ASSUME OutputTypes, NEW e \in Piece, output' = Append(output, e)
  PROVE  /\ OutputTypes' /\ Len(output) \in Nat
         /\ Len(output') = Len(output) + 1 /\ output'[Len(output) + 1] = e
         /\ \A k \in 1..Len(output) : output'[k] = output[k]
         /\ DOMAIN output = 1..Len(output) /\ DOMAIN output' = 1..Len(output) + 1
         /\ SumTo(OutputSizes, Len(output)) \in Int
         /\ SumTo(OutputSizes', Len(output) + 1) = SumTo(OutputSizes, Len(output)) + e.size
         /\ \A m \in 0..Len(output) : SumTo(OutputSizes', m) = SumTo(OutputSizes, m)
<1> DEFINE s == output
           n == Len(s)
<1>1. s \in Seq(Piece)
  BY DEF OutputTypes
<1>2. s' = Append(s, e)
  OBVIOUS
<1>10. OutputSizes = [k \in DOMAIN s |-> s[k].size]
       /\ OutputSizes' = [k \in DOMAIN s' |-> s'[k].size]
  BY DEF OutputSizes
<1> HIDE DEF s
<1>3. /\ s' \in Seq(Piece) /\ n \in Nat /\ Len(s') = n + 1 /\ s'[n + 1] = e
      /\ \A k \in 1..n : s'[k] = s[k] /\ s[k] \in Piece
      /\ DOMAIN s = 1..n /\ DOMAIN s' = 1..n + 1
  BY <1>1, <1>2
<1> HIDE DEF n
<1>4. \A j \in 1..n : OutputSizes[j] \in Int /\ OutputSizes'[j] = OutputSizes[j]
  <2>1. \A one \in Piece : one.size \in Int
    BY DEF Piece
  <2> QED BY <1>3, <1>10, <2>1
<1>5. OutputSizes'[n + 1] = e.size /\ e.size \in Int
  <2>1. n + 1 \in 1..n + 1
    BY <1>3
  <2> QED BY <1>3, <1>10, <2>1 DEF Piece
<1> DEFINE f == OutputSizes
           g == OutputSizes'
<1>6. /\ \A j \in 1..n : f[j] \in Int /\ g[j] = f[j]
      /\ g[n + 1] \in Int
  BY <1>4, <1>5
<1>7. f = OutputSizes /\ g = OutputSizes'
  OBVIOUS
<1> HIDE DEF f, g
<1>8. /\ SumTo(f, n) \in Int /\ SumTo(g, n + 1) = SumTo(f, n) + g[n + 1]
      /\ \A m \in 0..n : SumTo(g, m) = SumTo(f, m)
  BY <1>3, <1>6, SumOfAppended
<1> QED BY <1>3, <1>5, <1>7, <1>8 DEF s, n, OutputTypes

LEMMA BuildHolds ==
  ASSUME IInv, BuildMoov
  PROVE  TablesInv' /\ OutputTypes' /\ BoxesInv'
<1>1. /\ movie \in Movies /\ output = << >> /\ written = 0 /\ PlanTypes
  BY DEF IInv, BuildMoov, IsPlanned, PlanInv
<1>2. /\ todo = << >> /\ opened = Len(chunks) /\ queue' = NewQueue(0)
      /\ tables' = [t \in Tracks |-> [sizes |-> NewSizes(t), offsets |-> NewOffsets(t)]]
      /\ UNCHANGED << movie, walk, planned, written, output >>
  BY DEF BuildMoov, IsPlanned
<1>3. UNCHANGED << chunks, opened, todo >>
  BY <1>2 DEF walk
<1>4. TablesInv'
  <2>1. Tracks' = Tracks /\ \A t : NewSizes(t)' = NewSizes(t) /\ NewOffsets(t)' = NewOffsets(t)
    BY <1>2, TablesKept
  <2> QED BY <1>2, <1>3, <2>1 DEF TablesInv
<1>5. OutputTypes'
  BY <1>1, <1>2 DEF OutputTypes
<1>6. BoxesInv'
  <2>1. SumTo(OutputSizes', 0) = 0
    <3>1. 0 \in Nat /\ \A j \in 1..0 : OutputSizes'[j] \in Int
      OBVIOUS
    <3> QED BY <3>1, SumToIs
  <2>2. SumTo(HeadSizes', 0) = 0 /\ Len(movie.boxes) \in Nat
    <3>1. HeadSizes' = HeadSizes
      BY <1>2, TablesKept
    <3> QED BY <1>1, <3>1, HeadSizesAre
  <2>3. Len(output') = 0 /\ DOMAIN output' = {}
    BY <1>1, <1>2
  <2>4. NewQueue(0)' = NewQueue(0)
    BY DEF NewQueue
  <2> QED BY <1>1, <1>2, <2>1, <2>2, <2>3, <2>4 DEF BoxesInv
<1> QED BY <1>4, <1>5, <1>6

LEMMA SkipHolds ==
  ASSUME movie \in Movies, BoxesInv, SkipMdat
  PROVE  BoxesInv'
<1> DEFINE b == written + 1
<1>1. /\ written < Len(movie.boxes) /\ movie.boxes[b].type = "mdat" /\ written' = b
      /\ UNCHANGED << movie, queue, planned, output >>
  BY DEF SkipMdat, next_box
<1>2. /\ Len(movie.boxes) \in Nat /\ DOMAIN movie.boxes = 1..Len(movie.boxes)
      /\ b \in 1..Len(movie.boxes) /\ b - 1 = written
  BY <1>1, HeadSizesAre DEF BoxesInv
<1>3. HeadSizes[b] = 0
  BY <1>1, <1>2 DEF HeadSizes
<1>4. SumTo(HeadSizes, b) = SumTo(HeadSizes, b - 1) + HeadSizes[b] /\ SumTo(HeadSizes, b - 1) \in Int
  BY <1>2, HeadSizesAre
<1>5. SumTo(HeadSizes, b) = SumTo(HeadSizes, written)
  BY <1>2, <1>3, <1>4
<1>6. HeadSizes' = HeadSizes /\ OutputSizes' = OutputSizes /\ NewQueue(0)' = NewQueue(0)
  BY <1>1, TablesKept DEF OutputSizes, NewQueue
<1>7. b \in 0..Len(movie.boxes)
  BY <1>2
<1> HIDE DEF b
<1> QED BY <1>1, <1>5, <1>6, <1>7 DEF BoxesInv

LEMMA WriteBoxHolds ==
  ASSUME movie \in Movies, OutputTypes, BoxesInv, WriteBox
  PROVE  OutputTypes' /\ BoxesInv'
<1> DEFINE b == written + 1
           e == [kind |-> IF IsRewritten(b) THEN "replaced" ELSE "copied",
                 of |-> b, size |-> NewBoxSize(b), bytes |-> << >>]
<1>1. /\ written < Len(movie.boxes) /\ movie.boxes[b].type # "mdat" /\ written' = b
      /\ output' = Append(output, e)
      /\ UNCHANGED << movie, queue, planned >>
  BY DEF WriteBox, next_box
<1>2. /\ Len(movie.boxes) \in Nat /\ DOMAIN movie.boxes = 1..Len(movie.boxes)
      /\ b \in 1..Len(movie.boxes) /\ b - 1 = written
  BY <1>1, HeadSizesAre DEF BoxesInv
<1>3. HeadSizes[b] = NewBoxSize(b) /\ NewBoxSize(b) \in Int
  BY <1>1, <1>2, HeadSizesAre DEF HeadSizes
<1>4. SumTo(HeadSizes, b) = SumTo(HeadSizes, b - 1) + HeadSizes[b]
  BY <1>2, HeadSizesAre
<1>5. e \in Piece /\ e.kind \in {"replaced", "copied"} /\ e.size = NewBoxSize(b)
  <2> DEFINE kind == IF IsRewritten(b) THEN "replaced" ELSE "copied"
             size == NewBoxSize(b)
             none == << >>
  <2>1. b \in Nat /\ none \in Seq(Nat) /\ size \in Int
    BY <1>2, <1>3
  <2>2. kind \in {"replaced", "copied"}
    OBVIOUS
  <2> HIDE DEF b, kind, size, none
  <2>3. [kind |-> kind, of |-> b, size |-> size, bytes |-> none] \in Piece
    BY <2>1, <2>2 DEF Piece
  <2> QED BY <2>2, <2>3 DEF kind, size, none
<1>6. HeadSizes' = HeadSizes /\ NewQueue(0)' = NewQueue(0)
  BY <1>1, TablesKept DEF NewQueue
<1>7. b \in 0..Len(movie.boxes)
  BY <1>2
<1> HIDE DEF e
<1>8. /\ OutputTypes' /\ Len(output) \in Nat
      /\ Len(output') = Len(output) + 1 /\ output'[Len(output) + 1] = e
      /\ \A k \in 1..Len(output) : output'[k] = output[k]
      /\ DOMAIN output = 1..Len(output) /\ DOMAIN output' = 1..Len(output) + 1
      /\ SumTo(OutputSizes', Len(output) + 1) = SumTo(OutputSizes, Len(output)) + e.size
  BY <1>1, <1>5, OutputGrows
<1>9. SumTo(OutputSizes', Len(output')) = SumTo(HeadSizes, b)
  BY <1>2, <1>3, <1>4, <1>5, <1>8 DEF BoxesInv
<1>10. \A k \in DOMAIN output' : output'[k].kind \in {"replaced", "copied"}
  <2> SUFFICES ASSUME NEW k \in DOMAIN output' PROVE output'[k].kind \in {"replaced", "copied"}
    OBVIOUS
  <2>1. k \in 1..Len(output) \/ k = Len(output) + 1
    BY <1>8
  <2> QED BY <1>5, <1>8, <2>1 DEF BoxesInv
<1> HIDE DEF b
<1> QED BY <1>1, <1>6, <1>7, <1>8, <1>9, <1>10 DEF BoxesInv

LEMMA HeaderHolds ==
  ASSUME movie \in Movies, PlanTypes, OutputTypes, BoxesInv, WriteMdatHeader
  PROVE  OutputTypes' /\ SamplesInv'
<1> DEFINE e == [kind |-> "mdat", of |-> Encoded(MdatHeader).field,
                 size |-> EncodedSize(MdatHeader), bytes |-> << >>]
<1>1. /\ written = Len(movie.boxes) /\ written' = 0
      /\ output' = Append(output, e)
      /\ UNCHANGED << movie, queue, planned >>
  BY DEF WriteMdatHeader
<1>2. /\ EncodedSize(MdatHeader) \in Nat /\ payload_size \in Nat
      /\ e.of = EncodedSize(MdatHeader) + payload_size
      /\ e.kind = "mdat" /\ e.size = EncodedSize(MdatHeader)
  BY MdatHeaderCounts DEF PlanTypes
<1>3. e \in Piece
  <2> DEFINE kind == "mdat"
             of == Encoded(MdatHeader).field
             size == EncodedSize(MdatHeader)
             none == << >>
  <2>1. of \in Nat /\ none \in Seq(Nat) /\ size \in Int
    BY <1>2
  <2>3. kind = "mdat"
    OBVIOUS
  <2> HIDE DEF kind, of, size, none
  <2>2. [kind |-> kind, of |-> of, size |-> size, bytes |-> none] \in Piece
    BY <2>1, <2>3 DEF Piece
  <2> QED BY <2>2 DEF kind, of, size, none
<1> HIDE DEF e
<1>4. /\ OutputTypes' /\ Len(output) \in Nat
      /\ Len(output') = Len(output) + 1 /\ output'[Len(output) + 1] = e
      /\ \A k \in 1..Len(output) : output'[k] = output[k]
      /\ DOMAIN output = 1..Len(output)
      /\ SumTo(OutputSizes', Len(output) + 1) = SumTo(OutputSizes, Len(output)) + e.size
  BY <1>1, <1>3, OutputGrows
<1>5. MdatPayloadOffset = SumTo(HeadSizes, Len(movie.boxes)) + EncodedSize(MdatHeader)
  BY HeadSizesAre
<1>6. UNCHANGED << payload_size, sample_edits, MdatPayloadOffset, MdatHeader >>
  BY <1>1, TablesKept DEF planned
<1>7. EncodedSize(MdatHeader)' = EncodedSize(MdatHeader)
  BY <1>6
<1> DEFINE k == Len(output) + 1
<1>8. Len(output') - written' = k /\ k > 0
  BY <1>1, <1>4
<1>9. \A j \in 1..k - 1 : output'[j].kind \in {"replaced", "copied"}
  <2>1. k - 1 = Len(output)
    BY <1>4
  <2> HIDE DEF k
  <2> QED BY <1>4, <2>1 DEF BoxesInv
<1>10. SumTo(OutputSizes', k) = MdatPayloadOffset
  BY <1>1, <1>2, <1>4, <1>5 DEF BoxesInv
<1>11. queue'.held = << >> /\ queue'.head = 0
  BY <1>1 DEF BoxesInv, NewQueue
<1>12. Len(sample_edits) \in Nat
  BY DEF PlanTypes
<1>13. output'[k] = e /\ 1..0 = {} /\ 0 \in 0..Len(sample_edits)
  BY <1>4, <1>12
<1> HIDE DEF k
<1>14. /\ queue'.held = << >> /\ queue'.head \in Nat
       /\ queue'.head = 0 \/ position' = queue'.head
       /\ written' \in 0..Len(sample_edits')
  BY <1>1, <1>6, <1>11, <1>13
<1>15. /\ output'[k].kind = "mdat" /\ output'[k].size = EncodedSize(MdatHeader)'
       /\ output'[k].of = EncodedSize(MdatHeader)' + payload_size'
       /\ SumTo(OutputSizes', k) = MdatPayloadOffset'
  BY <1>2, <1>6, <1>7, <1>10, <1>13
<1>16. \A n \in 1..written' : FALSE
  BY <1>1, <1>13
<1> QED BY <1>4, <1>8, <1>9, <1>14, <1>15, <1>16 DEF SamplesInv
-----------------------------------------------------------------------------
(* A sample is written: it is read from where the edit says.               *)
LEMMA RangeIsRead ==
  ASSUME queue.held = << >>, queue.head \in Nat, queue.head = 0 \/ position = queue.head,
         NEW start \in Nat \ {0}, NEW size \in Nat, ReadRange(start, start + size)
  PROVE  /\ queue'.head = start + size /\ queue'.held = << >>
         /\ position' = start + size
         /\ RangeBytes(start, start + size) = [j \in 1..size |-> start + j - 1]
<1> DEFINE end == start + size
           window == Window(start)
           bytes == [i \in 1..size |-> start + i - 1]
<1>1. window.head = start /\ window.held = << >> /\ ReadsFrom(start) = start
  <2>1. CASE Seeks(start)
    BY <2>1 DEF Window, NewQueue, ReadsFrom
  <2>2. CASE ~ Seeks(start)
    <3>1. Len(queue.held) = 0
      OBVIOUS
    <3>2. start = queue.head
      BY <2>2, <3>1 DEF Seeks, TailOf
    <3> QED BY <2>2, <3>2 DEF Window, ReadsFrom
  <2> QED BY <2>1, <2>2
<1>2. TailOf(window) = start
  <2>1. Len(window.held) = 0
    BY <1>1
  <2> HIDE DEF window
  <2> QED BY <1>1, <2>1 DEF TailOf
<1>3. ReadsTo(start, end) = end
  <2>1. TailOf(Window(start)) = start
    BY <1>2
  <2>2. CASE size = 0
    BY <1>1, <2>1, <2>2 DEF ReadsTo
  <2>3. CASE size > 0
    BY <1>1, <2>1, <2>3 DEF ReadsTo
  <2> QED BY <2>2, <2>3
<1>4. bytes \in Seq(Nat) /\ Len(bytes) = size
  <2>1. \A i \in 1..size : start + i - 1 \in Nat
    OBVIOUS
  <2> QED BY <2>1
<1>5. Filled(start, end) = bytes
  <2>1. ReadsTo(start, end) - ReadsFrom(start) = size
    BY <1>1, <1>3
  <2>2. Filled(start, end)
          = window.held \o [i \in 1..ReadsTo(start, end) - ReadsFrom(start) |-> ReadsFrom(start) + i - 1]
    BY DEF Filled
  <2>3. [i \in 1..ReadsTo(start, end) - ReadsFrom(start) |-> ReadsFrom(start) + i - 1] = bytes
    BY <1>1, <2>1
  <2>4. window.held = << >>
    BY <1>1
  <2>5. Filled(start, end) = window.held \o bytes
    BY <2>2, <2>3
  <2> HIDE DEF bytes, window
  <2>6. << >> \o bytes = bytes
    BY <1>4
  <2> QED BY <2>4, <2>5, <2>6
<1>6. start - window.head + 1 = 1 /\ end - window.head = size
  <2> HIDE DEF window
  <2> QED BY <1>1
<1>7. SubSeq(bytes, 1, size) = bytes /\ SubSeq(bytes, size + 1, size) = << >>
  <2> HIDE DEF bytes
  <2> QED BY <1>4
<1>8. RangeBytes(start, end) = bytes
  BY <1>5, <1>6, <1>7 DEF RangeBytes
<1>9. queue' = [head |-> end, held |-> SubSeq(bytes, size + 1, size)] /\ position' = end
  <2>1. Len(Filled(start, end)) = size /\ end - Window(start).head + 1 = size + 1
    BY <1>4, <1>5, <1>6
  <2> QED BY <1>3, <1>5, <2>1 DEF ReadRange
<1> QED BY <1>7, <1>8, <1>9

LEMMA WriteSampleHolds ==
  ASSUME movie \in Movies, PlanTypes, OutputTypes, SamplesInv, WriteSample
  PROVE  OutputTypes' /\ SamplesInv'
<1> DEFINE d == sample_edits[written + 1]
           e == [kind |-> d.process, of |-> d.offset, size |-> d.clear_size,
                 bytes |-> RangeBytes(d.offset, d.offset + d.size)]
<1>1. /\ written < Len(sample_edits) /\ ReadRange(d.offset, d.offset + d.size)
      /\ output' = Append(output, e) /\ written' = written + 1
      /\ UNCHANGED << movie, planned >>
  BY DEF WriteSample, edit
<1>2. /\ sample_edits \in Seq(Edit) /\ written \in 0..Len(sample_edits) /\ payload_size \in Nat
  BY DEF PlanTypes, SamplesInv
<1>3. Len(sample_edits) \in Nat /\ written + 1 \in 1..Len(sample_edits)
  BY <1>1, <1>2
<1>4. d \in Edit
  BY <1>2, <1>3
<1> HIDE DEF d
<1>5. d.offset \in Nat \ {0} /\ d.size \in Nat /\ d.clear_size \in Nat
      /\ d.process \in {"decrypt", "copy"}
  BY <1>4 DEF Edit
<1> DEFINE bytes == [j \in 1..d.size |-> d.offset + j - 1]
<1>6. /\ queue'.head = d.offset + d.size /\ queue'.held = << >>
      /\ position' = d.offset + d.size
      /\ RangeBytes(d.offset, d.offset + d.size) = bytes
  <2>1. queue.held = << >> /\ queue.head \in Nat /\ (queue.head = 0 \/ position = queue.head)
    BY DEF SamplesInv
  <2> DEFINE start == d.offset
             size == d.size
  <2>2. start \in Nat \ {0} /\ size \in Nat /\ ReadRange(start, start + size)
    BY <1>1, <1>5
  <2>3. /\ queue'.head = start + size /\ queue'.held = << >>
        /\ position' = start + size
        /\ RangeBytes(start, start + size) = [j \in 1..size |-> start + j - 1]
    <3> HIDE DEF start, size
    <3> QED BY <2>1, <2>2, RangeIsRead
  <2> QED BY <2>3
<1>7. e.kind = d.process /\ e.size = d.clear_size /\ e.bytes = bytes
  BY <1>6
<1>8. e \in Piece
  <2> DEFINE kind == d.process
             of == d.offset
             size == d.clear_size
  <2>1. bytes \in Seq(Nat)
    <3>1. \A j \in 1..d.size : d.offset + j - 1 \in Nat
      BY <1>5
    <3> QED BY <1>5, <3>1
  <2>2. kind \in {"decrypt", "copy"} /\ of \in Nat /\ size \in Nat
    BY <1>5
  <2> HIDE DEF bytes, kind, of, size
  <2>3. [kind |-> kind, of |-> of, size |-> size, bytes |-> bytes] \in Piece
    BY <2>1, <2>2 DEF Piece
  <2> QED BY <1>6, <2>3 DEF kind, of, size
<1> HIDE DEF e
<1>9. /\ OutputTypes' /\ Len(output) \in Nat
      /\ Len(output') = Len(output) + 1 /\ output'[Len(output) + 1] = e
      /\ \A j \in 1..Len(output) : output'[j] = output[j]
      /\ \A m \in 0..Len(output) : SumTo(OutputSizes', m) = SumTo(OutputSizes, m)
  BY <1>1, <1>8, OutputGrows
<1>10. UNCHANGED << payload_size, sample_edits, MdatPayloadOffset, MdatHeader >>
  BY <1>1, TablesKept DEF planned
<1>11. EncodedSize(MdatHeader)' = EncodedSize(MdatHeader)
  BY <1>10
<1> DEFINE k == Len(output) - written
<1>12. /\ k > 0
       /\ \A j \in 1..k - 1 : output[j].kind \in {"replaced", "copied"}
       /\ output[k].kind = "mdat" /\ output[k].size = EncodedSize(MdatHeader)
       /\ output[k].of = EncodedSize(MdatHeader) + payload_size
       /\ SumTo(OutputSizes, k) = MdatPayloadOffset
       /\ \A n \in 1..written :
            LET done == sample_edits[n] IN
            /\ output[k + n].kind = done.process /\ output[k + n].size = done.clear_size
            /\ output[k + n].bytes = [j \in 1..done.size |-> done.offset + j - 1]
  BY DEF SamplesInv
<1>13. /\ written \in Nat /\ k \in 1..Len(output) /\ k + written = Len(output)
       /\ Len(output') - written' = k /\ k + (written + 1) = Len(output) + 1
  <2>1. Len(output) \in Nat /\ Len(output') = Len(output) + 1 /\ written' = written + 1
    BY <1>1, <1>9
  <2>2. written \in Nat /\ k > 0 /\ k = Len(output) - written
    BY <1>2, <1>12
  <2> HIDE DEF k
  <2> QED BY <2>1, <2>2
<1> HIDE DEF k
<1>14. /\ \A j \in 1..k - 1 : output'[j].kind \in {"replaced", "copied"}
       /\ output'[k] = output[k]
  <2>1. \A j \in 1..k : j \in 1..Len(output)
    BY <1>9, <1>13
  <2>2. k \in 1..k /\ \A j \in 1..k - 1 : j \in 1..k
    BY <1>9, <1>13
  <2> QED BY <1>9, <1>12, <2>1, <2>2
<1>15. SumTo(OutputSizes', k) = MdatPayloadOffset
  <2>1. k \in 0..Len(output)
    BY <1>9, <1>13
  <2> QED BY <1>9, <1>12, <2>1
<1>16. ASSUME NEW n \in 1..written + 1
       PROVE  LET done == sample_edits[n] IN
              /\ output'[k + n].kind = done.process /\ output'[k + n].size = done.clear_size
              /\ output'[k + n].bytes = [j \in 1..done.size |-> done.offset + j - 1]
  <2>1. CASE n = written + 1
    <3>1. output'[k + n] = e /\ sample_edits[n] = d
      BY <1>9, <1>13, <2>1 DEF d
    <3> QED BY <1>7, <3>1
  <2>2. CASE n # written + 1
    <3>1. n \in 1..written /\ k + n \in 1..Len(output)
      BY <1>9, <1>13, <2>2
    <3>2. output'[k + n] = output[k + n]
      BY <1>9, <3>1
    <3> QED BY <1>12, <3>1, <3>2
  <2> QED BY <2>1, <2>2
<1>17. /\ queue'.held = << >> /\ queue'.head \in Nat
       /\ queue'.head = 0 \/ position' = queue'.head
       /\ written' \in 0..Len(sample_edits')
  <2>1. written' \in 0..Len(sample_edits)
    BY <1>1, <1>3, <1>13
  <2> QED BY <1>5, <1>6, <1>10, <2>1
<1>18. /\ output'[k].kind = "mdat" /\ output'[k].size = EncodedSize(MdatHeader)'
       /\ output'[k].of = EncodedSize(MdatHeader)' + payload_size'
       /\ SumTo(OutputSizes', k) = MdatPayloadOffset'
  BY <1>10, <1>11, <1>12, <1>14, <1>15
<1>19. \A n \in 1..written' :
         LET done == sample_edits'[n] IN
         /\ output'[k + n].kind = done.process /\ output'[k + n].size = done.clear_size
         /\ output'[k + n].bytes = [j \in 1..done.size |-> done.offset + j - 1]
  BY <1>1, <1>10, <1>16
<1> HIDE DEF d, bytes
<1> QED BY <1>9, <1>12, <1>13, <1>14, <1>17, <1>18, <1>19 DEF SamplesInv
-----------------------------------------------------------------------------
(* The invariant.                                                          *)
LEMMA InvInit == Init => IInv
<1> SUFFICES ASSUME Init PROVE IInv
  OBVIOUS
<1> QED BY DEF Init, IInv

LEMMA SamplesKept ==
  ASSUME OutputTypes, SamplesInv, UNCHANGED << movie, planned, position, queue, written, output >>
  PROVE  OutputTypes' /\ SamplesInv'
<1>1. UNCHANGED << payload_size, sample_edits, MdatPayloadOffset, MdatHeader >>
  BY TablesKept DEF planned
<1>2. EncodedSize(MdatHeader)' = EncodedSize(MdatHeader) /\ OutputSizes' = OutputSizes
  BY <1>1 DEF OutputSizes
<1> QED BY <1>1, <1>2 DEF SamplesInv, OutputTypes

LEMMA InvNext == IInv /\ [Next]_vars => IInv'
<1> SUFFICES ASSUME IInv, [Next]_vars PROVE IInv'
  OBVIOUS
<1>1. /\ movie \in Movies
      /\ state \notin {"tracks", "failed"} => ChunksInv /\ PlanInv
      /\ state \in {"boxes", "samples", "done"} => TablesInv /\ OutputTypes
      /\ state = "boxes" => BoxesInv
      /\ state \in {"samples", "done"} => SamplesInv
      /\ state \in {"tracks", "planning"} => output = << >> /\ written = 0
      /\ state = "done" => written = Len(sample_edits)
  BY DEF IInv
<1>2. ASSUME state' = "failed", movie' = movie PROVE IInv'
  BY <1>1, <1>2 DEF IInv
<1>3. CASE CollectChunks
  <2>1. ChunksInv' /\ PlanInv'
    BY <1>3, CollectHolds
  <2>2. state = "tracks" /\ state' = "planning" /\ UNCHANGED << movie, written, output >>
    BY <1>3 DEF CollectChunks
  <2> QED BY <1>1, <2>1, <2>2 DEF IInv
<1>4. CASE OpenChunk
  <2>1. state = "planning" /\ UNCHANGED << movie, state, chunks, written, output >>
    BY <1>4 DEF OpenChunk, AtChunk
  <2>2. ChunksInv' /\ PlanInv'
    BY <1>1, <1>4, <2>1, OpenHolds, ChunksKept
  <2> QED BY <1>1, <2>1, <2>2 DEF IInv
<1>5. CASE PlanSample
  <2>1. state = "planning" /\ UNCHANGED << movie, state, chunks, written, output >>
    BY <1>5 DEF PlanSample
  <2>2. ChunksInv' /\ PlanInv'
    BY <1>1, <1>5, <2>1, PlanHolds, ChunksKept
  <2> QED BY <1>1, <2>1, <2>2 DEF IInv
<1>6. CASE RefuseFtyp \/ RefuseTracks \/ RefuseOverlap \/ RefuseSample \/ RefuseMoov
  BY <1>2, <1>6 DEF RefuseFtyp, RefuseTracks, RefuseOverlap, RefuseSample, RefuseMoov, Fail
<1>7. ASSUME state \in {"planning", "boxes", "samples", "done"},
             UNCHANGED << movie, walk, planned >>
      PROVE  ChunksInv' /\ PlanInv'
  <2>1. UNCHANGED << movie, chunks, opened, todo, sample_offset, planned >>
    BY <1>7 DEF walk
  <2> QED BY <1>1, <1>7, <2>1, ChunksKept, PlanKept
<1>8. ASSUME state \in {"boxes", "samples", "done"}, UNCHANGED << movie, walk, planned, tables >>
      PROVE  TablesInv'
  <2>1. UNCHANGED << movie, chunks, opened, todo, planned, tables >>
    BY <1>8 DEF walk
  <2> QED BY <1>1, <1>8, <2>1, TablesInvKept
<1>9. CASE BuildMoov
  <2>1. state = "planning" /\ state' = "boxes" /\ UNCHANGED << movie, walk, planned, written, output >>
    BY <1>9 DEF BuildMoov, IsPlanned
  <2>2. TablesInv' /\ OutputTypes' /\ BoxesInv'
    BY <1>9, BuildHolds
  <2>3. ChunksInv' /\ PlanInv'
    BY <1>7, <2>1
  <2> QED BY <1>1, <2>1, <2>2, <2>3 DEF IInv
<1>10. CASE SkipMdat
  <2>1. state = "boxes" /\ UNCHANGED << movie, state, walk, planned, tables, output >>
    BY <1>10 DEF SkipMdat
  <2>2. BoxesInv' /\ OutputTypes'
    BY <1>1, <1>10, <2>1, SkipHolds DEF OutputTypes
  <2>3. ChunksInv' /\ PlanInv' /\ TablesInv'
    BY <1>7, <1>8, <2>1
  <2> QED BY <1>1, <2>1, <2>2, <2>3 DEF IInv
<1>11. CASE WriteBox
  <2>1. state = "boxes" /\ UNCHANGED << movie, state, walk, planned, tables >>
    BY <1>11 DEF WriteBox
  <2>2. BoxesInv' /\ OutputTypes'
    BY <1>1, <1>11, <2>1, WriteBoxHolds
  <2>3. ChunksInv' /\ PlanInv' /\ TablesInv'
    BY <1>7, <1>8, <2>1
  <2> QED BY <1>1, <2>1, <2>2, <2>3 DEF IInv
<1>12. CASE WriteMdatHeader
  <2>1. state = "boxes" /\ state' = "samples" /\ UNCHANGED << movie, walk, planned, tables >>
    BY <1>12 DEF WriteMdatHeader
  <2>2. SamplesInv' /\ OutputTypes'
    BY <1>1, <1>12, <2>1, HeaderHolds DEF PlanInv
  <2>3. ChunksInv' /\ PlanInv' /\ TablesInv'
    BY <1>7, <1>8, <2>1
  <2> QED BY <1>1, <2>1, <2>2, <2>3 DEF IInv
<1>13. CASE WriteSample
  <2>1. state = "samples" /\ UNCHANGED << movie, state, walk, planned, tables >>
    BY <1>13 DEF WriteSample
  <2>2. SamplesInv' /\ OutputTypes'
    BY <1>1, <1>13, <2>1, WriteSampleHolds DEF PlanInv
  <2>3. ChunksInv' /\ PlanInv' /\ TablesInv'
    BY <1>7, <1>8, <2>1
  <2> QED BY <1>1, <2>1, <2>2, <2>3 DEF IInv
<1>14. CASE Finish
  <2>1. /\ state = "samples" /\ state' = "done" /\ written = Len(sample_edits)
        /\ UNCHANGED << movie, position, queue, walk, planned, tables, written, output >>
    BY <1>14 DEF Finish
  <2>2. SamplesInv' /\ OutputTypes'
    BY <1>1, <2>1, SamplesKept
  <2>3. ChunksInv' /\ PlanInv' /\ TablesInv'
    BY <1>7, <1>8, <2>1
  <2>4. written' = Len(sample_edits')
    BY <2>1 DEF planned
  <2> QED BY <1>1, <2>1, <2>2, <2>3, <2>4 DEF IInv
<1>15. CASE IoFails
  BY <1>2, <1>15 DEF IoFails
<1>16. CASE UNCHANGED vars
  <2>1. /\ UNCHANGED << movie, state, position, queue, walk, planned, tables, written, output >>
        /\ UNCHANGED << chunks, opened, todo, sample_offset, sample_edits, payload_size,
                        rebuilt_sample_sizes, relative_offsets >>
    BY <1>16 DEF vars, walk, planned
  <2>2. state \in {"boxes", "samples", "done"} => TablesInv' /\ OutputTypes'
    BY <1>1, <1>8, <2>1 DEF OutputTypes
  <2>3. state = "boxes" => BoxesInv'
    <3>1. HeadSizes' = HeadSizes /\ OutputSizes' = OutputSizes /\ NewQueue(0)' = NewQueue(0)
      BY <2>1, TablesKept DEF OutputSizes, NewQueue
    <3> QED BY <1>1, <2>1, <3>1 DEF BoxesInv
  <2>4. state \in {"samples", "done"} => SamplesInv'
    BY <1>1, <2>1, SamplesKept
  <2>5. state \in {"planning", "boxes", "samples", "done"} => ChunksInv' /\ PlanInv'
    BY <1>7, <2>1
  <2>6. Tracks' = Tracks
    BY <2>1 DEF Tracks
  <2> QED BY <1>1, <2>1, <2>2, <2>3, <2>4, <2>5, <2>6 DEF IInv
<1> QED BY <1>3, <1>4, <1>5, <1>6, <1>9, <1>10, <1>11, <1>12, <1>13, <1>14, <1>15, <1>16
        DEF Next, Work, Ended
-----------------------------------------------------------------------------
(* When it is done, the tables lead to the samples.                        *)

(* The plan of a track is then complete.                                   *)
LEMMA TrackIsPlanned ==
  ASSUME movie \in Movies, ChunksInv, PlanInv, TablesInv, NEW t \in Tracks, Ascends(t)
  PROVE  LET track == movie.tracks[t] IN
         /\ DOMAIN relative_offsets[t] = DOMAIN track.offsets
         /\ Len(rebuilt_sample_sizes[t]) = Len(track.sizes)
         /\ DOMAIN rebuilt_sample_sizes[t] = DOMAIN track.sizes
         /\ \A i \in DOMAIN track.sizes : rebuilt_sample_sizes[t][i] = ClearSize(t, i)
         /\ \A c \in DOMAIN track.offsets : \A i \in ChunkSamples(track, c) :
              i <= Len(track.sizes) => \E k \in DOMAIN sample_edits : IsEditOf(k, t, c, i)
<1> DEFINE track == movie.tracks[t]
           offsets == relative_offsets[t]
           sizes == rebuilt_sample_sizes[t]
           n == Len(offsets)
           last == Len(track.offsets)
<1>1. track \in MovieTrack /\ IsMapped(track)
  BY MovieIs DEF ChunksInv
<1>2. /\ last \in Nat /\ DOMAIN track.offsets = 1..last
      /\ Len(track.sizes) \in Nat /\ DOMAIN track.sizes = 1..Len(track.sizes)
      /\ SamplesBefore(track, last + 1) = Len(track.sizes)
  BY <1>1, ChunksShare
<1>3. offsets \in Seq(Nat) /\ sizes \in Seq(Nat)
  BY DEF PlanInv, PlanTypes
<1>4. n \in Nat /\ DOMAIN offsets = 1..n /\ DOMAIN sizes = 1..Len(sizes)
  <2> HIDE DEF offsets, sizes
  <2> QED BY <1>3
<1>5. /\ n <= last
      /\ \A p \in DOMAIN chunks : chunks[p].track = t => (p <= opened <=> chunks[p].number <= n)
      /\ Len(sizes) = SamplesBefore(track, n + 1) - Pending(t)
      /\ \A i \in DOMAIN sizes : sizes[i] = ClearSize(t, i)
      /\ \A c \in 1..n : \A i \in ChunkSamples(track, c) :
           i <= Len(sizes) => \E k \in DOMAIN sample_edits : IsEditOf(k, t, c, i)
  BY DEF PlanInv, TrackInv
<1>6. Pending(t) = 0 /\ opened = Len(chunks)
  BY DEF TablesInv, Pending
<1>7. n = last
  <2>1. SUFFICES ASSUME n < last PROVE FALSE
    BY <1>2, <1>4, <1>5
  <2>2. last \in DOMAIN track.offsets
    BY <1>2, <1>4, <2>1
  <2>3. PICK p \in DOMAIN chunks : chunks[p].track = t /\ chunks[p].number = last
    BY <2>2, ChunkIsThere
  <2>4. p <= opened
    BY <1>6 DEF ChunksInv
  <2> QED BY <1>2, <1>4, <1>5, <2>1, <2>3, <2>4
<1>8. Len(sizes) = Len(track.sizes)
  BY <1>2, <1>5, <1>6, <1>7
<1> QED BY <1>2, <1>4, <1>5, <1>7, <1>8

(* A sample begins behind those that were written before it.               *)
LEMMA SamplesFollow ==
  ASSUME PlanTypes, OutputTypes, SamplesInv, written = Len(sample_edits), NEW k,
         k = Len(output) - written
  PROVE  /\ k \in Nat /\ k > 0 /\ k + written = Len(output) /\ written \in Nat
         /\ Len(output) \in Nat /\ DOMAIN output = 1..Len(output)
         /\ DOMAIN sample_edits = 1..written
         /\ \A n \in 1..written :
              /\ output[k + n].kind \in {"decrypt", "copy"}
              /\ output[k + n].size = EditSizes[n] /\ EditSizes[n] \in Nat
         /\ \A n \in 0..written : Start(k + n + 1) = MdatPayloadOffset + SumTo(EditSizes, n)
         /\ MdatPayloadOffset \in Int
<1>1. output \in Seq(Piece) /\ sample_edits \in Seq(Edit)
  BY DEF OutputTypes, PlanTypes
<1>2. Len(output) \in Nat /\ DOMAIN output = 1..Len(output)
      /\ \A j \in 1..Len(output) : output[j] \in Piece
  BY <1>1
<1>3. Len(sample_edits) \in Nat /\ DOMAIN sample_edits = 1..Len(sample_edits)
      /\ \A j \in 1..Len(sample_edits) : sample_edits[j] \in Edit
  BY <1>1
<1>4. /\ k > 0 /\ SumTo(OutputSizes, k) = MdatPayloadOffset
      /\ \A n \in 1..written : LET done == sample_edits[n] IN
           output[k + n].kind = done.process /\ output[k + n].size = done.clear_size
  BY DEF SamplesInv
<1>5. written \in Nat /\ k \in Nat /\ k + written = Len(output)
  BY <1>2, <1>3, <1>4
<1>6. ASSUME NEW n \in 1..written
      PROVE  /\ output[k + n].kind \in {"decrypt", "copy"}
             /\ output[k + n].size = EditSizes[n] /\ EditSizes[n] \in Nat
  <2>1. n \in DOMAIN sample_edits /\ sample_edits[n] \in Edit
    BY <1>3
  <2>2. EditSizes[n] = sample_edits[n].clear_size
    BY <2>1 DEF EditSizes
  <2>3. sample_edits[n].process \in {"decrypt", "copy"} /\ sample_edits[n].clear_size \in Nat
    BY <2>1 DEF Edit
  <2> QED BY <1>4, <2>2, <2>3
<1>7. \A j \in 1..k : OutputSizes[j] \in Int
  <2> SUFFICES ASSUME NEW j \in 1..k PROVE OutputSizes[j] \in Int
    OBVIOUS
  <2>1. j \in 1..Len(output)
    BY <1>2, <1>5
  <2>2. output[j].size \in Int
    BY <1>2, <2>1 DEF Piece
  <2> QED BY <1>2, <2>1, <2>2 DEF OutputSizes
<1>8. \A j \in 1..written : EditSizes[j] \in Int /\ OutputSizes[k + j] = EditSizes[j]
  <2> SUFFICES ASSUME NEW j \in 1..written PROVE EditSizes[j] \in Int /\ OutputSizes[k + j] = EditSizes[j]
    OBVIOUS
  <2>1. k + j \in DOMAIN output
    BY <1>2, <1>5
  <2>2. OutputSizes[k + j] = output[k + j].size
    BY <2>1 DEF OutputSizes
  <2> QED BY <1>6, <2>2
<1> DEFINE f == OutputSizes
           g == EditSizes
<1>9. /\ \A j \in 1..k : f[j] \in Int
      /\ \A j \in 1..written : g[j] \in Int /\ f[k + j] = g[j]
  BY <1>7, <1>8
<1>10. f = OutputSizes /\ g = EditSizes
  OBVIOUS
<1> HIDE DEF f, g
<1>11. /\ SumTo(f, k) \in Int
       /\ \A m \in 0..written : SumTo(f, k + m) = SumTo(f, k) + SumTo(g, m)
  <2>1. IsFollowedBy(f, k, g, written)
    BY <1>5, <1>9 DEF IsFollowedBy
  <2> QED BY <2>1, SumOfRest
<1>12. ASSUME NEW n \in 0..written
       PROVE  Start(k + n + 1) = MdatPayloadOffset + SumTo(EditSizes, n)
  <2>1. (k + n + 1) - 1 = k + n
    BY <1>5
  <2>2. Start(k + n + 1) = SumTo(f, k + n)
    BY <1>10, <2>1 DEF Start, OutputSizes
  <2> QED BY <1>4, <1>10, <1>11, <2>2
<1>13. MdatPayloadOffset \in Int
  BY <1>4, <1>10, <1>11
<1> QED BY <1>2, <1>3, <1>4, <1>5, <1>6, <1>12, <1>13

(* The mdat counts just the samples.                                       *)
LEMMA MediaCounts ==
  ASSUME PlanTypes, OutputTypes, SamplesInv, written = Len(sample_edits)
  PROVE  MediaSize = payload_size
<1> DEFINE k == Len(output) - written
           media == [j \in DOMAIN output |->
                       IF output[j].kind \in {"decrypt", "copy"} THEN output[j].size ELSE 0]
           none == [j \in 1..k |-> 0]
<1>1. /\ k \in Nat /\ k > 0 /\ k + written = Len(output) /\ written \in Nat
      /\ Len(output) \in Nat /\ DOMAIN output = 1..Len(output)
      /\ \A n \in 1..written :
           /\ output[k + n].kind \in {"decrypt", "copy"}
           /\ output[k + n].size = EditSizes[n] /\ EditSizes[n] \in Nat
  BY SamplesFollow
<1>2. /\ \A j \in 1..k - 1 : output[j].kind \in {"replaced", "copied"}
      /\ output[k].kind = "mdat"
  BY DEF SamplesInv
<1>3. MediaSize = SumTo(media, Len(output))
  <2>1. Len(media) = Len(output)
    BY <1>1
  <2> QED BY <2>1 DEF MediaSize, Total
<1> HIDE DEF k
<1>4. \A j \in 1..k : media[j] = 0
  <2> SUFFICES ASSUME NEW j \in 1..k PROVE media[j] = 0
    OBVIOUS
  <2>1. j \in DOMAIN output
    BY <1>1
  <2>2. j \in 1..k - 1 \/ j = k
    BY <1>1
  <2>3. output[j].kind \notin {"decrypt", "copy"}
    BY <1>2, <2>2
  <2> QED BY <2>1, <2>3
<1>5. \A j \in 1..written : EditSizes[j] \in Int /\ media[k + j] = EditSizes[j]
  <2> SUFFICES ASSUME NEW j \in 1..written
               PROVE  EditSizes[j] \in Int /\ media[k + j] = EditSizes[j]
    OBVIOUS
  <2>1. k + j \in DOMAIN output
    BY <1>1
  <2> QED BY <1>1, <2>1
<1> DEFINE g == EditSizes
<1>6. \A j \in 1..k : media[j] \in Int
  <2> HIDE DEF media
  <2> QED BY <1>4
<1>7. \A j \in 1..written : g[j] \in Int /\ media[k + j] = g[j]
  BY <1>5
<1>8. SumTo(g, written) = payload_size
  BY DEF PlanTypes
<1> HIDE DEF media, g
<1>9. SumTo(media, k + written) = SumTo(media, k) + SumTo(g, written) /\ SumTo(g, written) \in Int
  <2>1. written \in 0..written
    BY <1>1
  <2>2. IsFollowedBy(media, k, g, written)
    BY <1>1, <1>6, <1>7 DEF IsFollowedBy
  <2> QED BY <2>1, <2>2, SumOfRest
<1>10. SumTo(media, k) = 0
  <2> DEFINE T == { m \in 0..k : SumTo(media, m) = 0 }
  <2>1. \A m \in 0..k : /\ SumTo(media, 0) = 0
                        /\ m > 0 => SumTo(media, m) = SumTo(media, m - 1) + media[m]
    <3> SUFFICES ASSUME NEW m \in 0..k
                 PROVE  /\ SumTo(media, 0) = 0
                        /\ m > 0 => SumTo(media, m) = SumTo(media, m - 1) + media[m]
      OBVIOUS
    <3>1. m \in Nat /\ \A j \in 1..m : media[j] \in Int
      BY <1>1, <1>6
    <3> QED BY <3>1, SumToIs
  <2>2. 0 \in T
    <3>1. 0 \in 0..k
      BY <1>1
    <3>2. SumTo(media, 0) = 0
      BY <2>1, <3>1
    <3> QED BY <3>1, <3>2
  <2>3. ASSUME NEW m \in 1..k, m - 1 \in T PROVE m \in T
    <3>1. m \in 0..k /\ m > 0
      BY <1>1
    <3>2. SumTo(media, m) = SumTo(media, m - 1) + media[m] /\ media[m] = 0
      BY <1>4, <2>1, <3>1
    <3> QED BY <2>3, <3>1, <3>2
  <2> HIDE DEF T
  <2>4. k \in T
    <3>1. k \in Nat /\ k \in 0..k
      BY <1>1
    <3>2. 0..k \subseteq T
      BY <2>2, <2>3, <3>1, BoundedInduction
    <3> QED BY <3>1, <3>2
  <2> QED BY <2>4 DEF T
<1>11. MediaSize = SumTo(media, k + written)
  BY <1>1, <1>3
<1> QED BY <1>8, <1>9, <1>10, <1>11

(* Where the tables lead to is where the sample lies.                      *)
LEMMA TablesLead ==
  ASSUME movie \in Movies, ChunksInv, PlanInv, TablesInv, OutputTypes, SamplesInv,
         written = Len(sample_edits), NEW t \in Tracks, Ascends(t),
         NEW i \in DOMAIN movie.tracks[t].sizes
  PROVE  \E k \in DOMAIN output :
           /\ IsSample(t, i, output[k])
           /\ Start(k) = NewStart(t, i) /\ output[k].size = tables[t].sizes[i]
<1> DEFINE track == movie.tracks[t]
           c == ChunkOf(track, i)
           before == SamplesBefore(track, c)
           size == Len(track.sizes)
           head == Len(output) - written
<1>1. track \in MovieTrack /\ IsMapped(track)
  BY MovieIs DEF ChunksInv
<1>2. c \in DOMAIN track.offsets /\ i \in ChunkSamples(track, c)
  BY <1>1, ChunkOfIs
<1> HIDE DEF c
<1>3. /\ size \in Nat /\ DOMAIN track.sizes = 1..size
      /\ \A j \in 1..size : /\ track.sizes[j] \in Nat /\ ClearSize(t, j) \in Nat
                            /\ ClearSizes(t)[j] = ClearSize(t, j)
  BY ClearSizeIs
<1>4. /\ c \in 1..Len(track.offsets) /\ Len(track.offsets) \in Nat
      /\ before \in 0..size
  <2>1. c \in 1..Len(track.offsets) /\ Len(track.offsets) \in Nat
    BY <1>1, <1>2, ChunksShare
  <2>2. c \in 1..Len(track.offsets) + 1
    BY <2>1
  <2> QED BY <1>1, <2>1, <2>2, ChunksShare
<1>5. /\ DOMAIN relative_offsets[t] = DOMAIN track.offsets
      /\ DOMAIN rebuilt_sample_sizes[t] = 1..size
      /\ \A j \in 1..size : rebuilt_sample_sizes[t][j] = ClearSize(t, j)
      /\ \E k \in DOMAIN sample_edits : IsEditOf(k, t, c, i)
  BY <1>2, <1>3, TrackIsPlanned
<1>6. PICK k \in DOMAIN sample_edits : IsEditOf(k, t, c, i)
  BY <1>5
<1> DEFINE place == track.offsets[c] + SizeBetween(track.sizes, before, i - 1)
           between == SizeBetween(ClearSizes(t), before, i - 1)
<1>7. /\ sample_edits[k] = [offset |-> place, size |-> track.sizes[i], process |-> Process(t),
                            clear_size |-> ClearSize(t, i)]
      /\ SumTo(EditSizes, k - 1) = relative_offsets[t][c] + between
  BY <1>6 DEF IsEditOf
<1>8. /\ head \in Nat /\ head > 0 /\ head + written = Len(output) /\ written \in Nat
      /\ DOMAIN output = 1..Len(output) /\ DOMAIN sample_edits = 1..written
      /\ \A n \in 0..written : Start(head + n + 1) = MdatPayloadOffset + SumTo(EditSizes, n)
      /\ MdatPayloadOffset \in Int
  BY SamplesFollow DEF PlanInv
<1>9. /\ output[head + k].kind = sample_edits[k].process
      /\ output[head + k].size = sample_edits[k].clear_size
      /\ output[head + k].bytes = [j \in 1..sample_edits[k].size |-> sample_edits[k].offset + j - 1]
  BY <1>8 DEF SamplesInv
<1> HIDE DEF head
<1>10. head + k \in DOMAIN output /\ k - 1 \in 0..written /\ head + (k - 1) + 1 = head + k
  BY <1>8
<1>11. IsSample(t, i, output[head + k])
  <2>1. OldStart(t, i) = place
    BY DEF OldStart, c
  <2>2. /\ output[head + k].kind = Process(t) /\ output[head + k].size = ClearSize(t, i)
        /\ output[head + k].bytes = [j \in 1..track.sizes[i] |-> place + j - 1]
    <3> HIDE DEF place
    <3> QED BY <1>7, <1>9
  <2> HIDE DEF place
  <2> QED BY <2>1, <2>2 DEF IsSample
<1>12. /\ tables[t].sizes = NewSizes(t) /\ tables[t].offsets = NewOffsets(t)
  BY DEF TablesInv
<1>13. \A j \in 1..size : NewSizes(t)[j] = ClearSize(t, j)
  <2>1. CASE IsPatched(t)
    BY <1>5, <2>1 DEF NewSizes
  <2>2. CASE ~ IsPatched(t)
    BY <2>2 DEF NewSizes, IsPatched, ClearSize
  <2> QED BY <2>1, <2>2
<1>14. i \in 1..size /\ output[head + k].size = tables[t].sizes[i]
  BY <1>3, <1>7, <1>9, <1>12, <1>13
<1>15. SizeBetween(NewSizes(t), before, i - 1) = between
  <2> DEFINE f == ClearSizes(t)
             g == NewSizes(t)
  <2>1. \A j \in 1..size : f[j] \in Int /\ g[j] = f[j]
    BY <1>3, <1>13
  <2>2. before \in 0..size /\ i - 1 \in 0..size /\ size \in Nat
    <3>1. before \in 0..size /\ i \in 1..size /\ size \in Nat
      BY <1>3, <1>4, <1>14
    <3> HIDE DEF before, size
    <3> QED BY <3>1
  <2> HIDE DEF f, g, size, before
  <2>3. ASSUME NEW m \in 0..size PROVE SumTo(g, m) = SumTo(f, m)
    <3>1. m \in Nat /\ \A j \in 1..m : f[j] \in Int /\ g[j] = f[j]
      BY <2>1, <2>2
    <3> QED BY <3>1, SumToSame
  <2>4. SumTo(g, before) = SumTo(f, before) /\ SumTo(g, i - 1) = SumTo(f, i - 1)
    BY <2>2, <2>3
  <2> QED BY <2>4 DEF SizeBetween, f, g
<1>16. tables[t].offsets[c] = MdatPayloadOffset + relative_offsets[t][c]
  BY <1>2, <1>5, <1>12 DEF NewOffsets
<1>17. NewStart(t, i) = tables[t].offsets[c] + between
  BY <1>12, <1>15 DEF NewStart, c
<1>18. Start(head + k) = MdatPayloadOffset + SumTo(EditSizes, k - 1)
  BY <1>8, <1>10
<1>19. relative_offsets[t][c] \in Int /\ between \in Int
  <2>1. relative_offsets[t] \in Seq(Nat)
    BY DEF PlanInv, PlanTypes
  <2>2. c \in DOMAIN relative_offsets[t]
    BY <1>2, <1>5
  <2> DEFINE r == relative_offsets[t]
  <2>3. r[c] \in Nat
    <3>1. r \in Seq(Nat) /\ c \in DOMAIN r
      BY <2>1, <2>2
    <3> HIDE DEF r
    <3> QED BY <3>1
  <2>4. between \in Int
    <3> DEFINE f == ClearSizes(t)
    <3>1. \A j \in 1..size : f[j] \in Int
      BY <1>3
    <3>2. before \in 0..size /\ i - 1 \in 0..size /\ size \in Nat
      <4>1. before \in 0..size /\ i \in 1..size /\ size \in Nat
        BY <1>3, <1>4, <1>14
      <4> HIDE DEF before, size
      <4> QED BY <4>1
    <3> HIDE DEF f, size, before
    <3>3. ASSUME NEW m \in 0..size PROVE SumTo(f, m) \in Int
      <4>1. m \in Nat /\ \A j \in 1..m : f[j] \in Int
        BY <3>1, <3>2
      <4> QED BY <4>1, SumToIs
    <3>4. SumTo(f, before) \in Int /\ SumTo(f, i - 1) \in Int
      BY <3>2, <3>3
    <3> QED BY <3>4 DEF SizeBetween, f
  <2> QED BY <2>3, <2>4
<1>20. Start(head + k) = NewStart(t, i)
  <2> HIDE DEF between
  <2> QED BY <1>7, <1>8, <1>16, <1>17, <1>18, <1>19
<1> QED BY <1>10, <1>11, <1>14, <1>20

LEMMA SamplesAreFound == IInv => MovieSamplesFound
<1> SUFFICES ASSUME IInv, state = "done" 
             PROVE  /\ \A t \in { t \in Tracks : Ascends(t) } :
                         \A i \in DOMAIN movie.tracks[t].sizes :
                           \E k \in DOMAIN output :
                             /\ IsSample(t, i, output[k])
                             /\ Start(k) = NewStart(t, i) /\ output[k].size = tables[t].sizes[i]
                    /\ \E k \in DOMAIN output :
                         output[k].kind = "mdat" /\ output[k].of = output[k].size + MediaSize
  BY DEF MovieSamplesFound
<1>1. /\ movie \in Movies /\ ChunksInv /\ PlanInv /\ TablesInv /\ OutputTypes /\ SamplesInv
      /\ written = Len(sample_edits) /\ PlanTypes
  BY DEF IInv, PlanInv
<1>2. \A t \in { t \in Tracks : Ascends(t) } : \A i \in DOMAIN movie.tracks[t].sizes :
        \E k \in DOMAIN output :
          /\ IsSample(t, i, output[k])
          /\ Start(k) = NewStart(t, i) /\ output[k].size = tables[t].sizes[i]
  BY <1>1, TablesLead
<1> DEFINE k == Len(output) - written
<1>3. k \in DOMAIN output
  <2>1. /\ k \in Nat /\ k > 0 /\ k + written = Len(output) /\ written \in Nat
        /\ DOMAIN output = 1..Len(output)
    BY <1>1, SamplesFollow
  <2> HIDE DEF k
  <2> QED BY <2>1
<1>4. output[k].kind = "mdat" /\ output[k].of = output[k].size + payload_size
  BY <1>1 DEF SamplesInv
<1>5. MediaSize = payload_size
  BY <1>1, MediaCounts
<1> QED BY <1>2, <1>3, <1>4, <1>5

(* Whatever the movie and whatever reads and writes fail, the tables are   *)
(* built from chunks opened in the order of their offsets, and edits,      *)
(* sizes and offsets keep up with each other.                              *)
THEOREM MovieRewriteIsSound == Spec => []IInv
<1> QED BY InvInit, InvNext, PTL DEF Spec

(* Whatever the movie, a rewrite that is done wrote new tables that lead to*)
(* each sample of a track whose chunk offsets ascend, and an mdat that     *)
(* counts just its samples.                                                *)
THEOREM MovieSamplesAlwaysFound == Spec => []MovieSamplesFound
<1> QED BY MovieRewriteIsSound, SamplesAreFound, PTL
=============================================================================
