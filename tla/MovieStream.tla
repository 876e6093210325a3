---------------------------- MODULE MovieStream -----------------------------
(***************************************************************************)
(* Decryption of a movie without fragments (Marlin, OMA DCF, IAEC),        *)
(* src/src/decrypt.rs: a first pass over the samples finds out how long    *)
(* each one is in the clear, new sample tables are built from that, and a  *)
(* second pass writes the file: the root boxes with all media behind them  *)
(* in a single mdat.                                                       *)
(*                                                                         *)
(* Both passes read through a queue that seeks when the wanted range is    *)
(* outside of its window; the bytes in it are modelled by the offsets they *)
(* were read from.                                                         *)
(***************************************************************************)
EXTENDS BoxHeader, Sums, SequencesExt

CONSTANTS
  Movies,    \* protected movies: root boxes, tracks and the keys given for them
  MaxFaults  \* how often a read or a write may fail

(* What the boxes of a movie decode to, how long each sample of a track    *)
(* with a key is in the clear, and the samples its key does not open.      *)
StscEntry == [first_chunk : Nat, samples_per_chunk : Nat, sample_description_index : Nat]

MovieTrack ==
  [ entries : Seq(StscEntry), offsets : Seq(Nat), sizes : Seq(Nat), clear : Seq(Nat),
    broken : SUBSET Nat, keyed : BOOLEAN, fixed : BOOLEAN, wide : BOOLEAN ]

ProtectedMovie ==
  [ boxes : Seq([type : STRING, size : Nat]), length : Nat, format : {"marlin", "oma", "iaec"},
    new_ftyp : Nat, moov_growth : Int, tracks : Seq(MovieTrack) ]

(* A movie of these formats has a moov, one here, and an mdat.             *)
HasOne(boxes, type) == \E b \in DOMAIN boxes : \A i \in DOMAIN boxes : boxes[i].type = type <=> i = b

ASSUME MoviesAssumption ==
  /\ Movies \subseteq ProtectedMovie
  /\ \A m \in Movies : HasOne(m.boxes, "moov") /\ \E b \in DOMAIN m.boxes : m.boxes[b].type = "mdat"
  /\ \A m \in Movies : \A t \in DOMAIN m.tracks :
       Len(m.tracks[t].sizes) <= Len(m.tracks[t].clear)

VARIABLES
  movie, state, error, faults,
  position,          \* of the input
  queue,             \* head, and the input offsets of the bytes held
  chunks, opened,    \* all chunks in the order of their offsets; how many were opened
  todo, sample_offset,
  previous_chunk_end,
  rebuilt_sample_sizes, relative_offsets,
  sample_edits, payload_size,
  tables,            \* the new sizes and chunk offsets of each track
  written,           \* how many root boxes, then how many samples, are out
  output

planned == << rebuilt_sample_sizes, relative_offsets, sample_edits, payload_size >>
walk == << chunks, opened, todo, sample_offset, previous_chunk_end >>
vars == << movie, state, error, faults, position, queue, walk, planned, tables, written, output >>
-----------------------------------------------------------------------------
Total(sizes) == SumTo(sizes, Len(sizes))

Tracks == DOMAIN movie.tracks

BoxOffset(b) == SumTo([i \in DOMAIN movie.boxes |-> movie.boxes[i].size], b - 1)

(* media_data_ranges_from_infos.                                           *)
MdatRanges ==
  { [start |-> BoxOffset(b) + SmallHeader, end |-> BoxOffset(b) + movie.boxes[b].size] :
      b \in { b \in DOMAIN movie.boxes : movie.boxes[b].type = "mdat" } }

(* The samples_per_chunk of a chunk, by the last entry that begins at or   *)
(* before it.                                                              *)
SampleCount(track, c) ==
  LET covering == { i \in DOMAIN track.entries : track.entries[i].first_chunk <= c }
  IN  track.entries[CHOOSE i \in covering : \A j \in covering : j <= i].samples_per_chunk

(* compute_chunk_layout_mappings accepts the stsc of a track.              *)
IsMapped(track) ==
  LET entries == track.entries
  IN  /\ entries # << >> /\ entries[1].first_chunk = 1
      /\ \A i \in DOMAIN entries : entries[i].sample_description_index # 0
      /\ \A i \in 2..Len(entries) : entries[i - 1].first_chunk < entries[i].first_chunk
      /\ entries[Len(entries)].first_chunk <= Len(track.offsets)
      /\ Total([c \in DOMAIN track.offsets |-> SampleCount(track, c)]) = Len(track.sizes)

SamplesBefore(track, c) ==
  SumTo([d \in DOMAIN track.offsets |-> SampleCount(track, d)], c - 1)

ChunkSamples(track, c) ==
  SamplesBefore(track, c) + 1 .. SamplesBefore(track, c) + SampleCount(track, c)

ChunkOf(track, i) == CHOOSE c \in DOMAIN track.offsets : i \in ChunkSamples(track, c)

(* compute_track_chunks.                                                   *)
TrackChunks(t) ==
  LET track == movie.tracks[t]
  IN  { [track |-> t, number |-> c, offset |-> track.offsets[c],
         sizes |-> SubSeq(track.sizes, SamplesBefore(track, c) + 1,
                          SamplesBefore(track, c) + SampleCount(track, c))] :
          c \in DOMAIN track.offsets }

AllChunks == UNION { TrackChunks(t) : t \in Tracks }

EndOf(chunk) == chunk.offset + Total(chunk.sizes)

(* sort_by_key is stable: chunks at one offset stay as they were pushed.   *)
Precedes(a, b) ==
  \/ a.offset < b.offset
  \/ a.offset = b.offset /\ (a.track < b.track \/ (a.track = b.track /\ a.number < b.number))

(* The chunks in this order, as a set that is empty should there be none.  *)
Sorted(all) ==
  LET ranked == [n \in 1..Cardinality(all) |->
                   CHOOSE c \in all : Cardinality({ d \in all : Precedes(d, c) }) = n - 1]
  IN  { s \in { ranked } : /\ { s[n] : n \in DOMAIN s } = all
                          /\ \A n \in DOMAIN s : \A m \in 1..n - 1 : Precedes(s[m], s[n]) }

(* Only a protected track that has its key is decrypted.                   *)
Process(t) == IF movie.tracks[t].keyed THEN "decrypt" ELSE "copy"

NewQueue(start) == [head |-> start, held |-> << >>]

TailOf(window) == window.head + Len(window.held)
-----------------------------------------------------------------------------
(* The root boxes that are not mdats have been read, the last one last.    *)
EndOfMetadata ==
  LET last == CHOOSE b \in DOMAIN movie.boxes :
                /\ movie.boxes[b].type # "mdat"
                /\ \A i \in b + 1..Len(movie.boxes) : movie.boxes[i].type = "mdat"
  IN  BoxOffset(last) + movie.boxes[last].size

Init ==
  /\ movie \in Movies
  /\ state = "tracks" /\ error = "none" /\ faults = 0
  /\ position = EndOfMetadata /\ queue = NewQueue(0)
  /\ chunks = << >> /\ opened = 0 /\ todo = << >> /\ sample_offset = 0
  /\ previous_chunk_end = 0
  /\ rebuilt_sample_sizes = [t \in Tracks |-> << >>]
  /\ relative_offsets = [t \in Tracks |-> << >>]
  /\ sample_edits = << >> /\ payload_size = 0
  /\ tables = << >> /\ written = 0 /\ output = << >>

Fail(why) ==
  /\ state' = "failed" /\ error' = why
  /\ UNCHANGED << movie, faults, position, queue, walk, planned, tables, written, output >>

HasSamples(track) == track.sizes # << >>

RootFtyps == { b \in DOMAIN movie.boxes : movie.boxes[b].type = "ftyp" }

(* The analysis of a Marlin movie reads the one ftyp of the root.          *)
FtypIsRead == movie.format = "marlin" => Cardinality(RootFtyps) = 1

CollectChunks ==
  /\ state = "tracks"
  /\ FtypIsRead
  /\ \A t \in Tracks : HasSamples(movie.tracks[t]) /\ IsMapped(movie.tracks[t])
  /\ chunks' \in Sorted(AllChunks)
  /\ state' = "planning"
  /\ UNCHANGED << movie, error, faults, position, queue, opened, todo, sample_offset,
                  previous_chunk_end, planned, tables, written, output >>

RefuseFtyp == state = "tracks" /\ ~ FtypIsRead /\ Fail("ftyp")

RefuseTracks ==
  /\ state = "tracks"
  /\ \E t \in Tracks : ~ HasSamples(movie.tracks[t]) \/ ~ IsMapped(movie.tracks[t])
  /\ Fail("tracks")

next_chunk == chunks[opened + 1]
chunk == chunks[opened]

(* Defect: a chunk that begins where the one before it ends is refused.    *)
Touches == next_chunk.offset <= previous_chunk_end

Overlaps == next_chunk.offset < previous_chunk_end

AtChunk == state = "planning" /\ todo = << >> /\ opened < Len(chunks)

OpenChunk ==
  /\ AtChunk /\ ~ (opened > 0 /\ Overlaps)
  /\ opened' = opened + 1
  /\ previous_chunk_end' = EndOf(next_chunk)
  /\ relative_offsets' = [relative_offsets EXCEPT ![next_chunk.track] = Append(@, payload_size)]
  /\ todo' = next_chunk.sizes /\ sample_offset' = next_chunk.offset
  /\ UNCHANGED << movie, state, error, faults, position, queue, chunks,
                  rebuilt_sample_sizes, sample_edits, payload_size, tables, written, output >>

RefuseOverlap == AtChunk /\ opened > 0 /\ Overlaps /\ Fail("overlap")

(* ensure_sample_range_in_mdat.                                            *)
IsInMdat(start, end) ==
  \E range \in MdatRanges : range.start <= start /\ end <= range.end

Seeks(start) == start < queue.head \/ start > TailOf(queue)

(* with_range_from_seekable_queue: the window to fill, and from where.     *)
Window(start) == IF Seeks(start) THEN NewQueue(start) ELSE queue

(* Defect: the window moves, and the input stays where it is.              *)
StaysAt(start) == position

ReadsFrom(start) == IF Seeks(start) THEN start ELSE position

ReadsTo(start, end) ==
  IF end <= TailOf(Window(start)) THEN ReadsFrom(start)
  ELSE ReadsFrom(start) + end - TailOf(Window(start))

IsReadable(start, end) == end <= TailOf(Window(start)) \/ ReadsTo(start, end) <= movie.length

(* The window after the read, and the bytes of the range.                  *)
Filled(start, end) ==
  Window(start).held \o [i \in 1..ReadsTo(start, end) - ReadsFrom(start) |-> ReadsFrom(start) + i - 1]

RangeBytes(start, end) ==
  SubSeq(Filled(start, end), start - Window(start).head + 1, end - Window(start).head)

ReadRange(start, end) ==
  /\ queue' = [head |-> end,
               held |-> SubSeq(Filled(start, end), end - Window(start).head + 1,
                               Len(Filled(start, end)))]
  /\ position' = ReadsTo(start, end)

(* How long the sample is once it was processed.                           *)
ClearSize(t, i) ==
  IF movie.tracks[t].keyed THEN movie.tracks[t].clear[i] ELSE movie.tracks[t].sizes[i]

(* The sample of the chunk that is next in line.                           *)
sample_index ==
  SamplesBefore(movie.tracks[chunk.track], chunk.number) + Len(chunk.sizes) - Len(todo) + 1

sample_end == sample_offset + Head(todo)

(* process_movie_sample_bytes.                                             *)
IsOpened(t, i) == movie.tracks[t].keyed => i \notin movie.tracks[t].broken

PlanSample ==
  /\ state = "planning" /\ todo # << >>
  /\ IsInMdat(sample_offset, sample_end)
  /\ IsReadable(sample_offset, sample_end)
  /\ IsOpened(chunk.track, sample_index)
  /\ ReadRange(sample_offset, sample_end)
  /\ rebuilt_sample_sizes' = [rebuilt_sample_sizes EXCEPT
                                ![chunk.track] = Append(@, ClearSize(chunk.track, sample_index))]
  /\ sample_edits' = Append(sample_edits,
       [offset |-> sample_offset, size |-> Head(todo), process |-> Process(chunk.track),
        clear_size |-> ClearSize(chunk.track, sample_index)])
  /\ payload_size' = payload_size + ClearSize(chunk.track, sample_index)
  /\ todo' = Tail(todo) /\ sample_offset' = sample_end
  /\ UNCHANGED << movie, state, error, faults, chunks, opened, previous_chunk_end,
                  relative_offsets, tables, written, output >>

RefuseSample ==
  /\ state = "planning" /\ todo # << >>
  /\ \/ ~ IsInMdat(sample_offset, sample_end) \/ ~ IsReadable(sample_offset, sample_end)
     \/ ~ IsOpened(chunk.track, sample_index)
  /\ Fail("sample")
-----------------------------------------------------------------------------
IsPlanned == state = "planning" /\ todo = << >> /\ opened = Len(chunks)

(* Marlin patches the stsz of every track, the others that of the tracks   *)
(* they have the key of.                                                   *)
IsPatched(t) == movie.format = "marlin" \/ movie.tracks[t].keyed

(* build_patched_stsz_bytes: a table of one size for all samples can only  *)
(* hold one size, and none that is zero.                                   *)
SizesFit(t) ==
  IsPatched(t) /\ movie.tracks[t].fixed =>
    \A i \in DOMAIN rebuilt_sample_sizes[t] :
      rebuilt_sample_sizes[t][i] = rebuilt_sample_sizes[t][1] /\ rebuilt_sample_sizes[t][i] > 0

NewSizes(t) == IF IsPatched(t) THEN rebuilt_sample_sizes[t] ELSE movie.tracks[t].sizes

(* An ftyp is encoded anew, without the brand; IAEC leaves it alone.       *)
FtypIsPatched == movie.format # "iaec"

(* OMA reads the ftyp it patches, if there is one, as the only one.        *)
FtypIsBuilt == movie.format = "oma" => Cardinality(RootFtyps) <= 1

NewMoovSize(box) == box.size + movie.moov_growth

(* The first box of a type is the one that is replaced.                    *)
IsReplaced(b, type) ==
  /\ movie.boxes[b].type = type
  /\ \A i \in 1..b - 1 : movie.boxes[i].type # type

NewBoxSize(b) ==
  IF IsReplaced(b, "moov") THEN NewMoovSize(movie.boxes[b])
  ELSE IF IsReplaced(b, "ftyp") /\ FtypIsPatched THEN movie.new_ftyp
  ELSE movie.boxes[b].size

(* build_streamed_mdat_header.                                             *)
MdatHeader ==
  LET header_size == IF payload_size + SmallHeader <= U32Max THEN SmallHeader ELSE LargeHeader
  IN  [NewInfo(payload_size + header_size) EXCEPT !.header_size = header_size]

(* compute_single_mdat_payload_offset.                                     *)
MdatPayloadOffset ==
  Total([b \in DOMAIN movie.boxes |->
           IF movie.boxes[b].type = "mdat" THEN 0 ELSE NewBoxSize(b)])
  + EncodedSize(MdatHeader)

NewOffsets(t) ==
  [c \in DOMAIN relative_offsets[t] |-> MdatPayloadOffset + relative_offsets[t][c]]

OffsetsFit(t) ==
  movie.tracks[t].wide \/ \A c \in DOMAIN NewOffsets(t) : NewOffsets(t)[c] <= U32Max

(* The moov is built with the new tables, and the second pass begins with  *)
(* a queue of its own.                                                     *)
BuildMoov ==
  /\ IsPlanned
  /\ FtypIsBuilt
  /\ \A t \in Tracks : SizesFit(t) /\ OffsetsFit(t)
  /\ tables' = [t \in Tracks |-> [sizes |-> NewSizes(t), offsets |-> NewOffsets(t)]]
  /\ queue' = NewQueue(0)
  /\ state' = "boxes"
  /\ UNCHANGED << movie, error, faults, position, walk, planned, written, output >>

RefuseMoov ==
  /\ IsPlanned
  /\ ~ FtypIsBuilt \/ \E t \in Tracks : ~ SizesFit(t) \/ ~ OffsetsFit(t)
  /\ Fail("tables")

next_box == written + 1

SkipMdat ==
  /\ state = "boxes" /\ written < Len(movie.boxes)
  /\ movie.boxes[next_box].type = "mdat"
  /\ written' = next_box
  /\ UNCHANGED << movie, state, error, faults, position, queue, walk, planned, tables, output >>

IsRewritten(b) == IsReplaced(b, "moov") \/ (IsReplaced(b, "ftyp") /\ FtypIsPatched)

WriteBox ==
  /\ state = "boxes" /\ written < Len(movie.boxes)
  /\ movie.boxes[next_box].type # "mdat"
  /\ output' = Append(output,
       [kind |-> IF IsRewritten(next_box) THEN "replaced" ELSE "copied",
        of |-> next_box, size |-> NewBoxSize(next_box), bytes |-> << >>])
  /\ position' = IF IsRewritten(next_box) THEN position
                 ELSE BoxOffset(next_box) + movie.boxes[next_box].size
  /\ written' = next_box
  /\ UNCHANGED << movie, state, error, faults, queue, walk, planned, tables >>

WriteMdatHeader ==
  /\ state = "boxes" /\ written = Len(movie.boxes)
  /\ output' = Append(output, [kind |-> "mdat", of |-> Encoded(MdatHeader).field,
                               size |-> EncodedSize(MdatHeader), bytes |-> << >>])
  /\ written' = 0
  /\ state' = "samples"
  /\ UNCHANGED << movie, error, faults, position, queue, walk, planned, tables >>

edit == sample_edits[written + 1]

WriteSample ==
  /\ state = "samples" /\ written < Len(sample_edits)
  /\ ReadRange(edit.offset, edit.offset + edit.size)
  /\ output' = Append(output, [kind |-> edit.process, of |-> edit.offset, size |-> edit.clear_size,
                               bytes |-> RangeBytes(edit.offset, edit.offset + edit.size)])
  /\ written' = written + 1
  /\ UNCHANGED << movie, state, error, faults, walk, planned, tables >>

Finish ==
  /\ state = "samples" /\ written = Len(sample_edits)
  /\ state' = "done"
  /\ UNCHANGED << movie, error, faults, position, queue, walk, planned, tables, written, output >>

(* A read, a seek or a write fails.                                        *)
IoFails ==
  /\ state \in {"planning", "boxes", "samples"} /\ faults < MaxFaults
  /\ state' = "failed" /\ error' = "io" /\ faults' = faults + 1
  /\ UNCHANGED << movie, position, queue, walk, planned, tables, written, output >>

Ended == state \in {"done", "failed"} /\ UNCHANGED vars

Work ==
  \/ CollectChunks \/ RefuseFtyp \/ RefuseTracks \/ OpenChunk \/ RefuseOverlap
  \/ PlanSample \/ RefuseSample \/ BuildMoov \/ RefuseMoov \/ SkipMdat \/ WriteBox \/ WriteMdatHeader \/ WriteSample \/ Finish

Next == Work \/ IoFails \/ Ended

(* One call, run to its end.                                               *)
Spec == Init /\ [][Next]_vars /\ WF_vars(Work)
-----------------------------------------------------------------------------
Start(k) == SumTo([i \in DOMAIN output |-> output[i].size], k - 1)

(* How long the places behind the one up to the other are.                 *)
SizeBetween(sizes, from, to) == SumTo(sizes, to) - SumTo(sizes, from)

(* Where a reader looks for a sample, by the new tables.                   *)
NewStart(t, i) ==
  LET track == movie.tracks[t]
      c == ChunkOf(track, i)
  IN  tables[t].offsets[c] + SizeBetween(tables[t].sizes, SamplesBefore(track, c), i - 1)

OldStart(t, i) ==
  LET track == movie.tracks[t]
      c == ChunkOf(track, i)
  IN  track.offsets[c] + SizeBetween(track.sizes, SamplesBefore(track, c), i - 1)

(* Where the bytes of a sample were, and how long it is in the clear.      *)
IsSample(t, i, piece) ==
  /\ piece.kind = Process(t) /\ piece.size = ClearSize(t, i)
  /\ piece.bytes = [j \in 1..movie.tracks[t].sizes[i] |-> OldStart(t, i) + j - 1]

Ascends(t) ==
  \A c \in 2..Len(movie.tracks[t].offsets) : movie.tracks[t].offsets[c - 1] < movie.tracks[t].offsets[c]

MediaSize ==
  Total([k \in DOMAIN output |-> IF output[k].kind \in {"decrypt", "copy"} THEN output[k].size ELSE 0])

(* In the file that was written, the new tables of a track lead to each of *)
(* its samples: at the place and of the size they tell lies that sample,   *)
(* read from where it was and decrypted if the track had its key; and the  *)
(* mdat counts just the samples.  That takes a track whose chunk offsets   *)
(* ascend: sizes and offsets are gathered in the order of the file.        *)
MovieSamplesFound ==
  state = "done" =>
    /\ \A t \in { t \in Tracks : Ascends(t) } :
         \A i \in DOMAIN movie.tracks[t].sizes :
           \E k \in DOMAIN output :
             /\ IsSample(t, i, output[k])
             /\ Start(k) = NewStart(t, i) /\ output[k].size = tables[t].sizes[i]
    /\ \E k \in DOMAIN output :
         output[k].kind = "mdat" /\ output[k].of = output[k].size + MediaSize

LiesInMdat(some_chunk) ==
  \A n \in DOMAIN some_chunk.sizes :
    LET start == some_chunk.offset + Total(SubSeq(some_chunk.sizes, 1, n - 1))
    IN  /\ IsInMdat(start, start + some_chunk.sizes[n])
        /\ some_chunk.sizes[n] > 0 => start + some_chunk.sizes[n] <= movie.length

(* What the tables can express, whatever the order of the chunks.          *)
TablesExpress(t) ==
  /\ IsPatched(t) /\ movie.tracks[t].fixed =>
       \A i \in DOMAIN movie.tracks[t].sizes : ClearSize(t, i) = ClearSize(t, 1) /\ ClearSize(t, i) > 0
  /\ movie.tracks[t].wide \/ Total([b \in DOMAIN movie.boxes |-> NewBoxSize(b)]) <= U32Max

Sound ==
  /\ FtypIsRead /\ FtypIsBuilt
  /\ \A t \in Tracks : HasSamples(movie.tracks[t]) /\ IsMapped(movie.tracks[t])
  /\ \A c, d \in AllChunks : c # d => c.offset # d.offset /\ (c.offset < d.offset => EndOf(c) <= d.offset)
  /\ \A c \in AllChunks : LiesInMdat(c)
  /\ \A t \in Tracks :
       TablesExpress(t) /\ \A i \in DOMAIN movie.tracks[t].sizes : IsOpened(t, i)

(* A movie whose chunks lie side by side in its mdats, whose samples the   *)
(* keys open and its tables can express in the clear, and whose root has   *)
(* the ftyp its format needs, is written: a Marlin movie has one, an OMA   *)
(* movie no more than one.                                                 *)
SoundMovieIsWritten == <>(state = "done" \/ faults > 0 \/ ~ Sound)
=============================================================================
