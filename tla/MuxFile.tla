------------------------------ MODULE MuxFile ------------------------------
(***************************************************************************)
(* Writing a planned mux as an MP4 file, src/src/mux/mp4.rs: the flat file,*)
(* whose moov stands in front of the samples its tables point to, and the  *)
(* fragmented ones, whose sidx stands in front of the fragments it counts. *)
(*                                                                         *)
(* Everything is built before the first byte is written, from sizes: what  *)
(* is written later has to come out where the tables say it does.          *)
(*                                                                         *)
(* A sample is told apart by its place in the plan.  Of a box there is its *)
(* size; what no offset and no property depends on is a fixed part of it.  *)
(* Times are in one clock: the scaling between the movie's and a track's,  *)
(* and what it refuses, is left out.                                       *)
(***************************************************************************)
EXTENDS BoxHeader, Integers, Sequences, FiniteSetsExt, Functions

CONSTANTS
  Mixes,          \* planned items, track configurations and the kind of file
  MaxReferences,  \* a sidx holds
  MaxFaults       \* reads and writes that may fail

ASSUME BoundsAssumption == MaxReferences \in Nat \ {0} /\ MaxFaults \in Nat

(* What an i32, and the 31 bits of a size in a sidx, can say; and what its *)
(* 28 bits for the way to a sync sample can.                               *)
I32Max == U32Max \div 2

SapMax == U32Max \div 16

Layouts == {"flat", "single", "chunked", "split", "segmented"}

PlannedItem ==
  [ track : Nat \ {0}, size : 0..U32Max, description : Nat, is_sync : BOOLEAN,
    decode_time : Nat, duration : 0..U32Max, composition : Int, output_offset : Nat ]

TrackConfig ==
  [ video : BOOLEAN, descriptions : Nat, counts : Seq(Nat), keeps_terminal : BOOLEAN,
    trim : Nat, groups : Seq(Nat), indexed : BOOLEAN ]

Mix ==
  [ layout : Layouts, items : Seq(PlannedItem), tracks : Seq(TrackConfig),
    single_reference : BOOLEAN, prefix : Nat, metadata : [1..3 -> Nat], padded : BOOLEAN ]

ASSUME MixesAssumption == Mixes \subseteq Mix

VARIABLES
  mix, stage,
  provisional_size,  \* of the moov built before the offsets are known
  moov,              \* the tables of each track of a flat file
  fragments,         \* FragmentLayouts
  sample_indices,    \* samples of each track already in fragments
  references,        \* of the sidx, or one for each segment
  boxes,             \* written so far, in order
  end,               \* how long each output file is
  flushed,
  turn,              \* fragments written
  queue,             \* samples of the mdat being written
  places,            \* sample -> where its bytes begin
  faults, reason

vars == << mix, stage, provisional_size, moov, fragments, sample_indices, references, boxes,
           end, flushed, turn, queue, places, faults, reason >>

built == << provisional_size, moov, fragments, sample_indices, references >>
written == << boxes, end, flushed, turn, queue, places >>

Outputs == {"init", "media"}
-----------------------------------------------------------------------------
SumOver(f(_), set) == MapThenSumSet(f, set)

Before(sequence, n) == SumOver(LAMBDA i : sequence[i], 1..n - 1)

items == mix.items
track(t) == mix.tracks[t]
TrackIndexes == DOMAIN mix.tracks
IsFlat == mix.layout = "flat"

(* prepare_tracks files the planned items by track, in the plan's order.   *)
Samples(t) ==
  SelectSeq([k \in DOMAIN items |-> k], LAMBDA k : items[k].track = t)

Bytes(samples) == SumOver(LAMBDA i : items[samples[i]].size, DOMAIN samples)

Descriptions(samples) == { items[samples[i]].description : i \in DOMAIN samples }

Sizes(samples) == { items[samples[i]].size : i \in DOMAIN samples }

(* Chunk c of track t.                                                     *)
Chunk(t, c) ==
  SubSeq(Samples(t), Before(track(t).counts, c) + 1, Before(track(t).counts, c + 1))

Init ==
  /\ mix \in Mixes /\ stage = "prepare"
  /\ provisional_size = 0 /\ moov = << >>
  /\ fragments = << >> /\ sample_indices = [t \in TrackIndexes |-> 0]
  /\ references = << >> /\ boxes = << >>
  /\ end = [file \in Outputs |-> 0] /\ flushed = [file \in Outputs |-> 0]
  /\ turn = 0 /\ queue = << >> /\ places = << >>
  /\ faults = 0 /\ reason = "none"

Refuse(why) ==
  /\ stage' = "refused" /\ reason' = why
  /\ UNCHANGED << mix, written, faults >>
-----------------------------------------------------------------------------
(* prepare_track refuses what the tables cannot tell.                      *)
Unordered(t) ==
  \E i \in 2..Len(Samples(t)) :
    items[Samples(t)[i]].decode_time < items[Samples(t)[i - 1]].decode_time

Undescribed(t) ==
  \E d \in Descriptions(Samples(t)) : d = 0 \/ d > track(t).descriptions

Prepare ==
  /\ stage = "prepare"
  /\ \A t \in TrackIndexes : ~ Undescribed(t) /\ ~ Unordered(t)
  /\ stage' = IF IsFlat THEN "provisional" ELSE "fragment"
  /\ UNCHANGED << mix, built, written, faults, reason >>

RefuseTrack ==
  /\ stage = "prepare"
  /\ \E t \in TrackIndexes : Undescribed(t) \/ Unordered(t)
  /\ Refuse("track") /\ UNCHANGED built
-----------------------------------------------------------------------------
(* The sample tables.  Runs of chunks alike share an stsc entry; the last  *)
(* chunk may be kept apart.                                                *)
Mapping(t, c) == << track(t).counts[c], items[Chunk(t, c)[1]].description >>

(* Defect: only the number of samples tells runs of chunks apart.          *)
OpensRunByCount(t, c) ==
  \/ c = 1
  \/ track(t).counts[c] # track(t).counts[c - 1]
  \/ track(t).keeps_terminal /\ c = Len(track(t).counts)

OpensRun(t, c) ==
  \/ c = 1
  \/ Mapping(t, c) # Mapping(t, c - 1)
  \/ track(t).keeps_terminal /\ c = Len(track(t).counts)

StscEntry(t, c) ==
  [first_chunk |-> c, samples_per_chunk |-> Mapping(t, c)[1],
   description |-> Mapping(t, c)[2]]

Stsc(t) ==
  LET opening == SelectSeq([c \in DOMAIN track(t).counts |-> c], LAMBDA c : OpensRun(t, c))
  IN  [e \in DOMAIN opening |-> StscEntry(t, opening[e])]

AllEqualSize(samples) == Len(samples) > 0 /\ \A size \in Sizes(samples) :
                           size = items[samples[1]].size

Stsz(t) ==
  LET samples == Samples(t)
  IN  IF AllEqualSize(samples)
      THEN [sample_size |-> items[samples[1]].size, entry_size |-> << >>]
      ELSE [sample_size |-> 0, entry_size |-> [i \in DOMAIN samples |-> items[samples[i]].size]]

ChunkOffsets(t, mdat_data_start) ==
  [c \in DOMAIN track(t).counts |-> mdat_data_start + items[Chunk(t, c)[1]].output_offset]

IsWide(offsets) == \E c \in DOMAIN offsets : offsets[c] > U32Max

Tables(t, mdat_data_start) ==
  LET offsets == ChunkOffsets(t, mdat_data_start)
  IN  [stsc |-> Stsc(t), stsz |-> Stsz(t), offsets |-> offsets, wide |-> IsWide(offsets)]

FtypSize == 16
TrakSize == 12

TablesSize(tables) ==
  TrakSize + 12 * Len(tables.stsc) + 4 * Len(tables.stsz.entry_size)
           + (IF tables.wide THEN 8 ELSE 4) * Len(tables.offsets)

BuildMoov(mdat_data_start) == [t \in TrackIndexes |-> Tables(t, mdat_data_start)]

MoovSize(tracks) == SmallHeader + SumOver(LAMBDA t : TablesSize(tracks[t]), DOMAIN tracks)

MixedChunk(t) == \E c \in DOMAIN track(t).counts : Cardinality(Descriptions(Chunk(t, c))) > 1

(* An stsz that says zero for all has no room to say it for each.          *)
Unencodable(t) ==
  Samples(t) # << >> /\ Stsz(t).sample_size = 0 /\ Stsz(t).entry_size = << >>

BuildProvisionalMoov ==
  /\ stage = "provisional"
  /\ \A t \in TrackIndexes : ~ MixedChunk(t) /\ ~ Unencodable(t)
  /\ provisional_size' = MoovSize(BuildMoov(0))
  /\ stage' = "moov"
  /\ UNCHANGED << mix, moov, fragments, sample_indices, references, written, faults, reason >>

RefuseTables ==
  /\ stage = "provisional"
  /\ \E t \in TrackIndexes : MixedChunk(t) \/ Unencodable(t)
  /\ Refuse("tables") /\ UNCHANGED built

(* Defect: the header itself is not counted.                               *)
PayloadHeader(payload_size) == NewInfo(payload_size)

(* encode_header_only counts on a small header.                            *)
MdatHeader(payload_size) == NewInfo(SmallHeader + payload_size)

total_payload_size == SumOver(LAMBDA k : items[k].size, DOMAIN items)

(* Defect: the prefix in front of the moov is forgotten.                   *)
UnprefixedDataStart ==
  FtypSize + provisional_size + EncodedSize(MdatHeader(total_payload_size))

MdatDataStart ==
  FtypSize + mix.prefix + provisional_size + EncodedSize(MdatHeader(total_payload_size))

BuildFinalMoov ==
  /\ stage = "moov"
  /\ MoovSize(BuildMoov(MdatDataStart)) = provisional_size
  /\ moov' = BuildMoov(MdatDataStart)
  /\ stage' = "head"
  /\ UNCHANGED << mix, provisional_size, fragments, sample_indices, references, written,
                  faults, reason >>

(* Offsets that need more room than those counted from zero.               *)
RefuseMoov ==
  /\ stage = "moov"
  /\ MoovSize(BuildMoov(MdatDataStart)) # provisional_size
  /\ Refuse("moov_grew") /\ UNCHANGED built
-----------------------------------------------------------------------------
(* Fragment f takes chunk f of every track, track after track.             *)
HasSamples(t) == Samples(t) # << >>

FragmentCount == Max({ Len(track(t).counts) : t \in TrackIndexes } \cup {0})

ReachesEnd(t) == Len(track(t).counts) = FragmentCount

Preferences ==
  << { t \in TrackIndexes : HasSamples(t) /\ ReachesEnd(t) /\ track(t).video },
     { t \in TrackIndexes : HasSamples(t) /\ ReachesEnd(t) },
     { t \in TrackIndexes : HasSamples(t) /\ track(t).video },
     { t \in TrackIndexes : HasSamples(t) } >>

sidx_track ==
  LET choice == Min({ p \in DOMAIN Preferences : Preferences[p] # {} })
  IN  Min(Preferences[choice])

NextFragment == Len(fragments) + 1

Taking(f) == { t \in TrackIndexes : f \in DOMAIN track(t).counts }

FragmentSamples(t, f) ==
  SubSeq(Samples(t), sample_indices[t] + 1, sample_indices[t] + track(t).counts[f])

RunStarts(samples) ==
  SelectSeq([i \in DOMAIN samples |-> i],
            LAMBDA i : i = 1 \/ items[samples[i]].description # items[samples[i - 1]].description)

RunsOf(t, samples, payload_offset) ==
  LET starts == RunStarts(samples)
      ends == [r \in DOMAIN starts |-> IF r = Len(starts) THEN Len(samples) ELSE starts[r + 1] - 1]
  IN  [r \in DOMAIN starts |->
         [track |-> t, samples |-> SubSeq(samples, starts[r], ends[r]),
          payload_offset |-> payload_offset + Bytes(SubSeq(samples, 1, starts[r] - 1))]]

PayloadBefore(t, f) ==
  SumOver(LAMBDA u : Bytes(FragmentSamples(u, f)), { u \in Taking(f) : u < t })

(* Defect: every run of a track starts where the track's payload does.     *)
UnsplitRuns(t, f) ==
  LET runs == RunsOf(t, FragmentSamples(t, f), PayloadBefore(t, f))
  IN  [r \in DOMAIN runs |-> [runs[r] EXCEPT !.payload_offset = PayloadBefore(t, f)]]

TrackRuns(t, f) == RunsOf(t, FragmentSamples(t, f), PayloadBefore(t, f))

Concatenated(parts(_), n) ==
  LET so_far[t \in 0..n] == IF t = 0 THEN << >> ELSE so_far[t - 1] \o parts(t) IN so_far[n]

Runs(f) ==
  Concatenated(LAMBDA t : IF t \in Taking(f) THEN TrackRuns(t, f) ELSE << >>, Len(mix.tracks))

AllSamples(f) ==
  Concatenated(LAMBDA t : IF t \in Taking(f) THEN FragmentSamples(t, f) ELSE << >>,
               Len(mix.tracks))

TrafSize(samples) == 20 + (IF AllEqualSize(samples) THEN 0 ELSE 4 * Len(samples))

MoofSize(runs) ==
  SmallHeader + 8 + SumOver(LAMBDA r : TrafSize(runs[r].samples), DOMAIN runs)

SegmentTypeSize == IF mix.layout = "segmented" THEN 12 ELSE 0

Metadata(f) == IF f \in DOMAIN mix.metadata THEN mix.metadata[f] ELSE 0

FragmentLayout(f) ==
  LET runs == Runs(f)
      samples == AllSamples(f)
      header == MdatHeader(Bytes(samples))
      base == MoofSize(runs) + EncodedSize(header)
  IN  [runs |-> [r \in DOMAIN runs |->
                   [track |-> runs[r].track, samples |-> runs[r].samples,
                    data_offset |-> base + runs[r].payload_offset]],
       samples |-> samples,
       sidx_samples |-> IF sidx_track \in Taking(f) THEN FragmentSamples(sidx_track, f) ELSE << >>,
       metadata |-> Metadata(f), moof_size |-> MoofSize(runs), header |-> header]

DataOffsetsFit(f) ==
  LET layout == FragmentLayout(f)
  IN  \A r \in DOMAIN layout.runs : layout.runs[r].data_offset <= I32Max

Fragmenting ==
  /\ stage = "fragment"
  /\ \E t \in TrackIndexes : HasSamples(t)
  /\ NextFragment <= FragmentCount

BuildFragment ==
  /\ Fragmenting
  /\ DataOffsetsFit(NextFragment)
  /\ fragments' = Append(fragments, FragmentLayout(NextFragment))
  /\ sample_indices' = [t \in TrackIndexes |->
       sample_indices[t] + (IF t \in Taking(NextFragment) THEN track(t).counts[NextFragment] ELSE 0)]
  /\ UNCHANGED << mix, stage, provisional_size, moov, references, written, faults, reason >>

(* A run further into the payload than its trun can say.                   *)
RefuseFragment ==
  /\ Fragmenting
  /\ ~ DataOffsetsFit(NextFragment)
  /\ Refuse("data_offset") /\ UNCHANGED built

RefuseEmpty ==
  /\ stage = "fragment"
  /\ \A t \in TrackIndexes : ~ HasSamples(t)
  /\ Refuse("no_samples") /\ UNCHANGED built
-----------------------------------------------------------------------------
(* The sidx: one reference for each group of fragments, for all, or for    *)
(* each of them.                                                           *)
Groups ==
  IF mix.layout = "segmented" THEN [f \in DOMAIN fragments |-> 1]
  ELSE IF track(sidx_track).groups # << >> THEN track(sidx_track).groups
  ELSE IF mix.single_reference THEN << Len(fragments) >>
  ELSE [f \in DOMAIN fragments |-> 1]

(* Defect: the boxes in front of the moof are not counted.                 *)
MoofToEnd(fragment) ==
  fragment.moof_size + EncodedSize(fragment.header) + Bytes(fragment.samples)

FragmentSize(fragment) ==
  fragment.metadata + fragment.moof_size + EncodedSize(fragment.header) + Bytes(fragment.samples)

(* Where a sample is presented once the trim is taken off.                 *)
Start(k, trim) == items[k].decode_time + items[k].composition - trim

End(k, trim) == Start(k, trim) + items[k].duration

Shown(samples, trim) ==
  { i \in DOMAIN samples : End(samples[i], trim) > 0 \/ Start(samples[i], trim) >= 0 }

Clipped(time) == IF time < 0 THEN 0 ELSE time

(* How long after the earliest sample the first sync sample is presented.  *)
SapDelta(samples, trim, earliest) ==
  LET syncs == { i \in Shown(samples, trim) : items[samples[i]].is_sync }
  IN  IF syncs = {} THEN 0 ELSE Clipped(Start(samples[Min(syncs)], trim)) - earliest

Reference(first, count, trim) ==
  LET members == first..first + count - 1
      samples == Concatenated(LAMBDA f : fragments[first + f - 1].sidx_samples, count)
      starts == { Clipped(Start(samples[i], trim)) : i \in Shown(samples, trim) }
      earliest == IF starts = {} THEN 0 ELSE Min(starts)
  IN  [first |-> first, count |-> count,
       size |-> SumOver(LAMBDA f : FragmentSize(fragments[f]), members),
       duration |-> SumOver(LAMBDA i : End(samples[i], trim) - Clipped(Start(samples[i], trim)),
                            Shown(samples, trim)),
       earliest |-> earliest, sap_delta |-> SapDelta(samples, trim, earliest),
       starts_with_sap |-> samples # << >> /\ items[samples[1]].is_sync]

BuiltReferences ==
  [g \in DOMAIN Groups |->
     Reference(Before(Groups, g) + 1, Groups[g], IF g = 1 THEN track(sidx_track).trim ELSE 0)]

(* Defect: the last fragment is left out of the count.                     *)
GroupsButLast == Before(Groups, Len(Groups) + 1) = Len(fragments) - 1

GroupsCover == Before(Groups, Len(Groups) + 1) = Len(fragments)

Limited(all) ==
  IF mix.layout = "segmented" \/ Len(all) <= MaxReferences
  THEN all ELSE SubSeq(all, 1, MaxReferences)

(* Every reference is measured in 32 bits, those a sidx keeps are encoded  *)
(* in fewer.                                                               *)
IsMeasured(reference) ==
  reference.size <= U32Max /\ reference.duration <= U32Max /\ reference.sap_delta <= U32Max

IsEncoded(reference) == reference.size <= I32Max /\ reference.sap_delta <= SapMax

Fits(all) ==
  /\ \A reference \in Range(all) : IsMeasured(reference)
  /\ \A reference \in Range(Limited(all)) : IsEncoded(reference)

AllBuilt ==
  /\ stage = "fragment"
  /\ \E t \in TrackIndexes : HasSamples(t)
  /\ NextFragment > FragmentCount

IsIndexed == track(sidx_track).indexed

BuildIndex ==
  /\ AllBuilt
  /\ IsIndexed => GroupsCover
  /\ \E all \in {IF IsIndexed THEN BuiltReferences ELSE << >>} :
       Fits(all) /\ references' = Limited(all)
  /\ stage' = "head"
  /\ UNCHANGED << mix, provisional_size, moov, fragments, sample_indices, written, faults, reason >>

(* Groups that run past the fragments, or leave some over.                 *)
RefuseGroups ==
  /\ AllBuilt
  /\ IsIndexed /\ ~ GroupsCover
  /\ Refuse("groups") /\ UNCHANGED built

(* A group too large or too long for its reference.                        *)
RefuseIndex ==
  /\ AllBuilt
  /\ IsIndexed /\ GroupsCover
  /\ \E all \in {BuiltReferences} : ~ Fits(all)
  /\ Refuse("reference") /\ UNCHANGED built
-----------------------------------------------------------------------------
(* Boxes go out one after the other; the header of an mdat says how long it*)
(* will be, the payload follows sample by sample.                          *)
InitFile == IF mix.layout \in {"split", "segmented"} THEN "init" ELSE "media"

Box(type, size, of) == [type |-> type, size |-> size, declared |-> size, of |-> of]

Mdat(header, of) ==
  [type |-> "mdat", size |-> EncodedSize(header), declared |-> Encoded(header).field, of |-> of]

WriteBoxes(file, list) ==
  LET present == SelectSeq(list, LAMBDA box : box.size > 0)
  IN  /\ boxes' = boxes \o [b \in DOMAIN present |->
           [file |-> file, type |-> present[b].type, of |-> present[b].of,
            offset |-> end[file] + SumOver(LAMBDA i : present[i].size, 1..b - 1),
            declared |-> present[b].declared]]
      /\ end' = [end EXCEPT ![file] = @ + SumOver(LAMBDA b : present[b].size, DOMAIN present)]

WriteFlatHead ==
  /\ stage = "head" /\ IsFlat
  /\ WriteBoxes("media", << Box("ftyp", FtypSize, 0), Box("prefix", mix.prefix, 0),
                            Box("moov", MoovSize(moov), 0),
                            Mdat(MdatHeader(total_payload_size), 0) >>)
  /\ queue' = [k \in DOMAIN items |-> k]
  /\ stage' = "samples"
  /\ UNCHANGED << mix, built, flushed, turn, places, faults, reason >>

SidxSize(n) == 20 + 12 * n

FragmentedMoovSize == 40

WriteInitHead ==
  /\ stage = "head" /\ ~ IsFlat
  /\ WriteBoxes(InitFile, << Box("ftyp", FtypSize, 0), Box("moov", FragmentedMoovSize, 0) >>)
  /\ flushed' = IF InitFile = "init" THEN [flushed EXCEPT !["init"] = end'["init"]] ELSE flushed
  /\ stage' = "sidx"
  /\ UNCHANGED << mix, built, turn, queue, places, faults, reason >>

WriteSidx ==
  /\ stage = "sidx"
  /\ WriteBoxes("media",
       IF mix.layout = "segmented" \/ ~ IsIndexed THEN << >>
       ELSE << Box("sidx", SidxSize(Len(references)), 0) >>)
  /\ flushed' = IF mix.layout = "chunked" THEN [flushed EXCEPT !["media"] = end'["media"]]
                ELSE flushed
  /\ stage' = "between"
  /\ UNCHANGED << mix, built, turn, queue, places, faults, reason >>

WriteFragmentHead ==
  /\ stage = "between" /\ turn < Len(fragments)
  /\ LET f == turn + 1
         fragment == fragments[f]
         index == IF mix.layout = "segmented" /\ references # << >> THEN SidxSize(1) ELSE 0
     IN  /\ WriteBoxes("media", << Box("styp", SegmentTypeSize, f), Box("sidx", index, f),
                                   Box("metadata", fragment.metadata, f),
                                   Box("moof", fragment.moof_size, f), Mdat(fragment.header, f) >>)
         /\ queue' = fragment.samples
  /\ turn' = turn + 1
  /\ stage' = "samples"
  /\ UNCHANGED << mix, built, flushed, places, faults, reason >>

CopySample ==
  /\ stage = "samples" /\ queue # << >>
  /\ places' = [k \in DOMAIN places \cup {Head(queue)} |->
                  IF k = Head(queue) THEN end["media"] ELSE places[k]]
  /\ end' = [end EXCEPT !["media"] = @ + items[Head(queue)].size]
  /\ queue' = Tail(queue)
  /\ UNCHANGED << mix, stage, built, boxes, flushed, turn, faults, reason >>

(* The end of an mdat: a chunked file is flushed fragment by fragment.     *)
EndFragment ==
  /\ stage = "samples" /\ queue = << >> /\ ~ IsFlat
  /\ flushed' = IF mix.layout = "chunked" THEN [flushed EXCEPT !["media"] = end["media"]]
                ELSE flushed
  /\ stage' = "between"
  /\ UNCHANGED << mix, built, boxes, end, turn, queue, places, faults, reason >>

WriteTrailing ==
  /\ stage = "samples" /\ queue = << >> /\ IsFlat
  /\ WriteBoxes("media", << Box("free", IF mix.padded THEN 10 ELSE 0, 0) >>)
  /\ flushed' = [flushed EXCEPT !["media"] = end'["media"]]
  /\ stage' = "written"
  /\ UNCHANGED << mix, built, turn, queue, places, faults, reason >>

Finish ==
  /\ stage = "between" /\ turn = Len(fragments)
  /\ flushed' = IF mix.layout = "chunked" THEN flushed
                ELSE [flushed EXCEPT !["media"] = end["media"]]
  /\ stage' = "written"
  /\ UNCHANGED << mix, built, boxes, end, turn, queue, places, faults, reason >>

(* A source ends or fails, or the writer does.                             *)
CopyFails ==
  /\ stage = "samples" /\ queue # << >>
  /\ faults < MaxFaults
  /\ faults' = faults + 1
  /\ stage' = "refused" /\ reason' = "io"
  /\ UNCHANGED << mix, built, written >>

Ended == stage \in {"written", "refused"} /\ UNCHANGED vars

Work ==
  \/ Prepare \/ RefuseTrack \/ BuildProvisionalMoov \/ RefuseTables \/ BuildFinalMoov \/ RefuseMoov
  \/ BuildFragment \/ RefuseFragment \/ RefuseEmpty
  \/ BuildIndex \/ RefuseGroups \/ RefuseIndex
  \/ WriteFlatHead \/ WriteInitHead \/ WriteSidx \/ WriteFragmentHead
  \/ CopySample \/ EndFragment \/ WriteTrailing \/ Finish

Next == Work \/ CopyFails \/ Ended

(* One call, run to its end.                                               *)
Spec == Init /\ [][Next]_vars /\ WF_vars(Work)
-----------------------------------------------------------------------------
(* What a reader makes of the sample tables of a track.                    *)
EntryOf(tables, c) ==
  tables.stsc[Max({ e \in DOMAIN tables.stsc : tables.stsc[e].first_chunk <= c })]

FirstIn(tables, c) == 1 + SumOver(LAMBDA d : EntryOf(tables, d).samples_per_chunk, 1..c - 1)

ChunkOf(tables, i) == Max({ c \in DOMAIN tables.offsets : FirstIn(tables, c) <= i })

TableSize(tables, i) ==
  IF tables.stsz.sample_size # 0 THEN tables.stsz.sample_size ELSE tables.stsz.entry_size[i]

FoundAt(tables, i) ==
  LET c == ChunkOf(tables, i)
  IN  tables.offsets[c] + SumOver(LAMBDA j : TableSize(tables, j), FirstIn(tables, c)..i - 1)

FoundInTables(t, i) ==
  LET k == Samples(t)[i]
  IN  /\ FoundAt(moov[t], i) = places[k]
      /\ TableSize(moov[t], i) = items[k].size
      /\ EntryOf(moov[t], ChunkOf(moov[t], i)).description = items[k].description

BoxAt(type, f) == boxes[CHOOSE b \in DOMAIN boxes : boxes[b].type = type /\ boxes[b].of = f].offset

FoundInRun(f, run) ==
  \A i \in DOMAIN run.samples :
    places[run.samples[i]] =
      BoxAt("moof", f) + run.data_offset + Bytes(SubSeq(run.samples, 1, i - 1))

(* A reader that follows the tables of a written file, or its moofs, finds *)
(* every planned sample, with its size and description, where its bytes    *)
(* were written.                                                           *)
SamplesFound ==
  stage = "written" =>
    /\ DOMAIN places = DOMAIN items
    /\ IsFlat => \A t \in TrackIndexes : \A i \in DOMAIN Samples(t) : FoundInTables(t, i)
    /\ ~ IsFlat => \A f \in DOMAIN fragments : \A r \in DOMAIN fragments[f].runs :
                      /\ FoundInRun(f, fragments[f].runs[r])
                      /\ Cardinality(Descriptions(fragments[f].runs[r].samples)) = 1

(* Where the first box of fragment f stands, or the file ends.             *)
FragmentStart(f) ==
  Min({ boxes[b].offset : b \in { b \in DOMAIN boxes : boxes[b].of = f } } \cup {end["media"]})

SegmentIndexHolds(f) ==
  BoxAt("sidx", f) + SidxSize(1) + references[f].size = FragmentStart(f + 1)

Anchor == BoxAt("sidx", 0) + SidxSize(Len(references))

SizeOfFirst(n) == SumOver(LAMBDA i : references[i].size, 1..n)

IndexHolds(j) ==
  /\ Anchor + SizeOfFirst(j - 1) = FragmentStart(references[j].first)
  /\ Anchor + SizeOfFirst(j) = FragmentStart(references[j].first + references[j].count)

(* The samples of the index track follow each other without a gap, and the *)
(* trim ends before the second reference begins.                           *)
Gapless ==
  LET samples == Samples(sidx_track)
  IN  \A i \in 2..Len(samples) : Start(samples[i], 0) = End(samples[i - 1], 0)

FirstSample(j) == fragments[references[j].first].sidx_samples[1]

TrimIsShort == Len(references) < 2 \/ Start(FirstSample(2), track(sidx_track).trim) >= 0

TimeHolds(j) ==
  references[1].earliest + SumOver(LAMBDA i : references[i].duration, 1..j - 1)
    = Clipped(Start(FirstSample(j), track(sidx_track).trim))

(* A player that adds up the sizes of a sidx comes to the boxes of the     *)
(* fragments it counts, and one that adds up its durations to the time     *)
(* their first sample is presented at.                                     *)
SidxFindsFragments ==
  stage = "written" /\ references # << >> =>
    IF mix.layout = "segmented" THEN \A f \in DOMAIN fragments : SegmentIndexHolds(f)
    ELSE \A j \in DOMAIN references :
           /\ IndexHolds(j)
           /\ Gapless /\ TrimIsShort /\ references[j].count > 0 => TimeHolds(j)

NextIn(b) ==
  Min({ boxes[d].offset : d \in { d \in DOMAIN boxes : d > b /\ boxes[d].file = boxes[b].file } }
      \cup {end[boxes[b].file]})

HasLargeMdat ==
  \/ IsFlat /\ EncodedSize(MdatHeader(total_payload_size)) = LargeHeader
  \/ \E f \in DOMAIN fragments : EncodedSize(fragments[f].header) = LargeHeader

DeclaredSizesHold ==
  \A b \in DOMAIN boxes : boxes[b].offset + boxes[b].declared = NextIn(b)

(* A reader that goes from box to box by the sizes in their headers meets  *)
(* every box of a written file and then its end, and everything has been   *)
(* flushed; unless a payload is too long for a small header, which is then *)
(* written with sixteen bytes and a size that counts eight of them.        *)
BoxesTile ==
  stage = "written" => (HasLargeMdat \/ DeclaredSizesHold) /\ flushed = end

(* Nothing in the mix keeps it from being written.                         *)
CrossesLimit(t) ==
  LET counted == ChunkOffsets(t, 0)
  IN  /\ \A c \in DOMAIN counted : counted[c] <= U32Max
      /\ \E c \in DOMAIN counted :
           counted[c] + FtypSize + mix.prefix + MoovSize(BuildMoov(0)) + LargeHeader > U32Max

(* The fragments with room for a run of its own for every sample.          *)
OutputRoom ==
  total_payload_size + 24 * Len(items)
    + SumOver(LAMBDA f : Metadata(f) + 2 * SmallHeader + LargeHeader, 1..FragmentCount)

(* Fragments that stay below 31 bits taken together, and times of the index*)
(* track below those a reference has for them.                             *)
FitsIndex ==
  LET samples == Samples(sidx_track)
  IN  /\ OutputRoom <= I32Max
      /\ SumOver(LAMBDA i : items[samples[i]].duration, DOMAIN samples) <= U32Max
      /\ \A i, j \in DOMAIN samples : Start(samples[i], 0) - Start(samples[j], 0) <= SapMax

SoundMix ==
  /\ items # << >>
  /\ ~ IsFlat => FitsIndex
  /\ \A t \in TrackIndexes :
       /\ ~ Undescribed(t) /\ ~ Unordered(t)
       /\ IsFlat => ~ MixedChunk(t) /\ ~ CrossesLimit(t) /\ Sizes(Samples(t)) # {0}
       /\ track(t).groups # << >> =>
            Before(track(t).groups, Len(track(t).groups) + 1) = Len(track(t).counts)

(* A mix that can be expressed in the chosen kind of file is written to its*)
(* end, unless a source or the writer fails.                               *)
SoundMixIsWritten ==
  <>(stage = "written" \/ faults > 0 \/ ~ SoundMix)
=============================================================================
