------------------------------- MODULE MuxPlan -------------------------------
(***************************************************************************)
(* plan_staged_media_items_with_coordination of src/src/mux/mod.rs: staged *)
(* media items are sorted, filed by track, cut into chunks by the counts   *)
(* of src/src/mux/coordination.rs, the chunks are sorted again and laid    *)
(* out, and src/src/mux/event.rs turns the layout into the events readers  *)
(* and writers follow.  Each loop turn is one action.                      *)
(*                                                                         *)
(* Every step consumes what an earlier one built, through indexes into     *)
(* another sequence: order, coverage and offsets must survive all of them. *)
(***************************************************************************)
EXTENDS Sums, Options, Sequences, FiniteSets, SequencesExt, FiniteSetsExt

CONSTANT TrackIds  \* track identifiers, numbers

ASSUME TrackIdsAssumption == TrackIds \subseteq Nat /\ None \notin TrackIds

StagedItem ==
  [ source_index : Nat, track_id : TrackIds, decode_time : Nat, duration : Nat,
    data_offset : Nat, data_size : Nat ]

BoundaryKinds == {"segment", "fragment"}

(* TrackCoordinationDirective                                              *)
Directive ==
  [track_id : TrackIds, counts : Seq(Nat), boundary_kind : BoundaryKinds \cup {None}]

Policies == {"decode_time", "chunk_ordinal_then_source"}

VARIABLES
  plan_stage,       \* where the function is, see Stages
  plan_error,       \* None, or why it failed
  policy,
  directives,       \* those not yet applied
  queue_items,      \* the items in the work queue's order, those not yet filed
  items_by_track,
  coordination,     \* track -> chunk sample counts
  boundary_kinds,   \* track -> kind of its duration boundaries, or None
  chunks,           \* PlannedChunks, those not yet laid out
  cut_at,           \* track -> chunks and samples already cut
  planned_items,
  total_payload_size,
  events

planVars == << plan_stage, plan_error, policy, directives, queue_items, items_by_track,
               coordination, boundary_kinds, chunks, cut_at, planned_items,
               total_payload_size, events >>

filedVars == << queue_items, items_by_track >>
directedVars == << directives, coordination, boundary_kinds >>
cutVars == << chunks, cut_at >>
laidVars == << planned_items, total_payload_size >>

Stages == { "unplanned", "filing", "coordinating", "cutting", "laying_out", "graphing",
            "planned", "refused" }
-----------------------------------------------------------------------------
(* sort_by_key is a stable sort: by the lexicographic order of the keys    *)
(* and, between equal keys, by the old places.                             *)
Precedes(a, b) ==
  \E i \in DOMAIN a : a[i] < b[i] /\ \A j \in 1..i - 1 : a[j] = b[j]

ComesBefore(s, key(_), i, j) ==
  Precedes(key(s[i]), key(s[j])) \/ (key(s[i]) = key(s[j]) /\ i < j)

Ranking(s, key(_)) ==
  [ n \in DOMAIN s |->
      CHOOSE i \in DOMAIN s :
        Cardinality({ j \in DOMAIN s : ComesBefore(s, key, j, i) }) = n - 1 ]

(* The result of the sort, as a set that is empty should the ranking not be*)
(* an ordered arrangement of s.                                            *)
SortedByKey(s, key(_)) ==
  LET p == Ranking(s, key)
  IN  { r \in { [i \in DOMAIN s |-> s[p[i]]] } :
          /\ { p[i] : i \in DOMAIN s } = DOMAIN s
          /\ \A i, j \in DOMAIN s : i < j => ComesBefore(s, key, p[i], p[j]) }

SourceKey(item) == << item.source_index, item.data_offset, item.track_id >>

(* MuxQueueItem::queue_order_key                                           *)
DecodeKey(item) == << item.decode_time >>

Tracks == { t \in TrackIds : items_by_track[t] # << >> }

BeginPlan(items, interleave_policy, given) ==
  /\ plan_stage = "unplanned"
  /\ \E by_source \in SortedByKey(items, SourceKey) :
       \E queue \in SortedByKey(by_source, DecodeKey) : queue_items' = queue
  /\ plan_stage' = "filing"
  /\ policy' = interleave_policy
  /\ directives' = given
  /\ UNCHANGED << plan_error, items_by_track, coordination, boundary_kinds,
                  events, cutVars, laidVars >>

PlanInit ==
  /\ plan_stage = "unplanned" /\ plan_error = None
  /\ policy = "decode_time" /\ directives = << >> /\ queue_items = << >>
  /\ items_by_track = [t \in TrackIds |-> << >>]
  /\ coordination = [t \in TrackIds |-> << >>]
  /\ boundary_kinds = [t \in TrackIds |-> None]
  /\ chunks = << >> /\ planned_items = << >> /\ total_payload_size = 0
  /\ events = << >>
  /\ cut_at = [t \in TrackIds |-> [chunk_index |-> 0, sample |-> 0]]

(* The loop over the queue: one item goes to its track.                    *)
FileItem ==
  /\ plan_stage = "filing" /\ queue_items # << >>
  /\ LET item == Head(queue_items)
     IN  items_by_track' = [items_by_track EXCEPT ![item.track_id] = Append(@, item)]
  /\ queue_items' = Tail(queue_items)
  /\ UNCHANGED << plan_stage, plan_error, policy, events,
                  directedVars, cutVars, laidVars >>

OneEach(items) == [i \in DOMAIN items |-> 1]

(* The defaults of MuxCoordinationPlan::from_track_plans.                  *)
DefaultCoordination ==
  /\ plan_stage = "filing" /\ queue_items = << >>
  /\ coordination' = [t \in TrackIds |-> OneEach(items_by_track[t])]
  /\ plan_stage' = "coordinating"
  /\ UNCHANGED << plan_error, policy, directives, boundary_kinds, events,
                  filedVars, cutVars, laidVars >>
-----------------------------------------------------------------------------
(* How many samples the chunks up to the i-th hold.                        *)
CountBefore(counts, i) == SumTo(counts, i)

(* validate_chunk_sample_counts                                            *)
CountsCover(counts, items) ==
  /\ counts # << >>
  /\ \A i \in DOMAIN counts : counts[i] # 0
  /\ CountBefore(counts, Len(counts)) = Len(items)

RefusePlan(reason) ==
  /\ plan_stage' = "refused" /\ plan_error' = reason
  /\ UNCHANGED << policy, events, filedVars, directedVars, cutVars, laidVars >>

ApplyDirective ==
  /\ plan_stage = "coordinating" /\ directives # << >>
  /\ LET directive == Head(directives)
     IN  /\ directive.track_id \in Tracks
         /\ CountsCover(directive.counts, items_by_track[directive.track_id])
         /\ coordination' = [coordination EXCEPT ![directive.track_id] = directive.counts]
         /\ boundary_kinds' =
              [boundary_kinds EXCEPT ![directive.track_id] = directive.boundary_kind]
  /\ directives' = Tail(directives)
  /\ UNCHANGED << plan_stage, plan_error, policy, events, filedVars, cutVars, laidVars >>

RefuseDirective ==
  /\ plan_stage = "coordinating" /\ directives # << >>
  /\ LET directive == Head(directives)
     IN  \/ directive.track_id \notin Tracks /\ RefusePlan("missing_track_id")
         \/ /\ directive.track_id \in Tracks
            /\ ~ CountsCover(directive.counts, items_by_track[directive.track_id])
            /\ RefusePlan("invalid_chunk_plan")
-----------------------------------------------------------------------------
(* build_planned_items_from_tracks, one turn for each chunk of each track. *)
(* A chunk is an interval of its track's items, and bears the keys of its  *)
(* first item.  The code refuses counts that run past the items or leave   *)
(* some over; after validation no counts do, and the plan would be stuck   *)
(* here if some did.                                                       *)
BeginCutting ==
  /\ plan_stage = "coordinating" /\ directives = << >>
  /\ plan_stage' = "cutting"
  /\ UNCHANGED << plan_error, policy, events, filedVars,
                  directedVars, cutVars, laidVars >>

Uncut == { t \in Tracks : cut_at[t].chunk_index < Len(coordination[t]) }

CutChunk ==
  /\ plan_stage = "cutting"
  /\ \E t \in Uncut :
       LET at == cut_at[t]
           end == at.sample + coordination[t][at.chunk_index + 1]
           first == items_by_track[t][at.sample + 1]
       IN  /\ \A u \in Uncut : t <= u
           /\ at.sample < Len(items_by_track[t])
           /\ chunks' = Append(chunks,
                [ track_id |-> t, chunk_index |-> at.chunk_index,
                  start_index |-> at.sample, end_index |-> end,
                  decode_time |-> first.decode_time, source_index |-> first.source_index,
                  data_offset |-> first.data_offset ])
           /\ cut_at' = [cut_at EXCEPT ![t] = [chunk_index |-> @.chunk_index + 1, sample |-> end]]
  /\ UNCHANGED << plan_stage, plan_error, policy, events,
                  filedVars, directedVars, laidVars >>

TimeKey(chunk) ==
  << chunk.decode_time, chunk.source_index, chunk.data_offset, chunk.track_id >>

(* Defect: the chunk's ordinal is left out of the key.                     *)
SourceOnlyKey(chunk) ==
  << chunk.source_index, chunk.data_offset, chunk.track_id, chunk.decode_time >>

OrdinalKey(chunk) ==
  << chunk.chunk_index, chunk.source_index, chunk.data_offset, chunk.track_id,
     chunk.decode_time >>

SortChunks ==
  /\ plan_stage = "cutting" /\ Uncut = {}
  /\ \A t \in Tracks : cut_at[t].sample = Len(items_by_track[t])
  /\ \/ policy = "decode_time" /\ chunks' \in SortedByKey(chunks, TimeKey)
     \/ policy = "chunk_ordinal_then_source" /\ chunks' \in SortedByKey(chunks, OrdinalKey)
  /\ plan_stage' = "laying_out"
  /\ UNCHANGED << plan_error, policy, cut_at, events,
                  filedVars, directedVars, laidVars >>

(* Defect: the chunks take turns item by item.                             *)
Alternated(rest) ==
  IF Head(rest).start_index + 1 = Head(rest).end_index
    THEN Tail(rest)
    ELSE Append(Tail(rest), [Head(rest) EXCEPT !.start_index = @ + 1])

(* What is left of the first chunk once one of its items is laid out.      *)
Advanced(rest) ==
  IF Head(rest).start_index + 1 = Head(rest).end_index
    THEN Tail(rest)
    ELSE << [Head(rest) EXCEPT !.start_index = @ + 1] >> \o Tail(rest)

(* MuxPlannedMediaItem                                                     *)
Planned(item, offset) == [staged |-> item, output_offset |-> offset]

LayOutItem ==
  /\ plan_stage = "laying_out" /\ chunks # << >>
  /\ LET chunk == Head(chunks)
         item == items_by_track[chunk.track_id][chunk.start_index + 1]
     IN  /\ planned_items' = Append(planned_items, Planned(item, total_payload_size))
         /\ total_payload_size' = total_payload_size + item.data_size
  /\ chunks' = Advanced(chunks)
  /\ UNCHANGED << plan_stage, plan_error, policy, cut_at,
                  events, filedVars, directedVars >>
-----------------------------------------------------------------------------
(* MuxEventGraph::from_plan                                                *)
output_end_offset(planned) == planned.output_offset + planned.staged.data_size

decode_end_time(planned) == planned.staged.decode_time + planned.staged.duration

PlannedOf(t) == { i \in DOMAIN planned_items : planned_items[i].staged.track_id = t }

EndTimes(items) == { items[i].decode_time + items[i].duration : i \in DOMAIN items }

(* MuxTrackPlan and the offsets of the track's first and last items.       *)
StreamDescription(t) ==
  LET items == items_by_track[t]
  IN  [ kind |-> "stream", track_id |-> t, item_count |-> Len(items),
        first_decode_time |-> Min({ items[i].decode_time : i \in DOMAIN items }),
        end_decode_time |-> Max(EndTimes(items)),
        first_output_offset |-> planned_items[Min(PlannedOf(t))].output_offset,
        end_output_offset |-> output_end_offset(planned_items[Max(PlannedOf(t))]) ]

(* A set of identifiers in the order a BTreeMap keeps them in.             *)
Ascending(ids) ==
  { order \in [1..Cardinality(ids) -> ids] :
      /\ { order[i] : i \in DOMAIN order } = ids
      /\ \A i, j \in DOMAIN order : i < j => order[i] < order[j] }

DescribeStreams ==
  /\ plan_stage = "laying_out" /\ chunks = << >>
  /\ \E order \in Ascending(Tracks) :
       events' = [i \in DOMAIN order |-> StreamDescription(order[i])]
  /\ plan_stage' = "graphing"
  /\ UNCHANGED << plan_error, policy, filedVars, directedVars, cutVars, laidVars >>

Boundary(kind, t, planned) ==
  [ kind |-> kind, track_id |-> t, output_offset |-> output_end_offset(planned),
    decode_time |-> decode_end_time(planned) ]

(* The places of the sample events, and of those of a track.               *)
SamplesIn(list) == { i \in DOMAIN list : list[i].kind = "sample" }

SamplesOf(list, t) == { i \in SamplesIn(list) : list[i].track_id = t }

(* Defect: the boundary is asked for the sample's index, not its number.   *)
EndsChunkLate(t, n) ==
  \E j \in DOMAIN coordination[t] : CountBefore(coordination[t], j) = n - 1

(* duration_boundary_after_sample: a chunk of the track ends with its n-th *)
(* sample.                                                                 *)
EndsChunk(t, n) == \E j \in DOMAIN coordination[t] : CountBefore(coordination[t], j) = n

EventsOf(i) ==
  LET planned == planned_items[i]
      t == planned.staged.track_id
      number == Cardinality(SamplesOf(events, t)) + 1
      sample == << [kind |-> "sample", track_id |-> t, sample_index |-> number - 1,
                    planned_item |-> planned] >>
      boundary == IF boundary_kinds[t] # None /\ EndsChunk(t, number)
                    THEN << Boundary(boundary_kinds[t], t, planned) >> ELSE << >>
      drain == IF i = Max(PlannedOf(t)) THEN << Boundary("drain", t, planned) >> ELSE << >>
  IN  sample \o boundary \o drain

GraphItem ==
  /\ plan_stage = "graphing" /\ Cardinality(SamplesIn(events)) < Len(planned_items)
  /\ events' = events \o EventsOf(Cardinality(SamplesIn(events)) + 1)
  /\ UNCHANGED << plan_stage, plan_error, policy, filedVars,
                  directedVars, cutVars, laidVars >>

EndPlan ==
  /\ plan_stage = "graphing" /\ Cardinality(SamplesIn(events)) = Len(planned_items)
  /\ LET ends == { decode_end_time(planned_items[i]) : i \in DOMAIN planned_items }
     IN  events' = Append(events, [ kind |-> "end", track_id |-> None,
                                    output_offset |-> total_payload_size,
                                    decode_time |-> Max(ends \cup {0}) ])
  /\ plan_stage' = "planned"
  /\ UNCHANGED << plan_error, policy, filedVars, directedVars, cutVars, laidVars >>

PlanStep ==
  \/ FileItem \/ DefaultCoordination
  \/ ApplyDirective \/ RefuseDirective
  \/ BeginCutting \/ CutChunk \/ SortChunks
  \/ LayOutItem \/ DescribeStreams \/ GraphItem \/ EndPlan
=============================================================================
