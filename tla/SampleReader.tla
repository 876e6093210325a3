---------------------------- MODULE SampleReader ----------------------------
(***************************************************************************)
(* The readers that follow a mux plan, one sample at a time: the seekable  *)
(* and the progressive one of src/src/mux/sample_reader.rs, their async    *)
(* twins, and the loops of src/src/mux/mod.rs that copy a whole plan.      *)
(*                                                                         *)
(* A progressive reader is never told where its source stands.  It believes*)
(* what it counted, and what it counts lags behind what it read while a    *)
(* sample is being read: a read that fails there, or an async call that is *)
(* given up, leaves the two apart for good.                                *)
(*                                                                         *)
(* The bytes of a source are told apart by their offset, so that what one  *)
(* call reads for a sample is an interval of the source.                   *)
(***************************************************************************)
EXTENDS Naturals, Sequences

CONSTANTS
  Sources,     \* indexes of the sources the caller opened
  Plans,       \* planned items in order
  Lengths,     \* how long each source is
  BufferSize,  \* of the buffer skipped and copied bytes go through
  MaxFaults    \* reads, seeks and writes that may fail, calls given up

(* What a planned item says of its bytes.                                  *)
Item == [source_index : Nat, data_offset : Nat, data_size : Nat]

ASSUME SourcesAssumption == Sources \subseteq Nat
ASSUME PlansAssumption == Plans \subseteq Seq(Item)
ASSUME LengthsAssumption == Lengths \subseteq [Sources -> Nat]
ASSUME BoundsAssumption == BufferSize \in Nat \ {0} /\ MaxFaults \in Nat

(* seekable or progressive; whether a loop copies the plan or a caller asks*)
(* for its samples; whether the caller may drop the future of a call.      *)
Way == [seekable : BOOLEAN, copies : BOOLEAN, async : BOOLEAN]

Outcomes == { "sample", "missing_source", "non_monotonic", "incomplete_advance",
              "incomplete_sample", "io", "dropped" }

(* What a call came to, and which bytes it had read for the sample by then.*)
Result == [outcome : Outcomes, from : Nat, count : Nat]

VARIABLES
  plan, way, length,
  cursor,          \* sample events taken
  stage,           \* "idle", "advancing", "reading", or "ended"
  position,        \* where each source stands
  source_offsets,  \* where the progressive reader believes it stands
  bytes,           \* the bytes of the sample being read
  results,         \* one for each call, in order
  faults

vars == << plan, way, length, cursor, stage, position, source_offsets, bytes, results, faults >>

input == << plan, way, length >>
-----------------------------------------------------------------------------
Interval == [from : Nat, count : Nat]

Nothing == [from |-> 0, count |-> 0]

staged == plan[cursor]
source == staged.source_index

Init ==
  /\ plan \in Plans /\ way \in Way /\ length \in Lengths
  /\ cursor = 0 /\ stage = "idle"
  /\ position = [s \in Sources |-> 0]
  /\ source_offsets = [s \in Sources |-> 0]
  /\ bytes = Nothing /\ results = << >> /\ faults = 0

(* The call returns; a copying loop returns with its first error.          *)
Answer(outcome, read) ==
  /\ results' = Append(results, [outcome |-> outcome, from |-> read.from, count |-> read.count])
  /\ stage' = IF way.copies /\ outcome # "sample" THEN "ended" ELSE "idle"
  /\ bytes' = Nothing

Fault ==
  /\ faults < MaxFaults
  /\ faults' = faults + 1
-----------------------------------------------------------------------------
(* MuxEventCursor::next_sample: the event is taken before anything can go  *)
(* wrong with it.                                                          *)
TakeEvent ==
  /\ stage = "idle" /\ cursor < Len(plan)
  /\ cursor' = cursor + 1

next == plan[cursor + 1]

MissSource ==
  /\ TakeEvent
  /\ next.source_index \notin Sources
  /\ Answer("missing_source", Nothing)
  /\ UNCHANGED << input, position, source_offsets, faults >>

SeekSample ==
  /\ TakeEvent
  /\ next.source_index \in Sources /\ way.seekable
  /\ position' = [position EXCEPT ![next.source_index] = next.data_offset]
  /\ bytes' = [from |-> next.data_offset, count |-> 0]
  /\ stage' = "reading"
  /\ UNCHANGED << input, source_offsets, results, faults >>

SeekFails ==
  /\ TakeEvent
  /\ next.source_index \in Sources /\ way.seekable
  /\ Fault
  /\ Answer("io", Nothing)
  /\ UNCHANGED << input, position, source_offsets >>

(* Defect: an item right at the believed offset counts as lying behind it. *)
LiesAtOrBehind(target, offset) == target <= offset

LiesBehind(target, offset) == target < offset

RefuseBackward ==
  /\ TakeEvent
  /\ next.source_index \in Sources /\ ~ way.seekable
  /\ LiesBehind(next.data_offset, source_offsets[next.source_index])
  /\ Answer("non_monotonic", Nothing)
  /\ UNCHANGED << input, position, source_offsets, faults >>

BeginAdvance ==
  /\ TakeEvent
  /\ next.source_index \in Sources /\ ~ way.seekable
  /\ ~ LiesBehind(next.data_offset, source_offsets[next.source_index])
  /\ stage' = "advancing"
  /\ UNCHANGED << input, position, source_offsets, bytes, results, faults >>

ReturnNone ==
  /\ stage = "idle" /\ cursor = Len(plan)
  /\ stage' = "ended"
  /\ UNCHANGED << input, cursor, position, source_offsets, bytes, results, faults >>
-----------------------------------------------------------------------------
(* advance_progressive_source: what was read is counted read by read.      *)
Remaining == staged.data_offset - source_offsets[source]

(* Defect: what was asked for is counted, not what was read.               *)
CountAsked(read) == IF Remaining < BufferSize THEN Remaining ELSE BufferSize

CountRead(read) == read

Skip ==
  /\ stage = "advancing" /\ Remaining > 0
  /\ \E read \in 1..BufferSize :
       /\ read <= Remaining /\ position[source] + read <= length[source]
       /\ position' = [position EXCEPT ![source] = @ + read]
       /\ source_offsets' = [source_offsets EXCEPT ![source] = @ + CountRead(read)]
  /\ UNCHANGED << input, cursor, stage, bytes, results, faults >>

SkipEnds ==
  /\ stage = "advancing" /\ Remaining > 0
  /\ position[source] >= length[source]
  /\ Answer("incomplete_advance", Nothing)
  /\ UNCHANGED << input, cursor, position, source_offsets, faults >>

Arrive ==
  /\ stage = "advancing" /\ Remaining = 0
  /\ bytes' = [from |-> position[source], count |-> 0]
  /\ stage' = "reading"
  /\ UNCHANGED << input, cursor, position, source_offsets, results, faults >>
-----------------------------------------------------------------------------
(* Defect: a read is asked for when the sample is complete.                *)
WantsOneMore == bytes.count <= staged.data_size

Wants == bytes.count < staged.data_size

Missing == staged.data_size - bytes.count

(* read_sample_bytes_into and read_progressive_sample_into read as much as *)
(* the source gives; copy_progressive_payload a buffer at a time, and it   *)
(* counts, and writes, what each read gave.                                *)
ReadSome ==
  /\ stage = "reading" /\ Wants
  /\ \E read \in 1..staged.data_size :
       /\ read <= Missing /\ (way.copies => read <= BufferSize)
       /\ position[source] + read <= length[source]
       /\ position' = [position EXCEPT ![source] = @ + read]
       /\ bytes' = [bytes EXCEPT !.count = @ + read]
       /\ source_offsets' =
            [source_offsets EXCEPT ![source] =
               IF way.copies /\ ~ way.seekable THEN @ + read ELSE @]
  /\ UNCHANGED << input, cursor, stage, results, faults >>

(* The write behind a read of a copying loop fails: the bytes are gone.    *)
WriteFails ==
  /\ stage = "reading" /\ way.copies /\ Wants
  /\ Fault
  /\ \E read \in 1..staged.data_size :
       /\ read <= Missing /\ read <= BufferSize
       /\ position[source] + read <= length[source]
       /\ position' = [position EXCEPT ![source] = @ + read]
       /\ Answer("io", [bytes EXCEPT !.count = @ + read])
  /\ UNCHANGED << input, cursor, source_offsets >>

SampleEnds ==
  /\ stage = "reading" /\ Wants
  /\ position[source] >= length[source]
  /\ Answer("incomplete_sample", bytes)
  /\ UNCHANGED << input, cursor, position, source_offsets, faults >>

(* Defect: the believed offset is not moved over the sample.               *)
OffsetKept(offset, size) == offset

OffsetBehind(offset, size) == offset + size

ReturnSample ==
  /\ stage = "reading" /\ ~ Wants
  /\ source_offsets' =
       [source_offsets EXCEPT ![source] =
          IF way.copies \/ way.seekable THEN @ ELSE OffsetBehind(@, staged.data_size)]
  /\ Answer("sample", bytes)
  /\ UNCHANGED << input, cursor, position, faults >>

ReadFails ==
  /\ \/ stage = "advancing" /\ Remaining > 0
     \/ stage = "reading" /\ Wants
  /\ Fault
  /\ Answer("io", bytes)
  /\ UNCHANGED << input, cursor, position, source_offsets >>

(* The caller drops the future while it waits for a read.                  *)
DropCall ==
  /\ way.async
  /\ \/ stage = "advancing" /\ Remaining > 0
     \/ stage = "reading" /\ Wants
  /\ Fault
  /\ results' = Append(results, [outcome |-> "dropped", from |-> bytes.from,
                                 count |-> bytes.count])
  /\ stage' = IF way.copies THEN "ended" ELSE "idle"
  /\ bytes' = Nothing
  /\ UNCHANGED << input, cursor, position, source_offsets >>

(* The last call has returned: nothing happens any more.                   *)
Ended == stage = "ended" /\ UNCHANGED vars

Work ==
  \/ MissSource \/ SeekSample \/ RefuseBackward \/ BeginAdvance \/ ReturnNone
  \/ Skip \/ SkipEnds \/ Arrive
  \/ ReadSome \/ SampleEnds \/ ReturnSample

Next == Work \/ SeekFails \/ WriteFails \/ ReadFails \/ DropCall \/ Ended

(* A reader works on as long as it is asked, and it is asked until it says *)
(* None; faults are under no obligation.                                   *)
Spec == Init /\ [][Next]_vars /\ WF_vars(Work)
-----------------------------------------------------------------------------
(* Each variable keeps the type of its field, and no call reads more than  *)
(* its sample.                                                             *)
TypeOK ==
  /\ plan \in Seq(Item) /\ way \in Way /\ length \in [Sources -> Nat]
  /\ cursor \in 0..Len(plan)
  /\ stage \in {"idle", "advancing", "reading", "ended"}
  /\ position \in [Sources -> Nat] /\ source_offsets \in [Sources -> Nat]
  /\ bytes \in Interval /\ results \in Seq(Result) /\ faults \in 0..MaxFaults
  /\ stage \in {"advancing", "reading"} => cursor > 0 /\ source \in Sources
  /\ stage = "reading" => bytes.count <= staged.data_size

(* A call for source s broke off inside a sample, with bytes already read. *)
TornBefore(s, i) ==
  \E k \in 1..i - 1 :
    /\ plan[k].source_index = s
    /\ results[k].outcome \in {"io", "dropped", "incomplete_sample"}
    /\ results[k].count > 0

Torn(s) == TornBefore(s, Len(results) + 1)

(* There is one result for each planned item, in the order of the plan, and*)
(* each sample handed out is made of the bytes the plan names: a seekable  *)
(* reader's always, a progressive reader's until a call for the same source*)
(* breaks off inside a sample.                                             *)
SamplesArePlanned ==
  /\ Len(results) = cursor - (IF stage \in {"advancing", "reading"} THEN 1 ELSE 0)
     \/ stage = "ended"
  /\ \A i \in 1..Len(results) :
       results[i].outcome = "sample" =>
         /\ results[i].count = plan[i].data_size
         /\ \/ results[i].from = plan[i].data_offset
            \/ ~ way.seekable /\ TornBefore(plan[i].source_index, i)

(* Between calls a progressive reader believes of each source what is true,*)
(* unless a call for it broke off inside a sample; then it is behind.      *)
OffsetsAgree ==
  ~ way.seekable /\ stage \in {"idle", "advancing"} =>
    \A s \in Sources :
      /\ source_offsets[s] <= position[s]
      /\ source_offsets[s] = position[s] \/ Torn(s)

(* The plan is refused as running backward only if an earlier item of the  *)
(* same source does reach beyond the start of the refused one.             *)
RefusalHasCause ==
  \A i \in 1..Len(results) :
    results[i].outcome = "non_monotonic" =>
      \E k \in 1..i - 1 :
        /\ plan[k].source_index = plan[i].source_index
        /\ plan[k].data_offset + plan[k].data_size > plan[i].data_offset

Reach(i) == plan[i].data_offset + plan[i].data_size

(* The sources hold every sample, and a progressive reader meets the items *)
(* of a source in the order of their offsets.                              *)
Sound ==
  /\ \A i \in 1..Len(plan) :
       plan[i].source_index \in Sources /\ Reach(i) <= length[plan[i].source_index]
  /\ way.seekable \/ \A i, k \in 1..Len(plan) :
       i < k /\ plan[i].source_index = plan[k].source_index => Reach(i) <= plan[k].data_offset

(* A caller that goes on asking comes to the end of the plan, whatever     *)
(* fails on the way, and of a sound plan it has got every sample by then   *)
(* if nothing failed.                                                      *)
PlanIsRead ==
  <>(/\ stage = "ended"
     /\ ~ way.copies => Len(results) = Len(plan)
     /\ Sound /\ faults = 0 =>
          /\ Len(results) = Len(plan)
          /\ \A i \in 1..Len(results) : results[i].outcome = "sample")

(* "Reads the next sample in planned order": a packet holds the bytes the  *)
(* plan names for it, whatever happened to the calls before.               *)
NextSampleIsPlanned ==
  \A i \in 1..Len(results) :
    results[i].outcome = "sample" => results[i].from = plan[i].data_offset
=============================================================================
