------------------------- MODULE SampleReaderProofs -------------------------
(***************************************************************************)
(* What SampleReader promises of each single result, for every plan, every *)
(* source and every buffer.                                                *)
(*                                                                         *)
(* The invariant ties three positions together while a sample is being     *)
(* read: where the source stands, where the reader believes it stands, and *)
(* what the sample has got so far.  Only a call that broke off inside a    *)
(* sample can have parted them, and what a reader believes never exceeds   *)
(* the end of an item it took before.                                      *)
(***************************************************************************)
EXTENDS SampleReader, TLAPS

InCall == stage \in {"advancing", "reading"}

(* A call that is under way has taken its item and has no result yet.      *)
ResultsFollow ==
  /\ InCall => cursor = Len(results) + 1
  /\ stage = "idle" => cursor = Len(results)
  /\ Len(results) <= cursor

SampleHolds(i) ==
  results[i].outcome = "sample" =>
    /\ results[i].count = plan[i].data_size
    /\ \/ results[i].from = plan[i].data_offset
       \/ ~ way.seekable /\ TornBefore(plan[i].source_index, i)

(* The item that reaches beyond the start of a refused one.                *)
Caused(i) ==
  results[i].outcome = "non_monotonic" =>
    \E k \in 1..i - 1 :
      /\ plan[k].source_index = plan[i].source_index
      /\ plan[k].data_offset + plan[k].data_size > plan[i].data_offset

SamplesHold == \A i \in 1..Len(results) : SampleHolds(i)

(* What a progressive reader would believe, had it counted the bytes of the*)
(* sample that it is reading.                                              *)
Counted(s) ==
  IF stage = "reading" /\ ~ way.copies /\ s = source
  THEN source_offsets[s] + bytes.count ELSE source_offsets[s]

BeliefsLag ==
  ~ way.seekable =>
    \A s \in Sources :
      /\ Counted(s) <= position[s]
      /\ Counted(s) = position[s] \/ Torn(s)

AdvanceIsDue ==
  stage = "advancing" => ~ way.seekable /\ source_offsets[source] <= staged.data_offset

ReadIsDue ==
  stage = "reading" =>
    /\ way.seekable => bytes.from = staged.data_offset
    /\ ~ way.seekable =>
         /\ Counted(source) = staged.data_offset + bytes.count
         /\ position[source] = bytes.from + bytes.count

ReachedBy(s, k) == plan[k].source_index = s /\ source_offsets[s] <= Reach(k)

BeliefsAreReached ==
  ~ way.seekable =>
    \A s \in Sources : source_offsets[s] = 0 \/ \E k \in 1..cursor : ReachedBy(s, k)

IInv ==
  /\ TypeOK /\ ResultsFollow /\ SamplesHold /\ RefusalHasCause
  /\ BeliefsLag /\ AdvanceIsDue /\ ReadIsDue /\ BeliefsAreReached
-----------------------------------------------------------------------------
(* The items of a plan have their types.                                   *)
LEMMA ItemTypes ==
  ASSUME TypeOK, NEW i \in 1..Len(plan)
  PROVE  /\ plan[i] \in Item /\ plan[i].source_index \in Nat
         /\ plan[i].data_offset \in Nat /\ plan[i].data_size \in Nat
<1>1. plan \in Seq(Item)
  BY DEF TypeOK
<1>2. plan[i] \in Item
  BY <1>1
<1> QED  BY <1>2 DEF Item

(* A call under way is for an item of the plan, and its source is open.    *)
LEMMA CallTypes ==
  ASSUME TypeOK, InCall
  PROVE  /\ cursor \in 1..Len(plan) /\ source \in Sources /\ source \in Nat
         /\ staged.data_offset \in Nat /\ staged.data_size \in Nat
         /\ position[source] \in Nat /\ source_offsets[source] \in Nat
         /\ length[source] \in Nat /\ bytes.from \in Nat /\ bytes.count \in Nat
<1>1. cursor \in 1..Len(plan) /\ source \in Sources
  BY DEF TypeOK, InCall
<1>2. staged.data_offset \in Nat /\ staged.data_size \in Nat
  BY <1>1, ItemTypes DEF staged
<1>3. /\ position[source] \in Nat /\ source_offsets[source] \in Nat
      /\ length[source] \in Nat /\ bytes.from \in Nat /\ bytes.count \in Nat
  BY <1>1 DEF TypeOK, Interval
<1> QED  BY <1>1, <1>2, <1>3, SourcesAssumption

(* Taking an event leaves the cursor on an item of the plan.               *)
LEMMA TakenTypes ==
  ASSUME TypeOK, TakeEvent
  PROVE  /\ cursor + 1 \in 1..Len(plan) /\ cursor' = cursor + 1 /\ cursor \in Nat
         /\ next = plan[cursor + 1] /\ next \in Item /\ next.source_index \in Nat
         /\ next.data_offset \in Nat /\ next.data_size \in Nat
<1>1. /\ cursor + 1 \in 1..Len(plan) /\ cursor' = cursor + 1 /\ cursor \in Nat
  BY DEF TypeOK, TakeEvent
<1> QED  BY <1>1, ItemTypes DEF next

(* A result that is appended stands behind those there were.               *)
LEMMA Appended ==
  ASSUME TypeOK, NEW r \in Result, results' = Append(results, r)
  PROVE  /\ results' \in Seq(Result)
         /\ Len(results) \in Nat /\ Len(results') = Len(results) + 1
         /\ results'[Len(results) + 1] = r
         /\ \A i \in 1..Len(results) : results'[i] = results[i]
<1>1. results \in Seq(Result)
  BY DEF TypeOK
<1> QED  BY <1>1

(* How a call that answers leaves the variables Answer speaks of.          *)
LEMMA Answered ==
  ASSUME TypeOK, NEW outcome \in Outcomes, NEW read \in Interval, Answer(outcome, read)
  PROVE  /\ results' \in Seq(Result)
         /\ Len(results) \in Nat /\ Len(results') = Len(results) + 1
         /\ results'[Len(results) + 1].outcome = outcome
         /\ results'[Len(results) + 1].from = read.from
         /\ results'[Len(results) + 1].count = read.count
         /\ \A i \in 1..Len(results) : results'[i] = results[i]
         /\ stage' \in {"idle", "ended"} /\ bytes' = Nothing
<1> DEFINE r == [outcome |-> outcome, from |-> read.from, count |-> read.count]
<1>1. r \in Result
  BY DEF Result, Interval
<1>2. results' = Append(results, r)
  BY DEF Answer
<1>3. /\ results' \in Seq(Result)
      /\ Len(results) \in Nat /\ Len(results') = Len(results) + 1
      /\ results'[Len(results) + 1] = r
      /\ \A i \in 1..Len(results) : results'[i] = results[i]
  <2> HIDE DEF r
  <2> QED  BY <1>1, <1>2, Appended
<1>4. stage' \in {"idle", "ended"} /\ bytes' = Nothing
  BY DEF Answer
<1> QED  BY <1>3, <1>4

(* Giving a call up is an answer of a kind.                                *)
LEMMA DropAnswers == DropCall => Answer("dropped", bytes)
BY DEF DropCall, Answer

(* A result more makes no call that broke off whole.                       *)
LEMMA TornStays ==
  ASSUME TypeOK, plan' = plan, Len(results) \in Nat, Len(results') = Len(results) + 1,
         \A i \in 1..Len(results) : results'[i] = results[i]
  PROVE  /\ \A s : Torn(s) => Torn(s)'
         /\ \A s : \A i \in 1..Len(results) + 1 : TornBefore(s, i) => TornBefore(s, i)'
BY DEF Torn, TornBefore
-----------------------------------------------------------------------------
(* A plan begins with no call and no result.                               *)
LEMMA InitHolds == Init => IInv
<1> SUFFICES ASSUME Init PROVE IInv
  OBVIOUS
<1>1. plan \in Seq(Item) /\ way \in Way /\ length \in [Sources -> Nat]
  BY PlansAssumption, LengthsAssumption DEF Init
<1>2. TypeOK
  BY <1>1, BoundsAssumption DEF TypeOK, Init, Nothing, Interval
<1>3. ResultsFollow /\ SamplesHold /\ RefusalHasCause
  BY DEF Init, ResultsFollow, InCall, SamplesHold, RefusalHasCause
<1>4. BeliefsLag /\ AdvanceIsDue /\ ReadIsDue /\ BeliefsAreReached
  BY DEF Init, BeliefsLag, Counted, AdvanceIsDue, ReadIsDue, BeliefsAreReached
<1> QED  BY <1>2, <1>3, <1>4 DEF IInv

(* The part of the types no step ever changes.                             *)
LEMMA InputTypes ==
  ASSUME TypeOK, UNCHANGED input
  PROVE  /\ plan' = plan /\ way' = way /\ length' = length
         /\ (plan \in Seq(Item) /\ way \in Way /\ length \in [Sources -> Nat])'
BY DEF TypeOK, input

(* An answer keeps the types, whatever it reports.                         *)
LEMMA AnswerTypes ==
  ASSUME TypeOK, UNCHANGED input, NEW outcome \in Outcomes, NEW read \in Interval,
         Answer(outcome, read), cursor' \in 0..Len(plan),
         (position \in [Sources -> Nat])', (source_offsets \in [Sources -> Nat])',
         faults' \in 0..MaxFaults
  PROVE  TypeOK'
<1>1. results' \in Seq(Result) /\ stage' \in {"idle", "ended"} /\ bytes' = Nothing
  BY Answered
<1>2. bytes' \in Interval
  BY <1>1 DEF Nothing, Interval
<1>3. plan' = plan /\ (plan \in Seq(Item) /\ way \in Way /\ length \in [Sources -> Nat])'
  BY InputTypes
<1> QED  BY <1>1, <1>2, <1>3 DEF TypeOK

(* A fault is one more of those there may be.                              *)
LEMMA FaultTypes == ASSUME TypeOK, Fault PROVE faults' \in 0..MaxFaults
BY BoundsAssumption DEF TypeOK, Fault

(* Reading moves a source on by a number of bytes.                         *)
LEMMA PositionTypes ==
  ASSUME TypeOK, NEW s \in Sources, NEW n \in Nat, NEW f, f \in [Sources -> Nat]
  PROVE  /\ [f EXCEPT ![s] = @ + n] \in [Sources -> Nat]
         /\ [f EXCEPT ![s] = n] \in [Sources -> Nat]
         /\ [f EXCEPT ![s] = @ + n][s] = f[s] + n
         /\ \A q \in Sources : q # s => [f EXCEPT ![s] = @ + n][q] = f[q]
OBVIOUS

(* Every step keeps the types.                                             *)
LEMMA TypesStay == TypeOK /\ [Next]_vars => TypeOK'
<1> SUFFICES ASSUME TypeOK, [Next]_vars PROVE TypeOK'
  OBVIOUS
<1>0. /\ cursor \in 0..Len(plan) /\ Len(plan) \in Nat /\ bytes \in Interval
      /\ position \in [Sources -> Nat] /\ source_offsets \in [Sources -> Nat]
      /\ faults \in 0..MaxFaults /\ Nothing \in Interval
  BY DEF TypeOK, Nothing, Interval
<1>1. CASE MissSource
  <2>1. cursor' \in 0..Len(plan)
    BY <1>1, TakenTypes DEF MissSource
  <2> QED  BY <1>0, <1>1, <2>1, AnswerTypes DEF MissSource, Outcomes
<1>2. CASE SeekSample
  <2>1. cursor + 1 \in 1..Len(plan) /\ cursor' = cursor + 1 /\ next = plan[cursor + 1]
    BY <1>2, TakenTypes DEF SeekSample
  <2>2. next.data_offset \in Nat /\ next.data_size \in Nat /\ next.source_index \in Sources
    BY <1>2, TakenTypes DEF SeekSample
  <2>3. position' \in [Sources -> Nat]
    BY <1>0, <1>2, <2>2, PositionTypes DEF SeekSample
  <2>4. bytes' = [from |-> next.data_offset, count |-> 0] /\ bytes' \in Interval
    BY <1>2, <2>2 DEF SeekSample, Interval
  <2>5. staged' = next
    BY <1>2, <2>1, InputTypes DEF SeekSample, staged
  <2>6. source' \in Sources /\ bytes'.count <= staged'.data_size
    BY <2>2, <2>4, <2>5 DEF source
  <2>7. /\ stage' = "reading" /\ source_offsets' = source_offsets
        /\ results' = results /\ faults' = faults /\ results \in Seq(Result)
    BY <1>2 DEF SeekSample, TypeOK
  <2>8. plan' = plan /\ (plan \in Seq(Item) /\ way \in Way /\ length \in [Sources -> Nat])'
    BY <1>2, InputTypes DEF SeekSample
  <2> QED  BY <1>0, <2>1, <2>3, <2>4, <2>6, <2>7, <2>8 DEF TypeOK
<1>3. CASE SeekFails
  <2>1. cursor' \in 0..Len(plan)
    BY <1>3, TakenTypes DEF SeekFails
  <2> QED  BY <1>0, <1>3, <2>1, AnswerTypes, FaultTypes DEF SeekFails, Outcomes
<1>4. CASE RefuseBackward
  <2>1. cursor' \in 0..Len(plan)
    BY <1>4, TakenTypes DEF RefuseBackward
  <2> QED  BY <1>0, <1>4, <2>1, AnswerTypes DEF RefuseBackward, Outcomes
<1>5. CASE BeginAdvance
  <2>1. cursor + 1 \in 1..Len(plan) /\ cursor' = cursor + 1 /\ next = plan[cursor + 1]
    BY <1>5, TakenTypes DEF BeginAdvance
  <2>2. plan' = plan /\ (plan \in Seq(Item) /\ way \in Way /\ length \in [Sources -> Nat])'
    BY <1>5, InputTypes DEF BeginAdvance
  <2>3. source' \in Sources
    BY <1>5, <2>1, <2>2 DEF BeginAdvance, source, staged
  <2> QED  BY <1>5, <2>1, <2>2, <2>3 DEF BeginAdvance, TypeOK
<1>6. CASE ReturnNone
  BY <1>6, InputTypes DEF ReturnNone, TypeOK
<1>7. CASE Skip
  <2>1. PICK read \in 1..BufferSize :
          /\ position' = [position EXCEPT ![source] = @ + read]
          /\ source_offsets' = [source_offsets EXCEPT ![source] = @ + read]
    BY <1>7 DEF Skip, CountRead
  <2>2. source \in Sources /\ read \in Nat
    BY <1>7, <2>1, CallTypes, BoundsAssumption DEF Skip, InCall
  <2>3. position' \in [Sources -> Nat] /\ source_offsets' \in [Sources -> Nat]
    BY <1>0, <2>1, <2>2, PositionTypes
  <2>4. plan' = plan /\ (plan \in Seq(Item) /\ way \in Way /\ length \in [Sources -> Nat])'
    BY <1>7, InputTypes DEF Skip
  <2> QED  BY <1>7, <2>3, <2>4 DEF Skip, TypeOK, source, staged
<1>8. CASE SkipEnds
  BY <1>0, <1>8, AnswerTypes DEF SkipEnds, Outcomes
<1>9. CASE Arrive
  <2>1. position[source] \in Nat /\ staged.data_size \in Nat
    BY <1>9, CallTypes DEF Arrive, InCall
  <2>2. bytes' \in Interval /\ bytes'.count <= staged.data_size
    BY <1>9, <2>1 DEF Arrive, Interval
  <2>3. plan' = plan /\ (plan \in Seq(Item) /\ way \in Way /\ length \in [Sources -> Nat])'
    BY <1>9, InputTypes DEF Arrive
  <2> QED  BY <1>9, <2>2, <2>3 DEF Arrive, TypeOK, source, staged
<1>10. CASE ReadSome
  <2>0. /\ source \in Sources /\ staged.data_size \in Nat /\ bytes.count \in Nat
        /\ bytes.from \in Nat
    BY <1>10, CallTypes DEF ReadSome, InCall
  <2>1. PICK read \in 1..staged.data_size :
          /\ read <= Missing
          /\ position' = [position EXCEPT ![source] = @ + read]
          /\ bytes' = [bytes EXCEPT !.count = @ + read]
          /\ source_offsets' =
               [source_offsets EXCEPT ![source] =
                  IF way.copies /\ ~ way.seekable THEN @ + read ELSE @]
    BY <1>10 DEF ReadSome
  <2>2. read \in Nat
    BY <2>0
  <2>3. position' \in [Sources -> Nat] /\ source_offsets' \in [Sources -> Nat]
    BY <1>0, <2>0, <2>1, <2>2, PositionTypes
  <2>4. bytes' = [from |-> bytes.from, count |-> bytes.count + read]
    BY <1>0, <2>1 DEF Interval
  <2>5. bytes' \in Interval /\ bytes'.count <= staged.data_size
    <3>1. bytes.count + read \in Nat /\ bytes.count + read <= staged.data_size
      BY <2>0, <2>1, <2>2 DEF Missing
    <3> QED  BY <2>0, <2>4, <3>1 DEF Interval
  <2>6. plan' = plan /\ (plan \in Seq(Item) /\ way \in Way /\ length \in [Sources -> Nat])'
    BY <1>10, InputTypes DEF ReadSome
  <2> QED  BY <1>10, <2>3, <2>5, <2>6 DEF ReadSome, TypeOK, source, staged
<1>11. CASE WriteFails
  <2>0. /\ source \in Sources /\ staged.data_size \in Nat /\ bytes.count \in Nat
        /\ bytes.from \in Nat
    BY <1>11, CallTypes DEF WriteFails, InCall
  <2>1. PICK read \in 1..staged.data_size :
          /\ position' = [position EXCEPT ![source] = @ + read]
          /\ Answer("io", [bytes EXCEPT !.count = @ + read])
    BY <1>11 DEF WriteFails
  <2>2. read \in Nat /\ [bytes EXCEPT !.count = @ + read] \in Interval
    <3>1. read \in Nat /\ bytes.count + read \in Nat
      BY <2>0
    <3>2. [bytes EXCEPT !.count = @ + read] = [from |-> bytes.from, count |-> bytes.count + read]
      BY <1>0 DEF Interval
    <3> QED  BY <2>0, <3>1, <3>2 DEF Interval
  <2>3. position' \in [Sources -> Nat]
    BY <1>0, <2>0, <2>1, <2>2, PositionTypes
  <2> QED  BY <1>0, <1>11, <2>1, <2>2, <2>3, AnswerTypes, FaultTypes DEF WriteFails, Outcomes
<1>12. CASE SampleEnds
  BY <1>0, <1>12, AnswerTypes DEF SampleEnds, Outcomes
<1>13. CASE ReturnSample
  <2>1. source \in Sources /\ staged.data_size \in Nat
    BY <1>13, CallTypes DEF ReturnSample, InCall
  <2>2. source_offsets' \in [Sources -> Nat]
    BY <1>0, <1>13, <2>1, PositionTypes DEF ReturnSample, OffsetBehind
  <2> QED  BY <1>0, <1>13, <2>2, AnswerTypes DEF ReturnSample, Outcomes
<1>14. CASE ReadFails
  BY <1>0, <1>14, AnswerTypes, FaultTypes DEF ReadFails, Outcomes
<1>15. CASE DropCall
  BY <1>0, <1>15, DropAnswers, AnswerTypes, FaultTypes DEF DropCall, Outcomes
<1>16. CASE UNCHANGED vars
  BY <1>16, InputTypes DEF vars, TypeOK, staged, source, input
<1> QED
  BY <1>1, <1>2, <1>3, <1>4, <1>5, <1>6, <1>7, <1>8, <1>9, <1>10, <1>11, <1>12, <1>13,
     <1>14, <1>15, <1>16 DEF Next, Work, Ended
-----------------------------------------------------------------------------
(* What an answer leaves behind of the results before it, and of the call. *)
LEMMA AnswerKeeps ==
  ASSUME IInv, UNCHANGED input, NEW outcome \in Outcomes, NEW read \in Interval,
         Answer(outcome, read), cursor' = Len(results) + 1
  PROVE  /\ ResultsFollow' /\ AdvanceIsDue' /\ ReadIsDue'
         /\ \A i \in 1..Len(results) : SampleHolds(i)' /\ Caused(i)'
<1> USE DEF IInv
<1>1. /\ Len(results) \in Nat /\ Len(results') = Len(results) + 1
      /\ \A i \in 1..Len(results) : results'[i] = results[i]
      /\ stage' \in {"idle", "ended"}
  BY Answered
<1>2. plan' = plan /\ way' = way
  BY InputTypes
<1>3. ResultsFollow' /\ AdvanceIsDue' /\ ReadIsDue'
  BY <1>1 DEF ResultsFollow, InCall, AdvanceIsDue, ReadIsDue
<1>4. ASSUME NEW i \in 1..Len(results) PROVE SampleHolds(i)'
  <2>1. \A s : TornBefore(s, i) => TornBefore(s, i)'
    BY <1>1, <1>2, TornStays
  <2>2. SampleHolds(i) /\ results'[i] = results[i]
    BY <1>1 DEF SamplesHold
  <2> QED  BY <1>2, <2>1, <2>2 DEF SampleHolds
<1>5. ASSUME NEW i \in 1..Len(results) PROVE Caused(i)'
  BY <1>1, <1>2 DEF RefusalHasCause, Caused
<1> QED  BY <1>3, <1>4, <1>5

(* An answer that is neither a sample nor a refusal adds nothing to show.  *)
LEMMA OtherAnswer ==
  ASSUME IInv, UNCHANGED input, NEW outcome \in Outcomes, NEW read \in Interval,
         Answer(outcome, read), cursor' = Len(results) + 1,
         outcome # "sample", outcome # "non_monotonic"
  PROVE  SamplesHold' /\ RefusalHasCause'
<1>1. /\ Len(results) \in Nat /\ Len(results') = Len(results) + 1
      /\ results'[Len(results) + 1].outcome = outcome
  BY Answered DEF IInv
<1>2. \A i \in 1..Len(results) : SampleHolds(i)' /\ Caused(i)'
  BY AnswerKeeps
<1>3. ASSUME NEW i, i = Len(results) + 1 PROVE SampleHolds(i)' /\ Caused(i)'
  BY <1>1, <1>3 DEF SampleHolds, Caused
<1>4. \A i \in 1..Len(results') : i \in 1..Len(results) \/ i = Len(results) + 1
  BY <1>1
<1>5. \A i \in 1..Len(results') : SampleHolds(i)' /\ Caused(i)'
  BY <1>2, <1>3, <1>4
<1> QED  BY <1>5 DEF SamplesHold, RefusalHasCause, Caused

(* Beliefs that do not move stay reached.                                  *)
LEMMA BeliefsUnmoved ==
  ASSUME IInv, UNCHANGED input, source_offsets' = source_offsets,
         cursor' = cursor \/ cursor' = cursor + 1
  PROVE  BeliefsAreReached'
<1>1. cursor \in Nat /\ plan' = plan /\ way' = way
  BY InputTypes DEF IInv, TypeOK
<1>2. \A s, k : ReachedBy(s, k) => ReachedBy(s, k)'
  BY <1>1 DEF ReachedBy, Reach
<1>3. \A k \in 1..cursor : k \in 1..cursor'
  BY <1>1
<1> QED  BY <1>1, <1>2, <1>3 DEF IInv, BeliefsAreReached

(* A call that breaks off with bytes in hand tears its source.             *)
LEMMA BreakTears ==
  ASSUME IInv, UNCHANGED input, InCall,
         NEW outcome \in {"io", "dropped", "incomplete_sample"}, NEW read \in Interval,
         Answer(outcome, read), read.count > 0, NEW s, s = source
  PROVE  Torn(s)'
<1>1. /\ Len(results) \in Nat /\ Len(results') = Len(results) + 1
      /\ results'[Len(results) + 1].outcome = outcome
      /\ results'[Len(results) + 1].count = read.count
  BY Answered DEF IInv, Outcomes
<1>2. plan'[Len(results) + 1].source_index = s
  BY InputTypes DEF IInv, ResultsFollow, source, staged
<1>3. Len(results) + 1 \in 1..(Len(results') + 1) - 1
  BY <1>1
<1> HIDE DEF Interval
<1> QED  BY <1>1, <1>2, <1>3 DEF Torn, TornBefore

(* Every source but the one that is read is believed where it was.         *)
LEMMA CallBreaks ==
  ASSUME IInv, UNCHANGED input, InCall,
         NEW outcome \in {"io", "dropped", "incomplete_sample"}, Answer(outcome, bytes),
         position' = position, source_offsets' = source_offsets
  PROVE  BeliefsLag'
<1> USE DEF IInv
<1>1. /\ Len(results) \in Nat /\ Len(results') = Len(results) + 1
      /\ \A i \in 1..Len(results) : results'[i] = results[i]
      /\ stage' \in {"idle", "ended"} /\ bytes \in Interval
  BY Answered DEF TypeOK, Outcomes
<1>2. plan' = plan /\ way' = way
  BY InputTypes
<1>3. SUFFICES ASSUME ~ way.seekable, NEW s \in Sources
               PROVE  /\ source_offsets[s] <= position[s]
                      /\ source_offsets[s] = position[s] \/ Torn(s)'
  BY <1>1, <1>2 DEF BeliefsLag, Counted
<1>4. Torn(s) => Torn(s)'
  BY <1>1, <1>2, TornStays
<1>5. /\ Counted(s) <= position[s]
      /\ Counted(s) = position[s] \/ Torn(s)
      /\ source_offsets[s] \in Nat /\ position[s] \in Nat /\ bytes.count \in Nat
  BY <1>1, <1>3 DEF BeliefsLag, TypeOK, Interval
<1>6. CASE Counted(s) = source_offsets[s]
  BY <1>4, <1>5, <1>6
<1>7. CASE s = source /\ Counted(s) = source_offsets[s] + bytes.count /\ bytes.count > 0
  <2>1. Torn(s)'
    BY <1>1, <1>7, BreakTears
  <2> QED  BY <1>5, <1>7, <2>1
<1> QED  BY <1>5, <1>6, <1>7 DEF Counted

(* What a taken event that is answered at once leaves of the beliefs.      *)
LEMMA AnsweredAtOnce ==
  ASSUME IInv, UNCHANGED input, TakeEvent, NEW outcome \in Outcomes, NEW read \in Interval,
         Answer(outcome, read), position' = position, source_offsets' = source_offsets
  PROVE  BeliefsLag' /\ cursor' = Len(results) + 1
<1> USE DEF IInv
<1>1. /\ Len(results) \in Nat /\ Len(results') = Len(results) + 1
      /\ \A i \in 1..Len(results) : results'[i] = results[i]
      /\ stage' \in {"idle", "ended"}
  BY Answered
<1>2. stage = "idle" /\ cursor' = Len(results) + 1
  BY DEF TakeEvent, ResultsFollow
<1>3. plan' = plan /\ way' = way
  BY InputTypes
<1>4. \A s : Torn(s) => Torn(s)'
  BY <1>1, <1>3, TornStays
<1> QED  BY <1>1, <1>2, <1>3, <1>4 DEF BeliefsLag, Counted
-----------------------------------------------------------------------------
(* The next item cannot be taken for a source that is not open.            *)
LEMMA MissSourceKeeps == ASSUME IInv, MissSource PROVE IInv'
<1>1. /\ UNCHANGED input /\ TakeEvent /\ Answer("missing_source", Nothing)
      /\ position' = position /\ source_offsets' = source_offsets
      /\ Nothing \in Interval /\ "missing_source" \in Outcomes
  BY DEF MissSource, Nothing, Interval, Outcomes
<1>2. BeliefsLag' /\ cursor' = Len(results) + 1
  BY <1>1, AnsweredAtOnce
<1>3. BeliefsAreReached'
  BY <1>1, BeliefsUnmoved DEF TakeEvent
<1>4. ResultsFollow' /\ AdvanceIsDue' /\ ReadIsDue' /\ SamplesHold' /\ RefusalHasCause'
  BY <1>1, <1>2, AnswerKeeps, OtherAnswer
<1>5. TypeOK'
  BY TypesStay DEF IInv, Next, Work
<1> QED  BY <1>2, <1>3, <1>4, <1>5 DEF IInv

(* The seek of the next item fails.                                        *)
LEMMA SeekFailsKeeps == ASSUME IInv, SeekFails PROVE IInv'
<1>1. /\ UNCHANGED input /\ TakeEvent /\ Answer("io", Nothing)
      /\ position' = position /\ source_offsets' = source_offsets
      /\ Nothing \in Interval /\ "io" \in Outcomes
  BY DEF SeekFails, Nothing, Interval, Outcomes
<1>2. BeliefsLag' /\ cursor' = Len(results) + 1
  BY <1>1, AnsweredAtOnce
<1>3. BeliefsAreReached'
  BY <1>1, BeliefsUnmoved DEF TakeEvent
<1>4. ResultsFollow' /\ AdvanceIsDue' /\ ReadIsDue' /\ SamplesHold' /\ RefusalHasCause'
  BY <1>1, <1>2, AnswerKeeps, OtherAnswer
<1>5. TypeOK'
  BY TypesStay DEF IInv, Next
<1> QED  BY <1>2, <1>3, <1>4, <1>5 DEF IInv

(* The next item lies behind what the reader believes: an item that was    *)
(* taken before reaches to there.                                          *)
LEMMA RefuseBackwardKeeps == ASSUME IInv, RefuseBackward PROVE IInv'
<1> USE DEF IInv
<1>1. /\ UNCHANGED input /\ TakeEvent /\ Answer("non_monotonic", Nothing)
      /\ position' = position /\ source_offsets' = source_offsets
      /\ Nothing \in Interval /\ "non_monotonic" \in Outcomes
  BY DEF RefuseBackward, Nothing, Interval, Outcomes
<1>2. BeliefsLag' /\ cursor' = Len(results) + 1
  BY <1>1, AnsweredAtOnce
<1>3. BeliefsAreReached'
  BY <1>1, BeliefsUnmoved DEF TakeEvent
<1>4. /\ ResultsFollow' /\ AdvanceIsDue' /\ ReadIsDue'
      /\ \A i \in 1..Len(results) : SampleHolds(i)' /\ Caused(i)'
  BY <1>1, <1>2, AnswerKeeps
<1>5. /\ Len(results) \in Nat /\ Len(results') = Len(results) + 1
      /\ results'[Len(results) + 1].outcome = "non_monotonic"
  BY <1>1, Answered
<1>6. plan' = plan /\ cursor = Len(results) /\ next = plan[Len(results) + 1]
  BY <1>1, InputTypes DEF TakeEvent, ResultsFollow, next
<1>7. /\ ~ way.seekable /\ next.source_index \in Sources /\ next.data_offset \in Nat
      /\ next.data_offset < source_offsets[next.source_index]
      /\ source_offsets[next.source_index] \in Nat
  BY <1>1, TakenTypes DEF RefuseBackward, LiesBehind, TypeOK
<1>8. PICK k \in 1..cursor : ReachedBy(next.source_index, k)
  BY <1>7 DEF BeliefsAreReached
<1>9. Reach(k) \in Nat
  <2>1. k \in 1..Len(plan)
    BY <1>8 DEF TypeOK
  <2> QED  BY <2>1, ItemTypes DEF Reach
<1>10. /\ plan[k].source_index = next.source_index
       /\ plan[k].data_offset + plan[k].data_size > next.data_offset
  BY <1>7, <1>8, <1>9 DEF ReachedBy, Reach
<1>11. ASSUME NEW i, i = Len(results) + 1 PROVE SampleHolds(i)' /\ Caused(i)'
  <2>1. k \in 1..i - 1
    BY <1>5, <1>6, <1>8, <1>11
  <2> QED  BY <1>5, <1>6, <1>10, <1>11, <2>1 DEF SampleHolds, Caused
<1>12. \A i \in 1..Len(results') : SampleHolds(i)' /\ Caused(i)'
  <2>1. \A i \in 1..Len(results') : i \in 1..Len(results) \/ i = Len(results) + 1
    BY <1>5
  <2> QED  BY <1>4, <1>11, <2>1
<1>13. SamplesHold' /\ RefusalHasCause'
  BY <1>12 DEF SamplesHold, RefusalHasCause, Caused
<1>14. TypeOK'
  BY TypesStay DEF Next, Work
<1> QED  BY <1>2, <1>3, <1>4, <1>13, <1>14

(* A step that answers nothing keeps what holds of the answers.            *)
LEMMA NoAnswer ==
  ASSUME IInv, UNCHANGED << input, results >>
  PROVE  /\ SamplesHold' /\ RefusalHasCause' /\ plan' = plan /\ way' = way
         /\ \A s : Torn(s)' = Torn(s)
<1>1. plan' = plan /\ way' = way /\ results' = results
  BY InputTypes DEF IInv
<1> QED  BY <1>1 DEF IInv, SamplesHold, SampleHolds, TornBefore, RefusalHasCause, Torn

(* A seekable reader stands where the item begins.                         *)
LEMMA SeekSampleKeeps == ASSUME IInv, SeekSample PROVE IInv'
<1> USE DEF IInv
<1>1. /\ UNCHANGED << input, results >> /\ TakeEvent /\ source_offsets' = source_offsets
      /\ way.seekable /\ stage' = "reading" /\ bytes' = [from |-> next.data_offset, count |-> 0]
  BY DEF SeekSample
<1>2. /\ SamplesHold' /\ RefusalHasCause' /\ plan' = plan /\ way' = way
  BY <1>1, NoAnswer
<1>3. BeliefsAreReached'
  BY <1>1, BeliefsUnmoved DEF TakeEvent
<1>4. cursor' = Len(results) + 1 /\ staged' = next /\ Len(results) \in Nat
  BY <1>1, <1>2 DEF TakeEvent, ResultsFollow, staged, next, TypeOK
<1>5. ResultsFollow' /\ AdvanceIsDue' /\ ReadIsDue' /\ BeliefsLag'
  BY <1>1, <1>2, <1>4 DEF ResultsFollow, InCall, AdvanceIsDue, ReadIsDue, BeliefsLag
<1>6. TypeOK'
  BY TypesStay DEF Next, Work
<1> QED  BY <1>2, <1>3, <1>5, <1>6

(* A progressive reader sets out for an item that does not lie behind it.  *)
LEMMA BeginAdvanceKeeps == ASSUME IInv, BeginAdvance PROVE IInv'
<1> USE DEF IInv
<1>1. /\ UNCHANGED << input, results >> /\ TakeEvent /\ source_offsets' = source_offsets
      /\ position' = position /\ ~ way.seekable /\ stage' = "advancing" /\ stage = "idle"
      /\ next.source_index \in Sources
      /\ ~ (next.data_offset < source_offsets[next.source_index])
  BY DEF BeginAdvance, LiesBehind, TakeEvent
<1>2. /\ SamplesHold' /\ RefusalHasCause' /\ plan' = plan /\ way' = way
      /\ \A s : Torn(s)' = Torn(s)
  BY <1>1, NoAnswer
<1>3. BeliefsAreReached'
  BY <1>1, BeliefsUnmoved DEF TakeEvent
<1>4. cursor' = Len(results) + 1 /\ staged' = next /\ Len(results) \in Nat
  BY <1>1, <1>2 DEF TakeEvent, ResultsFollow, staged, next, TypeOK
<1>5. ResultsFollow' /\ ReadIsDue'
  BY <1>1, <1>2, <1>4 DEF ResultsFollow, InCall, ReadIsDue
<1>6. AdvanceIsDue'
  <2>1. next.data_offset \in Nat /\ source_offsets[next.source_index] \in Nat
    BY <1>1, TakenTypes DEF TypeOK
  <2> QED  BY <1>1, <1>2, <1>4, <2>1 DEF AdvanceIsDue, source
<1>7. BeliefsLag'
  BY <1>1, <1>2 DEF BeliefsLag, Counted
<1>8. TypeOK'
  BY TypesStay DEF Next, Work
<1> QED  BY <1>2, <1>3, <1>5, <1>6, <1>7, <1>8

(* The plan is at its end.                                                 *)
LEMMA ReturnNoneKeeps == ASSUME IInv, ReturnNone PROVE IInv'
<1> USE DEF IInv
<1>1. /\ UNCHANGED << input, results >> /\ cursor' = cursor /\ source_offsets' = source_offsets
      /\ position' = position /\ stage' = "ended" /\ stage = "idle"
  BY DEF ReturnNone
<1>2. /\ SamplesHold' /\ RefusalHasCause' /\ plan' = plan /\ way' = way
      /\ \A s : Torn(s)' = Torn(s)
  BY <1>1, NoAnswer
<1>3. BeliefsAreReached'
  BY <1>1, BeliefsUnmoved
<1>4. ResultsFollow' /\ ReadIsDue' /\ AdvanceIsDue'
  BY <1>1 DEF ResultsFollow, InCall, ReadIsDue, AdvanceIsDue
<1>5. BeliefsLag'
  BY <1>1, <1>2 DEF BeliefsLag, Counted
<1>6. TypeOK'
  BY TypesStay DEF Next, Work
<1> QED  BY <1>2, <1>3, <1>4, <1>5, <1>6
-----------------------------------------------------------------------------
(* The reader and its source move on by the same number of bytes.          *)
LEMMA SkipKeeps == ASSUME IInv, Skip PROVE IInv'
<1> USE DEF IInv
<1>0. TypeOK'
  BY TypesStay DEF Next, Work
<1>1. /\ UNCHANGED << input, results >> /\ cursor' = cursor /\ stage' = "advancing"
      /\ stage = "advancing" /\ InCall
  BY DEF Skip, InCall
<1>2. /\ SamplesHold' /\ RefusalHasCause' /\ plan' = plan /\ way' = way
      /\ \A s : Torn(s)' = Torn(s)
  BY <1>1, NoAnswer
<1>3. PICK read \in 1..BufferSize :
        /\ read <= Remaining
        /\ position' = [position EXCEPT ![source] = @ + read]
        /\ source_offsets' = [source_offsets EXCEPT ![source] = @ + read]
  BY DEF Skip, CountRead
<1>4. /\ read \in Nat /\ source \in Sources /\ cursor \in 1..Len(plan)
      /\ staged.data_offset \in Nat /\ staged.data_size \in Nat
      /\ source_offsets[source] \in Nat /\ position[source] \in Nat
  BY <1>1, <1>3, CallTypes, BoundsAssumption
<1>5. /\ staged' = staged /\ source' = source
  BY <1>1, <1>2 DEF staged, source
<1>6. /\ source_offsets'[source] = source_offsets[source] + read
      /\ position'[source] = position[source] + read
      /\ \A s \in Sources : s # source =>
            source_offsets'[s] = source_offsets[s] /\ position'[s] = position[s]
  BY <1>3, <1>4, PositionTypes DEF TypeOK
<1>7. ~ way.seekable /\ source_offsets'[source] <= staged.data_offset
  BY <1>1, <1>3, <1>4, <1>6 DEF AdvanceIsDue, Remaining
<1>8. ResultsFollow' /\ ReadIsDue' /\ AdvanceIsDue'
  BY <1>1, <1>2, <1>5, <1>7 DEF ResultsFollow, InCall, ReadIsDue, AdvanceIsDue
<1>9. BeliefsLag'
  <2> SUFFICES ASSUME NEW s \in Sources
               PROVE  /\ source_offsets'[s] <= position'[s]
                      /\ source_offsets'[s] = position'[s] \/ Torn(s)
    BY <1>1, <1>2 DEF BeliefsLag, Counted
  <2>1. /\ source_offsets[s] <= position[s]
        /\ source_offsets[s] = position[s] \/ Torn(s)
    BY <1>1, <1>7 DEF BeliefsLag, Counted
  <2>2. CASE s = source
    BY <1>4, <1>6, <2>1, <2>2
  <2>3. CASE s # source
    BY <1>6, <2>1, <2>3
  <2> QED  BY <2>2, <2>3
<1>10. BeliefsAreReached'
  <2> SUFFICES ASSUME NEW s \in Sources
               PROVE  source_offsets'[s] = 0 \/ \E k \in 1..cursor : ReachedBy(s, k)'
    BY <1>1, <1>2 DEF BeliefsAreReached
  <2>1. CASE s = source
    <3>1. ReachedBy(s, cursor)'
      BY <1>1, <1>2, <1>4, <1>6, <1>7, <2>1, SMTT(20) DEF TypeOK, ReachedBy, Reach, staged, source
    <3> QED  BY <1>1, <1>4, <3>1
  <2>2. CASE s # source
    BY <1>2, <1>6, <1>7, <2>2 DEF BeliefsAreReached, ReachedBy, Reach
  <2> QED  BY <2>1, <2>2
<1> QED  BY <1>0, <1>2, <1>8, <1>9, <1>10

(* A reader that has arrived has nothing of the sample yet.                *)
LEMMA ArriveKeeps == ASSUME IInv, Arrive PROVE IInv'
<1> USE DEF IInv
<1>0. TypeOK'
  BY TypesStay DEF Next, Work
<1>1. /\ UNCHANGED << input, results >> /\ cursor' = cursor /\ stage' = "reading"
      /\ stage = "advancing" /\ InCall /\ Remaining = 0
      /\ position' = position /\ source_offsets' = source_offsets
      /\ bytes' = [from |-> position[source], count |-> 0]
  BY DEF Arrive, InCall
<1>2. /\ SamplesHold' /\ RefusalHasCause' /\ plan' = plan /\ way' = way
      /\ \A s : Torn(s)' = Torn(s)
  BY <1>1, NoAnswer
<1>3. /\ source \in Sources /\ staged.data_offset \in Nat
      /\ source_offsets[source] \in Nat /\ position[source] \in Nat
  BY <1>1, CallTypes
<1>4. /\ staged' = staged /\ source' = source
  BY <1>1, <1>2 DEF staged, source
<1>5. ~ way.seekable /\ source_offsets[source] = staged.data_offset
  BY <1>1, <1>3 DEF AdvanceIsDue, Remaining
<1>6. \A s \in Sources : Counted(s)' = Counted(s)
  BY <1>1, <1>2, <1>4 DEF Counted, TypeOK
<1>7. BeliefsLag'
  BY <1>1, <1>2, <1>6 DEF BeliefsLag
<1>8. ResultsFollow' /\ AdvanceIsDue'
  BY <1>1 DEF ResultsFollow, InCall, AdvanceIsDue
<1>9. ReadIsDue'
  BY <1>1, <1>2, <1>3, <1>4, <1>5 DEF ReadIsDue, Counted
<1>10. BeliefsAreReached'
  BY <1>1, BeliefsUnmoved
<1> QED  BY <1>0, <1>2, <1>7, <1>8, <1>9, <1>10

(* A read moves what is counted and where the source stands alike.         *)
LEMMA ReadSomeKeeps == ASSUME IInv, ReadSome PROVE IInv'
<1> USE DEF IInv
<1>0. TypeOK'
  BY TypesStay DEF Next, Work
<1>1. /\ UNCHANGED << input, results >> /\ cursor' = cursor /\ stage' = "reading"
      /\ stage = "reading" /\ InCall
  BY DEF ReadSome, InCall
<1>2. /\ SamplesHold' /\ RefusalHasCause' /\ plan' = plan /\ way' = way
      /\ \A s : Torn(s)' = Torn(s)
  BY <1>1, NoAnswer
<1>3. PICK read \in 1..staged.data_size :
        /\ read <= Missing
        /\ position' = [position EXCEPT ![source] = @ + read]
        /\ bytes' = [bytes EXCEPT !.count = @ + read]
        /\ source_offsets' =
             [source_offsets EXCEPT ![source] =
                IF way.copies /\ ~ way.seekable THEN @ + read ELSE @]
  BY DEF ReadSome
<1>4. /\ source \in Sources /\ cursor \in 1..Len(plan)
      /\ staged.data_offset \in Nat /\ staged.data_size \in Nat
      /\ source_offsets[source] \in Nat /\ position[source] \in Nat
      /\ bytes.count \in Nat /\ bytes.from \in Nat
  BY <1>1, CallTypes
<1>5. read \in Nat /\ bytes.count + read <= staged.data_size
  BY <1>3, <1>4 DEF Missing
<1>6. staged' = staged /\ source' = source
  BY <1>1, <1>2 DEF staged, source
<1>7. bytes'.from = bytes.from /\ bytes'.count = bytes.count + read
  <2>1. bytes \in Interval
    BY DEF TypeOK
  <2> QED  BY <1>3, <2>1 DEF Interval
<1>8. /\ position'[source] = position[source] + read
      /\ \A s \in Sources : s # source => position'[s] = position[s]
  BY <1>3, <1>4, <1>5, PositionTypes DEF TypeOK
<1>9. ASSUME ~ way.seekable
      PROVE  /\ \A s \in Sources : s # source => Counted(s)' = Counted(s)
             /\ \A s \in Sources : s # source => source_offsets'[s] = source_offsets[s]
             /\ Counted(source) \in Nat /\ Counted(source)' = Counted(source) + read
             /\ source_offsets'[source] =
                  IF way.copies THEN source_offsets[source] + read ELSE source_offsets[source]
  <2>1. /\ source_offsets'[source] =
             IF way.copies THEN source_offsets[source] + read ELSE source_offsets[source]
        /\ \A s \in Sources : s # source => source_offsets'[s] = source_offsets[s]
    BY <1>3, <1>4, <1>9 DEF TypeOK
  <2>2. CASE way.copies
    BY <1>2, <1>4, <1>6, <2>1, <2>2 DEF Counted
  <2>3. CASE ~ way.copies
    BY <1>1, <1>2, <1>4, <1>5, <1>6, <1>7, <2>1, <2>3 DEF Counted
  <2> QED  BY <2>1, <2>2, <2>3
<1>10. BeliefsLag'
  <2> SUFFICES ASSUME ~ way.seekable, NEW s \in Sources
               PROVE  /\ Counted(s)' <= position'[s]
                      /\ Counted(s)' = position'[s] \/ Torn(s)
    BY <1>2 DEF BeliefsLag
  <2>1. /\ Counted(s) <= position[s]
        /\ Counted(s) = position[s] \/ Torn(s)
    BY DEF BeliefsLag
  <2>2. CASE s # source
    BY <1>8, <1>9, <2>1, <2>2
  <2>3. CASE s = source
    <3>1. Counted(s) \in Nat /\ Counted(s)' = Counted(s) + read
      BY <1>6, <1>9, <2>3
    <3> QED  BY <1>4, <1>5, <1>8, <2>1, <2>3, <3>1
  <2> QED  BY <2>2, <2>3
<1>11. ResultsFollow' /\ AdvanceIsDue'
  BY <1>1 DEF ResultsFollow, InCall, AdvanceIsDue
<1>12. ReadIsDue'
  <2>1. way.seekable => bytes'.from = staged.data_offset
    BY <1>1, <1>7 DEF ReadIsDue
  <2>2. ASSUME ~ way.seekable
        PROVE  /\ Counted(source)' = staged.data_offset + bytes'.count
               /\ position'[source] = bytes'.from + bytes'.count
    <3>1. /\ Counted(source) = staged.data_offset + bytes.count
          /\ position[source] = bytes.from + bytes.count
      BY <1>1, <2>2 DEF ReadIsDue
    <3>2. Counted(source)' = Counted(source) + read
      BY <1>9, <2>2
    <3> QED  BY <1>4, <1>5, <1>7, <1>8, <3>1, <3>2
  <2> QED  BY <1>2, <1>6, <2>1, <2>2 DEF ReadIsDue
<1>13. BeliefsAreReached'
  <2> SUFFICES ASSUME ~ way.seekable, NEW s \in Sources
               PROVE  source_offsets'[s] = 0 \/ \E k \in 1..cursor : ReachedBy(s, k)'
    BY <1>1, <1>2 DEF BeliefsAreReached
  <2>1. source_offsets[s] = 0 \/ \E k \in 1..cursor : ReachedBy(s, k)
    BY DEF BeliefsAreReached
  <2>2. CASE source_offsets'[s] = source_offsets[s]
    BY <1>2, <2>1, <2>2 DEF ReachedBy, Reach
  <2>3. CASE s = source /\ way.copies
    <3>1. source_offsets'[source] <= staged.data_offset + staged.data_size
      BY <1>1, <1>4, <1>5, <1>9, <2>3, SMTT(20) DEF ReadIsDue, Counted
    <3>2. ReachedBy(s, cursor)'
      BY <1>1, <1>2, <2>3, <3>1 DEF ReachedBy, Reach, staged, source
    <3> QED  BY <1>1, <1>4, <3>2
  <2> QED  BY <1>9, <2>2, <2>3
<1> QED  BY <1>0, <1>2, <1>10, <1>11, <1>12, <1>13
-----------------------------------------------------------------------------
(* A call that breaks off with what it has read: at the end of the source, *)
(* at a failing read, or because it is given up.                           *)
LEMMA BreakKeeps ==
  ASSUME IInv, TypeOK', UNCHANGED input, InCall, cursor' = cursor,
         NEW outcome \in {"io", "dropped", "incomplete_sample"}, Answer(outcome, bytes),
         position' = position, source_offsets' = source_offsets
  PROVE  IInv'
<1>1. cursor' = Len(results) + 1 /\ bytes \in Interval
  BY DEF IInv, TypeOK, ResultsFollow
<1>2. ResultsFollow' /\ AdvanceIsDue' /\ ReadIsDue' /\ SamplesHold' /\ RefusalHasCause'
  BY <1>1, AnswerKeeps, OtherAnswer DEF Outcomes
<1>3. BeliefsLag'
  BY CallBreaks
<1>4. BeliefsAreReached'
  BY BeliefsUnmoved
<1> QED  BY <1>2, <1>3, <1>4 DEF IInv

(* The source ends inside the sample.                                      *)
LEMMA SampleEndsKeeps == ASSUME IInv, SampleEnds PROVE IInv'
<1>1. TypeOK'
  BY TypesStay DEF IInv, Next, Work
<1> QED  BY <1>1, BreakKeeps DEF SampleEnds, InCall

(* A read fails, on the way to the item or inside it.                      *)
LEMMA ReadFailsKeeps == ASSUME IInv, ReadFails PROVE IInv'
<1>1. TypeOK'
  BY TypesStay DEF IInv, Next
<1> QED  BY <1>1, BreakKeeps DEF ReadFails, InCall

(* The caller gives the call up while it waits for a read.                 *)
LEMMA DropCallKeeps == ASSUME IInv, DropCall PROVE IInv'
<1>1. TypeOK' /\ Answer("dropped", bytes)
  BY TypesStay, DropAnswers DEF IInv, Next
<1> QED  BY <1>1, BreakKeeps DEF DropCall, InCall

(* The source ends before the item: nothing of the sample was read.        *)
LEMMA SkipEndsKeeps == ASSUME IInv, SkipEnds PROVE IInv'
<1> USE DEF IInv
<1>1. TypeOK'
  BY TypesStay DEF Next, Work
<1>2. /\ UNCHANGED input /\ Answer("incomplete_advance", Nothing) /\ InCall /\ stage = "advancing"
      /\ cursor' = cursor /\ position' = position /\ source_offsets' = source_offsets
      /\ Nothing \in Interval /\ "incomplete_advance" \in Outcomes
  BY DEF SkipEnds, InCall, Nothing, Interval, Outcomes
<1>3. /\ Len(results) \in Nat /\ Len(results') = Len(results) + 1
      /\ \A i \in 1..Len(results) : results'[i] = results[i]
      /\ stage' \in {"idle", "ended"}
  BY <1>2, Answered
<1>4. plan' = plan /\ way' = way /\ cursor' = Len(results) + 1
  BY <1>2, InputTypes DEF ResultsFollow
<1>5. ResultsFollow' /\ AdvanceIsDue' /\ ReadIsDue' /\ SamplesHold' /\ RefusalHasCause'
  BY <1>2, <1>4, AnswerKeeps, OtherAnswer
<1>6. \A s : Torn(s) => Torn(s)'
  BY <1>3, <1>4, TornStays
<1>7. BeliefsLag'
  BY <1>2, <1>3, <1>4, <1>6 DEF BeliefsLag, Counted
<1>8. BeliefsAreReached'
  BY <1>2, BeliefsUnmoved
<1> QED  BY <1>1, <1>5, <1>7, <1>8

(* The bytes whose write failed were read, so the source is torn.          *)
LEMMA WriteFailsKeeps == ASSUME IInv, WriteFails PROVE IInv'
<1> USE DEF IInv
<1>0. TypeOK'
  BY TypesStay DEF Next
<1>1. PICK read \in 1..staged.data_size :
        /\ position' = [position EXCEPT ![source] = @ + read]
        /\ Answer("io", [bytes EXCEPT !.count = @ + read])
  BY DEF WriteFails
<1> DEFINE got == [bytes EXCEPT !.count = @ + read]
<1>2. /\ UNCHANGED input /\ InCall /\ stage = "reading" /\ way.copies
      /\ cursor' = cursor /\ source_offsets' = source_offsets /\ "io" \in Outcomes
  BY DEF WriteFails, InCall, Outcomes
<1>3. /\ source \in Sources /\ staged.data_size \in Nat /\ position[source] \in Nat
      /\ bytes.count \in Nat /\ bytes.from \in Nat
  BY <1>2, CallTypes
<1>4. read \in Nat /\ got \in Interval /\ got.count > 0
  <2>1. read \in Nat /\ read > 0 /\ bytes.count + read \in Nat /\ bytes.count + read > 0
    BY <1>1, <1>3
  <2>2. got = [from |-> bytes.from, count |-> bytes.count + read]
    BY DEF TypeOK, Interval
  <2> QED  BY <1>3, <2>1, <2>2 DEF Interval
<1>5. Answer("io", got)
  BY <1>1
<1> HIDE DEF got
<1>6. /\ Len(results) \in Nat /\ Len(results') = Len(results) + 1
      /\ \A i \in 1..Len(results) : results'[i] = results[i]
      /\ stage' \in {"idle", "ended"}
  BY <1>2, <1>4, <1>5, Answered
<1>7. plan' = plan /\ way' = way /\ cursor' = Len(results) + 1
  BY <1>2, InputTypes DEF ResultsFollow
<1>8. ResultsFollow' /\ AdvanceIsDue' /\ ReadIsDue' /\ SamplesHold' /\ RefusalHasCause'
  BY <1>2, <1>4, <1>5, <1>7, AnswerKeeps, OtherAnswer
<1>9. BeliefsLag'
  <2> SUFFICES ASSUME ~ way.seekable, NEW s \in Sources
               PROVE  /\ source_offsets[s] <= position'[s]
                      /\ source_offsets[s] = position'[s] \/ Torn(s)'
    BY <1>2, <1>6, <1>7 DEF BeliefsLag, Counted
  <2>1. /\ source_offsets[s] <= position[s]
        /\ source_offsets[s] = position[s] \/ Torn(s)
    BY <1>2 DEF BeliefsLag, Counted
  <2>2. CASE s # source
    <3>1. position'[s] = position[s]
      BY <1>1, <1>3, <2>2 DEF TypeOK
    <3>2. Torn(s) => Torn(s)'
      BY <1>6, <1>7, TornStays
    <3> QED  BY <2>1, <3>1, <3>2
  <2>3. CASE s = source
    <3>1. Torn(s)'
      BY <1>2, <1>4, <1>5, <2>3, BreakTears
    <3>2. position'[s] = position[s] + read
      BY <1>1, <1>3, <2>3 DEF TypeOK
    <3>3. source_offsets[s] \in Nat /\ position[s] \in Nat
      BY DEF TypeOK
    <3> QED  BY <1>4, <2>1, <3>1, <3>2, <3>3
  <2> QED  BY <2>2, <2>3
<1>10. BeliefsAreReached'
  BY <1>2, BeliefsUnmoved
<1> QED  BY <1>0, <1>8, <1>9, <1>10

(* The sample is complete: it is made of the planned bytes, or its source  *)
(* is torn.                                                                *)
LEMMA ReturnSampleKeeps == ASSUME IInv, ReturnSample PROVE IInv'
<1> USE DEF IInv
<1>0. TypeOK'
  BY TypesStay DEF Next, Work
<1>1. /\ UNCHANGED input /\ InCall /\ stage = "reading" /\ cursor' = cursor
      /\ Answer("sample", bytes) /\ position' = position /\ "sample" \in Outcomes
      /\ bytes \in Interval
      /\ source_offsets' =
           [source_offsets EXCEPT ![source] =
              IF way.copies \/ way.seekable THEN @ ELSE @ + staged.data_size]
  BY DEF ReturnSample, InCall, Outcomes, TypeOK, OffsetBehind
<1>2. /\ source \in Sources /\ staged.data_size \in Nat /\ staged.data_offset \in Nat
      /\ position[source] \in Nat /\ source_offsets[source] \in Nat
      /\ bytes.count \in Nat /\ bytes.from \in Nat /\ cursor \in 1..Len(plan)
  BY <1>1, CallTypes
<1>3. bytes.count = staged.data_size
  BY <1>1, <1>2 DEF ReturnSample, Wants, TypeOK
<1>4. /\ Len(results) \in Nat /\ Len(results') = Len(results) + 1
      /\ \A i \in 1..Len(results) : results'[i] = results[i]
      /\ results'[Len(results) + 1].outcome = "sample"
      /\ results'[Len(results) + 1].from = bytes.from
      /\ results'[Len(results) + 1].count = bytes.count
      /\ stage' \in {"idle", "ended"}
  BY <1>1, Answered
<1>5. plan' = plan /\ way' = way /\ cursor = Len(results) + 1 /\ cursor' = Len(results) + 1
  BY <1>1, InputTypes DEF ResultsFollow
<1>6. /\ ResultsFollow' /\ AdvanceIsDue' /\ ReadIsDue'
      /\ \A i \in 1..Len(results) : SampleHolds(i)' /\ Caused(i)'
  BY <1>1, <1>5, AnswerKeeps
<1>7. ASSUME ~ way.seekable PROVE bytes.from = staged.data_offset \/ Torn(source)
  <2>1. /\ Counted(source) = staged.data_offset + bytes.count
        /\ position[source] = bytes.from + bytes.count
    BY <1>1, <1>7 DEF ReadIsDue
  <2>2. Counted(source) = position[source] \/ Torn(source)
    BY <1>2, <1>7 DEF BeliefsLag
  <2> QED  BY <1>2, <2>1, <2>2
<1>8. ASSUME NEW i, i = Len(results) + 1 PROVE SampleHolds(i)' /\ Caused(i)'
  <2>1. \A s : Torn(s) => TornBefore(s, i)'
    BY <1>4, <1>5, <1>8, TornStays DEF Torn
  <2>2. plan'[i].data_size = staged.data_size /\ plan'[i].data_offset = staged.data_offset
        /\ plan'[i].source_index = source
    BY <1>5, <1>8 DEF staged, source
  <2>3. way.seekable => bytes.from = staged.data_offset
    BY <1>1 DEF ReadIsDue
  <2>4. ~ way.seekable =>
          bytes.from = staged.data_offset \/ TornBefore(plan[i].source_index, i)'
    BY <1>5, <1>7, <2>1, <2>2
  <2> QED  BY <1>3, <1>4, <1>5, <1>8, <2>2, <2>3, <2>4 DEF SampleHolds, Caused
<1>9. SamplesHold' /\ RefusalHasCause'
  <2>1. \A i \in 1..Len(results') : i \in 1..Len(results) \/ i = Len(results) + 1
    BY <1>4
  <2>2. \A i \in 1..Len(results') : SampleHolds(i)' /\ Caused(i)'
    BY <1>6, <1>8, <2>1
  <2> QED  BY <2>2 DEF SamplesHold, RefusalHasCause, Caused
<1>10. ASSUME ~ way.seekable, NEW s \in Sources PROVE source_offsets'[s] = Counted(s)
  <2>1. CASE s # source
    BY <1>1, <1>2, <2>1 DEF TypeOK, Counted
  <2>2. CASE s = source
    BY <1>1, <1>2, <1>3, <1>10, <2>2 DEF TypeOK, Counted
  <2> QED  BY <2>1, <2>2
<1>11. BeliefsLag'
  <2>1. \A s : Torn(s) => Torn(s)'
    BY <1>4, <1>5, TornStays
  <2> QED  BY <1>1, <1>4, <1>5, <1>10, <2>1 DEF BeliefsLag, Counted
<1>12. BeliefsAreReached'
  <2> SUFFICES ASSUME ~ way.seekable, NEW s \in Sources
               PROVE  source_offsets'[s] = 0 \/ \E k \in 1..cursor : ReachedBy(s, k)'
    BY <1>1, <1>5 DEF BeliefsAreReached
  <2>1. source_offsets[s] = 0 \/ \E k \in 1..cursor : ReachedBy(s, k)
    BY DEF BeliefsAreReached
  <2>2. CASE source_offsets'[s] = source_offsets[s]
    BY <1>5, <2>1, <2>2 DEF ReachedBy, Reach
  <2>3. CASE s = source
    <3>1. source_offsets'[s] = staged.data_offset + staged.data_size
      BY <1>1, <1>3, <1>10, <2>3 DEF ReadIsDue
    <3>2. ReachedBy(s, cursor)'
      BY <1>1, <1>2, <1>5, <2>3, <3>1 DEF ReachedBy, Reach, staged, source
    <3> QED  BY <1>1, <1>2, <3>2
  <2>4. s # source => source_offsets'[s] = source_offsets[s]
    BY <1>1, <1>2 DEF TypeOK
  <2> QED  BY <2>2, <2>3, <2>4
<1> QED  BY <1>0, <1>6, <1>9, <1>11, <1>12
-----------------------------------------------------------------------------
(* The invariant is inductive.                                             *)
LEMMA InvariantStays == IInv /\ [Next]_vars => IInv'
<1> SUFFICES ASSUME IInv, [Next]_vars PROVE IInv'
  OBVIOUS
<1>1. CASE UNCHANGED vars
  BY <1>1 DEF vars, input, IInv, TypeOK, ResultsFollow, InCall, SamplesHold, SampleHolds,
     TornBefore, Torn, RefusalHasCause, BeliefsLag, Counted, AdvanceIsDue, ReadIsDue,
     BeliefsAreReached, ReachedBy, Reach, staged, source
<1> QED
  BY <1>1, MissSourceKeeps, SeekSampleKeeps, SeekFailsKeeps, RefuseBackwardKeeps,
     BeginAdvanceKeeps, ReturnNoneKeeps, SkipKeeps, SkipEndsKeeps, ArriveKeeps, ReadSomeKeeps,
     WriteFailsKeeps, SampleEndsKeeps, ReturnSampleKeeps, ReadFailsKeeps, DropCallKeeps
  DEF Next, Work, Ended

(* Each variable keeps the type of its field, and no call reads more than  *)
(* its sample.                                                             *)
THEOREM TypesAreKept == Spec => []TypeOK
<1>1. IInv => TypeOK
  BY DEF IInv
<1> QED  BY <1>1, InitHolds, InvariantStays, PTL DEF Spec

(* So it holds in every state of every behaviour.                          *)
LEMMA InvariantHolds == Spec => []IInv
BY InitHolds, InvariantStays, PTL DEF Spec

(* There is one result for each planned item, and a sample that is handed  *)
(* out is made of the bytes the plan names, unless an earlier call for the *)
(* same progressive source broke off inside a sample.                      *)
THEOREM SamplesAreThePlanned == Spec => []SamplesArePlanned
<1>1. ASSUME IInv PROVE SamplesArePlanned
  <2>1. TypeOK /\ ResultsFollow /\ SamplesHold
    BY <1>1 DEF IInv
  <2>2. Len(results) \in Nat /\ cursor \in Nat
    <3>1. results \in Seq(Result) /\ plan \in Seq(Item) /\ cursor \in 0..Len(plan)
      BY <2>1 DEF TypeOK
    <3> QED  BY <3>1
  <2>3. \/ Len(results) = cursor - (IF stage \in {"advancing", "reading"} THEN 1 ELSE 0)
        \/ stage = "ended"
    BY <2>1, <2>2 DEF TypeOK, ResultsFollow, InCall
  <2> QED  BY <2>1, <2>3 DEF SamplesHold, SampleHolds, SamplesArePlanned
<1> QED  BY <1>1, InvariantHolds, PTL

(* Between calls a progressive reader believes of each source what is true,*)
(* unless a call for it broke off inside a sample; then it is behind.      *)
THEOREM BeliefsAgree == Spec => []OffsetsAgree
<1>1. ASSUME IInv PROVE OffsetsAgree
  BY <1>1 DEF IInv, BeliefsLag, Counted, OffsetsAgree
<1> QED  BY <1>1, InvariantHolds, PTL

(* A progressive reader refuses an item as running backward only if an     *)
(* earlier item of the same source reaches beyond its start.               *)
THEOREM RefusalsHaveCause == Spec => []RefusalHasCause
<1>1. IInv => RefusalHasCause
  BY DEF IInv
<1> QED  BY <1>1, InvariantHolds, PTL
=============================================================================
