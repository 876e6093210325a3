-------------------------- MODULE OrderedWorkQueue --------------------------
(***************************************************************************)
(* The value types of src/src/queue.rs: the work queue that sorts sample   *)
(* edits by a queue key, and the raw offset queue, a sliding window of     *)
(* input bytes addressed by absolute input offset.  Both are plain data    *)
(* in the code (no interior mutability), so they are operators on values   *)
(* here; the modules that own a queue hold it in a variable.               *)
(*                                                                         *)
(* A byte of the input is represented by its absolute offset, so that the  *)
(* window is a sequence of offsets and "the right byte" is a number.       *)
(***************************************************************************)
EXTENDS Naturals, Sequences

CONSTANT None  \* the absent value of an Option

Lower(a, b) == IF a < b THEN a ELSE b

(***************************************************************************)
(* The set of results a stable sort of s by the key k may return: one      *)
(* sequence.  p[i] is where the i-th element of the result stood in s: p   *)
(* leaves no place out, and respects the strict order on <<key, old place>>*)
(***************************************************************************)
StablePermutations(s, k(_)) ==
  { p \in [DOMAIN s -> DOMAIN s] :
      /\ \A j \in DOMAIN s : \E i \in DOMAIN s : p[i] = j
      /\ \A i, j \in DOMAIN s :
           i < j => \/ k(s[p[i]]) < k(s[p[j]])
                    \/ k(s[p[i]]) = k(s[p[j]]) /\ p[i] < p[j] }

StableSorts(s, k(_)) ==
  { [i \in DOMAIN s |-> s[p[i]]] : p \in StablePermutations(s, k) }

-----------------------------------------------------------------------------
(* A common-encryption sample edit, as far as the stream rewrite tells     *)
(* edits apart: where the sample lies, which run of auxiliary information  *)
(* (a span) described it, which record of that run (sample) is its own,    *)
(* the record's number inside its fragment run (sample_index), the key of  *)
(* the cipher, and whether the cipher accepts the sample.                  *)
Span == [absolute_offset : Nat, size : Nat]

Edit(Schemes, Keys) ==
  [ absolute_offset : Nat, sample_size : Nat, span : Span \cup {None},
    sample : Nat \ {0}, sample_index : Nat, scheme_type : Schemes,
    content_key : Keys, decodable : BOOLEAN ]

queue_order_key(edit) ==
  IF edit.span = None
    THEN edit.absolute_offset
    ELSE Lower(edit.span.absolute_offset, edit.absolute_offset)

queue_range_start(edit) == edit.absolute_offset

queue_range_end(edit) == edit.absolute_offset + edit.sample_size

(* OrderedWorkQueue::new sorts by queue_order_key.                         *)
OrderedItems(edits) == StableSorts(edits, queue_order_key)

(* The spans OrderedWorkQueue::new collects.  The code keeps them in first-*)
(* seen order; their one reader builds a map keyed by span from them, so   *)
(* only the set is kept here.                                              *)
auxiliary_info_spans(items) ==
  { items[i].span : i \in { j \in DOMAIN items : items[j].span # None } }

-----------------------------------------------------------------------------
(* RawOffsetQueue: the bytes from head up to (not including) tail.         *)
RawQueue == [head : Nat, bytes : Seq(Nat)]

RawQueueAt(head) == [head |-> head, bytes |-> << >>]

QueueTail(queue) == queue.head + Len(queue.bytes)

(* The bytes of the input from an offset on.                               *)
IsRun(start, bytes) == \A i \in DOMAIN bytes : bytes[i] = start + i - 1

(* What the queue is for: the byte it holds for an offset is the input's.  *)
IsWindow(queue) == IsRun(queue.head, queue.bytes)

PushBytes(queue, chunk) == [head |-> queue.head, bytes |-> queue.bytes \o chunk]

(* trim_to succeeds for a target behind the head (nothing to do), and is an*)
(* error beyond the tail.                                                  *)
TrimAccepts(queue, target) == target <= QueueTail(queue)

(* A defect the checks must notice: the bytes go, the head stays.          *)
KeepHead(queue, target) ==
  [queue EXCEPT !.bytes = SubSeq(@, target - queue.head + 1, Len(@))]

TrimTo(queue, target) ==
  IF target < queue.head
    THEN queue
    ELSE [head  |-> target,
          bytes |-> SubSeq(queue.bytes, target - queue.head + 1, Len(queue.bytes))]

(* with_range_bytes answers only for ranges inside the window.             *)
RangeAccepts(queue, start, size) ==
  start >= queue.head /\ start + size <= QueueTail(queue)

RangeBytes(queue, start, size) ==
  SubSeq(queue.bytes, start - queue.head + 1, start - queue.head + size)
=============================================================================
