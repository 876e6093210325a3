-------------------------- MODULE MdatStreamProofs --------------------------
(***************************************************************************)
(* IInv is an inductive invariant of MdatStream, for every BufferLen, every*)
(* set of schemes and keys and every set of plans that the assumptions     *)
(* allow.  The safety properties follow from it, and so does that the      *)
(* stream implements ForwardRewrite; OutcomeInv, on top of it, is what a   *)
(* returned run promises.                                                  *)
(***************************************************************************)
EXTENDS MdatStreamInvariant, SequenceTheorems, FiniteSetTheorems, TLAPS

-----------------------------------------------------------------------------
(* The value types of OrderedWorkQueue: what sorting keeps, and what the   *)
(* raw offset queue holds after each of its operations.                    *)

(* A rearrangement of a sequence holds the elements of the sequence.       *)
LEMMA Rearranged ==
  ASSUME NEW S, NEW s \in Seq(S), NEW t, NEW p \in [DOMAIN s -> DOMAIN s],
         t = [i \in DOMAIN s |-> s[p[i]]],
         \A j \in DOMAIN s : \E i \in DOMAIN s : p[i] = j
  PROVE  /\ t \in Seq(S) /\ Len(t) = Len(s)
         /\ \A k \in DOMAIN t : \E i \in DOMAIN s : t[k] = s[i]
         /\ \A i \in DOMAIN s : \E k \in DOMAIN t : t[k] = s[i]
<1>1. DOMAIN s = 1..Len(s) /\ Len(s) \in Nat /\ \A i \in 1..Len(s) : s[i] \in S
  BY LenProperties, ElementOfSeq
<1>2. t \in [1..Len(s) -> S]
  BY <1>1
<1>3. t \in Seq(S) /\ Len(t) = Len(s)
  BY <1>1, <1>2, SMT
<1>4. \A k \in DOMAIN t : \E i \in DOMAIN s : t[k] = s[i]
  BY <1>1
<1>5. ASSUME NEW i \in DOMAIN s PROVE \E k \in DOMAIN t : t[k] = s[i]
  <2>1. PICK k \in DOMAIN s : p[k] = i
    OBVIOUS
  <2> QED BY <2>1, <1>1
<1> QED BY <1>3, <1>4, <1>5

(* OrderedWorkQueue::new loses no edit, and makes none up.                 *)
LEMMA OrderedItemsKeep ==
  ASSUME NEW S, NEW edits \in Seq(S), NEW items \in OrderedItems(edits)
  PROVE  /\ items \in Seq(S) /\ Len(items) = Len(edits)
         /\ \A k \in DOMAIN items : \E i \in DOMAIN edits : items[k] = edits[i]
         /\ \A i \in DOMAIN edits : \E k \in DOMAIN items : items[k] = edits[i]
<1>1. PICK p \in [DOMAIN edits -> DOMAIN edits] :
        /\ items = [i \in DOMAIN edits |-> edits[p[i]]]
        /\ \A j \in DOMAIN edits : \E i \in DOMAIN edits : p[i] = j
  BY DEF OrderedItems, StableSorts, StablePermutations
<1> QED BY <1>1, Rearranged

(* RangeQueueParser::new keeps the items too, and their starts ascend.     *)
LEMMA SortedByRangeStartKeeps ==
  ASSUME NEW S, NEW items \in Seq(S), NEW sorted \in SortedByRangeStart(items)
  PROVE  /\ sorted \in Seq(S) /\ Len(sorted) = Len(items)
         /\ \A k \in DOMAIN sorted : \E i \in DOMAIN items : sorted[k] = items[i]
         /\ \A i \in DOMAIN items : \E k \in DOMAIN sorted : sorted[k] = items[i]
         /\ \A i, j \in DOMAIN sorted :
              i < j => \/ queue_range_start(sorted[i]) < queue_range_start(sorted[j])
                       \/ queue_range_start(sorted[i]) = queue_range_start(sorted[j])
<1>1. PICK p \in [DOMAIN items -> DOMAIN items] :
        /\ sorted = [i \in DOMAIN items |-> items[p[i]]]
        /\ \A j \in DOMAIN items : \E i \in DOMAIN items : p[i] = j
        /\ \A i, j \in DOMAIN items :
             i < j => \/ queue_range_start(items[p[i]]) < queue_range_start(items[p[j]])
                      \/ queue_range_start(items[p[i]]) = queue_range_start(items[p[j]])
  BY DEF SortedByRangeStart, StableSorts, StablePermutations
<1>2. \A i, j \in DOMAIN sorted :
        i < j => \/ queue_range_start(sorted[i]) < queue_range_start(sorted[j])
                 \/ queue_range_start(sorted[i]) = queue_range_start(sorted[j])
  BY <1>1
<1>3. /\ sorted \in Seq(S) /\ Len(sorted) = Len(items)
      /\ \A k \in DOMAIN sorted : \E i \in DOMAIN items : sorted[k] = items[i]
      /\ \A i \in DOMAIN items : \E k \in DOMAIN sorted : sorted[k] = items[i]
  <2>1. \A j \in DOMAIN items : \E i \in DOMAIN items : p[i] = j
    BY <1>1
  <2>2. sorted = [i \in DOMAIN items |-> items[p[i]]]
    BY <1>1
  <2> HIDE <1>1, <1>2
  <2> QED BY <2>1, <2>2, Rearranged
<1> QED BY <1>2, <1>3

(* A rearrangement in the order of <<key, old place>> moves no two elements*)
(* from the same place.                                                    *)
LEMMA OrderIsStrict ==
  ASSUME NEW n \in Nat, NEW p \in [1..n -> 1..n], NEW key \in [1..n -> Nat],
         \A i, j \in 1..n :
           i < j => key[p[i]] < key[p[j]] \/ (key[p[i]] = key[p[j]] /\ p[i] < p[j])
  PROVE  \A i, j \in 1..n : p[i] = p[j] => i = j
<1>1. ASSUME NEW i \in 1..n, NEW j \in 1..n, i < j PROVE p[i] # p[j]
  <2>1. p[i] \in 1..n /\ p[j] \in 1..n /\ key[p[i]] \in Nat /\ key[p[j]] \in Nat
    OBVIOUS
  <2>2. key[p[i]] < key[p[j]] \/ (key[p[i]] = key[p[j]] /\ p[i] < p[j])
    BY <1>1
  <2>3. \A a \in Nat : ~(a < a)
    OBVIOUS
  <2>4. p[i] \in Nat
    BY <2>1
  <2>5. ~(p[i] < p[i]) /\ ~(key[p[i]] < key[p[i]])
    BY <2>1, <2>3, <2>4, Zenon
  <2> QED BY <2>2, <2>5, Zenon
<1>2. \A i, j \in 1..n : i < j \/ i = j \/ j < i
  OBVIOUS
<1> QED BY <1>1, <1>2

(* The keys of the two sorts are numbers.                                  *)
LEMMA KeysAreNumbers ==
  ASSUME NEW S, NEW K, NEW e \in Edit(S, K)
  PROVE  queue_order_key(e) \in Nat /\ queue_range_start(e) \in Nat
<1>1. e.absolute_offset \in Nat /\ e.span \in Span \cup {None}
  BY DEF Edit
<1>2. e.span # None => e.span.absolute_offset \in Nat
  BY <1>1 DEF Span
<1> QED BY <1>1, <1>2 DEF queue_order_key, queue_range_start, Lower

(* p says where in s each element of t was taken from: each from one place,*)
(* each place once.                                                        *)
TakesFrom(p, s, t) ==
  /\ p \in [1..Len(s) -> 1..Len(s)]
  /\ \A i \in 1..Len(s) : t[i] = s[p[i]]
  /\ \A i, j \in 1..Len(s) : p[i] = p[j] => i = j
  /\ \A j \in 1..Len(s) : \E i \in 1..Len(s) : p[i] = j

(* OrderedWorkQueue::new takes its items so, and so does                   *)
(* RangeQueueParser::new.                                                  *)
LEMMA OrderedItemsPlaces ==
  ASSUME NEW S, NEW edits \in Seq(S), NEW items \in OrderedItems(edits),
         \A e \in S : queue_order_key(e) \in Nat
  PROVE  \E p : TakesFrom(p, edits, items)
<1> DEFINE n == Len(edits)
           key == [i \in 1..n |-> queue_order_key(edits[i])]
<1>1. n \in Nat /\ DOMAIN edits = 1..n /\ \A i \in 1..n : edits[i] \in S
  BY LenProperties, ElementOfSeq
<1>2. key \in [1..n -> Nat]
  BY <1>1
<1>3. PICK p \in [1..n -> 1..n] :
        /\ items = [i \in 1..n |-> edits[p[i]]]
        /\ \A j \in 1..n : \E i \in 1..n : p[i] = j
        /\ \A i, j \in 1..n :
             i < j => \/ queue_order_key(edits[p[i]]) < queue_order_key(edits[p[j]])
                      \/ /\ queue_order_key(edits[p[i]]) = queue_order_key(edits[p[j]])
                         /\ p[i] < p[j]
  BY <1>1 DEF OrderedItems, StableSorts, StablePermutations
<1>4. \A i \in 1..n : key[p[i]] = queue_order_key(edits[p[i]])
  OBVIOUS
<1>5. \A i, j \in 1..n :
        i < j => key[p[i]] < key[p[j]] \/ (key[p[i]] = key[p[j]] /\ p[i] < p[j])
  BY <1>3, <1>4
<1>6. \A i, j \in 1..n : p[i] = p[j] => i = j
  <2> HIDE DEF n, key
  <2> QED BY <1>1, <1>2, <1>5, OrderIsStrict
<1>7. \A i \in 1..n : items[i] = edits[p[i]]
  BY <1>3
<1>8. TakesFrom(p, edits, items)
  BY <1>3, <1>6, <1>7 DEF TakesFrom
<1> QED BY <1>8

LEMMA SortedByRangeStartPlaces ==
  ASSUME NEW S, NEW items \in Seq(S), NEW sorted \in SortedByRangeStart(items),
         \A e \in S : queue_range_start(e) \in Nat
  PROVE  \E p : TakesFrom(p, items, sorted)
<1> DEFINE n == Len(items)
           key == [i \in 1..n |-> queue_range_start(items[i])]
<1>1. n \in Nat /\ DOMAIN items = 1..n /\ \A i \in 1..n : items[i] \in S
  BY LenProperties, ElementOfSeq
<1>2. key \in [1..n -> Nat]
  BY <1>1
<1>3. PICK p \in [1..n -> 1..n] :
        /\ sorted = [i \in 1..n |-> items[p[i]]]
        /\ \A j \in 1..n : \E i \in 1..n : p[i] = j
        /\ \A i, j \in 1..n :
             i < j => \/ queue_range_start(items[p[i]]) < queue_range_start(items[p[j]])
                      \/ /\ queue_range_start(items[p[i]]) = queue_range_start(items[p[j]])
                         /\ p[i] < p[j]
  BY <1>1 DEF SortedByRangeStart, StableSorts, StablePermutations
<1>4. \A i \in 1..n : key[p[i]] = queue_range_start(items[p[i]])
  OBVIOUS
<1>5. \A i, j \in 1..n :
        i < j => key[p[i]] < key[p[j]] \/ (key[p[i]] = key[p[j]] /\ p[i] < p[j])
  BY <1>3, <1>4
<1>6. \A i, j \in 1..n : p[i] = p[j] => i = j
  <2> HIDE DEF n, key
  <2> QED BY <1>1, <1>2, <1>5, OrderIsStrict
<1>7. \A i \in 1..n : sorted[i] = items[p[i]]
  BY <1>3
<1>8. TakesFrom(p, items, sorted)
  BY <1>3, <1>6, <1>7 DEF TakesFrom
<1> QED BY <1>8

(* One after the other they take each item from a place of its own.        *)
LEMMA TakenTwice ==
  ASSUME NEW r, NEW s, NEW t, NEW p, NEW q, Len(s) = Len(r),
         TakesFrom(p, r, s), TakesFrom(q, s, t)
  PROVE  TakesFrom([k \in 1..Len(r) |-> p[q[k]]], r, t)
<1> DEFINE n == Len(r)
           place == [k \in 1..n |-> p[q[k]]]
<1>1. /\ p \in [1..n -> 1..n]
      /\ \A i \in 1..n : s[i] = r[p[i]]
      /\ \A i, j \in 1..n : p[i] = p[j] => i = j
      /\ \A j \in 1..n : \E i \in 1..n : p[i] = j
  BY DEF TakesFrom
<1>2. /\ q \in [1..n -> 1..n]
      /\ \A i \in 1..n : t[i] = s[q[i]]
      /\ \A i, j \in 1..n : q[i] = q[j] => i = j
      /\ \A j \in 1..n : \E i \in 1..n : q[i] = j
  BY DEF TakesFrom
<1>3. place \in [1..n -> 1..n] /\ \A k \in 1..n : q[k] \in 1..n /\ place[k] = p[q[k]]
  BY <1>1, <1>2
<1>4. ASSUME NEW k \in 1..n PROVE t[k] = r[place[k]]
  <2>1. q[k] \in 1..n /\ place[k] = p[q[k]] /\ t[k] = s[q[k]]
    BY <1>2, <1>3
  <2>2. s[q[k]] = r[p[q[k]]]
    BY <1>1, <2>1
  <2> QED BY <2>1, <2>2
<1>5. ASSUME NEW k \in 1..n, NEW l \in 1..n, place[k] = place[l] PROVE k = l
  <2>1. q[k] \in 1..n /\ q[l] \in 1..n /\ p[q[k]] = p[q[l]]
    BY <1>3, <1>5
  <2>2. q[k] = q[l]
    BY <1>1, <2>1
  <2> QED BY <1>2, <2>2
<1>6. ASSUME NEW i \in 1..n PROVE \E k \in 1..n : place[k] = i
  <2>1. PICK j \in 1..n : p[j] = i
    BY <1>1
  <2>2. PICK k \in 1..n : q[k] = j
    BY <1>2
  <2> QED BY <1>3, <2>1, <2>2
<1> QED BY <1>3, <1>4, <1>5, <1>6 DEF TakesFrom
-----------------------------------------------------------------------------
LEMMA ConcatType ==
  ASSUME NEW S, NEW s \in Seq(S), NEW t \in Seq(S)
  PROVE  s \o t \in Seq(S) /\ Len(s \o t) = Len(s) + Len(t)
OBVIOUS

(* A run followed by the run that begins where it ends is one run.         *)
LEMMA ConcatRuns ==
  ASSUME NEW h \in Nat, NEW b \in Seq(Nat), NEW c \in Seq(Nat),
         IsRun(h, b), IsRun(h + Len(b), c)
  PROVE  IsRun(h, b \o c)
<1>1. PICK n \in Nat, m \in Nat : Len(b) = n /\ Len(c) = m
  OBVIOUS
<1>2. b \o c \in Seq(Nat) /\ Len(b \o c) = n + m
  BY <1>1, ConcatType
<1>3. (\A i \in 1..n : b[i] = h + i - 1) /\ (\A i \in 1..m : c[i] = h + n + i - 1)
  <2>1. DOMAIN b = 1..n /\ DOMAIN c = 1..m /\ h + Len(b) = h + n
    BY <1>1
  <2> QED BY <2>1 DEF IsRun
<1>4. ASSUME NEW i \in 1..n PROVE (b \o c)[i] = h + i - 1
  BY <1>1, <1>3
<1>5. ASSUME NEW i \in n + 1..n + m PROVE (b \o c)[i] = h + i - 1
  <2>1. i - n \in 1..m /\ (b \o c)[i] = c[i - n]
    BY <1>1
  <2>2. c[i - n] = h + n + (i - n) - 1
    BY <2>1, <1>3
  <2> QED BY <2>1, <2>2
<1>6. \A i \in 1..n + m : i \in 1..n \/ i \in n + 1..n + m
  OBVIOUS
<1>7. DOMAIN (b \o c) = 1..n + m
  BY <1>2
<1> QED BY <1>4, <1>5, <1>6, <1>7 DEF IsRun

(* What is cut out of a run is a run.                                      *)
LEMMA SliceOfRun ==
  ASSUME NEW h \in Nat, NEW b \in Seq(Nat), IsRun(h, b),
         NEW m \in Nat \ {0}, NEW n \in Nat, m <= n + 1, n <= Len(b)
  PROVE  /\ SubSeq(b, m, n) \in Seq(Nat)
         /\ Len(SubSeq(b, m, n)) = n - m + 1
         /\ IsRun(h + m - 1, SubSeq(b, m, n))
<1>1. PICK k \in Nat : Len(b) = k /\ DOMAIN b = 1..k
  OBVIOUS
<1>2. /\ SubSeq(b, m, n) \in Seq(Nat)
      /\ Len(SubSeq(b, m, n)) = n - m + 1
      /\ \A i \in 1..n - m + 1 : SubSeq(b, m, n)[i] = b[m + i - 1]
  BY <1>1
<1>3. \A i \in 1..k : b[i] = h + i - 1
  BY <1>1 DEF IsRun
<1>4. ASSUME NEW i \in 1..n - m + 1 PROVE SubSeq(b, m, n)[i] = (h + m - 1) + i - 1
  <2>1. m + i - 1 \in 1..k
    BY <1>1
  <2>2. b[m + i - 1] = h + (m + i - 1) - 1
    BY <2>1, <1>3
  <2> QED BY <2>2, <1>2
<1>5. DOMAIN SubSeq(b, m, n) = 1..n - m + 1
  BY <1>2
<1> QED BY <1>2, <1>4, <1>5 DEF IsRun
-----------------------------------------------------------------------------
LEMMA RawQueueType ==
  ASSUME NEW queue \in RawQueue
  PROVE  /\ queue.head \in Nat /\ queue.bytes \in Seq(Nat)
         /\ Len(queue.bytes) \in Nat
         /\ QueueTail(queue) \in Nat
         /\ QueueTail(queue) = queue.head + Len(queue.bytes)
BY DEF RawQueue, QueueTail

LEMMA RawQueueOf ==
  ASSUME NEW h \in Nat, NEW b \in Seq(Nat)
  PROVE  /\ [head |-> h, bytes |-> b] \in RawQueue
         /\ [head |-> h, bytes |-> b].head = h
         /\ [head |-> h, bytes |-> b].bytes = b
         /\ QueueTail([head |-> h, bytes |-> b]) = h + Len(b)
         /\ IsWindow([head |-> h, bytes |-> b]) <=> IsRun(h, b)
BY DEF RawQueue, QueueTail, IsWindow

(* push_bytes moves the tail on and leaves the rest of the window alone.   *)
LEMMA PushBytesExtends ==
  ASSUME NEW queue \in RawQueue, NEW chunk \in Seq(Nat), IsWindow(queue),
         IsRun(QueueTail(queue), chunk)
  PROVE  /\ PushBytes(queue, chunk) \in RawQueue
         /\ PushBytes(queue, chunk).head = queue.head
         /\ QueueTail(PushBytes(queue, chunk)) = QueueTail(queue) + Len(chunk)
         /\ IsWindow(PushBytes(queue, chunk))
<1> DEFINE h == queue.head
           b == queue.bytes
<1>1. h \in Nat /\ b \in Seq(Nat) /\ QueueTail(queue) = h + Len(b)
  BY RawQueueType
<1>2. IsRun(h, b) /\ IsRun(h + Len(b), chunk)
  BY <1>1 DEF IsWindow
<1>3. PushBytes(queue, chunk) = [head |-> h, bytes |-> b \o chunk]
  BY DEF PushBytes
<1> HIDE DEF h, b
<1>4. b \o chunk \in Seq(Nat) /\ Len(b \o chunk) = Len(b) + Len(chunk)
  BY <1>1, ConcatType
<1>5. IsRun(h, b \o chunk)
  BY <1>1, <1>2, ConcatRuns
<1>6. /\ [head |-> h, bytes |-> b \o chunk] \in RawQueue
      /\ [head |-> h, bytes |-> b \o chunk].head = h
      /\ QueueTail([head |-> h, bytes |-> b \o chunk]) = h + Len(b \o chunk)
      /\ IsWindow([head |-> h, bytes |-> b \o chunk])
  BY <1>1, <1>4, <1>5, RawQueueOf
<1>7. h + Len(b \o chunk) = QueueTail(queue) + Len(chunk)
  BY <1>1, <1>4
<1>8. h = queue.head
  BY DEF h
<1> QED BY <1>3, <1>6, <1>7, <1>8

(* trim_to drops the bytes before the target, and no other.                *)
LEMMA TrimToDrops ==
  ASSUME NEW queue \in RawQueue, NEW target \in Nat, IsWindow(queue),
         queue.head <= target, target <= QueueTail(queue)
  PROVE  /\ TrimTo(queue, target) \in RawQueue
         /\ TrimTo(queue, target).head = target
         /\ QueueTail(TrimTo(queue, target)) = QueueTail(queue)
         /\ IsWindow(TrimTo(queue, target))
         /\ target = QueueTail(queue) => TrimTo(queue, target).bytes = << >>
<1> DEFINE h == queue.head
           b == queue.bytes
           m == target - h + 1
           n == Len(b)
           c == SubSeq(b, m, n)
<1>1. h \in Nat /\ b \in Seq(Nat) /\ n \in Nat /\ QueueTail(queue) = h + n
  BY RawQueueType
<1>2. m \in Nat \ {0} /\ m <= n + 1 /\ h + m - 1 = target
  BY <1>1
<1>3. TrimTo(queue, target) = [head |-> target, bytes |-> c]
  <2>1. ~(target < queue.head)
    BY <1>1
  <2> QED BY <2>1 DEF TrimTo
<1>4. IsRun(h, b) /\ n <= Len(b)
  BY <1>1 DEF IsWindow
<1>5. c \in Seq(Nat) /\ Len(c) = n - m + 1 /\ IsRun(h + m - 1, c)
  <2> HIDE DEF h, b, m, n
  <2> QED BY <1>1, <1>2, <1>4, SliceOfRun
<1> HIDE DEF h, b, m, n, c
<1>6. target = QueueTail(queue) => c = << >>
  BY <1>1, <1>2, <1>5
<1>7. /\ [head |-> target, bytes |-> c] \in RawQueue
      /\ [head |-> target, bytes |-> c].head = target
      /\ [head |-> target, bytes |-> c].bytes = c
      /\ QueueTail([head |-> target, bytes |-> c]) = target + Len(c)
      /\ IsWindow([head |-> target, bytes |-> c])
  BY <1>2, <1>5, RawQueueOf
<1>8. target + Len(c) = QueueTail(queue)
  BY <1>1, <1>2, <1>5
<1> QED BY <1>3, <1>6, <1>7, <1>8

(* with_range_bytes hands out the input's bytes of the range.              *)
LEMMA RangeBytesAreInput ==
  ASSUME NEW queue \in RawQueue, NEW start \in Nat, NEW size \in Nat,
         IsWindow(queue), RangeAccepts(queue, start, size)
  PROVE  /\ RangeBytes(queue, start, size) \in Seq(Nat)
         /\ Len(RangeBytes(queue, start, size)) = size
         /\ IsRun(start, RangeBytes(queue, start, size))
<1> DEFINE h == queue.head
           b == queue.bytes
           m == start - h + 1
           n == start - h + size
<1>1. h \in Nat /\ b \in Seq(Nat) /\ Len(b) \in Nat /\ QueueTail(queue) = h + Len(b)
  BY RawQueueType
<1>2. /\ m \in Nat \ {0} /\ n \in Nat /\ m <= n + 1 /\ n <= Len(b)
      /\ n - m + 1 = size /\ h + m - 1 = start
  <2>1. h <= start /\ start + size <= h + Len(b)
    BY <1>1 DEF RangeAccepts
  <2> HIDE DEF h, b
  <2> QED BY <1>1, <2>1
<1>3. RangeBytes(queue, start, size) = SubSeq(b, m, n)
  BY DEF RangeBytes
<1>4. IsRun(h, b)
  BY DEF IsWindow
<1> HIDE DEF h, b, m, n
<1>5. /\ SubSeq(b, m, n) \in Seq(Nat) /\ Len(SubSeq(b, m, n)) = n - m + 1
      /\ IsRun(h + m - 1, SubSeq(b, m, n))
  BY <1>1, <1>2, <1>4, SliceOfRun, SMTT(20)
<1> QED BY <1>2, <1>3, <1>5
-----------------------------------------------------------------------------

(* The fields the proofs use, for the solvers.                             *)
LEMMA ItemType ==
  ASSUME TypeOK, NEW k \in Places
  PROVE  /\ k \in Nat
         /\ range_items[k] \in Edit(Schemes, Keys)
         /\ StartOf(k) \in Nat /\ EndOf(k) \in Nat
         /\ range_items[k].sample_size \in Nat
         /\ range_items[k].absolute_offset = StartOf(k)
         /\ EndOf(k) = StartOf(k) + range_items[k].sample_size
         /\ range_items[k].sample \in Nat
         /\ range_items[k].scheme_type \in Schemes
         /\ range_items[k].content_key \in Keys
<1>1. range_items[k] \in Edit(Schemes, Keys)
  BY DEF TypeOK, Places
<1> QED BY <1>1 DEF Places, Edit, StartOf, EndOf, queue_range_start, queue_range_end

LEMMA PlanType ==
  ASSUME TypeOK
  PROVE  /\ mdat.offset \in Nat /\ mdat.header_size \in Nat /\ mdat.size \in Nat
         /\ mdat.readable \in Nat /\ mdat.edits \in Seq(Edit(Schemes, Keys))
         /\ payload_start \in Nat /\ payload_end \in Nat
BY DEF TypeOK, Plan, payload_start, payload_end

LEMMA StageType ==
  ASSUME TypeOK
  PROVE  /\ stage.kind \in StageKinds /\ stage.start \in Nat /\ stage.size \in Nat
         /\ stage.item \in 0..Len(range_items)
         /\ copy_end \in Nat
BY DEF TypeOK, Stage, copy_end
-----------------------------------------------------------------------------
(* A byte that no item covers is to be copied.                             *)
LEMMA GapIsCopied ==
  ASSUME TypeOK, PlanInv, NEW o \in Nat,
         \A k \in Places : ~(StartOf(k) <= o /\ o < EndOf(k))
  PROVE  Copied(o) \in Admissible(o)
<1>1. EditsAt(o) = {}
  <2> SUFFICES ASSUME NEW i \in EditsAt(o) PROVE FALSE
    OBVIOUS
  <2>1. /\ i \in DOMAIN mdat.edits
        /\ queue_range_start(mdat.edits[i]) <= o /\ o < queue_range_end(mdat.edits[i])
    BY DEF EditsAt
  <2>2. PICK k \in Places : range_items[k] = mdat.edits[i]
    BY <2>1 DEF PlanInv
  <2> QED BY <2>1, <2>2 DEF StartOf, EndOf
<1> QED BY <1>1 DEF Admissible

(* A byte of an item may be decrypted with the item's record and key.      *)
LEMMA SampleIsDecrypted ==
  ASSUME TypeOK, PlanInv, NEW o \in Nat, NEW k \in Places,
         StartOf(k) <= o, o < EndOf(k)
  PROVE  Decrypted(o, range_items[k].sample, range_items[k].content_key) \in Admissible(o)
<1>1. PICK i \in DOMAIN mdat.edits : range_items[k] = mdat.edits[i]
  BY DEF PlanInv
<1>2. i \in EditsAt(o)
  BY <1>1 DEF EditsAt, StartOf, EndOf
<1> QED BY <1>1, <1>2 DEF Admissible

(* The range in hand lies between items.                                   *)
LEMMA RangeIsGap ==
  ASSUME TypeOK, PlanInv, ParserInv, RangeInHand, NEW o \in Nat,
         stage.start <= o, o < copy_end, NEW k \in Places
  PROVE  ~(StartOf(k) <= o /\ o < EndOf(k))
<1>1. /\ k \in Nat /\ StartOf(k) \in Nat /\ EndOf(k) \in Nat
      /\ parser_cursor \in Nat /\ copy_end \in Nat
      /\ next_item_index \in 0..Len(range_items) /\ pending_item \in 0..Len(range_items)
      /\ Len(range_items) \in Nat
  BY ItemType, StageType DEF TypeOK
<1>2. stage.kind = "CopyRange" /\ stage.start = parser_cursor
  BY DEF RangeInHand
<1>3. k <= next_item_index /\ k # pending_item => EndOf(k) <= parser_cursor
  BY <1>2 DEF ParserInv
<1>4. CASE pending_item # 0
  <2>1. pending_item = next_item_index /\ copy_end = StartOf(pending_item)
    BY <1>4 DEF RangeInHand, ParserInv
  <2>2. pending_item \in Places
    BY <1>1, <1>4 DEF Places
  <2>3. pending_item < k => StartOf(pending_item) <= StartOf(k)
    BY <2>2 DEF PlanInv
  <2>4. StartOf(pending_item) \in Nat
    BY <2>2, ItemType
  <2>5. k < pending_item \/ k = pending_item \/ pending_item < k
    BY <1>1
  <2> QED BY <1>1, <1>2, <1>3, <2>1, <2>3, <2>4, <2>5
<1>5. CASE pending_item = 0
  <2>1. next_item_index = Len(range_items)
    BY <1>5 DEF RangeInHand, ParserInv
  <2>2. k <= next_item_index /\ k # pending_item
    BY <1>1, <1>5, <2>1 DEF Places
  <2> QED BY <1>1, <1>2, <1>3, <2>2
<1> QED BY <1>4, <1>5

(* The front of the staged queue is the sample in hand.                    *)
LEMMA FrontIsInHand ==
  ASSUME TypeOK, PlanInv, CacheInv, ItemInHand, pc = "sample", UsesCache(EditAtHand)
  PROVE  /\ EditAtHand.span \in DOMAIN auxiliary_info_cache
         /\ auxiliary_info_cache[EditAtHand.span] # << >>
         /\ Head(auxiliary_info_cache[EditAtHand.span]) = stage.item
<1> DEFINE span == EditAtHand.span
           queue == auxiliary_info_cache[span]
<1>1. stage.item \in Places /\ EditAtHand = range_items[stage.item]
  BY DEF ItemInHand, EditAtHand
<1>2. span # None /\ range_items[stage.item].span = span
  BY <1>1 DEF UsesCache
<1>3. span \in auxiliary_info_spans(work_queue)
  BY <1>1, <1>2 DEF PlanInv
<1>4. Staged
  BY DEF Staged, ItemInHand
<1>5. span \in DOMAIN auxiliary_info_cache /\ auxiliary_info_cache # None
  BY <1>3, <1>4 DEF CacheInv, UsesCache
<1>6. FirstUnserved = stage.item
  BY DEF FirstUnserved, ItemInHand
<1>7. /\ \A a, b \in DOMAIN queue : a < b => queue[a] < queue[b]
      /\ \A k \in Places :
           (\E a \in DOMAIN queue : queue[a] = k) <=>
             range_items[k].span = span /\ FirstUnserved <= k
  BY <1>4, <1>5 DEF CacheInv, UsesCache
<1>8. queue \in Seq(Places)
  BY <1>5 DEF TypeOK, Places
<1>9. stage.item \in Nat /\ Len(queue) \in Nat /\ DOMAIN queue = 1..Len(queue)
  BY <1>1, <1>8, LenProperties DEF Places
<1>10. PICK a \in DOMAIN queue : queue[a] = stage.item
  BY <1>1, <1>2, <1>6, <1>7, <1>9
<1>11. queue # << >> /\ 1 \in DOMAIN queue /\ Head(queue) = queue[1]
  BY <1>8, <1>9, <1>10
<1>12. queue[1] \in Places /\ queue[1] \in Nat
  BY <1>8, <1>9, <1>11, ElementOfSeq DEF Places
<1>13. stage.item <= queue[1]
  BY <1>6, <1>7, <1>11, <1>12
<1>14. a = 1
  <2> HIDE DEF queue
  <2>1. SUFFICES ASSUME 1 < a PROVE FALSE
    BY <1>9, <1>10
  <2>2. queue[1] < queue[a]
    BY <1>7, <1>10, <1>11, <2>1
  <2> QED BY <2>2, <1>9, <1>10, <1>12, <1>13
<1> QED BY <1>5, <1>10, <1>11, <1>14

LEMMA SampleResolves ==
  ASSUME TypeOK, PlanInv, CacheInv, ItemInHand, pc = "sample"
  PROVE  Resolves(EditAtHand) /\ resolved_sample(EditAtHand) = EditAtHand.sample
BY FrontIsInHand DEF Resolves, resolved_sample, StagedFront, EditAtHand

(* A reused cipher was built from the very key the sample needs.           *)
LEMMA CipherHasKey ==
  ASSUME ReuseInv, NEW edit
  PROVE  Cipher(edit) = edit.content_key
<1>1. CASE DecryptorReuseKey(edit) \in DOMAIN decryptor_reuse
  <2>1. PICK scheme \in Schemes :
          DecryptorReuseKey(edit) = << scheme, decryptor_reuse[DecryptorReuseKey(edit)] >>
    BY <1>1 DEF ReuseInv
  <2> QED BY <1>1, <2>1 DEF Cipher, DecryptorReuseKey
<1>2. CASE DecryptorReuseKey(edit) \notin DOMAIN decryptor_reuse
  BY <1>2 DEF Cipher
<1> QED BY <1>1, <1>2
-----------------------------------------------------------------------------
(* What is about to be written is what the plan admits there.              *)
LEMMA HeaderWrite ==
  ASSUME IInv, pc = "header"
  PROVE  /\ NextWrite \in Seq(Byte) /\ Len(NextWrite) = mdat.header_size
         /\ \A i \in 1..Len(NextWrite) : NextWrite[i] \in Admissible(WrittenTo + i - 1)
         /\ WrittenTo + Len(NextWrite) <= payload_end
<1> USE DEF IInv
<1>1. /\ mdat.offset \in Nat /\ mdat.header_size \in Nat /\ mdat.size \in Nat
      /\ mdat.header_size <= mdat.size
      /\ input_position = mdat.offset /\ WrittenTo = mdat.offset
      /\ payload_start = mdat.offset + mdat.header_size
      /\ payload_end = mdat.offset + mdat.size
  BY PlanType DEF WindowInv, PlanInv, WrittenTo, payload_start, payload_end
<1>2. NextWrite = [i \in 1..mdat.header_size |-> Copied(ReadBytes(mdat.header_size)[i])]
  BY DEF NextWrite
<1>3. ASSUME NEW i \in 1..mdat.header_size
      PROVE  NextWrite[i] = Copied(mdat.offset + i - 1)
  <2>1. ReadBytes(mdat.header_size)[i] = input_position + i - 1
    BY DEF ReadBytes
  <2>2. ReadBytes(mdat.header_size)[i] = mdat.offset + i - 1
    BY <2>1, <1>1
  <2> QED BY <1>2, <2>2
<1>4. \A o \in Nat : Copied(o) \in Byte
  BY DEF Copied, Byte
<1>5. \A i \in 1..mdat.header_size : NextWrite[i] \in Byte
  BY <1>1, <1>3, <1>4
<1>6. NextWrite \in Seq(Byte) /\ Len(NextWrite) = mdat.header_size
  <2> DEFINE w(i) == Copied(ReadBytes(mdat.header_size)[i])
  <2>1. NextWrite = [i \in 1..mdat.header_size |-> w(i)]
    BY <1>2
  <2> HIDE DEF w
  <2>2. NextWrite \in [1..mdat.header_size -> Byte]
    BY <2>1, <1>5
  <2> QED BY <2>2, <1>1
<1>7. ASSUME NEW i \in 1..mdat.header_size
      PROVE  NextWrite[i] \in Admissible(mdat.offset + i - 1)
  <2>1. mdat.offset + i - 1 \in Nat /\ mdat.offset + i - 1 < payload_start
    BY <1>1
  <2>2. \A k \in Places : ~(StartOf(k) <= mdat.offset + i - 1)
    BY <1>1, <2>1, ItemType DEF PlanInv
  <2> QED BY <1>3, <2>1, <2>2, GapIsCopied
<1> QED BY <1>1, <1>6, <1>7

LEMMA CopyWrite ==
  ASSUME IInv, BufferLen \in Nat \ {0}, pc = "copy", copy_cursor < copy_end, Filled
  PROVE  /\ RangeAccepts(raw_queue, copy_cursor, chunk_end - copy_cursor)
         /\ TrimAccepts(raw_queue, chunk_end)
         /\ QueueTail(raw_queue) = chunk_end /\ raw_queue.head = copy_cursor
         /\ chunk_end \in Nat /\ copy_cursor < chunk_end /\ chunk_end <= copy_end
         /\ NextWrite \in Seq(Byte) /\ Len(NextWrite) = chunk_end - copy_cursor
         /\ \A i \in 1..Len(NextWrite) : NextWrite[i] \in Admissible(WrittenTo + i - 1)
         /\ WrittenTo + Len(NextWrite) <= payload_end
<1> USE DEF IInv
<1> DEFINE size == chunk_end - copy_cursor
           bytes == RangeBytes(raw_queue, copy_cursor, size)
<1>1. /\ copy_cursor \in Nat /\ copy_end \in Nat /\ payload_end \in Nat
      /\ WrittenTo = copy_cursor /\ raw_queue \in RawQueue
  BY StageType, PlanType DEF TypeOK, WrittenTo
<1>2. /\ RangeInHand /\ stage.start <= copy_cursor
      /\ raw_queue.head = copy_cursor /\ IsWindow(raw_queue)
      /\ QueueTail(raw_queue) = target_end /\ target_end = chunk_end
  <2>1. target_end = chunk_end
    BY DEF target_end
  <2>2. QueueTail(raw_queue) \in Nat
    BY <1>1, RawQueueType
  <2>3. QueueTail(raw_queue) <= target_end /\ QueueTail(raw_queue) >= target_end
    BY DEF WindowInv, Filled
  <2>4. chunk_end \in Nat
    BY <1>1 DEF chunk_end, Lower
  <2> QED BY <2>1, <2>2, <2>3, <2>4 DEF AlignInv, WindowInv, WrittenTo
<1>3. chunk_end \in Nat /\ copy_cursor < chunk_end /\ chunk_end <= copy_end
  BY <1>1 DEF chunk_end, Lower
<1>4. size \in Nat /\ copy_cursor + size = chunk_end
  BY <1>1, <1>3
<1>5. RangeAccepts(raw_queue, copy_cursor, size) /\ TrimAccepts(raw_queue, chunk_end)
  BY <1>1, <1>2, <1>3, <1>4 DEF RangeAccepts, TrimAccepts
<1>6. bytes \in Seq(Nat) /\ Len(bytes) = size /\ IsRun(copy_cursor, bytes)
  BY <1>1, <1>2, <1>4, <1>5, RangeBytesAreInput
<1>7. NextWrite = [i \in DOMAIN bytes |-> Copied(bytes[i])]
  BY DEF NextWrite, CopiedWindow
<1> HIDE DEF size, bytes
<1>8. DOMAIN bytes = 1..size
  BY <1>6
<1>9. ASSUME NEW i \in 1..size PROVE bytes[i] = copy_cursor + i - 1 /\ bytes[i] \in Nat
  BY <1>1, <1>6, <1>8 DEF IsRun
<1>10. \A i \in 1..size : Copied(bytes[i]) \in Byte
  BY <1>9 DEF Copied, Byte
<1>11. NextWrite \in Seq(Byte) /\ Len(NextWrite) = size
  <2>1. NextWrite \in [1..size -> Byte]
    BY <1>7, <1>8, <1>10
  <2> QED BY <2>1, <1>4
<1>12. ASSUME NEW i \in 1..size PROVE NextWrite[i] \in Admissible(copy_cursor + i - 1)
  <2> DEFINE o == copy_cursor + i - 1
  <2>1. o \in Nat /\ stage.start <= o /\ o < copy_end
    BY <1>1, <1>2, <1>3, <1>4, StageType
  <2>2. NextWrite[i] = Copied(o)
    BY <1>7, <1>8, <1>9
  <2> HIDE DEF o
  <2>3. Copied(o) \in Admissible(o)
    BY <1>2, <2>1, RangeIsGap, GapIsCopied
  <2>4. o = copy_cursor + i - 1
    BY DEF o
  <2> QED BY <2>2, <2>3, <2>4
<1>13. copy_end <= payload_end
  <2>1. CASE pending_item # 0
    <3>1. pending_item \in Places
      BY <2>1 DEF TypeOK, Places
    <3>2. copy_end = StartOf(pending_item)
      BY <1>2, <2>1 DEF RangeInHand
    <3>3. EndOf(pending_item) <= payload_end
      BY <3>1 DEF PlanInv
    <3> QED BY <3>1, <3>2, <3>3, <1>1, ItemType
  <2>2. CASE pending_item = 0
    BY <1>1, <1>2, <2>2 DEF RangeInHand
  <2> QED BY <2>1, <2>2
<1> QED BY <1>1, <1>2, <1>3, <1>4, <1>5, <1>11, <1>12, <1>13 DEF size

LEMMA SampleWrite ==
  ASSUME IInv, pc = "sample", Filled
  PROVE  /\ RangeAccepts(raw_queue, EditAtHand.absolute_offset, EditAtHand.sample_size)
         /\ TrimAccepts(raw_queue, target_end)
         /\ QueueTail(raw_queue) = target_end /\ target_end \in Nat
         /\ raw_queue.head = cursor /\ target_end = cursor + EditAtHand.sample_size
         /\ target_end = parser_cursor /\ EditAtHand.sample_size \in Nat
         /\ NextWrite \in Seq(Byte) /\ Len(NextWrite) = EditAtHand.sample_size
         /\ \A i \in 1..Len(NextWrite) : NextWrite[i] \in Admissible(WrittenTo + i - 1)
         /\ WrittenTo + Len(NextWrite) <= payload_end
<1> USE DEF IInv
<1> DEFINE size == EditAtHand.sample_size
           start == EditAtHand.absolute_offset
           bytes == RangeBytes(raw_queue, start, size)
           k == stage.item
<1>1. ItemInHand /\ k \in Places /\ EditAtHand = range_items[k]
  BY DEF AlignInv, ItemInHand, EditAtHand
<1>2. /\ size \in Nat /\ start \in Nat /\ start = StartOf(k) /\ EndOf(k) = start + size
      /\ EndOf(k) <= payload_end /\ payload_end \in Nat
      /\ EditAtHand.sample \in Nat /\ EditAtHand.content_key \in Keys
  BY <1>1, ItemType, PlanType DEF PlanInv
<1>3. cursor = start /\ parser_cursor = start + size /\ WrittenTo = start
  <2>1. cursor = start /\ parser_cursor = start + size
    BY <1>1, <1>2 DEF ItemInHand
  <2>2. WrittenTo = cursor
    BY DEF WrittenTo
  <2> QED BY <2>1, <2>2
<1>4. target_end = start + size
  <2>1. target_end = queue_range_end(EditAtHand)
    BY DEF target_end
  <2> QED BY <2>1 DEF queue_range_end
<1>5. raw_queue \in RawQueue /\ raw_queue.head = WrittenTo /\ IsWindow(raw_queue)
  BY DEF TypeOK, WindowInv
<1>6. QueueTail(raw_queue) = target_end
  <2>1. QueueTail(raw_queue) \in Nat
    BY <1>5, RawQueueType
  <2>2. QueueTail(raw_queue) <= target_end /\ QueueTail(raw_queue) >= target_end
    BY DEF WindowInv, Filled
  <2> QED BY <1>2, <1>4, <2>1, <2>2
<1>7. EditAtHand.sample_size = size /\ EditAtHand.absolute_offset = start
  OBVIOUS
<1>8. NextWrite = [i \in DOMAIN bytes |->
          Decrypted(bytes[i], resolved_sample(EditAtHand), Cipher(EditAtHand))]
  BY DEF NextWrite, DecryptedSample
<1>9. resolved_sample(EditAtHand) = EditAtHand.sample
  BY <1>1, SampleResolves
<1>10. Cipher(EditAtHand) = EditAtHand.content_key
  BY CipherHasKey
<1> HIDE DEF size, start
<1>11. RangeAccepts(raw_queue, start, size) /\ TrimAccepts(raw_queue, target_end)
  BY <1>2, <1>3, <1>4, <1>5, <1>6 DEF RangeAccepts, TrimAccepts
<1>12. bytes \in Seq(Nat) /\ Len(bytes) = size /\ IsRun(start, bytes)
  BY <1>2, <1>5, <1>11, RangeBytesAreInput
<1> HIDE DEF bytes
<1>13. DOMAIN bytes = 1..size
  BY <1>12
<1>14. ASSUME NEW i \in 1..size PROVE bytes[i] = start + i - 1 /\ bytes[i] \in Nat
  BY <1>2, <1>12, <1>13, SMTT(20) DEF IsRun
<1>15. \A i \in 1..size : NextWrite[i] =
          Decrypted(start + i - 1, EditAtHand.sample, EditAtHand.content_key)
  BY <1>8, <1>9, <1>10, <1>13, <1>14
<1>16. \A o \in Nat : Decrypted(o, EditAtHand.sample, EditAtHand.content_key) \in Byte
  BY <1>2 DEF Decrypted, Byte
<1>17. NextWrite \in Seq(Byte) /\ Len(NextWrite) = size
  <2>1. \A i \in 1..size : NextWrite[i] \in Byte
    BY <1>2, <1>15, <1>16
  <2>2. NextWrite \in [1..size -> Byte]
    BY <1>8, <1>13, <2>1
  <2> QED BY <2>2, <1>2
<1>18. ASSUME NEW i \in 1..size PROVE NextWrite[i] \in Admissible(start + i - 1)
  <2>1. start + i - 1 \in Nat /\ StartOf(k) <= start + i - 1 /\ start + i - 1 < EndOf(k)
    BY <1>2
  <2> HIDE DEF k
  <2>2. Decrypted(start + i - 1, range_items[k].sample, range_items[k].content_key)
          \in Admissible(start + i - 1)
    BY <1>1, <2>1, SampleIsDecrypted
  <2> QED BY <1>1, <1>15, <2>2
<1> QED BY <1>2, <1>3, <1>4, <1>5, <1>6, <1>7, <1>11, <1>17, <1>18

(* Writing what the plan admits next, or a part of it, keeps the output    *)
(* a rewrite.                                                              *)
LEMMA WriteKeepsRewrite ==
  ASSUME TypeOK, OutputIsRewrite, NEW w \in Seq(Byte),
         mdat.offset + Len(output) = WrittenTo,
         \A i \in 1..Len(w) : w[i] \in Admissible(WrittenTo + i - 1),
         WrittenTo + Len(w) <= payload_end,
         output' = output \o w, mdat' = mdat
  PROVE  /\ output' \in Seq(Byte) /\ OutputIsRewrite'
         /\ Len(output') = Len(output) + Len(w)
<1> DEFINE n == Len(output)
           m == Len(w)
<1>1. /\ mdat.offset \in Nat /\ mdat.size \in Nat /\ n \in Nat /\ m \in Nat
      /\ payload_end = mdat.offset + mdat.size /\ output \in Seq(Byte)
  BY PlanType, SMTT(20) DEF payload_end, TypeOK
<1>2. output' \in Seq(Byte) /\ Len(output') = n + m
  BY <1>1, ConcatType
<1>3. /\ \A i \in 1..n : output'[i] = output[i]
      /\ \A i \in 1..m : output'[n + i] = w[i]
  BY <1>1
<1>4. \A i \in 1..n : output[i] \in Admissible(mdat.offset + i - 1)
  BY <1>1 DEF OutputIsRewrite
<1>5. \A i \in 1..m : w[i] \in Admissible(mdat.offset + (n + i) - 1)
  <2>1. \A i \in 1..m : WrittenTo + i - 1 = mdat.offset + (n + i) - 1
    BY <1>1
  <2> QED BY <2>1
<1> HIDE DEF n, m
<1>6. ASSUME NEW i \in 1..n + m PROVE output'[i] \in Admissible(mdat.offset + i - 1)
  <2>1. CASE i \in 1..n
    BY <2>1, <1>3, <1>4
  <2>2. CASE i \notin 1..n
    <3>1. PICK j \in 1..m : i = n + j
      <4>1. i - n \in 1..m /\ i = n + (i - n)
        BY <2>2, <1>1
      <4> QED BY <4>1
    <3> QED BY <3>1, <1>3, <1>5
  <2> QED BY <2>1, <2>2
<1>7. Len(output') <= mdat.size
  BY <1>1, <1>2 DEF n, m
<1>8. \A o : Admissible(o)' = Admissible(o)
  BY DEF Admissible, EditsAt
<1>9. DOMAIN output' = 1..n + m
  BY <1>2
<1>10. OutputIsRewrite'
  BY <1>6, <1>7, <1>8, <1>9 DEF OutputIsRewrite
<1> QED BY <1>2, <1>10 DEF n, m
-----------------------------------------------------------------------------
LEMMA PlanKept ==
  ASSUME PlanInv, UNCHANGED << range_items, range_end, mdat, work_queue >>
  PROVE  PlanInv'
BY DEF PlanInv, Places, StartOf, EndOf, payload_start, payload_end

LEMMA ParserKept ==
  ASSUME ParserInv, UNCHANGED parserVars, UNCHANGED mdat
  PROVE  ParserInv'
BY DEF ParserInv, parserVars, Places, StartOf, EndOf, payload_start, payload_end

(* The reasons for which the stream stops in spite of its own care.        *)
Causes == {"Overlap", "Rejected", "Eof", "Io"}

(* A step that stops has only its output to answer for.                    *)
LEMMA StopKeeps ==
  ASSUME IInv, NEW reason \in Causes, Fail(reason),
         UNCHANGED << parserVars, mdat, work_queue, cursor, copy_cursor >>,
         ReuseInv', input_position' \in Nat, raw_queue' \in RawQueue,
         output' \in Seq(Byte), OutputIsRewrite',
         \A k \in DOMAIN decryptor_reuse' : decryptor_reuse'[k] \in Keys,
         ~emitted_auxiliary_info => auxiliary_info_cache' = None,
         \/ auxiliary_info_cache' = None
         \/ /\ DOMAIN auxiliary_info_cache' \subseteq Span
            /\ \A span \in DOMAIN auxiliary_info_cache' :
                 auxiliary_info_cache'[span] \in Seq(1..Len(range_items))
  PROVE  IInv'
<1> USE DEF IInv
<1>1. pc' = "failed" /\ error' = reason
  BY DEF Fail
<1>2. TypeOK'
  BY <1>1 DEF TypeOK, parserVars, Causes, Outcomes
<1>3. PlanInv'
  BY PlanKept DEF parserVars
<1>4. ParserInv'
  BY ParserKept
<1>5. AlignInv'
  BY <1>1 DEF AlignInv
<1>6. WindowInv'
  BY <1>1 DEF WindowInv
<1>7. OutputInv'
  BY <1>1 DEF OutputInv
<1>8. CacheInv'
  BY <1>1 DEF CacheInv, Staged, parserVars
<1>9. ErrorInv'
  BY <1>1 DEF ErrorInv, PartsAgree, Causes
<1> QED BY <1>2, <1>3, <1>4, <1>5, <1>6, <1>7, <1>8, <1>9

(* The same, when the step leaves everything but the outcome alone.        *)
LEMMA BareStopKeeps ==
  ASSUME IInv, NEW reason \in Causes, Fail(reason),
         UNCHANGED << parserVars, mdat, work_queue, input_position, output, cursor,
                      copy_cursor, raw_queue, auxiliary_info_cache, decryptor_reuse >>
  PROVE  IInv'
<1> USE DEF IInv
<1>1. ReuseInv'
  BY DEF ReuseInv
<1>2. OutputIsRewrite'
  BY DEF OutputInv, OutputIsRewrite, Admissible, EditsAt
<1>3. /\ input_position' \in Nat /\ raw_queue' \in RawQueue /\ output' \in Seq(Byte)
      /\ \A k \in DOMAIN decryptor_reuse' : decryptor_reuse'[k] \in Keys
      /\ \/ auxiliary_info_cache' = None
         \/ /\ DOMAIN auxiliary_info_cache' \subseteq Span
            /\ \A span \in DOMAIN auxiliary_info_cache' :
                 auxiliary_info_cache'[span] \in Seq(1..Len(range_items))
  BY DEF TypeOK
<1>4. ~emitted_auxiliary_info => auxiliary_info_cache' = None
  BY DEF CacheInv
<1> QED BY <1>1, <1>2, <1>3, <1>4, StopKeeps

(* A step that leaves the output alone leaves it a rewrite.                *)
LEMMA OutputKept ==
  ASSUME OutputIsRewrite, UNCHANGED << mdat, output >>
  PROVE  OutputIsRewrite'
BY DEF OutputIsRewrite, Admissible, EditsAt

LEMMA ReadIsRun ==
  ASSUME input_position \in Nat, NEW n \in Nat
  PROVE  /\ ReadBytes(n) \in Seq(Nat) /\ Len(ReadBytes(n)) = n
         /\ IsRun(input_position, ReadBytes(n))
<1>1. ReadBytes(n) = [i \in 1..n |-> input_position + i - 1]
  BY DEF ReadBytes
<1>2. ReadBytes(n) \in [1..n -> Nat]
  BY <1>1
<1>3. ReadBytes(n) \in Seq(Nat) /\ Len(ReadBytes(n)) = n
  BY <1>2
<1>4. DOMAIN ReadBytes(n) = 1..n
  BY <1>2
<1> QED BY <1>1, <1>3, <1>4 DEF IsRun
-----------------------------------------------------------------------------
LEMMA CopyHeaderKeeps ==
  ASSUME IInv, CopyHeader
  PROVE  IInv'
<1> USE DEF IInv
<1>1. /\ pc = "header" /\ pc' = "next_stage" /\ error' = error
      /\ input_position' = input_position + mdat.header_size
      /\ output' = output \o NextWrite
      /\ UNCHANGED << mdat, work_queue, cursor, copy_cursor, raw_queue,
                      auxiliary_info_cache, decryptor_reuse >>
      /\ UNCHANGED parserVars
  BY DEF CopyHeader
<1>2. /\ mdat.offset \in Nat /\ mdat.header_size \in Nat
      /\ payload_start = mdat.offset + mdat.header_size /\ payload_start \in Nat
  BY PlanType DEF payload_start
<1>3. mdat.offset + Len(output) = WrittenTo /\ OutputIsRewrite /\ WrittenTo = mdat.offset
  BY <1>1 DEF OutputInv, WrittenTo
<1>4. /\ output' \in Seq(Byte) /\ OutputIsRewrite'
      /\ Len(output') = Len(output) + mdat.header_size
  BY <1>1, <1>3, HeaderWrite, WriteKeepsRewrite
<1>5. TypeOK'
  BY <1>1, <1>2, <1>4, SMTT(20) DEF TypeOK, parserVars
<1>6. PlanInv' /\ ParserInv'
  BY <1>1, PlanKept, ParserKept DEF parserVars
<1>7. /\ cursor = payload_start /\ parser_cursor = payload_start /\ ~emitted_tail
      /\ stage.kind = "None" /\ ~emitted_auxiliary_info /\ pending_item = 0
  BY <1>1 DEF AlignInv, ParserInv
<1>8. AlignInv'
  BY <1>1, <1>7 DEF AlignInv, parserVars
<1>9. raw_queue = RawQueueAt(payload_start) /\ input_position = mdat.offset
  BY <1>1 DEF WindowInv
<1>10. /\ raw_queue.head = payload_start /\ raw_queue.bytes = << >>
       /\ QueueTail(raw_queue) = payload_start /\ IsWindow(raw_queue)
  BY <1>2, <1>9 DEF RawQueueAt, QueueTail, IsWindow, IsRun
<1>11. WrittenTo' = payload_start /\ target_end' = payload_start
  BY <1>1, <1>7, <1>10 DEF WrittenTo, target_end, QueueTail
<1>12. WindowInv'
  BY <1>1, <1>2, <1>9, <1>10, <1>11 DEF WindowInv, QueueTail, IsWindow, IsRun
<1>13. OutputInv'
  <2>1. Len(output) \in Nat
    BY DEF TypeOK
  <2> QED BY <1>1, <1>2, <1>3, <1>4, <1>11, <2>1 DEF OutputInv
<1>14. CacheInv'
  BY <1>1, <1>7 DEF CacheInv, Staged, parserVars
<1>15. ReuseInv' /\ ErrorInv'
  BY <1>1 DEF ReuseInv, ErrorInv, PartsAgree
<1> QED BY <1>5, <1>6, <1>8, <1>12, <1>13, <1>14, <1>15
-----------------------------------------------------------------------------
(* What every answer of the parser leaves alone.                           *)
LEMMA AskKeepsRest ==
  ASSUME IInv, AskParser
  PROVE  /\ pc = "next_stage" /\ pc' = "dispatch" /\ error = "None" /\ error' = "None"
         /\ UNCHANGED << mdat, work_queue, range_items, range_end, cursor,
                         auxiliary_info_cache >>
         /\ PlanInv' /\ WindowInv' /\ OutputInv' /\ ReuseInv' /\ ErrorInv'
<1> USE DEF IInv
<1>1. /\ pc = "next_stage" /\ pc' = "dispatch"
      /\ UNCHANGED << mdat, work_queue, input_position, output, cursor, copy_cursor,
                      raw_queue, auxiliary_info_cache, decryptor_reuse, error >>
  BY DEF AskParser
<1>2. UNCHANGED << range_items, range_end >>
  BY DEF AskParser, next_stage, TakePendingItem, EmitAuxiliaryInfo, RejectOverlap,
         CopyGapBeforeItem, TakeItemAtCursor, EmitTail, Complete
<1>3. PlanInv'
  BY <1>1, <1>2, PlanKept
<1>4. WrittenTo = cursor /\ WrittenTo' = cursor
  BY <1>1 DEF WrittenTo
<1>5. target_end = QueueTail(raw_queue) /\ target_end' = QueueTail(raw_queue)
  BY <1>1 DEF target_end, QueueTail
<1>6. WindowInv'
  BY <1>1, <1>4, <1>5 DEF WindowInv, QueueTail, IsWindow, IsRun
<1>7. OutputInv'
  BY <1>1, <1>4, OutputKept DEF OutputInv
<1>8. ReuseInv' /\ ErrorInv' /\ error = "None"
  BY <1>1 DEF ReuseInv, ErrorInv, PartsAgree
<1> QED BY <1>1, <1>2, <1>3, <1>6, <1>7, <1>8

(* The type of the variables the parser does not touch.                    *)
LEMMA AskKeepsType ==
  ASSUME IInv, AskParser,
         next_item_index' \in 0..Len(range_items),
         pending_item' \in 0..Len(range_items), parser_cursor' \in Nat,
         emitted_auxiliary_info' \in BOOLEAN, emitted_tail' \in BOOLEAN,
         stage' \in Stage, stage'.item \in 0..Len(range_items)
  PROVE  TypeOK'
<1>1. TypeOK
  BY DEF IInv
<1>2. /\ pc' = "dispatch"
      /\ UNCHANGED << mdat, work_queue, input_position, output, cursor, copy_cursor,
                      raw_queue, auxiliary_info_cache, decryptor_reuse, error >>
  BY DEF AskParser
<1>3. UNCHANGED << range_items, range_end >>
  BY AskKeepsRest
<1> QED BY <1>1, <1>2, <1>3 DEF TypeOK

LEMMA StageOf ==
  /\ \A kind \in StageKinds :
       Returns(kind) => stage' \in Stage /\ stage'.kind = kind /\ stage'.item = 0
  /\ \A start, end \in Nat :
       ReturnsRange(start, end) /\ start <= end =>
         /\ stage' \in Stage /\ stage'.kind = "CopyRange" /\ stage'.item = 0
         /\ stage'.start = start /\ copy_end' = end
  /\ \A k \in Nat :
       ReturnsItem(k) => stage' \in Stage /\ stage'.kind = "WorkItem" /\ stage'.item = k
<1>1. ASSUME NEW kind \in StageKinds, Returns(kind)
      PROVE  stage' \in Stage /\ stage'.kind = kind /\ stage'.item = 0
  BY <1>1 DEF Returns, Stage
<1>2. ASSUME NEW start \in Nat, NEW end \in Nat, ReturnsRange(start, end), start <= end
      PROVE  /\ stage' \in Stage /\ stage'.kind = "CopyRange" /\ stage'.item = 0
             /\ stage'.start = start /\ copy_end' = end
  <2>1. stage' = [kind |-> "CopyRange", start |-> start, size |-> end - start, item |-> 0]
    BY <1>2 DEF ReturnsRange
  <2>2. end - start \in Nat /\ start + (end - start) = end
    BY <1>2
  <2> QED BY <2>1, <2>2 DEF Stage, StageKinds, copy_end
<1>3. ASSUME NEW k \in Nat, ReturnsItem(k)
      PROVE  stage' \in Stage /\ stage'.kind = "WorkItem" /\ stage'.item = k
  BY <1>3 DEF ReturnsItem, Stage, StageKinds
<1> QED BY <1>1, <1>2, <1>3

(* What the parser knows when it is asked.                                 *)
LEMMA AskedParser ==
  ASSUME IInv, pc = "next_stage"
  PROVE  /\ next_item_index \in 0..Len(range_items) /\ Len(range_items) \in Nat
         /\ pending_item \in 0..Len(range_items)
         /\ parser_cursor \in Nat /\ cursor \in Nat
         /\ payload_start \in Nat /\ payload_end \in Nat /\ range_end = payload_end
         /\ payload_start <= parser_cursor /\ parser_cursor <= payload_end
         /\ emitted_auxiliary_info \in BOOLEAN /\ emitted_tail \in BOOLEAN
         /\ \A k \in Places :
              /\ k \in Nat /\ StartOf(k) \in Nat /\ EndOf(k) \in Nat
              /\ StartOf(k) <= EndOf(k)
              /\ payload_start <= StartOf(k) /\ EndOf(k) <= payload_end
         /\ \A k \in Places :
              k <= next_item_index /\ k # pending_item => EndOf(k) <= parser_cursor
         /\ cursor = IF pending_item # 0 THEN StartOf(pending_item)
                     ELSE IF emitted_tail THEN payload_end ELSE parser_cursor
<1> USE DEF IInv
<1>1. stage.kind # "Overlap"
  BY DEF AlignInv
<1>2. \A k \in Places :
        /\ k \in Nat /\ StartOf(k) \in Nat /\ EndOf(k) \in Nat /\ StartOf(k) <= EndOf(k)
  BY ItemType
<1> QED BY <1>1, <1>2, PlanType DEF TypeOK, PlanInv, ParserInv, AlignInv

(* The cache serves the same items before and after the parser answers.    *)
LEMMA AskKeepsCache ==
  ASSUME IInv, AskParser, emitted_auxiliary_info, FirstUnserved' = FirstUnserved
  PROVE  CacheInv'
<1>1. CacheInv
  BY DEF IInv
<1>2. pc = "next_stage" /\ UNCHANGED << work_queue, range_items, auxiliary_info_cache >>
  BY AskKeepsRest
<1>3. Staged /\ emitted_auxiliary_info'
  BY <1>2 DEF Staged, AskParser, next_stage, TakePendingItem, EmitAuxiliaryInfo,
       RejectOverlap, CopyGapBeforeItem, TakeItemAtCursor, EmitTail, Complete
<1>4. Places' = Places
  BY <1>2 DEF Places
<1> QED BY <1>1, <1>2, <1>3, <1>4 DEF CacheInv

LEMMA TakePendingItemKeeps ==
  ASSUME IInv, AskParser, TakePendingItem
  PROVE  IInv'
<1>1. /\ pc = "next_stage" /\ pc' = "dispatch" /\ UNCHANGED << range_items, cursor, mdat >>
      /\ PlanInv' /\ WindowInv' /\ OutputInv' /\ ReuseInv' /\ ErrorInv'
  BY AskKeepsRest
<1>2. /\ pending_item # 0 /\ pending_item' = 0 /\ ReturnsItem(pending_item)
      /\ parser_cursor' = EndOf(pending_item)
      /\ UNCHANGED << next_item_index, range_end, emitted_auxiliary_info, emitted_tail >>
  BY DEF TakePendingItem, CursorAfter, EndOf
<1>3. ParserInv
  BY DEF IInv
<1>4. /\ pending_item = next_item_index /\ parser_cursor < StartOf(pending_item)
      /\ emitted_auxiliary_info /\ ~emitted_tail
  BY <1>1, <1>2, <1>3, AskedParser DEF ParserInv
<1>5. pending_item \in Places /\ pending_item \in Nat
  BY <1>1, <1>2, AskedParser DEF Places
<1>6. /\ stage' \in Stage /\ stage'.kind = "WorkItem" /\ stage'.item = pending_item
  BY <1>2, <1>5, StageOf
<1>7. TypeOK'
  BY <1>1, <1>2, <1>5, <1>6, AskedParser, AskKeepsType
<1>8. ParserInv'
  <2>1. payload_start' = payload_start /\ payload_end' = payload_end
    BY <1>1 DEF payload_start, payload_end
  <2>2. ASSUME NEW k \in Places, k <= next_item_index PROVE EndOf(k) <= EndOf(pending_item)
    <3>1. k # pending_item => EndOf(k) <= parser_cursor
      BY <1>1, <2>2, AskedParser
    <3> QED BY <1>1, <1>4, <1>5, <3>1, AskedParser
  <2>3. payload_start <= EndOf(pending_item) /\ EndOf(pending_item) <= payload_end
    BY <1>1, <1>5, AskedParser
  <2>4. Places' = Places /\ \A k \in Places : EndOf(k)' = EndOf(k)
    BY <1>1 DEF Places, EndOf
  <2> QED BY <1>1, <1>2, <1>4, <1>6, <2>1, <2>2, <2>3, <2>4 DEF ParserInv
<1>9. AlignInv'
  <2>1. cursor = StartOf(pending_item)
    BY <1>1, <1>2, AskedParser
  <2>2. ItemInHand'
    BY <1>1, <1>2, <1>4, <1>5, <1>6, <2>1 DEF ItemInHand, Places, StartOf, EndOf
  <2> QED BY <1>1, <2>2 DEF AlignInv
<1>10. CacheInv'
  <2>1. FirstUnserved = pending_item
    BY <1>2 DEF FirstUnserved
  <2>2. FirstUnserved' = pending_item
    BY <1>1, <1>2, <1>6 DEF FirstUnserved
  <2> QED BY <1>4, <2>1, <2>2, AskKeepsCache
<1> QED BY <1>1, <1>7, <1>8, <1>9, <1>10 DEF IInv

LEMMA EmitAuxiliaryInfoKeeps ==
  ASSUME IInv, AskParser, EmitAuxiliaryInfo
  PROVE  IInv'
<1>1. /\ pc = "next_stage" /\ pc' = "dispatch" /\ UNCHANGED << range_items, cursor, mdat >>
      /\ PlanInv' /\ WindowInv' /\ OutputInv' /\ ReuseInv' /\ ErrorInv'
  BY AskKeepsRest
<1>2. /\ pending_item = 0 /\ ~emitted_auxiliary_info /\ emitted_auxiliary_info' = TRUE
      /\ Returns("AuxiliaryInfo")
      /\ UNCHANGED << range_items, next_item_index, pending_item, parser_cursor,
                      range_end, emitted_tail >>
  BY DEF EmitAuxiliaryInfo
<1>3. stage' \in Stage /\ stage'.kind = "AuxiliaryInfo" /\ stage'.item = 0
  BY <1>2, StageOf DEF StageKinds
<1>4. next_item_index = 0 /\ ~emitted_tail
  BY <1>2 DEF IInv, ParserInv
<1>5. TypeOK'
  BY <1>1, <1>2, <1>3, AskedParser, AskKeepsType
<1>6. ParserInv'
  <2>1. ParserInv /\ stage.kind # "Overlap"
    BY <1>1 DEF IInv, AlignInv
  <2> QED BY <1>1, <1>2, <1>4, <2>1
          DEF ParserInv, Places, StartOf, EndOf, payload_start, payload_end
<1>7. AlignInv'
  <2>1. cursor = parser_cursor
    BY <1>1, <1>2, <1>4, AskedParser
  <2> QED BY <1>1, <1>2, <1>3, <1>4, <2>1 DEF AlignInv
<1>8. CacheInv'
  BY <1>1, <1>2, <1>3 DEF CacheInv, Staged
<1> QED BY <1>1, <1>5, <1>6, <1>7, <1>8 DEF IInv

LEMMA RejectOverlapKeeps ==
  ASSUME IInv, AskParser, RejectOverlap
  PROVE  IInv'
<1>1. /\ pc = "next_stage" /\ pc' = "dispatch" /\ UNCHANGED << range_items, cursor, mdat >>
      /\ PlanInv' /\ WindowInv' /\ OutputInv' /\ ReuseInv' /\ ErrorInv'
  BY AskKeepsRest
<1>2. /\ pending_item = 0 /\ emitted_auxiliary_info
      /\ next_item_index' = next_item_index + 1
      /\ next_item_index + 1 \in DOMAIN range_items
      /\ Returns("Overlap")
      /\ UNCHANGED << range_items, pending_item, parser_cursor, range_end,
                      emitted_auxiliary_info, emitted_tail >>
  BY DEF RejectOverlap, Quiet, HasNextItem, NextItem
<1>3. stage' \in Stage /\ stage'.kind = "Overlap" /\ stage'.item = 0
  BY <1>2, StageOf DEF StageKinds
<1>4. next_item_index + 1 \in 0..Len(range_items) /\ next_item_index # Len(range_items)
  <2>1. range_items \in Seq(Edit(Schemes, Keys))
    BY DEF IInv, TypeOK
  <2> QED BY <1>1, <1>2, <2>1, AskedParser
<1>5. TypeOK'
  BY <1>1, <1>2, <1>3, <1>4, AskedParser, AskKeepsType
<1>6. ParserInv'
  <2>1. ParserInv
    BY DEF IInv
  <2> QED BY <1>1, <1>2, <1>3, <1>4, <2>1 DEF ParserInv, payload_start, payload_end
<1>7. AlignInv' /\ CacheInv'
  BY <1>1, <1>2, <1>3 DEF AlignInv, CacheInv, Staged
<1> QED BY <1>1, <1>5, <1>6, <1>7 DEF IInv

(* What the parser finds out about the next item when it has no overlap.   *)
LEMMA NextItemFacts ==
  ASSUME IInv, pc = "next_stage", Quiet, HasNextItem
  PROVE  /\ NextItem \in Places /\ NextItem = next_item_index + 1
         /\ NextItem \in 0..Len(range_items) /\ NextItem # 0
         /\ NextStart = StartOf(NextItem) /\ pending_item = 0 /\ ~emitted_tail
         /\ emitted_auxiliary_info /\ cursor = parser_cursor
<1>1. range_items \in Seq(Edit(Schemes, Keys))
  BY DEF IInv, TypeOK
<1>2. NextItem \in 1..Len(range_items) /\ NextItem = next_item_index + 1
  BY <1>1 DEF HasNextItem, NextItem
<1>3. next_item_index # Len(range_items)
  BY <1>2, AskedParser
<1>4. pending_item = 0 /\ emitted_auxiliary_info /\ ~emitted_tail
  BY <1>3 DEF Quiet, IInv, ParserInv
<1>5. cursor = parser_cursor
  BY <1>4, AskedParser
<1> QED BY <1>2, <1>4, <1>5, AskedParser DEF Places, NextStart, StartOf

LEMMA CopyGapBeforeItemKeeps ==
  ASSUME IInv, AskParser, CopyGapBeforeItem
  PROVE  IInv'
<1>1. /\ pc = "next_stage" /\ pc' = "dispatch" /\ UNCHANGED << range_items, cursor, mdat >>
      /\ PlanInv' /\ WindowInv' /\ OutputInv' /\ ReuseInv' /\ ErrorInv'
  BY AskKeepsRest
<1>2. /\ Quiet /\ HasNextItem /\ NextStart > parser_cursor
      /\ next_item_index' = NextItem /\ pending_item' = NextItem
      /\ ReturnsRange(parser_cursor, NextStart)
      /\ UNCHANGED << range_items, parser_cursor, range_end, emitted_auxiliary_info,
                      emitted_tail >>
  BY DEF CopyGapBeforeItem
<1>3. /\ NextItem \in Places /\ NextItem = next_item_index + 1
      /\ NextItem \in 0..Len(range_items) /\ NextItem # 0
      /\ NextStart = StartOf(NextItem) /\ pending_item = 0 /\ ~emitted_tail
      /\ emitted_auxiliary_info /\ cursor = parser_cursor
  BY <1>1, <1>2, NextItemFacts
<1>4. StartOf(NextItem) \in Nat /\ parser_cursor \in Nat /\ parser_cursor < StartOf(NextItem)
  BY <1>1, <1>2, <1>3, AskedParser
<1>5. /\ stage' \in Stage /\ stage'.kind = "CopyRange" /\ stage'.item = 0
      /\ stage'.start = parser_cursor /\ copy_end' = StartOf(NextItem)
  BY <1>2, <1>3, <1>4, StageOf
<1>6. TypeOK'
  BY <1>1, <1>2, <1>3, <1>5, AskedParser, AskKeepsType
<1> HIDE DEF NextItem
<1>7. /\ payload_start' = payload_start /\ payload_end' = payload_end
      /\ Places' = Places /\ \A k : EndOf(k)' = EndOf(k) /\ StartOf(k)' = StartOf(k)
  BY <1>1 DEF payload_start, payload_end, Places, EndOf, StartOf
<1>8. StartOf(pending_item)' = StartOf(NextItem)
  BY <1>1, <1>2 DEF StartOf
<1>9. ParserInv'
  <2>1. ASSUME NEW k \in Places, k <= NextItem, k # NextItem
        PROVE  EndOf(k) <= parser_cursor
    <3>1. k <= next_item_index /\ k # pending_item
      BY <1>1, <1>3, <2>1, AskedParser DEF Places
    <3> QED BY <1>1, <3>1, AskedParser
  <2> QED BY <1>1, <1>2, <1>3, <1>4, <1>5, <1>7, <1>8, <2>1, AskedParser DEF ParserInv
<1>10. AlignInv'
  <2>1. RangeInHand'
    BY <1>1, <1>2, <1>3, <1>5, <1>8 DEF RangeInHand
  <2> QED BY <1>1, <2>1 DEF AlignInv
<1>11. CacheInv'
  <2>1. FirstUnserved = NextItem
    BY <1>1, <1>3 DEF FirstUnserved
  <2>2. FirstUnserved' = NextItem
    BY <1>2, <1>3 DEF FirstUnserved
  <2> QED BY <1>3, <2>1, <2>2, AskKeepsCache
<1> QED BY <1>1, <1>6, <1>9, <1>10, <1>11 DEF IInv

LEMMA TakeItemAtCursorKeeps ==
  ASSUME IInv, AskParser, TakeItemAtCursor
  PROVE  IInv'
<1>1. /\ pc = "next_stage" /\ pc' = "dispatch" /\ UNCHANGED << range_items, cursor, mdat >>
      /\ PlanInv' /\ WindowInv' /\ OutputInv' /\ ReuseInv' /\ ErrorInv'
  BY AskKeepsRest
<1>2. /\ Quiet /\ HasNextItem /\ NextStart = parser_cursor
      /\ next_item_index' = NextItem /\ parser_cursor' = EndOf(NextItem)
      /\ ReturnsItem(NextItem)
      /\ UNCHANGED << range_items, pending_item, range_end, emitted_auxiliary_info,
                      emitted_tail >>
  BY DEF TakeItemAtCursor, CursorAfter, EndOf
<1>3. /\ NextItem \in Places /\ NextItem = next_item_index + 1
      /\ NextItem \in 0..Len(range_items) /\ NextItem # 0
      /\ NextStart = StartOf(NextItem) /\ pending_item = 0 /\ ~emitted_tail
      /\ emitted_auxiliary_info /\ cursor = parser_cursor
  BY <1>1, <1>2, NextItemFacts
<1>4. /\ StartOf(NextItem) \in Nat /\ EndOf(NextItem) \in Nat /\ NextItem \in Nat
      /\ parser_cursor = StartOf(NextItem) /\ StartOf(NextItem) <= EndOf(NextItem)
      /\ payload_start <= StartOf(NextItem) /\ EndOf(NextItem) <= payload_end
  BY <1>1, <1>2, <1>3, AskedParser
<1>5. stage' \in Stage /\ stage'.kind = "WorkItem" /\ stage'.item = NextItem
  BY <1>2, <1>4, StageOf
<1>6. TypeOK'
  BY <1>1, <1>2, <1>3, <1>4, <1>5, AskedParser, AskKeepsType
<1> HIDE DEF NextItem
<1>7. /\ payload_start' = payload_start /\ payload_end' = payload_end
      /\ Places' = Places /\ \A k : EndOf(k)' = EndOf(k) /\ StartOf(k)' = StartOf(k)
  BY <1>1 DEF payload_start, payload_end, Places, EndOf, StartOf
<1>8. ParserInv'
  <2>1. ASSUME NEW k \in Places, k <= NextItem PROVE EndOf(k) <= EndOf(NextItem)
    <3>1. CASE k = NextItem
      BY <3>1, <1>4
    <3>2. CASE k # NextItem
      <4>1. k <= next_item_index /\ k # pending_item /\ EndOf(k) \in Nat
        BY <1>1, <1>3, <2>1, <3>2, AskedParser DEF Places
      <4>2. EndOf(k) <= parser_cursor
        BY <1>1, <4>1, AskedParser
      <4> QED BY <1>4, <4>1, <4>2
    <3> QED BY <3>1, <3>2
  <2>2. payload_start <= EndOf(NextItem)
    BY <1>1, <1>4, AskedParser
  <2> QED BY <1>1, <1>2, <1>3, <1>4, <1>5, <1>7, <2>1, <2>2 DEF ParserInv
<1>9. AlignInv'
  <2>1. ItemInHand'
    BY <1>1, <1>2, <1>3, <1>4, <1>5 DEF ItemInHand, Places, StartOf, EndOf
  <2> QED BY <1>1, <2>1 DEF AlignInv
<1>10. CacheInv'
  <2>1. FirstUnserved = NextItem
    BY <1>1, <1>3 DEF FirstUnserved
  <2>2. FirstUnserved' = NextItem
    BY <1>1, <1>2, <1>3, <1>5 DEF FirstUnserved
  <2> QED BY <1>3, <2>1, <2>2, AskKeepsCache
<1> QED BY <1>1, <1>6, <1>8, <1>9, <1>10 DEF IInv

(* After the last item.                                                    *)
LEMMA NoNextItemFacts ==
  ASSUME IInv, pc = "next_stage", Quiet, ~HasNextItem
  PROVE  /\ next_item_index = Len(range_items) /\ pending_item = 0
         /\ emitted_auxiliary_info
         /\ cursor = IF emitted_tail THEN payload_end ELSE parser_cursor
<1>1. range_items \in Seq(Edit(Schemes, Keys))
  BY DEF IInv, TypeOK
<1>2. next_item_index = Len(range_items)
  BY <1>1, AskedParser DEF HasNextItem, NextItem
<1>3. pending_item = 0 /\ emitted_auxiliary_info
  BY DEF Quiet
<1> QED BY <1>2, <1>3, AskedParser

LEMMA EmitTailKeeps ==
  ASSUME IInv, AskParser, EmitTail
  PROVE  IInv'
<1>1. /\ pc = "next_stage" /\ pc' = "dispatch" /\ UNCHANGED << range_items, cursor, mdat >>
      /\ PlanInv' /\ WindowInv' /\ OutputInv' /\ ReuseInv' /\ ErrorInv'
  BY AskKeepsRest
<1>2. /\ Quiet /\ ~HasNextItem /\ ~emitted_tail /\ parser_cursor < range_end
      /\ emitted_tail' = TRUE /\ ReturnsRange(parser_cursor, range_end)
      /\ UNCHANGED << range_items, next_item_index, pending_item, parser_cursor,
                      range_end, emitted_auxiliary_info >>
  BY DEF EmitTail
<1>3. /\ next_item_index = Len(range_items) /\ pending_item = 0
      /\ emitted_auxiliary_info /\ cursor = parser_cursor
  BY <1>1, <1>2, NoNextItemFacts
<1>4. /\ stage' \in Stage /\ stage'.kind = "CopyRange" /\ stage'.item = 0
      /\ stage'.start = parser_cursor /\ copy_end' = payload_end
  <2>1. parser_cursor \in Nat /\ range_end \in Nat /\ range_end = payload_end
    BY <1>1, AskedParser
  <2> QED BY <1>2, <2>1, StageOf
<1>5. TypeOK'
  BY <1>1, <1>2, <1>4, AskedParser, AskKeepsType
<1>6. ParserInv'
  <2>1. ParserInv /\ stage.kind # "Overlap"
    BY <1>1 DEF IInv, AlignInv
  <2> QED BY <1>1, <1>2, <1>3, <1>4, <2>1
          DEF ParserInv, Places, StartOf, EndOf, payload_start, payload_end
<1>7. AlignInv'
  <2>1. payload_end' = payload_end
    BY <1>1 DEF payload_end
  <2>2. RangeInHand'
    BY <1>1, <1>2, <1>3, <1>4, <2>1 DEF RangeInHand
  <2> QED BY <1>1, <2>2 DEF AlignInv
<1>8. CacheInv'
  <2>1. FirstUnserved = next_item_index + 1
    BY <1>1, <1>3 DEF FirstUnserved
  <2>2. FirstUnserved' = next_item_index + 1
    BY <1>2, <1>3, <1>4 DEF FirstUnserved
  <2> QED BY <1>3, <2>1, <2>2, AskKeepsCache
<1> QED BY <1>1, <1>5, <1>6, <1>7, <1>8 DEF IInv

LEMMA CompleteKeeps ==
  ASSUME IInv, AskParser, Complete
  PROVE  IInv'
<1>1. /\ pc = "next_stage" /\ pc' = "dispatch" /\ UNCHANGED << range_items, cursor, mdat >>
      /\ PlanInv' /\ WindowInv' /\ OutputInv' /\ ReuseInv' /\ ErrorInv'
  BY AskKeepsRest
<1>2. /\ Quiet /\ ~HasNextItem /\ (emitted_tail \/ parser_cursor >= range_end)
      /\ Returns("Complete")
      /\ UNCHANGED << range_items, next_item_index, pending_item, parser_cursor,
                      range_end, emitted_auxiliary_info, emitted_tail >>
  BY DEF Complete
<1>3. /\ next_item_index = Len(range_items) /\ pending_item = 0
      /\ emitted_auxiliary_info
      /\ cursor = IF emitted_tail THEN payload_end ELSE parser_cursor
  BY <1>1, <1>2, NoNextItemFacts
<1>4. cursor = payload_end
  BY <1>1, <1>2, <1>3, AskedParser
<1>5. stage' \in Stage /\ stage'.kind = "Complete" /\ stage'.item = 0
  BY <1>2, StageOf DEF StageKinds
<1>6. TypeOK'
  BY <1>1, <1>2, <1>5, AskedParser, AskKeepsType
<1>7. ParserInv'
  <2>1. ParserInv /\ stage.kind # "Overlap"
    BY <1>1 DEF IInv, AlignInv
  <2> QED BY <1>1, <1>2, <1>3, <1>5, <2>1
          DEF ParserInv, Places, StartOf, EndOf, payload_start, payload_end
<1>8. AlignInv'
  BY <1>1, <1>2, <1>3, <1>4, <1>5 DEF AlignInv, payload_end
<1>9. CacheInv'
  <2>1. FirstUnserved = next_item_index + 1
    BY <1>1, <1>3 DEF FirstUnserved
  <2>2. FirstUnserved' = next_item_index + 1
    BY <1>2, <1>3, <1>5 DEF FirstUnserved
  <2> QED BY <1>3, <2>1, <2>2, AskKeepsCache
<1> QED BY <1>1, <1>6, <1>7, <1>8, <1>9 DEF IInv

LEMMA AskParserKeeps ==
  ASSUME IInv, AskParser
  PROVE  IInv'
BY TakePendingItemKeeps, EmitAuxiliaryInfoKeeps, RejectOverlapKeeps,
   CopyGapBeforeItemKeeps, TakeItemAtCursorKeeps, EmitTailKeeps, CompleteKeeps
   DEF AskParser, next_stage
-----------------------------------------------------------------------------
LEMMA StopAtOverlapKeeps ==
  ASSUME IInv, StopAtOverlap
  PROVE  IInv'
BY BareStopKeeps DEF StopAtOverlap, Causes

LEMMA InputEndsKeeps ==
  ASSUME IInv, InputEnds
  PROVE  IInv'
BY BareStopKeeps DEF InputEnds, Causes

LEMMA InputFailsKeeps ==
  ASSUME IInv, InputFails
  PROVE  IInv'
BY BareStopKeeps DEF InputFails, Causes

(* Every staged queue lists, in range order, the items of its span.        *)
LEMMA StagedQueue ==
  ASSUME IInv, NEW staged \in StagedCaches, NEW span \in DOMAIN staged
  PROVE  /\ DOMAIN staged = auxiliary_info_spans(work_queue)
         /\ span \in Span
         /\ staged[span] \in Seq(1..Len(range_items)) /\ staged[span] # << >>
         /\ \A a, b \in DOMAIN staged[span] : a < b => staged[span][a] < staged[span][b]
         /\ \A k \in Places :
              (\E a \in DOMAIN staged[span] : staged[span][a] = k) <=>
                range_items[k].span = span
<1> DEFINE S == ItemsOf(span)
           n == Cardinality(S)
           queue == staged[span]
<1>1. DOMAIN staged = auxiliary_info_spans(work_queue) /\ queue \in Ascending(S)
  BY DEF StagedCaches
<1>2. DOMAIN range_items = 1..Len(range_items) /\ Len(range_items) \in Nat
  BY LenProperties DEF IInv, TypeOK
<1>3. IsFiniteSet(S)
  <2>1. S \subseteq 1..Len(range_items)
    BY <1>2 DEF ItemsOf
  <2>2. IsFiniteSet(1..Len(range_items))
    BY <1>2, FS_Interval
  <2> HIDE DEF S
  <2> QED BY <2>1, <2>2, FS_Subset
<1>4. n \in Nat
  BY <1>3, FS_CardinalityType
<1>5. /\ queue \in [1..n -> S]
      /\ \A a, b \in 1..n : a < b => queue[a] < queue[b]
      /\ \A k \in S : \E a \in 1..n : queue[a] = k
  BY <1>1 DEF Ascending
<1>6. \A k \in Places : k \in S <=> range_items[k].span = span
  BY <1>2 DEF ItemsOf, Places
<1>7. S \subseteq 1..Len(range_items)
  BY <1>2 DEF ItemsOf
<1>8. PICK k \in Places : range_items[k].span = span
  BY <1>1 DEF IInv, PlanInv
<1>9. span \in Span
  <2>1. range_items[k].span \in Span \cup {None}
    BY <1>8, ItemType DEF IInv, Edit
  <2>2. span # None
    BY <1>1 DEF IInv, PlanInv
  <2> QED BY <1>8, <2>1, <2>2
<1> HIDE DEF S, n
<1>10. queue \in Seq(1..Len(range_items))
  <2>1. queue \in [1..n -> 1..Len(range_items)]
    BY <1>5, <1>7
  <2> QED BY <1>4, <2>1
<1>11. DOMAIN queue = 1..n
  BY <1>5
<1>12. queue # << >>
  <2>1. \E a \in 1..n : queue[a] = k
    BY <1>5, <1>6, <1>8
  <2>2. n # 0
    BY <1>4, <2>1
  <2>3. Len(queue) = n
    BY <1>4, <1>10, <1>11
  <2> QED BY <2>2, <2>3
<1>13. \A j \in Places :
         (\E a \in DOMAIN queue : queue[a] = j) <=> range_items[j].span = span
  BY <1>5, <1>6, <1>11
<1> QED BY <1>1, <1>5, <1>9, <1>10, <1>11, <1>12, <1>13

LEMMA StageAuxiliaryInfoKeeps ==
  ASSUME IInv, StageAuxiliaryInfo
  PROVE  IInv'
<1> USE DEF IInv
<1>1. /\ pc = "dispatch" /\ stage.kind = "AuxiliaryInfo"
      /\ UNCHANGED parserVars
      /\ UNCHANGED << mdat, work_queue, input_position, output, cursor, copy_cursor,
                      raw_queue, decryptor_reuse >>
  BY DEF StageAuxiliaryInfo
<1>2. PICK staged \in StagedCaches :
        IF \E span \in DOMAIN staged : staged[span] = << >>
          THEN Fail("AuxiliaryInfo") /\ UNCHANGED auxiliary_info_cache
          ELSE /\ auxiliary_info_cache' = staged
               /\ pc' = "next_stage"
               /\ UNCHANGED error
  BY DEF StageAuxiliaryInfo
<1>3. auxiliary_info_cache' = staged /\ pc' = "next_stage" /\ error' = error
  BY <1>2, StagedQueue
<1>4. /\ emitted_auxiliary_info /\ ~emitted_tail /\ pending_item = 0
      /\ next_item_index = 0 /\ cursor = parser_cursor /\ stage.kind # "Overlap"
  BY <1>1 DEF AlignInv, ParserInv, RangeInHand, ItemInHand
<1>5. TypeOK'
  <2>1. DOMAIN staged \subseteq Span
    BY StagedQueue
  <2>2. \A span \in DOMAIN staged : staged[span] \in Seq(1..Len(range_items))
    BY StagedQueue
  <2> QED BY <1>1, <1>3, <2>1, <2>2 DEF TypeOK, parserVars
<1>6. PlanInv' /\ ParserInv' /\ OutputIsRewrite'
  BY <1>1, PlanKept, ParserKept, OutputKept DEF parserVars, OutputInv
<1>7. AlignInv'
  BY <1>1, <1>3, <1>4 DEF AlignInv, parserVars
<1>8. /\ WrittenTo = cursor /\ WrittenTo' = cursor
      /\ target_end = QueueTail(raw_queue) /\ target_end' = QueueTail(raw_queue)
  BY <1>1, <1>3 DEF WrittenTo, target_end, QueueTail
<1>9. WindowInv'
  BY <1>1, <1>3, <1>8 DEF WindowInv, QueueTail, IsWindow, IsRun
<1>10. OutputInv'
  BY <1>1, <1>3, <1>6, <1>8 DEF OutputInv
<1>11. CacheInv'
  <2>1. FirstUnserved' = 1 /\ emitted_auxiliary_info'
    BY <1>1, <1>3, <1>4 DEF FirstUnserved, parserVars
  <2>2. Places' = Places /\ range_items' = range_items /\ work_queue' = work_queue
    BY <1>1 DEF Places, parserVars
  <2>3. DOMAIN staged = auxiliary_info_spans(work_queue)
    BY DEF StagedCaches
  <2>4. ASSUME NEW span \in DOMAIN staged
        PROVE  /\ \A a, b \in DOMAIN staged[span] :
                    a < b => staged[span][a] < staged[span][b]
               /\ \A k \in Places :
                    (\E a \in DOMAIN staged[span] : staged[span][a] = k) <=>
                      range_items[k].span = span /\ 1 <= k
    <3>1. \A k \in Places : 1 <= k
      BY DEF Places
    <3> QED BY <3>1, StagedQueue
  <2> QED BY <1>3, <2>1, <2>2, <2>3, <2>4 DEF CacheInv
<1>12. ReuseInv' /\ ErrorInv'
  BY <1>1, <1>3 DEF ReuseInv, ErrorInv, PartsAgree
<1> QED BY <1>5, <1>6, <1>7, <1>9, <1>10, <1>11, <1>12

(* Steps that move no item and write nothing: the frame they share.        *)
LEMMA QuietStep ==
  ASSUME IInv, pc' \in {"next_stage", "copy", "sample", "done"},
         UNCHANGED << parserVars, mdat, work_queue, output, auxiliary_info_cache,
                      decryptor_reuse >>,
         error' = "None", pc \in {"dispatch", "copy", "sample"},
         input_position' \in Nat, cursor' \in Nat, copy_cursor' \in Nat,
         raw_queue' \in RawQueue,
         emitted_auxiliary_info /\ FirstUnserved' = FirstUnserved,
         pc = "dispatch" => stage.kind \notin {"AuxiliaryInfo", "Overlap"}
  PROVE  /\ TypeOK' /\ PlanInv' /\ ParserInv' /\ OutputIsRewrite' /\ CacheInv'
         /\ ReuseInv' /\ ErrorInv'
<1> USE DEF IInv
<1>1. TypeOK'
  BY DEF TypeOK, parserVars, Outcomes
<1>2. PlanInv' /\ ParserInv' /\ OutputIsRewrite'
  BY PlanKept, ParserKept, OutputKept DEF parserVars, OutputInv
<1>3. Staged
  BY DEF Staged
<1>4. CacheInv'
  BY <1>3 DEF CacheInv, parserVars, Places
<1>5. ReuseInv' /\ ErrorInv'
  BY DEF ReuseInv, ErrorInv, PartsAgree
<1> QED BY <1>1, <1>2, <1>4, <1>5

LEMMA BeginCopyKeeps ==
  ASSUME IInv, BeginCopy, BufferLen \in Nat \ {0}
  PROVE  IInv'
<1> USE DEF IInv
<1>1. /\ pc = "dispatch" /\ stage.kind = "CopyRange" /\ error = "None"
      /\ UNCHANGED parserVars
      /\ UNCHANGED << mdat, work_queue, input_position, output, cursor, raw_queue,
                      auxiliary_info_cache, decryptor_reuse >>
  BY DEF BeginCopy, ErrorInv
<1>2. RangeInHand
  BY <1>1 DEF AlignInv, ItemInHand
<1>3. copy_cursor' = stage.start /\ pc' = "copy" /\ error' = "None"
  BY <1>1, <1>2 DEF BeginCopy, RangeInHand
<1>4. /\ stage.start \in Nat /\ stage.start = cursor /\ copy_end \in Nat
      /\ stage.start <= copy_end /\ copy_end' = copy_end
      /\ raw_queue \in RawQueue
      /\ emitted_auxiliary_info
  BY <1>1, <1>2, StageType DEF RangeInHand, copy_end, TypeOK, parserVars
<1>5. FirstUnserved' = FirstUnserved
  BY <1>1, <1>3 DEF FirstUnserved, parserVars
<1>6. /\ TypeOK' /\ PlanInv' /\ ParserInv' /\ OutputIsRewrite' /\ CacheInv'
      /\ ReuseInv' /\ ErrorInv'
  <2>1. input_position' \in Nat /\ cursor' \in Nat
    BY <1>1 DEF TypeOK
  <2> QED BY <1>1, <1>3, <1>4, <1>5, <2>1, QuietStep
<1>7. AlignInv'
  <2>1. RangeInHand'
    BY <1>1, <1>2, <1>4 DEF RangeInHand, parserVars, StartOf, payload_end
  <2> QED BY <1>1, <1>3, <1>4, <2>1 DEF AlignInv, parserVars
<1>8. WrittenTo = cursor /\ WrittenTo' = cursor
  BY <1>1, <1>3, <1>4 DEF WrittenTo
<1>9. WindowInv'
  <2>1. raw_queue.head = cursor /\ QueueTail(raw_queue) = cursor /\ raw_queue.bytes = << >>
    BY <1>1, <1>4, <1>8 DEF WindowInv, QueueTail
  <2>2. target_end' = chunk_end'
    BY <1>3 DEF target_end
  <2>3. cursor <= chunk_end'
    BY <1>3, <1>4 DEF chunk_end, Lower
  <2> QED BY <1>1, <1>3, <1>8, <2>1, <2>2, <2>3 DEF WindowInv, QueueTail, IsWindow, IsRun
<1>10. OutputInv'
  BY <1>1, <1>3, <1>6, <1>8 DEF OutputInv
<1> QED BY <1>6, <1>7, <1>9, <1>10

LEMMA BeginSampleKeeps ==
  ASSUME IInv, BeginSample
  PROVE  IInv'
<1> USE DEF IInv
<1>1. /\ pc = "dispatch" /\ stage.kind = "WorkItem" /\ error = "None"
      /\ UNCHANGED parserVars
      /\ UNCHANGED << mdat, work_queue, input_position, output, cursor, copy_cursor,
                      raw_queue, auxiliary_info_cache, decryptor_reuse >>
  BY DEF BeginSample, ErrorInv
<1>2. ItemInHand
  BY <1>1 DEF AlignInv, RangeInHand
<1>3. /\ EditAtHand = range_items[stage.item] /\ EditAtHand.absolute_offset = cursor
      /\ queue_range_end(EditAtHand) = parser_cursor
      /\ cursor \in Nat /\ parser_cursor \in Nat /\ cursor <= parser_cursor
      /\ stage.item \in Places
  BY <1>2, ItemType DEF ItemInHand, EditAtHand, TypeOK, StartOf, EndOf, queue_range_start
<1>4. pc' = "sample" /\ error' = "None"
  BY <1>1, <1>3 DEF BeginSample
<1>5. FirstUnserved' = FirstUnserved /\ emitted_auxiliary_info
  BY <1>1, <1>2, <1>4 DEF FirstUnserved, parserVars, ItemInHand
<1>6. /\ TypeOK' /\ PlanInv' /\ ParserInv' /\ OutputIsRewrite' /\ CacheInv'
      /\ ReuseInv' /\ ErrorInv'
  <2>1. input_position' \in Nat /\ cursor' \in Nat /\ copy_cursor' \in Nat /\ raw_queue' \in RawQueue
    BY <1>1 DEF TypeOK
  <2> QED BY <1>1, <1>4, <1>5, <2>1, QuietStep
<1>7. AlignInv'
  <2>1. ItemInHand'
    BY <1>1, <1>2 DEF ItemInHand, parserVars, Places, StartOf, EndOf
  <2> QED BY <1>1, <1>4, <2>1 DEF AlignInv
<1>8. WrittenTo = cursor /\ WrittenTo' = cursor
  BY <1>1, <1>4 DEF WrittenTo
<1>9. WindowInv'
  <2>1. raw_queue.head = cursor /\ QueueTail(raw_queue) = cursor /\ raw_queue.bytes = << >>
    BY <1>1, <1>3, <1>8 DEF WindowInv, QueueTail
  <2>2. target_end' = parser_cursor
    BY <1>1, <1>3, <1>4 DEF target_end, EditAtHand, parserVars
  <2> QED BY <1>1, <1>3, <1>4, <1>8, <2>1, <2>2 DEF WindowInv, QueueTail, IsWindow, IsRun
<1>10. OutputInv'
  BY <1>1, <1>4, <1>6, <1>8 DEF OutputInv
<1> QED BY <1>6, <1>7, <1>9, <1>10

LEMMA FillQueueKeeps ==
  ASSUME IInv, FillQueue, BufferLen \in Nat \ {0}
  PROVE  IInv'
<1> USE DEF IInv
<1> DEFINE n == NextRead
<1>1. /\ pc \in {"copy", "sample"} /\ pc' = pc /\ error' = error
      /\ UNCHANGED parserVars
      /\ UNCHANGED << mdat, work_queue, output, cursor, copy_cursor,
                      auxiliary_info_cache, decryptor_reuse >>
      /\ raw_queue' = PushBytes(raw_queue, ReadBytes(n))
      /\ input_position' = input_position + n /\ n > 0
  BY DEF FillQueue
<1>2. /\ raw_queue \in RawQueue /\ IsWindow(raw_queue) /\ input_position \in Nat
      /\ input_position = QueueTail(raw_queue)
  BY <1>1 DEF TypeOK, WindowInv
<1>3. target_end \in Nat
  <2>1. CASE pc = "copy"
    <3>1. target_end = chunk_end /\ copy_cursor \in Nat
      BY <2>1 DEF target_end, TypeOK
    <3> QED BY <3>1, StageType DEF chunk_end, Lower
  <2>2. CASE pc = "sample"
    <3>1. target_end = queue_range_end(EditAtHand) /\ stage.item \in Places
      BY <2>2 DEF target_end, AlignInv, ItemInHand
    <3> QED BY <3>1, ItemType DEF EditAtHand, EndOf
  <2> QED BY <1>1, <2>1, <2>2
<1>4. ~Filled /\ n = Lower(BufferLen, target_end - QueueTail(raw_queue))
  BY <1>1 DEF NextRead
<1>5. n \in Nat /\ QueueTail(raw_queue) + n <= target_end
  BY <1>2, <1>3, <1>4 DEF Filled, Lower
<1> HIDE DEF n
<1>6. /\ ReadBytes(n) \in Seq(Nat) /\ Len(ReadBytes(n)) = n
      /\ IsRun(input_position, ReadBytes(n))
  BY <1>2, <1>5, ReadIsRun
<1>7. /\ raw_queue' \in RawQueue /\ raw_queue'.head = raw_queue.head
      /\ QueueTail(raw_queue') = QueueTail(raw_queue) + n /\ IsWindow(raw_queue')
  BY <1>1, <1>2, <1>6, PushBytesExtends
<1>8. FirstUnserved' = FirstUnserved /\ emitted_auxiliary_info
  BY <1>1 DEF FirstUnserved, parserVars, AlignInv, RangeInHand, ItemInHand
<1>9. /\ TypeOK' /\ PlanInv' /\ ParserInv' /\ OutputIsRewrite' /\ CacheInv'
      /\ ReuseInv' /\ ErrorInv'
  <2>1. input_position' \in Nat /\ cursor' \in Nat /\ copy_cursor' \in Nat /\ error' = "None"
    BY <1>1, <1>2, <1>5 DEF TypeOK, ErrorInv
  <2> QED BY <1>1, <1>7, <1>8, <2>1, QuietStep
<1>10. AlignInv'
  BY <1>1 DEF AlignInv, RangeInHand, ItemInHand, parserVars, copy_end, Places, StartOf,
     EndOf, payload_end
<1>11. WrittenTo' = WrittenTo
  BY <1>1 DEF WrittenTo
<1>12. target_end' = target_end
  <2>1. CASE pc = "copy"
    BY <1>1, <2>1 DEF target_end, chunk_end, copy_end, parserVars
  <2>2. CASE pc = "sample"
    BY <1>1, <2>2 DEF target_end, EditAtHand, parserVars
  <2> QED BY <1>1, <2>1, <2>2
<1>13. WindowInv'
  <2>1. raw_queue.head = WrittenTo
    BY <1>1 DEF WindowInv
  <2>2. QueueTail(raw_queue)' = QueueTail(raw_queue') /\ (IsWindow(raw_queue))' <=> IsWindow(raw_queue')
    BY DEF QueueTail, IsWindow
  <2> QED BY <1>1, <1>2, <1>5, <1>7, <1>11, <1>12, <2>1, <2>2 DEF WindowInv
<1>14. OutputInv'
  BY <1>1, <1>9, <1>11 DEF OutputInv
<1> QED BY <1>9, <1>10, <1>13, <1>14

LEMMA CopyChunkKeeps ==
  ASSUME IInv, CopyChunk, BufferLen \in Nat \ {0}
  PROVE  IInv'
<1> USE DEF IInv
<1>1. /\ pc = "copy" /\ copy_cursor < copy_end /\ Filled
      /\ UNCHANGED parserVars
      /\ UNCHANGED << mdat, work_queue, input_position, cursor, auxiliary_info_cache,
                      decryptor_reuse >>
  BY DEF CopyChunk
<1>2. /\ RangeAccepts(raw_queue, copy_cursor, chunk_end - copy_cursor)
      /\ TrimAccepts(raw_queue, chunk_end)
      /\ QueueTail(raw_queue) = chunk_end /\ raw_queue.head = copy_cursor
      /\ chunk_end \in Nat /\ copy_cursor < chunk_end /\ chunk_end <= copy_end
      /\ NextWrite \in Seq(Byte) /\ Len(NextWrite) = chunk_end - copy_cursor
      /\ \A i \in 1..Len(NextWrite) : NextWrite[i] \in Admissible(WrittenTo + i - 1)
      /\ WrittenTo + Len(NextWrite) <= payload_end
  BY <1>1, CopyWrite
<1>3. /\ output' = output \o NextWrite /\ raw_queue' = TrimTo(raw_queue, chunk_end)
      /\ copy_cursor' = chunk_end /\ pc' = "copy" /\ error' = "None"
  BY <1>1, <1>2 DEF CopyChunk, ErrorInv
<1>4. /\ raw_queue \in RawQueue /\ IsWindow(raw_queue) /\ copy_cursor \in Nat
      /\ Len(output) \in Nat /\ input_position = QueueTail(raw_queue)
      /\ WrittenTo = copy_cursor /\ mdat.offset + Len(output) = WrittenTo
      /\ mdat.offset \in Nat /\ OutputIsRewrite /\ copy_end \in Nat
  <2>1. WrittenTo = copy_cursor
    BY <1>1 DEF WrittenTo
  <2>2. IsWindow(raw_queue) /\ input_position = QueueTail(raw_queue)
    BY <1>1 DEF WindowInv
  <2>3. OutputIsRewrite /\ mdat.offset + Len(output) = WrittenTo
    BY <1>1 DEF OutputInv
  <2>4. raw_queue \in RawQueue /\ copy_cursor \in Nat /\ Len(output) \in Nat
    BY DEF TypeOK
  <2> QED BY <2>1, <2>2, <2>3, <2>4, PlanType, StageType
<1>5. /\ raw_queue' \in RawQueue /\ raw_queue'.head = chunk_end
      /\ QueueTail(raw_queue') = chunk_end /\ IsWindow(raw_queue')
  BY <1>2, <1>3, <1>4, TrimToDrops
<1>6. /\ output' \in Seq(Byte) /\ OutputIsRewrite'
      /\ Len(output') = Len(output) + (chunk_end - copy_cursor)
  BY <1>1, <1>2, <1>3, <1>4, WriteKeepsRewrite
<1>7. TypeOK'
  BY <1>1, <1>2, <1>3, <1>5, <1>6 DEF TypeOK, parserVars, Outcomes
<1>8. PlanInv' /\ ParserInv'
  BY <1>1, PlanKept, ParserKept DEF parserVars
<1>9. AlignInv'
  <2>1. RangeInHand /\ stage.start <= copy_cursor /\ stage.start \in Nat
    BY <1>1, StageType DEF AlignInv
  <2>2. RangeInHand' /\ copy_end' = copy_end /\ stage' = stage
    BY <1>1, <2>1 DEF RangeInHand, parserVars, copy_end, StartOf, payload_end
  <2>3. stage.start <= chunk_end
    BY <2>1, <1>2, <1>4
  <2> QED BY <1>2, <1>3, <2>2, <2>3 DEF AlignInv
<1>10. WrittenTo' = chunk_end
  BY <1>3 DEF WrittenTo
<1>11. WindowInv'
  <2>1. QueueTail(raw_queue)' = QueueTail(raw_queue') /\ (IsWindow(raw_queue))' <=> IsWindow(raw_queue')
    BY DEF QueueTail, IsWindow
  <2>2. target_end' = chunk_end' /\ copy_end' = copy_end
    BY <1>1, <1>3 DEF target_end, copy_end, parserVars
  <2>3. chunk_end <= chunk_end'
    BY <1>2, <1>3, <1>4, <2>2 DEF chunk_end, Lower
  <2> QED BY <1>1, <1>2, <1>3, <1>4, <1>5, <1>10, <2>1, <2>2, <2>3 DEF WindowInv
<1>12. OutputInv'
  BY <1>1, <1>2, <1>4, <1>6, <1>10 DEF OutputInv
<1>13. CacheInv'
  <2>1. FirstUnserved' = FirstUnserved
    BY <1>1, <1>3 DEF FirstUnserved, parserVars
  <2> QED BY <1>1, <1>3, <2>1 DEF CacheInv, Staged, parserVars, Places
<1>14. ReuseInv' /\ ErrorInv'
  BY <1>1, <1>3 DEF ReuseInv, ErrorInv, PartsAgree
<1> QED BY <1>6, <1>7, <1>8, <1>9, <1>11, <1>12, <1>13, <1>14

LEMMA EndCopyKeeps ==
  ASSUME IInv, EndCopy, BufferLen \in Nat \ {0}
  PROVE  IInv'
<1> USE DEF IInv
<1>1. /\ pc = "copy" /\ copy_cursor >= copy_end /\ cursor' = copy_end
      /\ pc' = "next_stage" /\ error' = "None"
      /\ UNCHANGED parserVars
      /\ UNCHANGED << mdat, work_queue, input_position, output, copy_cursor, raw_queue,
                      auxiliary_info_cache, decryptor_reuse >>
  BY DEF EndCopy, ErrorInv
<1>2. RangeInHand /\ copy_cursor <= copy_end /\ copy_cursor \in Nat /\ copy_end \in Nat
  BY <1>1, StageType DEF AlignInv, TypeOK
<1>3. copy_cursor = copy_end
  BY <1>1, <1>2
<1>4. FirstUnserved' = FirstUnserved /\ emitted_auxiliary_info
  BY <1>1, <1>2 DEF FirstUnserved, parserVars, RangeInHand
<1>5. /\ TypeOK' /\ PlanInv' /\ ParserInv' /\ OutputIsRewrite' /\ CacheInv'
      /\ ReuseInv' /\ ErrorInv'
  <2>1. input_position' \in Nat /\ cursor' \in Nat /\ copy_cursor' \in Nat /\ raw_queue' \in RawQueue
    BY <1>1, <1>2 DEF TypeOK
  <2> QED BY <1>1, <1>4, <2>1, QuietStep
<1>6. AlignInv'
  <2>1. stage.kind = "CopyRange"
    BY <1>2 DEF RangeInHand
  <2>2. copy_end = IF pending_item # 0 THEN StartOf(pending_item)
                   ELSE IF emitted_tail THEN payload_end ELSE parser_cursor
    BY <1>2 DEF RangeInHand
  <2> QED BY <1>1, <2>1, <2>2 DEF AlignInv, parserVars, StartOf, payload_end
<1>7. WrittenTo = copy_cursor /\ WrittenTo' = copy_end
  BY <1>1 DEF WrittenTo
<1>8. WindowInv'
  <2>1. /\ raw_queue.head = copy_end /\ QueueTail(raw_queue) <= target_end
        /\ input_position = QueueTail(raw_queue) /\ IsWindow(raw_queue)
    BY <1>1, <1>3, <1>7 DEF WindowInv
  <2>2. target_end = copy_end
    <3>1. target_end = chunk_end
      BY <1>1 DEF target_end
    <3> QED BY <1>2, <1>3, <3>1 DEF chunk_end, Lower
  <2>3. raw_queue.bytes = << >> /\ QueueTail(raw_queue) = copy_end
    <3>1. raw_queue \in RawQueue
      BY DEF TypeOK
    <3>2. Len(raw_queue.bytes) = 0 /\ QueueTail(raw_queue) = copy_end
      BY <1>2, <2>1, <2>2, <3>1, RawQueueType
    <3> QED BY <3>1, <3>2, RawQueueType
  <2>4. target_end' = QueueTail(raw_queue)
    BY <1>1 DEF target_end, QueueTail
  <2> QED BY <1>1, <1>2, <1>7, <2>1, <2>3, <2>4 DEF WindowInv, QueueTail, IsWindow, IsRun
<1>9. OutputInv'
  BY <1>1, <1>3, <1>5, <1>7 DEF OutputInv
<1> QED BY <1>5, <1>6, <1>8, <1>9

(* The record of the sample in hand leaves the cache, and no other does.   *)
LEMMA CacheServes ==
  ASSUME TypeOK, PlanInv, CacheInv, ItemInHand, pc = "sample"
  PROVE  /\ \/ CacheAfter(EditAtHand) = None
            \/ /\ DOMAIN CacheAfter(EditAtHand) \subseteq Span
               /\ \A span \in DOMAIN CacheAfter(EditAtHand) :
                    CacheAfter(EditAtHand)[span] \in Seq(1..Len(range_items))
         /\ auxiliary_info_cache # None =>
              /\ DOMAIN CacheAfter(EditAtHand) = auxiliary_info_spans(work_queue)
              /\ \A span \in DOMAIN CacheAfter(EditAtHand) :
                   LET queue == CacheAfter(EditAtHand)[span] IN
                   /\ \A a, b \in DOMAIN queue : a < b => queue[a] < queue[b]
                   /\ \A k \in Places :
                        (\E a \in DOMAIN queue : queue[a] = k) <=>
                          range_items[k].span = span /\ stage.item + 1 <= k
<1> DEFINE cache == auxiliary_info_cache
           mine == EditAtHand.span
<1>1. CASE cache = None
  BY <1>1 DEF CacheAfter, UsesCache
<1>2. CASE cache # None
  <2>1. /\ stage.item \in Places /\ EditAtHand = range_items[stage.item] /\ stage.item \in Nat
        /\ FirstUnserved = stage.item
    BY ItemType DEF ItemInHand, EditAtHand, FirstUnserved
  <2>2. Staged
    BY DEF Staged, ItemInHand
  <2>3. /\ DOMAIN cache = auxiliary_info_spans(work_queue) /\ DOMAIN cache \subseteq Span
        /\ \A span \in DOMAIN cache : cache[span] \in Seq(Places)
    BY <1>2, <2>2 DEF CacheInv, TypeOK, Places
  <2>4. ASSUME NEW span \in DOMAIN cache
        PROVE  /\ \A a, b \in DOMAIN cache[span] : a < b => cache[span][a] < cache[span][b]
               /\ \A k \in Places : (\E a \in DOMAIN cache[span] : cache[span][a] = k) <=>
                                      range_items[k].span = span /\ stage.item <= k
    BY <1>2, <2>1, <2>2 DEF CacheInv
  <2>5. CASE ~UsesCache(EditAtHand)
    <3>1. CacheAfter(EditAtHand) = cache /\ mine = None
      BY <1>2, <2>5 DEF CacheAfter, UsesCache
    <3>2. ASSUME NEW span \in DOMAIN cache, NEW k \in Places
          PROVE  range_items[k].span = span /\ stage.item <= k <=>
                   range_items[k].span = span /\ stage.item + 1 <= k
      <4>1. range_items[stage.item].span # span
        BY <2>1, <2>3, <3>1 DEF PlanInv
      <4>2. k \in Nat
        BY ItemType
      <4> QED BY <2>1, <4>1, <4>2
    <3> QED BY <2>3, <2>4, <3>1, <3>2 DEF Places
  <2>6. CASE UsesCache(EditAtHand)
    <3>1. mine \in DOMAIN cache /\ cache[mine] # << >> /\ Head(cache[mine]) = stage.item
      BY <2>6, FrontIsInHand
    <3>2. CacheAfter(EditAtHand) = [cache EXCEPT ![mine] = Tail(cache[mine])]
      BY <2>6 DEF CacheAfter
    <3> DEFINE queue == cache[mine]
               rest == Tail(queue)
    <3>3. queue \in Seq(Places)
      BY <2>3, <3>1
    <3>4. /\ rest \in Seq(Places) /\ Len(queue) \in Nat \ {0} /\ Len(rest) = Len(queue) - 1
          /\ DOMAIN queue = 1..Len(queue) /\ DOMAIN rest = 1..Len(queue) - 1
          /\ \A a \in DOMAIN rest : rest[a] = queue[a + 1]
          /\ queue[1] = stage.item
      BY <3>1, <3>3
    <3>5. /\ \A a, b \in DOMAIN queue : a < b => queue[a] < queue[b]
          /\ \A k \in Places : (\E a \in DOMAIN queue : queue[a] = k) <=>
                                 range_items[k].span = mine /\ stage.item <= k
      BY <2>4, <3>1
    <3> HIDE DEF queue, rest
    <3>6. ASSUME NEW a \in DOMAIN rest, NEW b \in DOMAIN rest, a < b
          PROVE  rest[a] < rest[b]
      <4>1. a + 1 \in DOMAIN queue /\ b + 1 \in DOMAIN queue /\ a + 1 < b + 1
        BY <3>4, <3>6
      <4>2. rest[a] = queue[a + 1] /\ rest[b] = queue[b + 1]
        BY <3>4
      <4> QED BY <3>5, <4>1, <4>2
    <3>7. ASSUME NEW k \in Places
          PROVE  (\E a \in DOMAIN rest : rest[a] = k) <=>
                   range_items[k].span = mine /\ stage.item + 1 <= k
      <4>1. k \in Nat
        BY ItemType
      <4>2. ASSUME NEW a \in DOMAIN rest, rest[a] = k
            PROVE  range_items[k].span = mine /\ stage.item + 1 <= k
        <5>1. a + 1 \in DOMAIN queue /\ 1 \in DOMAIN queue /\ 1 < a + 1 /\ queue[a + 1] = k
          BY <3>4, <4>2
        <5>2. queue[1] < queue[a + 1]
          BY <3>5, <5>1
        <5> QED BY <2>1, <3>4, <3>5, <4>1, <5>1, <5>2
      <4>3. ASSUME range_items[k].span = mine, stage.item + 1 <= k
            PROVE  \E a \in DOMAIN rest : rest[a] = k
        <5>1. PICK b \in DOMAIN queue : queue[b] = k
          BY <2>1, <3>5, <4>1, <4>3
        <5>2. b # 1
          BY <2>1, <3>4, <4>1, <4>3, <5>1
        <5>3. b - 1 \in DOMAIN rest /\ rest[b - 1] = queue[(b - 1) + 1] /\ (b - 1) + 1 = b
          BY <3>4, <5>2
        <5> QED BY <5>1, <5>3
      <4> QED BY <4>2, <4>3
    <3>8. ASSUME NEW span \in DOMAIN cache, span # mine, NEW k \in Places
          PROVE  range_items[k].span = span /\ stage.item <= k <=>
                   range_items[k].span = span /\ stage.item + 1 <= k
      <4>1. range_items[stage.item].span # span
        BY <2>1, <3>8
      <4>2. k \in Nat
        BY ItemType
      <4> QED BY <2>1, <4>1, <4>2
    <3>9. /\ DOMAIN CacheAfter(EditAtHand) = DOMAIN cache
          /\ CacheAfter(EditAtHand)[mine] = rest
          /\ \A span \in DOMAIN cache : span # mine => CacheAfter(EditAtHand)[span] = cache[span]
      BY <3>1, <3>2 DEF rest, queue
    <3> HIDE DEF cache, mine
    <3>10. ASSUME NEW span \in DOMAIN cache
           PROVE  LET after == CacheAfter(EditAtHand)[span] IN
                  /\ after \in Seq(Places)
                  /\ \A a, b \in DOMAIN after : a < b => after[a] < after[b]
                  /\ \A k \in Places :
                       (\E a \in DOMAIN after : after[a] = k) <=>
                         range_items[k].span = span /\ stage.item + 1 <= k
      <4>1. CASE span = mine
        BY <3>4, <3>6, <3>7, <3>9, <4>1
      <4>2. CASE span # mine
        BY <2>3, <2>4, <3>8, <3>9, <4>2
      <4> QED BY <4>1, <4>2
    <3> QED BY <2>3, <3>9, <3>10 DEF Places
  <2> QED BY <2>5, <2>6
<1> QED BY <1>1, <1>2

(* What the step of a sample, or its failure, leaves of the window.        *)
LEMMA SampleTrim ==
  ASSUME IInv, pc = "sample", Filled
  PROVE  /\ TrimTo(raw_queue, target_end) \in RawQueue
         /\ TrimTo(raw_queue, target_end).head = target_end
         /\ TrimTo(raw_queue, target_end).bytes = << >>
         /\ QueueTail(TrimTo(raw_queue, target_end)) = target_end
         /\ IsWindow(TrimTo(raw_queue, target_end))
<1>1. raw_queue \in RawQueue /\ IsWindow(raw_queue)
  BY DEF IInv, TypeOK, WindowInv
<1>2. /\ QueueTail(raw_queue) = target_end /\ target_end \in Nat
      /\ raw_queue.head = cursor /\ target_end = cursor + EditAtHand.sample_size
      /\ EditAtHand.sample_size \in Nat
  BY SampleWrite
<1>3. cursor \in Nat
  BY DEF IInv, TypeOK
<1> QED BY <1>1, <1>2, <1>3, TrimToDrops

LEMMA ReuseKeeps ==
  ASSUME TypeOK, ReuseInv, ItemInHand
  PROVE  /\ \A k \in DOMAIN ReuseAfter(EditAtHand) : ReuseAfter(EditAtHand)[k] \in Keys
         /\ \A k \in DOMAIN ReuseAfter(EditAtHand) :
              \E scheme \in Schemes : k = << scheme, ReuseAfter(EditAtHand)[k] >>
<1>1. EditAtHand.scheme_type \in Schemes /\ EditAtHand.content_key \in Keys
  BY ItemType DEF ItemInHand, EditAtHand
<1>2. /\ \A k \in DOMAIN decryptor_reuse : decryptor_reuse[k] \in Keys
      /\ \A k \in DOMAIN decryptor_reuse :
           \E scheme \in Schemes : k = << scheme, decryptor_reuse[k] >>
  BY DEF TypeOK, ReuseInv
<1> QED BY <1>1, <1>2 DEF ReuseAfter, DecryptorReuseKey

LEMMA DecryptSampleKeeps ==
  ASSUME IInv, DecryptSample
  PROVE  IInv'
<1> USE DEF IInv
<1>1. /\ pc = "sample" /\ Filled
      /\ UNCHANGED parserVars
      /\ UNCHANGED << mdat, work_queue, input_position, copy_cursor >>
  BY DEF DecryptSample
<1>2. ItemInHand /\ Resolves(EditAtHand)
  BY <1>1, SampleResolves DEF AlignInv
<1>3. /\ RangeAccepts(raw_queue, EditAtHand.absolute_offset, EditAtHand.sample_size)
      /\ TrimAccepts(raw_queue, target_end)
      /\ QueueTail(raw_queue) = target_end /\ target_end \in Nat
      /\ target_end = cursor + EditAtHand.sample_size /\ target_end = parser_cursor
      /\ EditAtHand.sample_size \in Nat
      /\ NextWrite \in Seq(Byte) /\ Len(NextWrite) = EditAtHand.sample_size
      /\ \A i \in 1..Len(NextWrite) : NextWrite[i] \in Admissible(WrittenTo + i - 1)
      /\ WrittenTo + Len(NextWrite) <= payload_end
  BY <1>1, SampleWrite
<1>4. /\ raw_queue' = TrimTo(raw_queue, target_end)
      /\ auxiliary_info_cache' = CacheAfter(EditAtHand)
      /\ decryptor_reuse' = ReuseAfter(EditAtHand)
      /\ output' = output \o NextWrite
      /\ cursor' = target_end /\ pc' = "next_stage" /\ error' = "None"
  BY <1>1, <1>2, <1>3 DEF DecryptSample, ErrorInv
<1>5. /\ mdat.offset + Len(output) = WrittenTo /\ WrittenTo = cursor /\ OutputIsRewrite
      /\ Len(output) \in Nat /\ cursor \in Nat /\ mdat.offset \in Nat
  <2>1. WrittenTo = cursor
    BY <1>1 DEF WrittenTo
  <2> QED BY <1>1, <2>1, PlanType DEF OutputInv, TypeOK
<1>6. /\ output' \in Seq(Byte) /\ OutputIsRewrite'
      /\ Len(output') = Len(output) + EditAtHand.sample_size
  BY <1>1, <1>3, <1>4, <1>5, WriteKeepsRewrite
<1>7. /\ raw_queue' \in RawQueue /\ raw_queue'.head = target_end
      /\ raw_queue'.bytes = << >> /\ QueueTail(raw_queue') = target_end
      /\ IsWindow(raw_queue')
  BY <1>1, <1>4, SampleTrim
<1>8. /\ stage.kind = "WorkItem" /\ stage.item = next_item_index /\ pending_item = 0
      /\ ~emitted_tail /\ emitted_auxiliary_info
  BY <1>2 DEF ItemInHand
<1>9. TypeOK'
  <2>1. \A k \in DOMAIN decryptor_reuse' : decryptor_reuse'[k] \in Keys
    BY <1>2, <1>4, ReuseKeeps
  <2>2. \/ auxiliary_info_cache' = None
        \/ /\ DOMAIN auxiliary_info_cache' \subseteq Span
           /\ \A span \in DOMAIN auxiliary_info_cache' :
                auxiliary_info_cache'[span] \in Seq(1..Len(range_items))
    BY <1>1, <1>2, <1>4, CacheServes
  <2> HIDE DEF IInv
  <2>3. TypeOK
    BY DEF IInv
  <2> QED BY <1>1, <1>3, <1>4, <1>6, <1>7, <2>1, <2>2, <2>3 DEF TypeOK, parserVars, Outcomes
<1>10. PlanInv' /\ ParserInv'
  BY <1>1, PlanKept, ParserKept DEF parserVars
<1>11. AlignInv'
  BY <1>1, <1>3, <1>4, <1>8 DEF AlignInv, parserVars
<1>12. WrittenTo' = target_end /\ target_end' = QueueTail(raw_queue')
  BY <1>4 DEF WrittenTo, target_end, QueueTail
<1>13. WindowInv'
  <2>1. QueueTail(raw_queue)' = QueueTail(raw_queue') /\ (IsWindow(raw_queue))' <=> IsWindow(raw_queue')
    BY DEF QueueTail, IsWindow
  <2>2. input_position' = target_end
    BY <1>1, <1>3 DEF WindowInv
  <2> QED BY <1>3, <1>4, <1>7, <1>12, <2>1, <2>2 DEF WindowInv
<1>14. OutputInv'
  BY <1>1, <1>3, <1>5, <1>6, <1>12 DEF OutputInv
<1>15. CacheInv'
  <2>1. FirstUnserved' = stage.item + 1 /\ emitted_auxiliary_info'
    BY <1>1, <1>4, <1>8 DEF FirstUnserved, parserVars
  <2>2. auxiliary_info_cache = None => auxiliary_info_cache' = None
    BY <1>4 DEF CacheAfter, UsesCache
  <2>3. Places' = Places /\ range_items' = range_items /\ work_queue' = work_queue
    BY <1>1 DEF parserVars, Places
  <2> QED BY <1>1, <1>2, <1>4, <2>1, <2>2, <2>3, CacheServes DEF CacheInv
<1>16. ReuseInv'
  BY <1>2, <1>4, ReuseKeeps DEF ReuseInv
<1>17. ErrorInv'
  BY <1>4 DEF ErrorInv, PartsAgree
<1> QED BY <1>6, <1>9, <1>10, <1>11, <1>13, <1>14, <1>15, <1>16, <1>17

LEMMA RejectSampleKeeps ==
  ASSUME IInv, RejectSample
  PROVE  IInv'
<1>1. /\ pc = "sample" /\ Filled /\ Fail("Rejected")
      /\ raw_queue' = TrimTo(raw_queue, target_end)
      /\ auxiliary_info_cache' = CacheAfter(EditAtHand)
      /\ UNCHANGED parserVars
      /\ UNCHANGED << mdat, work_queue, input_position, output, cursor, copy_cursor,
                      decryptor_reuse >>
  BY DEF RejectSample
<1>2. TypeOK /\ PlanInv /\ CacheInv /\ ReuseInv /\ ItemInHand /\ OutputIsRewrite
  BY <1>1 DEF IInv, AlignInv, OutputInv
<1>3. raw_queue' \in RawQueue
  BY <1>1, SampleTrim
<1>4. \/ auxiliary_info_cache' = None
      \/ /\ DOMAIN auxiliary_info_cache' \subseteq Span
         /\ \A span \in DOMAIN auxiliary_info_cache' :
              auxiliary_info_cache'[span] \in Seq(1..Len(range_items))
  BY <1>1, <1>2, CacheServes
<1>5. ReuseInv' /\ OutputIsRewrite'
  BY <1>1, <1>2, OutputKept DEF ReuseInv
<1>6. input_position' \in Nat /\ output' \in Seq(Byte)
      /\ \A k \in DOMAIN decryptor_reuse' : decryptor_reuse'[k] \in Keys
  BY <1>1, <1>2 DEF TypeOK
<1>7. emitted_auxiliary_info /\ "Rejected" \in Causes
  BY <1>2 DEF ItemInHand, Causes
<1> QED BY <1>1, <1>3, <1>4, <1>5, <1>6, <1>7, StopKeeps

LEMMA FinishKeeps ==
  ASSUME IInv, Finish
  PROVE  IInv'
<1> USE DEF IInv
<1>1. /\ pc = "dispatch" /\ stage.kind = "Complete" /\ error = "None"
      /\ UNCHANGED parserVars
      /\ UNCHANGED << mdat, work_queue, input_position, output, cursor, copy_cursor,
                      raw_queue, auxiliary_info_cache, decryptor_reuse >>
  BY DEF Finish, ErrorInv
<1>2. /\ emitted_auxiliary_info /\ next_item_index = Len(range_items)
      /\ pending_item = 0 /\ cursor = payload_end
  BY <1>1 DEF AlignInv, RangeInHand, ItemInHand
<1>3. CacheDrained
  <2> SUFFICES ASSUME auxiliary_info_cache # None, NEW span \in DOMAIN auxiliary_info_cache,
                      auxiliary_info_cache[span] # << >>
               PROVE  FALSE
    BY DEF CacheDrained
  <2> DEFINE queue == auxiliary_info_cache[span]
  <2>1. queue \in Seq(Places) /\ Len(range_items) \in Nat
    BY DEF TypeOK, Places
  <2>2. 1 \in DOMAIN queue /\ queue[1] \in Places
    BY <2>1
  <2>3. Staged /\ FirstUnserved = Len(range_items) + 1
    BY <1>1, <1>2 DEF Staged, FirstUnserved
  <2>4. FirstUnserved <= queue[1]
    BY <2>2, <2>3 DEF CacheInv
  <2> QED BY <2>1, <2>2, <2>3, <2>4 DEF Places
<1>4. pc' = "done" /\ error' = "None"
  BY <1>1, <1>3 DEF Finish
<1>5. FirstUnserved' = FirstUnserved
  BY <1>1, <1>4 DEF FirstUnserved, parserVars
<1>6. /\ TypeOK' /\ PlanInv' /\ ParserInv' /\ OutputIsRewrite' /\ CacheInv'
      /\ ReuseInv' /\ ErrorInv'
  <2>1. input_position' \in Nat /\ cursor' \in Nat /\ copy_cursor' \in Nat /\ raw_queue' \in RawQueue
    BY <1>1 DEF TypeOK
  <2> QED BY <1>1, <1>2, <1>4, <1>5, <2>1, QuietStep
<1>7. AlignInv'
  BY <1>4 DEF AlignInv
<1>8. WrittenTo = cursor /\ WrittenTo' = cursor
  BY <1>1, <1>2, <1>4 DEF WrittenTo, payload_end
<1>9. target_end = QueueTail(raw_queue) /\ target_end' = QueueTail(raw_queue)
  BY <1>1, <1>4 DEF target_end, QueueTail
<1>10. WindowInv'
  BY <1>1, <1>4, <1>8, <1>9 DEF WindowInv, QueueTail, IsWindow, IsRun
<1>11. OutputInv'
  BY <1>1, <1>4, <1>6, <1>8 DEF OutputInv
<1> QED BY <1>6, <1>7, <1>10, <1>11

(* A part of what the plan admits is admitted.                             *)
LEMMA OutputFailsKeeps ==
  ASSUME IInv, OutputFails, BufferLen \in Nat \ {0}
  PROVE  IInv'
<1> USE DEF IInv
<1>1. /\ pc \in {"header", "copy", "sample"} /\ (pc = "copy" => copy_cursor < copy_end)
      /\ Filled /\ Fail("Io")
      /\ input_position' = IF pc = "header" THEN input_position + mdat.header_size
                                            ELSE input_position
      /\ UNCHANGED parserVars
      /\ UNCHANGED << mdat, work_queue, cursor, copy_cursor, raw_queue,
                      auxiliary_info_cache, decryptor_reuse >>
  BY DEF OutputFails
<1>2. PICK n \in 1..Len(NextWrite) : output' = output \o SubSeq(NextWrite, 1, n - 1)
  BY DEF OutputFails
<1>3. /\ NextWrite \in Seq(Byte)
      /\ \A i \in 1..Len(NextWrite) : NextWrite[i] \in Admissible(WrittenTo + i - 1)
      /\ WrittenTo + Len(NextWrite) <= payload_end
  BY <1>1, HeaderWrite, CopyWrite, SampleWrite
<1> DEFINE w == SubSeq(NextWrite, 1, n - 1)
<1>4. /\ w \in Seq(Byte) /\ Len(w) = n - 1 /\ Len(w) <= Len(NextWrite)
      /\ \A i \in 1..n - 1 : w[i] = NextWrite[i]
      /\ n - 1 \in Nat /\ Len(NextWrite) \in Nat
  BY <1>3
<1>5. /\ mdat.offset + Len(output) = WrittenTo /\ OutputIsRewrite
      /\ Len(output) \in Nat /\ mdat.offset \in Nat /\ payload_end \in Nat
  BY <1>1, PlanType, SMTT(20) DEF OutputInv, TypeOK
<1> HIDE DEF w
<1>6. \A i \in 1..Len(w) : w[i] \in Admissible(WrittenTo + i - 1)
  BY <1>3, <1>4
<1>7. WrittenTo + Len(w) <= payload_end
  BY <1>3, <1>4, <1>5
<1>8. output' = output \o w
  BY <1>2 DEF w
<1>9. output' \in Seq(Byte) /\ OutputIsRewrite'
  BY <1>1, <1>4, <1>5, <1>6, <1>7, <1>8, WriteKeepsRewrite
<1>10. ReuseInv'
  BY <1>1 DEF ReuseInv
<1>11. /\ input_position' \in Nat /\ raw_queue' \in RawQueue
       /\ \A k \in DOMAIN decryptor_reuse' : decryptor_reuse'[k] \in Keys
       /\ \/ auxiliary_info_cache' = None
          \/ /\ DOMAIN auxiliary_info_cache' \subseteq Span
             /\ \A span \in DOMAIN auxiliary_info_cache' :
                  auxiliary_info_cache'[span] \in Seq(1..Len(range_items))
  BY <1>1, PlanType, SMTT(20) DEF TypeOK
<1>12. ~emitted_auxiliary_info => auxiliary_info_cache' = None
  BY <1>1 DEF CacheInv
<1>13. "Io" \in Causes
  BY DEF Causes
<1> QED BY <1>1, <1>9, <1>10, <1>11, <1>12, <1>13, StopKeeps

LEMMA StutterKeeps ==
  ASSUME IInv, UNCHANGED vars
  PROVE  IInv'
<1>1. UNCHANGED parserVars /\ UNCHANGED streamVars
  BY DEF vars
<1>2. UNCHANGED << mdat, work_queue, input_position, output, cursor, copy_cursor,
                   raw_queue, auxiliary_info_cache, decryptor_reuse, pc, error >>
  BY <1>1 DEF streamVars
<1>3. TypeOK' /\ PlanInv' /\ ParserInv'
  BY <1>1, <1>2, PlanKept, ParserKept DEF IInv, TypeOK, parserVars
<1>4. AlignInv'
  BY <1>1, <1>2 DEF IInv, AlignInv, RangeInHand, ItemInHand, parserVars, copy_end, Places,
     StartOf, EndOf, payload_start, payload_end
<1>5. /\ WrittenTo' = WrittenTo /\ QueueTail(raw_queue)' = QueueTail(raw_queue)
      /\ target_end' = target_end /\ IsWindow(raw_queue)' = IsWindow(raw_queue)
      /\ RawQueueAt(payload_start)' = RawQueueAt(payload_start)
  BY <1>1, <1>2 DEF WrittenTo, payload_end, payload_start, QueueTail, target_end, chunk_end, copy_end,
     EditAtHand, parserVars, IsWindow, RawQueueAt
<1>6. WindowInv' /\ OutputInv'
  BY <1>2, <1>5, OutputKept DEF IInv, WindowInv, OutputInv
<1>7. CacheInv' /\ ReuseInv' /\ ErrorInv'
  BY <1>1, <1>2 DEF IInv, CacheInv, Staged, FirstUnserved, parserVars, Places, ReuseInv,
     ErrorInv, PartsAgree
<1> QED BY <1>3, <1>4, <1>6, <1>7 DEF IInv
-----------------------------------------------------------------------------
(* What sorting twice leaves of a plan's edits.                            *)
LEMMA SortedEdits ==
  ASSUME NEW plan \in Plans, NEW work \in OrderedItems(plan.edits),
         NEW items \in SortedByRangeStart(work)
  PROVE  /\ plan.edits \in Seq(Edit(Schemes, Keys))
         /\ work \in Seq(Edit(Schemes, Keys)) /\ items \in Seq(Edit(Schemes, Keys))
         /\ \A i, j \in 1..Len(items) :
              i < j => queue_range_start(items[i]) <= queue_range_start(items[j])
         /\ \A k \in 1..Len(items) : \E i \in DOMAIN plan.edits : items[k] = plan.edits[i]
         /\ \A i \in DOMAIN plan.edits : \E k \in 1..Len(items) : items[k] = plan.edits[i]
         /\ \A k \in 1..Len(items) :
              items[k].span # None => items[k].span \in auxiliary_info_spans(work)
         /\ \A span \in auxiliary_info_spans(work) :
              span # None /\ \E k \in 1..Len(items) : items[k].span = span
<1>1. plan.edits \in Seq(Edit(Schemes, Keys))
  BY PlansAssumption DEF Plan
<1>2. /\ work \in Seq(Edit(Schemes, Keys))
      /\ \A k \in DOMAIN work : \E i \in DOMAIN plan.edits : work[k] = plan.edits[i]
      /\ \A i \in DOMAIN plan.edits : \E k \in DOMAIN work : work[k] = plan.edits[i]
  BY <1>1, OrderedItemsKeep
<1>3. /\ items \in Seq(Edit(Schemes, Keys))
      /\ \A k \in DOMAIN items : \E i \in DOMAIN work : items[k] = work[i]
      /\ \A i \in DOMAIN work : \E k \in DOMAIN items : items[k] = work[i]
      /\ \A i, j \in DOMAIN items :
           i < j => \/ queue_range_start(items[i]) < queue_range_start(items[j])
                    \/ queue_range_start(items[i]) = queue_range_start(items[j])
  BY <1>2, SortedByRangeStartKeeps
<1>4. DOMAIN items = 1..Len(items)
  BY <1>3, LenProperties
<1>5. \A k \in DOMAIN items : queue_range_start(items[k]) \in Nat
  <2>1. \A k \in DOMAIN items : items[k] \in Edit(Schemes, Keys)
    BY <1>3, <1>4, ElementOfSeq
  <2> QED BY <2>1 DEF queue_range_start, Edit
<1>6. ASSUME NEW i \in 1..Len(items), NEW j \in 1..Len(items), i < j
      PROVE  queue_range_start(items[i]) <= queue_range_start(items[j])
  <2>1. /\ queue_range_start(items[i]) \in Nat
        /\ queue_range_start(items[j]) \in Nat
    BY <1>4, <1>5
  <2>2. \/ queue_range_start(items[i]) < queue_range_start(items[j])
        \/ queue_range_start(items[i]) = queue_range_start(items[j])
    BY <1>3, <1>4, <1>6
  <2> QED BY <2>1, <2>2
<1>7. /\ \A k \in DOMAIN items : \E i \in DOMAIN plan.edits : items[k] = plan.edits[i]
      /\ \A i \in DOMAIN plan.edits : \E k \in DOMAIN items : items[k] = plan.edits[i]
  <2>1. ASSUME NEW k \in DOMAIN items PROVE \E i \in DOMAIN plan.edits : items[k] = plan.edits[i]
    <3>1. PICK j \in DOMAIN work : items[k] = work[j]
      BY <1>3
    <3> QED BY <1>2, <3>1
  <2>2. ASSUME NEW i \in DOMAIN plan.edits PROVE \E k \in DOMAIN items : items[k] = plan.edits[i]
    <3>1. PICK j \in DOMAIN work : work[j] = plan.edits[i]
      BY <1>2
    <3> QED BY <1>3, <3>1
  <2> QED BY <2>1, <2>2
<1>8. ASSUME NEW k \in DOMAIN items, items[k].span # None
      PROVE  items[k].span \in auxiliary_info_spans(work)
  <2>1. PICK i \in DOMAIN work : items[k] = work[i]
    BY <1>3
  <2> QED BY <1>8, <2>1 DEF auxiliary_info_spans
<1>9. ASSUME NEW span \in auxiliary_info_spans(work)
      PROVE  span # None /\ \E k \in DOMAIN items : items[k].span = span
  <2>1. PICK i \in DOMAIN work : work[i].span = span /\ work[i].span # None
    BY DEF auxiliary_info_spans
  <2>2. PICK k \in DOMAIN items : items[k] = work[i]
    BY <1>3
  <2> QED BY <2>1, <2>2
<1> QED BY <1>1, <1>2, <1>3, <1>4, <1>6, <1>7, <1>8, <1>9

LEMMA InitHolds ==
  ASSUME Init
  PROVE  IInv
<1>1. PICK plan \in Plans : Start(plan)
  BY DEF Init
<1>2. /\ mdat = plan /\ input_position = plan.offset /\ output = << >>
      /\ cursor = payload_start /\ copy_cursor = payload_start
      /\ raw_queue = RawQueueAt(payload_start)
      /\ auxiliary_info_cache = None /\ decryptor_reuse = << >>
      /\ pc = "header" /\ error = "None"
      /\ work_queue \in OrderedItems(plan.edits)
      /\ range_items \in SortedByRangeStart(work_queue)
      /\ next_item_index = 0 /\ pending_item = 0 /\ parser_cursor = payload_start
      /\ range_end = payload_end /\ emitted_auxiliary_info = FALSE /\ emitted_tail = FALSE
      /\ stage = [kind |-> "None", start |-> 0, size |-> 0, item |-> 0]
  BY <1>1 DEF Start, ParserNew, payload_start, payload_end
<1>3. /\ plan \in Plan /\ plan.header_size <= plan.size
      /\ \A i \in DOMAIN plan.edits : InsidePayload(plan, plan.edits[i])
  BY PlansAssumption
<1>4. /\ plan.edits \in Seq(Edit(Schemes, Keys))
      /\ work_queue \in Seq(Edit(Schemes, Keys)) /\ range_items \in Seq(Edit(Schemes, Keys))
      /\ \A i, j \in 1..Len(range_items) :
           i < j => queue_range_start(range_items[i]) <= queue_range_start(range_items[j])
      /\ \A k \in 1..Len(range_items) :
           \E i \in DOMAIN plan.edits : range_items[k] = plan.edits[i]
      /\ \A i \in DOMAIN plan.edits :
           \E k \in 1..Len(range_items) : range_items[k] = plan.edits[i]
      /\ \A k \in 1..Len(range_items) : range_items[k].span # None =>
           range_items[k].span \in auxiliary_info_spans(work_queue)
      /\ \A span \in auxiliary_info_spans(work_queue) :
           span # None /\ \E k \in 1..Len(range_items) : range_items[k].span = span
  BY <1>2, SortedEdits
<1>5. /\ payload_start \in Nat /\ payload_end \in Nat /\ payload_start <= payload_end
      /\ plan.offset \in Nat /\ plan.size \in Nat /\ mdat.offset = plan.offset
  BY <1>2, <1>3 DEF Plan, payload_start, payload_end
<1>6. TypeOK
  <2>1. /\ range_items \in Seq(Edit(Schemes, Keys)) /\ Len(range_items) \in Nat
        /\ next_item_index \in 0..Len(range_items)
        /\ pending_item \in 0..Len(range_items)
        /\ stage \in Stage /\ stage.item \in 0..Len(range_items)
    BY <1>2, <1>4 DEF Stage, StageKinds
  <2>2. raw_queue \in RawQueue
    BY <1>2, <1>5 DEF RawQueueAt, RawQueue
  <2>3. output \in Seq(Byte) /\ DOMAIN decryptor_reuse = {}
    BY <1>2
  <2>4. mdat \in Plan /\ input_position \in Nat
    BY <1>2, <1>3, <1>5
  <2> QED BY <1>2, <1>4, <1>5, <2>1, <2>2, <2>3, <2>4 DEF TypeOK
<1>7. PlanInv
  <2>1. ASSUME NEW k \in Places
        PROVE  payload_start <= StartOf(k) /\ EndOf(k) <= payload_end
    <3>1. PICK i \in DOMAIN plan.edits : range_items[k] = plan.edits[i]
      BY <1>4 DEF Places
    <3>2. InsidePayload(plan, plan.edits[i])
      BY <1>3
    <3> QED BY <1>2, <3>1, <3>2 DEF InsidePayload, StartOf, EndOf, queue_range_start,
            queue_range_end, payload_start, payload_end
  <2>2. mdat.header_size <= mdat.size /\ range_end = payload_end
    BY <1>2, <1>3
  <2> QED BY <1>2, <1>4, <2>1, <2>2 DEF PlanInv, Places, StartOf
<1>8. ParserInv
  BY <1>2, <1>5 DEF ParserInv, Places
<1>9. AlignInv
  BY <1>2, <1>5 DEF AlignInv
<1>10. WindowInv
  BY <1>2, <1>5 DEF WindowInv
<1>11. OutputInv
  <2>1. WrittenTo = mdat.offset /\ Len(output) = 0 /\ DOMAIN output = {}
    BY <1>2 DEF WrittenTo
  <2>2. Len(output) <= mdat.size
    BY <1>2, <1>5, <2>1
  <2> QED BY <1>5, <2>1, <2>2 DEF OutputInv, OutputIsRewrite
<1>12. CacheInv /\ ErrorInv /\ ReuseInv
  BY <1>2 DEF CacheInv, Staged, ErrorInv, PartsAgree, ReuseInv
<1> QED BY <1>6, <1>7, <1>8, <1>9, <1>10, <1>11, <1>12 DEF IInv

LEMMA NextKeeps ==
  ASSUME IInv, [Next]_vars
  PROVE  IInv'
<1>1. BufferLen \in Nat \ {0}
  BY BufferAssumption
<1>2. CASE CopyHeader BY <1>2, CopyHeaderKeeps
<1>3. CASE AskParser BY <1>3, AskParserKeeps
<1>4. CASE StopAtOverlap BY <1>4, StopAtOverlapKeeps
<1>5. CASE StageAuxiliaryInfo BY <1>5, StageAuxiliaryInfoKeeps
<1>6. CASE BeginCopy BY <1>1, <1>6, BeginCopyKeeps
<1>7. CASE BeginSample BY <1>7, BeginSampleKeeps
<1>8. CASE FillQueue BY <1>1, <1>8, FillQueueKeeps
<1>9. CASE CopyChunk BY <1>1, <1>9, CopyChunkKeeps
<1>10. CASE EndCopy BY <1>1, <1>10, EndCopyKeeps
<1>11. CASE DecryptSample BY <1>11, DecryptSampleKeeps
<1>12. CASE RejectSample BY <1>12, RejectSampleKeeps
<1>13. CASE Finish BY <1>13, FinishKeeps
<1>14. CASE InputEnds BY <1>14, InputEndsKeeps
<1>15. CASE InputFails BY <1>15, InputFailsKeeps
<1>16. CASE OutputFails BY <1>1, <1>16, OutputFailsKeeps
<1>17. CASE Returned BY <1>17, StutterKeeps DEF Returned
<1>18. CASE UNCHANGED vars BY <1>18, StutterKeeps
<1> QED BY <1>2, <1>3, <1>4, <1>5, <1>6, <1>7, <1>8, <1>9, <1>10, <1>11, <1>12, <1>13,
           <1>14, <1>15, <1>16, <1>17, <1>18 DEF Next, Advance

(* The stream's own cursor never leaves the payload either.                *)
LEMMA CursorStaysInside ==
  ASSUME IInv, cursor <= payload_end, [Next]_vars
  PROVE  (cursor <= payload_end)'
<1>1. BufferLen \in Nat \ {0}
  BY BufferAssumption
<1>2. payload_end' = payload_end
  BY DEF Next, Advance, CopyHeader, AskParser, StopAtOverlap, StageAuxiliaryInfo,
     BeginCopy, BeginSample, FillQueue, CopyChunk, EndCopy, DecryptSample, RejectSample,
     Finish, InputEnds, InputFails, OutputFails, Returned, vars, streamVars, payload_end
<1>3. CASE EndCopy
  <2>1. RangeInHand /\ cursor' = copy_end
    BY <1>3 DEF EndCopy, IInv, AlignInv
  <2>2. CASE pending_item # 0
    <3>1. pending_item \in Places /\ copy_end = StartOf(pending_item)
      BY <2>1, <2>2 DEF RangeInHand, IInv, TypeOK, Places
    <3>2. /\ StartOf(pending_item) \in Nat /\ payload_end \in Nat
          /\ EndOf(pending_item) = StartOf(pending_item) + range_items[pending_item].sample_size
          /\ range_items[pending_item].sample_size \in Nat
          /\ EndOf(pending_item) <= payload_end
      BY <3>1, ItemType, PlanType DEF IInv, PlanInv
    <3> QED BY <1>2, <2>1, <3>1, <3>2
  <2>3. CASE pending_item = 0
    <3>1. copy_end = payload_end /\ payload_end \in Nat
      BY <2>1, <2>3, PlanType DEF RangeInHand, IInv
    <3> QED BY <1>2, <2>1, <3>1
  <2> QED BY <2>2, <2>3
<1>4. CASE DecryptSample
  <2>1. cursor + EditAtHand.sample_size = parser_cursor
    BY <1>4, SampleWrite DEF DecryptSample
  <2>2. cursor' = cursor \/ cursor' = cursor + EditAtHand.sample_size
    BY <1>4 DEF DecryptSample
  <2>3. parser_cursor <= payload_end
    BY DEF IInv, ParserInv
  <2> QED BY <1>2, <2>1, <2>2, <2>3
<1>5. CASE ~EndCopy /\ ~DecryptSample
  <2>1. cursor' = cursor
    BY <1>5 DEF Next, Advance, CopyHeader, AskParser, StopAtOverlap, StageAuxiliaryInfo,
       BeginCopy, BeginSample, FillQueue, CopyChunk, RejectSample,
       Finish, InputEnds, InputFails, OutputFails, Returned, vars, streamVars
  <2> QED BY <1>2, <2>1
<1> QED BY <1>3, <1>4, <1>5
-----------------------------------------------------------------------------
(***************************************************************************)
(* The theorems.                                                           *)
(***************************************************************************)

(* The parser, the window, the caches and the output of the code's mdat    *)
(* loop keep knowing of each other what IInv says, whatever fails.         *)
THEOREM InductiveInvariant == Spec => []IInv
<1>1. Init => IInv
  BY InitHolds
<1>2. IInv /\ [Next]_vars => IInv'
  BY NextKeeps
<1> QED BY <1>1, <1>2, PTL DEF Spec

(* Every variable keeps to its type.                                       *)
THEOREM TypeCorrect == Spec => []TypeOK
<1>1. IInv => TypeOK
  BY DEF IInv
<1> QED BY <1>1, InductiveInvariant, PTL

(* Whatever stream_mdat_with_sample_edits has written for a box, whether it*)
(* goes on, has finished or has failed, is a prefix of the box's rewrite.  *)
THEOREM OutputCorrect == Spec => []OutputIsRewrite
<1>1. IInv => OutputIsRewrite
  BY DEF IInv, OutputInv
<1> QED BY <1>1, InductiveInvariant, PTL

(* The errors the code keeps for parts that disagree are never raised.     *)
THEOREM PartsAlwaysAgree == Spec => []PartsAgree
<1>1. IInv => PartsAgree
  BY DEF IInv, ErrorInv
<1> QED BY <1>1, InductiveInvariant, PTL

(* The raw offset queue holds the input's bytes at their own offsets, and  *)
(* ends where the next read takes place.                                   *)
THEOREM QueueCorrect == Spec => []QueueIsWindow
<1>1. IInv => QueueIsWindow
  <2> SUFFICES ASSUME IInv, pc \notin Outcomes \cup {"header"}
               PROVE  input_position = QueueTail(raw_queue) /\ IsWindow(raw_queue)
    BY DEF QueueIsWindow
  <2>1. pc \in {"next_stage", "dispatch", "copy", "sample", "done"}
    BY DEF IInv, TypeOK
  <2> QED BY <2>1 DEF IInv, WindowInv
<1> QED BY <1>1, InductiveInvariant, PTL

(* Neither the parser nor the stream leaves the payload of its mdat, so the*)
(* checked additions of next_stage and of the stream cannot overflow.      *)
THEOREM StaysInside == Spec => []ParserStaysInside
<1>1. Init => IInv /\ cursor <= payload_end
  <2>1. ASSUME Init PROVE IInv /\ cursor = parser_cursor
    <3>1. PICK plan \in Plans : Start(plan)
      BY <2>1 DEF Init
    <3> QED BY <2>1, <3>1, InitHolds DEF Start, ParserNew
  <2> QED BY <2>1 DEF IInv, ParserInv
<1>2. (IInv /\ cursor <= payload_end) /\ [Next]_vars => (IInv /\ cursor <= payload_end)'
  BY NextKeeps, CursorStaysInside
<1>3. IInv /\ cursor <= payload_end => ParserStaysInside
  BY DEF IInv, ParserInv, ParserStaysInside
<1> QED BY <1>1, <1>2, <1>3, PTL DEF Spec
-----------------------------------------------------------------------------
(* How a step of the stream looks to whoever sees only what it writes.     *)
LEMMA StepKeepsPlan ==
  ASSUME [Next]_vars
  PROVE  mdat' = mdat
BY DEF Next, Advance, CopyHeader, AskParser, StopAtOverlap, StageAuxiliaryInfo,
   BeginCopy, BeginSample, FillQueue, CopyChunk, EndCopy, DecryptSample, RejectSample,
   Finish, InputEnds, InputFails, OutputFails, Returned, vars, streamVars

LEMMA StepAppends ==
  ASSUME IInv, [Next]_vars
  PROVE  /\ Len(output) <= Len(output')
         /\ \A i \in DOMAIN output : output'[i] = output[i]
<1>1. output \in Seq(Byte) /\ Len(output) \in Nat
  BY DEF IInv, TypeOK
<1>2. ASSUME NEW w \in Seq(Byte), output' = output \o w
      PROVE  /\ Len(output) <= Len(output')
             /\ \A i \in DOMAIN output : output'[i] = output[i]
  BY <1>1, <1>2
<1>3. BufferLen \in Nat \ {0}
  BY BufferAssumption
<1>4. CASE CopyHeader
  BY <1>2, <1>4, HeaderWrite DEF CopyHeader
<1>5. CASE CopyChunk
  <2>1. NextWrite \in Seq(Byte)
    BY <1>3, <1>5, CopyWrite DEF CopyChunk
  <2>2. output' = output \/ output' = output \o NextWrite
    BY <1>5 DEF CopyChunk
  <2> QED BY <1>1, <1>2, <2>1, <2>2
<1>6. CASE DecryptSample
  <2>1. NextWrite \in Seq(Byte)
    BY <1>6, SampleWrite DEF DecryptSample
  <2>2. output' = output \/ output' = output \o NextWrite
    BY <1>6 DEF DecryptSample
  <2> QED BY <1>1, <1>2, <2>1, <2>2
<1>7. CASE OutputFails
  <2>1. NextWrite \in Seq(Byte)
    BY <1>3, <1>7, HeaderWrite, CopyWrite, SampleWrite DEF OutputFails
  <2>2. PICK n \in 1..Len(NextWrite) : output' = output \o SubSeq(NextWrite, 1, n - 1)
    BY <1>7 DEF OutputFails
  <2>3. SubSeq(NextWrite, 1, n - 1) \in Seq(Byte)
    BY <2>1
  <2> QED BY <1>2, <2>2, <2>3
<1>8. CASE ~CopyHeader /\ ~CopyChunk /\ ~DecryptSample /\ ~OutputFails
  <2>1. output' = output
    BY <1>8 DEF Next, Advance, AskParser, StopAtOverlap, StageAuxiliaryInfo,
       BeginCopy, BeginSample, FillQueue, EndCopy, RejectSample,
       Finish, InputEnds, InputFails, Returned, vars, streamVars
  <2> QED BY <1>1, <2>1
<1> QED BY <1>4, <1>5, <1>6, <1>7, <1>8

LEMMA ReturnIsFinal ==
  ASSUME IInv, [Next]_vars, pc \in Outcomes
  PROVE  UNCHANGED vars
<1>1. pc \notin {"header", "next_stage", "dispatch", "copy", "sample"}
  BY DEF Outcomes
<1>2. target_end = QueueTail(raw_queue)
  BY <1>1 DEF target_end
<1>3. QueueTail(raw_queue) \in Nat
  BY RawQueueType DEF IInv, TypeOK
<1>4. ~(NextRead > 0)
  BY <1>1, <1>2, <1>3 DEF NextRead, Filled
<1>5. ~InputEnds /\ ~InputFails
  BY <1>4 DEF InputEnds, InputFails
<1>6. ~CopyHeader /\ ~AskParser /\ ~StopAtOverlap /\ ~StageAuxiliaryInfo /\ ~BeginCopy
      /\ ~BeginSample /\ ~FillQueue /\ ~Finish
  BY <1>1 DEF CopyHeader, AskParser, StopAtOverlap, StageAuxiliaryInfo, BeginCopy,
     BeginSample, FillQueue, Finish
<1>7. ~CopyChunk /\ ~EndCopy /\ ~DecryptSample /\ ~RejectSample /\ ~OutputFails
  BY <1>1 DEF CopyChunk, EndCopy, DecryptSample, RejectSample, OutputFails
<1> QED BY <1>5, <1>6, <1>7 DEF Next, Advance, Returned

LEMMA DoneWritesNothing ==
  ASSUME [Next]_vars, pc # "done", pc' = "done"
  PROVE  output' = output
BY DEF Next, Advance, CopyHeader, AskParser, StopAtOverlap, StageAuxiliaryInfo,
   BeginCopy, BeginSample, FillQueue, CopyChunk, EndCopy, DecryptSample, RejectSample,
   Finish, InputEnds, InputFails, OutputFails, Returned, vars, streamVars, Fail

(* The code's mdat loop is a forward rewriter: it only ever extends what it*)
(* wrote, by what the plan admits there, reports success over the whole box*)
(* alone, and is silent once it has returned.                              *)
THEOREM StreamIsForwardRewriter == Spec => ImplementsRewrite
<1> DEFINE plan == [i \in 1..mdat.size |-> Admissible(mdat.offset + i - 1)]
           outcome == IF pc \in Outcomes THEN pc ELSE "running"
<1>1. Init => Rewrite!Init
  BY DEF Init, Start, Rewrite!Init, Outcomes
<1>2. IInv /\ IInv' /\ [Next]_vars => [Rewrite!Next]_Rewrite!vars
  <2> SUFFICES ASSUME IInv, IInv', [Next]_vars
               PROVE  Rewrite!Next \/ UNCHANGED Rewrite!vars
    OBVIOUS
  <2>1. mdat' = mdat
    BY StepKeepsPlan
  <2>2. plan' = plan
    BY <2>1 DEF Admissible, EditsAt
  <2>3. mdat.size \in Nat /\ mdat.offset \in Nat /\ payload_end = mdat.offset + mdat.size
    BY PlanType DEF IInv, payload_end
  <2>4. Len(plan) = mdat.size
    BY <2>3
  <2>5. Rewrite!ExtendsOutput(output')
    BY StepAppends DEF Rewrite!ExtendsOutput
  <2>6. Rewrite!IsRewrite(output')
    <3>1. Len(output') <= mdat.size
      BY <2>1 DEF IInv, OutputInv, OutputIsRewrite
    <3>2. output' \in Seq(Byte') /\ DOMAIN output' = 1..Len(output') /\ Len(output') \in Nat
      BY DEF IInv, TypeOK
    <3>3. ASSUME NEW i \in DOMAIN output'
          PROVE  output'[i] \in plan[i]
      <4>1. output'[i] \in Admissible(mdat.offset + i - 1)'
        BY <3>3 DEF IInv, OutputInv, OutputIsRewrite
      <4>2. output'[i] \in Admissible(mdat.offset + i - 1)
        BY <4>1, <2>1 DEF Admissible, EditsAt
      <4>3. i \in 1..mdat.size
        BY <3>1, <3>2, <3>3, <2>3
      <4> QED BY <4>2, <4>3
    <3> QED BY <3>1, <3>3, <2>4 DEF Rewrite!IsRewrite
  <2>7. CASE pc \in Outcomes
    <3>1. UNCHANGED vars
      BY <2>7, ReturnIsFinal
    <3> QED BY <3>1, <2>2 DEF vars, streamVars, Rewrite!vars
  <2>8. CASE pc \notin Outcomes /\ pc' \notin Outcomes
    <3>1. outcome = "running" /\ outcome' = outcome
      BY <2>8
    <3> QED BY <3>1, <2>2, <2>5, <2>6 DEF Rewrite!Next, Rewrite!Emit
  <2>9. CASE pc \notin Outcomes /\ pc' = "failed"
    <3>1. outcome = "running" /\ outcome' = "failed"
      BY <2>9 DEF Outcomes
    <3> QED BY <3>1, <2>2, <2>5, <2>6 DEF Rewrite!Next, Rewrite!Fail
  <2>10. CASE pc \notin Outcomes /\ pc' = "done"
    <3>1. outcome = "running" /\ outcome' = "done"
      BY <2>10 DEF Outcomes
    <3>2. output' = output
      BY <2>10, DoneWritesNothing DEF Outcomes
    <3>3. WrittenTo' = payload_end'
      BY <2>10 DEF WrittenTo
    <3>4. (mdat.offset + Len(output) = WrittenTo)'
      BY <2>10 DEF IInv, OutputInv
    <3>5. Len(output) \in Nat
      BY DEF IInv, TypeOK
    <3>6. Len(output) = mdat.size
      BY <2>1, <2>3, <3>2, <3>3, <3>4, <3>5 DEF payload_end
    <3> QED BY <3>1, <3>2, <3>6, <2>2, <2>4 DEF Rewrite!Next, Rewrite!Finish
  <2> QED BY <2>7, <2>8, <2>9, <2>10 DEF Outcomes
<1> QED BY <1>1, <1>2, InductiveInvariant, PTL DEF Spec, ImplementsRewrite, Rewrite!Spec
-----------------------------------------------------------------------------
(* What a returned run promises.  A finished run served every sample, a    *)
(* failed one has a cause in the plan or the input, and the window stays   *)
(* within a buffer or a sample.                                            *)

(* Sorting twice takes each item from a place of its own of the plan.      *)
LEMMA StartFilesEdits ==
  ASSUME NEW plan \in Plans, Start(plan)
  PROVE  EditsAreFiled
<1>1. /\ mdat.edits \in Seq(Edit(Schemes, Keys))
      /\ work_queue \in OrderedItems(mdat.edits)
      /\ range_items \in SortedByRangeStart(work_queue)
  BY PlansAssumption DEF Start, ParserNew, Plan
<1>2. \A e \in Edit(Schemes, Keys) : queue_order_key(e) \in Nat /\ queue_range_start(e) \in Nat
  BY KeysAreNumbers
<1>3. PICK p : TakesFrom(p, mdat.edits, work_queue)
  BY <1>1, <1>2, OrderedItemsPlaces
<1>4. work_queue \in Seq(Edit(Schemes, Keys)) /\ Len(work_queue) = Len(mdat.edits)
  BY <1>1, OrderedItemsKeep
<1>5. PICK q : TakesFrom(q, work_queue, range_items)
  BY <1>1, <1>2, <1>4, SortedByRangeStartPlaces
<1>6. PICK place : TakesFrom(place, mdat.edits, range_items)
  BY <1>3, <1>4, <1>5, TakenTwice
<1>7. Len(range_items) = Len(mdat.edits)
  BY <1>1, <1>4, SortedByRangeStartKeeps
<1>8. DOMAIN mdat.edits = 1..Len(mdat.edits) /\ Places = 1..Len(mdat.edits)
  BY <1>1, <1>7, LenProperties DEF Places
<1>9. /\ place \in [Places -> DOMAIN mdat.edits]
      /\ \A k \in Places : range_items[k] = mdat.edits[place[k]]
      /\ \A k, l \in Places : place[k] = place[l] => k = l
      /\ \A i \in DOMAIN mdat.edits : \E k \in Places : place[k] = i
  BY <1>6, <1>8 DEF TakesFrom
<1> QED BY <1>9 DEF EditsAreFiled

LEMMA InitOutcome ==
  ASSUME Init
  PROVE  OutcomeInv
<1>1. PICK plan \in Plans : Start(plan)
  BY DEF Init
<1>2. /\ parser_cursor = payload_start /\ next_item_index = 0 /\ pending_item = 0
      /\ stage.kind = "None" /\ pc = "header" /\ error = "None"
      /\ raw_queue.bytes = << >>
  BY <1>1 DEF Start, ParserNew, payload_start, RawQueueAt
<1>3. EditsAreFiled
  BY <1>1, StartFilesEdits
<1>4. TakenApart /\ ServedDecodable
  <2>1. FirstUnserved = 1
    BY <1>2 DEF FirstUnserved
  <2>2. \A k \in Places : k \in Nat \ {0}
    BY DEF Places
  <2> QED BY <1>2, <2>1, <2>2 DEF TakenApart, ServedDecodable
<1>5. WindowIsBounded
  BY <1>2, BufferAssumption DEF WindowIsBounded
<1> QED BY <1>2, <1>3, <1>4, <1>5 DEF OutcomeInv, CursorEndsItem, DoneServed, FailureHasCause
-----------------------------------------------------------------------------
(* Only next_stage moves the parser.                                       *)
LEMMA ParserMoves ==
  ASSUME [Next]_vars, ~AskParser
  PROVE  UNCHANGED parserVars
BY DEF Next, Advance, CopyHeader, StopAtOverlap, StageAuxiliaryInfo,
   BeginCopy, BeginSample, FillQueue, CopyChunk, EndCopy, DecryptSample, RejectSample,
   Finish, InputEnds, InputFails, OutputFails, Returned, vars

LEMMA ItemsStay ==
  ASSUME [Next]_vars
  PROVE  /\ range_items' = range_items /\ mdat' = mdat /\ Places' = Places
         /\ \A k \in Places : StartOf(k)' = StartOf(k) /\ EndOf(k)' = EndOf(k)
         /\ payload_start' = payload_start /\ payload_end' = payload_end
         /\ SomeOverlap' = SomeOverlap
<1>1. mdat' = mdat
  BY StepKeepsPlan
<1>2. range_items' = range_items
  <2>1. CASE AskParser
    BY <2>1 DEF AskParser, next_stage, TakePendingItem, EmitAuxiliaryInfo, RejectOverlap,
       CopyGapBeforeItem, TakeItemAtCursor, EmitTail, Complete
  <2>2. CASE ~AskParser
    BY <2>2, ParserMoves DEF parserVars
  <2> QED BY <2>1, <2>2
<1> QED BY <1>1, <1>2 DEF Places, StartOf, EndOf, payload_start, payload_end, SomeOverlap

(* What a call of next_stage finds, and what it may leave.                 *)
LEMMA AskedFacts ==
  ASSUME IInv, AskParser
  PROVE  /\ pc = "next_stage" /\ stage.kind # "Overlap"
         /\ next_item_index \in Nat /\ Len(range_items) \in Nat /\ parser_cursor \in Nat
         /\ next_item_index <= Len(range_items)
         /\ pending_item # 0 => pending_item = next_item_index /\ pending_item \in Places
         /\ \A k \in Places : k \in Nat \ {0} /\ StartOf(k) \in Nat /\ EndOf(k) \in Nat
         /\ HasNextItem => /\ NextItem \in Places /\ NextStart = StartOf(NextItem)
                           /\ NextItem = next_item_index + 1
<1>1. pc = "next_stage"
  BY DEF AskParser
<1>2. /\ next_item_index \in 0..Len(range_items) /\ pending_item \in 0..Len(range_items)
      /\ parser_cursor \in Nat /\ range_items \in Seq(Edit(Schemes, Keys))
  BY DEF IInv, TypeOK
<1>3. Len(range_items) \in Nat /\ DOMAIN range_items = Places
  BY <1>2, LenProperties DEF Places
<1>4. \A k \in Places : k \in Nat \ {0} /\ StartOf(k) \in Nat /\ EndOf(k) \in Nat
  BY ItemType DEF IInv, Places
<1>5. pending_item # 0 => pending_item = next_item_index /\ pending_item \in Places
  <2>1. pending_item \in {0, next_item_index}
    BY DEF IInv, ParserInv
  <2> QED BY <1>2, <1>3, <2>1 DEF Places
<1>6. HasNextItem => /\ NextItem \in Places /\ NextStart = StartOf(NextItem)
                     /\ NextItem = next_item_index + 1
  BY <1>3 DEF HasNextItem, NextStart, StartOf, NextItem
<1> QED BY <1>1, <1>2, <1>3, <1>4, <1>5, <1>6 DEF IInv, AlignInv

(* Taking the next item keeps the items taken apart: it begins behind the  *)
(* parser, and they end in front of it.                                    *)
LEMMA NextStaysApart ==
  ASSUME IInv, OutcomeInv, AskParser, HasNextItem, pending_item = 0,
         NextStart >= parser_cursor,
         NEW i \in Places, NEW j \in Places, i < j, j <= NextItem
  PROVE  EndOf(i) <= StartOf(j)
<1>1. /\ stage.kind # "Overlap" /\ next_item_index \in Nat /\ parser_cursor \in Nat
      /\ NextStart = StartOf(NextItem) /\ NextItem = next_item_index + 1
      /\ i \in Nat \ {0} /\ j \in Nat \ {0}
      /\ EndOf(i) \in Nat /\ StartOf(j) \in Nat
  BY AskedFacts
<1>2. CASE j <= next_item_index
  BY <1>1, <1>2 DEF OutcomeInv, TakenApart
<1>3. CASE j = NextItem
  <2>1. i <= next_item_index /\ i # pending_item
    BY <1>1, <1>3
  <2>2. EndOf(i) <= parser_cursor
    BY <1>1, <2>1 DEF IInv, ParserInv
  <2> QED BY <1>1, <1>3, <2>2
<1> QED BY <1>1, <1>2, <1>3

(* An item that begins in front of the parser overlaps the one it stands   *)
(* at the end of, and the two are edits of the plan.                       *)
LEMMA OverlapIsPlanned ==
  ASSUME IInv, OutcomeInv, AskParser, HasNextItem, NextStart < parser_cursor
  PROVE  SomeOverlap
<1>1. /\ NextItem \in Places /\ NextStart = StartOf(NextItem)
      /\ NextItem = next_item_index + 1 /\ next_item_index \in Nat
      /\ \A k \in Places : k \in Nat \ {0} /\ StartOf(k) \in Nat /\ EndOf(k) \in Nat
  BY AskedFacts
<1>2. payload_start <= StartOf(NextItem) /\ payload_start \in Nat
  BY <1>1, PlanType DEF IInv, PlanInv
<1>3. parser_cursor # payload_start
  BY <1>1, <1>2
<1>4. PICK k \in Places : k <= next_item_index /\ parser_cursor = EndOf(k)
  BY <1>3 DEF OutcomeInv, CursorEndsItem
<1>5. k < NextItem
  BY <1>1, <1>4
<1>6. StartOf(k) <= StartOf(NextItem) /\ StartOf(NextItem) < EndOf(k) /\ k # NextItem
  BY <1>1, <1>4, <1>5 DEF IInv, PlanInv
<1>7. PICK place \in [Places -> DOMAIN mdat.edits] :
        /\ \A n \in Places : range_items[n] = mdat.edits[place[n]]
        /\ \A n, l \in Places : place[n] = place[l] => n = l
  BY DEF OutcomeInv, EditsAreFiled
<1>8. /\ place[k] \in DOMAIN mdat.edits /\ place[NextItem] \in DOMAIN mdat.edits
      /\ place[k] # place[NextItem]
      /\ range_items[k] = mdat.edits[place[k]]
      /\ range_items[NextItem] = mdat.edits[place[NextItem]]
  BY <1>1, <1>4, <1>6, <1>7
<1>9. Overlapping(mdat.edits[place[k]], mdat.edits[place[NextItem]])
  BY <1>6, <1>8 DEF Overlapping, StartOf, EndOf
<1> QED BY <1>8, <1>9 DEF SomeOverlap

LEMMA AskKeepsPlaces ==
  ASSUME IInv, OutcomeInv, AskParser
  PROVE  /\ CursorEndsItem' /\ TakenApart' /\ ServedDecodable'
         /\ stage'.kind = "Overlap" => SomeOverlap
<1>1. /\ pc = "next_stage" /\ stage.kind # "Overlap"
      /\ next_item_index \in Nat /\ parser_cursor \in Nat
      /\ pending_item # 0 => pending_item = next_item_index /\ pending_item \in Places
      /\ \A k \in Places : k \in Nat \ {0} /\ StartOf(k) \in Nat /\ EndOf(k) \in Nat
      /\ HasNextItem => /\ NextItem \in Places /\ NextStart = StartOf(NextItem)
                        /\ NextItem = next_item_index + 1
  BY AskedFacts
<1>2. /\ range_items' = range_items /\ Places' = Places
      /\ \A k \in Places : StartOf(k)' = StartOf(k) /\ EndOf(k)' = EndOf(k)
      /\ payload_start' = payload_start
  BY ItemsStay DEF Next, Advance
<1>3. pc' = "dispatch"
  BY DEF AskParser
<1>4. FirstUnserved = IF pending_item # 0 THEN pending_item ELSE next_item_index + 1
  BY <1>1 DEF FirstUnserved
<1>5. \A k \in Places : k < FirstUnserved => range_items[k].decodable
  BY <1>1 DEF OutcomeInv, ServedDecodable
<1>6. ASSUME FirstUnserved' = FirstUnserved PROVE ServedDecodable'
  BY <1>2, <1>5, <1>6 DEF ServedDecodable
<1>7. ASSUME next_item_index' = next_item_index PROVE TakenApart'
  BY <1>1, <1>2, <1>7 DEF OutcomeInv, TakenApart
<1>8. ASSUME NEW n \in Nat, next_item_index' = n, next_item_index <= n,
             parser_cursor' = parser_cursor
      PROVE  CursorEndsItem'
  BY <1>1, <1>2, <1>8 DEF OutcomeInv, CursorEndsItem
<1>9. ASSUME NEW k \in Places, k <= next_item_index', parser_cursor' = EndOf(k)
      PROVE  CursorEndsItem'
  BY <1>2, <1>9 DEF CursorEndsItem
<1>10. CASE TakePendingItem
  <2>1. /\ pending_item # 0 /\ pending_item' = 0 /\ next_item_index' = next_item_index
        /\ stage'.kind = "WorkItem" /\ stage'.item = pending_item
        /\ parser_cursor' = EndOf(pending_item)
    BY <1>10 DEF TakePendingItem, ReturnsItem, CursorAfter, EndOf
  <2>2. FirstUnserved' = FirstUnserved
    BY <1>3, <1>4, <2>1 DEF FirstUnserved
  <2>3. CursorEndsItem'
    BY <1>1, <1>9, <2>1
  <2> QED BY <1>6, <1>7, <2>1, <2>2, <2>3
<1>11. CASE EmitAuxiliaryInfo \/ EmitTail \/ Complete
  <2>1. /\ pending_item = 0 /\ pending_item' = 0 /\ next_item_index' = next_item_index
        /\ stage'.kind \in { "AuxiliaryInfo", "CopyRange", "Complete" }
        /\ parser_cursor' = parser_cursor
    BY <1>11 DEF EmitAuxiliaryInfo, EmitTail, Complete, Quiet, Returns, ReturnsRange
  <2>2. FirstUnserved' = FirstUnserved
    BY <1>4, <2>1 DEF FirstUnserved
  <2>3. CursorEndsItem'
    BY <1>1, <1>8, <2>1
  <2> QED BY <1>6, <1>7, <2>1, <2>2, <2>3
<1>12. CASE RejectOverlap
  <2>1. /\ HasNextItem /\ NextStart < parser_cursor /\ next_item_index' = NextItem
        /\ stage'.kind = "Overlap" /\ parser_cursor' = parser_cursor
    BY <1>12 DEF RejectOverlap, OverlapsParsed, Returns
  <2>2. CursorEndsItem'
    BY <1>1, <1>8, <2>1
  <2> QED BY <2>1, <2>2, OverlapIsPlanned DEF TakenApart, ServedDecodable
<1>13. CASE CopyGapBeforeItem \/ TakeItemAtCursor
  <2>1. /\ HasNextItem /\ NextStart >= parser_cursor /\ pending_item = 0
        /\ next_item_index' = NextItem /\ stage'.kind # "Overlap"
        /\ \/ /\ pending_item' = NextItem /\ parser_cursor' = parser_cursor
           \/ /\ pending_item' = 0 /\ stage'.kind = "WorkItem" /\ stage'.item = NextItem
              /\ parser_cursor' = EndOf(NextItem)
    BY <1>1, <1>13 DEF CopyGapBeforeItem, TakeItemAtCursor, Quiet, ReturnsRange, ReturnsItem,
       CursorAfter, EndOf
  <2>2. FirstUnserved' = FirstUnserved
    BY <1>1, <1>3, <1>4, <2>1 DEF FirstUnserved
  <2>3. CursorEndsItem'
    BY <1>1, <1>8, <1>9, <2>1
  <2>4. \A i, j \in Places : i < j /\ j <= NextItem => EndOf(i) <= StartOf(j)
    BY <2>1, NextStaysApart
  <2>5. TakenApart'
    BY <1>2, <2>1, <2>4 DEF TakenApart
  <2> QED BY <1>6, <2>1, <2>2, <2>3, <2>5
<1> QED BY <1>10, <1>11, <1>12, <1>13 DEF AskParser, next_stage

LEMMA PlacesKept ==
  ASSUME IInv, OutcomeInv, [Next]_vars
  PROVE  /\ EditsAreFiled' /\ CursorEndsItem' /\ TakenApart'
         /\ (stage.kind = "Overlap" => SomeOverlap)'
<1>1. /\ range_items' = range_items /\ mdat' = mdat /\ Places' = Places
      /\ \A k \in Places : StartOf(k)' = StartOf(k) /\ EndOf(k)' = EndOf(k)
      /\ payload_start' = payload_start
      /\ SomeOverlap' = SomeOverlap
  BY ItemsStay
<1>2. EditsAreFiled'
  BY <1>1 DEF OutcomeInv, EditsAreFiled
<1>3. CASE AskParser
  BY <1>1, <1>2, <1>3, AskKeepsPlaces
<1>4. CASE ~AskParser
  <2>1. UNCHANGED parserVars
    BY <1>4, ParserMoves
  <2>2. /\ parser_cursor' = parser_cursor /\ next_item_index' = next_item_index
        /\ stage' = stage
    BY <2>1 DEF parserVars
  <2>3. CursorEndsItem' /\ TakenApart'
    BY <1>1, <2>2 DEF OutcomeInv, CursorEndsItem, TakenApart
  <2> QED BY <1>1, <1>2, <2>2, <2>3 DEF OutcomeInv
<1> QED BY <1>3, <1>4
-----------------------------------------------------------------------------
(* Outside of next_stage, only the decryption of an item serves one.       *)
LEMMA ServingSteps ==
  ASSUME [Next]_vars, ~AskParser, ~DecryptSample, pc' # "failed"
  PROVE  \/ pc' = pc
         \/ CopyHeader \/ StageAuxiliaryInfo \/ BeginCopy \/ BeginSample \/ EndCopy
         \/ Finish
BY DEF Next, Advance, StopAtOverlap, FillQueue, CopyChunk, RejectSample, InputEnds,
   InputFails, OutputFails, Returned, Fail, vars, streamVars

LEMMA ServedKept ==
  ASSUME IInv, OutcomeInv, [Next]_vars
  PROVE  ServedDecodable'
<1> SUFFICES ASSUME ~AskParser, pc' # "failed"
             PROVE  ServedDecodable'
  BY AskKeepsPlaces DEF ServedDecodable
<1>1. /\ range_items' = range_items /\ Places' = Places
  BY ItemsStay
<1>2. /\ pending_item' = pending_item /\ next_item_index' = next_item_index /\ stage' = stage
  BY ParserMoves DEF parserVars
<1>3. CASE stage.kind = "Overlap"
  BY <1>2, <1>3 DEF ServedDecodable
<1>4. CASE stage.kind # "Overlap" /\ ~DecryptSample
  <2>1. FirstUnserved' = FirstUnserved /\ pc # "failed"
    <3>1. CASE pc' = pc
      BY <1>2, <3>1 DEF FirstUnserved
    <3>2. CASE CopyHeader
      BY <1>2, <3>2 DEF CopyHeader, FirstUnserved, IInv, AlignInv
    <3>3. CASE StageAuxiliaryInfo \/ BeginCopy \/ Finish
      BY <1>2, <3>3 DEF StageAuxiliaryInfo, BeginCopy, Finish, FirstUnserved
    <3>4. CASE BeginSample
      <4>1. pc = "dispatch" /\ (pc' = "sample" \/ pc' = "failed")
        BY <3>4 DEF BeginSample, Fail
      <4> QED BY <1>2, <4>1 DEF FirstUnserved
    <3>5. CASE EndCopy
      BY <1>2, <3>5 DEF EndCopy, FirstUnserved, IInv, AlignInv, RangeInHand
    <3> QED BY <1>4, <3>1, <3>2, <3>3, <3>4, <3>5, ServingSteps
  <2>2. \A k \in Places : k < FirstUnserved => range_items[k].decodable
    BY <1>4, <2>1 DEF OutcomeInv, ServedDecodable
  <2> QED BY <1>1, <2>1, <2>2 DEF ServedDecodable
<1>5. CASE stage.kind # "Overlap" /\ DecryptSample
  <2>1. pc = "sample" /\ pc' = "next_stage" /\ EditAtHand.decodable
    BY <1>5 DEF DecryptSample, Fail
  <2>2. /\ stage.kind = "WorkItem" /\ stage.item \in Places /\ pending_item = 0
        /\ stage.item = next_item_index
    BY <2>1 DEF IInv, AlignInv, ItemInHand
  <2>3. FirstUnserved = stage.item /\ FirstUnserved' = stage.item + 1
    BY <1>2, <2>1, <2>2 DEF FirstUnserved
  <2>4. \A k \in Places : k < stage.item => range_items[k].decodable
    BY <1>5, <2>1, <2>3 DEF OutcomeInv, ServedDecodable
  <2>5. \A k \in Places : k < stage.item + 1 => k < stage.item \/ k = stage.item
    BY <2>2 DEF Places
  <2>6. \A k \in Places : k < FirstUnserved' => range_items[k].decodable
    BY <2>1, <2>3, <2>4, <2>5 DEF EditAtHand
  <2> QED BY <1>1, <2>6 DEF ServedDecodable
<1> QED BY <1>3, <1>4, <1>5

LEMMA DoneByFinish ==
  ASSUME [Next]_vars, pc' = "done"
  PROVE  pc = "done" \/ Finish
BY DEF Next, Advance, CopyHeader, AskParser, StopAtOverlap, StageAuxiliaryInfo,
   BeginCopy, BeginSample, FillQueue, CopyChunk, EndCopy, DecryptSample, RejectSample,
   InputEnds, InputFails, OutputFails, Returned, vars, streamVars, Fail

LEMMA DoneServedKept ==
  ASSUME IInv, OutcomeInv, [Next]_vars
  PROVE  DoneServed'
<1> SUFFICES ASSUME pc' = "done"
             PROVE  (stage.kind = "Complete" /\ next_item_index = Len(range_items)
                     /\ pending_item = 0)'
  BY DEF DoneServed
<1>1. CASE pc = "done"
  BY <1>1, ReturnIsFinal DEF vars, parserVars, Outcomes, OutcomeInv, DoneServed
<1>2. CASE Finish
  <2>1. pc = "dispatch" /\ stage.kind = "Complete"
    BY <1>2 DEF Finish
  <2>2. next_item_index = Len(range_items) /\ pending_item = 0
    BY <2>1 DEF IInv, AlignInv, RangeInHand, ItemInHand
  <2> QED BY <1>2, <2>1, <2>2 DEF Finish, parserVars
<1> QED BY <1>1, <1>2, DoneByFinish
-----------------------------------------------------------------------------
(* Each cause is stated by one action alone.                               *)
LEMMA CauseOf ==
  ASSUME [Next]_vars
  PROVE  /\ error' = "Overlap" => error = "Overlap" \/ StopAtOverlap
         /\ error' = "Rejected" => error = "Rejected" \/ RejectSample
         /\ error' = "Eof" => error = "Eof" \/ InputEnds
BY DEF Next, Advance, CopyHeader, AskParser, StopAtOverlap, StageAuxiliaryInfo,
   BeginCopy, BeginSample, FillQueue, CopyChunk, EndCopy, DecryptSample, RejectSample,
   Finish, InputEnds, InputFails, OutputFails, Returned, vars, streamVars, Fail

(* The stream never asks for a byte behind the payload it was given.       *)
LEMMA ReadsStayInside ==
  ASSUME IInv, NextRead > 0
  PROVE  NextRead \in Int /\ input_position + NextRead <= payload_end
<1>1. /\ mdat.offset \in Nat /\ mdat.header_size \in Nat /\ mdat.size \in Nat
      /\ payload_start = mdat.offset + mdat.header_size
      /\ payload_end = mdat.offset + mdat.size
      /\ mdat.header_size <= mdat.size
  BY PlanType DEF IInv, PlanInv, payload_start, payload_end
<1>2. BufferLen \in Nat \ {0} /\ QueueTail(raw_queue) \in Nat /\ copy_cursor \in Nat
      /\ copy_end \in Nat
  BY BufferAssumption, RawQueueType, StageType DEF IInv, TypeOK
<1>3. CASE pc = "header"
  <2>1. input_position = mdat.offset /\ NextRead = mdat.header_size
    BY <1>3 DEF IInv, WindowInv, NextRead
  <2> QED BY <1>1, <2>1
<1>4. ASSUME pc \in {"copy", "sample"}, target_end \in Nat, target_end <= payload_end
      PROVE  NextRead \in Int /\ input_position + NextRead <= payload_end
  <2>1. input_position = QueueTail(raw_queue)
    BY <1>4 DEF IInv, WindowInv
  <2>2. ~Filled /\ NextRead = Lower(BufferLen, target_end - QueueTail(raw_queue))
    BY <1>4 DEF NextRead
  <2>3. NextRead <= target_end - QueueTail(raw_queue) /\ NextRead \in Int
    BY <1>2, <1>4, <2>2 DEF Lower
  <2> QED BY <1>1, <1>2, <1>4, <2>1, <2>3
<1>5. CASE pc = "copy"
  <2>1. RangeInHand
    BY <1>5 DEF IInv, AlignInv
  <2>2. copy_end <= payload_end
    <3>1. CASE pending_item = 0
      BY <1>1, <2>1, <3>1 DEF RangeInHand
    <3>2. CASE pending_item # 0
      <4>1. pending_item \in Places
        BY <3>2 DEF IInv, TypeOK, Places
      <4>2. /\ StartOf(pending_item) \in Nat
            /\ EndOf(pending_item) = StartOf(pending_item) + range_items[pending_item].sample_size
            /\ range_items[pending_item].sample_size \in Nat
        BY <4>1, ItemType DEF IInv
      <4>3. EndOf(pending_item) <= payload_end
        BY <4>1 DEF IInv, PlanInv
      <4>4. copy_end = StartOf(pending_item)
        BY <2>1, <3>2 DEF RangeInHand
      <4> QED BY <1>1, <4>2, <4>3, <4>4
    <3> QED BY <3>1, <3>2
  <2>3. target_end = chunk_end
    BY <1>5 DEF target_end
  <2>4. target_end \in Nat /\ target_end <= payload_end
    BY <1>1, <1>2, <2>2, <2>3 DEF chunk_end, Lower
  <2> QED BY <1>4, <1>5, <2>4
<1>6. CASE pc = "sample"
  <2>1. stage.item \in Places
    BY <1>6 DEF IInv, AlignInv, ItemInHand
  <2>2. target_end = EndOf(stage.item)
    BY <1>6 DEF target_end, EndOf, EditAtHand
  <2>3. target_end \in Nat /\ target_end <= payload_end
    BY <2>1, <2>2, ItemType DEF IInv, PlanInv
  <2> QED BY <1>4, <1>6, <2>3
<1>7. CASE pc \notin {"header", "copy", "sample"}
  <2>1. target_end = QueueTail(raw_queue)
    BY <1>7 DEF target_end
  <2>2. NextRead = 0
    BY <1>2, <1>7, <2>1 DEF NextRead, Filled
  <2> QED BY <2>2
<1> QED BY <1>3, <1>5, <1>6, <1>7

LEMMA CausesKept ==
  ASSUME IInv, OutcomeInv, [Next]_vars
  PROVE  FailureHasCause'
<1>1. /\ mdat' = mdat /\ payload_end' = payload_end /\ SomeOverlap' = SomeOverlap
  BY ItemsStay
<1>2. error' = "Overlap" => SomeOverlap'
  <2>1. StopAtOverlap => SomeOverlap
    BY DEF StopAtOverlap, OutcomeInv
  <2> QED BY <1>1, <2>1, CauseOf DEF OutcomeInv, FailureHasCause
<1>3. error' = "Rejected" => (\E i \in DOMAIN mdat.edits : ~mdat.edits[i].decodable)'
  <2>1. ASSUME RejectSample
        PROVE  \E i \in DOMAIN mdat.edits : ~mdat.edits[i].decodable
    <3>1. pc = "sample" /\ ~range_items[stage.item].decodable
      BY <2>1 DEF RejectSample, EditAtHand
    <3>2. stage.item \in Places
      BY <3>1 DEF IInv, AlignInv, ItemInHand
    <3>3. PICK i \in DOMAIN mdat.edits : range_items[stage.item] = mdat.edits[i]
      BY <3>2 DEF IInv, PlanInv
    <3> QED BY <3>1, <3>3
  <2> QED BY <1>1, <2>1, CauseOf DEF OutcomeInv, FailureHasCause
<1>4. error' = "Eof" => (mdat.readable < payload_end)'
  <2>1. ASSUME InputEnds
        PROVE  mdat.readable < payload_end
    <3>1. NextRead > 0 /\ ~(input_position + NextRead <= mdat.readable)
      BY <2>1 DEF InputEnds, CanRead
    <3>2. NextRead \in Int /\ input_position + NextRead <= payload_end
      BY <3>1, ReadsStayInside
    <3>3. input_position \in Nat /\ mdat.readable \in Nat /\ payload_end \in Nat
      BY PlanType DEF IInv, TypeOK
    <3> QED BY <3>1, <3>2, <3>3
  <2> QED BY <1>1, <2>1, CauseOf DEF OutcomeInv, FailureHasCause
<1> QED BY <1>2, <1>3, <1>4 DEF FailureHasCause
-----------------------------------------------------------------------------
(* As long as the stream runs, the window holds what its read was for: a   *)
(* chunk of a gap, or a sample.                                            *)
LEMMA RunningWindow ==
  ASSUME IInv, pc # "failed"
  PROVE  WindowIsBounded
<1>1. /\ BufferLen \in Nat \ {0} /\ raw_queue \in RawQueue
      /\ QueueTail(raw_queue) = raw_queue.head + Len(raw_queue.bytes)
      /\ raw_queue.head \in Nat /\ Len(raw_queue.bytes) \in Nat
  BY BufferAssumption, RawQueueType DEF IInv, TypeOK
<1>2. CASE pc = "copy"
  <2>1. raw_queue.head = copy_cursor /\ QueueTail(raw_queue) <= chunk_end
    BY <1>2 DEF IInv, WindowInv, WrittenTo, target_end
  <2>2. copy_cursor \in Nat /\ copy_end \in Nat
    BY StageType DEF IInv, TypeOK
  <2>3. chunk_end <= copy_cursor + BufferLen /\ chunk_end \in Nat
    BY <1>1, <2>2 DEF chunk_end, Lower
  <2> QED BY <1>1, <2>1, <2>2, <2>3 DEF WindowIsBounded
<1>3. CASE pc = "sample"
  <2>1. stage.item \in Places /\ cursor = StartOf(stage.item)
    BY <1>3 DEF IInv, AlignInv, ItemInHand
  <2>2. raw_queue.head = cursor /\ QueueTail(raw_queue) <= EndOf(stage.item)
    BY <1>3 DEF IInv, WindowInv, WrittenTo, target_end, EditAtHand, EndOf
  <2>3. /\ StartOf(stage.item) \in Nat /\ range_items[stage.item].sample_size \in Nat
        /\ EndOf(stage.item) = StartOf(stage.item) + range_items[stage.item].sample_size
    BY <2>1, ItemType DEF IInv
  <2>4. Len(raw_queue.bytes) <= range_items[stage.item].sample_size
    BY <1>1, <2>1, <2>2, <2>3
  <2>5. PICK i \in DOMAIN mdat.edits : range_items[stage.item] = mdat.edits[i]
    BY <2>1 DEF IInv, PlanInv
  <2> QED BY <2>4, <2>5 DEF WindowIsBounded
<1>4. CASE pc \in {"header", "next_stage", "dispatch", "done"}
  <2>1. raw_queue.bytes = << >>
    BY <1>4 DEF IInv, WindowInv, RawQueueAt
  <2> QED BY <1>1, <2>1 DEF WindowIsBounded
<1> QED BY <1>2, <1>3, <1>4 DEF IInv, TypeOK, Outcomes

(* A step that fails keeps the window or has emptied it.                   *)
LEMMA FailingWindow ==
  ASSUME IInv, OutcomeInv, [Next]_vars, pc' = "failed"
  PROVE  WindowIsBounded'
<1>1. mdat' = mdat
  BY ItemsStay
<1>2. \/ raw_queue' = raw_queue
      \/ pc = "sample" /\ Filled /\ raw_queue' = TrimTo(raw_queue, target_end)
  <2>1. CASE DecryptSample \/ RejectSample
    BY <2>1 DEF DecryptSample, RejectSample
  <2>2. CASE ~DecryptSample /\ ~RejectSample
    BY <2>2 DEF Next, Advance, CopyHeader, AskParser, StopAtOverlap, StageAuxiliaryInfo,
       BeginCopy, BeginSample, FillQueue, CopyChunk, EndCopy, Finish, InputEnds,
       InputFails, OutputFails, Returned, vars, streamVars, Fail
  <2> QED BY <2>1, <2>2
<1>3. CASE raw_queue' = raw_queue
  BY <1>1, <1>3 DEF OutcomeInv, WindowIsBounded
<1>4. CASE pc = "sample" /\ Filled /\ raw_queue' = TrimTo(raw_queue, target_end)
  <2>1. raw_queue'.bytes = << >>
    BY <1>4, SampleTrim
  <2> QED BY <2>1, BufferAssumption DEF WindowIsBounded
<1> QED BY <1>2, <1>3, <1>4
-----------------------------------------------------------------------------
(* The outcome of a run is as good as its invariant says: served samples   *)
(* were decodable and apart, and every failure is accounted for.           *)
THEOREM OutcomeInvariant == Spec => [](IInv /\ OutcomeInv)
<1>1. Init => IInv /\ OutcomeInv
  BY InitHolds, InitOutcome
<1>2. IInv /\ pc # "failed" => WindowIsBounded
  BY RunningWindow
<1>3. IInv /\ OutcomeInv /\ [Next]_vars => IInv'
  BY NextKeeps
<1>4. IInv /\ OutcomeInv /\ [Next]_vars /\ (pc # "failed" => WindowIsBounded)' => OutcomeInv'
  <2> SUFFICES ASSUME IInv, OutcomeInv, [Next]_vars, (pc # "failed" => WindowIsBounded)'
               PROVE  OutcomeInv'
    OBVIOUS
  <2>1. WindowIsBounded'
    BY FailingWindow
  <2> QED BY <2>1, PlacesKept, ServedKept, DoneServedKept, CausesKept DEF OutcomeInv
<1> QED BY <1>1, <1>2, <1>3, <1>4, PTL DEF Spec

(* The stream's window stays within one buffer or one sample, whatever the *)
(* size of the mdat: fill_progressive_raw_queue is never asked for more.   *)
THEOREM WindowStaysBounded == Spec => []WindowIsBounded
<1>1. OutcomeInv => WindowIsBounded
  BY DEF OutcomeInv
<1> QED BY <1>1, OutcomeInvariant, PTL

(* Unless a read or a write fails, the stream refuses a box only for       *)
(* samples that overlap, a sample that cannot be decrypted, or an input    *)
(* that ends inside the box.                                               *)
THEOREM FailuresHaveCauses == Spec => []FailureHasCause
<1>1. OutcomeInv => FailureHasCause
  BY DEF OutcomeInv
<1> QED BY <1>1, OutcomeInvariant, PTL

(* Items taken one behind the other do not overlap, unless one is empty.   *)
LEMMA ApartItems ==
  ASSUME IInv, NEW k \in Places, NEW l \in Places, k # l,
         \A m, n \in Places : m < n => EndOf(m) <= StartOf(n)
  PROVE  \/ range_items[k].sample_size = 0
         \/ range_items[l].sample_size = 0
         \/ ~Overlapping(range_items[k], range_items[l])
<1>1. /\ k \in Nat /\ l \in Nat
      /\ StartOf(k) \in Nat /\ EndOf(k) = StartOf(k) + range_items[k].sample_size
      /\ StartOf(l) \in Nat /\ EndOf(l) = StartOf(l) + range_items[l].sample_size
      /\ range_items[k].sample_size \in Nat /\ range_items[l].sample_size \in Nat
  BY ItemType DEF IInv
<1>2. Overlapping(range_items[k], range_items[l]) <=>
        StartOf(k) <= StartOf(l) /\ StartOf(l) < EndOf(k)
  BY DEF Overlapping, StartOf, EndOf
<1>3. EndOf(k) <= StartOf(l) \/ EndOf(l) <= StartOf(k)
  BY <1>1
<1> QED BY <1>1, <1>2, <1>3

(* A run that says it is done wrote the whole box, left the input at its   *)
(* end, and decrypted every sample of the plan once: none was skipped and  *)
(* none lay across another.                                                *)
THEOREM DoneRunsComplete == Spec => []DoneIsComplete
<1>1. IInv /\ OutcomeInv => DoneIsComplete
  <2> SUFFICES ASSUME IInv, OutcomeInv, pc = "done"
               PROVE  /\ Len(output) = mdat.size
                      /\ input_position = payload_end
                      /\ raw_queue.bytes = << >>
                      /\ \A i, j \in DOMAIN mdat.edits :
                           i # j => \/ mdat.edits[i].sample_size = 0
                                    \/ mdat.edits[j].sample_size = 0
                                    \/ ~Overlapping(mdat.edits[i], mdat.edits[j])
                      /\ \A i \in DOMAIN mdat.edits : mdat.edits[i].decodable
    BY DEF DoneIsComplete
  <2>1. Len(output) = mdat.size
    <3>1. mdat.offset + Len(output) = mdat.offset + mdat.size
      BY DEF IInv, OutputInv, WrittenTo, payload_end
    <3>2. Len(output) \in Nat /\ mdat.offset \in Nat /\ mdat.size \in Nat
      BY PlanType DEF IInv, TypeOK
    <3> QED BY <3>1, <3>2
  <2>2. input_position = payload_end /\ raw_queue.bytes = << >>
    <3>1. /\ raw_queue.head = payload_end /\ raw_queue.bytes = << >>
          /\ input_position = QueueTail(raw_queue)
      BY DEF IInv, WindowInv, WrittenTo
    <3>2. QueueTail(raw_queue) = raw_queue.head + 0 /\ payload_end \in Nat
      BY <3>1, RawQueueType, PlanType DEF IInv, TypeOK
    <3> QED BY <3>1, <3>2
  <2>3. /\ stage.kind = "Complete" /\ next_item_index = Len(range_items) /\ pending_item = 0
        /\ Len(range_items) \in Nat
    BY DEF OutcomeInv, DoneServed, IInv, TypeOK
  <2>4. \A k, l \in Places : k < l => EndOf(k) <= StartOf(l)
    BY <2>3 DEF OutcomeInv, TakenApart, Places
  <2>5. \A k \in Places : range_items[k].decodable
    <3>1. FirstUnserved = Len(range_items) + 1
      BY <2>3 DEF FirstUnserved
    <3>2. \A k \in Places : k < FirstUnserved
      BY <2>3, <3>1 DEF Places
    <3> QED BY <2>3, <3>2 DEF OutcomeInv, ServedDecodable
  <2>6. PICK place \in [Places -> DOMAIN mdat.edits] :
          /\ \A k \in Places : range_items[k] = mdat.edits[place[k]]
          /\ \A i \in DOMAIN mdat.edits : \E k \in Places : place[k] = i
    BY DEF OutcomeInv, EditsAreFiled
  <2>7. \A i \in DOMAIN mdat.edits : mdat.edits[i].decodable
    BY <2>5, <2>6
  <2>8. ASSUME NEW i \in DOMAIN mdat.edits, NEW j \in DOMAIN mdat.edits, i # j
        PROVE  \/ mdat.edits[i].sample_size = 0
               \/ mdat.edits[j].sample_size = 0
               \/ ~Overlapping(mdat.edits[i], mdat.edits[j])
    <3>1. PICK k \in Places, l \in Places : place[k] = i /\ place[l] = j
      BY <2>6
    <3>2. k # l /\ range_items[k] = mdat.edits[i] /\ range_items[l] = mdat.edits[j]
      BY <2>6, <2>8, <3>1
    <3> QED BY <2>4, <3>2, ApartItems
  <2> QED BY <2>1, <2>2, <2>7, <2>8
<1> QED BY <1>1, OutcomeInvariant, PTL
=============================================================================
