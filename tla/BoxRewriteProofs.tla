--------------------------- MODULE BoxRewriteProofs ---------------------------
(***************************************************************************)
(* The walk of BoxRewrite never loses its place, for every file, every set *)
(* of paths and every edit: the reader, what is left of each open sequence *)
(* and the open headers of the writer agree in every state.  And it keeps  *)
(* the promise of BoxRewritePromise: an output that is finished is the     *)
(* edited file, which is defined from the inside out.                      *)
(***************************************************************************)
EXTENDS BoxRewritePromise, SequenceTheorems, FiniteSetTheorems, SharedProofs

IsSequence(s) == s \in Seq({ s[i] : i \in DOMAIN s })

Frame == [remaining : Int, path : Seq(STRING), quick : BOOLEAN, of : Nat, trailing : Int]

TypeOK ==
  /\ job \in Jobs
  /\ state \in {"running", "done", "failed"}
  /\ reader \in Int
  /\ frames \in Seq(Frame) /\ depth >= 1
  /\ IsSequence(box_stack) /\ IsSequence(output)

(* Each open sequence is that of a box of the file, and each open header   *)
(* stands in the output, an inner one behind an outer one.                 *)
OpenBoxes ==
  state = "running" =>
    /\ \A d \in 2..depth : frames[d].of \in DOMAIN headers
    /\ \A d \in DOMAIN box_stack : box_stack[d].piece \in DOMAIN output
    /\ \A c, d \in DOMAIN box_stack : c < d => box_stack[c].piece < box_stack[d].piece

WalkInv == TypeOK /\ OpenBoxes /\ FramesAgree
-----------------------------------------------------------------------------
(* A sequence is one over the set of its own elements.                     *)
LEMMA SequenceIs ==
  ASSUME NEW S, NEW s \in Seq(S)
  PROVE  IsSequence(s) /\ Len(s) \in Nat /\ DOMAIN s = 1..Len(s)
<1> DEFINE T == { s[i] : i \in DOMAIN s }
<1>1. Len(s) \in Nat /\ DOMAIN s = 1..Len(s) /\ s \in [1..Len(s) -> S]
  BY LenProperties
<1>2. s \in [1..Len(s) -> T]
  BY <1>1
<1>3. s \in Seq(T)
  <2> HIDE DEF T
  <2> QED BY <1>1, <1>2
<1>4. IsSequence(s)
  BY <1>3 DEF IsSequence
<1> QED BY <1>1, <1>4

LEMMA SequenceLen ==
  ASSUME NEW s, IsSequence(s)
  PROVE  Len(s) \in Nat /\ DOMAIN s = 1..Len(s)
BY LenProperties DEF IsSequence

(* What follows leaves a prefix and its size as they were.                 *)
LEMMA ConcatKeeps ==
  ASSUME NEW s, IsSequence(s), NEW t, IsSequence(t)
  PROVE  /\ IsSequence(s \o t) /\ Len(s \o t) = Len(s) + Len(t)
         /\ \A i \in DOMAIN s : i \in DOMAIN (s \o t) /\ (s \o t)[i] = s[i]
         /\ \A i \in DOMAIN t : (s \o t)[Len(s) + i] = t[i]
         /\ \A n \in 0..Len(s) : SubSeq(s \o t, 1, n) = SubSeq(s, 1, n)
<1> DEFINE S == { s[i] : i \in DOMAIN s } \cup { t[i] : i \in DOMAIN t }
<1>1. s \in Seq(S) /\ t \in Seq(S)
  BY SeqMonotonic DEF IsSequence
<1>2. Len(s) \in Nat /\ Len(t) \in Nat /\ DOMAIN s = 1..Len(s) /\ DOMAIN t = 1..Len(t)
  BY SequenceLen
<1>3. s \o t \in Seq(S) /\ Len(s \o t) = Len(s) + Len(t)
  BY <1>1, ConcatProperties
<1>4. IsSequence(s \o t) /\ DOMAIN (s \o t) = 1..(Len(s) + Len(t))
  BY <1>3, SequenceIs
<1>5. \A i \in DOMAIN s : i \in DOMAIN (s \o t) /\ (s \o t)[i] = s[i]
  BY <1>1, <1>2, <1>4, ConcatProperties
<1>6. \A i \in DOMAIN t : (s \o t)[Len(s) + i] = t[i]
  BY <1>1, <1>2, ConcatProperties
<1>7. ASSUME NEW n \in 0..Len(s)
      PROVE  SubSeq(s \o t, 1, n) = SubSeq(s, 1, n)
  <2>1. CASE n = 0
    BY <2>1, SubSeqEmpty
  <2>2. CASE n # 0
    BY <1>1, <1>2, <2>2, SubSeqOfConcat1
  <2> QED BY <2>1, <2>2
<1> QED BY <1>3, <1>4, <1>5, <1>6, <1>7

LEMMA PairIs ==
  ASSUME NEW a, NEW b
  PROVE  /\ IsSequence(<< a >>) /\ Len(<< a >>) = 1 /\ << a >>[1] = a
         /\ IsSequence(<< a, b >>) /\ Len(<< a, b >>) = 2 /\ << a, b >>[1] = a
<1>1. << a >> \in Seq({a, b}) /\ << a, b >> \in Seq({a, b})
  OBVIOUS
<1> QED BY <1>1, SequenceIs

LEMMA AppendIs ==
  ASSUME NEW s, IsSequence(s), NEW e
  PROVE  /\ IsSequence(Append(s, e)) /\ Len(Append(s, e)) = Len(s) + 1
         /\ \A i \in DOMAIN s : i \in DOMAIN Append(s, e) /\ Append(s, e)[i] = s[i]
         /\ Append(s, e)[Len(s) + 1] = e
         /\ \A n \in 0..Len(s) : SubSeq(Append(s, e), 1, n) = SubSeq(s, 1, n)
<1>1. s \in Seq({ s[i] : i \in DOMAIN s } \cup {e})
  BY SeqMonotonic DEF IsSequence
<1>2. Append(s, e) = s \o << e >>
  BY <1>1, AppendIsConcat
<1>3. Len(s) \in Nat /\ DOMAIN s = 1..Len(s)
  BY SequenceLen
<1>4. IsSequence(<< e >>) /\ Len(<< e >>) = 1 /\ << e >>[1] = e
  BY PairIs
<1>5. 1 \in DOMAIN << e >>
  BY <1>4, SequenceLen
<1> QED BY <1>2, <1>3, <1>4, <1>5, ConcatKeeps

LEMMA FrontIs ==
  ASSUME NEW s, IsSequence(s), Len(s) > 0
  PROVE  LET front == SubSeq(s, 1, Len(s) - 1) IN
         /\ IsSequence(front) /\ Len(front) = Len(s) - 1
         /\ \A i \in 1..(Len(s) - 1) : front[i] = s[i]
<1> DEFINE S == { s[i] : i \in DOMAIN s }
           front == SubSeq(s, 1, Len(s) - 1)
<1>1. Len(s) \in Nat /\ DOMAIN s = 1..Len(s)
  BY SequenceLen
<1>2. \A i \in 1..(Len(s) - 1) : s[i] \in S
  BY <1>1
<1>3. /\ front \in Seq(S)
      /\ Len(front) = IF 1 <= Len(s) - 1 THEN Len(s) - 1 - 1 + 1 ELSE 0
      /\ \A i \in 1..(Len(s) - 1 - 1 + 1) : front[i] = s[1 + i - 1]
  BY <1>1, <1>2, SubSeqProperties
<1>4. Len(front) = Len(s) - 1
  BY <1>1, <1>3
<1>5. \A i \in 1..(Len(s) - 1) : front[i] = s[i]
  BY <1>1, <1>3
<1> QED BY <1>3, <1>4, <1>5, SequenceIs
-----------------------------------------------------------------------------
(* The walk over the boxes behind a sample entry stops within the entry: a *)
(* box it goes on from covers its header and lies in the entry.            *)
LEMMA BoxesEndIs ==
  ASSUME job \in Jobs, NEW at \in Nat, NEW limit \in Nat, at <= limit
  PROVE  BoxesEnd(job, at, limit) \in at..limit
<1> DEFINE goesOn(o) ==
             /\ o + SmallHeader <= limit /\ o \in DOMAIN job.headers
             /\ LET box == InfoIn(job, o) IN
                ~ box.extend_to_eof /\ CoversHeader(box) /\ EndOf(box) <= limit
           goes == { o \in at..limit : goesOn(o) }
           to == [o \in goes |-> EndOf(InfoIn(job, o))]
<1>1. ASSUME NEW o \in goes PROVE to[o] \in (o + 1)..limit
  <2> DEFINE box == InfoIn(job, o)
  <2>1. /\ o \in Nat /\ o \in DOMAIN job.headers /\ CoversHeader(box) /\ EndOf(box) <= limit
    OBVIOUS
  <2>2. job.headers[o] \in Header /\ job.length \in Nat
    BY <2>1, JobsAssumption
  <2>3. job.headers[o].field \in Nat
    BY <2>2 DEF Header
  <2>4. box.offset = o /\ box.size \in Int /\ box.header_size \in {SmallHeader, LargeHeader}
    BY <2>1, <2>2, <2>3 DEF InfoIn, ReadBack
  <2>5. to[o] = EndOf(box)
    OBVIOUS
  <2> HIDE DEF box, to
  <2> QED BY <2>1, <2>4, <2>5 DEF CoversHeader, EndOf, SmallHeader, LargeHeader
<1> DEFINE next == CHOOSE f : IsWalk(f, at..limit, goes, to)
<1>2. BoxesEnd(job, at, limit) = next[at]
  <2> DEFINE IsNext(f) ==
        f = [o \in at..limit |->
               IF /\ o + SmallHeader <= limit /\ o \in DOMAIN job.headers
                  /\ LET box == InfoIn(job, o) IN
                     ~ box.extend_to_eof /\ CoversHeader(box) /\ EndOf(box) <= limit
               THEN f[EndOf(InfoIn(job, o))] ELSE o]
  <2>1. BoxesEnd(job, at, limit) = (CHOOSE f : IsNext(f))[at]
    BY DEF BoxesEnd
  <2>2. \A f : IsNext(f) <=> IsWalk(f, at..limit, goes, to)
    BY DEF IsWalk
  <2> HIDE DEF IsNext, goes, to
  <2>3. (CHOOSE f : IsNext(f)) = CHOOSE f : IsWalk(f, at..limit, goes, to)
    BY <2>2
  <2> QED BY <2>1, <2>3
<1> HIDE DEF goes, to
<1>3. /\ \E f : IsWalk(f, at..limit, goes, to)
      /\ \A f : IsWalk(f, at..limit, goes, to) => \A o \in at..limit : f[o] \in o..limit
  <2>1. \A o \in goes \cap (at..limit) : to[o] \in (o + 1)..limit
    BY <1>1
  <2> QED BY <2>1, WalkStops
<1>4. IsWalk(next, at..limit, goes, to)
  BY <1>3
<1>5. at \in at..limit
  OBVIOUS
<1> HIDE DEF next
<1> QED BY <1>2, <1>3, <1>4, <1>5

(* What is known of a box of the file.                                     *)
LEMMA BoxIs ==
  ASSUME job \in Jobs, NEW at \in DOMAIN headers
  PROVE  /\ at \in Nat /\ InfoAt(at).offset = at
         /\ InfoAt(at).size \in Int /\ InfoAt(at).header_size \in Nat
         /\ OwnSize(at) \in Nat /\ headers[at].type \in STRING
         /\ EndOf(InfoAt(at)) = at + InfoAt(at).size
         /\ EndOf(InfoAt(at)) \in Int
         /\ PayloadSize(InfoAt(at)) = InfoAt(at).size - InfoAt(at).header_size
         /\ ChildrenOffset(InfoAt(at)) = at + InfoAt(at).header_size + OwnSize(at)
         /\ OwnSize(at) <= PayloadSize(InfoAt(at)) => TrailingSize(InfoAt(at)) \in Nat
<1> DEFINE box == InfoIn(job, at)
<1>1. job.length \in Nat /\ at \in Nat /\ headers[at] \in Header
  BY JobsAssumption DEF headers
<1>2. /\ headers[at].field \in Nat /\ headers[at].own \in Nat /\ headers[at].type \in STRING
  BY <1>1 DEF Header
<1>3. /\ InfoAt(at) = box /\ box.offset = at
      /\ box.header_size \in Nat /\ box.size \in Int
  BY <1>1, <1>2 DEF InfoAt, InfoIn, ReadBack, headers, LargeHeader, SmallHeader
<1>4. /\ EndOf(box) = at + box.size /\ EndOf(box) \in Int
      /\ PayloadSize(box) = box.size - box.header_size
  BY <1>1, <1>3 DEF EndOf, PayloadSize
<1>5. ChildrenOffset(box) = at + box.header_size + OwnSize(at)
  BY <1>3 DEF ChildrenOffset, ChildrenIn, OwnSize, headers
<1>6. OwnSize(at) <= PayloadSize(box) => TrailingSize(box) \in Nat
  <2> HIDE DEF box
  <2> SUFFICES ASSUME OwnSize(at) <= PayloadSize(box) PROVE TrailingSize(box) \in Nat
    OBVIOUS
  <2>1. ChildrenIn(job, box) = ChildrenOffset(box)
    BY DEF ChildrenOffset
  <2>2. /\ ChildrenIn(job, box) \in Nat /\ EndOf(box) \in Nat
        /\ ChildrenIn(job, box) <= EndOf(box)
    BY <1>1, <1>2, <1>3, <1>4, <1>5, <2>1 DEF OwnSize
  <2>3. BoxesEnd(job, ChildrenIn(job, box), EndOf(box)) \in ChildrenIn(job, box)..EndOf(box)
    BY <2>2, BoxesEndIs
  <2> QED BY <2>2, <2>3 DEF TrailingSize, TrailingIn
<1> QED BY <1>1, <1>2, <1>3, <1>4, <1>5, <1>6 DEF OwnSize

LEMMA FrameIs ==
  ASSUME TypeOK
  PROVE  /\ depth \in Nat /\ depth >= 1 /\ DOMAIN frames = 1..depth
         /\ \A d \in 1..depth : frames[d] \in Frame
         /\ frame \in Frame /\ frame.remaining \in Int /\ frame.trailing \in Int
         /\ frame.path \in Seq(STRING) /\ frame.quick \in BOOLEAN
<1>1. depth \in Nat /\ depth >= 1 /\ DOMAIN frames = 1..depth
  BY LenProperties DEF TypeOK, depth
<1>2. \A d \in 1..depth : frames[d] \in Frame
  BY <1>1, ElementOfSeq DEF TypeOK, depth
<1> QED BY <1>1, <1>2 DEF frame, Frame

(* A header that was read is one of the file's.                            *)
LEMMA ReadHeader ==
  ASSUME WalkInv, ReadsHeader
  PROVE  /\ state = "running" /\ reader \in DOMAIN headers /\ info = InfoAt(reader)
         /\ info.offset = reader /\ reader \in Nat /\ info.size \in Int
         /\ EndOf(info) = reader + info.size
         /\ current_path \in Seq(STRING)
<1>1. state = "running" /\ reader \in DOMAIN headers /\ info = InfoAt(reader)
  BY DEF ReadsHeader, InSequence, HasHeader, info
<1>2. headers[reader].type \in STRING
  BY <1>1, BoxIs DEF WalkInv, TypeOK
<1>3. current_path \in Seq(STRING)
  BY <1>2, FrameIs, AppendProperties DEF WalkInv, current_path
<1> QED BY <1>1, <1>3, BoxIs DEF WalkInv, TypeOK

(* A step that stops the walk leaves nothing to agree on.                  *)
LEMMA StopKeeps ==
  ASSUME WalkInv, state' \in {"done", "failed"}, job' = job, frames' = frames,
         box_stack' = box_stack, IsSequence(output'), reader' \in Int
  PROVE  WalkInv'
BY DEF WalkInv, TypeOK, OpenBoxes, FramesAgree, depth, IsSequence

LEMMA FailKeeps ==
  ASSUME WalkInv, NEW why, Fail(why)
  PROVE  WalkInv'
<1>1. IsSequence(output') /\ reader' \in Int
  BY DEF WalkInv, TypeOK, Fail
<1> QED BY <1>1, StopKeeps DEF Fail

LEMMA CopyFileKeeps ==
  ASSUME WalkInv, CopyFile
  PROVE  WalkInv'
<1>1. IsSequence(output')
  BY PairIs DEF CopyFile
<1>2. reader' \in Int
  BY JobsAssumption DEF CopyFile, WalkInv, TypeOK
<1> QED BY <1>1, <1>2, StopKeeps DEF CopyFile

LEMMA EndOfFileKeeps ==
  ASSUME WalkInv, EndOfFile
  PROVE  WalkInv'
<1>1. IsSequence(output') /\ reader' \in Int
  BY DEF WalkInv, TypeOK, EndOfFile
<1> QED BY <1>1, StopKeeps DEF EndOfFile
-----------------------------------------------------------------------------
LEMMA ChargedIs ==
  ASSUME frame \in Frame, info.size \in Int, NEW quick \in BOOLEAN
  PROVE  /\ Charged(quick) \in Frame
         /\ Charged(quick).of = frame.of /\ Charged(quick).trailing = frame.trailing
         /\ ~ IsRoot => Charged(quick).remaining = frame.remaining - info.size
<1> DEFINE left == IF IsRoot THEN frame.remaining ELSE LessBox(frame.remaining, info.size)
<1>1. frame.remaining \in Int
  BY DEF Frame
<1>2. left \in Int /\ (~ IsRoot => left = frame.remaining - info.size)
  BY <1>1 DEF LessBox
<1>3. Charged(quick) = [frame EXCEPT !.remaining = left, !.quick = quick]
  BY DEF Charged
<1> HIDE DEF left
<1> QED BY <1>2, <1>3 DEF Frame

(* Taking a box from a sequence leaves the open sequences above it, and    *)
(* the one it is taken from ends where it did.                             *)
LEMMA CopyBoxKeeps ==
  ASSUME WalkInv, CopyBox
  PROVE  WalkInv'
<1> DEFINE n == depth
<1>1. /\ state = "running" /\ reader \in DOMAIN headers /\ info = InfoAt(reader)
      /\ reader \in Nat /\ info.size \in Int /\ EndOf(info) = reader + info.size
  BY ReadHeader DEF CopyBox
<1>2. /\ n \in Nat /\ n >= 1 /\ DOMAIN frames = 1..n /\ frames \in Seq(Frame)
      /\ frame \in Frame /\ frame.remaining \in Int
  BY FrameIs DEF WalkInv, TypeOK
<1>3. /\ reader' = reader + info.size /\ state' = "running" /\ job' = job
      /\ box_stack' = box_stack /\ output' = Append(output, CopyPiece(reader, info.size, "copy"))
      /\ frames' = [frames EXCEPT ![n] = Charged(frame.quick \/ NamesQuickTime)]
  BY <1>1 DEF CopyBox
<1> DEFINE taken == Charged(frame.quick \/ NamesQuickTime)
<1>4. /\ taken \in Frame /\ taken.of = frame.of /\ taken.trailing = frame.trailing
      /\ ~ IsRoot => taken.remaining = frame.remaining - info.size
  BY <1>1, <1>2, ChargedIs
<1>5. frames' = [frames EXCEPT ![n] = taken]
  BY <1>3
<1> HIDE DEF taken
<1>6. /\ frames' \in Seq(Frame) /\ depth' = n
      /\ \A d \in 1..n : frames'[d] = IF d = n THEN taken ELSE frames[d]
  BY <1>2, <1>4, <1>5, ExceptSeq DEF depth
<1>7. /\ IsSequence(output')
      /\ \A i \in DOMAIN output : i \in DOMAIN output' /\ output'[i] = output[i]
      /\ \A m \in 0..Len(output) : SubSeq(output', 1, m) = SubSeq(output, 1, m)
  BY <1>3, AppendIs DEF WalkInv, TypeOK
<1>8. TypeOK'
  BY <1>1, <1>2, <1>3, <1>6, <1>7 DEF WalkInv, TypeOK
<1>9. \A d \in 1..n : frames'[d].of = frames[d].of /\ frames'[d].trailing = frames[d].trailing
  BY <1>2, <1>4, <1>6 DEF frame
<1>10. headers' = headers /\ \A at : InfoAt(at)' = InfoAt(at)
  BY <1>3 DEF headers, InfoAt
<1>11. OpenBoxes'
  BY <1>1, <1>2, <1>3, <1>6, <1>7, <1>9, <1>10 DEF WalkInv, OpenBoxes
<1>12. ASSUME NEW d \in 2..n
       PROVE  NextStart(d)' + frames'[d].remaining = SequenceEnd(d)'
  <2>1. SequenceEnd(d)' = SequenceEnd(d)
    BY <1>2, <1>9, <1>10, <1>12 DEF SequenceEnd
  <2>2. NextStart(d) + frames[d].remaining = SequenceEnd(d)
    BY <1>1, <1>12 DEF WalkInv, FramesAgree
  <2>3. CASE d = n
    <3>1. NextStart(d) = reader /\ NextStart(d)' = reader + info.size
      BY <1>3, <1>6, <2>3 DEF NextStart
    <3>2. frames'[d].remaining = frames[d].remaining - info.size /\ frames[d].remaining \in Int
      BY <1>2, <1>4, <1>6, <1>12, <2>3 DEF IsRoot, frame
    <3> QED BY <1>1, <2>1, <2>2, <3>1, <3>2
  <2>4. CASE d # n
    <3>1. d + 1 \in 1..n /\ frames'[d] = frames[d]
      BY <1>2, <1>6, <1>12, <2>4
    <3>2. NextStart(d)' = NextStart(d)
      BY <1>6, <1>9, <1>10, <2>4, <3>1 DEF NextStart
    <3> QED BY <2>1, <2>2, <3>1, <3>2
  <2> QED BY <2>3, <2>4
<1>13. ASSUME NEW d \in DOMAIN box_stack
       PROVE  /\ output'[box_stack[d].piece].kind = "header"
              /\ output'[box_stack[d].piece].of = frames'[d + 1].of
              /\ box_stack[d].info.offset = SizeOf(SubSeq(output', 1, box_stack[d].piece - 1))
  <2>1. /\ Len(box_stack) = n - 1
        /\ output[box_stack[d].piece].kind = "header"
        /\ output[box_stack[d].piece].of = frames[d + 1].of
        /\ box_stack[d].info.offset = SizeOf(SubSeq(output, 1, box_stack[d].piece - 1))
    BY <1>1 DEF WalkInv, FramesAgree
  <2>2. box_stack[d].piece \in DOMAIN output /\ box_stack[d].piece - 1 \in 0..Len(output)
    BY <1>1, SequenceLen DEF WalkInv, TypeOK, OpenBoxes
  <2>3. d + 1 \in 1..n
    BY <1>2, <2>1, SequenceLen DEF WalkInv, TypeOK
  <2> QED BY <1>7, <1>9, <2>1, <2>2, <2>3
<1>14. FramesAgree'
  BY <1>1, <1>3, <1>6, <1>12, <1>13 DEF WalkInv, FramesAgree
<1> QED BY <1>8, <1>11, <1>14 DEF WalkInv

(* A box that is entered opens a sequence that ends in front of the bytes  *)
(* behind it, and a header whose size counts from where the output ended.  *)
LEMMA EnterBoxKeeps ==
  ASSUME WalkInv, EnterBox
  PROVE  WalkInv'
<1> DEFINE n == depth
           taken == Charged(frame.quick)
           quick == frame.quick \/ NamesQuickTime
           opened == [remaining |-> PayloadSize(info) - OwnSize(reader) - TrailingSize(info),
                      path |-> current_path, quick |-> quick,
                      of |-> reader, trailing |-> TrailingSize(info)]
           placed == [info |-> Normalized(Placeholder, SizeOf(output)), piece |-> Len(output) + 1]
           pieces == << HeaderPiece(Placeholder, reader), PayloadPiece(reader, current_path) >>
<1>1. /\ state = "running" /\ reader \in DOMAIN headers /\ info = InfoAt(reader)
      /\ reader \in Nat /\ info.size \in Int /\ EndOf(info) = reader + info.size
      /\ current_path \in Seq(STRING)
  BY ReadHeader DEF EnterBox
<1>2. /\ n \in Nat /\ n >= 1 /\ DOMAIN frames = 1..n /\ frames \in Seq(Frame)
      /\ frame \in Frame /\ frame.remaining \in Int /\ frame.quick \in BOOLEAN
  BY FrameIs DEF WalkInv, TypeOK
<1>3. /\ info.header_size \in Nat /\ OwnSize(reader) \in Nat /\ TrailingSize(info) \in Nat
      /\ PayloadSize(info) = info.size - info.header_size
      /\ ChildrenOffset(info) = reader + info.header_size + OwnSize(reader)
  <2>1. OwnSize(reader) <= PayloadSize(info)
    BY <1>1, BoxIs DEF EnterBox, Decodes, WalkInv, TypeOK
  <2> QED BY <1>1, <2>1, BoxIs DEF WalkInv, TypeOK
<1>4. /\ reader' = ChildrenOffset(info) /\ state' = "running" /\ job' = job
      /\ box_stack' = Append(box_stack, placed) /\ output' = output \o pieces
      /\ frames' = Append([frames EXCEPT ![n] = taken], opened)
  BY <1>1 DEF EnterBox
<1>5. /\ taken \in Frame /\ taken.of = frame.of /\ taken.trailing = frame.trailing
      /\ ~ IsRoot => taken.remaining = frame.remaining - info.size
  BY <1>1, <1>2, ChargedIs
<1>6. /\ opened \in Frame /\ opened.of = reader /\ opened.trailing = TrailingSize(info)
      /\ opened.remaining + ChildrenOffset(info) = EndOf(info) - TrailingSize(info)
  <2>1. opened.remaining \in Int
    BY <1>1, <1>3
  <2>2. quick \in BOOLEAN
    OBVIOUS
  <2>3. opened \in Frame
    <3> HIDE DEF quick
    <3> QED BY <1>1, <1>3, <2>1, <2>2 DEF Frame
  <2> QED BY <1>1, <1>3, <2>3
<1>7. pieces[1].kind = "header" /\ pieces[1].of = reader /\ IsSequence(pieces) /\ Len(pieces) = 2
  <2>1. HeaderPiece(Placeholder, reader).kind = "header" /\ HeaderPiece(Placeholder, reader).of = reader
    BY DEF HeaderPiece
  <2> QED BY <2>1, PairIs
<1>8. placed.piece = Len(output) + 1 /\ placed.info.offset = SizeOf(output)
  BY DEF Normalized
<1> HIDE DEF taken, opened, placed, pieces
<1>9. /\ frames' \in Seq(Frame) /\ depth' = n + 1 /\ frames'[n + 1] = opened
      /\ \A d \in 1..n : frames'[d] = IF d = n THEN taken ELSE frames[d]
  <2> DEFINE left == [frames EXCEPT ![n] = taken]
  <2>1. /\ left \in Seq(Frame) /\ Len(left) = n
        /\ \A d \in 1..n : left[d] = IF d = n THEN taken ELSE frames[d]
    BY <1>2, <1>5, ExceptSeq DEF depth
  <2>2. frames' = Append(left, opened)
    BY <1>4
  <2> HIDE DEF left
  <2>3. /\ frames' \in Seq(Frame) /\ Len(frames') = n + 1 /\ frames'[n + 1] = opened
        /\ \A d \in 1..n : frames'[d] = left[d]
    BY <1>6, <2>1, <2>2, AppendProperties
  <2> QED BY <2>1, <2>3 DEF depth
<1>10. /\ IsSequence(output') /\ Len(output') = Len(output) + 2 /\ Len(output) \in Nat
       /\ \A i \in DOMAIN output : i \in DOMAIN output' /\ output'[i] = output[i]
       /\ output'[Len(output) + 1] = pieces[1]
       /\ \A m \in 0..Len(output) : SubSeq(output', 1, m) = SubSeq(output, 1, m)
       /\ SubSeq(output, 1, Len(output)) = output
  <2>1. IsSequence(output) /\ Len(output) \in Nat /\ 1 \in DOMAIN pieces
    BY <1>7, SequenceLen DEF WalkInv, TypeOK
  <2>2. SubSeq(output, 1, Len(output)) = output
    BY <2>1, SubSeqFull DEF IsSequence
  <2>3. /\ IsSequence(output') /\ Len(output') = Len(output) + Len(pieces)
        /\ \A i \in DOMAIN output : i \in DOMAIN output' /\ output'[i] = output[i]
        /\ \A i \in DOMAIN pieces : output'[Len(output) + i] = pieces[i]
        /\ \A m \in 0..Len(output) : SubSeq(output', 1, m) = SubSeq(output, 1, m)
    <3>1. output' = output \o pieces /\ IsSequence(pieces)
      BY <1>4, <1>7
    <3>2. IsSequence(output)
      BY <2>1
    <3> DEFINE both == output \o pieces
    <3>3. /\ IsSequence(both) /\ Len(both) = Len(output) + Len(pieces)
          /\ \A i \in DOMAIN output : i \in DOMAIN both /\ both[i] = output[i]
          /\ \A i \in DOMAIN pieces : both[Len(output) + i] = pieces[i]
          /\ \A m \in 0..Len(output) : SubSeq(both, 1, m) = SubSeq(output, 1, m)
      BY <3>1, <3>2, ConcatKeeps
    <3>4. output' = both
      BY <3>1
    <3> HIDE DEF both
    <3> QED BY <3>3, <3>4
  <2>4. output'[Len(output) + 1] = pieces[1]
    BY <2>1, <2>3
  <2>5. Len(output') = Len(output) + 2
    BY <1>7, <2>3
  <2> QED BY <2>1, <2>2, <2>3, <2>4, <2>5, Zenon
<1>11. /\ IsSequence(box_stack') /\ Len(box_stack) = n - 1 /\ Len(box_stack') = n
       /\ DOMAIN box_stack = 1..(n - 1) /\ DOMAIN box_stack' = 1..n
       /\ \A d \in 1..(n - 1) : box_stack'[d] = box_stack[d]
       /\ box_stack'[n] = placed
  <2>1. IsSequence(box_stack) /\ Len(box_stack) = n - 1 /\ DOMAIN box_stack = 1..(n - 1)
    BY <1>1, SequenceLen DEF WalkInv, TypeOK, FramesAgree
  <2>2. /\ IsSequence(box_stack') /\ Len(box_stack') = n
        /\ \A d \in 1..(n - 1) : box_stack'[d] = box_stack[d]
        /\ box_stack'[n] = placed
    BY <1>2, <1>4, <2>1, AppendIs
  <2> QED BY <2>1, <2>2, SequenceLen
<1>12. TypeOK'
  BY <1>1, <1>2, <1>3, <1>4, <1>9, <1>10, <1>11 DEF WalkInv, TypeOK
<1>13. headers' = headers /\ \A at : InfoAt(at)' = InfoAt(at)
  BY <1>4 DEF headers, InfoAt
<1>14. \A d \in 1..n : frames'[d].of = frames[d].of /\ frames'[d].trailing = frames[d].trailing
  BY <1>2, <1>5, <1>9 DEF frame
<1>15. OpenBoxes'
  <2>1. \A d \in 2..(n + 1) : frames'[d].of \in DOMAIN headers
    BY <1>1, <1>2, <1>6, <1>9, <1>14 DEF WalkInv, OpenBoxes
  <2>2. Len(output) + 1 \in DOMAIN output'
    BY <1>10, SequenceLen
  <2>3. \A d \in 1..(n - 1) : box_stack[d].piece \in DOMAIN output
    BY <1>1, <1>11 DEF WalkInv, OpenBoxes
  <2>4. \A d \in 1..n : box_stack'[d].piece \in DOMAIN output'
    BY <1>2, <1>8, <1>10, <1>11, <2>2, <2>3
  <2>5. \A d \in 1..(n - 1) : box_stack[d].piece < Len(output) + 1
    BY <1>10, <2>3, SequenceLen DEF WalkInv, TypeOK
  <2>6. ASSUME NEW c \in 1..n, NEW d \in 1..n, c < d
        PROVE  box_stack'[c].piece < box_stack'[d].piece
    <3>1. c \in 1..(n - 1) /\ box_stack'[c] = box_stack[c]
      BY <1>2, <1>11, <2>6
    <3>2. CASE d = n
      BY <1>8, <1>11, <2>5, <3>1, <3>2
    <3>3. CASE d # n
      <4>1. d \in 1..(n - 1) /\ box_stack'[d] = box_stack[d]
        BY <1>2, <1>11, <3>3
      <4> QED BY <1>1, <1>11, <2>6, <3>1, <4>1 DEF WalkInv, OpenBoxes
    <3> QED BY <3>2, <3>3
  <2> QED BY <1>9, <1>11, <1>13, <2>1, <2>4, <2>6 DEF OpenBoxes
<1>16. ASSUME NEW d \in 2..(n + 1)
       PROVE  NextStart(d)' + frames'[d].remaining = SequenceEnd(d)'
  <2>1. CASE d = n + 1
    <3>1. NextStart(d)' = ChildrenOffset(info)
      BY <1>4, <1>9, <2>1 DEF NextStart
    <3>2. SequenceEnd(d)' = EndOf(info) - TrailingSize(info)
      BY <1>1, <1>6, <1>9, <1>13, <2>1 DEF SequenceEnd
    <3>3. opened.remaining \in Int /\ ChildrenOffset(info) \in Int
      BY <1>1, <1>3, <1>6 DEF Frame
    <3> QED BY <1>6, <1>9, <2>1, <3>1, <3>2, <3>3
  <2>2. CASE d = n
    <3>1. NextStart(d) + frames[d].remaining = SequenceEnd(d) /\ NextStart(d) = reader
      BY <1>1, <1>2, <1>16, <2>2 DEF WalkInv, FramesAgree, NextStart
    <3>2. NextStart(d)' = reader + info.size
      BY <1>1, <1>2, <1>6, <1>9, <1>13, <2>2 DEF NextStart
    <3>3. frames'[d].remaining = frames[d].remaining - info.size /\ frames[d].remaining \in Int
      BY <1>2, <1>5, <1>9, <1>16, <2>2 DEF IsRoot, frame
    <3>4. SequenceEnd(d)' = SequenceEnd(d)
      BY <1>2, <1>13, <1>14, <1>16, <2>2 DEF SequenceEnd
    <3> QED BY <1>1, <3>1, <3>2, <3>3, <3>4
  <2>3. CASE d \in 2..(n - 1)
    <3>1. NextStart(d) + frames[d].remaining = SequenceEnd(d)
      BY <1>1, <1>2, <2>3 DEF WalkInv, FramesAgree
    <3>2. d \in 1..n /\ d + 1 \in 1..n /\ d # n /\ d # n + 1
      BY <1>2, <2>3
    <3>3. NextStart(d)' = NextStart(d)
      BY <1>9, <1>13, <1>14, <3>2 DEF NextStart
    <3>4. SequenceEnd(d)' = SequenceEnd(d) /\ frames'[d] = frames[d]
      BY <1>9, <1>13, <1>14, <3>2 DEF SequenceEnd
    <3> QED BY <3>1, <3>3, <3>4
  <2> QED BY <1>2, <1>16, <2>1, <2>2, <2>3
<1>17. ASSUME NEW d \in 1..n
       PROVE  /\ output'[box_stack'[d].piece].kind = "header"
              /\ output'[box_stack'[d].piece].of = frames'[d + 1].of
              /\ box_stack'[d].info.offset = SizeOf(SubSeq(output', 1, box_stack'[d].piece - 1))
  <2>1. CASE d = n
    <3>1. Len(output) + 1 - 1 = Len(output)
      BY <1>10
    <3>2. SubSeq(output', 1, Len(output)) = output
      BY <1>10
    <3>3. box_stack'[d] = placed /\ output'[placed.piece] = pieces[1]
      BY <1>8, <1>10, <1>11, <2>1
    <3>4. frames'[d + 1].of = reader
      BY <1>6, <1>9, <2>1
    <3>5. box_stack'[d].piece - 1 = Len(output)
      BY <1>8, <3>1, <3>3
    <3>6. box_stack'[d].info.offset = SizeOf(SubSeq(output', 1, box_stack'[d].piece - 1))
      BY <1>8, <3>2, <3>3, <3>5
    <3> QED BY <1>7, <3>3, <3>4, <3>6
  <2>2. CASE d # n
    <3>1. d \in 1..(n - 1) /\ d + 1 \in 1..n
      BY <1>2, <2>2
    <3>2. /\ output[box_stack[d].piece].kind = "header"
          /\ output[box_stack[d].piece].of = frames[d + 1].of
          /\ box_stack[d].info.offset = SizeOf(SubSeq(output, 1, box_stack[d].piece - 1))
          /\ box_stack[d].piece \in DOMAIN output
      BY <1>1, <1>11, <3>1 DEF WalkInv, FramesAgree, OpenBoxes
    <3>3. box_stack[d].piece - 1 \in 0..Len(output)
      BY <3>2, SequenceLen DEF WalkInv, TypeOK
    <3> QED BY <1>10, <1>11, <1>14, <3>1, <3>2, <3>3
  <2> QED BY <2>1, <2>2
<1>18. FramesAgree'
  <2>1. Len(box_stack') = depth' - 1 /\ DOMAIN box_stack' = 1..n /\ depth' = n + 1
    BY <1>2, <1>9, <1>11
  <2> HIDE DEF n
  <2> QED BY <1>16, <1>17, <2>1 DEF FramesAgree
<1> QED BY <1>12, <1>15, <1>18 DEF WalkInv
-----------------------------------------------------------------------------
LEMMA ExceptKeeps ==
  ASSUME NEW s, IsSequence(s), NEW i \in DOMAIN s, NEW e
  PROVE  /\ IsSequence([s EXCEPT ![i] = e]) /\ Len([s EXCEPT ![i] = e]) = Len(s)
         /\ DOMAIN [s EXCEPT ![i] = e] = DOMAIN s
         /\ \A j \in DOMAIN s : j # i => [s EXCEPT ![i] = e][j] = s[j]
         /\ \A m \in 0..(i - 1) : SubSeq([s EXCEPT ![i] = e], 1, m) = SubSeq(s, 1, m)
<1> DEFINE S == { s[j] : j \in DOMAIN s } \cup {e}
           t == [s EXCEPT ![i] = e]
<1>1. Len(s) \in Nat /\ DOMAIN s = 1..Len(s)
  BY SequenceLen
<1>2. s \in Seq(S)
  BY SeqMonotonic DEF IsSequence
<1>3. /\ t \in Seq(S) /\ Len(t) = Len(s)
      /\ \A j \in 1..Len(s) : t[j] = IF j = i THEN e ELSE s[j]
  BY <1>1, <1>2, ExceptSeq
<1>4. IsSequence(t) /\ DOMAIN t = 1..Len(s)
  BY <1>3, SequenceIs
<1> HIDE DEF t
<1>5. ASSUME NEW m \in 0..(i - 1)
      PROVE  SubSeq(t, 1, m) = SubSeq(s, 1, m)
  <2>1. \A j \in 1..m : j \in 1..Len(s) /\ j # i
    BY <1>1
  <2>2. (\A j \in 1..m : t[j] \in S) /\ (\A j \in 1..m : s[j] \in S) /\ m \in Int
    BY <1>1, <1>2, <1>3, <2>1, ElementOfSeq
  <2>3. /\ SubSeq(t, 1, m) \in Seq(S) /\ SubSeq(s, 1, m) \in Seq(S)
        /\ Len(SubSeq(t, 1, m)) = m /\ Len(SubSeq(s, 1, m)) = m
        /\ \A j \in 1..m : SubSeq(t, 1, m)[j] = t[j] /\ SubSeq(s, 1, m)[j] = s[j]
    BY <2>2, SubSeqProperties
  <2>4. \A j \in 1..m : SubSeq(t, 1, m)[j] = SubSeq(s, 1, m)[j]
    BY <1>3, <2>1, <2>3
  <2> QED BY <2>3, <2>4, SeqEqual
<1> QED BY <1>1, <1>3, <1>4, <1>5 DEF t

(* A box that ends gives the reader back to the sequence around it, which  *)
(* went on counting from behind the box when the box was entered.          *)
LEMMA EndBoxKeeps ==
  ASSUME WalkInv, EndBox
  PROVE  WalkInv'
<1> DEFINE n == depth
           front == SubSeq(frames, 1, n - 1)
           final == HeaderPiece(Final, frame.of)
           again == [output EXCEPT ![started.piece] = final]
<1>1. state = "running" /\ ~ IsRoot
  BY DEF EndBox, MayEnd, AtSequenceEnd
<1>2. /\ n \in Nat /\ n >= 2 /\ DOMAIN frames = 1..n /\ frames \in Seq(Frame)
      /\ \A d \in 1..n : frames[d] \in Frame
  BY <1>1, FrameIs DEF WalkInv, TypeOK, IsRoot
<1>3. /\ IsSequence(box_stack) /\ Len(box_stack) = n - 1 /\ DOMAIN box_stack = 1..(n - 1)
      /\ IsSequence(output) /\ Len(output) \in Nat /\ DOMAIN output = 1..Len(output)
  BY <1>1, SequenceLen DEF WalkInv, TypeOK, FramesAgree
<1>4. /\ reader' = EndOf(InfoAt(frame.of)) /\ state' = "running" /\ job' = job
      /\ box_stack' = SubSeq(box_stack, 1, Len(box_stack) - 1) /\ output' = again \o Trailing
      /\ frames' = [front EXCEPT ![n - 1].quick = @ \/ frame.quick]
  BY <1>1 DEF EndBox
<1>5. headers' = headers /\ \A at : InfoAt(at)' = InfoAt(at)
  BY <1>4 DEF headers, InfoAt
<1>6. /\ frames' \in Seq(Frame) /\ depth' = n - 1
      /\ \A d \in 1..(n - 1) : /\ frames'[d].of = frames[d].of
                               /\ frames'[d].trailing = frames[d].trailing
                               /\ frames'[d].remaining = frames[d].remaining
  <2> DEFINE quick == front[n - 1].quick \/ frame.quick
             left == [front[n - 1] EXCEPT !.quick = quick]
  <2>1. /\ front \in Seq(Frame) /\ Len(front) = n - 1
        /\ \A d \in 1..(n - 1) : front[d] = frames[d]
    <3>1. \A d \in 1..(n - 1) : frames[d] \in Frame
      BY <1>2
    <3>2. /\ front \in Seq(Frame)
          /\ Len(front) = IF 1 <= n - 1 THEN n - 1 - 1 + 1 ELSE 0
          /\ \A d \in 1..(n - 1 - 1 + 1) : front[d] = frames[1 + d - 1]
      BY <1>2, <3>1, SubSeqProperties
    <3>3. Len(front) = n - 1
      BY <1>2, <3>2
    <3>4. \A d \in 1..(n - 1) : front[d] = frames[d]
      BY <1>2, <3>2
    <3> QED BY <3>2, <3>3, <3>4
  <2>2. frames' = [front EXCEPT ![n - 1] = left]
    BY <1>4
  <2>3. /\ left \in Frame /\ left.of = frames[n - 1].of
        /\ left.trailing = frames[n - 1].trailing /\ left.remaining = frames[n - 1].remaining
    <3>1. quick \in BOOLEAN /\ front[n - 1] \in Frame /\ front[n - 1] = frames[n - 1]
      BY <1>2, <2>1
    <3> HIDE DEF quick
    <3> QED BY <3>1 DEF Frame
  <2> HIDE DEF left, front
  <2>4. /\ frames' \in Seq(Frame) /\ Len(frames') = n - 1
        /\ \A d \in 1..(n - 1) : frames'[d] = IF d = n - 1 THEN left ELSE front[d]
    BY <1>2, <2>1, <2>2, <2>3, ExceptSeq
  <2> QED BY <2>1, <2>3, <2>4 DEF depth
<1>7. /\ IsSequence(box_stack') /\ DOMAIN box_stack' = 1..(n - 2) /\ Len(box_stack') = n - 2
      /\ \A d \in 1..(n - 2) : box_stack'[d] = box_stack[d]
  <2>1. /\ IsSequence(box_stack') /\ Len(box_stack') = n - 1 - 1
        /\ \A d \in 1..(n - 1 - 1) : box_stack'[d] = box_stack[d]
    BY <1>2, <1>3, <1>4, FrontIs
  <2>2. n - 1 - 1 = n - 2
    BY <1>2
  <2> QED BY <2>1, <2>2, SequenceLen
<1>8. /\ started = box_stack[n - 1] /\ started.piece \in DOMAIN output
      /\ \A d \in 1..(n - 2) : box_stack[d].piece \in DOMAIN output
                               /\ box_stack[d].piece < started.piece
  <2>1. /\ \A d \in 1..(n - 1) : box_stack[d].piece \in DOMAIN output
        /\ \A c, d \in 1..(n - 1) : c < d => box_stack[c].piece < box_stack[d].piece
    BY <1>1, <1>3 DEF WalkInv, OpenBoxes
  <2>2. started = box_stack[n - 1]
    BY <1>3 DEF started
  <2>3. n - 1 \in 1..(n - 1) /\ \A d \in 1..(n - 2) : d \in 1..(n - 1) /\ d < n - 1
    BY <1>2
  <2> QED BY <2>1, <2>2, <2>3
<1>9. /\ IsSequence(output')
      /\ \A i \in DOMAIN output : i \in DOMAIN output'
      /\ \A i \in DOMAIN output : i # started.piece => output'[i] = output[i]
      /\ \A m \in 0..(started.piece - 1) : SubSeq(output', 1, m) = SubSeq(output, 1, m)
  <2>1. /\ IsSequence(again) /\ Len(again) = Len(output) /\ DOMAIN again = DOMAIN output
        /\ \A j \in DOMAIN output : j # started.piece => again[j] = output[j]
        /\ \A m \in 0..(started.piece - 1) : SubSeq(again, 1, m) = SubSeq(output, 1, m)
    <3> HIDE DEF final
    <3>1. IsSequence(output) /\ started.piece \in DOMAIN output
      BY <1>3, <1>8
    <3> QED BY <3>1, ExceptKeeps
  <2>2. IsSequence(Trailing)
    <3>1. IsSequence(<< >>)
      BY EmptySeq, SequenceIs
    <3> QED BY <3>1, PairIs DEF Trailing
  <2> HIDE DEF again
  <2>3. /\ IsSequence(output')
        /\ \A i \in DOMAIN again : i \in DOMAIN output' /\ output'[i] = again[i]
        /\ \A m \in 0..Len(again) : SubSeq(output', 1, m) = SubSeq(again, 1, m)
    BY <1>4, <2>1, <2>2, ConcatKeeps
  <2>4. \A m \in 0..(started.piece - 1) : m \in 0..Len(again)
    BY <1>3, <1>8, <2>1
  <2> QED BY <2>1, <2>3, <2>4
<1>10. TypeOK'
  <2>1. frame.of \in DOMAIN headers
    BY <1>1, <1>2 DEF WalkInv, OpenBoxes, frame
  <2>2. reader' \in Int
    BY <1>4, <2>1, BoxIs DEF WalkInv, TypeOK
  <2>3. depth' >= 1
    BY <1>2, <1>6
  <2> HIDE DEF n
  <2> QED BY <1>4, <1>6, <1>7, <1>9, <2>2, <2>3 DEF WalkInv, TypeOK
<1>11. OpenBoxes'
  <2>1. \A d \in 2..(n - 1) : frames'[d].of \in DOMAIN headers
    BY <1>1, <1>2, <1>6 DEF WalkInv, OpenBoxes
  <2>2. \A d \in 1..(n - 2) : box_stack'[d].piece \in DOMAIN output'
    BY <1>7, <1>8, <1>9
  <2>3. \A c, d \in 1..(n - 2) : c < d => box_stack'[c].piece < box_stack'[d].piece
    <3>1. \A c \in 1..(n - 2) : c \in DOMAIN box_stack
      BY <1>2, <1>3
    <3> QED BY <1>1, <1>7, <3>1 DEF WalkInv, OpenBoxes
  <2> QED BY <1>5, <1>6, <1>7, <2>1, <2>2, <2>3 DEF OpenBoxes
<1>12. ASSUME NEW d \in 2..(n - 1)
       PROVE  NextStart(d)' + frames'[d].remaining = SequenceEnd(d)'
  <2>1. d \in 1..(n - 1) /\ d \in 2..n /\ d # n /\ d + 1 \in 1..n
    BY <1>2, <1>12
  <2>2. NextStart(d) + frames[d].remaining = SequenceEnd(d)
    BY <1>1, <2>1 DEF WalkInv, FramesAgree
  <2>3. NextStart(d) = EndOf(InfoAt(frames[d + 1].of))
    BY <2>1 DEF NextStart
  <2>4. SequenceEnd(d)' = SequenceEnd(d)
    BY <1>5, <1>6, <2>1 DEF SequenceEnd
  <2>5. CASE d = n - 1
    <3>1. d + 1 = n
      BY <1>2, <2>5
    <3>2. NextStart(d)' = NextStart(d)
      BY <1>4, <1>6, <2>3, <2>5, <3>1 DEF NextStart, frame
    <3> QED BY <1>6, <2>1, <2>2, <2>4, <3>2
  <2>6. CASE d # n - 1
    <3>1. d + 1 \in 1..(n - 1)
      BY <1>2, <2>1, <2>6
    <3>2. NextStart(d)' = NextStart(d)
      BY <1>5, <1>6, <2>3, <2>6, <3>1 DEF NextStart
    <3> QED BY <1>6, <2>1, <2>2, <2>4, <3>2
  <2> QED BY <2>5, <2>6
<1>13. ASSUME NEW d \in 1..(n - 2)
       PROVE  /\ output'[box_stack'[d].piece].kind = "header"
              /\ output'[box_stack'[d].piece].of = frames'[d + 1].of
              /\ box_stack'[d].info.offset = SizeOf(SubSeq(output', 1, box_stack'[d].piece - 1))
  <2>1. d \in DOMAIN box_stack /\ d + 1 \in 1..(n - 1) /\ box_stack'[d] = box_stack[d]
    BY <1>2, <1>3, <1>7
  <2>2. /\ output[box_stack[d].piece].kind = "header"
        /\ output[box_stack[d].piece].of = frames[d + 1].of
        /\ box_stack[d].info.offset = SizeOf(SubSeq(output, 1, box_stack[d].piece - 1))
    BY <1>1, <2>1 DEF WalkInv, FramesAgree
  <2>3. /\ box_stack[d].piece \in DOMAIN output /\ box_stack[d].piece # started.piece
        /\ box_stack[d].piece - 1 \in 0..(started.piece - 1)
    BY <1>3, <1>8
  <2> QED BY <1>6, <1>9, <2>1, <2>2, <2>3
<1>14. FramesAgree'
  <2>1. Len(box_stack') = depth' - 1 /\ DOMAIN box_stack' = 1..(n - 2) /\ depth' = n - 1
    BY <1>2, <1>6, <1>7
  <2> HIDE DEF n
  <2> QED BY <1>12, <1>13, <2>1 DEF FramesAgree
<1> QED BY <1>10, <1>11, <1>14 DEF WalkInv
-----------------------------------------------------------------------------
LEMMA InitHolds ==
  ASSUME Init
  PROVE  WalkInv
<1>1. Root \in Frame
  BY DEF Root, Frame
<1>2. frames = << Root >> /\ frames \in Seq(Frame) /\ depth = 1
  BY <1>1 DEF Init, depth
<1>3. /\ box_stack = << >> /\ output = << >> /\ IsSequence(<< >>)
      /\ Len(box_stack) = 0 /\ DOMAIN box_stack = {}
  <2>1. << >> \in Seq({}) /\ Len(<< >>) = 0
    OBVIOUS
  <2>2. IsSequence(<< >>) /\ DOMAIN << >> = 1..0
    BY <2>1, SequenceIs
  <2> QED BY <2>1, <2>2 DEF Init
<1>4. TypeOK
  BY <1>2, <1>3 DEF Init, TypeOK
<1>5. OpenBoxes /\ FramesAgree
  BY <1>2, <1>3 DEF OpenBoxes, FramesAgree
<1> QED BY <1>4, <1>5 DEF WalkInv

LEMMA NextKeeps ==
  ASSUME WalkInv, [Next]_vars
  PROVE  WalkInv'
<1>1. CASE RefusePaths
  <2>1. IsSequence(output') /\ reader' \in Int
    BY <1>1 DEF WalkInv, TypeOK, RefusePaths
  <2> QED BY <1>1, <2>1, StopKeeps DEF RefusePaths
<1>2. CASE CopyFile
  BY <1>2, CopyFileKeeps
<1>3. CASE EndOfFile
  BY <1>3, EndOfFileKeeps
<1>4. CASE RefuseHeader \/ RefuseSize \/ RefuseCarrier \/ CopyFails \/ RefusePayload
           \/ RefuseRest \/ RefuseGrowth
  BY <1>4, FailKeeps DEF RefuseHeader, RefuseSize, RefuseCarrier, CopyFails, RefusePayload,
     RefuseRest, RefuseGrowth
<1>5. CASE CopyBox
  BY <1>5, CopyBoxKeeps
<1>6. CASE EnterBox
  BY <1>6, EnterBoxKeeps
<1>7. CASE EndBox
  BY <1>7, EndBoxKeeps
<1>8. CASE UNCHANGED vars
  <2>1. /\ job' = job /\ state' = state /\ reader' = reader /\ frames' = frames
        /\ box_stack' = box_stack /\ output' = output
    BY <1>8 DEF vars
  <2>2. depth' = depth /\ headers' = headers /\ \A at : InfoAt(at)' = InfoAt(at)
    BY <2>1 DEF depth, headers, InfoAt
  <2>3. \A d : NextStart(d)' = NextStart(d) /\ SequenceEnd(d)' = SequenceEnd(d)
    BY <2>1, <2>2 DEF NextStart, SequenceEnd
  <2>4. TypeOK' /\ OpenBoxes'
    BY <2>1, <2>2 DEF WalkInv, TypeOK, OpenBoxes, IsSequence
  <2>5. FramesAgree'
    BY <2>1, <2>2, <2>3 DEF WalkInv, FramesAgree
  <2> QED BY <2>4, <2>5 DEF WalkInv
<1> QED BY <1>1, <1>2, <1>3, <1>4, <1>5, <1>6, <1>7, <1>8, Zenon DEF Next, Walk, Ended

(* The walk's positions and types, together: each of them needs the others.*)
THEOREM WalkIsConsistent == Spec => []WalkInv
BY InitHolds, NextKeeps, PTL DEF Spec

(* process_box and the Writer never lose each other: as long as the rewrite*)
(* goes on, the reader and what is left of each open sequence lead to the  *)
(* end of its box, and end_box will find the header it is to write over.   *)
THEOREM FramesAlwaysAgree == Spec => []FramesAgree
<1>1. WalkInv => FramesAgree
  BY DEF WalkInv
<1> QED BY <1>1, WalkIsConsistent, PTL
-----------------------------------------------------------------------------
(* The pieces of an output, and of the edited file.                        *)
Kinds == {"header", "payload", "edited", "copy", "trailing"}

WrittenHeader == [form : {"Small", "Large", "ExtendToEof"}, field : Int]

Piece == [kind : Kinds, of : Int, size : Int, written : WrittenHeader]

(* The size of two lists of pieces, one behind the other, is that of both. *)
LEMMA SizeOfIs ==
  ASSUME NEW s \in Seq(Piece)
  PROVE  SizeOf(s) \in Int
<1> DEFINE f == [i \in DOMAIN s |-> s[i].size]
<1>1. Len(s) \in Nat /\ DOMAIN s = 1..Len(s) /\ \A i \in DOMAIN s : s[i] \in Piece
  BY LenProperties, ElementOfSeq
<1>2. \A i \in 1..Len(s) : f[i] \in Int
  BY <1>1 DEF Piece
<1> HIDE DEF f
<1>3. SumTo(f, Len(s)) \in Int
  BY <1>1, <1>2, SumToIs
<1> QED BY <1>3 DEF SizeOf, f

LEMMA SizeOfConcat ==
  ASSUME NEW s \in Seq(Piece), NEW t \in Seq(Piece)
  PROVE  SizeOf(s \o t) = SizeOf(s) + SizeOf(t)
<1> DEFINE sizes(p) == [i \in DOMAIN p |-> p[i].size]
           f == sizes(s \o t)
           g == sizes(s)
           h == sizes(t)
           k == Len(s)
           n == Len(t)
<1>1. /\ k \in Nat /\ DOMAIN s = 1..k /\ \A i \in 1..k : s[i] \in Piece
      /\ n \in Nat /\ DOMAIN t = 1..n /\ \A i \in 1..n : t[i] \in Piece
  BY LenProperties, ElementOfSeq
<1>2. /\ s \o t \in Seq(Piece) /\ Len(s \o t) = k + n
      /\ \A i \in 1..(k + n) : (s \o t)[i] = IF i <= k THEN s[i] ELSE t[i - k]
  BY ConcatProperties
<1>3. DOMAIN (s \o t) = 1..(k + n)
  BY <1>2, LenProperties
<1>4. \A i \in 1..k : f[i] = g[i] /\ g[i] \in Int
  <2> SUFFICES ASSUME NEW i \in 1..k PROVE f[i] = g[i] /\ g[i] \in Int
    OBVIOUS
  <2>1. i \in 1..(k + n) /\ i \in DOMAIN s
    BY <1>1
  <2>2. (s \o t)[i] = s[i] /\ s[i].size \in Int
    BY <1>1, <1>2, <2>1 DEF Piece
  <2> QED BY <1>3, <2>1, <2>2
<1>5. \A i \in 1..n : f[k + i] = h[i] /\ h[i] \in Int
  <2> SUFFICES ASSUME NEW i \in 1..n PROVE f[k + i] = h[i] /\ h[i] \in Int
    OBVIOUS
  <2>1. k + i \in 1..(k + n) /\ i \in DOMAIN t /\ ~ (k + i <= k) /\ (k + i) - k = i
    BY <1>1
  <2>2. (s \o t)[k + i] = t[i] /\ t[i].size \in Int
    BY <1>1, <1>2, <2>1 DEF Piece
  <2> QED BY <1>3, <2>1, <2>2
<1>6. SizeOf(s \o t) = SumTo(f, k + n) /\ SizeOf(s) = SumTo(g, k) /\ SizeOf(t) = SumTo(h, n)
  BY <1>2 DEF SizeOf
<1> HIDE DEF f, g, h, k, n
<1>7. IsFollowedBy(f, k, h, n)
  BY <1>1, <1>4, <1>5 DEF IsFollowedBy
<1>8. \A m \in 0..n : SumTo(h, m) \in Int /\ SumTo(f, k + m) = SumTo(f, k) + SumTo(h, m)
  BY <1>7, SumOfRest
<1>9. SumTo(f, k + n) = SumTo(f, k) + SumTo(h, n)
  BY <1>1, <1>8
<1>10. SumTo(f, k) = SumTo(g, k)
  BY <1>1, <1>4, SumToSame
<1> QED BY <1>6, <1>9, <1>10

(* A piece alone is as long as it says.                                    *)
LEMMA SizeOfOne ==
  ASSUME NEW p \in Piece
  PROVE  << p >> \in Seq(Piece) /\ SizeOf(<< p >>) = p.size
<1> DEFINE s == << p >>
           f == [i \in DOMAIN s |-> s[i].size]
<1>1. s \in Seq(Piece) /\ Len(s) = 1 /\ DOMAIN s = 1..1 /\ s[1] = p
  OBVIOUS
<1>2. f[1] = p.size /\ f[1] \in Int
  BY <1>1 DEF Piece
<1>3. SizeOf(s) = SumTo(f, 1)
  BY <1>1 DEF SizeOf
<1> HIDE DEF f
<1>4. \A j \in 1..1 : f[j] \in Int
  BY <1>2
<1>5. \A j \in 1..0 : f[j] \in Int
  OBVIOUS
<1>6. SumTo(f, 0) = 0
  BY <1>5, SumToIs
<1>7. SumTo(f, 1) = SumTo(f, 1 - 1) + f[1]
  BY <1>4, SumToIs
<1> QED BY <1>1, <1>2, <1>3, <1>6, <1>7

(* The part of a list behind a place, when pieces are added at its end.    *)
LEMMA SliceGrows ==
  ASSUME NEW s \in Seq(Piece), NEW t \in Seq(Piece), NEW a \in 1..(Len(s) + 1)
  PROVE  /\ SubSeq(s \o t, a, Len(s \o t)) = SubSeq(s, a, Len(s)) \o t
         /\ \A b \in 0..Len(s) : SubSeq(s \o t, a, b) = SubSeq(s, a, b)
<1> DEFINE k == Len(s)
           n == Len(t)
           u == s \o t
<1>1. /\ k \in Nat /\ DOMAIN s = 1..k /\ \A i \in 1..k : s[i] \in Piece
      /\ n \in Nat /\ \A i \in 1..n : t[i] \in Piece
  BY LenProperties, ElementOfSeq
<1>2. /\ u \in Seq(Piece) /\ Len(u) = k + n
      /\ \A i \in 1..(k + n) : u[i] = IF i <= k THEN s[i] ELSE t[i - k]
  BY ConcatProperties
<1>3. \A i \in 1..(k + n) : u[i] \in Piece
  BY <1>2, ElementOfSeq
<1> HIDE DEF k, n, u
<1>4. SubSeq(u, a, k + n) = SubSeq(s, a, k) \o t
  <2> DEFINE x == SubSeq(u, a, k + n)
             y == SubSeq(s, a, k)
  <2>0. a \in Nat /\ k \in Nat
    BY <1>1 DEF k
  <2>1. /\ x \in Seq(Piece) /\ Len(x) = k + n - a + 1
        /\ \A i \in 1..(k + n - a + 1) : x[i] = u[a + i - 1]
    <3>1. \A i \in a..(k + n) : u[i] \in Piece
      BY <1>1, <1>3
    <3>2. /\ x \in Seq(Piece) /\ Len(x) = IF a <= k + n THEN k + n - a + 1 ELSE 0
          /\ \A i \in 1..(k + n - a + 1) : x[i] = u[a + i - 1]
      BY <1>1, <3>1, SubSeqProperties
    <3> QED BY <1>1, <3>2 DEF k
  <2>2. /\ y \in Seq(Piece) /\ Len(y) = k - a + 1
        /\ \A i \in 1..(k - a + 1) : y[i] = s[a + i - 1]
    <3>1. \A i \in a..k : s[i] \in Piece
      BY <1>1
    <3>2. /\ y \in Seq(Piece) /\ Len(y) = IF a <= k THEN k - a + 1 ELSE 0
          /\ \A i \in 1..(k - a + 1) : y[i] = s[a + i - 1]
      BY <1>1, <3>1, SubSeqProperties
    <3> QED BY <1>1, <3>2 DEF k
  <2>3. /\ y \o t \in Seq(Piece) /\ Len(y \o t) = Len(y) + n
        /\ \A i \in 1..(Len(y) + n) : (y \o t)[i] = IF i <= Len(y) THEN y[i] ELSE t[i - Len(y)]
    BY <2>2, ConcatProperties DEF n
  <2>4. Len(x) = Len(y \o t)
    BY <1>1, <2>1, <2>2, <2>3
  <2> HIDE DEF x, y
  <2>5. ASSUME NEW i \in 1..Len(x) PROVE x[i] = (y \o t)[i]
    <3>1. /\ i \in 1..(k + n - a + 1) /\ i \in 1..(Len(y) + n) /\ a + i - 1 \in 1..(k + n)
      BY <1>1, <2>1, <2>2
    <3>2. x[i] = IF a + i - 1 <= k THEN s[a + i - 1] ELSE t[a + i - 1 - k]
      <4>1. x[i] = u[a + i - 1]
        BY <2>1, <3>1
      <4>2. u[a + i - 1] = IF a + i - 1 <= k THEN s[a + i - 1] ELSE t[a + i - 1 - k]
        BY <1>1, <1>2, <2>0, <3>1
      <4> QED BY <4>1, <4>2
    <3>3. (y \o t)[i] = IF i <= k - a + 1 THEN y[i] ELSE t[i - (k - a + 1)]
      BY <2>2, <2>3, <3>1
    <3>4. CASE i <= k - a + 1
      <4>1. i \in 1..(k - a + 1) /\ a + i - 1 <= k
        BY <1>1, <3>1, <3>4
      <4> QED BY <2>2, <3>2, <3>3, <3>4, <4>1
    <3>5. CASE ~ (i <= k - a + 1)
      <4>1. ~ (a + i - 1 <= k) /\ i - (k - a + 1) = a + i - 1 - k
        BY <1>1, <3>1, <3>5
      <4> QED BY <3>2, <3>3, <3>5, <4>1
    <3> QED BY <3>4, <3>5
  <2>6. x = y \o t
    BY <2>1, <2>3, <2>4, <2>5, SeqEqual
  <2> QED BY <2>6 DEF x, y
<1>5. ASSUME NEW b \in 0..k PROVE SubSeq(u, a, b) = SubSeq(s, a, b)
  <2> DEFINE x == SubSeq(u, a, b)
             y == SubSeq(s, a, b)
  <2>1. \A i \in a..b : u[i] = s[i] /\ s[i] \in Piece
    BY <1>1, <1>2
  <2>2. /\ x \in Seq(Piece) /\ Len(x) = IF a <= b THEN b - a + 1 ELSE 0
        /\ \A i \in 1..(b - a + 1) : x[i] = u[a + i - 1]
    BY <2>1, SubSeqProperties
  <2>3. /\ y \in Seq(Piece) /\ Len(y) = IF a <= b THEN b - a + 1 ELSE 0
        /\ \A i \in 1..(b - a + 1) : y[i] = s[a + i - 1]
    BY <2>1, SubSeqProperties
  <2> HIDE DEF x, y
  <2>4. \A i \in 1..Len(x) : x[i] = y[i]
    <3> SUFFICES ASSUME NEW i \in 1..Len(x) PROVE x[i] = y[i]
      OBVIOUS
    <3>1. i \in 1..(b - a + 1) /\ a + i - 1 \in a..b
      BY <1>1, <2>2
    <3> QED BY <2>1, <2>2, <2>3, <3>1
  <2>5. x = y
    BY <2>2, <2>3, <2>4, SeqEqual
  <2> QED BY <2>5 DEF x, y
<1> QED BY <1>2, <1>4, <1>5 DEF u, k

(* A place that is written over changes no part of the list but itself.    *)
LEMMA SliceAround ==
  ASSUME NEW s \in Seq(Piece), NEW a \in 1..(Len(s) + 1), NEW k \in 1..Len(s), NEW p \in Piece
  PROVE  LET t == [s EXCEPT ![k] = p] IN
         /\ t \in Seq(Piece) /\ Len(t) = Len(s)
         /\ \A b \in 0..(k - 1) : SubSeq(t, a, b) = SubSeq(s, a, b)
         /\ a <= k =>
              SubSeq(t, a, Len(t))
                = SubSeq(s, a, k - 1) \o (<< p >> \o SubSeq(s, k + 1, Len(s)))
<1> DEFINE t == [s EXCEPT ![k] = p]
           n == Len(s)
<1>1. n \in Nat /\ DOMAIN s = 1..n /\ \A i \in 1..n : s[i] \in Piece
  BY LenProperties, ElementOfSeq
<1>2. /\ t \in Seq(Piece) /\ Len(t) = n
      /\ \A i \in 1..n : t[i] = IF i = k THEN p ELSE s[i]
  BY ExceptSeq
<1> HIDE DEF t
<1>3. ASSUME NEW c \in Nat, NEW b \in 0..n, c >= 1, \A i \in c..b : i # k
      PROVE  SubSeq(t, c, b) = SubSeq(s, c, b)
  <2> DEFINE x == SubSeq(t, c, b)
             y == SubSeq(s, c, b)
  <2>1. \A i \in c..b : t[i] = s[i] /\ s[i] \in Piece
    BY <1>1, <1>2, <1>3
  <2>2. /\ x \in Seq(Piece) /\ Len(x) = IF c <= b THEN b - c + 1 ELSE 0
        /\ \A i \in 1..(b - c + 1) : x[i] = t[c + i - 1]
    BY <2>1, SubSeqProperties
  <2>3. /\ y \in Seq(Piece) /\ Len(y) = IF c <= b THEN b - c + 1 ELSE 0
        /\ \A i \in 1..(b - c + 1) : y[i] = s[c + i - 1]
    BY <2>1, SubSeqProperties
  <2> HIDE DEF x, y
  <2>4. \A i \in 1..Len(x) : x[i] = y[i]
    <3> SUFFICES ASSUME NEW i \in 1..Len(x) PROVE x[i] = y[i]
      OBVIOUS
    <3>1. i \in 1..(b - c + 1) /\ c + i - 1 \in c..b
      BY <1>1, <2>2
    <3> QED BY <2>1, <2>2, <2>3, <3>1
  <2>5. x = y
    BY <2>2, <2>3, <2>4, SeqEqual
  <2> QED BY <2>5 DEF x, y
<1>4. \A b \in 0..(k - 1) : SubSeq(t, a, b) = SubSeq(s, a, b)
  <2> SUFFICES ASSUME NEW b \in 0..(k - 1) PROVE SubSeq(t, a, b) = SubSeq(s, a, b)
    OBVIOUS
  <2>1. b \in 0..n /\ a \in Nat /\ a >= 1 /\ \A i \in a..b : i # k
    BY <1>1
  <2> QED BY <1>3, <2>1
<1>5. ASSUME a <= k
      PROVE  SubSeq(t, a, n) = SubSeq(s, a, k - 1) \o (<< p >> \o SubSeq(s, k + 1, n))
  <2>1. /\ a \in 1..(Len(t) + 1) /\ k - 1 \in (a - 1)..Len(t) /\ n \in (k - 1)..Len(t)
        /\ k \in 1..Len(t) /\ n \in k..Len(t) /\ (k - 1) + 1 = k
    BY <1>1, <1>2, <1>5
  <2>2. SubSeq(t, a, k - 1) \o SubSeq(t, (k - 1) + 1, n) = SubSeq(t, a, n)
    BY <1>2, <2>1, ConcatAdjacentSubSeq
  <2>3. SubSeq(t, k, n) = << t[k] >> \o SubSeq(t, k + 1, n)
    BY <1>2, <2>1, SubSeqRecursiveFirst
  <2>4. t[k] = p
    BY <1>2
  <2>5. SubSeq(t, k + 1, n) = SubSeq(s, k + 1, n)
    <3>1. k + 1 \in Nat /\ n \in 0..n /\ k + 1 >= 1 /\ \A i \in (k + 1)..n : i # k
      BY <1>1
    <3> QED BY <1>3, <3>1
  <2>6. SubSeq(t, a, k - 1) = SubSeq(s, a, k - 1)
    <3>1. k - 1 \in 0..(k - 1)
      BY <1>1
    <3> QED BY <1>4, <3>1
  <2> QED BY <2>1, <2>2, <2>3, <2>4, <2>5, <2>6
<1> QED BY <1>2, <1>4, <1>5 DEF t

(* A part of a list of pieces is one.                                      *)
LEMMA SliceIs ==
  ASSUME NEW s \in Seq(Piece), NEW a \in 1..(Len(s) + 1), NEW b \in 0..Len(s)
  PROVE  SubSeq(s, a, b) \in Seq(Piece)
<1>1. \A i \in a..b : s[i] \in Piece
  <2> SUFFICES ASSUME NEW i \in a..b PROVE s[i] \in Piece
    OBVIOUS
  <2>1. i \in 1..Len(s)
    BY LenProperties
  <2> QED BY <2>1, ElementOfSeq
<1> QED BY <1>1, LenProperties, SubSeqProperties
-----------------------------------------------------------------------------
(* How many pieces of a kind there are, when others are added.             *)
LEMMA CountIs ==
  ASSUME NEW s \in Seq(Piece), NEW kind
  PROVE  /\ IsFiniteSet({ i \in DOMAIN s : s[i].kind = kind })
         /\ Count(s, kind) \in Nat
<1>1. Len(s) \in Nat /\ DOMAIN s = 1..Len(s)
  BY LenProperties
<1>2. IsFiniteSet(1..Len(s))
  BY <1>1, FS_Interval
<1>3. { i \in DOMAIN s : s[i].kind = kind } \in SUBSET (1..Len(s))
  BY <1>1
<1>4. IsFiniteSet({ i \in DOMAIN s : s[i].kind = kind })
  BY <1>2, <1>3, FS_Subset
<1> QED BY <1>4, FS_CardinalityType DEF Count

(* One more piece counts if it is of that kind.                            *)
LEMMA CountOfAppended ==
  ASSUME NEW s \in Seq(Piece), NEW p \in Piece, NEW kind
  PROVE  Count(s \o << p >>, kind) = Count(s, kind) + IF p.kind = kind THEN 1 ELSE 0
<1> DEFINE t == s \o << p >>
           old == { i \in DOMAIN s : s[i].kind = kind }
           new == { i \in DOMAIN t : t[i].kind = kind }
           n == Len(s)
<1>1. n \in Nat /\ DOMAIN s = 1..n
  BY LenProperties
<1>2. << p >> \in Seq(Piece) /\ Len(<< p >>) = 1 /\ << p >>[1] = p
  OBVIOUS
<1>3. /\ t \in Seq(Piece) /\ Len(t) = n + 1
      /\ \A i \in 1..(n + 1) : t[i] = IF i <= n THEN s[i] ELSE << p >>[i - n]
  BY <1>2, ConcatProperties
<1>4. DOMAIN t = 1..(n + 1) /\ t[n + 1] = p /\ \A i \in 1..n : t[i] = s[i]
  <2>1. DOMAIN t = 1..(n + 1)
    BY <1>3, LenProperties
  <2>2. n + 1 \in 1..(n + 1) /\ ~ (n + 1 <= n) /\ (n + 1) - n = 1
    BY <1>1
  <2> HIDE DEF t, n
  <2>3. t[n + 1] = p
    BY <1>2, <1>3, <2>2
  <2>4. \A i \in 1..n : t[i] = s[i]
    BY <1>1, <1>3
  <2> QED BY <2>1, <2>3, <2>4
<1> HIDE DEF t, n
<1>5. IsFiniteSet(old) /\ Cardinality(old) \in Nat
  BY CountIs DEF Count
<1>6. CASE p.kind = kind
  <2>1. new = old \cup {n + 1}
    BY <1>1, <1>4, <1>6
  <2>2. n + 1 \notin old
    BY <1>1
  <2>3. Cardinality(old \cup {n + 1}) = Cardinality(old) + 1
    <3> HIDE DEF old
    <3> QED BY <1>5, <2>2, FS_AddElement
  <2> QED BY <1>6, <2>1, <2>3 DEF Count, t
<1>7. CASE p.kind # kind
  <2>1. new = old
    BY <1>1, <1>4, <1>7
  <2>2. Count(t, kind) = Count(s, kind)
    BY <2>1 DEF Count
  <2>3. Count(s, kind) \in Nat
    BY CountIs
  <2> QED BY <1>7, <2>2, <2>3 DEF t
<1> QED BY <1>6, <1>7

(* A piece written over by one of its kind changes no count.               *)
LEMMA CountOfOverwritten ==
  ASSUME NEW s \in Seq(Piece), NEW k \in 1..Len(s), NEW p \in Piece, p.kind = s[k].kind, NEW kind
  PROVE  Count([s EXCEPT ![k] = p], kind) = Count(s, kind)
<1> DEFINE t == [s EXCEPT ![k] = p]
<1>1. \A i \in DOMAIN s : t[i].kind = s[i].kind
  OBVIOUS
<1>2. DOMAIN t = DOMAIN s
  OBVIOUS
<1>3. { i \in DOMAIN t : t[i].kind = kind } = { i \in DOMAIN s : s[i].kind = kind }
  BY <1>1, <1>2
<1> QED BY <1>3 DEF Count
-----------------------------------------------------------------------------
(* What the definition of the edited file is built from.                   *)
LEMMA PiecesAre ==
  ASSUME job \in Jobs, NEW at \in DOMAIN headers, NEW path
  PROVE  /\ \A size \in Int : \A kind \in Kinds : \A of \in Int : CopyPiece(of, size, kind) \in Piece
         /\ PayloadPiece(at, path) \in Piece
         /\ \A whole : whole.size \in Int => HeaderPiece(whole, at) \in Piece
<1>1. at \in Nat /\ OwnSize(at) \in Nat /\ job.growth \in Int
  BY BoxIs, JobsAssumption
<1>2. ASSUME NEW whole, whole.size \in Int
      PROVE  Encoded(whole) \in WrittenHeader
  <2> DEFINE form == HeaderForm(whole)
             field == IF whole.extend_to_eof THEN 0 ELSE whole.size
  <2>1. form \in {"Small", "Large", "ExtendToEof"}
    BY DEF HeaderForm
  <2>2. field \in Int
    BY <1>2
  <2>3. Encoded(whole) = [form |-> form, field |-> field]
    BY DEF Encoded
  <2> HIDE DEF form, field
  <2> QED BY <2>1, <2>2, <2>3 DEF WrittenHeader
<1>3. Encoded(NewInfo(0)) \in WrittenHeader
  <2>1. NewInfo(0).size \in Int
    BY DEF NewInfo
  <2> QED BY <1>2, <2>1
<1>4. \A size \in Int : \A kind \in Kinds : \A of \in Int : CopyPiece(of, size, kind) \in Piece
  <2> SUFFICES ASSUME NEW size \in Int, NEW kind \in Kinds, NEW of \in Int
               PROVE  CopyPiece(of, size, kind) \in Piece
    OBVIOUS
  <2> DEFINE written == Encoded(NewInfo(0))
  <2>1. CopyPiece(of, size, kind) = [kind |-> kind, of |-> of, size |-> size, written |-> written]
    BY DEF CopyPiece
  <2> HIDE DEF written
  <2> QED BY <1>3, <2>1 DEF Piece, written
<1>5. PayloadPiece(at, path) \in Piece
  <2> DEFINE kind == IF ExactMatch(path) THEN "edited" ELSE "payload"
  <2>1. PayloadPiece(at, path) = CopyPiece(at, NewOwnSize(at, path), kind)
    BY DEF PayloadPiece, CopyPiece
  <2>2. NewOwnSize(at, path) \in Int /\ kind \in Kinds
    BY <1>1 DEF NewOwnSize, Kinds
  <2> HIDE DEF kind
  <2> QED BY <1>1, <1>4, <2>1, <2>2
<1>6. ASSUME NEW whole, whole.size \in Int PROVE HeaderPiece(whole, at) \in Piece
  <2> DEFINE written == Encoded(whole)
  <2>1. EncodedSize(whole) \in Int
    BY DEF EncodedSize, LargeHeader, SmallHeader
  <2>2. written \in WrittenHeader
    BY <1>2, <1>6
  <2>3. HeaderPiece(whole, at)
          = [kind |-> "header", of |-> at, size |-> EncodedSize(whole), written |-> written]
    BY DEF HeaderPiece
  <2> HIDE DEF written
  <2> QED BY <1>1, <2>1, <2>2, <2>3 DEF Piece, Kinds
<1> QED BY <1>4, <1>5, <1>6

(* Behind a box, and inside one, a span goes on further on.                *)
LEMMA SpansGoOn ==
  ASSUME job \in Jobs, NEW span \in Span, HasBox(span)
  PROVE  /\ span.at \in DOMAIN headers /\ span.at \in Nat
         /\ InnerPath(span) \in Seq(STRING)
         /\ Rest(span) \in Span /\ Rest(span).at >= span.at + SmallHeader
         /\ IsMatched(InnerPath(span)) =>
              /\ TrailingSize(InfoAt(span.at)) \in Nat
              /\ Children(span) \in Span /\ Children(span).at >= span.at + SmallHeader
<1> DEFINE at == span.at
           box == InfoAt(at)
<1>1. /\ at \in Nat /\ span.limit \in Int /\ span.path \in Seq(STRING)
      /\ span = [at |-> at, limit |-> span.limit, path |-> span.path]
  BY DEF Span
<1>2. at \in DOMAIN headers /\ CoversHeader(box) /\ (IsMatched(InnerPath(span)) => Decodes(box))
  BY DEF HasBox
<1>3. /\ box.offset = at /\ box.size \in Int /\ OwnSize(at) \in Nat /\ headers[at].type \in STRING
      /\ EndOf(box) = at + box.size /\ EndOf(box) \in Int
      /\ ChildrenOffset(box) = at + box.header_size + OwnSize(at)
      /\ OwnSize(at) <= PayloadSize(box) => TrailingSize(box) \in Nat
  BY <1>2, BoxIs
<1>4. box.header_size \in {SmallHeader, LargeHeader}
  BY DEF InfoAt, InfoIn, ReadBack
<1>5. InnerPath(span) \in Seq(STRING)
  BY <1>1, <1>3, AppendProperties DEF InnerPath
<1> HIDE DEF box, at
<1>6. EndOf(box) \in Nat /\ EndOf(box) >= at + SmallHeader
  BY <1>1, <1>2, <1>3, <1>4 DEF CoversHeader, SmallHeader, LargeHeader
<1>7. Rest(span) = [at |-> EndOf(box), limit |-> span.limit, path |-> span.path]
  BY <1>1 DEF Rest, box, at
<1>8. Rest(span) \in Span /\ Rest(span).at >= span.at + SmallHeader
  BY <1>1, <1>6, <1>7 DEF Span, at
<1>9. ASSUME IsMatched(InnerPath(span))
      PROVE  /\ TrailingSize(box) \in Nat
             /\ Children(span) \in Span /\ Children(span).at >= span.at + SmallHeader
  <2>1. OwnSize(at) <= PayloadSize(box)
    BY <1>2, <1>3, <1>9 DEF Decodes
  <2>2. TrailingSize(box) \in Nat
    BY <1>3, <2>1
  <2>3. Children(span) = [at |-> ChildrenOffset(box), limit |-> EndOf(box) - TrailingSize(box),
                          path |-> InnerPath(span)]
    BY DEF Children, box, at
  <2>4. ChildrenOffset(box) \in Nat /\ ChildrenOffset(box) >= at + SmallHeader
    BY <1>1, <1>3, <1>4 DEF SmallHeader, LargeHeader
  <2> QED BY <1>3, <1>5, <2>2, <2>3, <2>4 DEF Span, at
<1> QED BY <1>1, <1>2, <1>5, <1>8, <1>9 DEF box, at

(* What is inside the next box of a span in the edited file, and with its  *)
(* header.                                                                 *)
Inner(span) == Inside(span, Edited[Children(span)])

Whole(span) == Enclosed(span, Inner(span))

(* The parts that a box of the edited file is made of are pieces.          *)
LEMMA PartsAre ==
  ASSUME job \in Jobs, NEW span \in Span, HasBox(span)
  PROVE  /\ << CopyPiece(span.at, InfoAt(span.at).size, "copy") >> \in Seq(Piece)
         /\ IsMatched(InnerPath(span)) =>
              /\ \A children \in Seq(Piece) : Inside(span, children) \in Seq(Piece)
              /\ \A inside \in Seq(Piece) : Enclosed(span, inside) \in Seq(Piece)
<1> DEFINE at == span.at
           box == InfoAt(at)
           trailing == TrailingSize(box)
           payload == PayloadPiece(at, InnerPath(span))
           behind == IF trailing = 0 THEN << >>
                     ELSE << CopyPiece(EndOf(box) - trailing, trailing, "trailing") >>
<1>1. at \in DOMAIN headers /\ at \in Nat
  BY SpansGoOn
<1>2. box.size \in Int /\ box.header_size \in Int /\ EndOf(box) \in Int
  BY <1>1, BoxIs
<1>3. /\ \A size \in Int : \A kind \in Kinds : \A of \in Int : CopyPiece(of, size, kind) \in Piece
      /\ payload \in Piece
      /\ \A whole : whole.size \in Int => HeaderPiece(whole, at) \in Piece
  BY <1>1, PiecesAre
<1>4. << CopyPiece(at, box.size, "copy") >> \in Seq(Piece)
  <2>1. CopyPiece(at, box.size, "copy") \in Piece
    <3> HIDE DEF at, box, payload
    <3>1. "copy" \in Kinds /\ at \in Int
      BY <1>1 DEF Kinds
    <3> QED BY <1>2, <1>3, <3>1
  <2> QED BY <2>1
<1>5. ASSUME IsMatched(InnerPath(span)), NEW children \in Seq(Piece)
      PROVE  Inside(span, children) \in Seq(Piece)
  <2>1. trailing \in Nat
    BY <1>5, SpansGoOn
  <2>2. Inside(span, children) = << payload >> \o children \o behind
    BY DEF Inside
  <2>3. behind \in Seq(Piece)
    <3>1. CopyPiece(EndOf(box) - trailing, trailing, "trailing") \in Piece
      <4> HIDE DEF trailing, box
      <4>1. EndOf(box) - trailing \in Int /\ trailing \in Int /\ "trailing" \in Kinds
        BY <1>2, <2>1 DEF Kinds
      <4> QED BY <1>3, <4>1
    <3> QED BY <3>1
  <2>4. << payload >> \in Seq(Piece)
    BY <1>3
  <2> HIDE DEF payload, behind
  <2> QED BY <2>2, <2>3, <2>4, ConcatProperties
<1>6. ASSUME NEW inside \in Seq(Piece)
      PROVE  Enclosed(span, inside) \in Seq(Piece)
  <2> DEFINE whole == [box EXCEPT !.size = box.header_size + SizeOf(inside),
                                  !.extend_to_eof = FALSE]
  <2>1. Enclosed(span, inside) = << HeaderPiece(whole, at) >> \o inside
    BY DEF Enclosed
  <2>2. whole.size = box.header_size + SizeOf(inside)
    BY DEF InfoAt, InfoIn, ReadBack
  <2>3. SizeOf(inside) \in Int
    BY SizeOfIs
  <2> HIDE DEF whole, box
  <2>4. whole.size \in Int
    BY <1>2, <2>2, <2>3
  <2>5. HeaderPiece(whole, at) \in Piece
    BY <1>3, <2>4
  <2>6. << HeaderPiece(whole, at) >> \in Seq(Piece)
    BY <2>5
  <2> QED BY <2>1, <2>6, ConcatProperties
<1> QED BY <1>4, <1>5, <1>6

(* What the definition of the edited file says of a span, of the rest as g *)
(* has it.                                                                 *)
EditedBy(g, span) ==
  IF ~ HasBox(span) THEN << >>
  ELSE (IF IsMatched(InnerPath(span))
        THEN Enclosed(span, Inside(span, g[Children(span)]))
        ELSE << CopyPiece(span.at, InfoAt(span.at).size, "copy") >>)
       \o g[Rest(span)]

IsEdited(g) == g = [span \in Span |-> EditedBy(g, span)]

(* It looks at the rest no further than behind the header of the next box. *)
LEMMA EditedByRest ==
  ASSUME job \in Jobs, NEW span \in Span, NEW g, NEW h,
         \A s \in Span : s.at > span.at => g[s] = h[s]
  PROVE  EditedBy(g, span) = EditedBy(h, span)
<1>1. CASE ~ HasBox(span)
  BY <1>1 DEF EditedBy
<1>2. CASE HasBox(span)
  <2>1. Rest(span) \in Span /\ Rest(span).at > span.at
    BY <1>2, SpansGoOn DEF Span, SmallHeader
  <2>2. g[Rest(span)] = h[Rest(span)]
    BY <2>1
  <2>3. ASSUME IsMatched(InnerPath(span)) PROVE g[Children(span)] = h[Children(span)]
    <3>1. Children(span) \in Span /\ Children(span).at > span.at
      BY <1>2, <2>3, SpansGoOn DEF Span, SmallHeader
    <3> QED BY <3>1
  <2> QED BY <2>2, <2>3 DEF EditedBy
<1> QED BY <1>1, <1>2

(* What it says is a list of pieces if the rest is.                        *)
LEMMA EditedByIs ==
  ASSUME job \in Jobs, NEW span \in Span, NEW g,
         \A s \in Span : s.at > span.at => g[s] \in Seq(Piece)
  PROVE  EditedBy(g, span) \in Seq(Piece)
<1>1. CASE ~ HasBox(span)
  BY <1>1, EmptySeq DEF EditedBy
<1>2. CASE HasBox(span)
  <2>1. Rest(span) \in Span /\ Rest(span).at > span.at
    BY <1>2, SpansGoOn DEF Span, SmallHeader
  <2>2. g[Rest(span)] \in Seq(Piece)
    BY <2>1
  <2>3. CASE IsMatched(InnerPath(span))
    <3>1. Children(span) \in Span /\ Children(span).at > span.at
      BY <1>2, <2>3, SpansGoOn DEF Span, SmallHeader
    <3>2. g[Children(span)] \in Seq(Piece)
      BY <3>1
    <3>3. Inside(span, g[Children(span)]) \in Seq(Piece)
      BY <1>2, <2>3, <3>2, PartsAre
    <3>4. Enclosed(span, Inside(span, g[Children(span)])) \in Seq(Piece)
      BY <1>2, <2>3, <3>3, PartsAre
    <3>5. EditedBy(g, span) = Enclosed(span, Inside(span, g[Children(span)])) \o g[Rest(span)]
      BY <1>2, <2>3 DEF EditedBy
    <3> QED BY <2>2, <3>4, <3>5, ConcatProperties
  <2>4. CASE ~ IsMatched(InnerPath(span))
    <3>1. << CopyPiece(span.at, InfoAt(span.at).size, "copy") >> \in Seq(Piece)
      BY <1>2, PartsAre
    <3>2. EditedBy(g, span) = << CopyPiece(span.at, InfoAt(span.at).size, "copy") >> \o g[Rest(span)]
      BY <1>2, <2>4 DEF EditedBy
    <3> QED BY <2>2, <3>1, <3>2, ConcatProperties
  <2> QED BY <2>3, <2>4
<1> QED BY <1>1, <1>2

(* There is an edited file: told once more, what is known of the spans that*)
(* begin close enough to the end of the file is known of longer ones.      *)
LEMMA EditedExists ==
  ASSUME job \in Jobs
  PROVE  \E g : IsEdited(g)
<1> DEFINE n == job.length
           S == [Span -> Seq(Piece)]
           nothing == [span \in Span |-> << >>]
           more(g) == [span \in Span |-> EditedBy(g, span)]
           step == [k \in 1..(n + 1) |-> [g \in S |-> more(g)]]
<1>1. n \in Nat
  BY JobsAssumption
<1>2. nothing \in S
  <2>1. << >> \in Seq(Piece)
    BY EmptySeq
  <2> QED BY <2>1
<1>3. ASSUME NEW g \in S PROVE more(g) \in S
  <2>1. \A span \in Span : EditedBy(g, span) \in Seq(Piece)
    <3> SUFFICES ASSUME NEW span \in Span PROVE EditedBy(g, span) \in Seq(Piece)
      OBVIOUS
    <3>1. \A s \in Span : s.at > span.at => g[s] \in Seq(Piece)
      BY <1>3
    <3> QED BY <3>1, EditedByIs
  <2> QED BY <2>1
<1>4. step \in [1..(n + 1) -> [S -> S]] /\ \A k \in 1..(n + 1) : \A g \in S : step[k][g] = more(g)
  <2> HIDE DEF S, more
  <2>1. [g \in S |-> more(g)] \in [S -> S]
    BY <1>3
  <2> QED BY <2>1
<1> HIDE DEF n, S, nothing, more, step
<1>5. PICK f \in [0..(n + 1) -> S] : IsRecursion(f, n + 1, nothing, step)
  <2>1. n + 1 \in Nat
    BY <1>1
  <2> QED BY <1>2, <1>4, <2>1, RecursionExists, Zenon
<1>6. f[0] = nothing /\ \A k \in 0..n : f[k + 1] = more(f[k]) /\ f[k] \in S
  <2>1. \A j \in 0..(n + 1) : f[j] = IF j = 0 THEN nothing ELSE step[j][f[j - 1]]
    BY <1>5 DEF IsRecursion
  <2>2. f[0] = nothing
    BY <1>1, <2>1
  <2>3. ASSUME NEW k \in 0..n PROVE f[k + 1] = more(f[k]) /\ f[k] \in S
    <3>1. k + 1 \in 1..(n + 1) /\ k + 1 \in 0..(n + 1) /\ k + 1 # 0 /\ (k + 1) - 1 = k
          /\ k \in 0..(n + 1)
      BY <1>1
    <3>2. f[k] \in S
      BY <1>5, <3>1
    <3>3. f[k + 1] = step[k + 1][f[k]]
      BY <2>1, <3>1
    <3> QED BY <1>4, <3>1, <3>2, <3>3
  <2> QED BY <2>2, <2>3
<1> DEFINE Agree == { k \in 0..n : \A s \in Span : n - s.at <= k => f[k + 1][s] = f[k][s] }
<1>7. 0 \in Agree
  <2>1. 0 \in 0..n /\ f[0 + 1] = more(f[0])
    BY <1>1, <1>6
  <2>2. ASSUME NEW s \in Span, n - s.at <= 0 PROVE f[0 + 1][s] = f[0][s]
    <3>1. ~ HasBox(s)
      BY <1>1, <2>2 DEF HasBox, Span, n, SmallHeader
    <3>2. f[0 + 1][s] = EditedBy(f[0], s)
      BY <2>1 DEF more
    <3>3. EditedBy(f[0], s) = << >>
      BY <3>1 DEF EditedBy
    <3> QED BY <1>6, <3>2, <3>3 DEF nothing
  <2> QED BY <2>1, <2>2
<1>8. ASSUME NEW k \in 1..n, k - 1 \in Agree PROVE k \in Agree
  <2>1. k \in 0..n /\ k - 1 \in 0..n /\ (k - 1) + 1 = k
    BY <1>1
  <2>2. f[k + 1] = more(f[k]) /\ f[k] = more(f[k - 1])
    BY <1>6, <2>1
  <2>3. \A s \in Span : n - s.at <= k - 1 => f[k][s] = f[k - 1][s]
    BY <1>8, <2>1
  <2>4. ASSUME NEW s \in Span, n - s.at <= k PROVE f[k + 1][s] = f[k][s]
    <3>1. \A r \in Span : r.at > s.at => f[k][r] = f[k - 1][r]
      <4> SUFFICES ASSUME NEW r \in Span, r.at > s.at PROVE f[k][r] = f[k - 1][r]
        OBVIOUS
      <4>1. r.at \in Nat /\ s.at \in Nat
        BY DEF Span
      <4>2. n - r.at <= k - 1
        BY <1>1, <2>1, <2>4, <4>1
      <4> QED BY <2>3, <4>2
    <3>2. EditedBy(f[k], s) = EditedBy(f[k - 1], s)
      BY <3>1, EditedByRest
    <3>3. f[k + 1][s] = EditedBy(f[k], s) /\ f[k][s] = EditedBy(f[k - 1], s)
      BY <2>2 DEF more
    <3> QED BY <3>2, <3>3
  <2> QED BY <2>1, <2>4
<1>9. n \in Agree
  <2> HIDE DEF Agree
  <2>1. 0..n \subseteq Agree
    BY <1>1, <1>7, <1>8, BoundedInduction
  <2> QED BY <1>1, <2>1
<1>10. f[n + 1] = f[n]
  <2>1. \A s \in Span : f[n + 1][s] = f[n][s]
    <3> SUFFICES ASSUME NEW s \in Span PROVE f[n + 1][s] = f[n][s]
      OBVIOUS
    <3>1. n - s.at <= n
      BY <1>1 DEF Span
    <3> QED BY <1>9, <3>1
  <2>2. f[n + 1] \in S /\ f[n] \in S
    BY <1>1, <1>5
  <2> QED BY <2>1, <2>2 DEF S
<1>11. f[n] = more(f[n])
  <2>1. n \in 0..n
    BY <1>1
  <2> QED BY <1>6, <1>10, <2>1
<1> QED BY <1>11 DEF more, IsEdited

(* The edited file is what its definition says, piece by piece.            *)
LEMMA EditedIs ==
  ASSUME job \in Jobs
  PROVE  \A span \in Span : Edited[span] = EditedBy(Edited, span) /\ Edited[span] \in Seq(Piece)
<1>1. IsEdited(Edited)
  <2>1. Edited = CHOOSE g : IsEdited(g)
    BY DEF Edited, IsEdited, EditedBy
  <2> QED BY <2>1, EditedExists
<1>2. \A span \in Span : Edited[span] = EditedBy(Edited, span)
  <2> DEFINE e == Edited
  <2>1. e = [span \in Span |-> EditedBy(e, span)]
    BY <1>1 DEF IsEdited
  <2> HIDE DEF e
  <2>2. \A span \in Span : e[span] = EditedBy(e, span)
    BY <2>1
  <2> QED BY <2>2 DEF e
<1> DEFINE n == job.length
           T == { k \in 0..n : \A s \in Span : n - s.at <= k => Edited[s] \in Seq(Piece) }
<1>3. n \in Nat
  BY JobsAssumption
<1> HIDE DEF n
<1>4. 0 \in T
  <2>1. ASSUME NEW s \in Span, n - s.at <= 0 PROVE Edited[s] \in Seq(Piece)
    <3>1. ~ HasBox(s)
      BY <1>3, <2>1 DEF HasBox, Span, n, SmallHeader
    <3>2. EditedBy(Edited, s) = << >>
      BY <3>1 DEF EditedBy
    <3> QED BY <1>2, <3>2, EmptySeq
  <2> QED BY <1>3, <2>1
<1>5. ASSUME NEW k \in 1..n, k - 1 \in T PROVE k \in T
  <2>1. \A s \in Span : n - s.at <= k - 1 => Edited[s] \in Seq(Piece)
    BY <1>5
  <2>2. ASSUME NEW s \in Span, n - s.at <= k PROVE Edited[s] \in Seq(Piece)
    <3>1. \A r \in Span : r.at > s.at => Edited[r] \in Seq(Piece)
      <4> SUFFICES ASSUME NEW r \in Span, r.at > s.at PROVE Edited[r] \in Seq(Piece)
        OBVIOUS
      <4>1. r.at \in Nat /\ s.at \in Nat
        BY DEF Span
      <4>2. n - r.at <= k - 1
        BY <1>3, <2>2, <4>1
      <4> QED BY <2>1, <4>2
    <3>2. EditedBy(Edited, s) \in Seq(Piece)
      BY <3>1, EditedByIs
    <3> QED BY <1>2, <3>2
  <2> QED BY <1>3, <2>2
<1>6. n \in T
  <2> HIDE DEF T
  <2>1. 0..n \subseteq T
    BY <1>3, <1>4, <1>5, BoundedInduction
  <2> QED BY <1>3, <2>1
<1>7. \A span \in Span : Edited[span] \in Seq(Piece)
  <2> SUFFICES ASSUME NEW span \in Span PROVE Edited[span] \in Seq(Piece)
    OBVIOUS
  <2>1. n - span.at <= n
    BY <1>3 DEF Span
  <2> QED BY <1>6, <2>1
<1> QED BY <1>2, <1>7
-----------------------------------------------------------------------------
(* Where an open sequence ends.                                            *)
Limit(d) == IF d = 1 THEN job.length ELSE SequenceEnd(d)

(* The span of an open sequence that its box begins, and what is ahead.    *)
Opened(d) == [at |-> frames[d].of, limit |-> Limit(d - 1), path |-> frames[d - 1].path]

(* What is ahead of an open sequence.                                      *)
Ahead(d) == [at |-> NextStart(d), limit |-> Limit(d), path |-> frames[d].path]

(* What was written of it, up to the next open header.                     *)
FirstOf(d) == IF d = 1 THEN 1 ELSE box_stack[d - 1].piece + 1

LastOf(d) == IF d = depth THEN Len(output) ELSE box_stack[d].piece - 1

Written(d) == SubSeq(output, FirstOf(d), LastOf(d))

(* What the edited file says of an open sequence; of the box that is open  *)
(* in it; and of what is behind its boxes.                                 *)
Promised(d) == IF d = 1 THEN Edited[WholeFile] ELSE Inner(Opened(d))

Open(d) == IF d = depth THEN << >> ELSE Whole(Opened(d + 1))

Behind(d) ==
  IF frames[d].trailing = 0 THEN << >>
  ELSE << CopyPiece(EndOf(InfoAt(frames[d].of)) - frames[d].trailing,
                    frames[d].trailing, "trailing") >>

(* A whole made of four parts, the second of them open.                    *)
Consists(whole, written, open, ahead, behind) ==
  whole = written \o (open \o (ahead \o behind))

(* An open sequence will be what was promised: what was written of it, the *)
(* box in it that is open, what is ahead, and what is behind its boxes.    *)
IsOnItsWay(d) ==
  Consists(Promised(d), Written(d), Open(d), Edited[Ahead(d)], Behind(d))

(* The box of an open sequence can be read, and its header still says so.  *)
IsOpen(d) ==
  LET box == InfoAt(frames[d].of)
      open == box_stack[d - 1]
  IN  /\ Opened(d) \in Span /\ HasBox(Opened(d))
      /\ IsMatched(frames[d].path) /\ frames[d].path = InnerPath(Opened(d))
      /\ frames[d].trailing = TrailingSize(box)
      /\ open.info = [box EXCEPT !.offset = open.info.offset, !.size = box.header_size]
      /\ output[open.piece].size = box.header_size

(* In every state of a rewrite, each open sequence is on its way to what   *)
(* was promised of it.                                                     *)
OnTheWay ==
  /\ output \in Seq(Piece)
  /\ state = "running" /\ job.paths # {} =>
       /\ frames[1].path = << >> /\ frames[1].trailing = 0
       /\ \A d \in 2..depth : IsOpen(d)
       /\ \A d \in 1..depth : Ahead(d) \in Span /\ IsOnItsWay(d)
  /\ state = "running" /\ job.paths = {} => box_stack = << >> /\ rewritten_count = 0
  /\ state = "running" => rewritten_count = Count(output, "edited")
  /\ OutputIsEdited

EditInv == WalkInv /\ OnTheWay

(* Nothing that is promised changes.                                       *)
LEMMA PromiseKeeps ==
  ASSUME job' = job
  PROVE  /\ Edited' = Edited /\ WholeFile' = WholeFile /\ EditedFile' = EditedFile
         /\ \A span : /\ HasBox(span)' = HasBox(span) /\ InnerPath(span)' = InnerPath(span)
                      /\ Inner(span)' = Inner(span) /\ Whole(span)' = Whole(span)
         /\ \A box : TrailingSize(box)' = TrailingSize(box)
         /\ \A path : IsMatched(path)' = IsMatched(path)
<1>1. /\ headers' = headers /\ (\A at : InfoAt(at)' = InfoAt(at)) /\ WholeFile' = WholeFile
      /\ \A at : OwnSize(at)' = OwnSize(at)
      /\ \A box : TrailingSize(box)' = TrailingSize(box)
      /\ \A box : ChildrenOffset(box)' = ChildrenOffset(box)
  BY DEF headers, InfoAt, WholeFile, OwnSize, TrailingSize, ChildrenOffset
<1>2. /\ \A path : ExactMatch(path)' = ExactMatch(path)
      /\ \A path : IsMatched(path)' = IsMatched(path)
  BY DEF ExactMatch, ForwardMatch, IsMatched
<1>3. \A span : InnerPath(span)' = InnerPath(span)
  BY <1>1 DEF InnerPath
<1>4. \A box : Decodes(box)' = Decodes(box)
  BY <1>1 DEF Decodes
<1>5. \A span : HasBox(span)' = HasBox(span)
  BY <1>1, <1>2, <1>3, <1>4 DEF HasBox
<1>6. \A span : Children(span)' = Children(span) /\ Rest(span)' = Rest(span)
  BY <1>1, <1>3 DEF Children, Rest
<1>7. \A at, path : PayloadPiece(at, path)' = PayloadPiece(at, path)
  BY <1>1, <1>2 DEF PayloadPiece, NewOwnSize
<1>8. \A span, children : Inside(span, children)' = Inside(span, children)
  BY <1>1, <1>3, <1>7 DEF Inside
<1>9. \A span, inside : Enclosed(span, inside)' = Enclosed(span, inside)
  BY <1>1 DEF Enclosed
<1>10. \A g, span : EditedBy(g, span)' = EditedBy(g, span)
  BY <1>1, <1>2, <1>3, <1>5, <1>6, <1>8, <1>9 DEF EditedBy
<1>11. \A g : IsEdited(g)' = IsEdited(g)
  BY <1>10 DEF IsEdited
<1>12. Edited' = Edited
  <2>1. Edited = (CHOOSE g : IsEdited(g)) /\ Edited' = (CHOOSE g : IsEdited(g)')
    BY DEF Edited, IsEdited, EditedBy
  <2> QED BY <1>11, <2>1
<1>13. \A span : Inner(span)' = Inner(span)
  BY <1>6, <1>8, <1>12 DEF Inner
<1>14. \A span : Whole(span)' = Whole(span)
  BY <1>9, <1>13 DEF Whole
<1>15. EditedFile' = EditedFile
  BY <1>1, <1>12 DEF EditedFile
<1> QED BY <1>1, <1>2, <1>3, <1>5, <1>12, <1>13, <1>14, <1>15
-----------------------------------------------------------------------------
(* The pieces of a span that goes on with a box, and of one that does not. *)
LEMMA EditedSpan ==
  ASSUME job \in Jobs, NEW span \in Span
  PROVE  /\ ~ HasBox(span) => Edited[span] = << >>
         /\ HasBox(span) =>
              /\ Rest(span) \in Span /\ Edited[Rest(span)] \in Seq(Piece)
              /\ IsMatched(InnerPath(span)) =>
                   /\ Edited[span] = Whole(span) \o Edited[Rest(span)]
                   /\ Children(span) \in Span /\ Edited[Children(span)] \in Seq(Piece)
                   /\ Inner(span) \in Seq(Piece) /\ Whole(span) \in Seq(Piece)
              /\ ~ IsMatched(InnerPath(span)) =>
                   Edited[span] = << CopyPiece(span.at, InfoAt(span.at).size, "copy") >>
                                    \o Edited[Rest(span)]
<1>1. Edited[span] = EditedBy(Edited, span)
  BY EditedIs
<1>2. ASSUME HasBox(span)
      PROVE  /\ Rest(span) \in Span /\ Edited[Rest(span)] \in Seq(Piece)
             /\ IsMatched(InnerPath(span)) =>
                  /\ Edited[span] = Whole(span) \o Edited[Rest(span)]
                  /\ Children(span) \in Span /\ Edited[Children(span)] \in Seq(Piece)
                  /\ Inner(span) \in Seq(Piece) /\ Whole(span) \in Seq(Piece)
  <2>1. Rest(span) \in Span
    BY <1>2, SpansGoOn
  <2>2. Edited[Rest(span)] \in Seq(Piece)
    BY <2>1, EditedIs
  <2>3. ASSUME IsMatched(InnerPath(span))
        PROVE  /\ Edited[span] = Whole(span) \o Edited[Rest(span)]
               /\ Children(span) \in Span /\ Edited[Children(span)] \in Seq(Piece)
               /\ Inner(span) \in Seq(Piece) /\ Whole(span) \in Seq(Piece)
    <3>1. Children(span) \in Span
      BY <1>2, <2>3, SpansGoOn
    <3>2. Edited[Children(span)] \in Seq(Piece)
      BY <3>1, EditedIs
    <3>3. Inner(span) \in Seq(Piece)
      BY <1>2, <2>3, <3>2, PartsAre DEF Inner
    <3>4. Whole(span) \in Seq(Piece)
      BY <1>2, <2>3, <3>3, PartsAre DEF Whole
    <3>5. Edited[span] = Whole(span) \o Edited[Rest(span)]
      BY <1>1, <1>2, <2>3 DEF EditedBy, Whole, Inner
    <3> QED BY <3>1, <3>2, <3>3, <3>4, <3>5
  <2> QED BY <2>1, <2>2, <2>3
<1> QED BY <1>1, <1>2 DEF EditedBy

(* The open sequences and headers up to one of them are what they were.    *)
SameUpTo(m) ==
  /\ \A c \in 1..m : /\ frames'[c].of = frames[c].of /\ frames'[c].path = frames[c].path
                     /\ frames'[c].trailing = frames[c].trailing
  /\ \A c \in 1..(m - 1) : box_stack'[c] = box_stack[c]

(* What is said of the outer sequences depends on them and their headers   *)
(* alone.                                                                  *)
LEMMA SameIs ==
  ASSUME job' = job, depth \in Nat, depth' \in Nat,
         NEW m \in 1..depth, m <= depth', SameUpTo(m)
  PROVE  /\ \A c \in 1..m : Limit(c)' = Limit(c) /\ Behind(c)' = Behind(c)
         /\ \A c \in 1..m : FirstOf(c)' = FirstOf(c)
         /\ \A c \in 2..m : Opened(c)' = Opened(c)
         /\ \A c \in 1..m : Promised(c)' = Promised(c)
         /\ \A c \in 1..(m - 1) : Ahead(c)' = Ahead(c) /\ Open(c)' = Open(c)
<1>1. \A at : InfoAt(at)' = InfoAt(at)
  BY DEF InfoAt, headers
<1>2. \A c \in 1..m : SequenceEnd(c)' = SequenceEnd(c)
  BY <1>1 DEF SequenceEnd, SameUpTo
<1>3. \A c \in 1..m : Limit(c)' = Limit(c)
  BY <1>2 DEF Limit
<1>4. \A c \in 1..m : Behind(c)' = Behind(c)
  BY <1>1 DEF Behind, SameUpTo, CopyPiece
<1>5. \A c \in 1..m : FirstOf(c)' = FirstOf(c)
  <2> SUFFICES ASSUME NEW c \in 1..m PROVE FirstOf(c)' = FirstOf(c)
    OBVIOUS
  <2>1. c # 1 => c - 1 \in 1..(m - 1)
    OBVIOUS
  <2> QED BY <2>1 DEF FirstOf, SameUpTo
<1>6. \A c \in 2..m : Opened(c)' = Opened(c)
  <2> SUFFICES ASSUME NEW c \in 2..m PROVE Opened(c)' = Opened(c)
    OBVIOUS
  <2>1. c \in 1..m /\ c - 1 \in 1..m
    OBVIOUS
  <2>2. Limit(c - 1)' = Limit(c - 1)
    BY <1>3, <2>1
  <2> QED BY <2>1, <2>2 DEF Opened, SameUpTo
<1>7. \A c \in 1..m : Promised(c)' = Promised(c)
  <2> SUFFICES ASSUME NEW c \in 1..m PROVE Promised(c)' = Promised(c)
    OBVIOUS
  <2>1. c # 1 => c \in 2..m
    OBVIOUS
  <2>2. c # 1 => Inner(Opened(c))' = Inner(Opened(c))
    BY <1>6, <2>1, PromiseKeeps
  <2>3. Edited' = Edited /\ WholeFile' = WholeFile
    BY PromiseKeeps
  <2> QED BY <2>2, <2>3 DEF Promised
<1>8. \A c \in 1..(m - 1) : Ahead(c)' = Ahead(c) /\ Open(c)' = Open(c)
  <2> SUFFICES ASSUME NEW c \in 1..(m - 1) PROVE Ahead(c)' = Ahead(c) /\ Open(c)' = Open(c)
    OBVIOUS
  <2>1. c \in 1..m /\ c + 1 \in 2..m /\ c + 1 \in 1..m /\ c # depth /\ c # depth'
    OBVIOUS
  <2>2. NextStart(c)' = NextStart(c)
    BY <1>1, <2>1 DEF NextStart, SameUpTo
  <2>3. Ahead(c)' = Ahead(c)
    BY <1>3, <2>1, <2>2 DEF Ahead, SameUpTo
  <2>4. Opened(c + 1)' = Opened(c + 1)
    BY <1>6, <2>1
  <2>5. Whole(Opened(c + 1))' = Whole(Opened(c + 1))
    BY <2>4, PromiseKeeps
  <2>6. Open(c)' = Open(c)
    BY <2>1, <2>5 DEF Open
  <2> QED BY <2>3, <2>6
<1> QED BY <1>3, <1>4, <1>5, <1>6, <1>7, <1>8

(* A sequence with a box open in it is on its way as before, if no piece in*)
(* front of that box changed.                                              *)
LEMMA OuterKeeps ==
  ASSUME job' = job, depth \in Nat, depth' \in Nat,
         NEW m \in 1..depth, m <= depth', SameUpTo(m), NEW d \in 1..(m - 1),
         Ahead(d) \in Span, IsOnItsWay(d),
         SubSeq(output', FirstOf(d), box_stack[d].piece - 1)
           = SubSeq(output, FirstOf(d), box_stack[d].piece - 1)
  PROVE  Ahead(d)' \in Span /\ IsOnItsWay(d)'
<1>1. d \in 1..m /\ d # depth /\ d # depth'
  OBVIOUS
<1>2. Ahead(d)' = Ahead(d) /\ Open(d)' = Open(d)
  BY SameIs
<1>3. Behind(d)' = Behind(d) /\ FirstOf(d)' = FirstOf(d) /\ Promised(d)' = Promised(d)
  BY <1>1, SameIs
<1>4. LastOf(d) = box_stack[d].piece - 1 /\ LastOf(d)' = box_stack[d].piece - 1
  BY <1>1 DEF LastOf, SameUpTo
<1>5. Written(d)' = Written(d)
  BY <1>3, <1>4 DEF Written
<1>6. Edited' = Edited
  BY PromiseKeeps
<1>7. Ahead(d)' \in Span
  BY <1>2
<1>8. IsOnItsWay(d)'
  BY <1>2, <1>3, <1>5, <1>6 DEF IsOnItsWay
<1> QED BY <1>7, <1>8

(* A box stays open as it was, if its header stands where it stood.        *)
LEMMA OpenKeeps ==
  ASSUME job' = job, depth \in Nat, depth' \in Nat,
         NEW m \in 1..depth, m <= depth', SameUpTo(m), NEW d \in 2..m, IsOpen(d),
         output'[box_stack[d - 1].piece].size = output[box_stack[d - 1].piece].size
  PROVE  IsOpen(d)'
<1>1. d \in 1..m /\ d - 1 \in 1..(m - 1)
  OBVIOUS
<1>2. Opened(d)' = Opened(d)
  BY SameIs
<1>3. box_stack'[d - 1] = box_stack[d - 1]
  BY <1>1 DEF SameUpTo
<1>4. frames'[d].of = frames[d].of /\ frames'[d].path = frames[d].path
      /\ frames'[d].trailing = frames[d].trailing
  BY <1>1 DEF SameUpTo
<1>5. /\ HasBox(Opened(d))' = HasBox(Opened(d)) /\ InnerPath(Opened(d))' = InnerPath(Opened(d))
  BY <1>2, PromiseKeeps
<1>6. IsMatched(frames[d].path)' = IsMatched(frames[d].path)
  BY <1>4, PromiseKeeps
<1>7. \A at : InfoAt(at)' = InfoAt(at)
  BY DEF InfoAt, headers
<1>8. InfoAt(frames[d].of)' = InfoAt(frames[d].of)
  BY <1>4, <1>7
<1>9. TrailingSize(InfoAt(frames[d].of))' = TrailingSize(InfoAt(frames[d].of))
  BY <1>8, PromiseKeeps
<1> QED BY <1>2, <1>3, <1>4, <1>5, <1>6, <1>8, <1>9 DEF IsOpen
-----------------------------------------------------------------------------
(* Concatenation under a name of its own: its laws, and no elements.       *)
Join(s, t) == s \o t

LEMMA Associative ==
  ASSUME NEW x \in Seq(Piece), NEW y \in Seq(Piece), NEW z \in Seq(Piece)
  PROVE  /\ Join(Join(x, y), z) = Join(x, Join(y, z)) /\ Join(x, y) \in Seq(Piece)
         /\ Join(<< >>, x) = x /\ Join(x, << >>) = x
BY ConcatAssociative, ConcatProperties, ConcatEmptySeq DEF Join

LEMMA ConsistsIs ==
  ASSUME NEW p, NEW w, NEW o, NEW e, NEW b
  PROVE  Consists(p, w, o, e, b) <=> p = Join(w, Join(o, Join(e, b)))
BY DEF Consists, Join

(* A box that is ahead joins what was written, or opens.                   *)
LEMMA BoxJoins ==
  ASSUME NEW a \in Seq(Piece), NEW b \in Seq(Piece), NEW c \in Seq(Piece), NEW d \in Seq(Piece),
         NEW p, Consists(p, a, << >>, Join(b, c), d)
  PROVE  Consists(p, Join(a, b), << >>, c, d) /\ Consists(p, a, b, c, d)
<1>1. p = Join(a, Join(<< >>, Join(Join(b, c), d)))
  BY ConsistsIs
<1>2. /\ Join(Join(b, c), d) = Join(b, Join(c, d)) /\ Join(c, d) \in Seq(Piece)
      /\ Join(Join(b, c), d) \in Seq(Piece) /\ Join(b, c) \in Seq(Piece)
  BY Associative
<1>3. Join(<< >>, Join(Join(b, c), d)) = Join(Join(b, c), d) /\ Join(<< >>, Join(c, d)) = Join(c, d)
  BY <1>2, Associative
<1>4. Join(Join(a, b), Join(c, d)) = Join(a, Join(b, Join(c, d)))
  BY <1>2, Associative
<1>5. p = Join(a, Join(b, Join(c, d))) /\ p = Join(Join(a, b), Join(<< >>, Join(c, d)))
  BY <1>1, <1>2, <1>3, <1>4
<1> QED BY <1>5, ConsistsIs

(* What is inside a box is its payload, and all of its children ahead.     *)
LEMMA BoxStarts ==
  ASSUME NEW a \in Seq(Piece), NEW b \in Seq(Piece), NEW c \in Seq(Piece)
  PROVE  Consists(Join(Join(a, b), c), a, << >>, b, c)
<1>1. Join(Join(a, b), c) = Join(a, Join(b, c)) /\ Join(b, c) \in Seq(Piece)
  BY Associative
<1>2. Join(<< >>, Join(b, c)) = Join(b, c)
  BY <1>1, Associative
<1> QED BY <1>1, <1>2, ConsistsIs

(* A box that has ended is part of what was written of the one around it.  *)
LEMMA BoxEnds ==
  ASSUME NEW a \in Seq(Piece), NEW h \in Seq(Piece), NEW w \in Seq(Piece), NEW t \in Seq(Piece),
         NEW c \in Seq(Piece), NEW d \in Seq(Piece), NEW p, NEW i,
         Consists(i, w, << >>, << >>, t), Consists(p, a, Join(h, i), c, d)
  PROVE  /\ i = Join(w, t)
         /\ Consists(p, Join(Join(a, Join(h, w)), t), << >>, c, d)
<1>1. i = Join(w, t)
  <2>1. i = Join(w, Join(<< >>, Join(<< >>, t)))
    BY ConsistsIs
  <2>2. Join(<< >>, t) = t
    BY Associative
  <2> QED BY <2>1, <2>2
<1>2. p = Join(a, Join(Join(h, Join(w, t)), Join(c, d)))
  BY <1>1, ConsistsIs
<1>3. /\ Join(h, w) \in Seq(Piece) /\ Join(w, t) \in Seq(Piece) /\ Join(c, d) \in Seq(Piece)
      /\ Join(Join(h, w), t) = Join(h, Join(w, t))
  BY Associative
<1>4. /\ Join(a, Join(h, w)) \in Seq(Piece) /\ Join(h, Join(w, t)) \in Seq(Piece)
      /\ Join(Join(a, Join(h, w)), t) = Join(a, Join(Join(h, w), t))
      /\ Join(<< >>, Join(c, d)) = Join(c, d)
  BY <1>3, Associative
<1>5. Join(Join(a, Join(h, Join(w, t))), Join(c, d)) = Join(a, Join(Join(h, Join(w, t)), Join(c, d)))
  BY <1>3, <1>4, Associative
<1>6. p = Join(Join(Join(a, Join(h, w)), t), Join(<< >>, Join(c, d)))
  BY <1>2, <1>3, <1>4, <1>5
<1> QED BY <1>1, <1>6, ConsistsIs
-----------------------------------------------------------------------------
(* A sequence that a box is taken from is still that of its own box.       *)
LEMMA ChargedKeeps ==
  ASSUME frame \in Frame, NEW quick
  PROVE  /\ Charged(quick).of = frame.of /\ Charged(quick).path = frame.path
         /\ Charged(quick).trailing = frame.trailing
BY DEF Charged, Frame

(* What is ahead of the innermost sequence is the box the reader stands at.*)
LEMMA BoxIsAhead ==
  ASSUME EditInv, ReadsHeader, IsMatched(current_path) => Decodes(info)
  PROVE  /\ Ahead(depth) \in Span /\ HasBox(Ahead(depth))
         /\ Ahead(depth).at = reader /\ InfoAt(reader) = info
         /\ InnerPath(Ahead(depth)) = current_path
         /\ Rest(Ahead(depth)) = [at |-> EndOf(info), limit |-> Limit(depth), path |-> frame.path]
<1> DEFINE n == depth
           span == Ahead(n)
<1>1. /\ state = "running" /\ job.paths # {} /\ reader \in DOMAIN headers /\ info = InfoAt(reader)
      /\ reader + EncodedSize(info) <= job.length /\ CoversHeader(info)
      /\ IsRoot \/ frame.remaining >= SmallHeader
  BY ReadHeader DEF EditInv, ReadsHeader, InSequence, HasHeader
<1>2. /\ n \in Nat /\ n >= 1 /\ frame = frames[n] /\ frame.remaining \in Int /\ reader \in Nat
      /\ job.length \in Nat
  <2>1. reader \in Nat
    BY ReadHeader DEF EditInv
  <2>2. job.length \in Nat
    BY JobsAssumption DEF EditInv, WalkInv, TypeOK
  <2> QED BY <2>1, <2>2, FrameIs DEF EditInv, WalkInv, frame
<1>3. span = [at |-> reader, limit |-> Limit(n), path |-> frame.path]
  BY <1>2 DEF Ahead, NextStart
<1>4. span \in Span
  BY <1>1, <1>2 DEF EditInv, OnTheWay
<1>5. reader + SmallHeader <= job.length
  BY <1>1, <1>2 DEF EncodedSize, SmallHeader, LargeHeader
<1>6. reader + SmallHeader <= Limit(n)
  <2>1. CASE n = 1
    BY <1>5, <2>1 DEF Limit
  <2>2. CASE n # 1
    <3>1. n \in 2..n /\ ~ IsRoot
      BY <1>2, <2>2 DEF IsRoot
    <3>2. NextStart(n) + frames[n].remaining = SequenceEnd(n)
      BY <1>1, <3>1 DEF EditInv, WalkInv, FramesAgree
    <3>3. NextStart(n) = reader /\ Limit(n) = SequenceEnd(n)
      BY <2>2 DEF NextStart, Limit
    <3>4. frame.remaining >= SmallHeader
      BY <1>1, <3>1
    <3> HIDE DEF n
    <3> QED BY <1>2, <3>2, <3>3, <3>4 DEF SmallHeader
  <2> QED BY <2>1, <2>2
<1>7. InnerPath(span) = current_path
  BY <1>3 DEF InnerPath, current_path
<1>8. HasBox(span)
  <2> HIDE DEF span, n
  <2> QED BY <1>1, <1>3, <1>5, <1>6, <1>7 DEF HasBox
<1>9. Rest(span) = [at |-> EndOf(info), limit |-> Limit(n), path |-> frame.path]
  BY <1>1, <1>3 DEF Rest
<1> QED BY <1>1, <1>3, <1>4, <1>7, <1>8, <1>9

(* What is behind the boxes of an open sequence is a piece, or nothing.    *)
LEMMA BehindIs ==
  ASSUME EditInv, state = "running", job.paths # {}, NEW d \in 1..depth
  PROVE  Behind(d) \in Seq(Piece)
<1>1. /\ depth \in Nat /\ frames[d] \in Frame /\ frames[1].trailing = 0
      /\ job \in Jobs
  BY FrameIs DEF EditInv, WalkInv, TypeOK, OnTheWay
<1>2. frames[d].trailing \in Int
  BY <1>1 DEF Frame
<1>3. CASE frames[d].trailing = 0
  BY <1>3, EmptySeq DEF Behind
<1>4. CASE frames[d].trailing # 0
  <2> DEFINE trailing == frames[d].trailing
             at == EndOf(InfoAt(frames[d].of)) - trailing
  <2>1. d \in 2..depth
    BY <1>1, <1>4
  <2>2. frames[d].of \in DOMAIN headers
    BY <2>1 DEF EditInv, WalkInv, OpenBoxes
  <2>3. EndOf(InfoAt(frames[d].of)) \in Int
    BY <1>1, <2>2, BoxIs
  <2>4. at \in Int /\ trailing \in Int /\ "trailing" \in Kinds
    BY <1>2, <2>3 DEF Kinds
  <2>5. Behind(d) = << CopyPiece(at, trailing, "trailing") >>
    BY <1>4 DEF Behind
  <2> HIDE DEF at, trailing
  <2>6. CopyPiece(at, trailing, "trailing") \in Piece
    BY <1>1, <2>2, <2>4, PiecesAre
  <2> QED BY <2>5, <2>6
<1> QED BY <1>3, <1>4

(* A box that is copied is one of the pieces that were promised.           *)
LEMMA CopyBoxOnTheWay ==
  ASSUME EditInv, CopyBox
  PROVE  OnTheWay'
<1>0. PICK n \in Nat : n = depth
  BY FrameIs DEF EditInv, WalkInv
<1> DEFINE span == Ahead(n)
           copy == CopyPiece(reader, info.size, "copy")
<1>1. /\ state = "running" /\ job.paths # {} /\ ReadsHeader /\ ~ IsMatched(current_path)
      /\ state' = "running" /\ job' = job /\ box_stack' = box_stack
      /\ rewritten_count' = rewritten_count /\ reader' = EndOf(info)
      /\ output' = Append(output, copy)
      /\ frames' = [frames EXCEPT ![n] = Charged(frame.quick \/ NamesQuickTime)]
  BY <1>0 DEF CopyBox, ReadsHeader, InSequence
<1>2. /\ n \in Nat /\ n >= 1 /\ DOMAIN frames = 1..n /\ frames \in Seq(Frame) /\ frame \in Frame
      /\ frame = frames[n]
  BY <1>0, FrameIs DEF EditInv, WalkInv, TypeOK, frame
<1>3. depth' = n /\ SameUpTo(n)
  <2> DEFINE taken == Charged(frame.quick \/ NamesQuickTime)
  <2>1. taken.of = frame.of /\ taken.path = frame.path /\ taken.trailing = frame.trailing
    BY <1>2, ChargedKeeps
  <2>2. frames' = [frames EXCEPT ![n] = taken]
    BY <1>1
  <2>3. taken \in Frame
    BY <1>1, <1>2, ReadHeader, ChargedIs DEF EditInv
  <2> HIDE DEF taken
  <2>4. Len(frames') = n /\ \A c \in 1..n : frames'[c] = IF c = n THEN taken ELSE frames[c]
    BY <1>0, <1>2, <2>2, <2>3, ExceptSeq DEF depth
  <2>5. \A c \in 1..n : /\ frames'[c].of = frames[c].of /\ frames'[c].path = frames[c].path
                        /\ frames'[c].trailing = frames[c].trailing
    BY <1>2, <2>1, <2>4
  <2> QED BY <1>1, <2>4, <2>5 DEF SameUpTo, depth
<1>4. /\ span \in Span /\ HasBox(span) /\ span.at = reader /\ InfoAt(reader) = info
      /\ InnerPath(span) = current_path
      /\ Rest(span) = [at |-> EndOf(info), limit |-> Limit(n), path |-> frame.path]
  BY <1>0, <1>1, BoxIsAhead
<1>5. job \in Jobs /\ output \in Seq(Piece) /\ Len(output) \in Nat
  BY LenProperties DEF EditInv, OnTheWay, WalkInv, TypeOK
<1>6. /\ Rest(span) \in Span /\ Edited[Rest(span)] \in Seq(Piece)
      /\ Edited[span] = << copy >> \o Edited[Rest(span)]
  BY <1>1, <1>4, <1>5, EditedSpan
<1>7. copy \in Piece /\ << copy >> \in Seq(Piece) /\ copy.kind = "copy"
  <2>1. reader \in DOMAIN headers /\ reader \in Int /\ info.size \in Int
    BY <1>1, ReadHeader DEF EditInv
  <2>2. copy \in Piece
    BY <1>5, <2>1, PiecesAre DEF Kinds
  <2> QED BY <2>2 DEF CopyPiece
<1> HIDE DEF copy, span
<1>8. /\ output' = output \o << copy >> /\ output' \in Seq(Piece)
      /\ Len(output') = Len(output) + 1
      /\ \A i \in 1..Len(output) : output'[i] = output[i]
  BY <1>1, <1>5, <1>7, AppendIsConcat, AppendProperties
<1>9. /\ \A d \in 1..n : Ahead(d) \in Span /\ IsOnItsWay(d)
      /\ \A d \in 2..n : IsOpen(d)
      /\ frames[1].path = << >> /\ frames[1].trailing = 0
      /\ rewritten_count = Count(output, "edited")
  BY <1>0, <1>1 DEF EditInv, OnTheWay
<1>10. /\ Len(box_stack) = n - 1 /\ \A d \in 1..(n - 1) : box_stack[d].piece \in 1..Len(output)
       /\ DOMAIN box_stack = 1..(n - 1)
  <2>1. /\ Len(box_stack) = n - 1 /\ IsSequence(box_stack) /\ IsSequence(output)
    BY <1>0, <1>1 DEF EditInv, WalkInv, FramesAgree, TypeOK
  <2>2. DOMAIN box_stack = 1..(n - 1) /\ DOMAIN output = 1..Len(output)
    BY <2>1, SequenceLen
  <2> QED BY <1>1, <2>1, <2>2 DEF EditInv, WalkInv, OpenBoxes
<1>11. \A d \in 1..n : FirstOf(d) \in 1..(Len(output) + 1)
  <2> SUFFICES ASSUME NEW d \in 1..n PROVE FirstOf(d) \in 1..(Len(output) + 1)
    OBVIOUS
  <2>1. d # 1 => d - 1 \in 1..(n - 1)
    BY <1>2
  <2> QED BY <1>5, <1>10, <2>1 DEF FirstOf
<1>12. ASSUME NEW d \in 1..(n - 1) PROVE Ahead(d)' \in Span /\ IsOnItsWay(d)'
  <2>1. d \in 1..n /\ n \in 1..n
    BY <1>2
  <2>2. box_stack[d].piece - 1 \in 0..Len(output)
    BY <1>5, <1>10
  <2>3. SubSeq(output', FirstOf(d), box_stack[d].piece - 1)
          = SubSeq(output, FirstOf(d), box_stack[d].piece - 1)
    BY <1>5, <1>7, <1>8, <1>11, <2>1, <2>2, SliceGrows
  <2>4. n \in 1..depth /\ n <= depth' /\ depth \in Nat /\ depth' \in Nat
    BY <1>0, <1>2, <1>3
  <2> QED BY <1>1, <1>3, <1>9, <2>1, <2>3, <2>4, OuterKeeps
<1>13. Ahead(n)' \in Span /\ IsOnItsWay(n)'
  <2>1. n \in 1..n /\ n \in 1..depth /\ n <= depth' /\ depth \in Nat /\ depth' \in Nat
    BY <1>0, <1>2, <1>3
  <2>2. /\ Limit(n)' = Limit(n) /\ Behind(n)' = Behind(n) /\ FirstOf(n)' = FirstOf(n)
        /\ Promised(n)' = Promised(n)
    <3>1. /\ \A c \in 1..n : Limit(c)' = Limit(c) /\ Behind(c)' = Behind(c)
          /\ \A c \in 1..n : FirstOf(c)' = FirstOf(c)
          /\ \A c \in 1..n : Promised(c)' = Promised(c)
      BY <1>1, <1>3, <2>1, SameIs
    <3> QED BY <2>1, <3>1
  <2>3. Ahead(n)' = Rest(span)
    <3>1. NextStart(n)' = EndOf(info) /\ frames'[n].path = frame.path
      <4>1. NextStart(n)' = EndOf(info)
        BY <1>1, <1>3 DEF NextStart
      <4>2. frames'[n].path = frames[n].path
        BY <1>3, <2>1 DEF SameUpTo
      <4> QED BY <1>2, <4>1, <4>2
    <3>2. Ahead(n)' = [at |-> NextStart(n)', limit |-> Limit(n)', path |-> frames'[n].path]
      BY DEF Ahead
    <3> QED BY <1>4, <2>2, <3>1, <3>2
  <2>4. Open(n) = << >> /\ Open(n)' = << >>
    BY <1>0, <1>3 DEF Open
  <2>5. Written(n)' = Join(Written(n), << copy >>)
    <3>1. Written(n) = SubSeq(output, FirstOf(n), Len(output))
      BY <1>0 DEF Written, LastOf
    <3>2. Written(n)' = SubSeq(output', FirstOf(n), Len(output'))
      BY <1>3, <2>2 DEF Written, LastOf
    <3>3. FirstOf(n) \in 1..(Len(output) + 1)
      BY <1>11, <2>1
    <3>4. SubSeq(output \o << copy >>, FirstOf(n), Len(output \o << copy >>))
            = SubSeq(output, FirstOf(n), Len(output)) \o << copy >>
      BY <1>5, <1>7, <3>3, SliceGrows
    <3> QED BY <1>8, <3>1, <3>2, <3>4 DEF Join
  <2>6. Written(n) \in Seq(Piece)
    <3>1. FirstOf(n) \in 1..(Len(output) + 1) /\ Len(output) \in 0..Len(output)
      BY <1>5, <1>11, <2>1
    <3> QED BY <1>0, <1>5, <3>1, SliceIs DEF Written, LastOf
  <2>7. Behind(n) \in Seq(Piece)
    BY <1>1, <2>1, BehindIs
  <2>8. Consists(Promised(n), Written(n), << >>, Join(<< copy >>, Edited[Rest(span)]), Behind(n))
    <3>1. Edited[span] = Join(<< copy >>, Edited[Rest(span)])
      BY <1>6 DEF Join
    <3> QED BY <1>9, <2>1, <2>4, <3>1 DEF IsOnItsWay, span
  <2>9. Consists(Promised(n), Join(Written(n), << copy >>), << >>, Edited[Rest(span)], Behind(n))
    BY <1>6, <1>7, <2>6, <2>7, <2>8, BoxJoins
  <2>10. Edited' = Edited
    BY <1>1, PromiseKeeps
  <2> QED BY <1>6, <2>2, <2>3, <2>4, <2>5, <2>9, <2>10 DEF IsOnItsWay
<1>14. ASSUME NEW d \in 2..n PROVE IsOpen(d)'
  <2>1. d - 1 \in 1..(n - 1) /\ n \in 1..depth /\ n <= depth' /\ depth \in Nat /\ depth' \in Nat
    BY <1>0, <1>2, <1>3
  <2>2. output'[box_stack[d - 1].piece].size = output[box_stack[d - 1].piece].size
    BY <1>8, <1>10, <2>1
  <2> QED BY <1>1, <1>3, <1>9, <2>1, <2>2, OpenKeeps
<1>15. rewritten_count' = Count(output', "edited")
  <2>1. Count(output', "edited") = Count(output, "edited") + 0
    BY <1>5, <1>7, <1>8, CountOfAppended
  <2>2. Count(output, "edited") \in Nat
    BY <1>5, CountIs
  <2> QED BY <1>1, <1>9, <2>1, <2>2
<1>16. \A d \in 1..n : Ahead(d)' \in Span /\ IsOnItsWay(d)'
  <2>1. \A d \in 1..n : d # n => d \in 1..(n - 1)
    BY <1>2
  <2> QED BY <1>12, <1>13, <2>1
<1>17. frames'[1].path = << >> /\ frames'[1].trailing = 0
  BY <1>2, <1>3, <1>9 DEF SameUpTo
<1> QED BY <1>1, <1>3, <1>8, <1>14, <1>15, <1>16, <1>17 DEF OnTheWay, OutputIsEdited
-----------------------------------------------------------------------------
(* Two pieces are appended one by one.                                     *)
LEMMA PairJoins ==
  ASSUME NEW s \in Seq(Piece), NEW x \in Piece, NEW y \in Piece
  PROVE  /\ s \o << x, y >> = (s \o << x >>) \o << y >>
         /\ s \o << x >> \in Seq(Piece) /\ Len(s \o << x >>) = Len(s) + 1
         /\ (s \o << x >>)[Len(s) + 1] = x
         /\ \A i \in 1..Len(s) : (s \o << x >>)[i] = s[i]
<1>1. << x >> \in Seq(Piece) /\ << y >> \in Seq(Piece) /\ << x >> \o << y >> = << x, y >>
  <2>1. /\ << x >> \in Seq(Piece) /\ Len(<< x >>) = 1 /\ << x >>[1] = x
        /\ << y >> \in Seq(Piece) /\ Len(<< y >>) = 1 /\ << y >>[1] = y
        /\ << x, y >> \in Seq(Piece) /\ Len(<< x, y >>) = 2
        /\ << x, y >>[1] = x /\ << x, y >>[2] = y
    OBVIOUS
  <2> DEFINE both == << x >> \o << y >>
  <2>2. /\ both \in Seq(Piece) /\ Len(both) = 1 + 1
        /\ \A i \in 1..(1 + 1) : both[i] = IF i <= 1 THEN << x >>[i] ELSE << y >>[i - 1]
    BY <2>1, ConcatProperties
  <2> HIDE DEF both
  <2>3. both[1] = x /\ both[2] = y /\ Len(both) = 2
    BY <2>1, <2>2
  <2>4. \A i \in 1..2 : both[i] = << x, y >>[i]
    BY <2>1, <2>3
  <2>5. both = << x, y >>
    BY <2>1, <2>2, <2>3, <2>4, SeqEqual
  <2> QED BY <2>1, <2>5 DEF both
<1>2. (s \o << x >>) \o << y >> = s \o (<< x >> \o << y >>)
  BY <1>1, ConcatAssociative
<1>3. Append(s, x) = s \o << x >>
  BY AppendIsConcat
<1>4. /\ Append(s, x) \in Seq(Piece) /\ Len(Append(s, x)) = Len(s) + 1
      /\ Append(s, x)[Len(s) + 1] = x /\ \A i \in 1..Len(s) : Append(s, x)[i] = s[i]
  BY AppendProperties
<1> QED BY <1>1, <1>2, <1>3, <1>4

(* What a placeholder is: as long as the header that was read.             *)
LEMMA PlaceholderIs ==
  ASSUME job \in Jobs, NEW offset, reader \in DOMAIN headers
  PROVE  /\ EncodedSize(Placeholder) = info.header_size
         /\ Normalized(Placeholder, offset)
              = [info EXCEPT !.offset = offset, !.size = info.header_size]
         /\ Normalized(Placeholder, offset).offset = offset
         /\ Placeholder.size = info.header_size /\ info.header_size \in Int
<1> DEFINE hs == info.header_size
           eof == info.extend_to_eof
<1>1. info = [offset |-> info.offset, size |-> info.size, header_size |-> hs, extend_to_eof |-> eof]
      /\ hs \in {SmallHeader, LargeHeader} /\ (eof => hs = SmallHeader)
  BY DEF info, InfoAt, InfoIn, ReadBack, SmallHeader, LargeHeader
<1> HIDE DEF hs, eof
<1>2. Placeholder = [offset |-> info.offset, size |-> hs, header_size |-> hs, extend_to_eof |-> eof]
  BY <1>1 DEF Placeholder, hs
<1>3. EncodedSize(Placeholder) = hs
  BY <1>1, <1>2, U32MaxAssumption DEF EncodedSize, HeaderForm, SmallHeader, LargeHeader
<1>4. hs \in Int
  BY <1>1 DEF SmallHeader, LargeHeader
<1>5. Normalized(Placeholder, offset)
        = [offset |-> offset, size |-> hs, header_size |-> hs, extend_to_eof |-> eof]
  BY <1>2, <1>3, <1>4 DEF Normalized
<1>6. [info EXCEPT !.offset = offset, !.size = hs]
        = [offset |-> offset, size |-> hs, header_size |-> hs, extend_to_eof |-> eof]
  <2>1. PICK x, y, h, e :
          /\ info = [offset |-> x, size |-> y, header_size |-> h, extend_to_eof |-> e]
          /\ h = hs /\ e = eof
    BY <1>1
  <2>2. [[offset |-> x, size |-> y, header_size |-> h, extend_to_eof |-> e]
           EXCEPT !.offset = offset, !.size = h]
          = [offset |-> offset, size |-> h, header_size |-> h, extend_to_eof |-> e]
    <3> DEFINE r == [offset |-> x, size |-> y, header_size |-> h, extend_to_eof |-> e]
               s == [r EXCEPT !.offset = offset, !.size = h]
               t == [offset |-> offset, size |-> h, header_size |-> h, extend_to_eof |-> e]
               fields == {"offset", "size", "header_size", "extend_to_eof"}
    <3>1. DOMAIN r = fields /\ r.header_size = h /\ r.extend_to_eof = e
      OBVIOUS
    <3>2. DOMAIN t = fields /\ t = [k \in fields |-> t[k]]
      OBVIOUS
    <3>3. t.offset = offset /\ t.size = h /\ t.header_size = h /\ t.extend_to_eof = e
      OBVIOUS
    <3> HIDE DEF r, t
    <3>4. DOMAIN s = fields /\ s = [k \in fields |-> s[k]]
      BY <3>1
    <3>5. s.offset = offset /\ s.size = h /\ s.header_size = h /\ s.extend_to_eof = e
      BY <3>1
    <3> HIDE DEF s
    <3>6. \A k \in fields : s[k] = t[k]
      BY <3>3, <3>5
    <3>7. s = t
      BY <3>2, <3>4, <3>6
    <3> QED BY <3>7 DEF r, s, t
  <2>3. [info EXCEPT !.offset = offset, !.size = hs]
          = [[offset |-> x, size |-> y, header_size |-> h, extend_to_eof |-> e]
               EXCEPT !.offset = offset, !.size = h]
    BY <2>1, Zenon
  <2> QED BY <2>1, <2>2, <2>3, Zenon
<1>7. Normalized(Placeholder, offset).offset = offset /\ Placeholder.size = hs
  BY <1>2, <1>5
<1> QED BY <1>3, <1>4, <1>5, <1>6, <1>7 DEF hs

(* A box that is entered becomes one of the open sequences.                *)
LEMMA EnterBoxOnTheWay ==
  ASSUME EditInv, EnterBox
  PROVE  OnTheWay'
<1>0. PICK n \in Nat : n = depth
  BY FrameIs DEF EditInv, WalkInv
<1> DEFINE span == Ahead(n)
           header == HeaderPiece(Placeholder, reader)
           payload == PayloadPiece(reader, current_path)
           placed == [info |-> Normalized(Placeholder, SizeOf(output)), piece |-> Len(output) + 1]
           opened == [remaining |-> PayloadSize(info) - OwnSize(reader) - TrailingSize(info),
                      path |-> current_path, quick |-> frame.quick \/ NamesQuickTime,
                      of |-> reader, trailing |-> TrailingSize(info)]
           with == output \o << header >>
<1>1. /\ state = "running" /\ job.paths # {} /\ ReadsHeader /\ IsMatched(current_path)
      /\ Decodes(info) /\ state' = "running" /\ job' = job
      /\ box_stack' = Append(box_stack, placed)
      /\ rewritten_count' = rewritten_count + (IF ExactMatch(current_path) THEN 1 ELSE 0)
      /\ reader' = ChildrenOffset(info) /\ output' = output \o << header, payload >>
      /\ frames' = Append([frames EXCEPT ![n] = Charged(frame.quick)], opened)
  BY <1>0 DEF EnterBox, ReadsHeader, InSequence
<1>2. /\ n \in Nat /\ n >= 1 /\ DOMAIN frames = 1..n /\ frames \in Seq(Frame) /\ frame \in Frame
      /\ frame = frames[n]
  BY <1>0, FrameIs DEF EditInv, WalkInv, TypeOK, frame
<1>3. /\ span \in Span /\ HasBox(span) /\ span.at = reader /\ InfoAt(reader) = info
      /\ InnerPath(span) = current_path
      /\ Rest(span) = [at |-> EndOf(info), limit |-> Limit(n), path |-> frame.path]
  BY <1>0, <1>1, BoxIsAhead
<1>4. job \in Jobs /\ output \in Seq(Piece) /\ Len(output) \in Nat
  BY LenProperties DEF EditInv, OnTheWay, WalkInv, TypeOK
<1>5. /\ reader \in DOMAIN headers /\ reader \in Nat /\ TrailingSize(info) \in Nat
  <2>1. reader \in DOMAIN headers /\ reader \in Nat
    BY <1>1, ReadHeader DEF EditInv
  <2>2. TrailingSize(info) \in Nat
    BY <1>1, <1>3, <1>4, SpansGoOn
  <2> QED BY <2>1, <2>2
<1>6. /\ header \in Piece /\ payload \in Piece /\ header.kind = "header"
      /\ header.size = info.header_size
      /\ payload.kind = IF ExactMatch(current_path) THEN "edited" ELSE "payload"
  <2>1. header \in Piece /\ payload \in Piece
    BY <1>4, <1>5, PiecesAre, PlaceholderIs
  <2>2. header.size = info.header_size
    BY <1>4, <1>5, PlaceholderIs DEF HeaderPiece
  <2> QED BY <2>1, <2>2 DEF HeaderPiece, PayloadPiece
<1>7. /\ opened.path = current_path /\ opened.of = reader /\ opened.trailing = TrailingSize(info)
      /\ opened \in Frame
      /\ placed.piece = Len(output) + 1
      /\ placed.info = [info EXCEPT !.offset = placed.info.offset, !.size = info.header_size]
  <2>1. placed.info = [info EXCEPT !.offset = placed.info.offset, !.size = info.header_size]
    BY <1>4, <1>5, PlaceholderIs
  <2>2. opened \in Frame
    <3> DEFINE remaining == PayloadSize(info) - OwnSize(reader) - TrailingSize(info)
               quick == frame.quick \/ NamesQuickTime
    <3>1. remaining \in Int
      <4>1. info.size \in Int /\ OwnSize(reader) \in Nat /\ info.header_size \in Int
        BY <1>3, <1>4, <1>5, BoxIs
      <4>2. PayloadSize(info) \in Int
        BY <4>1 DEF PayloadSize
      <4> QED BY <1>5, <4>1, <4>2
    <3>2. quick \in BOOLEAN
      OBVIOUS
    <3>3. current_path \in Seq(STRING)
      BY <1>1, ReadHeader DEF EditInv
    <3>4. opened = [remaining |-> remaining, path |-> current_path, quick |-> quick,
                    of |-> reader, trailing |-> TrailingSize(info)]
      OBVIOUS
    <3> HIDE DEF remaining, quick, opened
    <3> QED BY <1>5, <3>1, <3>2, <3>3, <3>4 DEF Frame
  <2> QED BY <2>1, <2>2
<1> HIDE DEF span, header, payload, placed, opened, with
<1>8. /\ output' = with \o << payload >> /\ with \in Seq(Piece) /\ Len(with) = Len(output) + 1
      /\ with[Len(output) + 1] = header /\ \A i \in 1..Len(output) : with[i] = output[i]
  BY <1>1, <1>4, <1>6, PairJoins DEF with
<1>9. /\ output' \in Seq(Piece) /\ Len(output') = Len(output) + 2
      /\ output'[Len(output) + 1] = header /\ \A i \in 1..Len(output) : output'[i] = output[i]
  <2>1. /\ with \o << payload >> \in Seq(Piece) /\ Len(with \o << payload >>) = Len(with) + 1
        /\ \A i \in 1..Len(with) : (with \o << payload >>)[i] = with[i]
    BY <1>6, <1>8, PairJoins
  <2>2. output' \in Seq(Piece) /\ Len(output') = Len(output) + 1 + 1
        /\ \A i \in 1..(Len(output) + 1) : output'[i] = with[i]
    BY <1>8, <2>1
  <2> QED BY <1>4, <1>8, <2>2
<1>10. /\ depth' = n + 1 /\ frames'[n + 1] = opened
       /\ \A c \in 1..n : /\ frames'[c].of = frames[c].of /\ frames'[c].path = frames[c].path
                          /\ frames'[c].trailing = frames[c].trailing
  <2> DEFINE taken == Charged(frame.quick)
             left == [frames EXCEPT ![n] = taken]
  <2>1. taken.of = frame.of /\ taken.path = frame.path /\ taken.trailing = frame.trailing
    BY <1>2, ChargedKeeps
  <2>2. taken \in Frame
    <3>1. info.size \in Int /\ frame.quick \in BOOLEAN
      BY <1>1, <1>2, ReadHeader DEF EditInv, Frame
    <3> QED BY <1>2, <3>1, ChargedIs
  <2>3. frames' = Append(left, opened)
    BY <1>1
  <2> HIDE DEF taken
  <2>4. left \in Seq(Frame) /\ Len(left) = n /\ \A c \in 1..n : left[c] = IF c = n THEN taken ELSE frames[c]
    BY <1>0, <1>2, <2>2, ExceptSeq DEF depth
  <2> HIDE DEF left
  <2>5. Len(frames') = n + 1 /\ frames'[n + 1] = opened /\ \A c \in 1..n : frames'[c] = left[c]
    BY <1>7, <2>3, <2>4, AppendProperties
  <2> QED BY <1>2, <2>1, <2>4, <2>5 DEF depth
<1>11. /\ Len(box_stack) = n - 1 /\ \A d \in 1..(n - 1) : box_stack[d].piece \in 1..Len(output)
       /\ DOMAIN box_stack = 1..(n - 1)
       /\ box_stack'[n] = placed /\ \A d \in 1..(n - 1) : box_stack'[d] = box_stack[d]
  <2>1. /\ Len(box_stack) = n - 1 /\ IsSequence(box_stack) /\ IsSequence(output)
    BY <1>0, <1>1 DEF EditInv, WalkInv, FramesAgree, TypeOK
  <2>2. DOMAIN box_stack = 1..(n - 1) /\ DOMAIN output = 1..Len(output)
    BY <2>1, SequenceLen
  <2>3. /\ Append(box_stack, placed)[(n - 1) + 1] = placed
        /\ \A d \in 1..(n - 1) : Append(box_stack, placed)[d] = box_stack[d]
    BY <2>1, <2>2, AppendIs
  <2>4. box_stack'[n] = placed /\ \A d \in 1..(n - 1) : box_stack'[d] = box_stack[d]
    <3>1. (n - 1) + 1 = n
      BY <1>2
    <3> QED BY <1>1, <2>3, <3>1
  <2>5. \A d \in 1..(n - 1) : box_stack[d].piece \in 1..Len(output)
    BY <1>1, <2>2 DEF EditInv, WalkInv, OpenBoxes
  <2> QED BY <2>1, <2>2, <2>4, <2>5
<1>12. /\ SameUpTo(n) /\ n \in 1..depth /\ n <= depth' /\ depth \in Nat /\ depth' \in Nat
  BY <1>0, <1>2, <1>10, <1>11 DEF SameUpTo
<1>13. /\ \A c \in 1..n : Limit(c)' = Limit(c) /\ Behind(c)' = Behind(c)
       /\ \A c \in 1..n : FirstOf(c)' = FirstOf(c)
       /\ \A c \in 1..n : Promised(c)' = Promised(c)
  BY <1>1, <1>12, SameIs
<1>14. /\ \A d \in 1..n : Ahead(d) \in Span /\ IsOnItsWay(d)
       /\ \A d \in 2..n : IsOpen(d)
       /\ frames[1].path = << >> /\ frames[1].trailing = 0
       /\ rewritten_count = Count(output, "edited")
  BY <1>0, <1>1 DEF EditInv, OnTheWay
<1>15. \A d \in 1..n : FirstOf(d) \in 1..(Len(output) + 1)
  <2> SUFFICES ASSUME NEW d \in 1..n PROVE FirstOf(d) \in 1..(Len(output) + 1)
    OBVIOUS
  <2>1. d # 1 => d - 1 \in 1..(n - 1)
    BY <1>2
  <2> QED BY <1>4, <1>11, <2>1 DEF FirstOf
<1>16. \A d \in 1..n : \A b \in 0..Len(output) :
         SubSeq(output', FirstOf(d), b) = SubSeq(output, FirstOf(d), b)
  <2> SUFFICES ASSUME NEW d \in 1..n, NEW b \in 0..Len(output)
               PROVE  SubSeq(output', FirstOf(d), b) = SubSeq(output, FirstOf(d), b)
    OBVIOUS
  <2>1. /\ FirstOf(d) \in 1..(Len(output) + 1) /\ FirstOf(d) \in 1..(Len(with) + 1)
        /\ b \in 0..Len(with)
    BY <1>4, <1>8, <1>15
  <2>2. << payload >> \in Seq(Piece) /\ << header >> \in Seq(Piece)
    BY <1>6
  <2>3. SubSeq(with \o << payload >>, FirstOf(d), b) = SubSeq(with, FirstOf(d), b)
    BY <1>8, <2>1, <2>2, SliceGrows
  <2>4. SubSeq(output \o << header >>, FirstOf(d), b) = SubSeq(output, FirstOf(d), b)
    BY <1>4, <2>1, <2>2, SliceGrows
  <2> QED BY <1>8, <2>3, <2>4 DEF with
<1>17. ASSUME NEW d \in 1..(n - 1) PROVE Ahead(d)' \in Span /\ IsOnItsWay(d)'
  <2>1. d \in 1..n
    BY <1>2
  <2>2. box_stack[d].piece - 1 \in 0..Len(output)
    BY <1>4, <1>11
  <2>3. SubSeq(output', FirstOf(d), box_stack[d].piece - 1)
          = SubSeq(output, FirstOf(d), box_stack[d].piece - 1)
    BY <1>16, <2>1, <2>2
  <2> QED BY <1>1, <1>12, <1>14, <2>1, <2>3, OuterKeeps
<1>18. Opened(n + 1)' = span
  <2>1. /\ Opened(n + 1)' = [at |-> frames'[n + 1].of, limit |-> Limit(n)', path |-> frames'[n].path]
    <3>1. (n + 1) - 1 = n
      BY <1>2
    <3> QED BY <3>1 DEF Opened
  <2>2. n \in 1..n /\ NextStart(n) = reader
    BY <1>0, <1>2 DEF NextStart
  <2>3. frames'[n].path = frames[n].path /\ Limit(n)' = Limit(n)
    BY <1>10, <1>13, <2>2
  <2> QED BY <1>7, <1>10, <2>1, <2>2, <2>3 DEF Ahead, span
<1>19. /\ Edited[span] = Join(Whole(span), Edited[Rest(span)])
       /\ Rest(span) \in Span /\ Edited[Rest(span)] \in Seq(Piece)
       /\ Children(span) \in Span /\ Edited[Children(span)] \in Seq(Piece)
       /\ Inner(span) \in Seq(Piece) /\ Whole(span) \in Seq(Piece)
  BY <1>1, <1>3, <1>4, EditedSpan DEF Join
<1>20. Edited' = Edited /\ Whole(span) = Whole(Opened(n + 1))' /\ Inner(span) = Inner(Opened(n + 1))'
  BY <1>1, <1>18, PromiseKeeps
<1>21. \A at : InfoAt(at)' = InfoAt(at)
  BY <1>1 DEF InfoAt, headers
<1>22. Ahead(n)' \in Span /\ IsOnItsWay(n)'
  <2>1. n \in 1..n /\ n # n + 1
    BY <1>2
  <2>2. Ahead(n)' = Rest(span)
    <3>1. NextStart(n)' = EndOf(InfoAt(frames[n + 1].of)')
      BY <1>10, <2>1 DEF NextStart
    <3>2. InfoAt(frames[n + 1].of)' = info
      BY <1>3, <1>7, <1>10, <1>21
    <3>3. NextStart(n)' = EndOf(info)
      BY <3>1, <3>2
    <3>4. frames'[n].path = frame.path /\ Limit(n)' = Limit(n)
      BY <1>2, <1>10, <1>13, <2>1
    <3>5. Ahead(n)' = [at |-> NextStart(n)', limit |-> Limit(n)', path |-> frames'[n].path]
      BY DEF Ahead
    <3> QED BY <1>3, <3>3, <3>4, <3>5
  <2>3. Open(n) = << >> /\ Open(n)' = Whole(span)
    BY <1>0, <1>10, <1>20, <2>1 DEF Open
  <2>4. Written(n)' = Written(n)
    <3>1. Written(n) = SubSeq(output, FirstOf(n), Len(output))
      BY <1>0 DEF Written, LastOf
    <3>2. LastOf(n)' = box_stack'[n].piece - 1
      BY <1>10, <2>1 DEF LastOf
    <3>3. LastOf(n)' = Len(output)
      BY <1>4, <1>7, <1>11, <3>2
    <3>4. Written(n)' = SubSeq(output', FirstOf(n), Len(output))
      BY <1>13, <2>1, <3>3 DEF Written
    <3>5. Len(output) \in 0..Len(output)
      BY <1>4
    <3> QED BY <1>16, <2>1, <3>1, <3>4, <3>5
  <2>5. Written(n) \in Seq(Piece)
    <3>1. FirstOf(n) \in 1..(Len(output) + 1) /\ Len(output) \in 0..Len(output)
      BY <1>4, <1>15, <2>1
    <3> QED BY <1>0, <1>4, <3>1, SliceIs DEF Written, LastOf
  <2>6. Behind(n) \in Seq(Piece)
    BY <1>0, <1>1, <2>1, BehindIs
  <2>7. Consists(Promised(n), Written(n), << >>, Join(Whole(span), Edited[Rest(span)]), Behind(n))
    BY <1>14, <1>19, <2>1, <2>3 DEF IsOnItsWay, span
  <2>8. Consists(Promised(n), Written(n), Whole(span), Edited[Rest(span)], Behind(n))
    BY <1>19, <2>5, <2>6, <2>7, BoxJoins
  <2>9. Promised(n)' = Promised(n) /\ Behind(n)' = Behind(n)
    BY <1>13, <2>1
  <2> QED BY <1>19, <1>20, <2>2, <2>3, <2>4, <2>8, <2>9 DEF IsOnItsWay
<1>23. Ahead(n + 1)' \in Span /\ IsOnItsWay(n + 1)'
  <2>1. n + 1 # 1 /\ n + 1 = depth'
    BY <1>2, <1>10
  <2>2. InfoAt(frames[n + 1].of)' = info
    BY <1>3, <1>7, <1>10, <1>21
  <2>3. Ahead(n + 1)' = Children(span)
    <3>1. NextStart(n + 1)' = ChildrenOffset(info)
      BY <1>1, <2>1 DEF NextStart
    <3>2. Limit(n + 1)' = EndOf(info) - TrailingSize(info)
      BY <1>7, <1>10, <2>1, <2>2 DEF Limit, SequenceEnd
    <3>3. Ahead(n + 1)' = [at |-> NextStart(n + 1)', limit |-> Limit(n + 1)',
                           path |-> frames'[n + 1].path]
      BY DEF Ahead
    <3> QED BY <1>3, <1>7, <1>10, <3>1, <3>2, <3>3 DEF Children
  <2>4. Open(n + 1)' = << >>
    BY <2>1 DEF Open
  <2>5. Written(n + 1)' = << payload >>
    <3>1. FirstOf(n + 1)' = Len(output) + 2
      <4>1. (n + 1) - 1 = n
        BY <1>2
      <4> QED BY <1>4, <1>7, <1>11, <2>1, <4>1 DEF FirstOf
    <3>2. LastOf(n + 1)' = Len(output')
      BY <2>1 DEF LastOf
    <3>3. << payload >> \in Seq(Piece) /\ Len(output) + 2 \in 1..(Len(with) + 1)
      BY <1>4, <1>6, <1>8
    <3>4. SubSeq(with \o << payload >>, Len(output) + 2, Len(with \o << payload >>))
            = SubSeq(with, Len(output) + 2, Len(with)) \o << payload >>
      BY <1>8, <3>3, SliceGrows
    <3>5. SubSeq(with, Len(output) + 2, Len(with)) = << >>
      BY <1>4, <1>8, SubSeqEmpty
    <3>6. << >> \o << payload >> = << payload >>
      BY <3>3, ConcatEmptySeq
    <3> QED BY <1>8, <3>1, <3>2, <3>4, <3>5, <3>6 DEF Written
  <2>6. /\ Behind(n + 1)' = (IF TrailingSize(info) = 0 THEN << >>
                             ELSE << CopyPiece(EndOf(info) - TrailingSize(info),
                                               TrailingSize(info), "trailing") >>)
        /\ Behind(n + 1)' \in Seq(Piece)
    <3> DEFINE trailing == TrailingSize(info)
               at == EndOf(info) - trailing
    <3>1. Behind(n + 1)' = IF trailing = 0 THEN << >> ELSE << CopyPiece(at, trailing, "trailing") >>
      BY <1>7, <1>10, <2>2 DEF Behind, CopyPiece
    <3>2. at \in Int /\ trailing \in Int /\ "trailing" \in Kinds
      BY <1>3, <1>4, <1>5, BoxIs DEF Kinds
    <3> HIDE DEF at, trailing
    <3>3. CopyPiece(at, trailing, "trailing") \in Piece
      BY <1>4, <1>5, <3>2, PiecesAre
    <3>4. Behind(n + 1)' \in Seq(Piece)
      <4>1. CASE trailing = 0
        BY <3>1, <4>1, EmptySeq
      <4>2. CASE trailing # 0
        <5>1. Behind(n + 1)' = << CopyPiece(at, trailing, "trailing") >>
          BY <3>1, <4>2
        <5>2. << CopyPiece(at, trailing, "trailing") >> \in Seq(Piece)
          BY <3>3
        <5> QED BY <5>1, <5>2
      <4> QED BY <4>1, <4>2
    <3> QED BY <3>1, <3>4 DEF at, trailing
  <2>7. Inner(span) = Join(Join(<< payload >>, Edited[Children(span)]), Behind(n + 1)')
    BY <1>3, <2>6 DEF Inner, Inside, Join, payload
  <2>8. Consists(Inner(span), << payload >>, << >>, Edited[Children(span)], Behind(n + 1)')
    <3>1. << payload >> \in Seq(Piece)
      BY <1>6
    <3>2. PICK b \in Seq(Piece) : b = Behind(n + 1)'
      BY <2>6
    <3>3. Consists(Join(Join(<< payload >>, Edited[Children(span)]), b),
                   << payload >>, << >>, Edited[Children(span)], b)
      BY <1>19, <3>1, BoxStarts
    <3> QED BY <2>7, <3>2, <3>3
  <2>9. Promised(n + 1)' = Inner(span)
    BY <1>20, <2>1 DEF Promised
  <2> QED BY <1>19, <1>20, <2>3, <2>4, <2>5, <2>8, <2>9 DEF IsOnItsWay
<1>24. IsOpen(n + 1)'
  <2>1. (n + 1) - 1 = n
    BY <1>2
  <2>2. InfoAt(frames[n + 1].of)' = info
    BY <1>3, <1>7, <1>10, <1>21
  <2>3. /\ Opened(n + 1)' \in Span /\ HasBox(Opened(n + 1))'
        /\ InnerPath(Opened(n + 1))' = current_path
    <3>1. HasBox(Opened(n + 1))' = HasBox(span) /\ InnerPath(Opened(n + 1))' = InnerPath(span)
      BY <1>1, <1>18, PromiseKeeps
    <3> QED BY <1>3, <1>18, <3>1
  <2>4. IsMatched(frames[n + 1].path)' = IsMatched(current_path)
    BY <1>1, <1>7, <1>10, PromiseKeeps
  <2>5. TrailingSize(InfoAt(frames[n + 1].of))' = TrailingSize(info)
    BY <1>1, <2>2, PromiseKeeps
  <2>6. output'[placed.piece].size = info.header_size
    BY <1>6, <1>7, <1>9
  <2> QED BY <1>1, <1>7, <1>10, <1>11, <2>1, <2>2, <2>3, <2>4, <2>5, <2>6 DEF IsOpen
<1>25. ASSUME NEW d \in 2..n PROVE IsOpen(d)'
  <2>1. d - 1 \in 1..(n - 1)
    BY <1>2
  <2>2. output'[box_stack[d - 1].piece].size = output[box_stack[d - 1].piece].size
    BY <1>9, <1>11, <2>1
  <2> QED BY <1>1, <1>12, <1>14, <2>1, <2>2, OpenKeeps
<1>26. rewritten_count' = Count(output', "edited")
  <2>1. Count(output \o << header >>, "edited") = Count(output, "edited") + 0
    BY <1>4, <1>6, CountOfAppended
  <2>2. Count(with \o << payload >>, "edited")
          = Count(with, "edited") + IF payload.kind = "edited" THEN 1 ELSE 0
    BY <1>6, <1>8, CountOfAppended
  <2>3. Count(output, "edited") \in Nat
    BY <1>4, CountIs
  <2>4. Count(with, "edited") = Count(output, "edited")
    BY <2>1, <2>3 DEF with
  <2> QED BY <1>1, <1>6, <1>8, <1>14, <2>2, <2>4
<1>27. \A d \in 1..(n + 1) : Ahead(d)' \in Span /\ IsOnItsWay(d)'
  <2>1. \A d \in 1..(n + 1) : d # n /\ d # n + 1 => d \in 1..(n - 1)
    BY <1>2
  <2> QED BY <1>17, <1>22, <1>23, <2>1
<1>28. \A d \in 2..(n + 1) : IsOpen(d)'
  <2>1. \A d \in 2..(n + 1) : d # n + 1 => d \in 2..n
    BY <1>2
  <2> QED BY <1>24, <1>25, <2>1
<1>29. frames'[1].path = << >> /\ frames'[1].trailing = 0
  BY <1>2, <1>10, <1>14
<1> QED BY <1>1, <1>9, <1>10, <1>26, <1>27, <1>28, <1>29 DEF OnTheWay, OutputIsEdited
-----------------------------------------------------------------------------
(* A list is as long as the pieces around one of its own, and that piece.  *)
LEMMA SizeAround ==
  ASSUME NEW s \in Seq(Piece), NEW k \in 1..Len(s)
  PROVE  SizeOf(s) = SizeOf(SubSeq(s, 1, k - 1)) + s[k].size + SizeOf(SubSeq(s, k + 1, Len(s)))
<1> DEFINE n == Len(s)
           before == SubSeq(s, 1, k - 1)
           behind == SubSeq(s, k + 1, n)
<1>1. n \in Nat /\ DOMAIN s = 1..n /\ \A i \in 1..n : s[i] \in Piece
  BY LenProperties, ElementOfSeq
<1>2. /\ 1 \in 1..(n + 1) /\ k - 1 \in 0..n /\ k - 1 \in (1 - 1)..n /\ n \in (k - 1)..n /\ n \in k..n
      /\ k + 1 \in 1..(n + 1) /\ n \in 0..n /\ (k - 1) + 1 = k /\ s[k] \in Piece
  BY <1>1
<1>3. before \in Seq(Piece) /\ behind \in Seq(Piece)
  BY <1>2, SliceIs
<1>4. SubSeq(s, 1, k - 1) \o SubSeq(s, (k - 1) + 1, n) = SubSeq(s, 1, n)
  BY <1>2, ConcatAdjacentSubSeq
<1>5. SubSeq(s, k, n) = << s[k] >> \o behind
  BY <1>2, SubSeqRecursiveFirst
<1>6. SubSeq(s, 1, n) = s
  BY <1>1, SubSeqFull
<1>7. << s[k] >> \in Seq(Piece) /\ SizeOf(<< s[k] >>) = s[k].size
  BY <1>2, SizeOfOne
<1> HIDE DEF before, behind, n
<1>8. /\ << s[k] >> \o behind \in Seq(Piece)
      /\ SizeOf(<< s[k] >> \o behind) = s[k].size + SizeOf(behind)
  BY <1>3, <1>7, SizeOfConcat, ConcatProperties
<1>9. SizeOf(before \o (<< s[k] >> \o behind)) = SizeOf(before) + SizeOf(<< s[k] >> \o behind)
  BY <1>3, <1>8, SizeOfConcat
<1>10. s = before \o (<< s[k] >> \o behind)
  BY <1>2, <1>4, <1>5, <1>6 DEF before
<1>11. SizeOf(s) = SizeOf(before) + (s[k].size + SizeOf(behind))
  BY <1>8, <1>9, <1>10
<1>12. SizeOf(before) \in Int /\ SizeOf(behind) \in Int /\ s[k].size \in Int
  BY <1>2, <1>3, SizeOfIs DEF Piece
<1>13. SizeOf(s) = SizeOf(before) + s[k].size + SizeOf(behind)
  BY <1>11, <1>12
<1> QED BY <1>13 DEF before, behind, n

(* A list with one piece written over, and others behind it; and what that *)
(* leaves of it.                                                           *)
Again(s, k, p, t) == Join([s EXCEPT ![k] = p], t)

IsReplaced(s, k, p, t, a, r) ==
  /\ r \in Seq(Piece) /\ Len(s) <= Len(r)
  /\ \A i \in 1..Len(s) : i # k => r[i] = s[i]
  /\ \A c \in 1..(Len(s) + 1) : \A b \in 0..(k - 1) : SubSeq(r, c, b) = SubSeq(s, c, b)
  /\ SubSeq(r, a, Len(r))
       = Join(Join(SubSeq(s, a, k - 1), Join(<< p >>, SubSeq(s, k + 1, Len(s)))), t)

(* What a header that is written again changes of the output, and what     *)
(* follows it.                                                             *)
LEMMA HeaderAgain ==
  ASSUME NEW s \in Seq(Piece), NEW t \in Seq(Piece), NEW k \in 1..Len(s), NEW p \in Piece,
         NEW a \in 1..k, NEW r, r = Again(s, k, p, t)
  PROVE  IsReplaced(s, k, p, t, a, r)
<1> DEFINE u == [s EXCEPT ![k] = p]
<1>1. Len(s) \in Nat /\ Len(t) \in Nat /\ DOMAIN s = 1..Len(s)
  BY LenProperties
<1>2. /\ u \in Seq(Piece) /\ Len(u) = Len(s)
      /\ \A i \in 1..Len(s) : u[i] = IF i = k THEN p ELSE s[i]
  BY <1>1, ExceptSeq
<1>3. \A c \in 1..(Len(s) + 1) : \A b \in 0..(k - 1) : SubSeq(u, c, b) = SubSeq(s, c, b)
  BY SliceAround
<1>4. SubSeq(u, a, Len(u)) = SubSeq(s, a, k - 1) \o (<< p >> \o SubSeq(s, k + 1, Len(s)))
  <2>1. a \in 1..(Len(s) + 1) /\ a <= k
    BY <1>1
  <2> QED BY <2>1, SliceAround
<1>5. r = Join(u, t)
  BY DEF Again
<1> HIDE DEF u
<1>6. /\ r \in Seq(Piece) /\ Len(r) = Len(s) + Len(t)
      /\ \A i \in 1..(Len(s) + Len(t)) : r[i] = IF i <= Len(s) THEN u[i] ELSE t[i - Len(s)]
  <2>1. /\ u \o t \in Seq(Piece) /\ Len(u \o t) = Len(u) + Len(t)
        /\ \A i \in 1..(Len(u) + Len(t)) : (u \o t)[i] = IF i <= Len(u) THEN u[i] ELSE t[i - Len(u)]
    BY <1>2, ConcatProperties
  <2>2. /\ Join(u, t) \in Seq(Piece) /\ Len(Join(u, t)) = Len(u) + Len(t)
        /\ \A i \in 1..(Len(u) + Len(t)) :
             Join(u, t)[i] = IF i <= Len(u) THEN u[i] ELSE t[i - Len(u)]
    BY <2>1 DEF Join
  <2> QED BY <1>2, <1>5, <2>2
<1>7. \A c \in 1..(Len(u) + 1) : \A b \in 0..Len(u) : SubSeq(Join(u, t), c, b) = SubSeq(u, c, b)
  BY <1>2, SliceGrows DEF Join
<1>8. \A c \in 1..(Len(s) + 1) : \A b \in 0..(k - 1) : SubSeq(r, c, b) = SubSeq(s, c, b)
  <2> SUFFICES ASSUME NEW c \in 1..(Len(s) + 1), NEW b \in 0..(k - 1)
               PROVE  SubSeq(r, c, b) = SubSeq(s, c, b)
    OBVIOUS
  <2>1. b \in 0..Len(u) /\ c \in 1..(Len(u) + 1)
    BY <1>1, <1>2
  <2>2. SubSeq(Join(u, t), c, b) = SubSeq(u, c, b)
    BY <1>7, <2>1
  <2>3. SubSeq(u, c, b) = SubSeq(s, c, b)
    BY <1>3
  <2> QED BY <1>5, <2>2, <2>3
<1>9. SubSeq(r, a, Len(r)) = Join(SubSeq(u, a, Len(u)), t)
  <2>1. a \in 1..(Len(u) + 1)
    BY <1>1, <1>2
  <2>2. SubSeq(u \o t, a, Len(u \o t)) = SubSeq(u, a, Len(u)) \o t
    BY <1>2, <2>1, SliceGrows
  <2>3. SubSeq(Join(u, t), a, Len(Join(u, t))) = Join(SubSeq(u, a, Len(u)), t)
    BY <2>2 DEF Join
  <2> QED BY <1>5, <2>3
<1>10. \A i \in 1..Len(s) : i # k => r[i] = s[i]
  <2> SUFFICES ASSUME NEW i \in 1..Len(s), i # k PROVE r[i] = s[i]
    OBVIOUS
  <2>1. i \in 1..(Len(s) + Len(t)) /\ i <= Len(s)
    BY <1>1
  <2>2. r[i] = u[i] /\ u[i] = s[i]
    BY <1>2, <1>6, <2>1
  <2> QED BY <2>2
<1>11. SubSeq(r, a, Len(r))
         = Join(Join(SubSeq(s, a, k - 1), Join(<< p >>, SubSeq(s, k + 1, Len(s)))), t)
  <2>1. SubSeq(u, a, Len(u)) = Join(SubSeq(s, a, k - 1), Join(<< p >>, SubSeq(s, k + 1, Len(s))))
    BY <1>4 DEF Join
  <2> QED BY <1>9, <2>1
<1>12. r \in Seq(Piece) /\ Len(s) <= Len(r)
  BY <1>1, <1>6
<1> QED BY <1>8, <1>10, <1>11, <1>12, Zenon DEF IsReplaced

(* A header says the same of a box wherever it stands in the output.       *)
LEMMA HeaderIsThat ==
  ASSUME NEW x, NEW y, NEW of, x.size = y.size, x.header_size = y.header_size,
         x.extend_to_eof = y.extend_to_eof
  PROVE  HeaderPiece(x, of) = HeaderPiece(y, of)
BY DEF HeaderPiece, EncodedSize, HeaderForm, Encoded

(* The header that end_box writes is that of the box it began with.        *)
LEMMA FinalHeaderIs ==
  ASSUME job \in Jobs, NEW of \in DOMAIN headers, NEW open, NEW at, NEW size,
         open = [InfoAt(of) EXCEPT !.offset = at, !.size = InfoAt(of).header_size]
  PROVE  HeaderPiece([open EXCEPT !.size = size, !.extend_to_eof = FALSE], of)
           = HeaderPiece([InfoAt(of) EXCEPT !.size = size, !.extend_to_eof = FALSE], of)
<1> DEFINE box == InfoAt(of)
           final == [open EXCEPT !.size = size, !.extend_to_eof = FALSE]
           whole == [box EXCEPT !.size = size, !.extend_to_eof = FALSE]
           fields == {"offset", "size", "header_size", "extend_to_eof"}
<1>1. DOMAIN box = fields
  BY DEF InfoAt, InfoIn, ReadBack
<1> HIDE DEF box
<1>2. whole.size = size /\ whole.extend_to_eof = FALSE /\ whole.header_size = box.header_size
  BY <1>1
<1>3. DOMAIN open = fields /\ open.header_size = box.header_size
  BY <1>1 DEF box
<1>4. final.size = size /\ final.extend_to_eof = FALSE /\ final.header_size = box.header_size
  BY <1>3
<1> HIDE DEF final, whole
<1>5. HeaderPiece(final, of) = HeaderPiece(whole, of)
  BY <1>2, <1>4, HeaderIsThat
<1> QED BY <1>5 DEF final, whole, box

(* A box that ends leaves the sequence around it, and the headers that are *)
(* still open, as they were.                                               *)
LEMMA EndBoxLeaves ==
  ASSUME WalkInv, EndBox
  PROVE  /\ depth' = depth - 1 /\ SameUpTo(depth - 1)
         /\ reader' = EndOf(InfoAt(frame.of)) /\ state' = "running" /\ job' = job
         /\ rewritten_count' = rewritten_count
         /\ output' = Join([output EXCEPT ![started.piece] = HeaderPiece(Final, frame.of)], Trailing)
<1> DEFINE n == depth
           front == SubSeq(frames, 1, n - 1)
<1>1. state = "running" /\ ~ IsRoot
  BY DEF EndBox, MayEnd, AtSequenceEnd
<1>2. /\ n \in Nat /\ n >= 2 /\ DOMAIN frames = 1..n /\ frames \in Seq(Frame)
      /\ \A d \in 1..n : frames[d] \in Frame
  BY <1>1, FrameIs DEF WalkInv, TypeOK, IsRoot
<1>3. /\ IsSequence(box_stack) /\ Len(box_stack) = n - 1 /\ DOMAIN box_stack = 1..(n - 1)
  BY <1>1, SequenceLen DEF WalkInv, TypeOK, FramesAgree
<1>4. /\ reader' = EndOf(InfoAt(frame.of)) /\ state' = "running" /\ job' = job
      /\ rewritten_count' = rewritten_count
      /\ box_stack' = SubSeq(box_stack, 1, Len(box_stack) - 1)
      /\ output' = Join([output EXCEPT ![started.piece] = HeaderPiece(Final, frame.of)], Trailing)
      /\ frames' = [front EXCEPT ![n - 1].quick = @ \/ frame.quick]
  BY <1>1 DEF EndBox, Join
<1>5. /\ depth' = n - 1
      /\ \A d \in 1..(n - 1) : /\ frames'[d].of = frames[d].of
                               /\ frames'[d].path = frames[d].path
                               /\ frames'[d].trailing = frames[d].trailing
  <2> DEFINE quick == front[n - 1].quick \/ frame.quick
             left == [front[n - 1] EXCEPT !.quick = quick]
  <2>1. /\ front \in Seq(Frame) /\ Len(front) = n - 1
        /\ \A d \in 1..(n - 1) : front[d] = frames[d]
    <3>1. \A d \in 1..(n - 1) : frames[d] \in Frame
      BY <1>2
    <3>2. /\ front \in Seq(Frame)
          /\ Len(front) = IF 1 <= n - 1 THEN n - 1 - 1 + 1 ELSE 0
          /\ \A d \in 1..(n - 1 - 1 + 1) : front[d] = frames[1 + d - 1]
      BY <1>2, <3>1, SubSeqProperties
    <3>3. Len(front) = n - 1
      BY <1>2, <3>2
    <3>4. \A d \in 1..(n - 1) : front[d] = frames[d]
      BY <1>2, <3>2
    <3> QED BY <3>2, <3>3, <3>4
  <2>2. frames' = [front EXCEPT ![n - 1] = left]
    BY <1>4
  <2>3. /\ left \in Frame /\ left.of = frames[n - 1].of /\ left.path = frames[n - 1].path
        /\ left.trailing = frames[n - 1].trailing
    <3>1. quick \in BOOLEAN /\ front[n - 1] \in Frame /\ front[n - 1] = frames[n - 1]
      BY <1>2, <2>1
    <3> HIDE DEF quick
    <3> QED BY <3>1 DEF Frame
  <2> HIDE DEF left, front
  <2>4. /\ frames' \in Seq(Frame) /\ Len(frames') = n - 1
        /\ \A d \in 1..(n - 1) : frames'[d] = IF d = n - 1 THEN left ELSE front[d]
    BY <1>2, <2>1, <2>2, <2>3, ExceptSeq
  <2> QED BY <2>1, <2>3, <2>4 DEF depth
<1>6. \A d \in 1..(n - 1 - 1) : box_stack'[d] = box_stack[d]
  BY <1>2, <1>3, <1>4, FrontIs
<1> QED BY <1>4, <1>5, <1>6 DEF SameUpTo

(* No box is ahead of a sequence that is over.                             *)
LEMMA NothingIsAhead ==
  ASSUME EditInv, AtSequenceEnd, job.paths # {}
  PROVE  Ahead(depth) \in Span /\ Edited[Ahead(depth)] = << >>
<1>1. PICK n \in Nat : n = depth
  BY FrameIs DEF EditInv, WalkInv
<1>2. state = "running" /\ n >= 2 /\ frame.remaining < SmallHeader
  BY <1>1, FrameIs DEF EditInv, WalkInv, AtSequenceEnd, IsRoot
<1>3. n \in 1..n /\ n \in 2..n /\ n # 1
  BY <1>2
<1>4. Ahead(n) \in Span
  BY <1>1, <1>2, <1>3 DEF EditInv, OnTheWay
<1>5. /\ NextStart(n) + frames[n].remaining = SequenceEnd(n) /\ NextStart(n) = reader
  BY <1>1, <1>2, <1>3 DEF EditInv, WalkInv, FramesAgree, NextStart
<1>6. Ahead(n).at = reader /\ Ahead(n).limit = SequenceEnd(n)
  BY <1>3, <1>5 DEF Ahead, Limit
<1>7. reader \in Int /\ frames[n].remaining \in Int /\ frames[n].remaining < SmallHeader
  BY <1>1, <1>2, FrameIs DEF EditInv, WalkInv, TypeOK, frame
<1>8. ~ (reader + SmallHeader <= SequenceEnd(n))
  BY <1>5, <1>7 DEF SmallHeader
<1>9. ~ HasBox(Ahead(n))
  BY <1>6, <1>8 DEF HasBox
<1>10. job \in Jobs
  BY DEF EditInv, WalkInv, TypeOK
<1>11. Edited[Ahead(n)] = << >>
  BY <1>4, <1>9, <1>10, EditedSpan
<1> QED BY <1>1, <1>4, <1>11

(* A box that has ended was promised, its header included: what stands     *)
(* behind the header is as long as the header now says.                    *)
LEMMA EndBoxOnTheWay ==
  ASSUME EditInv, EndBox
  PROVE  OnTheWay'
<1>0. PICK n \in Nat : n = depth
  BY FrameIs DEF EditInv, WalkInv
<1>1. /\ state = "running" /\ ~ IsRoot /\ AtSequenceEnd
      /\ depth' = n - 1 /\ SameUpTo(n - 1)
      /\ reader' = EndOf(InfoAt(frame.of)) /\ state' = "running" /\ job' = job
      /\ rewritten_count' = rewritten_count
      /\ output' = Join([output EXCEPT ![started.piece] = HeaderPiece(Final, frame.of)], Trailing)
  BY <1>0, EndBoxLeaves DEF EditInv, EndBox, MayEnd, AtSequenceEnd
<1>2. /\ n >= 2 /\ DOMAIN frames = 1..n /\ frame = frames[n]
  BY <1>0, <1>1, FrameIs DEF EditInv, WalkInv, TypeOK, frame, IsRoot
<1>3. /\ IsSequence(box_stack) /\ Len(box_stack) = n - 1 /\ DOMAIN box_stack = 1..(n - 1)
      /\ IsSequence(output) /\ Len(output) \in Nat /\ DOMAIN output = 1..Len(output)
  BY <1>0, <1>1, SequenceLen DEF EditInv, WalkInv, TypeOK, FramesAgree
<1>4. job.paths # {} /\ job \in Jobs /\ output \in Seq(Piece)
  <2>1. box_stack # << >>
    <3>1. Len(box_stack) # 0
      BY <1>2, <1>3
    <3> QED BY <3>1, EmptySeq
  <2> QED BY <1>1, <2>1 DEF EditInv, WalkInv, TypeOK, OnTheWay
<1>5. /\ \A d \in 1..n : Ahead(d) \in Span /\ IsOnItsWay(d)
      /\ \A d \in 2..n : IsOpen(d)
      /\ frames[1].path = << >> /\ frames[1].trailing = 0
      /\ rewritten_count = Count(output, "edited")
  BY <1>0, <1>1, <1>4 DEF EditInv, OnTheWay
<1>6. /\ n \in 1..n /\ n \in 2..n /\ n - 1 \in 1..n /\ n - 1 \in 1..(n - 1) /\ (n - 1) + 1 = n
      /\ n # 1 /\ n - 1 # n /\ n - 1 >= 1 /\ n - 1 \in Nat
  BY <1>2
<1>7. /\ \A d \in 1..(n - 1) : box_stack[d].piece \in 1..Len(output)
      /\ \A c, d \in 1..(n - 1) : c < d => box_stack[c].piece < box_stack[d].piece
  BY <1>1, <1>3 DEF EditInv, WalkInv, OpenBoxes
<1>8. PICK k \in 1..Len(output) : k = box_stack[n - 1].piece
  BY <1>6, <1>7
<1>9. started = box_stack[n - 1] /\ started.piece = k
  BY <1>3, <1>8 DEF started
<1>10. /\ output[k].kind = "header" /\ started.info.offset = SizeOf(SubSeq(output, 1, k - 1))
  BY <1>1, <1>3, <1>6, <1>8, <1>9 DEF EditInv, WalkInv, FramesAgree
<1>11. PICK of \in DOMAIN headers : of = frame.of /\ of = frames[n].of
  BY <1>0, <1>1, <1>2, <1>6 DEF EditInv, WalkInv, OpenBoxes
<1> DEFINE box == InfoAt(of)
           span == Opened(n)
<1>12. /\ span \in Span /\ HasBox(span) /\ span.at = of /\ IsMatched(InnerPath(span))
       /\ started.info = [box EXCEPT !.offset = started.info.offset, !.size = box.header_size]
       /\ output[k].size = box.header_size
  <2>1. IsOpen(n)
    BY <1>5, <1>6
  <2>2. span.at = of
    BY <1>11 DEF Opened
  <2> QED BY <1>8, <1>9, <1>11, <2>1, <2>2 DEF IsOpen
<1>13. Inner(span) \in Seq(Piece) /\ Whole(span) \in Seq(Piece) /\ box.header_size \in Int
       /\ SizeOf(Inner(span)) \in Int
  <2>1. Inner(span) \in Seq(Piece) /\ Whole(span) \in Seq(Piece)
    BY <1>4, <1>12, EditedSpan
  <2>2. box.header_size \in Int
    BY <1>4, BoxIs
  <2> QED BY <2>1, <2>2, SizeOfIs
<1>14. PICK t \in Seq(Piece) : t = Trailing /\ t = Behind(n)
  <2>1. Trailing = Behind(n)
    BY <1>2 DEF Trailing, Behind
  <2>2. Behind(n) \in Seq(Piece)
    BY <1>0, <1>1, <1>4, <1>6, BehindIs
  <2> QED BY <2>1, <2>2
<1>15. \A d \in 1..n : FirstOf(d) \in 1..(Len(output) + 1)
  <2> SUFFICES ASSUME NEW d \in 1..n PROVE FirstOf(d) \in 1..(Len(output) + 1)
    OBVIOUS
  <2>1. d # 1 => d - 1 \in 1..(n - 1)
    BY <1>2
  <2> QED BY <1>3, <1>7, <2>1 DEF FirstOf
<1>16. PICK w \in Seq(Piece) : w = Written(n) /\ w = SubSeq(output, k + 1, Len(output))
  <2>1. Written(n) = SubSeq(output, k + 1, Len(output))
    BY <1>0, <1>6, <1>8 DEF Written, FirstOf, LastOf
  <2>2. k + 1 \in 1..(Len(output) + 1) /\ Len(output) \in 0..Len(output)
    BY <1>3
  <2>3. SubSeq(output, k + 1, Len(output)) \in Seq(Piece)
    BY <1>4, <2>2, SliceIs
  <2> QED BY <2>1, <2>3
<1>17. PICK a \in 1..k : a = FirstOf(n - 1)
  <2>1. CASE n - 1 = 1
    BY <1>3, <2>1 DEF FirstOf
  <2>2. CASE n - 1 # 1
    <3>1. FirstOf(n - 1) = box_stack[n - 1 - 1].piece + 1
      BY <2>2 DEF FirstOf
    <3>2. n - 1 - 1 \in 1..(n - 1) /\ n - 1 - 1 < n - 1
      BY <1>6, <2>2
    <3>3. box_stack[n - 1 - 1].piece < k /\ box_stack[n - 1 - 1].piece \in 1..Len(output)
      BY <1>6, <1>7, <1>8, <3>2
    <3> QED BY <1>3, <3>1, <3>3
  <2> QED BY <2>1, <2>2
<1>18. PICK v \in Seq(Piece) : v = Written(n - 1) /\ v = SubSeq(output, a, k - 1)
  <2>1. Written(n - 1) = SubSeq(output, a, k - 1)
    BY <1>0, <1>6, <1>8, <1>17 DEF Written, LastOf
  <2>2. a \in 1..(Len(output) + 1) /\ k - 1 \in 0..Len(output)
    BY <1>3
  <2>3. SubSeq(output, a, k - 1) \in Seq(Piece)
    BY <1>4, <2>2, SliceIs
  <2> QED BY <2>1, <2>3
<1>19. Ahead(n) \in Span /\ Edited[Ahead(n)] = << >>
  BY <1>0, <1>1, <1>4, NothingIsAhead
<1>20. PICK i \in Seq(Piece) : i = Inner(span)
  BY <1>13
<1>21. Consists(i, w, << >>, << >>, t)
  <2>1. IsOnItsWay(n)
    BY <1>5, <1>6
  <2>2. Promised(n) = i /\ Open(n) = << >>
    BY <1>0, <1>6, <1>20 DEF Promised, Open
  <2> QED BY <1>14, <1>16, <1>19, <2>1, <2>2 DEF IsOnItsWay
<1>22. PICK e \in Seq(Piece) : e = Edited[Ahead(n - 1)]
  BY <1>4, <1>5, <1>6, EditedIs
<1>23. PICK b \in Seq(Piece) : b = Behind(n - 1)
  BY <1>0, <1>1, <1>4, <1>6, BehindIs
<1> HIDE DEF box, span
<1>24. PICK h \in Piece :
         /\ h = HeaderPiece([box EXCEPT !.size = box.header_size + SizeOf(i),
                                        !.extend_to_eof = FALSE], of)
         /\ Whole(span) = Join(<< h >>, i)
  <2> DEFINE whole == [box EXCEPT !.size = box.header_size + SizeOf(i), !.extend_to_eof = FALSE]
  <2>1. Whole(span) = Join(<< HeaderPiece(whole, of) >>, i)
    BY <1>12, <1>20 DEF Whole, Enclosed, Join, box
  <2>2. HeaderPiece(whole, of) \in Piece
    <3>1. whole.size \in Int
      <4>1. whole.size = box.header_size + SizeOf(i)
        BY DEF box, InfoAt, InfoIn, ReadBack
      <4> QED BY <1>13, <1>20, <4>1
    <3> HIDE DEF whole
    <3> QED BY <1>4, <3>1, PiecesAre
  <2> QED BY <2>1, <2>2
<1>25. Consists(Promised(n - 1), v, Join(<< h >>, i), e, b)
  <2>1. IsOnItsWay(n - 1) /\ Open(n - 1) = Whole(span)
    BY <1>0, <1>5, <1>6 DEF Open, span
  <2> QED BY <1>18, <1>22, <1>23, <1>24, <2>1 DEF IsOnItsWay
<1>26. << h >> \in Seq(Piece)
  BY <1>24
<1>27. /\ i = Join(w, t)
       /\ Consists(Promised(n - 1), Join(Join(v, Join(<< h >>, w)), t), << >>, e, b)
  <2>1. PICK p : p = Promised(n - 1)
    OBVIOUS
  <2>2. Consists(p, v, Join(<< h >>, i), e, b)
    BY <1>25, <2>1
  <2>3. PICK g \in Seq(Piece) : g = << h >>
    BY <1>26
  <2>4. Consists(p, v, Join(g, i), e, b)
    BY <2>2, <2>3
  <2>5. i = Join(w, t) /\ Consists(p, Join(Join(v, Join(g, w)), t), << >>, e, b)
    BY <1>21, <2>4, BoxEnds
  <2> QED BY <2>1, <2>3, <2>5
<1>28. HeaderPiece(Final, frame.of) = h
  <2>1. SizeOf(output) = started.info.offset + box.header_size + SizeOf(w)
    BY <1>4, <1>10, <1>12, <1>16, SizeAround
  <2>2. SizeOf(i) = SizeOf(w) + SizeOf(t)
    BY <1>27, SizeOfConcat DEF Join
  <2>3. SizeOf(output \o t) = SizeOf(output) + SizeOf(t)
    BY <1>4, SizeOfConcat
  <2>4. /\ SizeOf(output) \in Int /\ SizeOf(w) \in Int /\ SizeOf(t) \in Int
        /\ started.info.offset \in Int
    <3>1. 1 \in 1..(Len(output) + 1) /\ k - 1 \in 0..Len(output)
      BY <1>3
    <3>2. SubSeq(output, 1, k - 1) \in Seq(Piece)
      BY <1>4, <3>1, SliceIs
    <3> QED BY <1>4, <1>10, <3>2, SizeOfIs
  <2>5. FinalSize(SizeOf(output \o Trailing)) = box.header_size + SizeOf(i)
    <3>1. SizeOf(output \o Trailing) = SizeOf(output) + SizeOf(t)
      BY <1>14, <2>3
    <3>2. PICK all : all = SizeOf(output \o Trailing)
      OBVIOUS
    <3>3. all = SizeOf(output) + SizeOf(t)
      BY <3>1, <3>2
    <3>4. FinalSize(all) = all - started.info.offset
      BY DEF FinalSize
    <3>5. FinalSize(all) = box.header_size + SizeOf(i)
      <4>1. /\ SizeOf(output) = started.info.offset + box.header_size + SizeOf(w)
            /\ SizeOf(i) = SizeOf(w) + SizeOf(t)
            /\ all = SizeOf(output) + SizeOf(t)
            /\ FinalSize(all) = all - started.info.offset
        BY <2>1, <2>2, <3>3, <3>4
      <4>2. PICK x \in Int, y \in Int, z \in Int, o \in Int, m \in Int :
              /\ x = SizeOf(output) /\ y = SizeOf(w) /\ z = SizeOf(t)
              /\ o = started.info.offset /\ m = box.header_size
        BY <1>13, <2>4
      <4>3. x = o + m + y /\ SizeOf(i) = y + z /\ all = x + z /\ FinalSize(all) = all - o
        BY <4>1, <4>2
      <4>4. FinalSize(all) = m + (y + z)
        BY <4>3
      <4> QED BY <4>2, <4>3, <4>4
    <3> QED BY <3>2, <3>5
  <2>6. Final = [started.info EXCEPT !.size = box.header_size + SizeOf(i), !.extend_to_eof = FALSE]
    BY <2>5 DEF Final
  <2>7. PICK open, at, size :
          /\ open = started.info /\ at = started.info.offset
          /\ size = box.header_size + SizeOf(i)
    OBVIOUS
  <2>8. open = [InfoAt(of) EXCEPT !.offset = at, !.size = InfoAt(of).header_size]
    BY <1>12, <2>7 DEF box
  <2>9. HeaderPiece([open EXCEPT !.size = size, !.extend_to_eof = FALSE], of)
          = HeaderPiece([InfoAt(of) EXCEPT !.size = size, !.extend_to_eof = FALSE], of)
    BY <1>4, <2>8, FinalHeaderIs
  <2>10. Final = [open EXCEPT !.size = size, !.extend_to_eof = FALSE]
    BY <2>6, <2>7
  <2>11. h = HeaderPiece([InfoAt(of) EXCEPT !.size = size, !.extend_to_eof = FALSE], of)
    BY <1>24, <2>7 DEF box
  <2> QED BY <1>11, <2>9, <2>10, <2>11
<1>29. output' = Join([output EXCEPT ![k] = h], t)
  BY <1>1, <1>9, <1>14, <1>28
<1>30. /\ output' \in Seq(Piece) /\ Len(output) <= Len(output')
       /\ \A j \in 1..Len(output) : j # k => output'[j] = output[j]
       /\ \A c \in 1..(Len(output) + 1) : \A d \in 0..(k - 1) :
            SubSeq(output', c, d) = SubSeq(output, c, d)
       /\ SubSeq(output', a, Len(output')) = Join(Join(v, Join(<< h >>, w)), t)
  <2>1. PICK r : r = output' /\ r = Again(output, k, h, t)
    BY <1>29 DEF Again
  <2>2. /\ r \in Seq(Piece) /\ Len(output) <= Len(r)
        /\ \A j \in 1..Len(output) : j # k => r[j] = output[j]
        /\ \A c \in 1..(Len(output) + 1) : \A d \in 0..(k - 1) :
             SubSeq(r, c, d) = SubSeq(output, c, d)
        /\ SubSeq(r, a, Len(r))
             = Join(Join(SubSeq(output, a, k - 1),
                         Join(<< h >>, SubSeq(output, k + 1, Len(output)))), t)
    <3>1. IsReplaced(output, k, h, t, a, r)
      BY <1>4, <2>1, HeaderAgain
    <3> QED BY <3>1 DEF IsReplaced
  <2> QED BY <1>16, <1>18, <2>1, <2>2
<1>31. n - 1 \in 1..depth /\ n - 1 <= depth' /\ depth \in Nat /\ depth' \in Nat
  BY <1>0, <1>1, <1>6
<1>32. ASSUME NEW d \in 1..(n - 1 - 1) PROVE Ahead(d)' \in Span /\ IsOnItsWay(d)'
  <2>1. d \in 1..n /\ d \in 1..(n - 1) /\ d < n - 1
    BY <1>6
  <2>2. box_stack[d].piece - 1 \in 0..(k - 1)
    <3>1. box_stack[d].piece \in 1..Len(output) /\ box_stack[d].piece < k
      BY <1>6, <1>7, <1>8, <2>1
    <3> QED BY <1>3, <3>1
  <2>3. SubSeq(output', FirstOf(d), box_stack[d].piece - 1)
          = SubSeq(output, FirstOf(d), box_stack[d].piece - 1)
    BY <1>15, <1>30, <2>1, <2>2
  <2> QED BY <1>1, <1>5, <1>31, <2>1, <2>3, OuterKeeps
<1>33. Ahead(n - 1)' \in Span /\ IsOnItsWay(n - 1)'
  <2>1. /\ Limit(n - 1)' = Limit(n - 1) /\ Behind(n - 1)' = Behind(n - 1)
        /\ FirstOf(n - 1)' = FirstOf(n - 1) /\ Promised(n - 1)' = Promised(n - 1)
    <3>1. /\ \A c \in 1..(n - 1) : Limit(c)' = Limit(c) /\ Behind(c)' = Behind(c)
          /\ \A c \in 1..(n - 1) : FirstOf(c)' = FirstOf(c)
          /\ \A c \in 1..(n - 1) : Promised(c)' = Promised(c)
      BY <1>1, <1>31, SameIs
    <3> QED BY <1>6, <3>1
  <2>2. Ahead(n - 1)' = Ahead(n - 1)
    <3>1. NextStart(n - 1) = EndOf(InfoAt(frame.of))
      BY <1>0, <1>2, <1>6 DEF NextStart
    <3>2. NextStart(n - 1)' = reader'
      BY <1>1 DEF NextStart
    <3>3. frames'[n - 1].path = frames[n - 1].path
      BY <1>1, <1>6 DEF SameUpTo
    <3>4. Ahead(n - 1)' = [at |-> NextStart(n - 1)', limit |-> Limit(n - 1)',
                           path |-> frames'[n - 1].path]
      BY DEF Ahead
    <3>5. Ahead(n - 1) = [at |-> NextStart(n - 1), limit |-> Limit(n - 1),
                          path |-> frames[n - 1].path]
      BY DEF Ahead
    <3> QED BY <1>1, <2>1, <3>1, <3>2, <3>3, <3>4, <3>5
  <2>3. Open(n - 1)' = << >>
    BY <1>1 DEF Open
  <2>4. Written(n - 1)' = Join(Join(v, Join(<< h >>, w)), t)
    <3>1. Written(n - 1)' = SubSeq(output', FirstOf(n - 1)', Len(output'))
      BY <1>1 DEF Written, LastOf
    <3> QED BY <1>17, <1>30, <2>1, <3>1
  <2>5. Edited' = Edited
    BY <1>1, PromiseKeeps
  <2>6. Ahead(n - 1) \in Span
    BY <1>5, <1>6
  <2>7. Consists(Promised(n - 1)', Written(n - 1)', Open(n - 1)', e, Behind(n - 1)')
    BY <1>23, <1>27, <2>1, <2>3, <2>4
  <2>8. Edited'[Ahead(n - 1)'] = e
    BY <1>22, <2>2, <2>5
  <2> QED BY <2>2, <2>6, <2>7, <2>8 DEF IsOnItsWay
<1>34. ASSUME NEW d \in 2..(n - 1) PROVE IsOpen(d)'
  <2>1. d \in 2..n /\ d - 1 \in 1..(n - 1) /\ d - 1 < n - 1
    BY <1>6
  <2>2. box_stack[d - 1].piece \in 1..Len(output) /\ box_stack[d - 1].piece # k
    BY <1>3, <1>6, <1>7, <1>8, <2>1
  <2>3. output'[box_stack[d - 1].piece].size = output[box_stack[d - 1].piece].size
    BY <1>30, <2>2
  <2> QED BY <1>1, <1>5, <1>31, <2>1, <2>3, OpenKeeps
<1>35. rewritten_count' = Count(output', "edited")
  <2> DEFINE again == [output EXCEPT ![k] = h]
  <2>1. Count(again, "edited") = Count(output, "edited")
    <3>1. h.kind = output[k].kind
      BY <1>10, <1>24 DEF HeaderPiece
    <3> QED BY <1>4, <3>1, CountOfOverwritten
  <2>2. again \in Seq(Piece)
    <3>1. 1 \in 1..(Len(output) + 1)
      BY <1>3
    <3> QED BY <1>4, <3>1, SliceAround
  <2> HIDE DEF again
  <2>3. Count(Join(again, t), "edited") = Count(again, "edited")
    <3>1. CASE frames[n].trailing = 0
      <4>1. t = << >>
        BY <1>14, <3>1 DEF Behind
      <4> QED BY <2>2, <4>1, Associative
    <3>2. CASE frames[n].trailing # 0
      <4>1. PICK p : t = << p >> /\ p.kind = "trailing"
        BY <1>14, <3>2 DEF Behind, CopyPiece
      <4>2. p \in Piece
        <5>1. t[1] = p /\ 1 \in 1..Len(t)
          BY <4>1
        <5> QED BY <5>1, ElementOfSeq
      <4>3. Count(again \o << p >>, "edited") = Count(again, "edited") + 0
        BY <2>2, <4>1, <4>2, CountOfAppended
      <4>4. Count(again, "edited") \in Nat
        BY <2>2, CountIs
      <4> QED BY <4>1, <4>3, <4>4 DEF Join
    <3> QED BY <3>1, <3>2
  <2> QED BY <1>1, <1>5, <1>29, <2>1, <2>3 DEF again
<1>36. \A d \in 1..(n - 1) : Ahead(d)' \in Span /\ IsOnItsWay(d)'
  <2>1. \A d \in 1..(n - 1) : d # n - 1 => d \in 1..(n - 1 - 1)
    BY <1>6
  <2> QED BY <1>32, <1>33, <2>1
<1>37. frames'[1].path = << >> /\ frames'[1].trailing = 0
  <2>1. 1 \in 1..(n - 1)
    BY <1>6
  <2> QED BY <1>1, <1>5, <2>1 DEF SameUpTo
<1> QED BY <1>1, <1>4, <1>30, <1>34, <1>35, <1>36, <1>37 DEF OnTheWay, OutputIsEdited
-----------------------------------------------------------------------------
(* Nothing is edited in a list with no pieces, or with one that is copied. *)
LEMMA CountOfNone ==
  /\ << >> \in Seq(Piece) /\ Len(<< >>) = 0 /\ Count(<< >>, "edited") = 0
  /\ \A p \in Piece : p.kind # "edited" => << p >> \in Seq(Piece) /\ Count(<< p >>, "edited") = 0
<1>1. << >> \in Seq(Piece) /\ Len(<< >>) = 0
  BY EmptySeq
<1>2. Count(<< >>, "edited") = 0
  <2>1. { i \in DOMAIN << >> : << >>[i].kind = "edited" } = {}
    OBVIOUS
  <2> QED BY <2>1, FS_EmptySet DEF Count
<1>3. ASSUME NEW p \in Piece, p.kind # "edited"
      PROVE  << p >> \in Seq(Piece) /\ Count(<< p >>, "edited") = 0
  <2>1. << p >> \in Seq(Piece)
    BY SizeOfOne
  <2>2. << >> \o << p >> = << p >>
    BY <2>1, ConcatEmptySeq
  <2>3. Count(<< >> \o << p >>, "edited") = Count(<< >>, "edited") + 0
    BY <1>1, <1>3, CountOfAppended
  <2> QED BY <1>2, <2>1, <2>2, <2>3
<1> QED BY <1>1, <1>2, <1>3

(* Before the first box, the whole file is ahead.                          *)
LEMMA InitOnTheWay ==
  ASSUME Init
  PROVE  OnTheWay
<1>1. /\ job \in Jobs /\ state = "running" /\ reader = 0 /\ frames = << Root >>
      /\ box_stack = << >> /\ output = << >> /\ rewritten_count = 0
  BY DEF Init
<1>2. depth = 1 /\ frames[1] = Root
  BY <1>1 DEF depth
<1>3. frames[1].path = << >> /\ frames[1].trailing = 0
  BY <1>2 DEF Root
<1>4. job.length \in Nat
  BY <1>1, JobsAssumption
<1>5. Ahead(1) = WholeFile /\ WholeFile \in Span
  <2>1. NextStart(1) = 0 /\ Limit(1) = job.length
    BY <1>1, <1>2 DEF NextStart, Limit
  <2>2. Ahead(1) = WholeFile
    BY <1>3, <2>1 DEF Ahead, WholeFile
  <2>3. << >> \in Seq(STRING)
    BY EmptySeq
  <2> QED BY <1>4, <2>2, <2>3 DEF WholeFile, Span
<1>6. output \in Seq(Piece) /\ Count(output, "edited") = 0 /\ Len(output) = 0
  BY <1>1, CountOfNone
<1>7. IsOnItsWay(1)
  <2>1. PICK e \in Seq(Piece) : e = Edited[WholeFile]
    BY <1>1, <1>5, EditedIs
  <2>2. Written(1) = << >>
    <3>1. Written(1) = SubSeq(output, 1, 0)
      BY <1>2, <1>6 DEF Written, FirstOf, LastOf
    <3> QED BY <3>1, SubSeqEmpty
  <2>3. Promised(1) = e /\ Open(1) = << >> /\ Behind(1) = << >> /\ Edited[Ahead(1)] = e
    BY <1>2, <1>3, <1>5, <2>1 DEF Promised, Open, Behind
  <2>4. Consists(e, << >>, << >>, e, << >>)
    <3>1. << >> \in Seq(Piece) /\ Join(e, << >>) = e /\ Join(<< >>, e) = e
      BY CountOfNone, Associative
    <3>2. e = Join(<< >>, Join(<< >>, Join(e, << >>)))
      BY <3>1
    <3> QED BY <3>2, ConsistsIs
  <2> QED BY <2>2, <2>3, <2>4 DEF IsOnItsWay
<1>8. (\A d \in 2..depth : FALSE) /\ \A d \in 1..depth : d = 1
  BY <1>2
<1> QED BY <1>1, <1>3, <1>5, <1>6, <1>7, <1>8 DEF OnTheWay, OutputIsEdited

(* A rewrite that fails promises nothing more.                             *)
LEMMA FailOnTheWay ==
  ASSUME EditInv, NEW why, Fail(why)
  PROVE  OnTheWay'
BY DEF EditInv, Fail, OnTheWay, OutputIsEdited

(* With no path to edit, the file itself is the edited file.               *)
LEMMA CopyFileOnTheWay ==
  ASSUME EditInv, CopyFile
  PROVE  OnTheWay'
<1> DEFINE copy == CopyPiece(0, job.length, "copy")
<1>1. /\ job \in Jobs /\ job.paths = {} /\ state = "running" /\ state' = "done" /\ job' = job
      /\ box_stack' = box_stack /\ rewritten_count' = rewritten_count
      /\ output' = << copy >>
  BY DEF CopyFile, EditInv, WalkInv, TypeOK
<1>2. box_stack = << >> /\ rewritten_count = 0
  BY <1>1 DEF EditInv, OnTheWay
<1>3. copy \in Piece /\ copy.kind # "edited"
  <2>1. job.length \in Int
    BY <1>1, JobsAssumption
  <2>2. Encoded(NewInfo(0)) \in WrittenHeader
    BY DEF Encoded, NewInfo, HeaderForm, WrittenHeader, SmallHeader, LargeHeader
  <2> QED BY <2>1, <2>2 DEF CopyPiece, Piece, Kinds
<1>4. EditedFile' = << copy >>
  BY <1>1, PromiseKeeps DEF EditedFile
<1> HIDE DEF copy
<1>5. output' \in Seq(Piece) /\ Count(output', "edited") = 0
  BY <1>1, <1>3, CountOfNone
<1>6. OutputIsEdited'
  BY <1>1, <1>2, <1>4, <1>5 DEF OutputIsEdited
<1> QED BY <1>1, <1>5, <1>6 DEF OnTheWay

(* Where the file ends, everything that was promised was written.          *)
LEMMA EndOfFileOnTheWay ==
  ASSUME EditInv, EndOfFile
  PROVE  OnTheWay'
<1>1. /\ job \in Jobs /\ job.paths # {} /\ state = "running" /\ state' = "done" /\ job' = job
      /\ box_stack' = box_stack /\ rewritten_count' = rewritten_count /\ output' = output
      /\ depth = 1 /\ reader = job.length
  BY DEF EndOfFile, InSequence, IsRoot, EditInv, WalkInv, TypeOK
<1>2. /\ Ahead(1) \in Span /\ IsOnItsWay(1) /\ frames[1].trailing = 0
      /\ output \in Seq(Piece) /\ rewritten_count = Count(output, "edited")
  <2>1. 1 \in 1..depth
    BY <1>1
  <2> QED BY <1>1, <2>1 DEF EditInv, OnTheWay
<1>3. box_stack = << >>
  <2>1. Len(box_stack) = 0 /\ IsSequence(box_stack)
    BY <1>1 DEF EditInv, WalkInv, TypeOK, FramesAgree
  <2> QED BY <2>1, EmptySeq DEF IsSequence
<1>4. Edited[Ahead(1)] = << >>
  <2>1. job.length \in Nat
    BY <1>1, JobsAssumption
  <2>2. Ahead(1).at = job.length /\ Ahead(1).limit = job.length
    BY <1>1 DEF Ahead, NextStart, Limit
  <2>3. ~ HasBox(Ahead(1))
    BY <2>1, <2>2 DEF HasBox, SmallHeader
  <2> QED BY <1>1, <1>2, <2>3, EditedSpan
<1>5. output = Edited[WholeFile]
  <2>1. Promised(1) = Edited[WholeFile] /\ Open(1) = << >> /\ Behind(1) = << >>
    BY <1>1, <1>2 DEF Promised, Open, Behind
  <2>2. Written(1) = output
    <3>1. Written(1) = SubSeq(output, 1, Len(output))
      BY <1>1 DEF Written, FirstOf, LastOf
    <3> QED BY <1>2, <3>1, SubSeqFull
  <2>3. Consists(Edited[WholeFile], output, << >>, << >>, << >>)
    BY <1>2, <1>4, <2>1, <2>2 DEF IsOnItsWay
  <2>4. Join(output, Join(<< >>, Join(<< >>, << >>))) = output
    <3>1. << >> \in Seq(Piece) /\ Join(<< >>, << >>) = << >> /\ Join(output, << >>) = output
      BY <1>2, CountOfNone, Associative
    <3> QED BY <3>1
  <2> QED BY <2>3, <2>4, ConsistsIs
<1>6. EditedFile' = EditedFile /\ EditedFile = output
  BY <1>1, <1>5, PromiseKeeps DEF EditedFile
<1>7. OutputIsEdited'
  BY <1>1, <1>2, <1>3, <1>6 DEF OutputIsEdited, Count
<1> QED BY <1>1, <1>2, <1>7 DEF OnTheWay

(* Nothing changes in a step that changes nothing.                         *)
LEMMA StutterOnTheWay ==
  ASSUME EditInv, UNCHANGED vars
  PROVE  OnTheWay'
<1>1. /\ job' = job /\ state' = state /\ reader' = reader /\ frames' = frames
      /\ box_stack' = box_stack /\ output' = output /\ rewritten_count' = rewritten_count
      /\ depth' = depth
  BY DEF vars, depth
<1>2. /\ \A at : InfoAt(at)' = InfoAt(at)
      /\ \A pieces, kind : Count(pieces, kind)' = Count(pieces, kind)
  BY <1>1 DEF InfoAt, headers, Count
<1>3. \A d : /\ SequenceEnd(d)' = SequenceEnd(d) /\ NextStart(d)' = NextStart(d)
             /\ FirstOf(d)' = FirstOf(d) /\ LastOf(d)' = LastOf(d)
  BY <1>1, <1>2 DEF SequenceEnd, NextStart, FirstOf, LastOf
<1>4. \A d : Limit(d)' = Limit(d) /\ Written(d)' = Written(d) /\ Behind(d)' = Behind(d)
  BY <1>1, <1>2, <1>3 DEF Limit, Written, Behind, CopyPiece
<1>5. \A d : Opened(d)' = Opened(d) /\ Ahead(d)' = Ahead(d)
  BY <1>1, <1>3, <1>4 DEF Opened, Ahead
<1>6. /\ Edited' = Edited /\ WholeFile' = WholeFile /\ EditedFile' = EditedFile
      /\ \A span : /\ HasBox(span)' = HasBox(span) /\ InnerPath(span)' = InnerPath(span)
                   /\ Inner(span)' = Inner(span) /\ Whole(span)' = Whole(span)
      /\ \A box : TrailingSize(box)' = TrailingSize(box)
      /\ \A path : IsMatched(path)' = IsMatched(path)
  BY <1>1, PromiseKeeps
<1>7. \A d : Promised(d)' = Promised(d) /\ Open(d)' = Open(d)
  BY <1>1, <1>5, <1>6 DEF Promised, Open
<1>8. \A d : IsOnItsWay(d)' = IsOnItsWay(d)
  BY <1>4, <1>5, <1>6, <1>7 DEF IsOnItsWay
<1>9. \A d : /\ HasBox(Opened(d))' = HasBox(Opened(d))
             /\ InnerPath(Opened(d))' = InnerPath(Opened(d))
             /\ IsMatched(frames[d].path)' = IsMatched(frames[d].path)
             /\ TrailingSize(InfoAt(frames[d].of))' = TrailingSize(InfoAt(frames[d].of))
             /\ InfoAt(frames[d].of)' = InfoAt(frames[d].of)
  BY <1>1, <1>2, <1>5, <1>6
<1>10. \A d : IsOpen(d)' = IsOpen(d)
  BY <1>1, <1>5, <1>9 DEF IsOpen
<1>11. OutputIsEdited' = OutputIsEdited
  BY <1>1, <1>6 DEF OutputIsEdited, Count
<1> QED BY <1>1, <1>2, <1>5, <1>8, <1>10, <1>11 DEF EditInv, OnTheWay

(* Every step of the rewrite keeps every sequence on its way.              *)
LEMMA EditKeeps ==
  ASSUME EditInv, [Next]_vars
  PROVE  EditInv'
<1>1. WalkInv'
  BY NextKeeps DEF EditInv
<1>2. CASE RefusePaths
  <2>1. Fail("empty_path")
    BY <1>2 DEF RefusePaths, Fail
  <2> QED BY <1>1, <2>1, FailOnTheWay DEF EditInv
<1>3. CASE CopyFile
  BY <1>1, <1>3, CopyFileOnTheWay DEF EditInv
<1>4. CASE EndOfFile
  BY <1>1, <1>4, EndOfFileOnTheWay DEF EditInv
<1>5. CASE RefuseHeader \/ RefuseSize \/ RefuseCarrier \/ CopyFails \/ RefusePayload
           \/ RefuseRest \/ RefuseGrowth
  <2>1. \E why : Fail(why)
    BY <1>5 DEF RefuseHeader, RefuseSize, RefuseCarrier, CopyFails, RefusePayload,
       RefuseRest, RefuseGrowth
  <2> QED BY <1>1, <2>1, FailOnTheWay DEF EditInv
<1>6. CASE CopyBox
  BY <1>1, <1>6, CopyBoxOnTheWay DEF EditInv
<1>7. CASE EnterBox
  BY <1>1, <1>7, EnterBoxOnTheWay DEF EditInv
<1>8. CASE EndBox
  BY <1>1, <1>8, EndBoxOnTheWay DEF EditInv
<1>9. CASE UNCHANGED vars
  BY <1>1, <1>9, StutterOnTheWay DEF EditInv
<1> QED BY <1>2, <1>3, <1>4, <1>5, <1>6, <1>7, <1>8, <1>9, Zenon DEF Next, Walk, Ended

(* rewrite_boxes_as keeps its promise for every file, every set of paths   *)
(* and every edit: an output that is finished is the edited file, each     *)
(* header counting what came to stand behind it, whatever grew or shrank in*)
(* the boxes around it.                                                    *)
THEOREM OutputAlwaysEdited == Spec => []OutputIsEdited
<1>1. Init => EditInv
  BY InitHolds, InitOnTheWay DEF EditInv
<1>2. EditInv => OutputIsEdited
  BY DEF EditInv, OnTheWay
<1> QED BY <1>1, <1>2, EditKeeps, PTL DEF Spec
=============================================================================
