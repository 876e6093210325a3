------------------------- MODULE MemoryRewriteProofs -------------------------
(***************************************************************************)
(* MemoryRewrite, for all requests: what the two ways of rewriting make of *)
(* the root boxes is a copy of them, the plan for a sidx fits it, and what *)
(* is returned is that copy, with the sidx where the plan puts it.  So     *)
(* fragments find their samples and mfra entries their boxes.  Of a file   *)
(* that can be indexed the refresh refuses nothing.  The references of a   *)
(* refreshed sidx tile the media, and a second refresh groups the boxes as *)
(* the first did, and so changes nothing.                                  *)
(***************************************************************************)
EXTENDS MemoryRewrite, SharedProofs

(* What every box that is laid out has.                                    *)
HasFields(box) == {"kind", "offset", "size", "trafs", "entries", "origin"} \subseteq DOMAIN box

LEMMA RootBoxIs ==
  ASSUME NEW box \in RootBox
  PROVE  /\ HasFields(box)
         /\ box.offset \in Nat /\ box.size \in Nat \ {0} /\ box.shrink \in Nat
         /\ box.trafs \in Seq(Traf) /\ box.entries \in Seq(Nat)
<1>1. CASE box \in PlainBox
  <2>1. DOMAIN box = { "kind", "offset", "size", "header_size", "shrink", "trafs", "entries",
                       "origin" }
    BY <1>1 DEF PlainBox
  <2> QED BY <1>1, <2>1 DEF PlainBox, HasFields
<1>2. CASE box \in MoovBox
  <2>1. DOMAIN box = { "kind", "offset", "size", "header_size", "shrink", "trafs", "entries",
                       "origin", "mvex", "tracks", "extended" }
    BY <1>2 DEF MoovBox
  <2>2. << >> \in Seq(Traf) /\ << >> \in Seq(Nat)
    OBVIOUS
  <2>3. /\ box.offset \in Nat /\ box.size \in Nat \ {0} /\ box.shrink \in Nat
        /\ box.trafs \in {<< >>} /\ box.entries \in {<< >>}
    BY <1>2 DEF MoovBox
  <2> QED BY <2>1, <2>2, <2>3 DEF HasFields
<1>3. CASE box \in SidxBox
  <2>1. DOMAIN box = { "kind", "offset", "size", "header_size", "shrink", "trafs", "entries",
                       "origin", "version", "first_offset", "chained", "earliest",
                       "durations" }
    BY <1>3 DEF SidxBox
  <2>2. << >> \in Seq(Traf)
    OBVIOUS
  <2>3. /\ box.offset \in Nat /\ box.size \in Nat \ {0} /\ box.shrink \in {0}
        /\ box.trafs \in {<< >>} /\ box.entries \in Seq(Nat)
    BY <1>3 DEF SidxBox
  <2>4. box.trafs \in Seq(Traf)
    <3>1. box.trafs = << >>
      BY <2>3, Zenon
    <3> QED BY <2>2, <3>1, Zenon
  <2>6. box.shrink \in Nat
    <3>1. box.shrink = 0
      BY <2>3, Zenon
    <3> QED BY <3>1
  <2>5. HasFields(box)
    BY <2>1 DEF HasFields
  <2> QED BY <2>3, <2>4, <2>5, <2>6, Zenon
<1> QED BY <1>1, <1>2, <1>3 DEF RootBox

(* The length of a function on 1..m.                                       *)
LEMMA LenIs ==
  ASSUME NEW m \in Nat, NEW f, f = [i \in 1..m |-> f[i]]
  PROVE  Len(f) = m
<1> DEFINE S == { f[i] : i \in 1..m }
<1>1. \A i \in 1..m : f[i] \in S
  OBVIOUS
<1> HIDE DEF S
<1>2. f \in [1..m -> S]
  BY <1>1
<1>3. f \in Seq(S) /\ DOMAIN f = 1..m
  BY <1>2
<1> QED BY <1>3

(* The boxes of a request are numbered and adjoin.                         *)
LEMMA RootBoxes ==
  ASSUME NEW req \in Requests
  PROVE  /\ req.root_boxes \in Seq(RootBox)
         /\ Len(req.root_boxes) \in Nat
         /\ DOMAIN req.root_boxes = 1..Len(req.root_boxes)
         /\ \A i \in DOMAIN req.root_boxes :
              LET box == req.root_boxes[i]
              IN  /\ HasFields(box) /\ box \in RootBox /\ box.origin = i
                  /\ box.offset \in Nat /\ box.size \in Nat \ {0} /\ box.shrink \in Nat
                  /\ box.shrink < box.size /\ MoofRemoved(box) < box.size
                  /\ box.trafs \in Seq(Traf) /\ box.entries \in Seq(Nat)
                  /\ box.offset = IF i = 1 THEN 0
                                  ELSE req.root_boxes[i - 1].offset + req.root_boxes[i - 1].size
<1>1. req.root_boxes \in Seq(RootBox)
  BY RequestsAssumption DEF Request
<1>2. \A i \in DOMAIN req.root_boxes : req.root_boxes[i] \in RootBox
  BY <1>1
<1>3. \A i \in DOMAIN req.root_boxes :
         LET box == req.root_boxes[i]
         IN  /\ box.origin = i
             /\ box.shrink < box.size /\ MoofRemoved(box) < box.size
             /\ box.offset = IF i = 1 THEN 0
                             ELSE req.root_boxes[i - 1].offset + req.root_boxes[i - 1].size
  BY RequestsAssumption
<1>4. \A i \in DOMAIN req.root_boxes :
         LET box == req.root_boxes[i]
         IN  /\ HasFields(box)
             /\ box.offset \in Nat /\ box.size \in Nat \ {0} /\ box.shrink \in Nat
             /\ box.trafs \in Seq(Traf) /\ box.entries \in Seq(Nat)
  BY <1>2, RootBoxIs
<1>5. Len(req.root_boxes) \in Nat /\ DOMAIN req.root_boxes = 1..Len(req.root_boxes)
  BY <1>1
<1> QED BY <1>1, <1>2, <1>3, <1>4, <1>5

(* What begins somewhere and grows by something at each step only grows.   *)
LEMMA Increasing ==
  ASSUME NEW n \in Nat, NEW f, NEW g,
         \A i \in 1..n : f[i] \in Int /\ g[i] \in Int /\ g[i] > 0,
         \A i \in 1..n : i > 1 => f[i] = f[i - 1] + g[i - 1]
  PROVE  \A i, j \in 1..n : i < j => f[i] < f[j]
<1> SUFFICES ASSUME NEW i \in 1..n PROVE \A j \in 1..n : i < j => f[i] < f[j]
  OBVIOUS
<1> DEFINE T == { j \in 0..n : i < j => f[i] < f[j] }
<1>1. 0 \in T
  OBVIOUS
<1>2. ASSUME NEW j \in 1..n, j - 1 \in T PROVE j \in T
  <2>1. CASE i < j
    <3>1. j - 1 \in 1..n /\ j > 1
      BY <2>1
    <3>2. f[j] = f[j - 1] + g[j - 1] /\ f[j - 1] \in Int /\ g[j - 1] \in Int /\ g[j - 1] > 0
      BY <3>1
    <3>3. i < j - 1 \/ i = j - 1
      BY <2>1
    <3>4. i < j - 1 => f[i] < f[j - 1]
      BY <1>2
    <3>5. f[i] \in Int
      OBVIOUS
    <3> QED BY <3>2, <3>3, <3>4, <3>5
  <2>2. CASE ~(i < j)
    BY <2>2
  <2> QED BY <2>1, <2>2
<1> HIDE DEF T
<1>3. 0..n \subseteq T
  BY <1>1, <1>2, BoundedInduction
<1> QED BY <1>3 DEF T

(* No two boxes of a request begin at one offset.                          *)
LEMMA OffsetsDiffer ==
  ASSUME NEW req \in Requests, NEW i \in DOMAIN req.root_boxes,
         NEW j \in DOMAIN req.root_boxes, req.root_boxes[i].offset = req.root_boxes[j].offset
  PROVE  i = j
<1> DEFINE n == Len(req.root_boxes)
           f == [k \in 1..n |-> req.root_boxes[k].offset]
           g == [k \in 1..n |-> req.root_boxes[k].size]
<1>1. n \in Nat /\ DOMAIN req.root_boxes = 1..n
  BY RootBoxes, Zenon
<1>2. \A k \in 1..n :
        /\ req.root_boxes[k].offset \in Nat /\ req.root_boxes[k].size \in Nat \ {0}
        /\ k > 1 => req.root_boxes[k].offset
                      = req.root_boxes[k - 1].offset + req.root_boxes[k - 1].size
  <2> SUFFICES ASSUME NEW k \in 1..n
               PROVE  /\ req.root_boxes[k].offset \in Nat
                      /\ req.root_boxes[k].size \in Nat \ {0}
                      /\ k > 1 => req.root_boxes[k].offset
                                    = req.root_boxes[k - 1].offset + req.root_boxes[k - 1].size
    OBVIOUS
  <2>1. k \in DOMAIN req.root_boxes
    BY <1>1
  <2>2. /\ req.root_boxes[k].offset \in Nat
        /\ req.root_boxes[k].size \in Nat \ {0}
        /\ req.root_boxes[k].offset
             = IF k = 1 THEN 0 ELSE req.root_boxes[k - 1].offset + req.root_boxes[k - 1].size
    BY <2>1, RootBoxes, Zenon
  <2>3. k > 1 => k # 1
    OBVIOUS
  <2> QED BY <2>2, <2>3, Zenon
<1> HIDE DEF n
<1>3. \A k \in 1..n : f[k] \in Int /\ g[k] \in Int /\ g[k] > 0
  BY <1>2
<1>4. \A k \in 1..n : k > 1 => f[k] = f[k - 1] + g[k - 1]
  <2> SUFFICES ASSUME NEW k \in 1..n, k > 1 PROVE f[k] = f[k - 1] + g[k - 1]
    OBVIOUS
  <2>1. k - 1 \in 1..n
    BY <1>1
  <2> QED BY <1>2, <2>1
<1>5. f[i] = f[j] /\ i \in 1..n /\ j \in 1..n
  BY <1>1
<1> HIDE DEF f, g
<1>6. \A k, l \in 1..n : k < l => f[k] < f[l]
  BY <1>1, <1>3, <1>4, Increasing
<1>7. ~(i < j) /\ ~(j < i)
  BY <1>3, <1>5, <1>6
<1> QED BY <1>1, <1>5, <1>7

-----------------------------------------------------------------------------
(* Boxes that are laid out say what they said, and lie one behind the      *)
(* other.                                                                  *)
SameBut(box, laid) ==
  /\ laid.kind = box.kind /\ laid.size = box.size /\ laid.trafs = box.trafs
  /\ laid.entries = box.entries /\ laid.origin = box.origin

IsLaid(A) ==
  \A i \in DOMAIN A :
    A[i].offset = IF i = 1 THEN 0 ELSE A[i - 1].offset + A[i - 1].size

LaidSizes(A) ==
  \A i \in DOMAIN A : HasFields(A[i]) /\ A[i].size \in Int

LEMMA RelaidIs ==
  ASSUME NEW n \in Nat, NEW A, DOMAIN A = 1..n, LaidSizes(A)
  PROVE  /\ DOMAIN Relaid(A) = 1..n
         /\ Relaid(A) = [i \in 1..n |-> Relaid(A)[i]]
         /\ IsLaid(Relaid(A))
         /\ \A i \in 1..n : /\ HasFields(Relaid(A)[i]) /\ SameBut(A[i], Relaid(A)[i])
                            /\ Relaid(A)[i].offset \in Int
<1> DEFINE IsOffset(g) == g = [i \in DOMAIN A |-> IF i = 1 THEN 0
                                                  ELSE g[i - 1] + A[i - 1].size]
           step == [i \in 1..n |-> [v \in Int |-> IF i = 1 THEN 0 ELSE v + A[i - 1].size]]
<1>1. \A i \in 1..n : HasFields(A[i]) /\ A[i].size \in Int
  BY DEF LaidSizes
<1>2. step \in [1..n -> [Int -> Int]]
  <2>1. ASSUME NEW i \in 1..n, NEW v \in Int
        PROVE  (IF i = 1 THEN 0 ELSE v + A[i - 1].size) \in Int
    <3>1. CASE i = 1
      BY <3>1
    <3>2. CASE i # 1
      <4>1. i - 1 \in 1..n
        BY <3>2
      <4> QED BY <1>1, <3>2, <4>1
    <3> QED BY <3>1, <3>2
  <2>2. \A i \in 1..n : [v \in Int |-> IF i = 1 THEN 0 ELSE v + A[i - 1].size]
                          \in [Int -> Int]
    BY <2>1
  <2> QED BY <2>2
<1>3. \A i \in 1..n : \A v \in Int : step[i][v] = IF i = 1 THEN 0 ELSE v + A[i - 1].size
  OBVIOUS
<1> HIDE DEF step
<1>4. PICK h \in [0..n -> Int] : IsRecursion(h, n, 0, step)
  <2>1. 0 \in Int
    OBVIOUS
  <2> QED BY <1>2, <2>1, RecursionExists, Zenon
<1> DEFINE o == [i \in 1..n |-> h[i]]
<1>5. \A i \in 1..n : h[i] = step[i][h[i - 1]] /\ h[i - 1] \in Int /\ h[i] \in Int
  <2> SUFFICES ASSUME NEW i \in 1..n
               PROVE  h[i] = step[i][h[i - 1]] /\ h[i - 1] \in Int /\ h[i] \in Int
    OBVIOUS
  <2>1. i \in 0..n /\ i - 1 \in 0..n /\ i # 0
    OBVIOUS
  <2> QED BY <1>4, <2>1 DEF IsRecursion
<1>6. \A i \in 1..n : o[i] = IF i = 1 THEN 0 ELSE o[i - 1] + A[i - 1].size
  <2> SUFFICES ASSUME NEW i \in 1..n
               PROVE  o[i] = IF i = 1 THEN 0 ELSE o[i - 1] + A[i - 1].size
    OBVIOUS
  <2>1. h[i] = IF i = 1 THEN 0 ELSE h[i - 1] + A[i - 1].size
    BY <1>3, <1>5
  <2>2. i # 1 => i - 1 \in 1..n
    OBVIOUS
  <2> QED BY <2>1, <2>2
<1>7. IsOffset(o)
  <2>1. o = [i \in 1..n |-> o[i]]
    OBVIOUS
  <2> HIDE DEF o
  <2>2. [i \in 1..n |-> o[i]]
          = [i \in 1..n |-> IF i = 1 THEN 0 ELSE o[i - 1] + A[i - 1].size]
    BY <1>6
  <2> QED BY <2>1, <2>2
<1> DEFINE offset == CHOOSE g : IsOffset(g)
<1> HIDE DEF o
<1>8. IsOffset(offset)
  <2> HIDE DEF IsOffset
  <2> QED BY <1>7
<1>9. Relaid(A) = [i \in DOMAIN A |-> [A[i] EXCEPT !.offset = offset[i]]]
  BY DEF Relaid
<1> HIDE DEF offset
<1>10. \A i \in 1..n : offset[i] = IF i = 1 THEN 0 ELSE offset[i - 1] + A[i - 1].size
  BY <1>8
<1> HIDE DEF IsOffset
<1> DEFINE T == { i \in 0..n : i > 0 => offset[i] \in Int }
<1>11. 0 \in T
  OBVIOUS
<1>12. ASSUME NEW i \in 1..n, i - 1 \in T PROVE i \in T
  <2>1. CASE i = 1
    BY <1>10, <2>1
  <2>2. CASE i # 1
    <3>1. i - 1 \in 1..n
      BY <2>2
    <3>2. offset[i - 1] \in Int /\ A[i - 1].size \in Int
      BY <1>1, <1>12, <3>1
    <3>3. offset[i] \in Int
      BY <1>10, <2>2, <3>2
    <3> QED BY <3>3
  <2> QED BY <2>1, <2>2
<1> HIDE DEF T
<1>13. 0..n \subseteq T
  BY <1>11, <1>12, BoundedInduction
<1>14. \A i \in 1..n : offset[i] \in Int
  BY <1>13 DEF T
<1>15. ASSUME NEW i \in 1..n
       PROVE  /\ HasFields(Relaid(A)[i]) /\ SameBut(A[i], Relaid(A)[i])
              /\ Relaid(A)[i].offset = offset[i]
  <2>1. Relaid(A)[i] = [A[i] EXCEPT !.offset = offset[i]]
    BY <1>9
  <2>2. {"kind", "offset", "size", "trafs", "entries", "origin"} \subseteq DOMAIN A[i]
    BY <1>1 DEF HasFields
  <2>3. DOMAIN Relaid(A)[i] = DOMAIN A[i]
    BY <2>1
  <2>4. SameBut(A[i], Relaid(A)[i]) /\ Relaid(A)[i].offset = offset[i]
    BY <2>1, <2>2 DEF SameBut
  <2> QED BY <2>2, <2>3, <2>4 DEF HasFields
<1>16. DOMAIN Relaid(A) = 1..n
  BY <1>9
<1>17. Relaid(A) = [i \in 1..n |-> Relaid(A)[i]]
  BY <1>9
<1>18. IsLaid(Relaid(A))
  <2> SUFFICES ASSUME NEW i \in 1..n
               PROVE  Relaid(A)[i].offset
                        = IF i = 1 THEN 0 ELSE Relaid(A)[i - 1].offset + Relaid(A)[i - 1].size
    BY <1>16 DEF IsLaid
  <2>1. Relaid(A)[i].offset = offset[i]
    BY <1>15
  <2>2. i # 1 => /\ i - 1 \in 1..n
                 /\ Relaid(A)[i - 1].offset = offset[i - 1]
                 /\ Relaid(A)[i - 1].size = A[i - 1].size
    <3> SUFFICES ASSUME i # 1 PROVE /\ i - 1 \in 1..n
                 /\ Relaid(A)[i - 1].offset = offset[i - 1]
                 /\ Relaid(A)[i - 1].size = A[i - 1].size
      OBVIOUS
    <3>1. i - 1 \in 1..n
      OBVIOUS
    <3> QED BY <1>15, <3>1 DEF SameBut
  <2> QED BY <1>10, <2>1, <2>2
<1> QED BY <1>14, <1>15, <1>16, <1>17, <1>18

(* Where a box lies is the sum of the sizes in front of it.                *)
LEMMA LaidAtSum ==
  ASSUME NEW n \in Nat, NEW A, DOMAIN A = 1..n, LaidSizes(A), IsLaid(A),
         NEW f, \A i \in 1..n : f[i] = A[i].size
  PROVE  \A i \in 1..n : A[i].offset = SumTo(f, i - 1)
<1> DEFINE T == { i \in 0..n : i > 0 => A[i].offset = SumTo(f, i - 1) }
<1>1. 0 \in T
  OBVIOUS
<1>2. ASSUME NEW i \in 1..n, i - 1 \in T PROVE i \in T
  <2>1. i - 1 \in Nat /\ \A j \in 1..(i - 1) : f[j] \in Int
    BY DEF LaidSizes
  <2> DEFINE m == i - 1
  <2>2. /\ SumTo(f, m) \in Int /\ SumTo(f, 0) = 0
        /\ m > 0 => SumTo(f, m) = SumTo(f, m - 1) + f[m]
    <3> HIDE DEF m
    <3>1. m \in Nat /\ \A j \in 1..m : f[j] \in Int
      BY <2>1 DEF m
    <3> QED BY <3>1, SumToIs
  <2>3. A[i].offset = IF i = 1 THEN 0 ELSE A[i - 1].offset + A[i - 1].size
    BY DEF IsLaid
  <2>4. CASE i = 1
    BY <2>2, <2>3, <2>4
  <2>5. CASE i # 1
    <3>1. i - 1 \in 1..n
      BY <2>5
    <3>2. A[i - 1].offset = SumTo(f, (i - 1) - 1) /\ A[i - 1].size = f[i - 1]
      BY <1>2, <3>1
    <3> QED BY <2>2, <2>3, <2>5, <3>1, <3>2
  <2> QED BY <2>4, <2>5
<1> HIDE DEF T
<1>3. 0..n \subseteq T
  BY <1>1, <1>2, BoundedInduction
<1> QED BY <1>3 DEF T

(* What the grouping of root boxes goes through.                           *)
Segment(boxes) ==
  [first : DOMAIN boxes, moofs : Seq(BoxesOf(boxes, "moof")), size : Int,
   sidx_count : Nat]

Grouped(boxes) ==
  [segments : Seq(Segment(boxes)), existing : Seq(BoxesOf(boxes, "sidx"))]

LEMMA StartSegmentKeeps ==
  ASSUME NEW boxes, NEW state \in Grouped(boxes), NEW i \in DOMAIN boxes
  PROVE  StartSegment(state, i) \in Grouped(boxes)
<1> DEFINE new == [first |-> i, moofs |-> << >>, size |-> 0, sidx_count |-> 0]
<1>1. new \in Segment(boxes)
  <2>1. << >> \in Seq(BoxesOf(boxes, "moof"))
    OBVIOUS
  <2> QED BY <2>1 DEF Segment
<1>2. state.segments \in Seq(Segment(boxes))
  BY DEF Grouped
<1>3. StartSegment(state, i) = [state EXCEPT !.segments = Append(state.segments, new)]
  BY DEF StartSegment
<1> HIDE DEF new
<1>4. Append(state.segments, new) \in Seq(Segment(boxes))
  BY <1>1, <1>2
<1> QED BY <1>3, <1>4 DEF Grouped

LEMMA UpdateLastKeeps ==
  ASSUME NEW boxes, NEW state \in Grouped(boxes), NEW segment,
         state.segments # << >> => segment \in Segment(boxes)
  PROVE  UpdateLast(state, segment) \in Grouped(boxes)
<1>1. CASE state.segments = << >>
  BY <1>1 DEF UpdateLast
<1>2. CASE state.segments # << >>
  <2> DEFINE s == state.segments
             t == [s EXCEPT ![Len(s)] = segment]
  <2>1. s \in Seq(Segment(boxes))
    BY DEF Grouped
  <2>2. UpdateLast(state, segment) = [state EXCEPT !.segments = t]
    BY <1>2 DEF UpdateLast
  <2> HIDE DEF s
  <2>3. t \in Seq(Segment(boxes))
    <3>1. t = [k \in DOMAIN s |-> IF k = Len(s) THEN segment ELSE s[k]]
      OBVIOUS
    <3>2. \A k \in DOMAIN s : (IF k = Len(s) THEN segment ELSE s[k]) \in Segment(boxes)
      BY <1>2, <2>1 DEF s
    <3>3. DOMAIN s = 1..Len(s) /\ Len(s) \in Nat
      BY <2>1
    <3> HIDE DEF t
    <3>4. t \in [1..Len(s) -> Segment(boxes)]
      BY <3>1, <3>2, <3>3
    <3> QED BY <3>3, <3>4
  <2> HIDE DEF t
  <2> QED BY <2>2, <2>3 DEF Grouped
<1> QED BY <1>1, <1>2

LEMMA LastIsSegment ==
  ASSUME NEW boxes, NEW state \in Grouped(boxes), state.segments # << >>
  PROVE  Last(state.segments) \in Segment(boxes)
<1>1. state.segments \in Seq(Segment(boxes))
  BY DEF Grouped
<1>2. Len(state.segments) \in 1..Len(state.segments)
  BY <1>1
<1>3. state.segments[Len(state.segments)] \in Segment(boxes)
  BY <1>1, <1>2
<1> QED BY <1>3 DEF Last

LEMMA AddsKeep ==
  ASSUME NEW boxes, NEW state \in Grouped(boxes), NEW i \in DOMAIN boxes,
         boxes[i].size \in Int
  PROVE  /\ AddSize(state, boxes[i]) \in Grouped(boxes)
         /\ boxes[i].kind = "moof" => AddMoof(state, i) \in Grouped(boxes)
         /\ AddSidx(state) \in Grouped(boxes)
<1> DEFINE last == Last(state.segments)
<1>1. state.segments # << >> => last \in Segment(boxes)
  BY LastIsSegment
<1> HIDE DEF last
<1>2. state.segments # << >> =>
        /\ [last EXCEPT !.size = @ + boxes[i].size] \in Segment(boxes)
        /\ boxes[i].kind = "moof" =>
             [last EXCEPT !.moofs = Append(@, i)] \in Segment(boxes)
        /\ [last EXCEPT !.sidx_count = @ + 1] \in Segment(boxes)
  <2> SUFFICES ASSUME state.segments # << >>
               PROVE  /\ [last EXCEPT !.size = @ + boxes[i].size] \in Segment(boxes)
                      /\ boxes[i].kind = "moof" =>
                           [last EXCEPT !.moofs = Append(@, i)] \in Segment(boxes)
                      /\ [last EXCEPT !.sidx_count = @ + 1] \in Segment(boxes)
    OBVIOUS
  <2>1. /\ last.size \in Int /\ last.moofs \in Seq(BoxesOf(boxes, "moof"))
        /\ last.sidx_count \in Nat
    BY <1>1 DEF Segment
  <2>2. boxes[i].kind = "moof" => Append(last.moofs, i) \in Seq(BoxesOf(boxes, "moof"))
    BY <2>1 DEF BoxesOf
  <2>3. last.size + boxes[i].size \in Int
    BY <2>1
  <2>4. last.sidx_count + 1 \in Nat
    BY <2>1
  <2>5. last \in Segment(boxes)
    BY <1>1
  <2>6. [last EXCEPT !.size = @ + boxes[i].size] \in Segment(boxes)
    BY <2>3, <2>5 DEF Segment
  <2>7. boxes[i].kind = "moof" => [last EXCEPT !.moofs = Append(@, i)] \in Segment(boxes)
    BY <2>2, <2>5 DEF Segment
  <2>8. [last EXCEPT !.sidx_count = @ + 1] \in Segment(boxes)
    BY <2>4, <2>5 DEF Segment
  <2> QED BY <2>6, <2>7, <2>8
<1> QED BY <1>2, UpdateLastKeeps DEF AddSize, AddMoof, AddSidx, last

LEMMA GroupBoxKeeps ==
  ASSUME NEW boxes, NEW state \in Grouped(boxes), NEW i \in DOMAIN boxes,
         boxes[i].size \in Int
  PROVE  GroupBox(boxes, state, i) \in Grouped(boxes)
<1>1. \A st \in Grouped(boxes) : /\ AddSize(st, boxes[i]) \in Grouped(boxes)
                                 /\ boxes[i].kind = "moof" =>
                                      AddMoof(st, i) \in Grouped(boxes)
                                 /\ AddSidx(st) \in Grouped(boxes)
                                 /\ StartSegment(st, i) \in Grouped(boxes)
  BY AddsKeep, StartSegmentKeeps
<1>2. CASE boxes[i].kind = "styp"
  BY <1>1, <1>2 DEF GroupBox, GroupStyp
<1>3. CASE boxes[i].kind = "sidx"
  <2>1. GroupBox(boxes, state, i) = GroupSidx(boxes, state, i)
    BY <1>3 DEF GroupBox
  <2> DEFINE existing == Append(state.existing, i)
  <2>2. existing \in Seq(BoxesOf(boxes, "sidx"))
    BY <1>3 DEF Grouped, BoxesOf
  <2>3. state.segments \in Seq(Segment(boxes))
    BY DEF Grouped
  <2> HIDE DEF existing
  <2>4. [state EXCEPT !.existing = existing] \in Grouped(boxes)
    BY <2>2 DEF Grouped
  <2>5. state.segments # << >> =>
          [segments |-> Front(state.segments), existing |-> existing] \in Grouped(boxes)
    <3> SUFFICES ASSUME state.segments # << >>
                 PROVE  Front(state.segments) \in Seq(Segment(boxes))
      BY <2>2 DEF Grouped
    <3>1. Len(state.segments) \in Nat /\ Len(state.segments) > 0
      BY <2>3
    <3> QED BY <2>3, <3>1 DEF Front
  <2>6. AddSidx(AddSize(StartSegment(state, i), boxes[i])) \in Grouped(boxes)
    BY <1>1
  <2>7. AddSidx(IF state.segments # << >> /\ Last(state.segments).sidx_count = 0
                  THEN AddSize(state, boxes[i]) ELSE state) \in Grouped(boxes)
    BY <1>1
  <2>8. \/ GroupSidx(boxes, state, i) = [state EXCEPT !.existing = existing]
        \/ /\ state.segments # << >>
           /\ GroupSidx(boxes, state, i)
                = [segments |-> Front(state.segments), existing |-> existing]
        \/ GroupSidx(boxes, state, i) = AddSidx(AddSize(StartSegment(state, i), boxes[i]))
        \/ GroupSidx(boxes, state, i)
             = AddSidx(IF state.segments # << >> /\ Last(state.segments).sidx_count = 0
                         THEN AddSize(state, boxes[i]) ELSE state)
    BY DEF GroupSidx, existing
  <2> QED BY <2>1, <2>4, <2>5, <2>6, <2>7, <2>8
<1>4. CASE boxes[i].kind \in {"emsg", "moof"}
  <2>1. GroupBox(boxes, state, i) = GroupFragment(boxes, state, i)
    BY <1>4 DEF GroupBox
  <2> DEFINE open == IF ShouldStart(boxes, state, boxes[i].offset)
                       THEN StartSegment(state, i) ELSE state
  <2>2. open \in Grouped(boxes)
    BY <1>1
  <2>3. GroupFragment(boxes, state, i)
          = IF boxes[i].kind = "moof" THEN AddMoof(AddSize(open, boxes[i]), i)
            ELSE AddSize(open, boxes[i])
    BY DEF GroupFragment
  <2> HIDE DEF open
  <2> QED BY <1>1, <2>1, <2>2, <2>3
<1>5. CASE boxes[i].kind = "mdat"
  BY <1>1, <1>5 DEF GroupBox
<1>6. CASE boxes[i].kind \notin {"styp", "sidx", "emsg", "moof", "mdat"}
  BY <1>6 DEF GroupBox
<1> QED BY <1>2, <1>3, <1>4, <1>5, <1>6

(* The states the loop goes through.                                       *)
GroupingSteps(boxes, n, g) ==
  /\ g[0] = [segments |-> << >>, existing |-> << >>]
  /\ \A i \in 1..n : g[i] = GroupBox(boxes, g[i - 1], i)
  /\ \A i \in 0..n : g[i] \in Grouped(boxes)
  /\ group_media_segments(boxes) = g[n]

LEMMA GroupingIs ==
  ASSUME NEW n \in Nat, NEW boxes, DOMAIN boxes = 1..n, Len(boxes) = n,
         \A i \in 1..n : boxes[i].size \in Int
  PROVE  \E g : GroupingSteps(boxes, n, g)
<1> DEFINE base == [segments |-> << >>, existing |-> << >>]
           IsGrouped(g) == g = [i \in 0..Len(boxes) |->
                                  IF i = 0 THEN [segments |-> << >>, existing |-> << >>]
                                  ELSE GroupBox(boxes, g[i - 1], i)]
           step == [i \in 1..n |-> [state \in Grouped(boxes) |-> GroupBox(boxes, state, i)]]
<1>1. base \in Grouped(boxes)
  <2>1. << >> \in Seq(Segment(boxes)) /\ << >> \in Seq(BoxesOf(boxes, "sidx"))
    OBVIOUS
  <2> QED BY <2>1 DEF Grouped
<1>2. step \in [1..n -> [Grouped(boxes) -> Grouped(boxes)]]
  <2>1. \A i \in 1..n : \A state \in Grouped(boxes) : GroupBox(boxes, state, i) \in Grouped(boxes)
    BY GroupBoxKeeps
  <2>2. \A i \in 1..n : [state \in Grouped(boxes) |-> GroupBox(boxes, state, i)]
                          \in [Grouped(boxes) -> Grouped(boxes)]
    BY <2>1
  <2> QED BY <2>2
<1>3. \A i \in 1..n : \A state \in Grouped(boxes) : step[i][state] = GroupBox(boxes, state, i)
  OBVIOUS
<1> HIDE DEF step
<1>4. \E f \in [0..n -> Grouped(boxes)] : IsRecursion(f, n, base, step)
  <2> HIDE DEF base
  <2> QED BY <1>1, <1>2, RecursionExists, Zenon
<1>5. PICK h \in [0..n -> Grouped(boxes)] : IsRecursion(h, n, base, step)
  BY <1>4
<1>6. IsGrouped(h)
  <2>1. \A i \in 0..n : (IF i = 0 THEN base ELSE step[i][h[i - 1]])
                          = IF i = 0 THEN base ELSE GroupBox(boxes, h[i - 1], i)
    <3> SUFFICES ASSUME NEW i \in 0..n, i # 0
                 PROVE  step[i][h[i - 1]] = GroupBox(boxes, h[i - 1], i)
      OBVIOUS
    <3>1. i \in 1..n /\ i - 1 \in 0..n
      OBVIOUS
    <3>2. h[i - 1] \in Grouped(boxes)
      BY <3>1
    <3> QED BY <1>3, <3>1, <3>2
  <2>2. h = [i \in 0..n |-> IF i = 0 THEN base ELSE step[i][h[i - 1]]]
    BY <1>5 DEF IsRecursion
  <2> HIDE DEF base
  <2>3. h = [i \in 0..n |-> IF i = 0 THEN base ELSE GroupBox(boxes, h[i - 1], i)]
    BY <2>1, <2>2
  <2> QED BY <2>3 DEF base
<1> DEFINE grouped == CHOOSE g : IsGrouped(g)
<1>7. IsGrouped(grouped)
  <2> HIDE DEF IsGrouped
  <2> QED BY <1>6
<1>8. group_media_segments(boxes) = grouped[n]
  BY DEF group_media_segments
<1> HIDE DEF grouped
<1>9. \A i \in 0..n : grouped[i] = IF i = 0 THEN base ELSE GroupBox(boxes, grouped[i - 1], i)
  BY <1>7
<1> HIDE DEF IsGrouped, base
<1> DEFINE T == { i \in 0..n : grouped[i] \in Grouped(boxes) }
<1>10. 0 \in T
  BY <1>1, <1>9
<1>11. ASSUME NEW i \in 1..n, i - 1 \in T PROVE i \in T
  <2>1. grouped[i - 1] \in Grouped(boxes) /\ i \in DOMAIN boxes /\ boxes[i].size \in Int
    BY <1>11
  <2>2. GroupBox(boxes, grouped[i - 1], i) \in Grouped(boxes)
    BY <2>1, GroupBoxKeeps
  <2>3. grouped[i] = GroupBox(boxes, grouped[i - 1], i)
    <3>1. i \in 0..n /\ i # 0
      OBVIOUS
    <3> QED BY <1>9, <3>1
  <2> QED BY <2>2, <2>3
<1> HIDE DEF T
<1>12. 0..n \subseteq T
  BY <1>10, <1>11, BoundedInduction
<1>13. \A i \in 0..n : grouped[i] \in Grouped(boxes)
  BY <1>12 DEF T
<1>14. \A i \in 1..n : grouped[i] = GroupBox(boxes, grouped[i - 1], i)
  <2> SUFFICES ASSUME NEW i \in 1..n PROVE grouped[i] = GroupBox(boxes, grouped[i - 1], i)
    OBVIOUS
  <2>1. i \in 0..n /\ i # 0
    OBVIOUS
  <2> QED BY <1>9, <2>1
<1>15. grouped[0] = base
  BY <1>9
<1>16. GroupingSteps(boxes, n, grouped)
  BY <1>8, <1>13, <1>14, <1>15 DEF GroupingSteps, base
<1> QED BY <1>16

LEMMA GroupedIs ==
  ASSUME NEW n \in Nat, NEW boxes, DOMAIN boxes = 1..n, Len(boxes) = n,
         \A i \in 1..n : boxes[i].size \in Int
  PROVE  group_media_segments(boxes) \in Grouped(boxes)
<1>1. PICK g : GroupingSteps(boxes, n, g)
  BY GroupingIs
<1> QED BY <1>1 DEF GroupingSteps

(* The plan for a sidx names a sidx, or the first box of a segment.        *)
PlanFits(p, boxes) ==
  /\ p # << >>
  /\ p.replaced \in BoxesOf(boxes, "sidx") \cup {None}
  /\ p.insertion_box \in DOMAIN boxes
  /\ EncodedSidxSize(p.version, Len(p.sizes)) \in Nat \ {0}

LEMMA PlanIs ==
  ASSUME NEW n \in Nat, NEW boxes, DOMAIN boxes = 1..n, Len(boxes) = n,
         \A i \in 1..n : boxes[i].size \in Int, PlanError(boxes) = "None", NEW options
  PROVE  /\ PlanFits(Plan(boxes, options), boxes)
         /\ PlanFits(VersionKept(boxes, Plan(boxes, options)), boxes)
<1> DEFINE grouped == group_media_segments(boxes)
           p == Plan(boxes, options)
           v == VersionKept(boxes, p)
<1>1. grouped \in Grouped(boxes)
  BY GroupedIs
<1>2. grouped.segments # << >>
  <2>1. AnalysisError(boxes) = "None"
    BY DEF PlanError
  <2>2. GroupError(boxes, grouped) = "None"
    BY <2>1 DEF AnalysisError
  <2> HIDE DEF grouped
  <2> QED BY <2>2 DEF GroupError
<1>3. /\ p.replaced = IF grouped.existing = << >> THEN None ELSE grouped.existing[1]
      /\ p.insertion_box = grouped.segments[1].first
      /\ p.sizes = [k \in DOMAIN grouped.segments |-> grouped.segments[k].size]
      /\ DOMAIN p = {"replaced", "insertion_box", "version", "earliest", "starts", "sizes",
                     "durations"}
  BY DEF Plan
<1> HIDE DEF grouped, p
<1>4. /\ grouped.segments \in Seq(Segment(boxes))
      /\ grouped.existing \in Seq(BoxesOf(boxes, "sidx"))
  BY <1>1 DEF Grouped
<1>5. p.replaced \in BoxesOf(boxes, "sidx") \cup {None}
  <2>1. grouped.existing # << >> => grouped.existing[1] \in BoxesOf(boxes, "sidx")
    BY <1>4
  <2> QED BY <1>3, <2>1
<1>6. p.insertion_box \in DOMAIN boxes
  <2>1. grouped.segments[1] \in Segment(boxes)
    BY <1>2, <1>4
  <2> QED BY <1>3, <2>1 DEF Segment
<1>7. Len(p.sizes) \in Nat
  <2>1. p.sizes \in Seq(Int)
    <3>1. DOMAIN grouped.segments = 1..Len(grouped.segments) /\ Len(grouped.segments) \in Nat
      BY <1>4
    <3>2. \A k \in 1..Len(grouped.segments) : grouped.segments[k].size \in Int
      <4>1. \A k \in 1..Len(grouped.segments) : grouped.segments[k] \in Segment(boxes)
        BY <1>4
      <4> QED BY <4>1 DEF Segment
    <3>3. p.sizes \in [1..Len(grouped.segments) -> Int]
      BY <1>3, <3>1, <3>2
    <3> QED BY <3>1, <3>3
  <2> QED BY <2>1
<1>8. \A w : EncodedSidxSize(w, Len(p.sizes)) \in Nat \ {0}
  <2> SUFFICES ASSUME NEW w PROVE EncodedSidxSize(w, Len(p.sizes)) \in Nat \ {0}
    OBVIOUS
  <2>1. CASE w = 0
    BY <1>7, <2>1 DEF EncodedSidxSize
  <2>2. CASE w # 0
    BY <1>7, <2>2 DEF EncodedSidxSize
  <2> QED BY <2>1, <2>2
<1>9. "replaced" \in DOMAIN p /\ "sizes" \in DOMAIN p /\ "insertion_box" \in DOMAIN p
  BY <1>3
<1>10. \A q : "replaced" \in DOMAIN q => q # << >>
  OBVIOUS
<1>11. v.replaced = p.replaced /\ v.sizes = p.sizes /\ v.insertion_box = p.insertion_box
       /\ "replaced" \in DOMAIN v
  BY <1>9 DEF VersionKept
<1> HIDE DEF v
<1> QED BY <1>5, <1>6, <1>8, <1>9, <1>10, <1>11 DEF PlanFits, p, v

-----------------------------------------------------------------------------
(* Where a plan puts its sidx, and the box it finds at a place.            *)
NewAt(p) == IF p.replaced = None THEN p.insertion_box ELSE p.replaced

To(p, k) == IF p.replaced = None /\ k >= p.insertion_box THEN k + 1 ELSE k

WithNew(A, p) ==
  IF p.replaced = None THEN InsertAt(A, p.insertion_box, RewrittenSidx(A, p))
  ELSE ReplaceAt(A, p.replaced, RewrittenSidx(A, p))

CountWith(n, p) == IF p.replaced = None THEN n + 1 ELSE n

(* Boxes in a row of n.                                                    *)
IsRow(A, n) == DOMAIN A = 1..n /\ A = [k \in 1..n |-> A[k]]

LEMMA NewSidxIs ==
  ASSUME NEW A, NEW p, PlanFits(p, A)
  PROVE  /\ HasFields(RewrittenSidx(A, p))
         /\ RewrittenSidx(A, p).kind = "sidx"
         /\ RewrittenSidx(A, p).size = EncodedSidxSize(p.version, Len(p.sizes))
         /\ RewrittenSidx(A, p).size \in Int
         /\ RewrittenSidx(A, p).origin
              = IF p.replaced = None THEN 0 ELSE A[p.replaced].origin
<1> DEFINE new == RewrittenSidx(A, p)
<1>1. DOMAIN new = {"kind", "offset", "size", "header_size", "trafs", "chained", "version",
                    "earliest", "first_offset", "entries", "durations", "origin"}
  BY DEF RewrittenSidx
<1>2. /\ new.kind = "sidx"
      /\ new.size = EncodedSidxSize(p.version, Len(p.sizes))
      /\ new.origin = IF p.replaced = None THEN 0 ELSE A[p.replaced].origin
  BY DEF RewrittenSidx
<1> HIDE DEF new
<1>3. HasFields(new)
  BY <1>1 DEF HasFields
<1>4. new.size \in Int
  BY <1>2 DEF PlanFits
<1> QED BY <1>2, <1>3, <1>4 DEF new

LEMMA WithNewIs ==
  ASSUME NEW n \in Nat, NEW A, IsRow(A, n), LaidSizes(A),
         NEW p, PlanFits(p, A)
  PROVE  /\ CountWith(n, p) \in Nat
         /\ DOMAIN WithNew(A, p) = 1..CountWith(n, p)
         /\ LaidSizes(WithNew(A, p))
         /\ NewAt(p) \in 1..n
         /\ WithNew(A, p)[NewAt(p)] = RewrittenSidx(A, p)
         /\ \A k \in 1..n : k # p.replaced => WithNew(A, p)[To(p, k)] = A[k]
<1> DEFINE new == RewrittenSidx(A, p)
           W == WithNew(A, p)
<1>1. HasFields(new) /\ new.size \in Int
  BY NewSidxIs
<1>2. NewAt(p) \in 1..n /\ p.insertion_box \in 1..n
  BY DEF PlanFits, NewAt, BoxesOf, IsRow
<1>3. CASE p.replaced # None
  <2> DEFINE r == p.replaced
  <2>1. r \in 1..n
    BY <1>3 DEF PlanFits, BoxesOf, IsRow
  <2>2. W = [A EXCEPT ![r] = new]
    BY <1>3 DEF WithNew, ReplaceAt
  <2> HIDE DEF W, new
  <2>3. DOMAIN W = 1..n /\ W[r] = new /\ \A k \in 1..n : k # r => W[k] = A[k]
    BY <2>1, <2>2 DEF IsRow
  <2>4. \A k \in 1..n : HasFields(W[k]) /\ W[k].size \in Int
    BY <1>1, <2>3 DEF LaidSizes, IsRow
  <2>5. NewAt(p) = r /\ CountWith(n, p) = n /\ \A k \in 1..n : To(p, k) = k
    BY <1>3 DEF NewAt, CountWith, To
  <2> HIDE DEF r
  <2> QED BY <1>2, <2>3, <2>4, <2>5 DEF LaidSizes, W, new, r
<1>4. CASE p.replaced = None
  <2> DEFINE b == p.insertion_box
             S == { A[k] : k \in 1..n } \cup {new}
             front == SubSeq(A, 1, b - 1)
             rest == SubSeq(A, b, n)
  <2>0. b \in 1..n
    BY <1>2
  <2>1. A \in Seq(S) /\ Len(A) = n
    <3> HIDE DEF new
    <3>1. \A k \in 1..n : A[k] \in S
      OBVIOUS
    <3> HIDE DEF S
    <3>2. A \in [1..n -> S]
      BY <3>1 DEF IsRow
    <3> QED BY <3>2
  <2>2. W = front \o << new >> \o rest
    BY <1>4, <2>1 DEF WithNew, InsertAt
  <2> HIDE DEF W, new, b
  <2>3. new \in S
    OBVIOUS
  <2> HIDE DEF S
  <2>4. /\ front \in Seq(S) /\ Len(front) = b - 1
        /\ \A k \in 1..(b - 1) : front[k] = A[k]
    BY <2>0, <2>1
  <2>5. /\ rest \in Seq(S) /\ Len(rest) = n - b + 1
        /\ \A k \in 1..(n - b + 1) : rest[k] = A[b + k - 1]
    BY <2>0, <2>1
  <2> HIDE DEF front, rest
  <2>6. W \in Seq(S) /\ Len(W) = n + 1
    <3> DEFINE f == front \o << new >>
    <3>1. f \in Seq(S) /\ Len(f) = (b - 1) + 1
      BY <2>0, <2>3, <2>4
    <3>2. W = f \o rest
      BY <2>2
    <3> HIDE DEF f
    <3>4. f \in Seq(S) /\ rest \in Seq(S)
      BY <2>5, <3>1
    <3>3. f \o rest \in Seq(S) /\ Len(f \o rest) = Len(f) + Len(rest)
      BY ONLY <3>4
    <3> QED BY <2>0, <2>5, <3>1, <3>2, <3>3
  <2>7. \A k \in 1..(n + 1) : W[k] = IF k < b THEN A[k] ELSE IF k = b THEN new ELSE A[k - 1]
    <3> SUFFICES ASSUME NEW k \in 1..(n + 1)
                 PROVE  W[k] = IF k < b THEN A[k] ELSE IF k = b THEN new ELSE A[k - 1]
      OBVIOUS
    <3> DEFINE f == front \o << new >>
    <3>1. /\ f \in Seq(S) /\ Len(f) = b
          /\ \A m \in 1..b : f[m] = IF m < b THEN A[m] ELSE new
      BY <2>0, <2>3, <2>4
    <3>2. W = f \o rest
      BY <2>2
    <3> HIDE DEF f
    <3>3. W[k] = IF k <= b THEN f[k] ELSE rest[k - b]
      BY <2>0, <2>5, <3>1, <3>2
    <3>4. CASE k <= b
      BY <2>0, <3>1, <3>3, <3>4
    <3>5. CASE k > b
      <4>1. k - b \in 1..(n - b + 1) /\ b + (k - b) - 1 = k - 1
        BY <2>0, <3>5
      <4>2. rest[k - b] = A[k - 1]
        BY <2>5, <4>1
      <4> QED BY <2>0, <3>3, <3>5, <4>2
    <3> QED BY <2>0, <3>4, <3>5
  <2>8. DOMAIN W = 1..(n + 1)
    BY <2>6
  <2>9. \A k \in 1..(n + 1) : HasFields(W[k]) /\ W[k].size \in Int
    <3> SUFFICES ASSUME NEW k \in 1..(n + 1) PROVE HasFields(W[k]) /\ W[k].size \in Int
      OBVIOUS
    <3>1. \A m \in 1..n : HasFields(A[m]) /\ A[m].size \in Int
      BY DEF LaidSizes, IsRow
    <3>2. CASE k < b
      <4>1. k \in 1..n /\ W[k] = A[k]
        BY <2>0, <2>7, <3>2
      <4> QED BY <3>1, <4>1
    <3>3. CASE k = b
      <4>1. W[k] = new
        BY <2>0, <2>7, <3>3
      <4> QED BY <1>1, <4>1 DEF new
    <3>4. CASE k > b
      <4>1. k - 1 \in 1..n /\ W[k] = A[k - 1]
        BY <2>0, <2>7, <3>4
      <4> QED BY <3>1, <4>1
    <3> QED BY <2>0, <3>2, <3>3, <3>4
  <2>10. NewAt(p) = b /\ CountWith(n, p) = n + 1
         /\ \A k \in 1..n : To(p, k) = IF k >= b THEN k + 1 ELSE k
    BY <1>4 DEF NewAt, CountWith, To, b
  <2>11. \A k \in 1..n : W[IF k >= b THEN k + 1 ELSE k] = A[k]
    <3> SUFFICES ASSUME NEW k \in 1..n PROVE W[IF k >= b THEN k + 1 ELSE k] = A[k]
      OBVIOUS
    <3>1. CASE k >= b
      <4>1. k + 1 \in 1..(n + 1) /\ (k + 1) - 1 = k /\ ~(k + 1 < b) /\ k + 1 # b
        BY <2>0, <3>1
      <4> QED BY <2>7, <3>1, <4>1
    <3>2. CASE k < b
      <4>1. k \in 1..(n + 1) /\ ~(k >= b)
        BY <2>0, <3>2
      <4> QED BY <2>7, <3>2, <4>1
    <3> QED BY <2>0, <3>1, <3>2
  <2>12. W[b] = new
    BY <2>0, <2>7
  <2>13. LaidSizes(W)
    BY <2>8, <2>9 DEF LaidSizes
  <2> QED BY <1>2, <2>8, <2>10, <2>11, <2>12, <2>13 DEF W, new
<1> QED BY <1>3, <1>4

(* A file to which a plan was applied: the boxes but the new one say what  *)
(* they said, where the new one leaves them.                               *)
LEMMA AppliedIs ==
  ASSUME NEW n \in Nat, NEW A, IsRow(A, n), LaidSizes(A),
         NEW p, PlanFits(p, A)
  PROVE  /\ CountWith(n, p) \in Nat
         /\ DOMAIN Applied(A, p) = 1..CountWith(n, p)
         /\ IsLaid(Applied(A, p))
         /\ \A k \in 1..CountWith(n, p) :
              Applied(A, p)[k].offset \in Int /\ Applied(A, p)[k].size \in Int
         /\ NewAt(p) \in 1..n
         /\ SameBut(RewrittenSidx(A, p), Applied(A, p)[NewAt(p)])
         /\ \A k \in 1..n : k # p.replaced => SameBut(A[k], Applied(A, p)[To(p, k)])
<1> DEFINE W == WithNew(A, p)
           m == CountWith(n, p)
<1>1. /\ m \in Nat /\ DOMAIN W = 1..m /\ LaidSizes(W)
      /\ NewAt(p) \in 1..n
      /\ W[NewAt(p)] = RewrittenSidx(A, p)
      /\ \A k \in 1..n : k # p.replaced => W[To(p, k)] = A[k]
  BY WithNewIs
<1>2. Applied(A, p) = Relaid(W)
  BY DEF Applied, WithNew
<1>3. NewAt(p) \in 1..m /\ \A k \in 1..n : To(p, k) \in 1..m
  BY <1>1 DEF CountWith, To
<1> HIDE DEF W, m
<1>4. /\ DOMAIN Relaid(W) = 1..m /\ IsLaid(Relaid(W))
      /\ \A k \in 1..m : /\ HasFields(Relaid(W)[k]) /\ SameBut(W[k], Relaid(W)[k])
                         /\ Relaid(W)[k].offset \in Int
  BY <1>1, RelaidIs
<1>5. \A k \in 1..m : Relaid(W)[k].size \in Int
  BY <1>1, <1>4 DEF LaidSizes, SameBut
<1>6. SameBut(RewrittenSidx(A, p), Relaid(W)[NewAt(p)])
  BY <1>1, <1>3, <1>4
<1>7. \A k \in 1..n : k # p.replaced => SameBut(A[k], Relaid(W)[To(p, k)])
  BY <1>1, <1>3, <1>4
<1> QED BY <1>1, <1>2, <1>4, <1>5, <1>6, <1>7 DEF m

-----------------------------------------------------------------------------
(* What the rewrite makes of the boxes of a request, before its sidx is    *)
(* refreshed: as many, of the same kinds, laid out anew.  Only a moov, or a*)
(* moof that was replaced, has another size, and none where all is         *)
(* rewritten in place.                                                     *)
InPlace(req) ==
  /\ req.operation # "refresh"
  /\ \E i \in BoxesOf(req.root_boxes, "moof") :
       MoofRemoved(req.root_boxes[i]) # 0 /\ PatchBlocked(req.root_boxes[i])

ShapeKept(req, A) ==
  /\ IsRow(A, Len(req.root_boxes)) /\ LaidSizes(A) /\ IsLaid(A)
  /\ \A i \in DOMAIN req.root_boxes :
       /\ A[i].offset \in Int
       /\ A[i].kind = req.root_boxes[i].kind
       /\ A[i].origin = i

SizesFollow(req, replacements, A) ==
  \A i \in DOMAIN req.root_boxes :
    A[i].size # req.root_boxes[i].size =>
      /\ ~InPlace(req)
      /\ \/ req.root_boxes[i].kind = "moov"
         \/ req.root_boxes[i].kind = "moof" /\ i \in DOMAIN replacements

TrafFollows(req, A, i, t) ==
  /\ A[i].trafs[t].runs \in Seq(Run)
  /\ \A at, to \in Int :
       (req.root_boxes[i].trafs[t].base_data_offset # None => to = at) =>
         SaysTheSame(req.root_boxes[i].trafs[t], A[i].trafs[t], at, to,
                     req.root_boxes[i].size - A[i].size)

TrafsFollow(req, A) ==
  \A i \in BoxesOf(req.root_boxes, "moof") : \A t \in DOMAIN req.root_boxes[i].trafs :
    TrafFollows(req, A, i, t)

EntriesFollow(req, A) ==
  req.operation = "file" =>
    \A i \in BoxesOf(req.root_boxes, "mfra") : \A e \in DOMAIN req.root_boxes[i].entries :
      \A j \in DOMAIN req.root_boxes :
        req.root_boxes[i].entries[e] = req.root_boxes[j].offset =>
          A[i].entries[e] = A[j].offset

IsCopy(req, replacements, A) ==
  /\ ShapeKept(req, A) /\ SizesFollow(req, replacements, A)
  /\ TrafsFollow(req, A) /\ EntriesFollow(req, A)

(* And what is returned: that, or that with a new sidx.                    *)
IsOutput(A) ==
  /\ IsCopy(request, moof_replacements, A)
  /\ \/ plan = << >> /\ bytes = A
     \/ PlanFits(plan, A) /\ bytes = Applied(A, plan)

InsertsBefore(i) == plan # << >> /\ plan.replaced = None /\ plan.insertion_box = i

Landed(A, i) ==
  /\ Place(i) \in Int /\ bytes[Heir(i)].size \in Int
  /\ root[i].kind # "sidx" => SameBut(A[i], bytes[Heir(i)])
  /\ i > 1 /\ ~InsertsBefore(i) => Place(i) = Place(i - 1) + bytes[Heir(i - 1)].size
  /\ ~SidxResized => Place(i) = A[i].offset

(* Two rows of boxes of the same sizes begin at the same offsets.          *)
LEMMA SameOffsets ==
  ASSUME NEW n \in Nat, NEW A, NEW B, DOMAIN A = 1..n, DOMAIN B = 1..n,
         IsLaid(A), IsLaid(B), \A i \in 1..n : A[i].size = B[i].size
  PROVE  \A i \in 1..n : A[i].offset = B[i].offset
<1> DEFINE T == { i \in 0..n : i > 0 => A[i].offset = B[i].offset }
<1>1. 0 \in T
  OBVIOUS
<1>2. ASSUME NEW i \in 1..n, i - 1 \in T PROVE i \in T
  <2>1. /\ A[i].offset = IF i = 1 THEN 0 ELSE A[i - 1].offset + A[i - 1].size
        /\ B[i].offset = IF i = 1 THEN 0 ELSE B[i - 1].offset + B[i - 1].size
    BY DEF IsLaid
  <2>2. i # 1 => i - 1 \in 1..n
    OBVIOUS
  <2>3. i # 1 => A[i - 1].offset = B[i - 1].offset /\ A[i - 1].size = B[i - 1].size
    BY <1>2, <2>2
  <2> QED BY <2>1, <2>3
<1> HIDE DEF T
<1>3. 0..n \subseteq T
  BY <1>1, <1>2, BoundedInduction
<1> QED BY <1>3 DEF T

LEMMA NothingPlannedLands ==
  ASSUME request \in Requests, NEW A, IsCopy(request, moof_replacements, A),
         plan = << >>, bytes = A, NEW i \in Roots
  PROVE  Landed(A, i)
<1> DEFINE n == Len(root)
<1>1. n \in Nat /\ Roots = 1..n /\ DOMAIN root = 1..n
  BY RootBoxes DEF Roots, root
<1>2. /\ DOMAIN A = 1..n /\ LaidSizes(A) /\ IsLaid(A)
      /\ \A k \in 1..n : A[k].offset \in Int /\ A[k].origin = k
  BY <1>1 DEF IsCopy, ShapeKept, IsRow, root
<1> HIDE DEF n
<1>3. ASSUME NEW k \in 1..n PROVE Heir(k) = k
  BY <1>2 DEF Heir
<1>4. Place(i) = A[i].offset /\ bytes[Heir(i)] = A[i] /\ A[i].size \in Int
      /\ i \in 1..n
  BY <1>1, <1>2, <1>3 DEF Place, LaidSizes
<1>5. ASSUME i > 1
      PROVE  Place(i) = Place(i - 1) + bytes[Heir(i - 1)].size
  <2>1. i - 1 \in 1..n /\ i # 1
    BY <1>1, <1>4, <1>5
  <2>2. Heir(i - 1) = i - 1
    BY <1>3, <2>1
  <2> QED BY <1>2, <1>4, <2>1, <2>2 DEF IsLaid, Place
<1> QED BY <1>2, <1>4, <1>5 DEF Landed, SameBut

LEMMA HeirIs ==
  ASSUME request \in Requests, NEW A, IsCopy(request, moof_replacements, A),
         PlanFits(plan, A), bytes = Applied(A, plan), NEW i \in Roots
  PROVE  Heir(i) = To(plan, i) /\ Heir(i) \in DOMAIN bytes
<1> DEFINE n == Len(root)
           m == CountWith(n, plan)
           B == Applied(A, plan)
<1>1. n \in Nat /\ Roots = 1..n /\ i \in 1..n
  BY RootBoxes DEF Roots, root
<1>2. /\ IsRow(A, n) /\ LaidSizes(A) /\ \A k \in 1..n : A[k].origin = k
  BY <1>1 DEF IsCopy, ShapeKept, root, Roots
<1>3. /\ m \in Nat /\ DOMAIN B = 1..m /\ NewAt(plan) \in 1..n
      /\ SameBut(RewrittenSidx(A, plan), B[NewAt(plan)])
      /\ \A k \in 1..n : k # plan.replaced => SameBut(A[k], B[To(plan, k)])
  <2> HIDE DEF n, B
  <2> QED BY <1>1, <1>2, AppliedIs DEF m, B
<1>4. RewrittenSidx(A, plan).origin
        = IF plan.replaced = None THEN 0 ELSE A[plan.replaced].origin
  BY NewSidxIs
<1> HIDE DEF n, B
<1>5. CASE plan.replaced # None
  <2>1. m = n /\ NewAt(plan) = plan.replaced /\ \A k \in 1..n : To(plan, k) = k
    BY <1>5 DEF CountWith, NewAt, To
  <2>2. plan.replaced \in 1..n /\ A[plan.replaced].origin = plan.replaced
    BY <1>2, <1>3, <2>1
  <2>3. \A k \in 1..n : B[k].origin = k
    BY <1>2, <1>3, <1>4, <1>5, <2>1, <2>2 DEF SameBut
  <2>4. Heir(i) = i
    BY <1>1, <1>3, <2>1, <2>3 DEF Heir, B
  <2> QED BY <1>1, <1>3, <2>1, <2>4 DEF B
<1>6. CASE plan.replaced = None
  <2> DEFINE b == plan.insertion_box
  <2>1. /\ m = n + 1 /\ NewAt(plan) = b
        /\ \A k \in 1..n : To(plan, k) = IF k >= b THEN k + 1 ELSE k
    BY <1>6 DEF CountWith, NewAt, To
  <2>2. \A k \in 1..n : k # plan.replaced
    BY <1>1, <1>6, NoneAssumption
  <2> HIDE DEF b
  <2>3. b \in 1..n /\ B[b].origin = 0
    BY <1>3, <1>4, <1>6, <2>1 DEF SameBut
  <2>4. \A k \in 1..n : B[IF k >= b THEN k + 1 ELSE k].origin = k
    BY <1>2, <1>3, <2>1, <2>2 DEF SameBut
  <2>5. ASSUME NEW k \in 1..(n + 1) PROVE B[k].origin = IF k < b THEN k ELSE IF k = b THEN 0
                                                        ELSE k - 1
    <3>1. CASE k < b
      <4>1. k \in 1..n /\ ~(k >= b)
        BY <1>1, <2>3, <3>1
      <4> QED BY <2>4, <3>1, <4>1
    <3>2. CASE k = b
      BY <2>3, <3>2
    <3>3. CASE k > b
      <4>1. k - 1 \in 1..n /\ k - 1 >= b /\ (k - 1) + 1 = k
        BY <1>1, <2>3, <3>3
      <4>2. B[(k - 1) + 1].origin = k - 1
        BY <2>4, <4>1
      <4> QED BY <2>3, <3>3, <4>1, <4>2
    <3> QED BY <2>3, <3>1, <3>2, <3>3
  <2> DEFINE heir == IF i >= b THEN i + 1 ELSE i
  <2>6. heir \in 1..(n + 1) /\ \A k \in 1..(n + 1) : B[k].origin = i <=> k = heir
    <3>1. heir \in 1..(n + 1)
      BY <1>1, <2>3
    <3>2. ASSUME NEW k \in 1..(n + 1) PROVE B[k].origin = i <=> k = heir
      BY <1>1, <2>3, <2>5
    <3> QED BY <3>1, <3>2
  <2> HIDE DEF heir
  <2>7. Heir(i) = heir
    BY <1>1, <1>3, <2>1, <2>6 DEF Heir, B
  <2> QED BY <1>1, <1>3, <2>1, <2>6, <2>7 DEF B, heir
<1> QED BY <1>5, <1>6

LEMMA PlannedLands ==
  ASSUME request \in Requests, NEW A, IsCopy(request, moof_replacements, A),
         PlanFits(plan, A), bytes = Applied(A, plan), NEW i \in Roots
  PROVE  Landed(A, i)
<1> DEFINE n == Len(root)
           m == CountWith(n, plan)
           B == Applied(A, plan)
<1>1. n \in Nat /\ Roots = 1..n /\ i \in 1..n /\ DOMAIN root = 1..n
  BY RootBoxes DEF Roots, root
<1>2. /\ IsRow(A, n) /\ LaidSizes(A) /\ IsLaid(A) /\ DOMAIN A = 1..n
      /\ \A k \in 1..n : A[k].kind = root[k].kind
  BY <1>1 DEF IsCopy, ShapeKept, root, Roots, IsRow
<1>3. /\ m \in Nat /\ DOMAIN B = 1..m /\ NewAt(plan) \in 1..n /\ IsLaid(B)
      /\ \A k \in 1..m : B[k].offset \in Int /\ B[k].size \in Int
      /\ SameBut(RewrittenSidx(A, plan), B[NewAt(plan)])
      /\ \A k \in 1..n : k # plan.replaced => SameBut(A[k], B[To(plan, k)])
  <2> HIDE DEF n, B
  <2> QED BY <1>1, <1>2, AppliedIs DEF m, B
<1>4. RewrittenSidx(A, plan).size = EncodedSidxSize(plan.version, Len(plan.sizes))
  BY NewSidxIs
<1> HIDE DEF n
<1>5. ASSUME NEW k \in 1..n
      PROVE  /\ Heir(k) = To(plan, k) /\ To(plan, k) \in 1..m
             /\ Place(k) = B[To(plan, k)].offset /\ bytes[Heir(k)] = B[To(plan, k)]
  <2>1. Heir(k) = To(plan, k) /\ Heir(k) \in DOMAIN bytes
    BY <1>1, HeirIs
  <2> QED BY <1>3, <2>1 DEF Place
<1> HIDE DEF B
<1>6. Place(i) \in Int /\ bytes[Heir(i)].size \in Int
  BY <1>1, <1>3, <1>5
<1>7. root[i].kind # "sidx" => SameBut(A[i], bytes[Heir(i)])
  <2>1. plan.replaced # None => A[plan.replaced].kind = "sidx"
    BY DEF PlanFits, BoxesOf
  <2>2. root[i].kind # "sidx" => i # plan.replaced
    BY <1>1, <1>2, <2>1, NoneAssumption
  <2> QED BY <1>1, <1>3, <1>5, <2>2
<1>8. ASSUME i > 1, ~InsertsBefore(i)
      PROVE  Place(i) = Place(i - 1) + bytes[Heir(i - 1)].size
  <2>1. i - 1 \in 1..n /\ i \in 1..n
    BY <1>1, <1>8
  <2>2. To(plan, i) = To(plan, i - 1) + 1 /\ To(plan, i - 1) \in 1..m
    <3>1. plan # << >>
      BY DEF PlanFits
    <3>2. ~(plan.replaced = None /\ plan.insertion_box = i)
      BY <1>8, <3>1 DEF InsertsBefore
    <3>3. To(plan, i - 1) \in 1..m
      BY <1>5, <2>1
    <3>4. plan.replaced = None => plan.insertion_box \in 1..n
      BY <1>3 DEF NewAt
    <3> QED BY <1>1, <2>1, <3>2, <3>3, <3>4 DEF To
  <2> DEFINE k == To(plan, i)
  <2>3. k \in 1..m /\ k # 1 /\ k - 1 = To(plan, i - 1)
    BY <1>1, <1>3, <1>5, <2>2
  <2>4. Place(i) = B[k].offset /\ Place(i - 1) = B[k - 1].offset
        /\ bytes[Heir(i - 1)] = B[k - 1]
    BY <1>5, <2>1, <2>3
  <2> HIDE DEF k
  <2> QED BY <1>3, <2>3, <2>4 DEF IsLaid
<1>9. ASSUME ~SidxResized PROVE Place(i) = A[i].offset
  <2> DEFINE size == EncodedSidxSize(plan.version, Len(plan.sizes))
  <2>1. RemovedSize(root, plan) = size /\ size # 0
    BY <1>9 DEF SidxResized, PlanFits
  <2> HIDE DEF size
  <2>2. plan.replaced # None /\ root[plan.replaced].size = size
    BY <2>1 DEF RemovedSize
  <2>3. plan.replaced \in 1..n /\ A[plan.replaced].kind = "sidx"
    BY <1>2, <2>2 DEF PlanFits, BoxesOf
  <2>4. A[plan.replaced].size = root[plan.replaced].size
    <3>1. root[plan.replaced].kind = "sidx"
      BY <1>2, <2>3
    <3>2. SizesFollow(request, moof_replacements, A)
      BY DEF IsCopy
    <3> QED BY <1>1, <2>3, <3>1, <3>2 DEF SizesFollow, root
  <2>5. m = n /\ NewAt(plan) = plan.replaced /\ \A k \in 1..n : To(plan, k) = k
    BY <2>2 DEF CountWith, NewAt, To
  <2>6. \A k \in 1..n : A[k].size = B[k].size
    BY <1>3, <1>4, <2>2, <2>3, <2>4, <2>5 DEF SameBut, size
  <2>7. \A k \in 1..n : A[k].offset = B[k].offset
    <3>1. DOMAIN B = 1..n /\ IsLaid(B)
      BY <1>3, <2>5
    <3> QED BY <1>1, <1>2, <2>6, <3>1, SameOffsets
  <2> QED BY <1>1, <1>5, <2>5, <2>7
<1> QED BY <1>6, <1>7, <1>8, <1>9 DEF Landed

LEMMA OutputLands ==
  ASSUME request \in Requests, NEW A, IsOutput(A), NEW i \in Roots
  PROVE  Landed(A, i)
BY NothingPlannedLands, PlannedLands DEF IsOutput

(* What names a root box goes on naming it.                                *)
LEMMA EntriesLand ==
  ASSUME request \in Requests, NEW A, IsOutput(A)
  PROVE  RandomAccessSurvives
<1> SUFFICES ASSUME request.operation = "file", ~SidxResized,
                    NEW i \in BoxesOf(root, "mfra"), NEW e \in DOMAIN root[i].entries,
                    NEW j \in Roots, root[i].entries[e] = root[j].offset
             PROVE  bytes[Heir(i)].entries[e] = Place(j)
  BY DEF RandomAccessSurvives
<1>1. i \in Roots /\ root[i].kind = "mfra"
  BY DEF BoxesOf, Roots
<1>2. Landed(A, i) /\ Landed(A, j)
  BY <1>1, OutputLands
<1>3. bytes[Heir(i)].entries = A[i].entries /\ Place(j) = A[j].offset
  BY <1>1, <1>2 DEF Landed, SameBut
<1>4. A[i].entries[e] = A[j].offset
  BY DEF IsOutput, IsCopy, EntriesFollow, Roots, root
<1> QED BY <1>3, <1>4

(* Boxes that keep their size keep their distance.                         *)
LEMMA DistanceStays ==
  ASSUME request \in Requests, NEW A, IsOutput(A), NEW i \in Roots, NEW j \in Roots, i < j,
         \A k \in (i + 1)..j : ~InsertsBefore(k),
         \A k \in (i + 1)..(j - 1) : bytes[Heir(k)].size = root[k].size
  PROVE  Place(j) = Place(i) + (root[j].offset - root[i].offset)
                    + (bytes[Heir(i)].size - root[i].size)
<1> DEFINE Size(k) == bytes[Heir(k)].size
<1>1. Len(root) \in Nat /\ Roots = 1..Len(root) /\ i \in Nat /\ j \in Nat /\ i > 0
  BY RootBoxes DEF Roots, root
<1>2. ASSUME NEW k \in Roots
      PROVE  /\ Place(k) \in Int /\ Size(k) \in Int
             /\ root[k].offset \in Int /\ root[k].size \in Int
             /\ k > 1 /\ ~InsertsBefore(k) => Place(k) = Place(k - 1) + Size(k - 1)
             /\ k > 1 => root[k].offset = root[k - 1].offset + root[k - 1].size
  <2>1. Landed(A, k)
    BY OutputLands
  <2>2. /\ root[k].offset \in Nat /\ root[k].size \in Nat \ {0}
        /\ root[k].offset = IF k = 1 THEN 0 ELSE root[k - 1].offset + root[k - 1].size
    BY RootBoxes, Zenon DEF Roots, root
  <2>3. k > 1 => k # 1
    BY <1>1
  <2> QED BY <2>1, <2>2, <2>3 DEF Landed
<1> HIDE DEF Size
<1> DEFINE Moved(k) == Place(k) = Place(i) + (root[k].offset - root[i].offset)
                                  + (Size(i) - root[i].size)
           T == { m \in 0..j : m > i => Moved(m) }
<1>3. 0 \in T
  BY <1>1
<1>4. ASSUME NEW m \in 1..j, m - 1 \in T PROVE m \in T
  <2>1. m > i => m - 1 = i \/ (m - 1 > i /\ Moved(m - 1))
    BY <1>1, <1>4
  <2> HIDE DEF T, Moved
  <2>2. ASSUME m > i PROVE Moved(m)
    <3>1. m \in Roots /\ m - 1 \in Roots /\ m > 1 /\ m \in (i + 1)..j
      BY <1>1, <2>2
    <3>2. /\ Place(m) = Place(m - 1) + Size(m - 1)
          /\ root[m].offset = root[m - 1].offset + root[m - 1].size
      BY <1>2, <3>1
    <3>3. CASE m - 1 = i
      BY <1>2, <3>1, <3>2, <3>3 DEF Moved
    <3>4. CASE m - 1 > i /\ Moved(m - 1)
      <4>1. Size(m - 1) = root[m - 1].size
        BY <1>1, <3>4 DEF Size
      <4> QED BY <1>2, <3>1, <3>2, <3>4, <4>1 DEF Moved
    <3> QED BY <2>1, <2>2, <3>3, <3>4
  <2> QED BY <2>2 DEF T
<1> HIDE DEF T, Moved
<1>5. 0..j \subseteq T
  BY <1>1, <1>3, <1>4, BoundedInduction
<1>6. Moved(j)
  BY <1>1, <1>5 DEF T
<1> QED BY <1>6 DEF Moved, Size

(* A moof and the mdat of its samples come to lie as far apart as the runs *)
(* that were patched say.                                                  *)
LEMMA SamplesStayWithMoof ==
  ASSUME request \in Requests, NEW A, IsOutput(A),
         NEW i \in BoxesOf(root, "moof"), NEW j \in BoxesOf(root, "mdat"),
         ~(j < i /\ i \in DOMAIN moof_replacements /\ ~IsRewrittenInPlace),
         \A k \in (i + 1)..(j - 1) \cup (j + 1)..(i - 1) : bytes[Heir(k)].size = root[k].size,
         ~SidxComesBetween(i, j)
  PROVE  Place(j) = Place(i) + (root[j].offset - root[i].offset) - (root[i].size - A[i].size)
<1>1. /\ Len(root) \in Nat /\ Roots = 1..Len(root) /\ i \in Roots /\ j \in Roots
      /\ root[i].kind = "moof" /\ root[j].kind = "mdat"
  BY RootBoxes DEF Roots, root, BoxesOf
<1>2. Landed(A, i) /\ Landed(A, j)
  BY <1>1, OutputLands
<1>3. /\ bytes[Heir(i)].size = A[i].size /\ bytes[Heir(j)].size = A[j].size
      /\ Place(i) \in Int /\ Place(j) \in Int /\ A[i].size \in Int /\ A[j].size \in Int
  BY <1>1, <1>2 DEF Landed, SameBut
<1>4. /\ root[i].offset \in Nat /\ root[i].size \in Nat
      /\ root[j].offset \in Nat /\ root[j].size \in Nat
  BY <1>1, RootBoxes DEF Roots, root
<1>5. IsRewrittenInPlace = InPlace(request)
  BY DEF IsRewrittenInPlace, InPlace, root
<1>6. SizesFollow(request, moof_replacements, A)
  BY DEF IsOutput, IsCopy
<1>7. \A k \in (i + 1)..j \cup (j + 1)..i : ~InsertsBefore(k)
  BY DEF SidxComesBetween, InsertsBefore
<1>8. CASE i < j
  <2>1. \A k \in (i + 1)..j : ~InsertsBefore(k)
    BY <1>7
  <2>2. \A k \in (i + 1)..(j - 1) : bytes[Heir(k)].size = root[k].size
    OBVIOUS
  <2>3. Place(j) = Place(i) + (root[j].offset - root[i].offset)
                    + (bytes[Heir(i)].size - root[i].size)
    BY <1>1, <1>8, <2>1, <2>2, DistanceStays
  <2> QED BY <1>3, <1>4, <2>3
<1>9. CASE j < i
  <2>1. \A k \in (j + 1)..i : ~InsertsBefore(k)
    BY <1>7
  <2>2. \A k \in (j + 1)..(i - 1) : bytes[Heir(k)].size = root[k].size
    OBVIOUS
  <2>3. Place(i) = Place(j) + (root[i].offset - root[j].offset)
                    + (bytes[Heir(j)].size - root[j].size)
    BY <1>1, <1>9, <2>1, <2>2, DistanceStays
  <2>4. A[j].size = root[j].size
    BY <1>1, <1>6 DEF SizesFollow, Roots, root
  <2>5. A[i].size = root[i].size
    BY <1>1, <1>5, <1>6, <1>9 DEF SizesFollow, Roots, root
  <2> QED BY <1>3, <1>4, <2>3, <2>4, <2>5
<1> QED BY <1>1, <1>8, <1>9

(* An absolute base that must still be right is: nothing has moved.        *)
LEMMA NothingMoves ==
  ASSUME request \in Requests, NEW A, IsOutput(A), NEW i \in Roots,
         IsRewrittenInPlace, ~SidxResized
  PROVE  Place(i) = root[i].offset
<1> DEFINE n == Len(root)
<1>1. n \in Nat /\ Roots = 1..n /\ DOMAIN root = 1..n
  BY RootBoxes DEF Roots, root
<1>2. DOMAIN A = 1..n /\ IsLaid(A)
  BY DEF IsOutput, IsCopy, ShapeKept, IsRow, root
<1>3. IsLaid(root)
  <2> SUFFICES ASSUME NEW k \in DOMAIN root
               PROVE  root[k].offset
                        = IF k = 1 THEN 0 ELSE root[k - 1].offset + root[k - 1].size
    BY DEF IsLaid
  <2> QED BY RootBoxes, Zenon DEF root
<1>4. \A k \in 1..n : A[k].size = root[k].size
  BY <1>1 DEF IsOutput, IsCopy, SizesFollow, IsRewrittenInPlace, InPlace, root
<1> HIDE DEF n
<1>5. \A k \in 1..n : A[k].offset = root[k].offset
  BY <1>1, <1>2, <1>3, <1>4, SameOffsets
<1>6. Landed(A, i)
  BY OutputLands
<1> QED BY <1>1, <1>5, <1>6 DEF Landed

LEMMA FragmentsLand ==
  ASSUME request \in Requests, NEW A, IsOutput(A)
  PROVE  FragmentsFindSamples
<1> SUFFICES ASSUME NEW i \in BoxesOf(root, "moof"), ~Disturbed(i),
                    ~(HasAbsoluteBase(i) /\ (SidxResized \/ ~IsRewrittenInPlace)),
                    NEW t \in DOMAIN root[i].trafs,
                    NEW s \in SampleSpans(root[i].trafs[t], root[i].offset),
                    NEW j \in Roots, HoldsSample(root[j], s)
             PROVE  \E u \in SampleSpans(bytes[Heir(i)].trafs[t], Place(i)) :
                      u.run = s.run /\ u.index = s.index /\ WentTo(s, u.offset)
  BY DEF FragmentsFindSamples, FindsItsSamples
<1> DEFINE traf == root[i].trafs[t]
           moved == A[i].trafs[t]
           lost == root[i].size - A[i].size
<1>1. i \in Roots /\ root[i].kind = "moof" /\ j \in BoxesOf(root, "mdat")
  BY DEF BoxesOf, Roots, HoldsSample
<1>2. Landed(A, i) /\ Landed(A, j)
  BY <1>1, OutputLands
<1>3. /\ bytes[Heir(i)].trafs = A[i].trafs /\ Place(i) \in Int /\ Place(j) \in Int
      /\ A[i].size \in Int
  BY <1>1, <1>2 DEF Landed, SameBut
<1>4. /\ root[i].offset \in Nat /\ root[i].size \in Nat /\ root[j].offset \in Nat
      /\ traf \in Traf
  <2>1. /\ root[i].offset \in Nat /\ root[i].size \in Nat /\ root[j].offset \in Nat
        /\ root[i].trafs \in Seq(Traf)
    BY <1>1, RootBoxes DEF Roots, root
  <2> QED BY <2>1
<1>5. traf.runs \in Seq(Run) /\ traf.base_data_offset \in Int \cup {None}
  BY <1>4 DEF Traf
<1>6. Place(j) = Place(i) + (root[j].offset - root[i].offset) - lost
  <2>1. /\ ~(j < i /\ i \in DOMAIN moof_replacements /\ ~IsRewrittenInPlace)
        /\ \A k \in (i + 1)..(j - 1) \cup (j + 1)..(i - 1) :
             bytes[Heir(k)].size = root[k].size
        /\ ~SidxComesBetween(i, j)
    BY DEF Disturbed
  <2> QED BY <1>1, <2>1, SamplesStayWithMoof
<1>7. traf.base_data_offset # None => Place(i) = root[i].offset
  <2> SUFFICES ASSUME traf.base_data_offset # None PROVE Place(i) = root[i].offset
    OBVIOUS
  <2>1. IsRewrittenInPlace /\ ~SidxResized
    BY DEF HasAbsoluteBase
  <2> QED BY <1>1, <2>1, NothingMoves
<1>8. moved.runs \in Seq(Run) /\ SaysTheSame(traf, moved, root[i].offset, Place(i), lost)
  <2>1. TrafFollows(request, A, i, t)
    BY DEF IsOutput, IsCopy, TrafsFollow, root
  <2>2. root[i].offset \in Int
    BY <1>4
  <2> QED BY <1>3, <1>7, <2>1, <2>2 DEF TrafFollows, root
<1>9. lost \in Int /\ root[i].offset \in Int
  BY <1>3, <1>4
<1> HIDE DEF traf, moved, lost
<1>10. /\ s.offset \in Int
       /\ \E u \in SampleSpans(moved, Place(i)) :
            /\ u.run = s.run /\ u.index = s.index
            /\ u.offset = s.offset + (Place(i) - root[i].offset) - lost
  <2>1. s \in SampleSpans(traf, root[i].offset)
    BY DEF traf
  <2> QED BY <1>3, <1>5, <1>8, <1>9, <2>1, SpansMove
<1>11. PICK u \in SampleSpans(moved, Place(i)) :
         /\ u.run = s.run /\ u.index = s.index
         /\ u.offset = s.offset + (Place(i) - root[i].offset) - lost
  BY <1>10
<1>12. u.offset = Place(j) + (s.offset - root[j].offset)
  BY <1>3, <1>4, <1>6, <1>9, <1>10, <1>11
<1>13. WentTo(s, u.offset)
  BY <1>12 DEF WentTo
<1>14. u \in SampleSpans(bytes[Heir(i)].trafs[t], Place(i))
  BY <1>3, <1>11 DEF moved
<1> QED BY <1>11, <1>13, <1>14

-----------------------------------------------------------------------------
(* What the rewrite has made by the time it lays out its output: moofs     *)
(* rebuilt from those it could patch, the size of the moov, and the entries*)
(* of the mfra boxes, which count from the sizes that are to be.           *)
AreRebuilt(req, replacements) ==
  \A i \in DOMAIN replacements :
    /\ i \in BoxesOf(req.root_boxes, "moof")
    /\ ~PatchBlocked(req.root_boxes[i])
    /\ replacements[i] = RebuiltMoof(req.root_boxes[i])

SizesOf(req, replacements, moov) ==
  [ i \in DOMAIN req.root_boxes |->
      IF req.root_boxes[i].kind = "moov" /\ moov # None THEN moov
      ELSE IF i \in DOMAIN replacements THEN replacements[i].size
      ELSE req.root_boxes[i].size ]

EntriesPlanned(req, sizes, entries) ==
  \A i \in BoxesOf(req.root_boxes, "mfra") : \A e \in DOMAIN req.root_boxes[i].entries :
    \A j \in DOMAIN req.root_boxes :
      req.root_boxes[i].entries[e] = req.root_boxes[j].offset =>
        (IF i \in DOMAIN entries THEN entries[i][e] ELSE req.root_boxes[i].entries[e])
          = SumTo(sizes, j - 1)

(* A traf of a request.                                                    *)
LEMMA TrafIs ==
  ASSUME NEW req \in Requests, NEW i \in DOMAIN req.root_boxes,
         NEW t \in DOMAIN req.root_boxes[i].trafs
  PROVE  /\ req.root_boxes[i].trafs[t] \in Traf
         /\ req.root_boxes[i].trafs[t].runs \in Seq(Run)
<1>1. req.root_boxes[i].trafs \in Seq(Traf)
  BY RootBoxes
<1>2. req.root_boxes[i].trafs[t] \in Traf
  BY <1>1
<1> QED BY <1>2 DEF Traf

LEMMA RemovedIs ==
  ASSUME NEW req \in Requests, NEW i \in DOMAIN req.root_boxes
  PROVE  MoofRemoved(req.root_boxes[i]) \in Nat
<1> DEFINE box == req.root_boxes[i]
<1>1. box.trafs \in Seq(Traf)
  BY RootBoxes
<1>2. \A t \in DOMAIN box.trafs : box.trafs[t].removed \in Nat
  BY TrafIs DEF Traf
<1> HIDE DEF box
<1>3. Len(box.trafs) \in Nat /\ DOMAIN box.trafs = 1..Len(box.trafs)
  BY <1>1
<1>4. MoofRemoved(box) \in Nat
  BY <1>2, <1>3, MoofRemovedIs
<1> QED BY <1>4 DEF box

(* Boxes that keep their runs and do not move are a copy.                  *)
LEMMA StandingStillCopies ==
  ASSUME NEW req \in Requests, NEW replacements, NEW A, IsRow(A, Len(req.root_boxes)),
         \A i \in DOMAIN req.root_boxes :
           /\ HasFields(A[i]) /\ A[i].kind = req.root_boxes[i].kind
           /\ A[i].offset = req.root_boxes[i].offset /\ A[i].size = req.root_boxes[i].size
           /\ A[i].entries = req.root_boxes[i].entries
           /\ A[i].origin = req.root_boxes[i].origin,
         \A i \in DOMAIN req.root_boxes : \A t \in DOMAIN req.root_boxes[i].trafs :
           /\ A[i].trafs[t].runs = req.root_boxes[i].trafs[t].runs
           /\ A[i].trafs[t].base_data_offset = req.root_boxes[i].trafs[t].base_data_offset
           /\ A[i].trafs[t].default_base_is_moof
                = req.root_boxes[i].trafs[t].default_base_is_moof
  PROVE  IsCopy(req, replacements, A)
<1> DEFINE R == req.root_boxes
<1>1. DOMAIN R = 1..Len(R) /\ DOMAIN A = 1..Len(R)
  BY RootBoxes DEF IsRow
<1>2. ASSUME NEW i \in DOMAIN R
      PROVE  /\ R[i].origin = i /\ R[i].offset \in Nat /\ R[i].size \in Nat
             /\ R[i].offset = IF i = 1 THEN 0 ELSE R[i - 1].offset + R[i - 1].size
  BY RootBoxes
<1>3. ShapeKept(req, A)
  <2>1. LaidSizes(A)
    BY <1>1, <1>2 DEF LaidSizes
  <2>2. IsLaid(A)
    <3> SUFFICES ASSUME NEW i \in DOMAIN A
                 PROVE  A[i].offset = IF i = 1 THEN 0 ELSE A[i - 1].offset + A[i - 1].size
      BY DEF IsLaid
    <3>1. i \in DOMAIN R /\ A[i].offset = R[i].offset
      BY <1>1
    <3>2. i # 1 => i - 1 \in DOMAIN R
      <4>1. Len(R) \in Nat
        BY RootBoxes
      <4> QED BY <1>1, <3>1, <4>1
    <3>3. i # 1 => A[i - 1].offset = R[i - 1].offset /\ A[i - 1].size = R[i - 1].size
      BY <3>2
    <3> QED BY <1>2, <3>1, <3>3
  <2> QED BY <1>2, <2>1, <2>2 DEF ShapeKept
<1>4. SizesFollow(req, replacements, A)
  BY DEF SizesFollow
<1>5. TrafsFollow(req, A)
  <2> SUFFICES ASSUME NEW i \in BoxesOf(R, "moof"), NEW t \in DOMAIN R[i].trafs
               PROVE  TrafFollows(req, A, i, t)
    BY DEF TrafsFollow
  <2>1. i \in DOMAIN R
    BY DEF BoxesOf
  <2> DEFINE traf == R[i].trafs[t]
             moved == A[i].trafs[t]
  <2>2. traf.runs \in Seq(Run)
    BY <2>1, TrafIs
  <2>3. R[i].size - A[i].size = 0
    BY <1>2, <2>1
  <2>4. /\ moved.runs = traf.runs /\ moved.base_data_offset = traf.base_data_offset
        /\ moved.default_base_is_moof = traf.default_base_is_moof
    BY <2>1
  <2> HIDE DEF traf, moved
  <2>5. \A at, to \in Int :
          (traf.base_data_offset # None => to = at) => SaysTheSame(traf, moved, at, to, 0)
    BY <2>2, <2>4, UntouchedSaysTheSame
  <2> QED BY <2>2, <2>3, <2>4, <2>5 DEF TrafFollows, traf, moved
<1>6. EntriesFollow(req, A)
  BY DEF EntriesFollow, BoxesOf
<1> QED BY <1>3, <1>4, <1>5, <1>6 DEF IsCopy

(* The boxes as they came, and what a rewrite in place makes of them.      *)
LEMMA InputCopies ==
  ASSUME NEW req \in Requests, NEW replacements
  PROVE  IsCopy(req, replacements, req.root_boxes)
<1> DEFINE R == req.root_boxes
<1>1. R \in Seq(RootBox)
  BY RootBoxes
<1>2. IsRow(R, Len(R))
  <2> HIDE DEF R
  <2> QED BY <1>1 DEF IsRow
<1>3. \A i \in DOMAIN R : HasFields(R[i])
  BY RootBoxes
<1> QED BY <1>2, <1>3, StandingStillCopies

WithoutMetadata(boxes) ==
  [ i \in DOMAIN boxes |->
      [boxes[i] EXCEPT !.shrink = 0,
                       !.trafs = [t \in DOMAIN @ |-> [@[t] EXCEPT !.removed = 0]]] ]

LEMMA RewrittenInPlaceCopies ==
  ASSUME NEW req \in Requests, NEW replacements
  PROVE  IsCopy(req, replacements, WithoutMetadata(req.root_boxes))
<1> DEFINE R == req.root_boxes
           A == WithoutMetadata(R)
           freed(i) == [t \in DOMAIN R[i].trafs |-> [R[i].trafs[t] EXCEPT !.removed = 0]]
<1>1. DOMAIN R = 1..Len(R)
  BY RootBoxes
<1>2. A = [i \in DOMAIN R |-> [R[i] EXCEPT !.shrink = 0, !.trafs = freed(i)]]
  BY DEF WithoutMetadata
<1> HIDE DEF A
<1>3. IsRow(A, Len(R))
  <2>1. DOMAIN A = 1..Len(R)
    BY <1>1, <1>2
  <2>2. A = [k \in 1..Len(R) |-> A[k]]
    BY <1>1, <1>2
  <2> QED BY <2>1, <2>2 DEF IsRow
<1>4. ASSUME NEW i \in DOMAIN R
      PROVE  /\ HasFields(A[i]) /\ A[i].kind = R[i].kind
             /\ A[i].offset = R[i].offset /\ A[i].size = R[i].size
             /\ A[i].entries = R[i].entries /\ A[i].origin = R[i].origin
             /\ A[i].trafs = freed(i)
  <2>1. {"kind", "offset", "size", "trafs", "entries", "origin"} \subseteq DOMAIN R[i]
    BY RootBoxes DEF HasFields
  <2>2. A[i] = [R[i] EXCEPT !.shrink = 0, !.trafs = freed(i)]
    BY <1>2
  <2> HIDE DEF freed, R
  <2> QED BY <2>1, <2>2 DEF HasFields
<1>5. ASSUME NEW i \in DOMAIN R, NEW t \in DOMAIN R[i].trafs
      PROVE  /\ A[i].trafs[t].runs = R[i].trafs[t].runs
             /\ A[i].trafs[t].base_data_offset = R[i].trafs[t].base_data_offset
             /\ A[i].trafs[t].default_base_is_moof = R[i].trafs[t].default_base_is_moof
  <2>1. A[i].trafs[t] = [R[i].trafs[t] EXCEPT !.removed = 0]
    BY <1>4
  <2>2. R[i].trafs[t] \in Traf
    BY TrafIs
  <2> HIDE DEF R
  <2> QED BY <2>1, <2>2 DEF Traf
<1>6. IsCopy(req, replacements, A)
  BY <1>3, <1>4, <1>5, StandingStillCopies
<1> QED BY <1>6 DEF A

-----------------------------------------------------------------------------
(* The boxes the rewrite lays out.                                         *)
RebuiltBoxes == [i \in Roots |-> Rebuilt(i)]

RewriteMade ==
  /\ AreRebuilt(request, moof_replacements)
  /\ ~InPlace(request)
  /\ moov_replacement \in (Nat \ {0}) \cup {None}
  /\ DOMAIN mfra_replacements \subseteq BoxesOf(root, "mfra")
  /\ request.operation = "file" =>
       EntriesPlanned(request, SizesOf(request, moof_replacements, moov_replacement),
                      mfra_replacements)

LEMMA RebuiltIs ==
  ASSUME request \in Requests, RewriteMade, NEW i \in Roots
  PROVE  LET sizes == SizesOf(request, moof_replacements, moov_replacement)
         IN  /\ HasFields(Rebuilt(i)) /\ sizes[i] \in Nat \ {0}
             /\ Rebuilt(i).kind = root[i].kind /\ Rebuilt(i).origin = root[i].origin
             /\ Rebuilt(i).size = sizes[i]
             /\ Rebuilt(i).entries = IF i \in DOMAIN mfra_replacements
                                       THEN mfra_replacements[i] ELSE root[i].entries
             /\ Rebuilt(i).trafs = IF i \in DOMAIN moof_replacements
                                     THEN moof_replacements[i].trafs ELSE root[i].trafs
<1> DEFINE sizes == SizesOf(request, moof_replacements, moov_replacement)
           box == root[i]
<1>1. /\ {"kind", "offset", "size", "trafs", "entries", "origin"} \subseteq DOMAIN box
      /\ box.size \in Nat \ {0} /\ MoofRemoved(box) \in Nat /\ MoofRemoved(box) < box.size
  BY RootBoxes, RemovedIs DEF HasFields, Roots, root
<1>2. sizes[i] = IF box.kind = "moov" /\ moov_replacement # None THEN moov_replacement
                 ELSE IF i \in DOMAIN moof_replacements THEN moof_replacements[i].size
                 ELSE box.size
  BY DEF SizesOf, Roots, root
<1>3. i \in DOMAIN moof_replacements => /\ box.kind = "moof"
                                        /\ moof_replacements[i].size
                                             = box.size - MoofRemoved(box)
  BY DEF RewriteMade, AreRebuilt, RebuiltMoof, BoxesOf, root
<1>4. i \in DOMAIN mfra_replacements => box.kind = "mfra"
  BY DEF RewriteMade, BoxesOf, root
<1>5. moov_replacement # None => moov_replacement \in Nat \ {0}
  BY DEF RewriteMade
<1> HIDE DEF sizes, box
<1>6. sizes[i] \in Nat \ {0}
  BY <1>1, <1>2, <1>3, <1>5
<1>7. Rebuilt(i) =
        IF box.kind = "moov" /\ moov_replacement # None
          THEN [box EXCEPT !.size = moov_replacement, !.shrink = 0]
        ELSE IF i \in DOMAIN mfra_replacements
          THEN [box EXCEPT !.entries = mfra_replacements[i]]
        ELSE IF i \in DOMAIN moof_replacements
          THEN [box EXCEPT !.size = moof_replacements[i].size,
                           !.trafs = moof_replacements[i].trafs]
        ELSE box
  BY DEF Rebuilt, box
<1>8. CASE box.kind = "moov" /\ moov_replacement # None
  <2>1. Rebuilt(i) = [box EXCEPT !.size = moov_replacement, !.shrink = 0]
    BY <1>7, <1>8
  <2>2. i \notin DOMAIN mfra_replacements /\ i \notin DOMAIN moof_replacements
    BY <1>3, <1>4, <1>8
  <2> QED BY <1>1, <1>2, <1>6, <1>8, <2>1, <2>2 DEF HasFields, sizes, box
<1>9. CASE ~(box.kind = "moov" /\ moov_replacement # None) /\ i \in DOMAIN mfra_replacements
  <2>1. Rebuilt(i) = [box EXCEPT !.entries = mfra_replacements[i]]
    BY <1>7, <1>9
  <2>2. i \notin DOMAIN moof_replacements
    BY <1>3, <1>4, <1>9
  <2> QED BY <1>1, <1>2, <1>6, <1>9, <2>1, <2>2 DEF HasFields, sizes, box
<1>10. CASE /\ ~(box.kind = "moov" /\ moov_replacement # None)
            /\ i \notin DOMAIN mfra_replacements /\ i \in DOMAIN moof_replacements
  <2>1. Rebuilt(i) = [box EXCEPT !.size = moof_replacements[i].size,
                                 !.trafs = moof_replacements[i].trafs]
    BY <1>7, <1>10
  <2> QED BY <1>1, <1>2, <1>6, <1>10, <2>1 DEF HasFields, sizes, box
<1>11. CASE /\ ~(box.kind = "moov" /\ moov_replacement # None)
            /\ i \notin DOMAIN mfra_replacements /\ i \notin DOMAIN moof_replacements
  <2>1. Rebuilt(i) = box
    BY <1>7, <1>11
  <2> QED BY <1>1, <1>2, <1>6, <1>11, <2>1 DEF HasFields, sizes, box
<1> QED BY <1>8, <1>9, <1>10, <1>11

LEMMA RebuildCopies ==
  ASSUME request \in Requests, RewriteMade
  PROVE  IsCopy(request, moof_replacements, Relaid(RebuiltBoxes))
<1> DEFINE n == Len(root)
           sizes == SizesOf(request, moof_replacements, moov_replacement)
           W == RebuiltBoxes
           A == Relaid(W)
<1>1. n \in Nat /\ Roots = 1..n /\ DOMAIN root = 1..n /\ Roots = DOMAIN request.root_boxes
  BY RootBoxes DEF Roots, root
<1>2. DOMAIN W = 1..n /\ \A i \in 1..n : W[i] = Rebuilt(i)
  BY <1>1 DEF RebuiltBoxes
<1> HIDE DEF W, sizes
<1>3. ASSUME NEW i \in 1..n
      PROVE  /\ HasFields(W[i]) /\ sizes[i] \in Int
             /\ W[i].kind = root[i].kind /\ W[i].origin = root[i].origin
             /\ W[i].size = sizes[i]
             /\ W[i].entries = IF i \in DOMAIN mfra_replacements
                                 THEN mfra_replacements[i] ELSE root[i].entries
             /\ W[i].trafs = IF i \in DOMAIN moof_replacements
                               THEN moof_replacements[i].trafs ELSE root[i].trafs
  BY <1>1, <1>2, RebuiltIs DEF sizes
<1>4. LaidSizes(W)
  BY <1>2, <1>3 DEF LaidSizes
<1> HIDE DEF n
<1>5. /\ DOMAIN A = 1..n
      /\ A = [i \in 1..n |-> A[i]]
      /\ IsLaid(A)
      /\ \A i \in 1..n : HasFields(A[i]) /\ SameBut(W[i], A[i]) /\ A[i].offset \in Int
  BY <1>1, <1>2, <1>4, RelaidIs
<1> HIDE DEF A
<1>6. ASSUME NEW i \in 1..n
      PROVE  /\ A[i].kind = root[i].kind /\ A[i].origin = root[i].origin
             /\ A[i].size = sizes[i] /\ A[i].size \in Int
             /\ A[i].entries = W[i].entries /\ A[i].trafs = W[i].trafs
  BY <1>3, <1>5 DEF SameBut
<1>7. ShapeKept(request, A)
  <2>1. IsRow(A, Len(root)) /\ LaidSizes(A)
    BY <1>5, <1>6 DEF IsRow, LaidSizes, n
  <2>2. \A i \in 1..n : root[i].origin = i
    BY <1>1, RootBoxes DEF root
  <2> QED BY <1>1, <1>5, <1>6, <2>1, <2>2 DEF ShapeKept, root
<1>8. SizesFollow(request, moof_replacements, A)
  <2> SUFFICES ASSUME NEW i \in 1..n, A[i].size # root[i].size
               PROVE  \/ root[i].kind = "moov"
                      \/ root[i].kind = "moof" /\ i \in DOMAIN moof_replacements
    BY <1>1 DEF SizesFollow, RewriteMade, root
  <2>1. sizes[i] = IF root[i].kind = "moov" /\ moov_replacement # None THEN moov_replacement
                   ELSE IF i \in DOMAIN moof_replacements THEN moof_replacements[i].size
                   ELSE root[i].size
    BY <1>1 DEF sizes, SizesOf, root
  <2>2. i \in DOMAIN moof_replacements => root[i].kind = "moof"
    BY DEF RewriteMade, AreRebuilt, BoxesOf, root
  <2> QED BY <1>6, <2>1, <2>2
<1>9. TrafsFollow(request, A)
  <2> SUFFICES ASSUME NEW i \in BoxesOf(root, "moof"), NEW t \in DOMAIN root[i].trafs
               PROVE  TrafFollows(request, A, i, t)
    BY DEF TrafsFollow, root
  <2> DEFINE traf == root[i].trafs[t]
             moved == A[i].trafs[t]
             lost == root[i].size - A[i].size
  <2>1. i \in 1..n /\ root[i].kind = "moof" /\ root[i].size \in Nat
        /\ MoofRemoved(root[i]) \in Nat
    BY <1>1, RootBoxes, RemovedIs DEF BoxesOf, root
  <2>2. traf \in Traf /\ traf.runs \in Seq(Run)
    BY <1>1, <2>1, TrafIs DEF root
  <2>3. A[i].trafs = W[i].trafs /\ A[i].size = sizes[i]
    BY <1>6, <2>1
  <2>4. sizes[i] = IF i \in DOMAIN moof_replacements THEN moof_replacements[i].size
                   ELSE root[i].size
    BY <1>1, <2>1 DEF sizes, SizesOf, root
  <2> SUFFICES /\ moved.runs \in Seq(Run)
               /\ \A at, to \in Int : (traf.base_data_offset # None => to = at) =>
                    SaysTheSame(traf, moved, at, to, lost)
    BY DEF TrafFollows, root
  <2>5. CASE i \notin DOMAIN moof_replacements
    <3>1. moved = traf /\ lost = 0
      BY <1>3, <2>1, <2>3, <2>4, <2>5
    <3> HIDE DEF moved, traf, lost
    <3>2. \A at, to \in Int :
            (traf.base_data_offset # None => to = at) => SaysTheSame(traf, traf, at, to, 0)
      BY <2>2, UntouchedSaysTheSame
    <3> QED BY <2>2, <3>1, <3>2
  <2>6. CASE i \in DOMAIN moof_replacements
    <3>1. ~PatchBlocked(root[i]) /\ moof_replacements[i] = RebuiltMoof(root[i])
      BY <2>6 DEF RewriteMade, AreRebuilt, root
    <3>2. moved = RebuiltTraf(root[i], traf)
      BY <1>3, <2>1, <2>3, <2>6, <3>1 DEF RebuiltMoof
    <3>3. lost = MoofRemoved(root[i])
      BY <2>1, <2>3, <2>4, <2>6, <3>1 DEF RebuiltMoof
    <3>4. /\ traf.base_data_offset = None
          /\ \A r \in DOMAIN traf.runs : traf.runs[r].data_offset # None
      BY <3>1 DEF PatchBlocked
    <3>5. {"runs", "base_data_offset", "default_base_is_moof"} \subseteq DOMAIN traf
      BY <2>2 DEF Traf
    <3> HIDE DEF moved, traf, lost
    <3>6. \A at, to \in Int :
            /\ RebuiltTraf(root[i], traf).runs \in Seq(Run)
            /\ SaysTheSame(traf, RebuiltTraf(root[i], traf), at, to, MoofRemoved(root[i]))
      BY <2>1, <2>2, <3>4, <3>5, RebuiltSaysTheSame
    <3>7. moved.runs \in Seq(Run)
      <4>1. 0 \in Int
        OBVIOUS
      <4> QED BY <3>2, <3>6, <4>1
    <3> QED BY <3>2, <3>3, <3>6, <3>7
  <2> QED BY <2>5, <2>6
<1>10. EntriesFollow(request, A)
  <2> SUFFICES ASSUME request.operation = "file", NEW i \in BoxesOf(root, "mfra"),
                      NEW e \in DOMAIN root[i].entries, NEW j \in 1..n,
                      root[i].entries[e] = root[j].offset
               PROVE  A[i].entries[e] = A[j].offset
    BY <1>1 DEF EntriesFollow, root
  <2>1. i \in 1..n
    BY <1>1 DEF BoxesOf
  <2>2. A[i].entries[e] = SumTo(sizes, j - 1)
    <3>1. EntriesPlanned(request, sizes, mfra_replacements)
      BY DEF RewriteMade, sizes
    <3>2. (IF i \in DOMAIN mfra_replacements THEN mfra_replacements[i][e]
           ELSE root[i].entries[e]) = SumTo(sizes, j - 1)
      BY <1>1, <3>1 DEF EntriesPlanned, root
    <3> QED BY <1>3, <1>6, <2>1, <3>2
  <2>3. \A k \in 1..n : sizes[k] = A[k].size
    BY <1>6
  <2>4. LaidSizes(A)
    BY <1>7 DEF ShapeKept
  <2>5. A[j].offset = SumTo(sizes, j - 1)
    <3>1. DOMAIN A = 1..n /\ IsLaid(A)
      BY <1>5
    <3>2. \A k \in 1..n : A[k].offset = SumTo(sizes, k - 1)
      BY <1>1, <2>3, <2>4, <3>1, LaidAtSum
    <3> QED BY <3>2
  <2> QED BY <2>2, <2>5
<1> QED BY <1>7, <1>8, <1>9, <1>10 DEF IsCopy, A, W

-----------------------------------------------------------------------------
(* The inductive invariant.  Of a moof that loses metadata and is behind   *)
(* the loop, a patched replacement is at hand.                             *)
LossyPatched(req, n) ==
  \A k \in BoxesOf(req.root_boxes, "moof") :
    k < n /\ MoofRemoved(req.root_boxes[k]) # 0 => ~PatchBlocked(req.root_boxes[k])

Before == {"samples", "moofs", "in_place", "mfra", "root", "plan_sidx"}

PlansInv ==
  /\ AreRebuilt(request, moof_replacements)
  /\ moov_replacement \in (Nat \ {0}) \cup {None}
  /\ DOMAIN mfra_replacements \subseteq BoxesOf(root, "mfra")
  /\ pc \in {"samples", "moofs"} => next_root \in Nat \ {0} /\ LossyPatched(request, next_root)
  /\ pc \in {"mfra", "root"} => ~InPlace(request)
  /\ pc = "root" /\ request.operation = "file" =>
       EntriesPlanned(request, SizesOf(request, moof_replacements, moov_replacement),
                      mfra_replacements)

BytesInv ==
  /\ pc \in Before => plan = << >>
  /\ pc \in {"plan_sidx", "apply_sidx"} => IsCopy(request, moof_replacements, bytes)
  /\ pc = "apply_sidx" => PlanFits(plan, bytes)
  /\ pc = "done" => \E A : IsOutput(A)

IInv ==
  /\ request \in Requests
  /\ pc \in Before \cup {"apply_sidx", "done", "failed"}
  /\ PlansInv /\ BytesInv

LEMMA InitIInv == Init => IInv
<1> SUFFICES ASSUME Init PROVE IInv
  OBVIOUS
<1>1. /\ request \in Requests /\ next_root = 1 /\ moof_replacements = << >>
      /\ moov_replacement = None /\ mfra_replacements = << >>
      /\ bytes = request.root_boxes /\ plan = << >> /\ pc \in {"samples", "plan_sidx"}
  BY DEF Init
<1>2. DOMAIN << >> = {}
  OBVIOUS
<1>3. AreRebuilt(request, moof_replacements)
  BY <1>1, <1>2 DEF AreRebuilt
<1>4. LossyPatched(request, 1)
  <2>1. \A k \in BoxesOf(request.root_boxes, "moof") : ~(k < 1)
    BY <1>1, RootBoxes DEF BoxesOf
  <2> QED BY <2>1 DEF LossyPatched
<1>5. PlansInv
  BY <1>1, <1>2, <1>3, <1>4 DEF PlansInv
<1>6. IsCopy(request, moof_replacements, bytes)
  BY <1>1, InputCopies
<1> QED BY <1>1, <1>5, <1>6 DEF IInv, BytesInv, Before

(* What is planned is made before the bytes are.                           *)
LEMMA PlanningKeeps ==
  ASSUME IInv, DecryptSamples \/ ReplaceMoof \/ RebuildMoov \/ ReplaceMfra
  PROVE  IInv'
<1>1. /\ request' = request /\ request \in Requests /\ root' = root /\ bytes' = bytes
      /\ plan' = plan /\ plan = << >>
      /\ pc \in {"samples", "moofs", "mfra"}
      /\ pc' \in {"samples", "moofs", "in_place", "mfra", "root", "failed"}
  BY DEF IInv, BytesInv, Before, DecryptSamples, ReplaceMoof, RebuildMoov, ReplaceMfra, Fail,
     root
<1>2. BytesInv'
  BY <1>1 DEF BytesInv, Before
<1>3. PlansInv
  BY DEF IInv
<1>4. CASE DecryptSamples
  <2>1. UNCHANGED << next_root, planVars >> /\ pc = "samples" /\ pc' \in {"moofs", "failed"}
    BY <1>4 DEF DecryptSamples, Fail
  <2>2. PlansInv'
    BY <1>1, <1>3, <2>1 DEF PlansInv, planVars
  <2> QED BY <1>1, <1>2, <2>2 DEF IInv, Before
<1>5. CASE ReplaceMoof
  <2> DEFINE box == root[next_root]
             loses == box.kind = "moof" /\ MoofRemoved(box) # 0
  <2>1. /\ pc = "moofs" /\ next_root \in Roots /\ next_root \in Nat
        /\ LossyPatched(request, next_root)
        /\ UNCHANGED << moov_replacement, mfra_replacements >>
    BY <1>3, <1>5 DEF ReplaceMoof, PlansInv
  <2>2. CASE loses /\ PatchBlocked(box)
    <3>1. pc' = "in_place" /\ UNCHANGED << next_root, moof_replacements >>
      BY <1>5, <2>2 DEF ReplaceMoof
    <3>2. PlansInv'
      BY <1>1, <1>3, <2>1, <3>1 DEF PlansInv
    <3> QED BY <1>1, <1>2, <3>2 DEF IInv, Before
  <2>3. CASE ~(loses /\ PatchBlocked(box))
    <3>1. /\ moof_replacements' = IF loses THEN Including(moof_replacements, next_root,
                                                          RebuiltMoof(box))
                                           ELSE moof_replacements
          /\ next_root' = next_root + 1 /\ pc' = "moofs"
      BY <1>5, <2>1, <2>3 DEF ReplaceMoof
    <3>2. LossyPatched(request, next_root + 1)
      <4> SUFFICES ASSUME NEW k \in BoxesOf(root, "moof"), k < next_root + 1,
                          MoofRemoved(root[k]) # 0
                   PROVE  ~PatchBlocked(root[k])
        BY DEF LossyPatched, root
      <4>1. k \in Nat /\ root[k].kind = "moof"
        BY <1>1, RootBoxes DEF BoxesOf, root
      <4>2. CASE k = next_root
        BY <2>3, <4>1, <4>2
      <4>3. CASE k < next_root
        BY <2>1, <4>3 DEF LossyPatched, root
      <4> QED BY <2>1, <4>1, <4>2, <4>3
    <3>3. AreRebuilt(request, moof_replacements')
      <4>1. CASE loses
        <5> DEFINE m == moof_replacements
                   i == next_root
                   new == RebuiltMoof(box)
        <5>1. moof_replacements' = [k \in DOMAIN m \cup {i} |-> IF k = i THEN new ELSE m[k]]
          BY <3>1, <4>1 DEF Including
        <5>2. i \in BoxesOf(root, "moof") /\ ~PatchBlocked(root[i]) /\ new = RebuiltMoof(root[i])
          BY <2>1, <2>3, <4>1 DEF BoxesOf, Roots
        <5>3. AreRebuilt(request, m)
          BY <1>3 DEF PlansInv
        <5> HIDE DEF m, i, new
        <5>4. ASSUME NEW k \in DOMAIN moof_replacements'
              PROVE  /\ k \in BoxesOf(root, "moof") /\ ~PatchBlocked(root[k])
                     /\ moof_replacements'[k] = RebuiltMoof(root[k])
          <6>1. CASE k = i
            BY <5>1, <5>2, <6>1
          <6>2. CASE k # i
            <7>1. k \in DOMAIN m /\ moof_replacements'[k] = m[k]
              BY <5>1, <6>2
            <7> QED BY <5>3, <7>1 DEF AreRebuilt, root
          <6> QED BY <6>1, <6>2
        <5> QED BY <5>4 DEF AreRebuilt, root
      <4>2. CASE ~loses
        BY <1>3, <3>1, <4>2 DEF PlansInv
      <4> QED BY <4>1, <4>2
    <3>4. PlansInv'
      <4>1. next_root' \in Nat \ {0}
        BY <2>1, <3>1
      <4> QED BY <1>1, <1>3, <2>1, <3>1, <3>2, <3>3, <4>1 DEF PlansInv
    <3> QED BY <1>1, <1>2, <3>4 DEF IInv, Before
  <2> QED BY <2>2, <2>3
<1>6. CASE RebuildMoov
  <2>1. /\ pc = "moofs" /\ next_root \notin Roots /\ next_root \in Nat \ {0}
        /\ LossyPatched(request, next_root)
        /\ UNCHANGED << moof_replacements, mfra_replacements >>
        /\ pc' \in {"mfra", "root"}
        /\ request.operation = "file" => pc' = "mfra"
    BY <1>3, <1>6 DEF RebuildMoov, PlansInv
  <2>2. ~InPlace(request)
    <3> SUFFICES ASSUME NEW k \in BoxesOf(root, "moof"), MoofRemoved(root[k]) # 0
                 PROVE  ~PatchBlocked(root[k])
      BY DEF InPlace, root
    <3>1. CASE k < next_root
      BY <2>1, <3>1 DEF LossyPatched, root
    <3>2. CASE ~(k < next_root)
      <4>1. /\ Roots = 1..Len(root) /\ Len(root) \in Nat /\ k \in Roots
        BY <1>1, RootBoxes DEF BoxesOf, Roots, root
      <4> QED BY <2>1, <3>2, <4>1
    <3> QED BY <3>1, <3>2
  <2>3. moov_replacement' \in (Nat \ {0}) \cup {None}
    <3>1. CASE moov_replacement' = moov_replacement
      BY <1>3, <3>1 DEF PlansInv
    <3>2. CASE \E i \in BoxesOf(root, "moov") : moov_replacement' = root[i].size - root[i].shrink
      <4>1. PICK i \in BoxesOf(root, "moov") :
              moov_replacement' = root[i].size - root[i].shrink
        BY <3>2
      <4>2. root[i].size \in Nat /\ root[i].shrink \in Nat /\ root[i].shrink < root[i].size
        BY <1>1, RootBoxes DEF BoxesOf, root
      <4> QED BY <4>1, <4>2
    <3> QED BY <1>6, <3>1, <3>2 DEF RebuildMoov
  <2>4. PlansInv'
    BY <1>1, <1>3, <2>1, <2>2, <2>3 DEF PlansInv
  <2> QED BY <1>1, <1>2, <2>4 DEF IInv, Before
<1>7. CASE ReplaceMfra
  <2> DEFINE sizes == SizesOf(request, moof_replacements, moov_replacement)
             entries == [i \in Roots |-> PatchedEntries(i)]
  <2>1. /\ pc = "mfra" /\ pc' = "root" /\ ~InPlace(request)
        /\ UNCHANGED << moof_replacements, moov_replacement >>
        /\ rewritten_offsets' = IF BoxesOf(root, "mfra") = {} THEN << >> ELSE PlannedOffsets
        /\ mfra_replacements' = [ i \in { j \in BoxesOf(root, "mfra") :
                                            PatchedEntries(j) # root[j].entries } |->
                                    PatchedEntries(i) ]
    BY <1>3, <1>7 DEF ReplaceMfra, PlansInv
  <2>2. DOMAIN mfra_replacements' \subseteq BoxesOf(root, "mfra")
    BY <2>1
  <2>3. PlannedOffsets =
          [ o \in { root[i].offset : i \in Roots } |->
              SumTo(sizes, (CHOOSE i \in Roots : root[i].offset = o) - 1) ]
    <3>1. sizes = [i \in Roots |-> SizeOf(i)]
      BY DEF SizesOf, SizeOf, Roots, root
    <3> HIDE DEF sizes
    <3> QED BY <3>1 DEF PlannedOffsets
  <2> HIDE DEF sizes
  <2>4. ASSUME NEW i \in BoxesOf(root, "mfra"), NEW e \in DOMAIN root[i].entries,
               NEW j \in Roots, root[i].entries[e] = root[j].offset
        PROVE  (IF i \in DOMAIN mfra_replacements' THEN mfra_replacements'[i][e]
                ELSE root[i].entries[e]) = SumTo(sizes, j - 1)
    <3> DEFINE o == root[j].offset
    <3>1. o \in { root[k].offset : k \in Roots }
      OBVIOUS
    <3>2. (CHOOSE k \in Roots : root[k].offset = o) = j
      <4>1. \A k \in Roots : root[k].offset = o => k = j
        BY <1>1, OffsetsDiffer DEF Roots, root
      <4> QED BY <4>1
    <3>3. o \in DOMAIN PlannedOffsets /\ PlannedOffsets[o] = SumTo(sizes, j - 1)
      <4> HIDE DEF o
      <4> QED BY <2>3, <3>1, <3>2
    <3>4. rewritten_offsets' = PlannedOffsets
      BY <2>1
    <3>5. PatchedEntries(i)[e] = SumTo(sizes, j - 1)
      <4>1. PatchedEntries(i)[e] = IF root[i].entries[e] \in DOMAIN rewritten_offsets'
                                     THEN rewritten_offsets'[root[i].entries[e]]
                                     ELSE root[i].entries[e]
        BY DEF PatchedEntries
      <4> QED BY <2>4, <3>3, <3>4, <4>1
    <3>6. CASE PatchedEntries(i) # root[i].entries
      <4>1. i \in DOMAIN mfra_replacements' /\ mfra_replacements'[i] = PatchedEntries(i)
        BY <2>1, <3>6
      <4> QED BY <3>5, <4>1
    <3>7. CASE PatchedEntries(i) = root[i].entries
      <4>1. i \notin DOMAIN mfra_replacements'
        BY <2>1, <3>7
      <4> QED BY <3>5, <3>7, <4>1
    <3> QED BY <3>6, <3>7
  <2>5. EntriesPlanned(request, sizes, mfra_replacements')
    BY <2>4 DEF EntriesPlanned, root, Roots
  <2>6. PlansInv'
    BY <1>1, <1>3, <2>1, <2>2, <2>5 DEF PlansInv, sizes
  <2> QED BY <1>1, <1>2, <2>6 DEF IInv, Before
<1> QED BY <1>4, <1>5, <1>6, <1>7

(* The bytes come from what was planned.                                   *)
LEMMA BytesKeep ==
  ASSUME IInv, RebuildRoot \/ RewriteInPlace \/ PlanSidx \/ ApplySidx
  PROVE  IInv'
<1>1. /\ request' = request /\ request \in Requests /\ root' = root
      /\ UNCHANGED planVars
      /\ pc' \in {"plan_sidx", "apply_sidx", "done", "failed"}
  BY DEF IInv, RebuildRoot, RewriteInPlace, PlanSidx, ApplySidx, AfterRewrite, Fail, root
<1>2. PlansInv'
  BY <1>1 DEF IInv, PlansInv, planVars
<1> SUFFICES BytesInv'
  BY <1>1, <1>2 DEF IInv, Before
<1>3. moof_replacements' = moof_replacements
  BY <1>1 DEF planVars
<1>4. CASE RebuildRoot \/ RewriteInPlace
  <2>1. plan' = << >> /\ pc' \in {"plan_sidx", "done"}
    BY <1>4 DEF RebuildRoot, RewriteInPlace, AfterRewrite, IInv, BytesInv, Before
  <2>2. IsCopy(request, moof_replacements, bytes')
    <3>1. CASE RebuildRoot
      <4>1. RewriteMade
        BY <3>1 DEF RebuildRoot, IInv, PlansInv, RewriteMade
      <4>2. bytes' = Relaid(RebuiltBoxes)
        BY <3>1 DEF RebuildRoot, RebuiltBoxes
      <4> QED BY <1>1, <4>1, <4>2, RebuildCopies
    <3>2. CASE RewriteInPlace
      <4>1. bytes' = WithoutMetadata(request.root_boxes)
        BY <3>2 DEF RewriteInPlace, WithoutMetadata, Roots, root
      <4> QED BY <1>1, <4>1, RewrittenInPlaceCopies
    <3> QED BY <1>4, <3>1, <3>2
  <2>3. PICK A : A = bytes'
    OBVIOUS
  <2>4. IsOutput(A)'
    BY <1>1, <1>3, <2>1, <2>2, <2>3 DEF IsOutput
  <2> QED BY <1>1, <1>3, <2>1, <2>2, <2>4 DEF BytesInv, Before
<1>5. CASE PlanSidx
  <2>1. /\ pc = "plan_sidx" /\ plan = << >> /\ bytes' = bytes
        /\ IsCopy(request, moof_replacements, bytes)
    BY <1>5 DEF PlanSidx, IInv, BytesInv, Before
  <2>2. CASE pc' = "failed"
    BY <2>2 DEF BytesInv, Before
  <2>3. CASE pc' = "done" /\ plan' = plan
    <3>1. PICK A : A = bytes
      OBVIOUS
    <3>2. IsOutput(A)'
      BY <1>1, <1>3, <2>1, <2>3, <3>1 DEF IsOutput
    <3> QED BY <2>3, <3>2 DEF BytesInv, Before
  <2>4. CASE /\ pc' = "apply_sidx" /\ PlanError(bytes) = "None"
             /\ plan' \in { Plan(bytes, request.options),
                            VersionKept(bytes, Plan(bytes, request.options)) }
    <3> DEFINE n == Len(root)
    <3>1. /\ n \in Nat /\ DOMAIN bytes = 1..n /\ bytes = [k \in 1..n |-> bytes[k]]
          /\ \A k \in 1..n : bytes[k].size \in Int
      BY <1>1, <2>1, RootBoxes DEF IsCopy, ShapeKept, IsRow, LaidSizes, root
    <3> HIDE DEF n
    <3>2. Len(bytes) = n
      <4> DEFINE S == { bytes[k] : k \in 1..n }
      <4>1. \A k \in 1..n : bytes[k] \in S
        OBVIOUS
      <4> HIDE DEF S
      <4>2. bytes \in [1..n -> S]
        BY <3>1, <4>1
      <4> QED BY <3>1, <4>2
    <3>3. /\ PlanFits(Plan(bytes, request.options), bytes)
          /\ PlanFits(VersionKept(bytes, Plan(bytes, request.options)), bytes)
      BY <2>4, <3>1, <3>2, PlanIs
    <3>4. PlanFits(plan', bytes')
      BY <2>1, <2>4, <3>3
    <3> QED BY <1>1, <1>3, <2>1, <2>4, <3>4 DEF BytesInv, Before
  <2> QED BY <1>5, <2>2, <2>3, <2>4 DEF PlanSidx, Fail
<1>6. CASE ApplySidx
  <2>1. /\ pc' = "done" /\ plan' = plan /\ bytes' = Applied(bytes, plan)
        /\ PlanFits(plan, bytes) /\ IsCopy(request, moof_replacements, bytes)
    BY <1>6 DEF ApplySidx, IInv, BytesInv
  <2>2. PICK A : A = bytes
    OBVIOUS
  <2>3. IsOutput(A)'
    BY <1>1, <1>3, <2>1, <2>2 DEF IsOutput
  <2> QED BY <2>1, <2>3 DEF BytesInv, Before
<1> QED BY <1>4, <1>5, <1>6

LEMMA NextKeeps == IInv /\ [Next]_vars => IInv'
<1> SUFFICES ASSUME IInv, [Next]_vars PROVE IInv'
  OBVIOUS
<1>1. CASE UNCHANGED vars
  <2>1. /\ request' = request /\ pc' = pc /\ plan' = plan /\ bytes' = bytes
        /\ moof_replacements' = moof_replacements /\ moov_replacement' = moov_replacement
        /\ mfra_replacements' = mfra_replacements /\ next_root' = next_root
        /\ root' = root
    BY <1>1 DEF vars, planVars, root
  <2>2. PlansInv'
    BY <2>1 DEF IInv, PlansInv
  <2>3. BytesInv'
    <3>1. \A A : IsOutput(A) => IsOutput(A)'
      BY <2>1 DEF IsOutput
    <3> QED BY <2>1, <3>1 DEF IInv, BytesInv
  <2> QED BY <2>1, <2>2, <2>3 DEF IInv
<1>2. CASE Malformed
  <2>1. /\ request' = request /\ pc' = "failed" /\ UNCHANGED planVars /\ root' = root
    BY <1>2 DEF Malformed, Fail, root
  <2>2. PlansInv'
    BY <2>1 DEF IInv, PlansInv, planVars
  <2>3. BytesInv'
    BY <2>1 DEF BytesInv, Before
  <2> QED BY <2>1, <2>2, <2>3 DEF IInv
<1>3. CASE Advance
  BY <1>3, PlanningKeeps, BytesKeep DEF Advance
<1> QED BY <1>1, <1>2, <1>3 DEF Next, Returned

(* What is returned is the rewrite, with its sidx refreshed.               *)
LEMMA OutputIs == Spec => []IInv
<1>1. Init => IInv
  BY InitIInv
<1>2. IInv /\ [Next]_vars => IInv'
  BY NextKeeps
<1> QED BY <1>1, <1>2, PTL DEF Spec

(* For all requests, an mfra entry that named a root box of a file names it*)
(* still, unless the sidx has another size than it had                     *)
(* (build_patched_mfra_payload_with_relative_offsets in decrypt.rs).       *)
THEOREM EntriesAlwaysNameTheirBoxes == Spec => []RandomAccessSurvives
<1>1. IInv => RandomAccessSurvives
  <2> SUFFICES ASSUME IInv, pc = "done" PROVE RandomAccessSurvives
    BY DEF RandomAccessSurvives, Returns
  <2>1. PICK A : IsOutput(A)
    BY DEF IInv, BytesInv
  <2> QED BY <2>1, EntriesLand DEF IInv
<1> QED BY <1>1, OutputIs, PTL

(* And every fragment finds its samples, in a file that was rebuilt, one   *)
(* that was rewritten in place, and one whose sidx was only refreshed.     *)
THEOREM FragmentsAlwaysFindSamples == Spec => []FragmentsFindSamples
<1>1. IInv => FragmentsFindSamples
  <2> SUFFICES ASSUME IInv, pc = "done" PROVE FragmentsFindSamples
    BY DEF FragmentsFindSamples, Returns
  <2>1. PICK A : IsOutput(A)
    BY DEF IInv, BytesInv
  <2> QED BY <2>1, FragmentsLand DEF IInv
<1> QED BY <1>1, OutputIs, PTL

-----------------------------------------------------------------------------
(* What the refresh reads of a box besides, and no rewrite touches.        *)
FieldsKept(box, copied) ==
  /\ copied.size \in Nat \ {0}
  /\ box.kind = "moov" => /\ {"mvex", "tracks", "extended"} \subseteq DOMAIN copied
                          /\ copied.mvex = box.mvex /\ copied.tracks = box.tracks
                          /\ copied.extended = box.extended
  /\ box.kind = "sidx" => /\ "first_offset" \in DOMAIN copied
                          /\ copied.chained = box.chained /\ copied.entries = box.entries
                          /\ copied.first_offset = box.first_offset
  /\ box.kind = "moof" =>
       /\ DOMAIN copied.trafs = DOMAIN box.trafs /\ Len(copied.trafs) = Len(box.trafs)
       /\ \A t \in DOMAIN box.trafs : /\ copied.trafs[t].track = box.trafs[t].track
                                      /\ copied.trafs[t].tfdt = box.trafs[t].tfdt
                                      /\ copied.trafs[t].duration = box.trafs[t].duration

KeepsFields(req, A) ==
  \A i \in DOMAIN req.root_boxes : FieldsKept(req.root_boxes[i], A[i])

LEMMA FieldsAre ==
  ASSUME NEW box \in RootBox
  PROVE  /\ box.kind = "moov" => {"mvex", "tracks", "extended"} \subseteq DOMAIN box
         /\ box.kind = "sidx" => {"chained", "first_offset"} \subseteq DOMAIN box
<1>1. CASE box \in PlainBox
  BY <1>1 DEF PlainBox
<1>2. CASE box \in MoovBox
  <2>1. /\ box.kind = "moov"
        /\ DOMAIN box = { "kind", "offset", "size", "header_size", "shrink", "trafs",
                          "entries", "origin", "mvex", "tracks", "extended" }
    BY <1>2 DEF MoovBox
  <2> QED BY <2>1
<1>3. CASE box \in SidxBox
  <2>1. /\ box.kind = "sidx"
        /\ DOMAIN box = { "kind", "offset", "size", "header_size", "shrink", "trafs",
                          "entries", "origin", "version", "first_offset", "chained",
                          "earliest", "durations" }
    BY <1>3 DEF SidxBox
  <2> QED BY <2>1
<1> QED BY <1>1, <1>2, <1>3 DEF RootBox

(* A box that is laid out keeps every field but its offset.                *)
LEMMA RelaidKeeps ==
  ASSUME NEW W, NEW i \in DOMAIN W
  PROVE  /\ DOMAIN Relaid(W)[i] = DOMAIN W[i]
         /\ \A field \in DOMAIN W[i] : field # "offset" => Relaid(W)[i][field] = W[i][field]
<1>1. \E f : Relaid(W) = [k \in DOMAIN W |-> [W[k] EXCEPT !.offset = f[k]]]
  BY DEF Relaid
<1>2. PICK f : Relaid(W) = [k \in DOMAIN W |-> [W[k] EXCEPT !.offset = f[k]]]
  BY <1>1
<1>3. Relaid(W)[i] = [W[i] EXCEPT !.offset = f[i]]
  BY <1>2
<1> QED BY <1>3

LEMMA InputKeepsFields ==
  ASSUME NEW req \in Requests
  PROVE  KeepsFields(req, req.root_boxes)
BY RootBoxes, FieldsAre DEF KeepsFields, FieldsKept

LEMMA InPlaceKeepsFields ==
  ASSUME NEW req \in Requests
  PROVE  KeepsFields(req, WithoutMetadata(req.root_boxes))
<1> DEFINE R == req.root_boxes
<1> SUFFICES ASSUME NEW i \in DOMAIN R
             PROVE  FieldsKept(R[i], WithoutMetadata(R)[i])
  BY DEF KeepsFields
<1> DEFINE box == R[i]
           freed == [t \in DOMAIN box.trafs |-> [box.trafs[t] EXCEPT !.removed = 0]]
           copied == [box EXCEPT !.shrink = 0, !.trafs = freed]
<1>1. WithoutMetadata(R)[i] = copied
  BY DEF WithoutMetadata
<1>2. HasFields(box) /\ box \in RootBox /\ box.size \in Nat \ {0}
      /\ box.trafs \in Seq(Traf)
  BY RootBoxes
<1>3. \A t \in DOMAIN box.trafs : box.trafs[t] \in Traf
  BY TrafIs
<1> HIDE DEF box
<1>4. /\ box.kind = "moov" => {"mvex", "tracks", "extended"} \subseteq DOMAIN box
      /\ box.kind = "sidx" => {"chained", "first_offset"} \subseteq DOMAIN box
  BY <1>2, FieldsAre
<1>5. \A t \in DOMAIN box.trafs : /\ freed[t].track = box.trafs[t].track
                                  /\ freed[t].tfdt = box.trafs[t].tfdt
                                  /\ freed[t].duration = box.trafs[t].duration
  BY <1>3 DEF Traf
<1>6. DOMAIN freed = DOMAIN box.trafs /\ Len(freed) = Len(box.trafs)
  <2>1. Len(box.trafs) \in Nat /\ DOMAIN box.trafs = 1..Len(box.trafs)
    BY <1>2
  <2>2. DOMAIN freed = DOMAIN box.trafs /\ freed = [t \in DOMAIN box.trafs |-> freed[t]]
    OBVIOUS
  <2>3. freed = [t \in 1..Len(box.trafs) |-> freed[t]]
    BY <2>1, <2>2
  <2> HIDE DEF freed
  <2> QED BY <2>1, <2>2, <2>3, LenIs
<1> HIDE DEF freed
<1>7. /\ copied.trafs = freed /\ copied.entries = box.entries /\ copied.size = box.size
      /\ DOMAIN copied = DOMAIN box
  BY <1>2 DEF HasFields
<1>8. box.kind = "moov" => /\ copied.mvex = box.mvex /\ copied.tracks = box.tracks
                           /\ copied.extended = box.extended
  BY <1>4
<1>9. box.kind = "sidx" => /\ copied.chained = box.chained
                           /\ copied.first_offset = box.first_offset
  BY <1>4
<1> HIDE DEF copied
<1>10. FieldsKept(box, copied)
  BY <1>2, <1>4, <1>5, <1>6, <1>7, <1>8, <1>9 DEF FieldsKept
<1> QED BY <1>1, <1>10 DEF box

LEMMA RebuildKeepsFields ==
  ASSUME request \in Requests, RewriteMade
  PROVE  KeepsFields(request, Relaid(RebuiltBoxes))
<1> DEFINE W == RebuiltBoxes
<1> SUFFICES ASSUME NEW i \in Roots
             PROVE  FieldsKept(root[i], Relaid(W)[i])
  BY DEF KeepsFields, Roots, root
<1> DEFINE box == root[i]
           copied == Relaid(W)[i]
<1>1. i \in DOMAIN W /\ W[i] = Rebuilt(i)
  BY DEF RebuiltBoxes
<1>2. /\ DOMAIN copied = DOMAIN Rebuilt(i)
      /\ \A field \in DOMAIN Rebuilt(i) : field # "offset" => copied[field] = Rebuilt(i)[field]
  <2> HIDE DEF W
  <2> QED BY <1>1, RelaidKeeps
<1>3. HasFields(box) /\ box \in RootBox /\ box.trafs \in Seq(Traf)
  BY RootBoxes DEF root, Roots
<1>4. /\ box.kind = "moov" => {"mvex", "tracks", "extended"} \subseteq DOMAIN box
      /\ box.kind = "sidx" => {"chained", "first_offset"} \subseteq DOMAIN box
  BY <1>3, FieldsAre
<1>5. /\ HasFields(Rebuilt(i)) /\ Rebuilt(i).size \in Nat \ {0}
      /\ Rebuilt(i).entries = IF i \in DOMAIN mfra_replacements
                                THEN mfra_replacements[i] ELSE root[i].entries
      /\ Rebuilt(i).trafs = IF i \in DOMAIN moof_replacements
                              THEN moof_replacements[i].trafs ELSE root[i].trafs
  BY RebuiltIs
<1>6. i \in DOMAIN mfra_replacements => box.kind = "mfra"
  BY DEF RewriteMade, BoxesOf, root
<1>7. i \in DOMAIN moof_replacements => box.kind = "moof"
                                        /\ moof_replacements[i] = RebuiltMoof(box)
  BY DEF RewriteMade, AreRebuilt, BoxesOf, root
<1>8. Rebuilt(i) =
        IF box.kind = "moov" /\ moov_replacement # None
          THEN [box EXCEPT !.size = moov_replacement, !.shrink = 0]
        ELSE IF i \in DOMAIN mfra_replacements
          THEN [box EXCEPT !.entries = mfra_replacements[i]]
        ELSE IF i \in DOMAIN moof_replacements
          THEN [box EXCEPT !.size = moof_replacements[i].size,
                           !.trafs = moof_replacements[i].trafs]
        ELSE box
  BY DEF Rebuilt
<1>9. \A t \in DOMAIN box.trafs : box.trafs[t] \in Traf
  BY TrafIs DEF root, Roots
<1> HIDE DEF W, box, copied
<1>10. ASSUME box.kind = "moov"
       PROVE  /\ {"mvex", "tracks", "extended"} \subseteq DOMAIN copied
              /\ copied.mvex = box.mvex /\ copied.tracks = box.tracks
              /\ copied.extended = box.extended
  <2>1. \/ Rebuilt(i) = [box EXCEPT !.size = moov_replacement, !.shrink = 0]
        \/ Rebuilt(i) = box
    BY <1>6, <1>7, <1>8, <1>10
  <2>2. /\ {"mvex", "tracks", "extended"} \subseteq DOMAIN Rebuilt(i)
        /\ Rebuilt(i).mvex = box.mvex /\ Rebuilt(i).tracks = box.tracks
        /\ Rebuilt(i).extended = box.extended
    BY <1>4, <1>10, <2>1
  <2> QED BY <1>2, <2>2
<1>11. ASSUME box.kind = "sidx"
       PROVE  /\ "first_offset" \in DOMAIN copied
              /\ copied.chained = box.chained /\ copied.entries = box.entries
              /\ copied.first_offset = box.first_offset
  <2>1. Rebuilt(i) = box
    BY <1>6, <1>7, <1>8, <1>11
  <2>2. {"chained", "first_offset", "entries"} \subseteq DOMAIN box
    BY <1>3, <1>4, <1>11 DEF HasFields
  <2> QED BY <1>2, <2>1, <2>2
<1>12. ASSUME box.kind = "moof"
       PROVE  /\ DOMAIN copied.trafs = DOMAIN box.trafs /\ Len(copied.trafs) = Len(box.trafs)
              /\ \A t \in DOMAIN box.trafs :
                   /\ copied.trafs[t].track = box.trafs[t].track
                   /\ copied.trafs[t].tfdt = box.trafs[t].tfdt
                   /\ copied.trafs[t].duration = box.trafs[t].duration
  <2>1. copied.trafs = Rebuilt(i).trafs
    BY <1>2, <1>5 DEF HasFields
  <2>2. CASE i \in DOMAIN moof_replacements
    <3>1. copied.trafs = [t \in DOMAIN box.trafs |-> RebuiltTraf(box, box.trafs[t])]
      BY <1>5, <1>7, <2>1, <2>2 DEF RebuiltMoof
    <3>2. ASSUME NEW t \in DOMAIN box.trafs
          PROVE  /\ RebuiltTraf(box, box.trafs[t]).track = box.trafs[t].track
                 /\ RebuiltTraf(box, box.trafs[t]).tfdt = box.trafs[t].tfdt
                 /\ RebuiltTraf(box, box.trafs[t]).duration = box.trafs[t].duration
      BY <1>9 DEF RebuiltTraf, Traf
    <3>3. Len(copied.trafs) = Len(box.trafs)
      <4>1. Len(box.trafs) \in Nat /\ DOMAIN box.trafs = 1..Len(box.trafs)
        BY <1>3
      <4>2. copied.trafs = [t \in 1..Len(box.trafs) |-> copied.trafs[t]]
        BY <3>1, <4>1
      <4> QED BY <4>1, <4>2, LenIs
    <3> QED BY <3>1, <3>2, <3>3
  <2>3. CASE i \notin DOMAIN moof_replacements
    BY <1>5, <2>1, <2>3 DEF box
  <2> QED BY <2>2, <2>3
<1>13. FieldsKept(box, copied)
  <2>1. copied.size \in Nat \ {0}
    BY <1>2, <1>5 DEF HasFields
  <2> QED BY <1>10, <1>11, <1>12, <2>1 DEF FieldsKept
<1> QED BY <1>13 DEF box, copied, W

-----------------------------------------------------------------------------
(* What a step of the grouping makes of the segments: the last goes on, and*)
(* takes box i if that is a moof, or box i begins one.                     *)
GoesOn(st, next, i, is_moof) ==
  /\ next.existing = st.existing /\ Len(next.segments) = Len(st.segments)
  /\ \A k \in 1..Len(st.segments) :
       /\ next.segments[k].first = st.segments[k].first
       /\ next.segments[k].moofs = IF k = Len(st.segments) /\ is_moof
                                     THEN Append(st.segments[k].moofs, i)
                                     ELSE st.segments[k].moofs

Begins(st, next, i, is_moof) ==
  /\ next.existing = st.existing /\ Len(next.segments) = Len(st.segments) + 1
  /\ \A k \in 1..Len(st.segments) :
       /\ next.segments[k].first = st.segments[k].first
       /\ next.segments[k].moofs = st.segments[k].moofs
  /\ next.segments[Len(next.segments)].first = i
  /\ next.segments[Len(next.segments)].moofs = IF is_moof THEN << i >> ELSE << >>

LEMMA SegmentsAre ==
  ASSUME NEW boxes, NEW st \in Grouped(boxes)
  PROVE  /\ DOMAIN st = {"segments", "existing"}
         /\ st.segments \in Seq(Segment(boxes))
         /\ Len(st.segments) \in Nat /\ DOMAIN st.segments = 1..Len(st.segments)
         /\ st.segments # << >> => Len(st.segments) \in 1..Len(st.segments)
         /\ \A k \in 1..Len(st.segments) :
              /\ st.segments[k] \in Segment(boxes)
              /\ DOMAIN st.segments[k] = {"first", "moofs", "size", "sidx_count"}
              /\ st.segments[k].first \in DOMAIN boxes
              /\ st.segments[k].moofs \in Seq(BoxesOf(boxes, "moof"))
<1>1. st.segments \in Seq(Segment(boxes)) /\ DOMAIN st = {"segments", "existing"}
  BY DEF Grouped
<1>2. ASSUME NEW k \in 1..Len(st.segments)
      PROVE  /\ st.segments[k] \in Segment(boxes)
             /\ DOMAIN st.segments[k] = {"first", "moofs", "size", "sidx_count"}
             /\ st.segments[k].first \in DOMAIN boxes
             /\ st.segments[k].moofs \in Seq(BoxesOf(boxes, "moof"))
  <2>1. st.segments[k] \in Segment(boxes)
    BY <1>1
  <2> QED BY <2>1 DEF Segment
<1>3. /\ Len(st.segments) \in Nat /\ DOMAIN st.segments = 1..Len(st.segments)
      /\ st.segments # << >> => Len(st.segments) \in 1..Len(st.segments)
  BY <1>1
<1> QED BY <1>1, <1>2, <1>3

LEMMA UpdateLastIs ==
  ASSUME NEW boxes, NEW st \in Grouped(boxes), st.segments # << >>, NEW segment
  PROVE  /\ UpdateLast(st, segment).existing = st.existing
         /\ Len(UpdateLast(st, segment).segments) = Len(st.segments)
         /\ \A k \in 1..Len(st.segments) :
              UpdateLast(st, segment).segments[k]
                = IF k = Len(st.segments) THEN segment ELSE st.segments[k]
<1> DEFINE s == st.segments
           t == [s EXCEPT ![Len(s)] = segment]
<1>1. UpdateLast(st, segment) = [st EXCEPT !.segments = t]
  BY DEF UpdateLast
<1>2. /\ DOMAIN st = {"segments", "existing"} /\ DOMAIN s = 1..Len(s) /\ Len(s) \in Nat
      /\ s \in Seq(Segment(boxes))
  BY SegmentsAre
<1>3. UpdateLast(st, segment).segments = t /\ UpdateLast(st, segment).existing = st.existing
  <2> HIDE DEF t, s
  <2> QED BY <1>1, <1>2
<1> HIDE DEF s
<1>4. Len(t) = Len(s) /\ \A k \in 1..Len(s) : t[k] = IF k = Len(s) THEN segment ELSE s[k]
  BY <1>2
<1> QED BY <1>3, <1>4 DEF s

LEMMA StartSegmentIs ==
  ASSUME NEW boxes, NEW st \in Grouped(boxes), NEW i
  PROVE  Begins(st, StartSegment(st, i), i, FALSE)
<1> DEFINE s == st.segments
           new == [first |-> i, moofs |-> << >>, size |-> 0, sidx_count |-> 0]
           t == Append(s, new)
           next == StartSegment(st, i)
<1>1. next = [st EXCEPT !.segments = t]
  BY DEF StartSegment
<1>2. /\ DOMAIN st = {"segments", "existing"} /\ DOMAIN s = 1..Len(s) /\ Len(s) \in Nat
      /\ s \in Seq(Segment(boxes))
  BY SegmentsAre
<1>3. next.segments = t /\ next.existing = st.existing
  <2> HIDE DEF t, s, next
  <2> QED BY <1>1, <1>2
<1>4. new.first = i /\ new.moofs = << >>
  OBVIOUS
<1> HIDE DEF s, next, new
<1>5. Len(t) = Len(s) + 1 /\ t[Len(s) + 1] = new /\ \A k \in 1..Len(s) : t[k] = s[k]
  BY <1>2
<1> HIDE DEF t
<1>6. Begins(st, next, i, FALSE)
  BY <1>3, <1>4, <1>5 DEF Begins, s
<1> QED BY <1>6 DEF next

LEMMA AddsGoOn ==
  ASSUME NEW boxes, NEW st \in Grouped(boxes), st.segments # << >>,
         NEW i \in DOMAIN boxes
  PROVE  /\ GoesOn(st, AddSize(st, boxes[i]), i, FALSE)
         /\ GoesOn(st, AddMoof(st, i), i, TRUE)
<1> DEFINE n == Len(st.segments)
           last == st.segments[n]
<1>1. n \in 1..n /\ n \in Nat
  BY SegmentsAre
<1>2. DOMAIN last = {"first", "moofs", "size", "sidx_count"}
  BY <1>1, SegmentsAre
<1>3. AddSize(st, boxes[i]) = UpdateLast(st, [last EXCEPT !.size = last.size + boxes[i].size])
  BY DEF AddSize, Last
<1>4. AddMoof(st, i) = UpdateLast(st, [last EXCEPT !.moofs = Append(last.moofs, i)])
  BY DEF AddMoof, Last
<1> DEFINE sized == [last EXCEPT !.size = last.size + boxes[i].size]
           longer == [last EXCEPT !.moofs = Append(last.moofs, i)]
<1>5. sized.first = last.first /\ sized.moofs = last.moofs
  <2> HIDE DEF last
  <2> QED BY <1>2
<1>6. longer.first = last.first /\ longer.moofs = Append(last.moofs, i)
  <2> HIDE DEF last
  <2> QED BY <1>2
<1> HIDE DEF sized, longer
<1>7. GoesOn(st, UpdateLast(st, sized), i, FALSE)
  BY <1>1, <1>5, UpdateLastIs DEF GoesOn
<1>8. GoesOn(st, UpdateLast(st, longer), i, TRUE)
  BY <1>1, <1>6, UpdateLastIs DEF GoesOn
<1> QED BY <1>3, <1>4, <1>7, <1>8 DEF sized, longer

(* Steps one after another.                                                *)
LEMMA GoesOnTwice ==
  ASSUME NEW boxes, NEW st \in Grouped(boxes), NEW mid, NEW next, NEW i,
         GoesOn(st, mid, i, FALSE), GoesOn(mid, next, i, TRUE)
  PROVE  GoesOn(st, next, i, TRUE)
BY SegmentsAre DEF GoesOn

LEMMA BeginsAndGoesOn ==
  ASSUME NEW boxes, NEW st \in Grouped(boxes), NEW mid, NEW next, NEW i,
         NEW is_moof \in BOOLEAN,
         Begins(st, mid, i, FALSE), GoesOn(mid, next, i, is_moof)
  PROVE  Begins(st, next, i, is_moof)
<1> DEFINE n == Len(st.segments)
<1>1. n \in Nat
  BY SegmentsAre
<1>2. /\ Len(mid.segments) = n + 1 /\ Len(next.segments) = n + 1
      /\ next.existing = st.existing
  BY DEF Begins, GoesOn
<1> HIDE DEF n
<1>3. n + 1 \in 1..(n + 1) /\ \A k \in 1..n : k \in 1..(n + 1) /\ k # n + 1
  BY <1>1
<1>4. \A k \in 1..n : /\ next.segments[k].first = st.segments[k].first
                      /\ next.segments[k].moofs = st.segments[k].moofs
  BY <1>2, <1>3 DEF Begins, GoesOn, n
<1>5. /\ next.segments[n + 1].first = i
      /\ next.segments[n + 1].moofs = IF is_moof THEN << i >> ELSE << >>
  <2>1. mid.segments[n + 1].first = i /\ mid.segments[n + 1].moofs = << >>
    BY <1>2 DEF Begins
  <2>2. /\ next.segments[n + 1].first = i
        /\ next.segments[n + 1].moofs = IF is_moof THEN Append(<< >>, i) ELSE << >>
    BY <1>2, <1>3, <2>1 DEF GoesOn
  <2>3. Append(<< >>, i) = << i >>
    OBVIOUS
  <2> QED BY <2>2, <2>3
<1> QED BY <1>2, <1>4, <1>5 DEF Begins, n

(* What the boxes that are not a sidx do.                                  *)
LEMMA GroupBoxIs ==
  ASSUME NEW boxes, NEW st \in Grouped(boxes), NEW i \in DOMAIN boxes,
         boxes[i].size \in Int, boxes[i].kind # "sidx"
  PROVE  LET next == GroupBox(boxes, st, i)
             opens == \/ boxes[i].kind = "styp"
                      \/ /\ boxes[i].kind \in {"emsg", "moof"}
                         /\ ShouldStart(boxes, st, boxes[i].offset)
         IN  /\ opens => Begins(st, next, i, boxes[i].kind = "moof")
             /\ ~opens /\ st.segments # << >> => GoesOn(st, next, i, boxes[i].kind = "moof")
             /\ boxes[i].kind \notin {"styp", "emsg", "moof"} /\ st.segments = << >> =>
                  next = st
<1> DEFINE next == GroupBox(boxes, st, i)
           box == boxes[i]
<1>1. ASSUME NEW mid \in Grouped(boxes), mid.segments # << >>
      PROVE  /\ GoesOn(mid, AddSize(mid, box), i, FALSE)
             /\ box.kind = "moof" =>
                  GoesOn(mid, AddMoof(AddSize(mid, box), i), i, TRUE)
  <2>1. GoesOn(mid, AddSize(mid, box), i, FALSE)
    BY <1>1, AddsGoOn
  <2>2. AddSize(mid, box) \in Grouped(boxes)
    BY <1>1, AddsKeep
  <2>3. AddSize(mid, box).segments # << >>
    <3>1. /\ Len(AddSize(mid, box).segments) = Len(mid.segments)
          /\ Len(mid.segments) \in 1..Len(mid.segments)
      BY <1>1, <2>1, SegmentsAre DEF GoesOn
    <3>2. Len(mid.segments) # 0
      BY <3>1
    <3>3. Len(<< >>) = 0
      OBVIOUS
    <3> QED BY <3>1, <3>2, <3>3
  <2>4. GoesOn(AddSize(mid, box), AddMoof(AddSize(mid, box), i), i, TRUE)
    <3> DEFINE x == AddSize(mid, box)
    <3>1. x \in Grouped(boxes) /\ x.segments # << >>
      BY <2>2, <2>3
    <3> HIDE DEF x
    <3>2. GoesOn(x, AddMoof(x, i), i, TRUE)
      BY <3>1, AddsGoOn
    <3> QED BY <3>2 DEF x
  <2>5. GoesOn(mid, AddMoof(AddSize(mid, box), i), i, TRUE)
    BY <1>1, <2>1, <2>4, GoesOnTwice
  <2> QED BY <2>1, <2>5
<1>2. /\ StartSegment(st, i) \in Grouped(boxes) /\ Begins(st, StartSegment(st, i), i, FALSE)
      /\ StartSegment(st, i).segments # << >>
  <2>1. StartSegment(st, i) \in Grouped(boxes) /\ Begins(st, StartSegment(st, i), i, FALSE)
    BY StartSegmentKeeps, StartSegmentIs
  <2>2. Len(StartSegment(st, i).segments) = Len(st.segments) + 1 /\ Len(st.segments) \in Nat
    BY <2>1, SegmentsAre DEF Begins
  <2>3. Len(StartSegment(st, i).segments) # 0 /\ Len(<< >>) = 0
    BY <2>2
  <2> QED BY <2>1, <2>3
<1>3. /\ Begins(st, AddSize(StartSegment(st, i), box), i, FALSE)
      /\ box.kind = "moof" =>
           Begins(st, AddMoof(AddSize(StartSegment(st, i), box), i), i, TRUE)
  <2> DEFINE mid == StartSegment(st, i)
  <2>1. /\ GoesOn(mid, AddSize(mid, box), i, FALSE)
        /\ box.kind = "moof" => GoesOn(mid, AddMoof(AddSize(mid, box), i), i, TRUE)
    BY <1>1, <1>2
  <2>2. Begins(st, mid, i, FALSE)
    BY <1>2
  <2> HIDE DEF mid, box
  <2>3. Begins(st, AddSize(mid, box), i, FALSE)
    BY <2>1, <2>2, BeginsAndGoesOn
  <2>4. box.kind = "moof" => Begins(st, AddMoof(AddSize(mid, box), i), i, TRUE)
    BY <2>1, <2>2, BeginsAndGoesOn
  <2> QED BY <2>3, <2>4 DEF mid
<1>4. CASE box.kind = "styp"
  <2>1. next = AddSize(StartSegment(st, i), box)
    BY <1>4 DEF GroupBox, GroupStyp
  <2> QED BY <1>3, <1>4, <2>1
<1>5. CASE box.kind \in {"emsg", "moof"}
  <2>1. next = GroupFragment(boxes, st, i)
    BY <1>5 DEF GroupBox
  <2>2. CASE ShouldStart(boxes, st, box.offset)
    <3>1. next = IF box.kind = "moof" THEN AddMoof(AddSize(StartSegment(st, i), box), i)
                 ELSE AddSize(StartSegment(st, i), box)
      BY <2>1, <2>2 DEF GroupFragment
    <3>2. Begins(st, next, i, box.kind = "moof")
      <4>1. CASE box.kind = "moof"
        BY <1>3, <3>1, <4>1
      <4>2. CASE box.kind # "moof"
        BY <1>3, <3>1, <4>2
      <4> QED BY <4>1, <4>2
    <3> QED BY <1>5, <2>2, <3>2
  <2>3. CASE ~ShouldStart(boxes, st, box.offset)
    <3>1. next = IF box.kind = "moof" THEN AddMoof(AddSize(st, box), i) ELSE AddSize(st, box)
      BY <2>1, <2>3 DEF GroupFragment
    <3>2. st.segments # << >> => GoesOn(st, next, i, box.kind = "moof")
      <4>1. CASE box.kind = "moof"
        BY <1>1, <3>1, <4>1
      <4>2. CASE box.kind # "moof"
        BY <1>1, <3>1, <4>2
      <4> QED BY <4>1, <4>2
    <3> QED BY <1>5, <2>3, <3>2
  <2> QED BY <2>2, <2>3
<1>6. CASE box.kind = "mdat"
  <2>1. next = AddSize(st, box)
    BY <1>6 DEF GroupBox
  <2>2. st.segments # << >> => GoesOn(st, next, i, FALSE)
    BY <1>1, <2>1
  <2>3. st.segments = << >> => next = st
    BY <2>1 DEF AddSize, UpdateLast
  <2> QED BY <1>6, <2>2, <2>3
<1>7. CASE box.kind \notin {"styp", "sidx", "emsg", "moof", "mdat"}
  <2>1. next = st
    BY <1>7 DEF GroupBox
  <2>2. GoesOn(st, st, i, FALSE)
    BY DEF GoesOn
  <2> QED BY <1>7, <2>1, <2>2
<1> QED BY <1>4, <1>5, <1>6, <1>7

(* The references of one sidx are those of the sidx boxes taken together.  *)
LEMMA FlattenOne ==
  ASSUME NEW x
  PROVE  FlattenSeq(<< x >>) = x
<1> DEFINE IsFlat(f) == f = [i \in 1..Len(<< x >>) |-> IF i = 1 THEN << x >>[i]
                                                       ELSE f[i - 1] \o << x >>[i]]
           flat == CHOOSE f : IsFlat(f)
<1>1. Len(<< x >>) = 1 /\ 1..1 = {1} /\ << x >>[1] = x
  OBVIOUS
<1>2. FlattenSeq(<< x >>) = flat[Len(<< x >>)]
  BY <1>1 DEF FlattenSeq
<1>3. IsFlat([i \in {1} |-> x])
  BY <1>1
<1>4. IsFlat(flat)
  <2> HIDE DEF IsFlat
  <2> QED BY <1>3
<1> HIDE DEF flat
<1>5. flat[1] = x
  BY <1>1, <1>4
<1> QED BY <1>1, <1>2, <1>5

LEMMA ShouldStartIs ==
  ASSUME NEW boxes, NEW st, NEW o
  PROVE  /\ st.existing = << >> => (ShouldStart(boxes, st, o) <=> Len(st.segments) = 0)
         /\ \A s : st.existing = << s >> =>
              (ShouldStart(boxes, st, o) <=>
                 /\ Len(st.segments) + 1 \in DOMAIN boxes[s].entries
                 /\ SegmentStarts(boxes[s])[Len(st.segments) + 1] = o)
<1>1. st.existing = << >> => (ShouldStart(boxes, st, o) <=> Len(st.segments) = 0)
  BY DEF ShouldStart
<1>2. ASSUME NEW s, st.existing = << s >>
      PROVE  ShouldStart(boxes, st, o) <=>
               /\ Len(st.segments) + 1 \in DOMAIN boxes[s].entries
               /\ SegmentStarts(boxes[s])[Len(st.segments) + 1] = o
  <2> DEFINE starts == SegmentStarts(boxes[s])
             seqs == [k \in DOMAIN st.existing |-> SegmentStarts(boxes[st.existing[k]])]
             count == Len(st.segments)
  <2>1. DOMAIN starts = DOMAIN boxes[s].entries
    BY DEF SegmentStarts
  <2>2. DOMAIN st.existing = {1} /\ st.existing[1] = s /\ st.existing # << >>
    BY <1>2
  <2>3. seqs = [k \in {1} |-> starts]
    BY <2>2
  <2>4. << starts >> = [k \in {1} |-> starts]
    OBVIOUS
  <2>5. ShouldStart(boxes, st, o) <=>
          count + 1 \in DOMAIN FlattenSeq(seqs) /\ FlattenSeq(seqs)[count + 1] = o
    BY <2>2, Zenon DEF ShouldStart
  <2> HIDE DEF starts, seqs, count
  <2>6. FlattenSeq(seqs) = starts
    BY <2>3, <2>4, FlattenOne
  <2> QED BY <2>1, <2>5, <2>6 DEF starts, count
<1> QED BY <1>1, <1>2

(* A sidx that is taken for that of the file.                              *)
LEMMA GroupSidxIs ==
  ASSUME NEW boxes, NEW st, NEW i, boxes[i].kind = "sidx",
         DOMAIN st = {"segments", "existing"}
  PROVE  /\ st.segments = << >> /\ PreviousKind(boxes, i) # "mdat" =>
              /\ GroupBox(boxes, st, i).segments = << >>
              /\ GroupBox(boxes, st, i).existing = Append(st.existing, i)
         /\ PreviousKind(boxes, i) = "styp" /\ st.segments # << >>
              /\ IsPendingStyp(boxes, Last(st.segments)) =>
              /\ GroupBox(boxes, st, i).segments = Front(st.segments)
              /\ GroupBox(boxes, st, i).existing = Append(st.existing, i)
<1>1. GroupBox(boxes, st, i) = GroupSidx(boxes, st, i)
  BY DEF GroupBox
<1> DEFINE existing == Append(st.existing, i)
<1>2. st.segments = << >> /\ PreviousKind(boxes, i) # "mdat" =>
        GroupSidx(boxes, st, i) = [st EXCEPT !.existing = existing]
  BY DEF GroupSidx
<1>3. ASSUME PreviousKind(boxes, i) = "styp", st.segments # << >>,
             IsPendingStyp(boxes, Last(st.segments))
      PROVE  GroupSidx(boxes, st, i)
               = [segments |-> Front(st.segments), existing |-> existing]
  BY <1>3 DEF GroupSidx
<1> HIDE DEF existing
<1>4. ASSUME st.segments = << >>, PreviousKind(boxes, i) # "mdat"
      PROVE  /\ GroupBox(boxes, st, i).segments = << >>
             /\ GroupBox(boxes, st, i).existing = Append(st.existing, i)
  BY <1>1, <1>2, <1>4 DEF existing
<1>5. ASSUME PreviousKind(boxes, i) = "styp", st.segments # << >>,
             IsPendingStyp(boxes, Last(st.segments))
      PROVE  /\ GroupBox(boxes, st, i).segments = Front(st.segments)
             /\ GroupBox(boxes, st, i).existing = Append(st.existing, i)
  BY <1>1, <1>3, <1>5 DEF existing
<1> QED BY <1>4, <1>5

Pending(boxes, i) ==
  [first |-> i, moofs |-> << >>, size |-> boxes[i].size, sidx_count |-> 0]

LEMMA StypOpens ==
  ASSUME NEW boxes, NEW st, NEW i, boxes[i].kind = "styp", boxes[i].size \in Int,
         DOMAIN st = {"segments", "existing"}, st.segments = << >>
  PROVE  /\ GroupBox(boxes, st, i).segments = << Pending(boxes, i) >>
         /\ GroupBox(boxes, st, i).existing = st.existing
<1> DEFINE new == [first |-> i, moofs |-> << >>, size |-> 0, sidx_count |-> 0]
           mid == StartSegment(st, i)
           sized == [new EXCEPT !.size = new.size + boxes[i].size]
<1>1. GroupBox(boxes, st, i) = AddSize(mid, boxes[i])
  BY DEF GroupBox, GroupStyp
<1>2. mid = [st EXCEPT !.segments = Append(st.segments, new)]
  BY DEF StartSegment
<1>3. Append(<< >>, new) = << new >>
  OBVIOUS
<1>4. /\ DOMAIN mid = {"segments", "existing"} /\ mid.segments = << new >>
      /\ mid.existing = st.existing
  <2> HIDE DEF new, mid
  <2> QED BY <1>2, <1>3
<1>5. sized = Pending(boxes, i)
  BY DEF Pending
<1>6. Len(<< new >>) = 1 /\ << new >>[1] = new /\ << new >> # << >>
      /\ [<< new >> EXCEPT ![1] = sized] = << sized >>
  <2> HIDE DEF new, sized
  <2> QED OBVIOUS
<1>7. AddSize(mid, boxes[i]) = [mid EXCEPT !.segments = << sized >>]
  <2> HIDE DEF mid
  <2>1. Last(mid.segments) = new /\ Len(mid.segments) = 1 /\ mid.segments # << >>
    BY <1>4, <1>6 DEF Last
  <2>2. AddSize(mid, boxes[i]) = UpdateLast(mid, sized)
    BY <2>1 DEF AddSize
  <2> HIDE DEF sized, new
  <2>3. UpdateLast(mid, sized) = [mid EXCEPT !.segments = [mid.segments EXCEPT ![1] = sized]]
    BY <2>1 DEF UpdateLast
  <2> QED BY <1>4, <1>6, <2>2, <2>3
<1> HIDE DEF mid, sized, new
<1> QED BY <1>1, <1>4, <1>5, <1>7

LEMMA PendingGoes ==
  ASSUME NEW boxes, NEW i, boxes[i].kind = "styp"
  PROVE  /\ << Pending(boxes, i) >> # << >>
         /\ IsPendingStyp(boxes, Last(<< Pending(boxes, i) >>))
         /\ Front(<< Pending(boxes, i) >>) = << >>
<1> DEFINE p == Pending(boxes, i)
<1>1. p.first = i /\ p.moofs = << >> /\ p.size = boxes[i].size /\ p.sidx_count = 0
  BY DEF Pending
<1> HIDE DEF p
<1>2. Len(<< p >>) = 1 /\ << p >>[1] = p /\ << p >> # << >>
  OBVIOUS
<1>3. IsPendingStyp(boxes, Last(<< p >>))
  BY <1>1, <1>2 DEF IsPendingStyp, Last
<1>4. Front(<< p >>) = << >>
  BY <1>2 DEF Front
<1> QED BY <1>2, <1>3, <1>4 DEF p

-----------------------------------------------------------------------------
Sidxs == BoxesOf(root, "sidx")

LEMMA MediaStartIs ==
  ASSUME request \in Requests, Indexable
  PROVE  /\ MediaStart \in Roots /\ root[MediaStart].kind \in Opening
         /\ \A k \in Sidxs : MediaStart > k
         /\ \A i \in Roots : root[i].kind \in Opening /\ (\A k \in Sidxs : i > k) =>
              MediaStart <= i
<1> DEFINE S == { i \in Roots : root[i].kind \in Opening /\ \A k \in Sidxs : i > k }
<1>1. MediaStart = Min(S)
  BY DEF MediaStart, Sidxs
<1>2. Roots \subseteq Nat
  BY RootBoxes DEF Roots, root
<1>3. S # {}
  <2>1. CASE Sidxs = {}
    <3>1. PICK i \in BoxesOf(root, "moof") : TRUE
      BY DEF Indexable
    <3>2. i \in S
      BY <2>1 DEF BoxesOf, Roots, Opening
    <3> QED BY <3>2
  <2>2. CASE Sidxs # {}
    <3>1. PICK s \in Sidxs : TRUE
      BY <2>2
    <3>2. Sidxs = {s} /\ \E m \in BoxesOf(root, "moof") : m > s
      BY <3>1 DEF Indexable, Sidxs
    <3>3. PICK m \in BoxesOf(root, "moof") : m > s
      BY <3>2
    <3>4. m \in S
      BY <3>2, <3>3 DEF BoxesOf, Roots, Opening
    <3> QED BY <3>4
  <2> QED BY <2>1, <2>2
<1>4. MediaStart \in S /\ \A i \in S : MediaStart <= i
  <2> HIDE DEF S
  <2>1. S \subseteq Nat
    BY <1>2 DEF S
  <2> QED BY <1>1, <1>3, <2>1, LeastExists DEF Min
<1> QED BY <1>4

(* Between a sidx and the media there is nothing that changes its size.    *)
LEMMA FirstReference ==
  ASSUME request \in Requests, NEW A, IsCopy(request, moof_replacements, A),
         KeepsFields(request, A), Indexable, NEW s \in Sidxs
  PROVE  /\ DOMAIN A[s].entries = DOMAIN root[s].entries
         /\ 1 \in DOMAIN A[s].entries
         /\ SegmentStarts(A[s])[1] = A[MediaStart].offset
<1> DEFINE F == MediaStart
           n == Len(root)
<1>1. n \in Nat /\ Roots = 1..n /\ DOMAIN root = 1..n /\ DOMAIN request.root_boxes = 1..n
  BY RootBoxes DEF Roots, root
<1>2. /\ F \in Roots /\ F > s
      /\ \A i \in Roots : root[i].kind \in Opening /\ i > s => F <= i
  <2>1. Sidxs = {s}
    BY DEF Indexable, Sidxs
  <2> QED BY <2>1, MediaStartIs
<1> HIDE DEF F, n
<1>3. s \in 1..n /\ root[s].kind = "sidx" /\ F \in 1..n
  BY <1>1, <1>2 DEF Sidxs, BoxesOf
<1>4. ASSUME NEW k \in 1..n, s <= k, k < F
      PROVE  A[k].size = root[k].size
  <2>1. root[k].kind # "moov"
    <3> SUFFICES ASSUME root[k].kind = "moov" PROVE FALSE
      OBVIOUS
    <3>1. k \in BoxesOf(root, "moov")
      BY <1>1 DEF BoxesOf
    <3>2. BoxesOf(root, "moov") = {k} /\ Min(BoxesOf(root, "moov")) < s
      BY <3>1 DEF Indexable, Sidxs
    <3>3. Min({k}) = k
      BY <1>4 DEF Min
    <3> QED BY <1>3, <1>4, <3>2, <3>3
  <2>2. root[k].kind # "moof"
    <3> SUFFICES ASSUME root[k].kind = "moof" PROVE FALSE
      OBVIOUS
    <3>1. k # s
      BY <1>3
    <3>2. F <= k
      BY <1>1, <1>2, <1>3, <1>4, <3>1 DEF Opening
    <3> QED BY <1>3, <1>4, <3>2
  <2> QED BY <1>1, <2>1, <2>2 DEF IsCopy, SizesFollow, root
<1>5. ASSUME NEW k \in 1..n
      PROVE  /\ A[k].offset \in Int /\ A[k].size \in Int
             /\ root[k].offset \in Int /\ root[k].size \in Int
             /\ k > 1 => /\ A[k].offset = A[k - 1].offset + A[k - 1].size
                         /\ root[k].offset = root[k - 1].offset + root[k - 1].size
  <2>1. DOMAIN A = 1..n
    BY <1>1 DEF IsCopy, ShapeKept, IsRow, root, n
  <2>2. A[k].offset = IF k = 1 THEN 0 ELSE A[k - 1].offset + A[k - 1].size
    BY <2>1 DEF IsCopy, ShapeKept, IsLaid
  <2>3. A[k].offset \in Int /\ A[k].size \in Int
    BY <1>1, <2>1 DEF IsCopy, ShapeKept, LaidSizes
  <2>4. /\ root[k].offset \in Nat /\ root[k].size \in Nat \ {0}
        /\ root[k].offset = IF k = 1 THEN 0 ELSE root[k - 1].offset + root[k - 1].size
    BY <1>1, RootBoxes, Zenon DEF root
  <2>5. k > 1 => k # 1
    OBVIOUS
  <2> QED BY <2>2, <2>3, <2>4, <2>5
<1> DEFINE T == { m \in 0..F : m >= s =>
                                A[m].offset - A[s].offset = root[m].offset - root[s].offset }
<1>6. 0 \in T
  BY <1>3
<1>7. ASSUME NEW m \in 1..F, m - 1 \in T PROVE m \in T
  <2>1. CASE m < s
    BY <2>1, <1>3
  <2>2. CASE m = s
    BY <2>2, <1>3, <1>5
  <2>3. CASE m > s
    <3>1. m \in 1..n /\ m - 1 \in 1..n /\ m > 1 /\ s <= m - 1 /\ m - 1 < F
      BY <1>1, <1>3, <2>3
    <3>2. A[m - 1].offset - A[s].offset = root[m - 1].offset - root[s].offset
      BY <1>7, <3>1
    <3>3. A[m - 1].size = root[m - 1].size
      BY <1>4, <3>1
    <3>4. /\ A[m].offset = A[m - 1].offset + A[m - 1].size
          /\ root[m].offset = root[m - 1].offset + root[m - 1].size
      BY <1>5, <3>1
    <3>5. A[m].offset - A[s].offset = root[m].offset - root[s].offset
      BY <1>3, <1>5, <3>1, <3>2, <3>3, <3>4
    <3> QED BY <3>5
  <2> QED BY <1>3, <2>1, <2>2, <2>3
<1> HIDE DEF T
<1>8. F \in T
  <2>1. F \in Nat
    BY <1>3
  <2>2. 0..F \subseteq T
    BY <1>6, <1>7, <2>1, BoundedInduction
  <2> QED BY <2>1, <2>2
<1>9. A[F].offset - A[s].offset = root[F].offset - root[s].offset
  BY <1>2, <1>3, <1>8 DEF T
<1>10. /\ A[s].entries = root[s].entries /\ A[s].first_offset = root[s].first_offset
       /\ A[s].size = root[s].size
  <2>1. FieldsKept(root[s], A[s])
    BY <1>1, <1>3 DEF KeepsFields, root
  <2> QED BY <1>2, <1>3, <1>4, <2>1 DEF FieldsKept
<1>11. /\ root[s].entries \in Seq(Nat) /\ root[s].first_offset \in Int
  <2>1. root[s] \in RootBox /\ root[s].entries \in Seq(Nat)
    BY <1>1, <1>3, RootBoxes DEF root
  <2>2. root[s] \in SidxBox
    BY <1>3, <2>1 DEF RootBox, PlainBox, MoovBox
  <2> QED BY <2>1, <2>2 DEF SidxBox
<1>12. root[s].entries # << >> /\ SegmentStarts(root[s])[1] = root[F].offset
  BY DEF Indexable, Sidxs, F
<1>13. 1 \in DOMAIN root[s].entries
  BY <1>11, <1>12
<1>14. SumTo(root[s].entries, 0) = 0
  BY SumToIs
<1>15. /\ SegmentStarts(root[s])[1] = root[s].offset + root[s].size + root[s].first_offset + 0
       /\ SegmentStarts(A[s])[1] = A[s].offset + A[s].size + A[s].first_offset + 0
  BY <1>10, <1>13, <1>14 DEF SegmentStarts
<1>16. SegmentStarts(A[s])[1] = A[F].offset
  <2>1. /\ A[s].offset \in Int /\ A[F].offset \in Int /\ root[s].offset \in Int
        /\ root[F].offset \in Int /\ root[s].size \in Int
    BY <1>3, <1>5
  <2>2. root[s].offset + root[s].size + root[s].first_offset = root[F].offset
    BY <1>11, <1>12, <1>15, <2>1
  <2>3. SegmentStarts(A[s])[1] = A[s].offset + root[s].size + root[s].first_offset
    BY <1>10, <1>11, <1>15, <2>1
  <2> DEFINE x == A[s].offset
             y == A[F].offset
             u == root[s].offset
             v == root[F].offset
             w == root[s].size
             z == root[s].first_offset
  <2>4. y - x = v - u /\ u + w + z = v /\ SegmentStarts(A[s])[1] = x + w + z
    BY <1>9, <2>2, <2>3
  <2>5. x \in Int /\ y \in Int /\ u \in Int /\ v \in Int /\ w \in Int /\ z \in Int
    BY <1>11, <2>1
  <2> HIDE DEF x, y, u, v, w, z
  <2>6. SegmentStarts(A[s])[1] = y
    BY <2>4, <2>5
  <2> QED BY <2>6 DEF y
<1> QED BY <1>10, <1>13, <1>16 DEF F

(* What the proof needs of the bytes that are to be refreshed.             *)
Refreshable ==
  /\ request \in Requests /\ Indexable
  /\ IsCopy(request, moof_replacements, bytes) /\ KeepsFields(request, bytes)

(* The grouping as it has come to box i, in front of the media and in it.  *)
(* A segment has a fragment, but for the last, which may be about to get   *)
(* one.                                                                    *)
KnowsSidx(st, i) ==
  /\ Sidxs = {} => st.existing = << >>
  /\ \A s \in Sidxs : st.existing = IF s <= i THEN << s >> ELSE << >>

InFront(st, i) ==
  /\ KnowsSidx(st, i)
  /\ st.segments = IF i > 0 /\ root[i].kind = "styp" THEN << Pending(bytes, i) >> ELSE << >>

Waits(i) ==
  \E m \in BoxesOf(root, "moof") : i < m /\ \A k \in (i + 1)..m : k \notin Openers

Filled(st, i) ==
  /\ KnowsSidx(st, i)
  /\ st.segments # << >> /\ st.segments[1].first = MediaStart
  /\ \A k \in 1..(Len(st.segments) - 1) : st.segments[k].moofs # << >>
  /\ st.segments[Len(st.segments)].moofs # << >> \/ Waits(i)

LEMMA ShapeIs ==
  ASSUME Refreshable
  PROVE  /\ Len(root) \in Nat /\ Roots = 1..Len(root) /\ DOMAIN root = 1..Len(root)
         /\ DOMAIN bytes = 1..Len(root) /\ Len(bytes) = Len(root)
         /\ \A i \in Roots : /\ bytes[i].kind = root[i].kind /\ bytes[i].size \in Int
                             /\ PreviousKind(bytes, i) = PreviousKind(root, i)
<1> DEFINE n == Len(root)
<1>1. n \in Nat /\ Roots = 1..n /\ DOMAIN root = 1..n /\ DOMAIN request.root_boxes = 1..n
  BY RootBoxes DEF Refreshable, Roots, root
<1>2. IsRow(bytes, n) /\ LaidSizes(bytes) /\ \A i \in 1..n : bytes[i].kind = root[i].kind
  BY <1>1 DEF Refreshable, IsCopy, ShapeKept, root
<1> HIDE DEF n
<1>3. DOMAIN bytes = 1..n /\ bytes = [k \in 1..n |-> bytes[k]]
  BY <1>2 DEF IsRow
<1>4. Len(bytes) = n
  <2> DEFINE S == { bytes[k] : k \in 1..n }
  <2>1. \A k \in 1..n : bytes[k] \in S
    OBVIOUS
  <2> HIDE DEF S
  <2>2. bytes \in [1..n -> S]
    BY <1>3, <2>1
  <2> QED BY <1>1, <2>2
<1>5. ASSUME NEW i \in 1..n
      PROVE  /\ bytes[i].kind = root[i].kind /\ bytes[i].size \in Int
             /\ PreviousKind(bytes, i) = PreviousKind(root, i)
  <2>1. bytes[i].kind = root[i].kind /\ bytes[i].size \in Int
    BY <1>2, <1>3 DEF LaidSizes
  <2>2. i # 1 => i - 1 \in 1..n
    BY <1>1
  <2> QED BY <1>2, <2>1, <2>2 DEF PreviousKind
<1> QED BY <1>1, <1>3, <1>4, <1>5 DEF n

(* What lies in front of the media is no fragment.                         *)
LEMMA FrontIs ==
  ASSUME Refreshable, NEW i \in Roots, i < MediaStart
  PROVE  root[i].kind \in Opening =>
           root[i].kind = "styp" /\ \E s \in Sidxs : Sidxs = {s} /\ i = s - 1
<1> SUFFICES ASSUME root[i].kind \in Opening
             PROVE  root[i].kind = "styp" /\ \E s \in Sidxs : Sidxs = {s} /\ i = s - 1
  OBVIOUS
<1>1. /\ Roots = 1..Len(root) /\ Len(root) \in Nat /\ MediaStart \in Roots
      /\ (\A k \in Sidxs : i > k) => MediaStart <= i
  BY ShapeIs, MediaStartIs DEF Refreshable
<1>2. PICK s \in Sidxs : ~(i > s)
  BY <1>1
<1>3. Sidxs = {s} /\ (i > s \/ (i = s - 1 /\ root[i].kind = "styp"))
  BY <1>2 DEF Refreshable, Indexable, Sidxs
<1> QED BY <1>2, <1>3

LEMMA FrontStep ==
  ASSUME Refreshable, NEW i \in Roots, i < MediaStart,
         NEW st \in Grouped(bytes), InFront(st, i - 1)
  PROVE  InFront(GroupBox(bytes, st, i), i)
<1> DEFINE next == GroupBox(bytes, st, i)
<1>1. /\ i \in Nat /\ i > 0 /\ i \in DOMAIN bytes
      /\ bytes[i].kind = root[i].kind /\ bytes[i].size \in Int
      /\ PreviousKind(bytes, i) = PreviousKind(root, i)
      /\ Sidxs \subseteq Roots /\ Roots \subseteq Int /\ \A s \in Sidxs : root[s].kind = "sidx"
  BY ShapeIs DEF Sidxs, BoxesOf
<1>2. DOMAIN st = {"segments", "existing"}
  BY SegmentsAre
<1>3. i > 1 => i - 1 \in Roots /\ i - 1 < MediaStart
  BY <1>1, ShapeIs, MediaStartIs DEF Refreshable
<1>4. i - 1 > 0 /\ root[i - 1].kind = "styp" =>
        \E s \in Sidxs : Sidxs = {s} /\ i = s
  <2> SUFFICES ASSUME i - 1 > 0, root[i - 1].kind = "styp"
               PROVE  \E s \in Sidxs : Sidxs = {s} /\ i = s
    OBVIOUS
  <2>1. i - 1 \in Roots /\ i - 1 < MediaStart
    BY <1>1, <1>3
  <2>2. PICK s \in Sidxs : Sidxs = {s} /\ i - 1 = s - 1
    BY <2>1, FrontIs DEF Opening
  <2>3. i = s
    <3>1. s \in Int
      BY <1>1
    <3> QED BY <1>1, <2>2, <3>1
  <2> QED BY <2>2, <2>3
<1>5. CASE root[i].kind = "sidx"
  <2>1. i \in Sidxs /\ Sidxs = {i}
    BY <1>5 DEF Sidxs, BoxesOf, Roots, Refreshable, Indexable
  <2>2. st.existing = << >>
    BY <1>1, <2>1 DEF InFront, KnowsSidx
  <2>3. next.segments = << >> /\ next.existing = Append(st.existing, i)
    <3>1. CASE i - 1 > 0 /\ root[i - 1].kind = "styp"
      <4>1. st.segments = << Pending(bytes, i - 1) >>
        BY <3>1 DEF InFront
      <4>2. bytes[i - 1].kind = "styp" /\ PreviousKind(bytes, i) = "styp"
        <5>1. i - 1 \in Roots /\ i # 1
          BY <1>1, <1>3, <3>1
        <5>2. bytes[i - 1].kind = root[i - 1].kind
          BY <5>1, ShapeIs
        <5> QED BY <3>1, <5>1, <5>2 DEF PreviousKind
      <4>3. /\ st.segments # << >> /\ IsPendingStyp(bytes, Last(st.segments))
            /\ Front(st.segments) = << >>
        BY <4>1, <4>2, PendingGoes
      <4> QED BY <1>1, <1>2, <1>5, <4>2, <4>3, GroupSidxIs
    <3>2. CASE ~(i - 1 > 0 /\ root[i - 1].kind = "styp")
      <4>1. st.segments = << >>
        BY <3>2 DEF InFront
      <4>2. PreviousKind(bytes, i) # "mdat"
        BY <1>1, <2>1 DEF Refreshable, Indexable, Sidxs
      <4> QED BY <1>1, <1>2, <1>5, <4>1, <4>2, GroupSidxIs
    <3> QED BY <3>1, <3>2
  <2>4. next.existing = << i >>
    BY <2>2, <2>3
  <2>5. KnowsSidx(next, i)
    BY <1>1, <2>1, <2>4 DEF KnowsSidx
  <2> QED BY <1>5, <2>3, <2>5 DEF InFront
<1>6. CASE root[i].kind # "sidx"
  <2>1. st.segments = << >>
    <3>1. ~(i - 1 > 0 /\ root[i - 1].kind = "styp")
      BY <1>1, <1>4, <1>6
    <3> QED BY <3>1 DEF InFront
  <2>2. next.existing = st.existing /\
        next.segments = IF root[i].kind = "styp" THEN << Pending(bytes, i) >> ELSE << >>
    <3>1. CASE root[i].kind = "styp"
      BY <1>1, <1>2, <2>1, <3>1, StypOpens
    <3>2. CASE root[i].kind # "styp"
      <4>1. root[i].kind \notin {"styp", "emsg", "moof"}
        BY <3>2, FrontIs DEF Opening
      <4>2. next = st
        BY <1>1, <1>6, <2>1, <4>1, GroupBoxIs
      <4> QED BY <2>1, <3>2, <4>2
    <3> QED BY <3>1, <3>2
  <2>3. KnowsSidx(next, i)
    <3>1. \A s \in Sidxs : s \in Int /\ s # i
      BY <1>1, <1>6
    <3>2. \A s \in Sidxs : (s <= i) = (s <= i - 1)
      BY <1>1, <3>1
    <3> QED BY <2>2, <3>2 DEF InFront, KnowsSidx
  <2> QED BY <1>1, <2>2, <2>3 DEF InFront
<1> QED BY <1>5, <1>6

(* An opener that begins a segment has a fragment, or gets one.            *)
LEMMA OpenerFills ==
  ASSUME Refreshable, NEW i \in Openers, i \in Roots,
         NEW st \in Grouped(bytes), NEW next,
         Begins(st, next, i, bytes[i].kind = "moof"), KnowsSidx(next, i),
         (st.segments = << >> /\ i = MediaStart) \/ Filled(st, i - 1)
  PROVE  Filled(next, i)
<1> DEFINE n == Len(st.segments)
           m == Len(next.segments)
<1>1. n \in Nat /\ (st.segments # << >> => n > 0) /\ (st.segments = << >> => n = 0)
  BY SegmentsAre
<1>2. /\ m = n + 1 /\ next.segments[m].first = i
      /\ next.segments[m].moofs = IF bytes[i].kind = "moof" THEN << i >> ELSE << >>
      /\ \A k \in 1..n : /\ next.segments[k].first = st.segments[k].first
                         /\ next.segments[k].moofs = st.segments[k].moofs
  BY DEF Begins
<1>3. Roots \subseteq Int /\ bytes[i].kind = root[i].kind /\ BoxesOf(root, "moof") \subseteq Roots
  BY ShapeIs DEF BoxesOf
<1>4. n > 0 => /\ st.segments[1].first = MediaStart
               /\ \A k \in 1..n : st.segments[k].moofs # << >>
  <2> SUFFICES ASSUME n > 0
               PROVE  /\ st.segments[1].first = MediaStart
                      /\ \A k \in 1..n : st.segments[k].moofs # << >>
    OBVIOUS
  <2>1. Filled(st, i - 1)
    BY <1>1
  <2>2. ~Waits(i - 1)
    <3> SUFFICES ASSUME NEW x \in BoxesOf(root, "moof"), i - 1 < x
                 PROVE  ~ \A k \in ((i - 1) + 1)..x : k \notin Openers
      BY DEF Waits
    <3>1. i \in ((i - 1) + 1)..x
      <4>1. i \in Int /\ x \in Int
        BY <1>3
      <4> QED BY <4>1
    <3> QED BY <3>1
  <2>3. st.segments[n].moofs # << >> /\ \A k \in 1..(n - 1) : st.segments[k].moofs # << >>
    BY <2>1, <2>2 DEF Filled
  <2>4. \A k \in 1..n : k = n \/ k \in 1..(n - 1)
    BY <1>1
  <2> QED BY <2>1, <2>3, <2>4 DEF Filled
<1>5. next.segments[1].first = MediaStart
  <2>1. CASE n = 0
    BY <1>1, <1>2, <2>1 DEF Filled
  <2>2. CASE n > 0
    <3>1. 1 \in 1..n
      BY <1>1, <2>2
    <3> QED BY <1>2, <1>4, <2>2, <3>1
  <2> QED BY <1>1, <2>1, <2>2
<1>6. \A k \in 1..(m - 1) : next.segments[k].moofs # << >>
  <2>1. \A k \in 1..(m - 1) : k \in 1..n /\ n > 0
    BY <1>1, <1>2
  <2> QED BY <1>2, <1>4, <2>1
<1>7. next.segments[m].moofs # << >> \/ Waits(i)
  <2>1. CASE root[i].kind = "moof"
    <3>1. << i >> # << >>
      OBVIOUS
    <3> QED BY <1>2, <1>3, <2>1, <3>1
  <2>2. CASE root[i].kind # "moof"
    <3>1. PICK x \in BoxesOf(root, "moof") : i <= x /\ \A k \in (i + 1)..x : k \notin Openers
      BY DEF Refreshable, Indexable
    <3>2. x # i
      BY <2>2 DEF BoxesOf
    <3>3. i < x
      BY <1>3, <3>1, <3>2
    <3> QED BY <3>1, <3>3 DEF Waits
  <2> QED BY <2>1, <2>2
<1>8. next.segments # << >>
  <2>1. m # 0 /\ Len(<< >>) = 0
    BY <1>1, <1>2
  <2> QED BY <2>1
<1> QED BY <1>5, <1>6, <1>7, <1>8 DEF Filled

LEMMA FirstStep ==
  ASSUME Refreshable, NEW st \in Grouped(bytes), InFront(st, MediaStart - 1)
  PROVE  Filled(GroupBox(bytes, st, MediaStart), MediaStart)
<1> DEFINE i == MediaStart
           next == GroupBox(bytes, st, i)
<1>1. /\ i \in Roots /\ root[i].kind \in Opening /\ \A k \in Sidxs : i > k
      /\ i \in Nat /\ i > 0 /\ i \in DOMAIN bytes /\ (i - 1 > 0 => i - 1 \in Roots)
      /\ bytes[i].kind = root[i].kind /\ bytes[i].size \in Int
      /\ Sidxs \subseteq Int
  <2>1. i \in Roots /\ root[i].kind \in Opening /\ \A k \in Sidxs : i > k
    BY MediaStartIs DEF Refreshable
  <2> HIDE DEF i
  <2> QED BY <2>1, ShapeIs DEF Sidxs, BoxesOf
<1>2. st.segments = << >>
  <2>1. ~(i - 1 > 0 /\ root[i - 1].kind = "styp")
    <3> SUFFICES ASSUME i - 1 > 0, root[i - 1].kind = "styp" PROVE FALSE
      OBVIOUS
    <3>1. i - 1 \in Roots /\ i - 1 < MediaStart
      BY <1>1, ShapeIs
    <3>2. PICK s \in Sidxs : i - 1 = s - 1
      BY <3>1, FrontIs DEF Opening
    <3>3. s \in Int /\ s < i
      BY <1>1
    <3> HIDE DEF i
    <3> QED BY <1>1, <3>2, <3>3
  <2> QED BY <2>1 DEF InFront
<1>3. KnowsSidx(st, i)
  <2>1. \A s \in Sidxs : s <= i - 1 /\ s <= i
    <3> HIDE DEF i
    <3> SUFFICES ASSUME NEW s \in Sidxs PROVE s <= i - 1 /\ s <= i
      OBVIOUS
    <3>1. s \in Int /\ s < i /\ i \in Int
      BY <1>1
    <3> QED BY <3>1
  <2> QED BY <2>1 DEF InFront, KnowsSidx
<1>4. bytes[i].kind # "styp" => ShouldStart(bytes, st, bytes[i].offset)
  <2>0. Len(st.segments) = 0
    BY <1>2
  <2>1. CASE Sidxs = {}
    BY <1>3, <2>0, <2>1, ShouldStartIs DEF KnowsSidx
  <2>2. CASE Sidxs # {}
    <3>1. PICK s \in Sidxs : TRUE
      BY <2>2
    <3>2. st.existing = << s >>
      <4>1. s <= i
        <5> HIDE DEF i
        <5>1. s \in Int /\ s < i
          BY <1>1
        <5> QED BY <1>1, <5>1
      <4> QED BY <1>3, <4>1 DEF KnowsSidx
    <3>3. 1 \in DOMAIN bytes[s].entries /\ SegmentStarts(bytes[s])[1] = bytes[i].offset
      BY FirstReference DEF Refreshable
    <3> QED BY <2>0, <3>2, <3>3, ShouldStartIs
  <2> QED BY <2>1, <2>2
<1>5. Begins(st, next, i, bytes[i].kind = "moof")
  BY <1>1, <1>4, GroupBoxIs DEF Opening
<1>6. KnowsSidx(next, i)
  BY <1>3, <1>5 DEF KnowsSidx, Begins
<1>7. i \in Openers
  BY DEF Openers
<1> QED BY <1>1, <1>2, <1>5, <1>6, <1>7, OpenerFills

LEMMA LaterStep ==
  ASSUME Refreshable, ~Misled, NEW i \in Roots, i > MediaStart,
         NEW st \in Grouped(bytes), Filled(st, i - 1)
  PROVE  Filled(GroupBox(bytes, st, i), i)
<1> DEFINE next == GroupBox(bytes, st, i)
           n == Len(st.segments)
<1>1. /\ MediaStart \in Roots /\ \A k \in Sidxs : MediaStart > k
      /\ Roots \subseteq Nat /\ i \in DOMAIN bytes
      /\ bytes[i].kind = root[i].kind /\ bytes[i].size \in Int
      /\ Sidxs \subseteq Roots /\ BoxesOf(root, "moof") \subseteq Roots
  BY ShapeIs, MediaStartIs DEF Refreshable, Sidxs, BoxesOf
<1>2. \A k \in Sidxs : k < i - 1 \/ k = i - 1
  BY <1>1
<1>3. bytes[i].kind # "sidx"
  <2>1. i \notin Sidxs
    BY <1>1
  <2> QED BY <1>1, <2>1 DEF Sidxs, BoxesOf, Roots
<1>4. KnowsSidx(st, i)
  <2>1. \A s \in Sidxs : s <= i - 1 /\ s <= i
    BY <1>1
  <2> QED BY <2>1 DEF Filled, KnowsSidx
<1>5. n \in Nat /\ n > 0 /\ st.segments # << >>
  BY SegmentsAre DEF Filled
<1> DEFINE opens == \/ bytes[i].kind = "styp"
                    \/ /\ bytes[i].kind \in {"emsg", "moof"}
                       /\ ShouldStart(bytes, st, bytes[i].offset)
<1>6. CASE opens
  <2>1. Begins(st, next, i, bytes[i].kind = "moof")
    BY <1>1, <1>3, <1>6, GroupBoxIs
  <2>2. i \in Openers
    <3>1. CASE bytes[i].kind = "styp"
      <4>1. i \in BoxesOf(root, "styp")
        BY <1>1, <3>1 DEF BoxesOf, Roots
      <4>2. i + 1 \notin BoxesOf(root, "sidx")
        BY <1>1 DEF Sidxs
      <4> QED BY <4>1, <4>2 DEF Openers
    <3>2. CASE bytes[i].kind \in {"emsg", "moof"} /\ ShouldStart(bytes, st, bytes[i].offset)
      <4>1. i \in BoxesOf(root, "emsg") \cup BoxesOf(root, "moof")
        BY <1>1, <3>2 DEF BoxesOf, Roots
      <4>2. Sidxs # {}
        <5> SUFFICES ASSUME Sidxs = {} PROVE FALSE
          OBVIOUS
        <5>1. st.existing = << >>
          BY <1>4 DEF KnowsSidx
        <5>2. n = 0
          BY <3>2, <5>1, ShouldStartIs
        <5> QED BY <1>5, <5>2
      <4>3. PICK s \in Sidxs : TRUE
        BY <4>2
      <4>4. st.existing = << s >>
        <5>1. s <= i
          <6>1. s \in Int /\ i \in Int /\ (s < i - 1 \/ s = i - 1)
            BY <1>1, <1>2
          <6> QED BY <6>1
        <5> QED BY <1>4, <5>1 DEF KnowsSidx
      <4>5. /\ n + 1 \in DOMAIN bytes[s].entries
            /\ SegmentStarts(bytes[s])[n + 1] = bytes[i].offset
        BY <3>2, <4>4, ShouldStartIs
      <4>6. DOMAIN bytes[s].entries = DOMAIN root[s].entries
        BY FirstReference DEF Refreshable
      <4>7. SegmentStarts(root[s])[n + 1] = root[i].offset
        BY <1>1, <3>2, <4>5, <4>6 DEF Misled, Sidxs
      <4>8. IsReferred(i)
        BY <4>5, <4>6, <4>7 DEF IsReferred, Sidxs
      <4> QED BY <4>1, <4>8 DEF Openers
    <3> QED BY <1>6, <3>1, <3>2
  <2>3. KnowsSidx(next, i)
    BY <1>4, <2>1 DEF KnowsSidx, Begins
  <2> QED BY <2>1, <2>2, <2>3, OpenerFills
<1>7. CASE ~opens
  <2>1. GoesOn(st, next, i, bytes[i].kind = "moof")
    BY <1>1, <1>3, <1>5, <1>7, GroupBoxIs
  <2>2. KnowsSidx(next, i)
    BY <1>4, <2>1 DEF KnowsSidx, GoesOn
  <2>3. /\ Len(next.segments) = n
        /\ \A k \in 1..n : next.segments[k].first = st.segments[k].first
        /\ \A k \in 1..(n - 1) : next.segments[k].moofs = st.segments[k].moofs
        /\ next.segments[n].moofs = IF bytes[i].kind = "moof"
                                      THEN Append(st.segments[n].moofs, i)
                                      ELSE st.segments[n].moofs
    <3>1. n \in 1..n /\ \A k \in 1..(n - 1) : k \in 1..n /\ k # n
      BY <1>5
    <3> QED BY <2>1, <3>1 DEF GoesOn
  <2>4. next.segments[n].moofs # << >> \/ Waits(i)
    <3>1. CASE bytes[i].kind = "moof"
      <4>1. st.segments[n].moofs \in Seq(BoxesOf(bytes, "moof"))
        BY <1>5, SegmentsAre
      <4>2. Append(st.segments[n].moofs, i) # << >>
        BY <4>1
      <4> QED BY <2>3, <3>1, <4>2
    <3>2. CASE bytes[i].kind # "moof"
      <4>1. CASE st.segments[n].moofs # << >>
        BY <2>3, <3>2, <4>1
      <4>2. CASE st.segments[n].moofs = << >>
        <5>1. PICK x \in BoxesOf(root, "moof") :
                i - 1 < x /\ \A k \in ((i - 1) + 1)..x : k \notin Openers
          BY <4>2 DEF Filled, Waits
        <5>2. x # i
          BY <1>1, <3>2 DEF BoxesOf
        <5>3. i < x /\ \A k \in (i + 1)..x : k \in ((i - 1) + 1)..x
          BY <1>1, <5>1, <5>2
        <5> QED BY <5>1, <5>3 DEF Waits
      <4> QED BY <4>1, <4>2
    <3> QED BY <3>1, <3>2
  <2>5. next.segments # << >>
    <3>1. Len(<< >>) = 0
      OBVIOUS
    <3> QED BY <1>5, <2>3, <3>1
  <2>6. next.segments[1].first = MediaStart
    <3>1. 1 \in 1..n
      BY <1>5
    <3> QED BY <2>3, <3>1 DEF Filled
  <2> QED BY <2>2, <2>3, <2>4, <2>5, <2>6 DEF Filled
<1> QED BY <1>6, <1>7

LEMMA GroupingFills ==
  ASSUME Refreshable, ~Misled
  PROVE  /\ group_media_segments(bytes) \in Grouped(bytes)
         /\ Filled(group_media_segments(bytes), Len(root))
<1> DEFINE n == Len(root)
           F == MediaStart
<1>1. /\ n \in Nat /\ Roots = 1..n /\ DOMAIN bytes = 1..n /\ Len(bytes) = n
      /\ \A i \in 1..n : bytes[i].size \in Int
      /\ F \in 1..n /\ Sidxs \subseteq 1..n
  BY ShapeIs, MediaStartIs DEF Refreshable, Sidxs, BoxesOf
<1> HIDE DEF n, F
<1>2. PICK g : GroupingSteps(bytes, n, g)
  BY <1>1, GroupingIs
<1>3. /\ g[0] = [segments |-> << >>, existing |-> << >>]
      /\ \A i \in 1..n : g[i] = GroupBox(bytes, g[i - 1], i)
      /\ \A i \in 0..n : g[i] \in Grouped(bytes)
      /\ group_media_segments(bytes) = g[n]
  BY <1>2 DEF GroupingSteps
<1> DEFINE Reached(i) == IF i < F THEN InFront(g[i], i) ELSE Filled(g[i], i)
           T == { i \in 0..n : Reached(i) }
<1>4. 0 \in T
  <2>1. g[0].segments = << >> /\ g[0].existing = << >>
    BY <1>3
  <2>2. \A s \in Sidxs : ~(s <= 0)
    BY <1>1
  <2>3. InFront(g[0], 0)
    BY <2>1, <2>2 DEF InFront, KnowsSidx
  <2> QED BY <1>1, <2>3
<1>5. ASSUME NEW i \in 1..n, i - 1 \in T PROVE i \in T
  <2>1. /\ i - 1 \in 0..n /\ Reached(i - 1) /\ g[i - 1] \in Grouped(bytes)
        /\ g[i] = GroupBox(bytes, g[i - 1], i) /\ i \in Roots
    BY <1>1, <1>3, <1>5
  <2>2. CASE i < F
    <3>1. InFront(g[i - 1], i - 1)
      BY <1>1, <2>1, <2>2
    <3>2. InFront(g[i], i)
      BY <2>1, <2>2, <3>1, FrontStep DEF F
    <3> QED BY <2>2, <3>2
  <2>3. CASE i = F
    <3>1. InFront(g[i - 1], i - 1)
      BY <1>1, <2>1, <2>3
    <3>2. Filled(g[i], i)
      BY <2>1, <2>3, <3>1, FirstStep DEF F
    <3>3. ~(i < F)
      BY <1>1, <2>3
    <3> QED BY <3>2, <3>3
  <2>4. CASE i > F
    <3>1. Filled(g[i - 1], i - 1)
      BY <1>1, <2>1, <2>4
    <3>2. Filled(g[i], i)
      BY <2>1, <2>4, <3>1, LaterStep DEF F
    <3>3. ~(i < F)
      BY <1>1, <2>4
    <3> QED BY <3>2, <3>3
  <2> QED BY <1>1, <2>2, <2>3, <2>4
<1> HIDE DEF T
<1>6. 0..n \subseteq T
  BY <1>1, <1>4, <1>5, BoundedInduction
<1>7. n \in T /\ ~(n < F) /\ n \in 0..n
  BY <1>1, <1>6
<1>8. Filled(g[n], n)
  BY <1>7 DEF T
<1> QED BY <1>3, <1>7, <1>8 DEF n

(* The refresh of a file that can be indexed, and is not misled.           *)
LEMMA NothingRefused ==
  ASSUME Refreshable, ~Misled
  PROVE  PlanError(bytes) = "None"
<1> DEFINE grouped == group_media_segments(bytes)
           n == Len(grouped.segments)
<1>1. /\ Len(root) \in Nat /\ Roots = 1..Len(root) /\ DOMAIN root = Roots
      /\ DOMAIN bytes = Roots
      /\ \A i \in Roots : bytes[i].kind = root[i].kind /\ FieldsKept(root[i], bytes[i])
  BY ShapeIs DEF Refreshable, KeepsFields, Roots, root
<1>2. \A kind : BoxesOf(bytes, kind) = BoxesOf(root, kind)
  BY <1>1 DEF BoxesOf
<1>3. grouped \in Grouped(bytes) /\ Filled(grouped, Len(root))
  BY GroupingFills
<1> HIDE DEF grouped
<1>4. PICK v \in BoxesOf(root, "moov") : TRUE
  BY DEF Refreshable, Indexable
<1>5. /\ BoxesOf(root, "moov") = {v} /\ root[v].mvex /\ root[v].tracks # << >>
      /\ TimingTrack(root[v]) \in root[v].extended
      /\ v \in Roots /\ root[v].kind = "moov"
  BY <1>1 DEF Refreshable, Indexable, BoxesOf
<1>6. Min({v}) = v
  <2>1. v \in Int
    BY <1>1, <1>5
  <2> QED BY <2>1 DEF Min
<1> DEFINE track == TimingTrack(root[v])
<1>7. /\ bytes[v].mvex = root[v].mvex /\ bytes[v].tracks = root[v].tracks
      /\ bytes[v].extended = root[v].extended
      /\ TimingTrack(bytes[v]) = track
  <2>1. /\ bytes[v].mvex = root[v].mvex /\ bytes[v].tracks = root[v].tracks
        /\ bytes[v].extended = root[v].extended
    BY <1>1, <1>5 DEF FieldsKept
  <2> QED BY <2>1 DEF TimingTrack
<1>8. InitError(bytes) = "None"
  BY <1>2, <1>5, <1>6, <1>7 DEF InitError
<1> HIDE DEF track
<1>9. /\ \/ grouped.existing = << >>
         \/ \E s \in Sidxs : grouped.existing = << s >>
      /\ grouped.segments # << >>
      /\ n \in Nat /\ n > 0
  <2>1. n \in Nat /\ n > 0 /\ grouped.segments # << >>
    BY <1>3, SegmentsAre DEF Filled
  <2>2. CASE Sidxs = {}
    BY <1>3, <2>1, <2>2 DEF Filled, KnowsSidx
  <2>3. CASE Sidxs # {}
    <3>1. PICK s \in Sidxs : TRUE
      BY <2>3
    <3> QED BY <1>3, <2>1, <3>1 DEF Filled, KnowsSidx
  <2> QED BY <2>2, <2>3
<1>10. \A s \in Sidxs : ~bytes[s].chained
  BY <1>1 DEF Sidxs, BoxesOf, FieldsKept, Refreshable, Indexable
<1>11. GroupError(bytes, grouped) = "None"
  <2>1. \A k \in DOMAIN grouped.existing : ~bytes[grouped.existing[k]].chained
    <3>1. CASE grouped.existing = << >>
      BY <3>1
    <3>2. CASE \E s \in Sidxs : grouped.existing = << s >>
      BY <1>10, <3>2
    <3> QED BY <1>9, <3>1, <3>2
  <2> QED BY <1>9, <2>1 DEF GroupError
<1>12. ASSUME NEW k \in 1..n
       PROVE  SegmentError(bytes, grouped.segments[k], track) = "None"
  <2> DEFINE moofs == grouped.segments[k].moofs
             trafs == UNION { { bytes[m].trafs[t] : t \in TimingTrafs(bytes[m], track) } :
                                m \in ToSet(moofs) }
  <2>1. moofs # << >>
    <3>1. ~Waits(Len(root))
      <4>1. \A m \in BoxesOf(root, "moof") : ~(Len(root) < m)
        BY <1>1 DEF BoxesOf
      <4> QED BY <4>1 DEF Waits
    <3>2. k = n \/ k \in 1..(n - 1)
      BY <1>9
    <3> QED BY <1>3, <3>1, <3>2 DEF Filled
  <2>2. moofs \in Seq(BoxesOf(root, "moof"))
    BY <1>2, <1>3, SegmentsAre
  <2> HIDE DEF moofs
  <2>3. ToSet(moofs) \subseteq BoxesOf(root, "moof") /\ ToSet(moofs) # {}
    <3>1. Len(moofs) \in Nat /\ DOMAIN moofs = 1..Len(moofs) /\ Len(moofs) # 0
      BY <2>1, <2>2
    <3>2. 1 \in DOMAIN moofs /\ \A x \in DOMAIN moofs : moofs[x] \in BoxesOf(root, "moof")
      BY <2>2, <3>1
    <3>3. ToSet(moofs) = { moofs[x] : x \in DOMAIN moofs }
      BY DEF ToSet
    <3> QED BY <3>2, <3>3
  <2>4. ASSUME NEW m \in ToSet(moofs)
        PROVE  /\ TimingTrafs(bytes[m], track) # {}
               /\ \A t \in TimingTrafs(bytes[m], track) : bytes[m].trafs[t].tfdt # None
    <3>1. m \in BoxesOf(root, "moof") /\ m \in Roots /\ root[m].kind = "moof"
      BY <2>3 DEF BoxesOf, Roots
    <3>2. /\ TimingTrafs(root[m], track) # {}
          /\ \A t \in TimingTrafs(root[m], track) : root[m].trafs[t].tfdt # None
      <4>1. Timed(m)
        BY <3>1 DEF Refreshable, Indexable
      <4> QED BY <1>5, <1>6, <4>1 DEF Timed, track
    <3>3. /\ DOMAIN bytes[m].trafs = DOMAIN root[m].trafs
          /\ \A t \in DOMAIN root[m].trafs :
               /\ bytes[m].trafs[t].track = root[m].trafs[t].track
               /\ bytes[m].trafs[t].tfdt = root[m].trafs[t].tfdt
      BY <1>1, <3>1 DEF FieldsKept
    <3>4. TimingTrafs(bytes[m], track) = TimingTrafs(root[m], track)
      BY <3>3 DEF TimingTrafs
    <3>5. \A t \in TimingTrafs(root[m], track) : t \in DOMAIN root[m].trafs
      BY DEF TimingTrafs
    <3> QED BY <3>2, <3>3, <3>4, <3>5
  <2>5. trafs # {} /\ ~ \E traf \in trafs : traf.tfdt = None
    <3>1. PICK m \in ToSet(moofs) : TRUE
      BY <2>3
    <3>2. PICK t \in TimingTrafs(bytes[m], track) : TRUE
      BY <2>4
    <3>3. bytes[m].trafs[t] \in trafs
      OBVIOUS
    <3>4. \A traf \in trafs : \E x \in ToSet(moofs) : \E y \in TimingTrafs(bytes[x], track) :
            traf = bytes[x].trafs[y]
      OBVIOUS
    <3> HIDE DEF trafs
    <3> QED BY <2>4, <3>3, <3>4
  <2> HIDE DEF trafs
  <2> QED BY <2>1, <2>5 DEF SegmentError, trafs, moofs
<1>13. AnalysisError(bytes) = "None"
  <2>1. DOMAIN grouped.segments = 1..n
    BY <1>3, SegmentsAre
  <2>2. BoxesOf(bytes, "moov") = {v}
    BY <1>2, <1>5
  <2>3. { k \in DOMAIN grouped.segments :
            SegmentError(bytes, grouped.segments[k], track) # "None" } = {}
    BY <1>12, <2>1
  <2> QED BY <1>6, <1>7, <1>8, <1>11, <2>2, <2>3 DEF AnalysisError, grouped
<1>14. PlacementError(bytes, grouped) = "None"
  <2>1. CASE grouped.existing = << >>
    <3>1. Len(grouped.existing) = 0
      BY <2>1
    <3> QED BY <3>1 DEF PlacementError
  <2>2. CASE \E s \in Sidxs : grouped.existing = << s >>
    <3>1. PICK s \in Sidxs : grouped.existing = << s >>
      BY <2>2
    <3>2. Len(grouped.existing) = 1 /\ grouped.existing[1] = s
      BY <3>1
    <3>3. 1 \in DOMAIN bytes[s].entries /\ SegmentStarts(bytes[s])[1] = bytes[MediaStart].offset
      BY FirstReference DEF Refreshable
    <3>4. SegmentStarts(bytes[s]) # << >>
      <4>1. 1 \in DOMAIN SegmentStarts(bytes[s])
        BY <3>3 DEF SegmentStarts
      <4> QED BY <4>1
    <3>5. grouped.segments[1].first = MediaStart
      BY <1>3 DEF Filled
    <3> QED BY <3>2, <3>3, <3>4, <3>5 DEF PlacementError
  <2> QED BY <1>9, <2>1, <2>2
<1> QED BY <1>13, <1>14 DEF PlanError, grouped

(* What is refused, is refused for one of these reasons.                   *)
RefusalInv ==
  /\ pc = "samples" => request.operation # "refresh"
  /\ pc = "plan_sidx" => KeepsFields(request, bytes) /\ request.operation # "segment"
  /\ pc = "failed" =>
       \/ error = "Malformed"
       \/ /\ request.operation # "refresh"
          /\ \E i \in BoxesOf(root, "moof") : ~SamplesFound(i)
       \/ /\ request.operation # "segment" /\ PlanError(bytes) # "None"
          /\ IsCopy(request, moof_replacements, bytes) /\ KeepsFields(request, bytes)

LEMMA InitRefusal == Init => RefusalInv
<1> SUFFICES ASSUME Init PROVE RefusalInv
  OBVIOUS
<1>1. /\ request \in Requests /\ bytes = request.root_boxes
      /\ pc = IF request.operation = "refresh" THEN "plan_sidx" ELSE "samples"
  BY DEF Init
<1>2. KeepsFields(request, bytes)
  BY <1>1, InputKeepsFields
<1> QED BY <1>1, <1>2 DEF RefusalInv

LEMMA RefusalKeeps == IInv /\ RefusalInv /\ [Next]_vars => RefusalInv'
<1> SUFFICES ASSUME IInv, RefusalInv, [Next]_vars PROVE RefusalInv'
  OBVIOUS
<1>1. CASE UNCHANGED vars
  <2>1. /\ request' = request /\ pc' = pc /\ error' = error /\ bytes' = bytes
        /\ moof_replacements' = moof_replacements /\ root' = root
    BY <1>1 DEF vars, planVars, root
  <2>2. \A i : SamplesFound(i)' = SamplesFound(i)
    BY <2>1 DEF SamplesFound, Roots
  <2> QED BY <2>1, <2>2 DEF RefusalInv
<1>2. CASE Malformed
  BY <1>2 DEF Malformed, Fail, RefusalInv
<1>3. CASE DecryptSamples
  <2>1. /\ request' = request /\ root' = root /\ pc = "samples" /\ pc' \in {"moofs", "failed"}
        /\ pc' = "failed" => \E i \in BoxesOf(root, "moof") : ~SamplesFound(i)
    BY <1>3 DEF DecryptSamples, Fail, root
  <2>2. \A i : SamplesFound(i)' = SamplesFound(i)
    BY <2>1 DEF SamplesFound, Roots
  <2> QED BY <2>1, <2>2 DEF RefusalInv
<1>4. CASE ReplaceMoof \/ RebuildMoov \/ ReplaceMfra \/ ApplySidx
  <2>1. pc' \in {"moofs", "in_place", "mfra", "root", "done"}
    BY <1>4 DEF ReplaceMoof, RebuildMoov, ReplaceMfra, ApplySidx
  <2> QED BY <2>1 DEF RefusalInv
<1>5. CASE RebuildRoot \/ RewriteInPlace
  <2>1. /\ request' = request /\ request \in Requests
        /\ pc' = IF request.operation = "file" THEN "plan_sidx" ELSE "done"
    BY <1>5 DEF RebuildRoot, RewriteInPlace, AfterRewrite, IInv
  <2>2. KeepsFields(request, bytes')
    <3>1. CASE RebuildRoot
      <4>1. RewriteMade
        BY <3>1 DEF RebuildRoot, IInv, PlansInv, RewriteMade
      <4>2. bytes' = Relaid(RebuiltBoxes)
        BY <3>1 DEF RebuildRoot, RebuiltBoxes
      <4> QED BY <2>1, <4>1, <4>2, RebuildKeepsFields
    <3>2. CASE RewriteInPlace
      <4>1. bytes' = WithoutMetadata(request.root_boxes)
        BY <3>2 DEF RewriteInPlace, WithoutMetadata, Roots, root
      <4> QED BY <2>1, <4>1, InPlaceKeepsFields
    <3> QED BY <1>5, <3>1, <3>2
  <2> QED BY <2>1, <2>2 DEF RefusalInv
<1>6. CASE PlanSidx
  <2>1. /\ request' = request /\ bytes' = bytes /\ moof_replacements' = moof_replacements
        /\ pc = "plan_sidx" /\ pc' \in {"failed", "done", "apply_sidx"}
        /\ pc' = "failed" => PlanError(bytes) # "None"
    BY <1>6 DEF PlanSidx, Fail, planVars
  <2>2. IsCopy(request, moof_replacements, bytes)
    BY <2>1 DEF IInv, BytesInv
  <2> QED BY <2>1, <2>2 DEF RefusalInv
<1> QED BY <1>1, <1>2, <1>3, <1>4, <1>5, <1>6 DEF Next, Advance, Returned

(* For all requests: if the samples are there and the fragments can be     *)
(* indexed, nothing but malformed metadata makes the decryption or the     *)
(* refresh fail, unless a reference that was not its own misleads the      *)
(* grouping (should_start_segment in sidx.rs).                             *)
THEOREM SoundRequestsAlwaysSucceed == Spec => []SoundRequestSucceeds
<1>1. Init => RefusalInv
  BY InitRefusal
<1>2. IInv /\ RefusalInv /\ [Next]_vars => RefusalInv'
  BY RefusalKeeps
<1>3. IInv /\ RefusalInv => SoundRequestSucceeds
  <2> SUFFICES ASSUME IInv, RefusalInv, pc = "failed", SoundRequest, ~Misled,
                      error # "Malformed"
               PROVE  FALSE
    BY DEF SoundRequestSucceeds
  <2>1. /\ request.operation # "segment" /\ PlanError(bytes) # "None"
        /\ IsCopy(request, moof_replacements, bytes) /\ KeepsFields(request, bytes)
    BY DEF RefusalInv, SoundRequest
  <2>2. Refreshable
    BY <2>1 DEF Refreshable, SoundRequest, IInv
  <2> QED BY <2>1, <2>2, NothingRefused
<1> QED BY <1>1, <1>2, <1>3, OutputIs, PTL DEF Spec

-----------------------------------------------------------------------------
(* The same steps with all that they do: the last segment is replaced, or  *)
(* another is put behind it.                                               *)
ReplacesLast(st, next, segment) ==
  /\ next.existing = st.existing /\ Len(next.segments) = Len(st.segments)
  /\ \A k \in 1..Len(st.segments) :
       next.segments[k] = IF k = Len(st.segments) THEN segment ELSE st.segments[k]

Pushes(st, next, segment) ==
  /\ next.existing = st.existing /\ Len(next.segments) = Len(st.segments) + 1
  /\ \A k \in 1..Len(st.segments) : next.segments[k] = st.segments[k]
  /\ next.segments[Len(st.segments) + 1] = segment

(* A segment that takes box i, and one that begins there.                  *)
Extended(boxes, segment, i) ==
  [ first |-> segment.first,
    moofs |-> IF boxes[i].kind = "moof" THEN Append(segment.moofs, i) ELSE segment.moofs,
    size |-> IF boxes[i].kind = "sidx" /\ segment.sidx_count # 0 THEN segment.size
             ELSE segment.size + boxes[i].size,
    sidx_count |-> IF boxes[i].kind = "sidx" THEN segment.sidx_count + 1
                   ELSE segment.sidx_count ]

Fresh(i) == [first |-> i, moofs |-> << >>, size |-> 0, sidx_count |-> 0]

Opened(boxes, i) == Extended(boxes, Fresh(i), i)

Opens(boxes, st, i) ==
  \/ boxes[i].kind = "styp"
  \/ boxes[i].kind = "sidx" /\ PreviousKind(boxes, i) = "mdat"
  \/ boxes[i].kind \in {"emsg", "moof"} /\ ShouldStart(boxes, st, boxes[i].offset)

(* Box i is taken for the sidx of the file.                                *)
IsTaken(boxes, st, i) ==
  /\ boxes[i].kind = "sidx" /\ PreviousKind(boxes, i) # "mdat"
  /\ \/ st.segments = << >>
     \/ PreviousKind(boxes, i) = "styp" /\ IsPendingStyp(boxes, Last(st.segments))

LEMMA AddsReplaceLast ==
  ASSUME NEW boxes, NEW st \in Grouped(boxes), st.segments # << >>,
         NEW i \in DOMAIN boxes, boxes[i].size \in Int
  PROVE  LET last == st.segments[Len(st.segments)]
         IN  /\ ReplacesLast(st, AddSize(st, boxes[i]),
                  [last EXCEPT !.size = last.size + boxes[i].size])
             /\ ReplacesLast(st, AddMoof(st, i),
                  [last EXCEPT !.moofs = Append(last.moofs, i)])
             /\ ReplacesLast(st, AddSidx(st),
                  [last EXCEPT !.sidx_count = last.sidx_count + 1])
<1> DEFINE last == st.segments[Len(st.segments)]
<1>1. /\ AddSize(st, boxes[i]) = UpdateLast(st, [last EXCEPT !.size = last.size + boxes[i].size])
      /\ AddMoof(st, i) = UpdateLast(st, [last EXCEPT !.moofs = Append(last.moofs, i)])
      /\ AddSidx(st) = UpdateLast(st, [last EXCEPT !.sidx_count = last.sidx_count + 1])
  BY DEF AddSize, AddMoof, AddSidx, Last
<1>2. \A segment : ReplacesLast(st, UpdateLast(st, segment), segment)
  BY UpdateLastIs DEF ReplacesLast
<1> HIDE DEF last
<1> QED BY <1>1, <1>2 DEF last

LEMMA ReplacesTwice ==
  ASSUME NEW boxes, NEW st \in Grouped(boxes), NEW mid, NEW next, NEW a, NEW b,
         ReplacesLast(st, mid, a), ReplacesLast(mid, next, b)
  PROVE  ReplacesLast(st, next, b)
BY SegmentsAre DEF ReplacesLast

LEMMA PushesAndReplaces ==
  ASSUME NEW boxes, NEW st \in Grouped(boxes), NEW mid, NEW next, NEW a, NEW b,
         Pushes(st, mid, a), ReplacesLast(mid, next, b)
  PROVE  Pushes(st, next, b)
<1> DEFINE n == Len(st.segments)
<1>1. n \in Nat
  BY SegmentsAre
<1>2. /\ Len(mid.segments) = n + 1 /\ Len(next.segments) = n + 1
      /\ next.existing = st.existing
  BY DEF Pushes, ReplacesLast
<1> HIDE DEF n
<1>3. n + 1 \in 1..(n + 1) /\ \A k \in 1..n : k \in 1..(n + 1) /\ k # n + 1
  BY <1>1
<1>4. \A k \in 1..n : next.segments[k] = st.segments[k]
  BY <1>2, <1>3 DEF Pushes, ReplacesLast, n
<1>5. next.segments[n + 1] = b
  BY <1>2, <1>3 DEF ReplacesLast
<1> QED BY <1>2, <1>4, <1>5 DEF Pushes, n

LEMMA LastFound ==
  ASSUME NEW st, NEW next, NEW segment, ReplacesLast(st, next, segment),
         NEW boxes, st \in Grouped(boxes), st.segments # << >>
  PROVE  next.segments[Len(next.segments)] = segment /\ next.segments # << >>
<1>1. Len(st.segments) \in 1..Len(st.segments) /\ Len(st.segments) \in Nat
  BY SegmentsAre
<1>2. Len(next.segments) = Len(st.segments)
  BY DEF ReplacesLast
<1>3. Len(next.segments) # 0 /\ Len(<< >>) = 0
  BY <1>1, <1>2
<1> QED BY <1>1, <1>2, <1>3 DEF ReplacesLast

(* A segment as it is when a box was added to it.                          *)
LEMMA ExtendsLast ==
  ASSUME NEW boxes, NEW st \in Grouped(boxes), st.segments # << >>,
         NEW i \in DOMAIN boxes, boxes[i].size \in Int
  PROVE  LET last == st.segments[Len(st.segments)]
         IN  /\ boxes[i].kind \notin {"moof", "sidx"} =>
                  ReplacesLast(st, AddSize(st, boxes[i]), Extended(boxes, last, i))
             /\ boxes[i].kind = "moof" =>
                  ReplacesLast(st, AddMoof(AddSize(st, boxes[i]), i), Extended(boxes, last, i))
             /\ boxes[i].kind = "sidx" /\ last.sidx_count = 0 =>
                  ReplacesLast(st, AddSidx(AddSize(st, boxes[i])), Extended(boxes, last, i))
             /\ boxes[i].kind = "sidx" /\ last.sidx_count # 0 =>
                  ReplacesLast(st, AddSidx(st), Extended(boxes, last, i))
<1> DEFINE last == st.segments[Len(st.segments)]
           sized == [last EXCEPT !.size = last.size + boxes[i].size]
           mid == AddSize(st, boxes[i])
<1>1. last \in Segment(boxes) /\ DOMAIN last = {"first", "moofs", "size", "sidx_count"}
  BY SegmentsAre
<1>2. /\ ReplacesLast(st, mid, sized)
      /\ ReplacesLast(st, AddSidx(st), [last EXCEPT !.sidx_count = last.sidx_count + 1])
  BY AddsReplaceLast
<1>3. mid \in Grouped(boxes) /\ mid.segments # << >>
      /\ mid.segments[Len(mid.segments)] = sized
  <2>1. mid \in Grouped(boxes)
    BY AddsKeep
  <2> HIDE DEF mid, sized
  <2> QED BY <1>2, <2>1, LastFound
<1>4. /\ ReplacesLast(mid, AddMoof(mid, i), [sized EXCEPT !.moofs = Append(sized.moofs, i)])
      /\ ReplacesLast(mid, AddSidx(mid), [sized EXCEPT !.sidx_count = sized.sidx_count + 1])
  <2> HIDE DEF mid, sized
  <2> QED BY <1>3, AddsReplaceLast
<1>5. /\ ReplacesLast(st, AddMoof(mid, i), [sized EXCEPT !.moofs = Append(sized.moofs, i)])
      /\ ReplacesLast(st, AddSidx(mid), [sized EXCEPT !.sidx_count = sized.sidx_count + 1])
  <2> HIDE DEF mid, sized
  <2> QED BY <1>2, <1>4, ReplacesTwice
<1> HIDE DEF mid, last
<1>6. sized = [first |-> last.first, moofs |-> last.moofs,
               size |-> last.size + boxes[i].size, sidx_count |-> last.sidx_count]
  BY <1>1
<1>7. [last EXCEPT !.sidx_count = last.sidx_count + 1]
        = [first |-> last.first, moofs |-> last.moofs, size |-> last.size,
           sidx_count |-> last.sidx_count + 1]
  BY <1>1
<1>8. sized \in Segment(boxes)
  <2>1. last.size \in Int
    BY <1>1 DEF Segment
  <2>2. last.size + boxes[i].size \in Int
    BY <2>1
  <2> QED BY <1>1, <2>2 DEF Segment
<1> HIDE DEF sized
<1>9. /\ [sized EXCEPT !.moofs = Append(sized.moofs, i)]
           = [first |-> last.first, moofs |-> Append(last.moofs, i),
              size |-> last.size + boxes[i].size, sidx_count |-> last.sidx_count]
      /\ [sized EXCEPT !.sidx_count = sized.sidx_count + 1]
           = [first |-> last.first, moofs |-> last.moofs,
              size |-> last.size + boxes[i].size, sidx_count |-> last.sidx_count + 1]
  <2>1. /\ DOMAIN sized = {"first", "moofs", "size", "sidx_count"}
        /\ sized.first = last.first /\ sized.moofs = last.moofs
        /\ sized.size = last.size + boxes[i].size /\ sized.sidx_count = last.sidx_count
    BY <1>6
  <2>2. \A v : [sized EXCEPT !.moofs = v]
                 = [first |-> sized.first, moofs |-> v, size |-> sized.size,
                    sidx_count |-> sized.sidx_count]
    BY <1>8 DEF Segment
  <2>3. [sized EXCEPT !.sidx_count = sized.sidx_count + 1]
          = [first |-> sized.first, moofs |-> sized.moofs,
             size |-> sized.size, sidx_count |-> sized.sidx_count + 1]
    BY <1>8 DEF Segment
  <2> QED BY <2>1, <2>2, <2>3
<1>10. ASSUME boxes[i].kind \notin {"moof", "sidx"} PROVE sized = Extended(boxes, last, i)
  BY <1>6, <1>10 DEF Extended
<1>11. ASSUME boxes[i].kind = "moof"
       PROVE  [sized EXCEPT !.moofs = Append(sized.moofs, i)] = Extended(boxes, last, i)
  BY <1>9, <1>11 DEF Extended
<1>12. ASSUME boxes[i].kind = "sidx", last.sidx_count = 0
       PROVE  [sized EXCEPT !.sidx_count = sized.sidx_count + 1] = Extended(boxes, last, i)
  BY <1>9, <1>12 DEF Extended
<1>13. ASSUME boxes[i].kind = "sidx", last.sidx_count # 0
       PROVE  [last EXCEPT !.sidx_count = last.sidx_count + 1] = Extended(boxes, last, i)
  BY <1>7, <1>13 DEF Extended
<1> QED BY <1>2, <1>5, <1>10, <1>11, <1>12, <1>13 DEF mid, last, sized

-----------------------------------------------------------------------------
LEMMA Starts ==
  ASSUME NEW boxes, NEW st \in Grouped(boxes), NEW i \in DOMAIN boxes
  PROVE  /\ Pushes(st, StartSegment(st, i), Fresh(i))
         /\ StartSegment(st, i) \in Grouped(boxes)
         /\ StartSegment(st, i).segments # << >>
         /\ StartSegment(st, i).segments[Len(StartSegment(st, i).segments)] = Fresh(i)
<1> DEFINE s == st.segments
           new == Fresh(i)
           t == Append(s, new)
           next == StartSegment(st, i)
<1>1. next = [st EXCEPT !.segments = t]
  BY DEF StartSegment, Fresh
<1>2. /\ DOMAIN st = {"segments", "existing"} /\ DOMAIN s = 1..Len(s) /\ Len(s) \in Nat
      /\ s \in Seq(Segment(boxes))
  BY SegmentsAre
<1>3. next.segments = t /\ next.existing = st.existing
  <2> HIDE DEF t, s, next
  <2> QED BY <1>1, <1>2
<1>4. next \in Grouped(boxes)
  BY StartSegmentKeeps
<1> HIDE DEF s, next, new
<1>5. Len(t) = Len(s) + 1 /\ t[Len(s) + 1] = new /\ (\A k \in 1..Len(s) : t[k] = s[k])
      /\ t # << >>
  BY <1>2
<1> HIDE DEF t
<1>6. Pushes(st, next, new)
  BY <1>3, <1>5 DEF Pushes, s
<1> QED BY <1>3, <1>4, <1>5, <1>6 DEF next, new

(* What a box does to the segments.                                        *)
LEMMA StepIs ==
  ASSUME NEW boxes, NEW st \in Grouped(boxes), NEW i \in DOMAIN boxes,
         boxes[i].size \in Int
  PROVE  LET next == GroupBox(boxes, st, i)
         IN  /\ boxes[i].kind \notin MediaKinds => next = st
             /\ IsTaken(boxes, st, i) =>
                  /\ next.existing = Append(st.existing, i)
                  /\ next.segments = IF st.segments = << >> THEN << >>
                                     ELSE Front(st.segments)
             /\ Opens(boxes, st, i) => Pushes(st, next, Opened(boxes, i))
             /\ boxes[i].kind \in MediaKinds /\ ~IsTaken(boxes, st, i) /\ ~Opens(boxes, st, i) =>
                  IF st.segments = << >>
                    THEN next.existing = st.existing /\ next.segments = << >>
                    ELSE ReplacesLast(st, next,
                           Extended(boxes, st.segments[Len(st.segments)], i))
<1> DEFINE next == GroupBox(boxes, st, i)
           box == boxes[i]
           fresh == StartSegment(st, i)
           last == st.segments[Len(st.segments)]
<1>1. /\ Pushes(st, fresh, Fresh(i)) /\ fresh \in Grouped(boxes)
      /\ fresh.segments # << >> /\ fresh.segments[Len(fresh.segments)] = Fresh(i)
  BY Starts
<1>2. /\ box.kind \notin {"moof", "sidx"} =>
           Pushes(st, AddSize(fresh, box), Opened(boxes, i))
      /\ box.kind = "moof" => Pushes(st, AddMoof(AddSize(fresh, box), i), Opened(boxes, i))
      /\ box.kind = "sidx" => Pushes(st, AddSidx(AddSize(fresh, box)), Opened(boxes, i))
  <2> HIDE DEF fresh
  <2>1. Fresh(i).sidx_count = 0
    BY DEF Fresh
  <2>2. /\ box.kind \notin {"moof", "sidx"} =>
             ReplacesLast(fresh, AddSize(fresh, box), Opened(boxes, i))
        /\ box.kind = "moof" =>
             ReplacesLast(fresh, AddMoof(AddSize(fresh, box), i), Opened(boxes, i))
        /\ box.kind = "sidx" =>
             ReplacesLast(fresh, AddSidx(AddSize(fresh, box)), Opened(boxes, i))
    BY <1>1, <2>1, ExtendsLast DEF Opened
  <2> HIDE DEF box
  <2> QED BY <1>1, <2>2, PushesAndReplaces
<1>3. st.segments # << >> =>
        /\ box.kind \notin {"moof", "sidx"} =>
             ReplacesLast(st, AddSize(st, box), Extended(boxes, last, i))
        /\ box.kind = "moof" =>
             ReplacesLast(st, AddMoof(AddSize(st, box), i), Extended(boxes, last, i))
        /\ box.kind = "sidx" /\ last.sidx_count = 0 =>
             ReplacesLast(st, AddSidx(AddSize(st, box)), Extended(boxes, last, i))
        /\ box.kind = "sidx" /\ last.sidx_count # 0 =>
             ReplacesLast(st, AddSidx(st), Extended(boxes, last, i))
  BY ExtendsLast
<1>4. st.segments = << >> =>
        /\ AddSize(st, box) = st /\ AddMoof(st, i) = st /\ AddSidx(st) = st
  BY DEF AddSize, AddMoof, AddSidx, UpdateLast
<1>5. DOMAIN st = {"segments", "existing"}
  BY SegmentsAre
<1> HIDE DEF fresh, last
<1>6. CASE box.kind = "styp"
  <2>1. next = AddSize(fresh, box)
    BY <1>6 DEF GroupBox, GroupStyp, fresh
  <2> QED BY <1>2, <1>6, <2>1 DEF MediaKinds, Opens, IsTaken
<1>7. CASE box.kind = "sidx"
  <2>1. next = GroupSidx(boxes, st, i)
    BY <1>7 DEF GroupBox
  <2>2. CASE PreviousKind(boxes, i) = "mdat"
    <3>1. next = AddSidx(AddSize(fresh, box))
      BY <2>1, <2>2 DEF GroupSidx, fresh
    <3> QED BY <1>2, <1>7, <2>2, <3>1 DEF MediaKinds, Opens, IsTaken
  <2>3. CASE IsTaken(boxes, st, i)
    <3>1. ~Opens(boxes, st, i)
      BY <1>7, <2>3 DEF Opens, IsTaken
    <3>2. CASE st.segments = << >>
      BY <1>5, <1>7, <2>3, <3>1, <3>2, GroupSidxIs DEF IsTaken, MediaKinds
    <3>3. CASE st.segments # << >>
      BY <1>5, <1>7, <2>3, <3>1, <3>3, GroupSidxIs DEF IsTaken, MediaKinds
    <3> QED BY <3>2, <3>3
  <2>4. CASE PreviousKind(boxes, i) # "mdat" /\ ~IsTaken(boxes, st, i)
    <3>1. st.segments # << >>
      BY <1>7, <2>4 DEF IsTaken
    <3>2. next = AddSidx(IF Last(st.segments).sidx_count = 0 THEN AddSize(st, box) ELSE st)
      BY <1>7, <2>1, <2>4, <3>1 DEF GroupSidx, IsTaken
    <3>3. Last(st.segments) = last
      BY DEF Last, last
    <3>4. ReplacesLast(st, next, Extended(boxes, last, i))
      <4>1. CASE last.sidx_count = 0
        BY <1>3, <1>7, <3>1, <3>2, <3>3, <4>1
      <4>2. CASE last.sidx_count # 0
        BY <1>3, <1>7, <3>1, <3>2, <3>3, <4>2
      <4> QED BY <4>1, <4>2
    <3>5. ~Opens(boxes, st, i)
      BY <1>7, <2>4 DEF Opens
    <3> QED BY <1>7, <2>4, <3>1, <3>4, <3>5 DEF MediaKinds, last
  <2> QED BY <2>2, <2>3, <2>4
<1>8. CASE box.kind \in {"emsg", "moof"}
  <2>1. next = GroupFragment(boxes, st, i) /\ ~IsTaken(boxes, st, i)
    BY <1>8 DEF GroupBox, IsTaken
  <2>2. CASE ShouldStart(boxes, st, box.offset)
    <3>1. next = IF box.kind = "moof" THEN AddMoof(AddSize(fresh, box), i)
                 ELSE AddSize(fresh, box)
      BY <2>1, <2>2 DEF GroupFragment, fresh
    <3>2. Pushes(st, next, Opened(boxes, i))
      <4>1. CASE box.kind = "moof"
        BY <1>2, <3>1, <4>1
      <4>2. CASE box.kind # "moof"
        BY <1>2, <1>8, <3>1, <4>2
      <4> QED BY <4>1, <4>2
    <3> QED BY <1>8, <2>1, <2>2, <3>2 DEF MediaKinds, Opens
  <2>3. CASE ~ShouldStart(boxes, st, box.offset)
    <3>1. next = IF box.kind = "moof" THEN AddMoof(AddSize(st, box), i) ELSE AddSize(st, box)
      BY <2>1, <2>3 DEF GroupFragment
    <3>2. st.segments # << >> => ReplacesLast(st, next, Extended(boxes, last, i))
      <4>1. CASE box.kind = "moof"
        BY <1>3, <3>1, <4>1
      <4>2. CASE box.kind # "moof"
        BY <1>3, <1>8, <3>1, <4>2
      <4> QED BY <4>1, <4>2
    <3>3. st.segments = << >> => next = st
      BY <1>4, <3>1
    <3>4. ~Opens(boxes, st, i)
      BY <1>8, <2>3 DEF Opens
    <3> QED BY <1>8, <2>1, <3>2, <3>3, <3>4 DEF MediaKinds, last
  <2> QED BY <2>2, <2>3
<1>9. CASE box.kind = "mdat"
  <2>1. next = AddSize(st, box)
    BY <1>9 DEF GroupBox
  <2>2. ~Opens(boxes, st, i) /\ ~IsTaken(boxes, st, i)
    BY <1>9 DEF Opens, IsTaken
  <2>3. CASE st.segments = << >>
    BY <1>4, <1>9, <2>1, <2>2, <2>3 DEF MediaKinds
  <2>4. CASE st.segments # << >>
    BY <1>3, <1>9, <2>1, <2>2, <2>4 DEF MediaKinds, last
  <2> QED BY <2>3, <2>4
<1>10. CASE box.kind \notin MediaKinds
  <2>1. next = st
    BY <1>10 DEF GroupBox, MediaKinds
  <2>2. ~Opens(boxes, st, i) /\ ~IsTaken(boxes, st, i)
    BY <1>10 DEF Opens, IsTaken, MediaKinds
  <2> QED BY <1>10, <2>1, <2>2
<1> QED BY <1>6, <1>7, <1>8, <1>9, <1>10 DEF MediaKinds

-----------------------------------------------------------------------------
(* A file: boxes one behind the other, none of them empty.                 *)
IsFile(A, n) ==
  /\ n \in Nat \ {0} /\ IsRow(A, n) /\ LaidSizes(A) /\ IsLaid(A)
  /\ \A i \in 1..n : A[i].offset \in Int /\ A[i].size \in Nat \ {0}
  /\ \A i \in 1..n : A[i].kind = "sidx" =>
                       A[i].first_offset \in Nat /\ A[i].entries \in Seq(Nat)

(* Where a box begins, or the file ends.                                   *)
At(A, n, k) == IF k <= n THEN A[k].offset ELSE A[n].offset + A[n].size

LEMMA AtIs ==
  ASSUME NEW A, NEW n, IsFile(A, n)
  PROVE  /\ \A k \in 1..n : /\ At(A, n, k) = A[k].offset /\ At(A, n, k) \in Int
                            /\ At(A, n, k + 1) = At(A, n, k) + A[k].size
                            /\ At(A, n, k + 1) \in Int
         /\ \A j, k \in 1..(n + 1) : j < k => At(A, n, j) < At(A, n, k)
<1>0. n \in Nat \ {0}
  BY DEF IsFile
<1>1. \A k \in 1..n : A[k].offset \in Int /\ A[k].size \in Int /\ A[k].size > 0
  BY DEF IsFile
<1>2. ASSUME NEW k \in 1..n
      PROVE  /\ At(A, n, k) = A[k].offset /\ At(A, n, k) \in Int
             /\ At(A, n, k + 1) = At(A, n, k) + A[k].size
             /\ At(A, n, k + 1) \in Int
  <2>1. At(A, n, k) = A[k].offset
    BY DEF At
  <2>2. CASE k = n
    <3>1. At(A, n, k + 1) = A[n].offset + A[n].size
      BY <1>0, <2>2 DEF At
    <3>2. A[n].offset + A[n].size \in Int
      BY <1>1, <2>2
    <3> QED BY <1>1, <2>1, <2>2, <3>1, <3>2
  <2>3. CASE k # n
    <3>1. k + 1 \in 1..n /\ k + 1 # 1 /\ (k + 1) - 1 = k
      BY <1>0, <2>3
    <3>2. At(A, n, k + 1) = A[k + 1].offset
      BY <3>1 DEF At
    <3>3. A[k + 1].offset = A[k].offset + A[k].size
      BY <3>1 DEF IsFile, IsLaid, IsRow
    <3> QED BY <1>1, <2>1, <3>1, <3>2, <3>3
  <2> QED BY <2>2, <2>3
<1> DEFINE f == [k \in 1..(n + 1) |-> At(A, n, k)]
           g == [k \in 1..(n + 1) |-> IF k <= n THEN A[k].size ELSE 1]
<1>3. ASSUME NEW k \in 1..(n + 1)
      PROVE  /\ f[k] \in Int /\ g[k] \in Int /\ g[k] > 0
             /\ k > 1 => f[k] = f[k - 1] + g[k - 1]
  <2>1. g[k] \in Int /\ g[k] > 0
    BY <1>1
  <2>2. CASE k = 1
    <3>1. At(A, n, 1) \in Int
      <4>1. 1 \in 1..n
        BY <1>0
      <4> QED BY <1>2, <4>1
    <3> QED BY <2>1, <2>2, <3>1
  <2>3. CASE k # 1
    <3>1. k - 1 \in 1..n /\ (k - 1) + 1 = k /\ k - 1 \in 1..(n + 1) /\ k - 1 <= n
      BY <1>0, <2>3
    <3>2. At(A, n, (k - 1) + 1) = At(A, n, k - 1) + A[k - 1].size
          /\ At(A, n, (k - 1) + 1) \in Int
      BY <1>2, <3>1
    <3> QED BY <2>1, <3>1, <3>2
  <2> QED BY <2>2, <2>3
<1>4. n + 1 \in Nat
  BY <1>0
<1>5. \A k \in 1..(n + 1) : f[k] = At(A, n, k)
  OBVIOUS
<1> DEFINE m == n + 1
<1> HIDE DEF f, g, m
<1>6. \A j, k \in 1..m : j < k => f[j] < f[k]
  BY <1>3, <1>4, Increasing DEF m
<1> QED BY <1>2, <1>5, <1>6 DEF m

-----------------------------------------------------------------------------
LEMMA StatesAre ==
  ASSUME NEW A, NEW n, IsFile(A, n), NEW g, GroupingSteps(A, n, g), NEW i \in 1..n
  PROVE  /\ g[i - 1] \in Grouped(A) /\ g[i] \in Grouped(A) /\ i \in DOMAIN A
         /\ g[i] = GroupBox(A, g[i - 1], i) /\ A[i].size \in Int
         /\ n \in Nat /\ i - 1 \in 0..n /\ i \in 0..n
<1>1. n \in Nat /\ i - 1 \in 0..n /\ i \in 0..n /\ i \in DOMAIN A /\ A[i].size \in Int
  BY DEF IsFile, IsRow
<1> QED BY <1>1 DEF GroupingSteps

(* A segment begins at a box that was met.                                 *)
FirstsMet(st, i) == \A k \in 1..Len(st.segments) : st.segments[k].first \in 1..i

LEMMA FrontOf ==
  ASSUME NEW boxes, NEW st \in Grouped(boxes), st.segments # << >>
  PROVE  /\ Len(Front(st.segments)) = Len(st.segments) - 1
         /\ \A k \in 1..(Len(st.segments) - 1) : Front(st.segments)[k] = st.segments[k]
         /\ Front(st.segments) = << >> <=> Len(st.segments) = 1
<1> DEFINE s == st.segments
<1>1. s \in Seq(Segment(boxes)) /\ Len(s) \in Nat /\ Len(s) > 0
  BY SegmentsAre
<1>2. Front(s) = SubSeq(s, 1, Len(s) - 1)
  BY DEF Front
<1> DEFINE S == Segment(boxes)
           n == Len(s)
           f == SubSeq(s, 1, n - 1)
<1> HIDE DEF s, S
<1>3. s \in Seq(S) /\ n \in Nat /\ n > 0
  BY <1>1 DEF S
<1>4. /\ f \in Seq(S) /\ Len(f) = n - 1
      /\ \A k \in 1..(n - 1) : f[k] = s[k]
  <2>1. PICK m \in Nat : m = n - 1
    BY <1>3
  <2>2. m <= Len(s) /\ f = SubSeq(s, 1, m)
    BY <1>3, <2>1
  <2> HIDE DEF f
  <2>3. SubSeq(s, 1, m) \in Seq(S) /\ Len(SubSeq(s, 1, m)) = m
    BY <1>3, <2>2
  <2>4. \A k \in 1..m : SubSeq(s, 1, m)[k] = s[k]
    BY <1>3, <2>2
  <2> QED BY <2>1, <2>2, <2>3, <2>4
<1> HIDE DEF f, n
<1>5. f = << >> <=> n = 1
  BY <1>3, <1>4
<1> QED BY <1>2, <1>4, <1>5 DEF s, f, n

(* Segments that are there stay, but for a last one that goes.             *)
LEMMA FirstsStay ==
  ASSUME NEW boxes, NEW st \in Grouped(boxes), NEW i \in DOMAIN boxes,
         boxes[i].size \in Int
  PROVE  LET next == GroupBox(boxes, st, i)
         IN  /\ Len(next.segments) \in Nat
             /\ \A k \in 1..Len(next.segments) :
                  \/ k \in 1..Len(st.segments) /\ next.segments[k].first = st.segments[k].first
                  \/ /\ Opens(boxes, st, i) /\ k = Len(st.segments) + 1
                     /\ next.segments[k].first = i
<1> DEFINE next == GroupBox(boxes, st, i)
           s == st.segments
<1>0. next \in Grouped(boxes)
  BY GroupBoxKeeps
<1>1. Len(s) \in Nat /\ Len(next.segments) \in Nat
      /\ (s # << >> => Len(s) \in 1..Len(s)) /\ Len(<< >>) = 0
  <2> HIDE DEF next
  <2> QED BY <1>0, SegmentsAre
<1>2. CASE boxes[i].kind \notin MediaKinds
  <2>1. next = st
    BY <1>2, StepIs
  <2> QED BY <2>1, <1>1
<1>3. CASE IsTaken(boxes, st, i)
  <2>1. next.segments = IF s = << >> THEN << >> ELSE Front(s)
    BY <1>3, StepIs
  <2>2. CASE s = << >>
    <3>1. Len(next.segments) = 0
      BY <2>1, <2>2
    <3>2. 1..Len(next.segments) = {} /\ Len(next.segments) \in Nat
      BY <3>1
    <3> QED BY <3>2
  <2>3. CASE s # << >>
    <3>1. /\ Len(next.segments) = Len(s) - 1
          /\ \A k \in 1..(Len(s) - 1) : next.segments[k] = s[k]
      BY <2>1, <2>3, FrontOf
    <3> HIDE DEF next, s
    <3>2. \A k \in 1..Len(next.segments) : k \in 1..Len(s) /\ k \in 1..(Len(s) - 1)
      BY <1>1, <3>1
    <3> QED BY <1>1, <3>1, <3>2 DEF next, s
  <2> QED BY <2>2, <2>3
<1>4. CASE Opens(boxes, st, i)
  <2>1. Pushes(st, next, Opened(boxes, i)) /\ Opened(boxes, i).first = i
    BY <1>4, StepIs DEF Opened, Extended, Fresh
  <2> HIDE DEF next
  <2>2. /\ Len(next.segments) = Len(s) + 1 /\ next.segments[Len(s) + 1].first = i
        /\ \A k \in 1..Len(s) : next.segments[k] = s[k]
    BY <2>1 DEF Pushes
  <2> HIDE DEF s
  <2>3. \A k \in 1..(Len(s) + 1) : k \in 1..Len(s) \/ k = Len(s) + 1
    BY <1>1
  <2> QED BY <1>1, <1>4, <2>2, <2>3 DEF s, next
<1>5. CASE boxes[i].kind \in MediaKinds /\ ~IsTaken(boxes, st, i) /\ ~Opens(boxes, st, i)
  <2> DEFINE last == s[Len(s)]
  <2>1. IF s = << >> THEN next.segments = << >>
        ELSE ReplacesLast(st, next, Extended(boxes, last, i))
    BY <1>5, StepIs
  <2>2. Extended(boxes, last, i).first = last.first
    BY DEF Extended
  <2>3. CASE s = << >>
    <3>1. Len(next.segments) = 0
      BY <2>1, <2>3
    <3>2. 1..Len(next.segments) = {} /\ Len(next.segments) \in Nat
      BY <3>1
    <3> QED BY <3>2
  <2>4. CASE s # << >>
    <3> HIDE DEF next
    <3>1. /\ Len(next.segments) = Len(s)
          /\ \A k \in 1..Len(s) : next.segments[k] = IF k = Len(s) THEN Extended(boxes, last, i)
                                                     ELSE s[k]
      BY <2>1, <2>4 DEF ReplacesLast
    <3> HIDE DEF s
    <3>2. \A k \in 1..Len(s) : next.segments[k].first = s[k].first
      BY <2>2, <3>1
    <3> QED BY <1>1, <3>1, <3>2 DEF s, next
  <2> QED BY <2>3, <2>4
<1> QED BY <1>2, <1>3, <1>4, <1>5

LEMMA FirstsAreMet ==
  ASSUME NEW A, NEW n, IsFile(A, n), NEW g, GroupingSteps(A, n, g)
  PROVE  \A i \in 0..n : FirstsMet(g[i], i)
<1> DEFINE T == { i \in 0..n : FirstsMet(g[i], i) }
<1>0. n \in Nat
  BY DEF IsFile
<1>1. 0 \in T
  <2>1. g[0].segments = << >> /\ Len(<< >>) = 0
    BY DEF GroupingSteps
  <2> QED BY <1>0, <2>1 DEF FirstsMet
<1>2. ASSUME NEW i \in 1..n, i - 1 \in T PROVE i \in T
  <2> DEFINE st == g[i - 1]
             next == g[i]
  <2>1. /\ st \in Grouped(A) /\ i \in DOMAIN A /\ next = GroupBox(A, st, i)
        /\ A[i].size \in Int /\ FirstsMet(st, i - 1)
    BY <1>2, StatesAre
  <2> HIDE DEF st, next
  <2>2. \A k \in 1..Len(next.segments) :
          \/ k \in 1..Len(st.segments) /\ next.segments[k].first = st.segments[k].first
          \/ next.segments[k].first = i
    BY <2>1, FirstsStay
  <2>3. \A f \in 1..(i - 1) : f \in 1..i
    BY <1>0
  <2>4. FirstsMet(next, i)
    BY <1>0, <2>1, <2>2, <2>3 DEF FirstsMet
  <2> QED BY <1>0, <2>4 DEF next
<1> HIDE DEF T
<1>3. 0..n \subseteq T
  BY <1>0, <1>1, <1>2, BoundedInduction
<1> QED BY <1>3 DEF T

(* Where the first segment begins there was none in front, and it stays.   *)
LEMMA FirstSegment ==
  ASSUME NEW A, NEW n, IsFile(A, n), NEW g, GroupingSteps(A, n, g),
         g[n].segments # << >>
  PROVE  LET F == g[n].segments[1].first
         IN  /\ F \in 1..n /\ g[F - 1].segments = << >> /\ Opens(A, g[F - 1], F)
             /\ \A i \in F..n : g[i].segments # << >> /\ g[i].segments[1].first = F
<1> DEFINE F == g[n].segments[1].first
           Kept(i) == g[i].segments # << >> /\ g[i].segments[1].first = F
           T == { j \in 0..n : n - j >= F => Kept(n - j) }
<1>0. n \in Nat /\ n \in 0..n
  BY DEF IsFile
<1>1. \A i \in 0..n : /\ g[i] \in Grouped(A) /\ Len(g[i].segments) \in Nat
                      /\ g[i].segments # << >> <=> Len(g[i].segments) > 0
                      /\ g[i].segments # << >> => g[i].segments[1].first \in 1..i
  <2> SUFFICES ASSUME NEW i \in 0..n
               PROVE  /\ g[i] \in Grouped(A) /\ Len(g[i].segments) \in Nat
                      /\ g[i].segments # << >> <=> Len(g[i].segments) > 0
                      /\ g[i].segments # << >> => g[i].segments[1].first \in 1..i
    OBVIOUS
  <2>1. g[i] \in Grouped(A)
    BY DEF GroupingSteps
  <2>2. /\ Len(g[i].segments) \in Nat /\ g[i].segments \in Seq(Segment(A))
        /\ g[i].segments # << >> => Len(g[i].segments) \in 1..Len(g[i].segments)
    BY <2>1, SegmentsAre
  <2>3. g[i].segments # << >> <=> Len(g[i].segments) > 0
    BY <2>2
  <2>4. Len(g[i].segments) > 0 => 1 \in 1..Len(g[i].segments)
    BY <2>2
  <2> QED BY <2>1, <2>2, <2>3, <2>4, FirstsAreMet DEF FirstsMet
<1>2. F \in 1..n
  BY <1>0, <1>1
<1>3. ASSUME NEW i \in 1..n, g[i].segments # << >>
      PROVE  \/ g[i - 1].segments # << >> /\ g[i].segments[1].first = g[i - 1].segments[1].first
             \/ /\ g[i - 1].segments = << >> /\ Opens(A, g[i - 1], i)
                /\ g[i].segments[1].first = i
  <2> DEFINE st == g[i - 1]
             next == g[i]
  <2>1. /\ st \in Grouped(A) /\ i \in DOMAIN A /\ next = GroupBox(A, st, i)
        /\ A[i].size \in Int /\ i - 1 \in 0..n /\ i \in 0..n
    BY StatesAre
  <2>2. /\ Len(st.segments) \in Nat /\ Len(next.segments) \in Nat /\ Len(next.segments) > 0
        /\ st.segments # << >> <=> Len(st.segments) > 0
    BY <1>1, <1>3, <2>1
  <2> HIDE DEF st, next
  <2>3. 1 \in 1..Len(next.segments)
    BY <2>2
  <2>4. \/ 1 \in 1..Len(st.segments) /\ next.segments[1].first = st.segments[1].first
        \/ /\ Opens(A, st, i) /\ 1 = Len(st.segments) + 1
           /\ next.segments[1].first = i
    BY <2>1, <2>3, FirstsStay
  <2>5. (1 \in 1..Len(st.segments) => st.segments # << >>)
        /\ (1 = Len(st.segments) + 1 => st.segments = << >>)
    BY <2>2
  <2> QED BY <2>4, <2>5 DEF st, next
<1> HIDE DEF F
<1>4. 0 \in T
  BY <1>0 DEF F
<1>5. ASSUME NEW j \in 1..n, j - 1 \in T PROVE j \in T
  <2> SUFFICES ASSUME n - j >= F PROVE Kept(n - j)
    BY <1>0
  <2> DEFINE i == n - (j - 1)
  <2>1. i \in 1..n /\ i - 1 = n - j /\ i > F
    BY <1>0, <1>2
  <2>2. Kept(i)
    BY <1>0, <1>2, <1>5, <2>1
  <2> HIDE DEF i
  <2>3. Kept(i - 1)
    BY <1>2, <1>3, <2>1, <2>2
  <2> QED BY <2>1, <2>3
<1> HIDE DEF T
<1>6. 0..n \subseteq T
  BY <1>0, <1>4, <1>5, BoundedInduction
<1>7. \A i \in F..n : Kept(i)
  <2> SUFFICES ASSUME NEW i \in F..n PROVE Kept(i)
    OBVIOUS
  <2>1. n - i \in 0..n /\ n - (n - i) = i /\ i >= F
    BY <1>0, <1>2
  <2>2. n - i \in T
    BY <1>6, <2>1
  <2> HIDE DEF Kept
  <2> QED BY <2>1, <2>2 DEF T
<1>8. g[F - 1].segments = << >> /\ Opens(A, g[F - 1], F)
  <2>1. F \in F..n
    BY <1>0, <1>2
  <2>2. Kept(F)
    BY <1>7, <2>1
  <2>3. F - 1 \in 0..n
    BY <1>0, <1>2
  <2>4. g[F - 1].segments # << >> => g[F - 1].segments[1].first \in 1..(F - 1)
    BY <1>1, <2>3
  <2>5. ~(F \in 1..(F - 1))
    BY <1>2
  <2> QED BY <1>2, <1>3, <2>2, <2>4, <2>5
<1> QED BY <1>2, <1>7, <1>8 DEF F

-----------------------------------------------------------------------------
(* The first of some places.                                               *)
LEMMA MinIs ==
  ASSUME NEW S, S \subseteq Nat, S # {}
  PROVE  Min(S) \in S
<1>1. \E x \in S : \A y \in S : x <= y
  BY LeastExists
<1> QED BY <1>1 DEF Min

(* What a file says for which a sidx can be planned.                       *)
LEMMA AnalysisIs ==
  ASSUME NEW A, NEW n, IsFile(A, n), NEW g, GroupingSteps(A, n, g), PlanError(A) = "None"
  PROVE  LET track == TimingTrack(A[Min(BoxesOf(A, "moov"))])
         IN  /\ BoxesOf(A, "moov") # {}
             /\ g[n].segments # << >>
             /\ \A k \in 1..Len(g[n].segments) : g[n].segments[k].moofs # << >>
             /\ Len(g[n].existing) <= 1
             /\ g[n].existing # << >> =>
                  LET starts == SegmentStarts(A[g[n].existing[1]])
                  IN  starts # << >> /\ starts[1] = A[g[n].segments[1].first].offset
<1> DEFINE grouped == g[n]
           track == TimingTrack(A[Min(BoxesOf(A, "moov"))])
           refused(k) == SegmentError(A, grouped.segments[k], track)
           failing == { k \in DOMAIN grouped.segments : refused(k) # "None" }
<1>0. n \in Nat /\ grouped \in Grouped(A) /\ group_media_segments(A) = grouped
  BY DEF IsFile, GroupingSteps
<1>1. AnalysisError(A) = "None" /\ PlacementError(A, grouped) = "None"
  <2>1. AnalysisError(A) = "None"
    BY DEF PlanError
  <2> QED BY <1>0, <2>1 DEF PlanError
<1>2. /\ Len(grouped.segments) \in Nat /\ DOMAIN grouped.segments = 1..Len(grouped.segments)
      /\ grouped.existing \in Seq(BoxesOf(A, "sidx"))
  BY <1>0, SegmentsAre DEF Grouped
<1> HIDE DEF grouped, track
<1>3. AnalysisError(A) = IF InitError(A) # "None" THEN InitError(A)
                         ELSE IF GroupError(A, grouped) # "None" THEN GroupError(A, grouped)
                         ELSE IF failing # {} THEN refused(Min(failing))
                         ELSE "None"
  BY <1>0 DEF AnalysisError, track
<1>4. failing # {} => Min(failing) \in failing
  <2>1. failing \subseteq Nat
    BY <1>2
  <2> HIDE DEF failing
  <2> QED BY <2>1, MinIs
<1>5. failing # {} => refused(Min(failing)) # "None"
  BY <1>4
<1>6. InitError(A) = "None" /\ GroupError(A, grouped) = "None" /\ failing = {}
  <2> HIDE DEF failing, refused
  <2> QED BY <1>1, <1>3, <1>5
<1>7. BoxesOf(A, "moov") # {}
  BY <1>6 DEF InitError
<1>8. grouped.segments # << >>
  BY <1>6 DEF GroupError
<1>9. ASSUME NEW k \in 1..Len(grouped.segments) PROVE grouped.segments[k].moofs # << >>
  <2>1. refused(k) = "None"
    BY <1>2, <1>6
  <2> QED BY <2>1 DEF SegmentError
<1>10. /\ Len(grouped.existing) <= 1
       /\ grouped.existing # << >> =>
            LET starts == SegmentStarts(A[grouped.existing[1]])
            IN  starts # << >> /\ starts[1] = A[grouped.segments[1].first].offset
  <2> DEFINE count == Len(grouped.existing)
             starts == SegmentStarts(A[grouped.existing[1]])
             media == A[grouped.segments[1].first].offset
  <2>1. count \in Nat /\ (grouped.existing # << >> => count > 0)
    BY <1>2
  <2>2. (IF count > 1 THEN "UnsupportedTopLevelSidxCount"
         ELSE IF count = 1 /\ (starts = << >> \/ starts[1] # media)
           THEN "UnsupportedReplacementPlacement"
         ELSE "None") = "None"
    BY <1>1 DEF PlacementError
  <2> HIDE DEF count, starts, media
  <2>3. ~(count > 1) /\ (count = 1 => starts # << >> /\ starts[1] = media)
    BY <2>2
  <2>4. count <= 1 /\ (grouped.existing # << >> => count = 1)
    BY <2>1, <2>3
  <2> QED BY <2>3, <2>4 DEF count, starts, media
<1> QED BY <1>7, <1>8, <1>9, <1>10 DEF grouped

(* A sidx that was taken for that of the file is named to the end.         *)
LEMMA TakenStays ==
  ASSUME NEW A, NEW n, IsFile(A, n), NEW g, GroupingSteps(A, n, g),
         NEW i \in 1..n, IsTaken(A, g[i - 1], i)
  PROVE  \E c \in 1..Len(g[n].existing) : g[n].existing[c] = i
<1> DEFINE c == Len(g[i - 1].existing) + 1
           T == { j \in 0..n : j >= i => /\ c \in 1..Len(g[j].existing)
                                         /\ g[j].existing[c] = i }
<1>0. n \in Nat /\ n \in 0..n /\ n >= i
  BY DEF IsFile
<1>1. \A j \in 0..n : g[j].existing \in Seq(BoxesOf(A, "sidx"))
                      /\ Len(g[j].existing) \in Nat
  <2>1. \A j \in 0..n : g[j].existing \in Seq(BoxesOf(A, "sidx"))
    BY DEF GroupingSteps, Grouped
  <2> QED BY <2>1
<1>2. ASSUME NEW j \in 1..n
      PROVE  /\ g[j].existing \in { g[j - 1].existing, Append(g[j - 1].existing, j) }
             /\ IsTaken(A, g[j - 1], j) => g[j].existing = Append(g[j - 1].existing, j)
  <2> DEFINE st == g[j - 1]
  <2>1. /\ st \in Grouped(A) /\ j \in DOMAIN A /\ g[j] = GroupBox(A, st, j)
        /\ A[j].size \in Int
    BY StatesAre
  <2> HIDE DEF st
  <2>2. CASE IsTaken(A, st, j)
    <3>1. g[j].existing = Append(st.existing, j)
      BY <2>1, <2>2, StepIs
    <3> QED BY <3>1 DEF st
  <2>3. CASE ~IsTaken(A, st, j)
    <3>1. CASE A[j].kind \notin MediaKinds
      <4>1. g[j] = st
        BY <2>1, <3>1, StepIs
      <4> QED BY <2>3, <4>1 DEF st
    <3>2. CASE Opens(A, st, j)
      <4>1. Pushes(st, g[j], Opened(A, j))
        BY <2>1, <3>2, StepIs
      <4>2. g[j].existing = st.existing
        BY <4>1 DEF Pushes
      <4> QED BY <2>3, <4>2 DEF st
    <3>3. CASE A[j].kind \in MediaKinds /\ ~Opens(A, st, j)
      <4>1. IF st.segments = << >> THEN g[j].existing = st.existing
            ELSE ReplacesLast(st, g[j], Extended(A, st.segments[Len(st.segments)], j))
        BY <2>1, <2>3, <3>3, StepIs
      <4>2. g[j].existing = st.existing
        BY <4>1 DEF ReplacesLast
      <4> QED BY <2>3, <4>2 DEF st
    <3> QED BY <3>1, <3>2, <3>3
  <2> QED BY <2>2, <2>3
<1>3. ASSUME NEW s, s \in Seq(BoxesOf(A, "sidx")), NEW j
      PROVE  /\ Len(Append(s, j)) = Len(s) + 1 /\ Append(s, j)[Len(s) + 1] = j
             /\ \A k \in 1..Len(s) : Append(s, j)[k] = s[k]
  BY <1>3
<1>4. 0 \in T
  BY <1>0
<1>5. ASSUME NEW j \in 1..n, j - 1 \in T PROVE j \in T
  <2>0. j \in 0..n /\ j - 1 \in 0..n
    BY <1>0
  <2> SUFFICES ASSUME j >= i PROVE c \in 1..Len(g[j].existing) /\ g[j].existing[c] = i
    BY <2>0
  <2>1. CASE j = i
    <3>1. g[i].existing = Append(g[i - 1].existing, i)
      BY <1>2
    <3>2. /\ g[i - 1].existing \in Seq(BoxesOf(A, "sidx")) /\ Len(g[i - 1].existing) \in Nat
      BY <1>1, <2>0, <2>1
    <3>3. Len(g[i].existing) = c /\ g[i].existing[c] = i
      BY <1>3, <3>1, <3>2
    <3>4. c \in Nat \ {0}
      BY <3>2
    <3> HIDE DEF c
    <3> QED BY <2>1, <3>3, <3>4
  <2>2. CASE j # i
    <3>1. c \in 1..Len(g[j - 1].existing) /\ g[j - 1].existing[c] = i
      BY <1>0, <1>5, <2>2
    <3>2. g[j - 1].existing \in Seq(BoxesOf(A, "sidx")) /\ Len(g[j - 1].existing) \in Nat
      BY <1>1, <2>0
    <3>3. g[j].existing \in { g[j - 1].existing, Append(g[j - 1].existing, j) }
      BY <1>2
    <3> DEFINE s == g[j - 1].existing
    <3> HIDE DEF c, s
    <3>4. Len(Append(s, j)) = Len(s) + 1 /\ \A k \in 1..Len(s) : Append(s, j)[k] = s[k]
      BY <1>3, <3>2 DEF s
    <3>5. c \in 1..(Len(s) + 1)
      BY <3>1, <3>2 DEF s
    <3> QED BY <3>1, <3>3, <3>4, <3>5 DEF s
  <2> QED BY <2>1, <2>2
<1> HIDE DEF T
<1>6. 0..n \subseteq T
  BY <1>0, <1>4, <1>5, BoundedInduction
<1>7. n \in T
  BY <1>0, <1>6
<1>8. c \in 1..Len(g[n].existing) /\ g[n].existing[c] = i
  BY <1>0, <1>7 DEF T
<1> QED BY <1>8

(* The media a sidx is about is behind it.                                 *)
LEMMA StartsBehind ==
  ASSUME NEW A, NEW n, IsFile(A, n), NEW s \in 1..n, A[s].kind = "sidx",
         SegmentStarts(A[s]) # << >>
  PROVE  /\ SegmentStarts(A[s])[1] = A[s].offset + A[s].size + A[s].first_offset
         /\ SegmentStarts(A[s])[1] \in Int /\ SegmentStarts(A[s])[1] >= A[s].offset + A[s].size
<1> DEFINE entries == A[s].entries
<1>1. /\ A[s].first_offset \in Nat /\ entries \in Seq(Nat)
      /\ A[s].offset \in Int /\ A[s].size \in Int
  BY DEF IsFile
<1>2. SegmentStarts(A[s]) = [ k \in DOMAIN entries |->
                                A[s].offset + A[s].size + A[s].first_offset
                                  + SumTo(entries, k - 1) ]
  BY DEF SegmentStarts
<1> HIDE DEF entries
<1>3. DOMAIN entries = 1..Len(entries) /\ Len(entries) \in Nat
  BY <1>1
<1>4. Len(entries) # 0
  <2> SUFFICES ASSUME Len(entries) = 0 PROVE FALSE
    OBVIOUS
  <2>1. DOMAIN entries = {}
    BY <1>3
  <2> QED BY <1>2, <2>1
<1>5. 1 \in DOMAIN entries
  BY <1>3, <1>4
<1>6. SumTo(entries, 1 - 1) = 0
  <2>1. \A j \in 1..0 : entries[j] \in Int
    OBVIOUS
  <2>2. SumTo(entries, 0) = 0
    BY <2>1, SumToIs
  <2> QED BY <2>2
<1> QED BY <1>1, <1>2, <1>5, <1>6

LEMMA NoneTakenBehind ==
  ASSUME NEW A, NEW n, IsFile(A, n), NEW g, GroupingSteps(A, n, g), PlanError(A) = "None",
         NEW i \in 1..n, i > g[n].segments[1].first
  PROVE  ~IsTaken(A, g[i - 1], i)
<1> DEFINE F == g[n].segments[1].first
<1> SUFFICES ASSUME IsTaken(A, g[i - 1], i) PROVE FALSE
  OBVIOUS
<1>1. PICK c \in 1..Len(g[n].existing) : g[n].existing[c] = i
  BY TakenStays
<1>2. Len(g[n].existing) <= 1 /\ g[n].segments # << >>
  BY AnalysisIs
<1>3. n \in Nat /\ g[n] \in Grouped(A)
  BY DEF IsFile, GroupingSteps
<1>4. g[n].existing \in Seq(BoxesOf(A, "sidx"))
  BY <1>3 DEF Grouped
<1>5. c = 1 /\ g[n].existing # << >>
  BY <1>1, <1>2, <1>4
<1>6. SegmentStarts(A[i]) # << >> /\ SegmentStarts(A[i])[1] = A[F].offset
  BY <1>1, <1>5, AnalysisIs
<1>7. A[i].kind = "sidx"
  BY DEF IsTaken
<1>8. /\ SegmentStarts(A[i])[1] >= A[i].offset + A[i].size
      /\ A[i].offset \in Int /\ A[i].size \in Int /\ A[i].size > 0
  <2>1. SegmentStarts(A[i])[1] >= A[i].offset + A[i].size
    BY <1>6, <1>7, StartsBehind
  <2>2. A[i].offset \in Int /\ A[i].size \in Int /\ A[i].size > 0
    BY DEF IsFile
  <2> QED BY <2>1, <2>2
<1>9. F \in 1..n
  BY <1>2, FirstSegment
<1> HIDE DEF F
<1>10. A[F].offset < A[i].offset /\ A[F].offset \in Int
  <2>1. /\ At(A, n, F) = A[F].offset /\ At(A, n, i) = A[i].offset /\ At(A, n, F) \in Int
    BY <1>9, AtIs
  <2>2. F < i /\ F \in 1..(n + 1) /\ i \in 1..(n + 1)
    BY <1>3, <1>9 DEF F
  <2> QED BY <2>1, <2>2, AtIs
<1> QED BY <1>6, <1>8, <1>10

-----------------------------------------------------------------------------
(* How long the moofs of a file last, in front of a box.                   *)
HasDurations(A, n, track) ==
  \A i \in 1..n : A[i].kind = "moof" => MoofDuration(A[i], track) \in Int

Lasts(A, n, track) ==
  [i \in 1..n |-> IF A[i].kind = "moof" THEN MoofDuration(A[i], track) ELSE 0]

LastsTo(A, n, track, k) == SumTo(Lasts(A, n, track), k)

LEMMA LastsToIs ==
  ASSUME NEW A, NEW n \in Nat, NEW track, HasDurations(A, n, track), NEW k \in 0..n
  PROVE  /\ LastsTo(A, n, track, k) \in Int
         /\ k > 0 => LastsTo(A, n, track, k)
                       = LastsTo(A, n, track, k - 1) + Lasts(A, n, track)[k]
         /\ \A j \in 1..n : Lasts(A, n, track)[j] \in Int
<1> DEFINE f == Lasts(A, n, track)
<1>1. \A j \in 1..n : f[j] \in Int
  BY DEF Lasts, HasDurations
<1>2. k \in Nat /\ \A j \in 1..k : f[j] \in Int
  BY <1>1
<1> HIDE DEF f
<1>3. SumTo(f, k) \in Int /\ (k > 0 => SumTo(f, k) = SumTo(f, k - 1) + f[k])
  BY <1>2, SumToIs
<1> QED BY <1>1, <1>3 DEF LastsTo, f

LEMMA DurationExtends ==
  ASSUME NEW A, NEW n, IsFile(A, n), NEW track, HasDurations(A, n, track),
         NEW segment \in Segment(A), NEW i \in 1..n
  PROVE  /\ SegmentDuration(A, segment, track) \in Int
         /\ SegmentDuration(A, Extended(A, segment, i), track)
              = SegmentDuration(A, segment, track) + Lasts(A, n, track)[i]
<1> DEFINE m == segment.moofs
           c == Len(m)
           f == [k \in DOMAIN m |-> MoofDuration(A[m[k]], track)]
<1>1. m \in Seq(BoxesOf(A, "moof"))
  BY DEF Segment
<1>2. c \in Nat /\ DOMAIN m = 1..c /\ \A k \in 1..c : m[k] \in BoxesOf(A, "moof")
  BY <1>1
<1>3. \A x \in BoxesOf(A, "moof") : MoofDuration(A[x], track) \in Int
  BY DEF BoxesOf, IsFile, IsRow, HasDurations
<1>4. \A k \in 1..c : f[k] \in Int
  BY <1>2, <1>3
<1>5. SegmentDuration(A, segment, track) = SumTo(f, c)
  BY DEF SegmentDuration
<1>6. SumTo(f, c) \in Int
  <2> HIDE DEF f, c
  <2> QED BY <1>2, <1>4, SumToIs
<1>7. CASE A[i].kind = "moof"
  <2> DEFINE m2 == Append(m, i)
             f2 == [k \in DOMAIN m2 |-> MoofDuration(A[m2[k]], track)]
  <2>1. SegmentDuration(A, Extended(A, segment, i), track) = SumTo(f2, Len(m2))
    BY <1>7 DEF SegmentDuration, Extended
  <2>2. i \in BoxesOf(A, "moof")
    BY <1>7 DEF BoxesOf, IsFile, IsRow
  <2> HIDE DEF m
  <2>3. /\ Len(m2) = c + 1 /\ DOMAIN m2 = 1..(c + 1) /\ m2[c + 1] = i
        /\ \A k \in 1..c : m2[k] = m[k]
    BY <1>1
  <2> HIDE DEF m2, c
  <2>4. /\ \A k \in 1..c : f2[k] = f[k]
        /\ f2[c + 1] = MoofDuration(A[i], track)
    BY <1>2, <2>3
  <2>5. MoofDuration(A[i], track) \in Int
    BY <1>3, <2>2
  <2> HIDE DEF f2, f
  <2>6. \A k \in 1..(c + 1) : f2[k] \in Int
    <3>1. \A k \in 1..(c + 1) : k \in 1..c \/ k = c + 1
      BY <1>2
    <3> QED BY <1>4, <2>4, <2>5, <3>1
  <2>7. SumTo(f2, c + 1) = SumTo(f2, (c + 1) - 1) + f2[c + 1]
    <3>1. c + 1 \in Nat /\ c + 1 > 0
      BY <1>2
    <3> QED BY <2>6, <3>1, SumToIs
  <2>8. SumTo(f2, c) = SumTo(f, c)
    BY <1>2, <1>4, <2>4, SumToSame
  <2>9. (c + 1) - 1 = c
    BY <1>2
  <2>10. Lasts(A, n, track)[i] = MoofDuration(A[i], track)
    BY <1>7 DEF Lasts
  <2> QED BY <1>5, <1>6, <2>1, <2>3, <2>4, <2>7, <2>8, <2>9, <2>10
<1>8. CASE A[i].kind # "moof"
  <2>1. SegmentDuration(A, Extended(A, segment, i), track) = SumTo(f, c)
    BY <1>8 DEF SegmentDuration, Extended
  <2>2. Lasts(A, n, track)[i] = 0
    BY <1>8 DEF Lasts
  <2> HIDE DEF f, c
  <2> QED BY <1>5, <1>6, <2>1, <2>2
<1> QED BY <1>5, <1>6, <1>7, <1>8

-----------------------------------------------------------------------------
(* A segment covers the boxes from its first up to another: it is as large,*)
(* its moofs are among them, and it lasts as long as they do.              *)
Covers(A, n, track, from, segment, to) ==
  /\ segment.first \in from..(to - 1)
  /\ A[segment.first].kind \in MediaKinds \ {"mdat"}
  /\ segment.size = At(A, n, to) - At(A, n, segment.first)
  /\ \A x \in 1..Len(segment.moofs) : segment.moofs[x] \in segment.first..(to - 1)
  /\ SegmentDuration(A, segment, track)
       = LastsTo(A, n, track, to - 1) - LastsTo(A, n, track, segment.first - 1)

LEMMA FreshIs ==
  ASSUME NEW A, NEW i \in DOMAIN A, NEW track
  PROVE  Fresh(i) \in Segment(A) /\ SegmentDuration(A, Fresh(i), track) = 0
<1>1. Fresh(i) \in Segment(A)
  <2>1. << >> \in Seq(BoxesOf(A, "moof"))
    OBVIOUS
  <2> QED BY <2>1 DEF Fresh, Segment
<1>2. SegmentDuration(A, Fresh(i), track) = 0
  <2> DEFINE f == [k \in DOMAIN << >> |-> MoofDuration(A[<< >>[k]], track)]
  <2>1. SegmentDuration(A, Fresh(i), track) = SumTo(f, Len(<< >>))
    BY DEF SegmentDuration, Fresh
  <2> HIDE DEF f
  <2>2. Len(<< >>) = 0
    OBVIOUS
  <2>3. SumTo(f, 0) = 0
    <3>1. \A j \in 1..0 : f[j] \in Int
      OBVIOUS
    <3> QED BY <3>1, SumToIs
  <2> QED BY <2>1, <2>2, <2>3
<1> QED BY <1>1, <1>2

LEMMA ExtendedCovers ==
  ASSUME NEW A, NEW n, IsFile(A, n), NEW track, HasDurations(A, n, track),
         NEW from \in 1..n, NEW segment \in Segment(A), NEW i \in 1..n,
         Covers(A, n, track, from, segment, i),
         A[i].kind = "sidx" => segment.sidx_count = 0
  PROVE  Covers(A, n, track, from, Extended(A, segment, i), i + 1)
<1> DEFINE new == Extended(A, segment, i)
           a == segment.first
           m == segment.moofs
<1>1. /\ new.first = a /\ new.size = segment.size + A[i].size
      /\ new.moofs = IF A[i].kind = "moof" THEN Append(m, i) ELSE m
  BY DEF Extended
<1>2. /\ a \in from..(i - 1) /\ A[a].kind \in MediaKinds \ {"mdat"}
      /\ segment.size = At(A, n, i) - At(A, n, a)
      /\ \A x \in 1..Len(m) : m[x] \in a..(i - 1)
      /\ SegmentDuration(A, segment, track)
           = LastsTo(A, n, track, i - 1) - LastsTo(A, n, track, a - 1)
  BY DEF Covers
<1>3. n \in Nat /\ a \in 1..n /\ i - 1 \in 0..n /\ a - 1 \in 0..n /\ (i + 1) - 1 = i
      /\ a \in from..i
  BY <1>2 DEF IsFile
<1>4. new.size = At(A, n, i + 1) - At(A, n, a)
  <2>1. /\ At(A, n, i + 1) = At(A, n, i) + A[i].size /\ At(A, n, i) \in Int
        /\ At(A, n, a) \in Int /\ A[i].size \in Int
    BY <1>3, AtIs DEF IsFile
  <2> QED BY <1>1, <1>2, <2>1
<1>5. SegmentDuration(A, new, track) = LastsTo(A, n, track, i) - LastsTo(A, n, track, a - 1)
  <2>1. /\ SegmentDuration(A, segment, track) \in Int
        /\ SegmentDuration(A, new, track)
             = SegmentDuration(A, segment, track) + Lasts(A, n, track)[i]
    BY DurationExtends
  <2>2. /\ LastsTo(A, n, track, i) = LastsTo(A, n, track, i - 1) + Lasts(A, n, track)[i]
        /\ Lasts(A, n, track)[i] \in Int /\ LastsTo(A, n, track, i - 1) \in Int
        /\ LastsTo(A, n, track, a - 1) \in Int
    <3>1. i \in 0..n /\ i > 0
      BY <1>3
    <3> QED BY <1>3, <3>1, LastsToIs
  <2> HIDE DEF new, a
  <2> QED BY <1>2, <2>1, <2>2
<1>6. m \in Seq(BoxesOf(A, "moof"))
  BY DEF Segment
<1> HIDE DEF new, a, m
<1>7. \A x \in 1..Len(new.moofs) : new.moofs[x] \in a..i
  <2>1. \A y \in a..(i - 1) : y \in a..i
    BY <1>3
  <2>2. i \in a..i
    BY <1>2, <1>3
  <2>3. \A x \in 1..Len(Append(m, i)) : Append(m, i)[x] = i \/ (x \in 1..Len(m)
                                                                /\ Append(m, i)[x] = m[x])
    BY <1>6
  <2>4. CASE A[i].kind = "moof"
    BY <1>1, <1>2, <2>1, <2>2, <2>3, <2>4
  <2>5. CASE A[i].kind # "moof"
    BY <1>1, <1>2, <2>1, <2>5
  <2> QED BY <2>4, <2>5
<1> QED BY <1>1, <1>2, <1>3, <1>4, <1>5, <1>7 DEF Covers, new

LEMMA OpenedCovers ==
  ASSUME NEW A, NEW n, IsFile(A, n), NEW track, HasDurations(A, n, track),
         NEW from \in 1..n, NEW i \in from..n, A[i].kind \in MediaKinds \ {"mdat"}
  PROVE  Covers(A, n, track, from, Opened(A, i), i + 1)
<1> DEFINE new == Opened(A, i)
           fresh == Fresh(i)
<1>1. n \in Nat /\ i \in 1..n /\ i \in DOMAIN A /\ i - 1 \in 0..n /\ i \in 0..n
      /\ (i + 1) - 1 = i /\ i \in from..i
  BY DEF IsFile, IsRow
<1>2. /\ fresh.first = i /\ fresh.size = 0 /\ fresh.moofs = << >> /\ fresh.sidx_count = 0
  BY DEF Fresh
<1>3. fresh \in Segment(A) /\ SegmentDuration(A, fresh, track) = 0
  BY <1>1, FreshIs
<1> HIDE DEF fresh
<1>4. /\ new.first = i /\ new.size = 0 + A[i].size
      /\ new.moofs = IF A[i].kind = "moof" THEN Append(<< >>, i) ELSE << >>
  BY <1>2 DEF Opened, Extended, fresh
<1>5. SegmentDuration(A, new, track) = LastsTo(A, n, track, i) - LastsTo(A, n, track, i - 1)
  <2>1. SegmentDuration(A, new, track) = SegmentDuration(A, fresh, track)
                                           + Lasts(A, n, track)[i]
    BY <1>1, <1>3, DurationExtends DEF Opened, fresh
  <2>2. /\ LastsTo(A, n, track, i) = LastsTo(A, n, track, i - 1) + Lasts(A, n, track)[i]
        /\ Lasts(A, n, track)[i] \in Int /\ LastsTo(A, n, track, i - 1) \in Int
    <3>1. n \in Nat /\ i \in 0..n /\ i > 0 /\ i \in 1..n
      BY <1>1
    <3>2. /\ LastsTo(A, n, track, i) = LastsTo(A, n, track, i - 1) + Lasts(A, n, track)[i]
          /\ Lasts(A, n, track)[i] \in Int
      BY <3>1, LastsToIs
    <3>3. LastsTo(A, n, track, i - 1) \in Int
      BY <1>1, LastsToIs
    <3> QED BY <3>2, <3>3
  <2> HIDE DEF new
  <2> QED BY <1>3, <2>1, <2>2
<1>6. new.size = At(A, n, i + 1) - At(A, n, i)
  <2>1. At(A, n, i + 1) = At(A, n, i) + A[i].size /\ At(A, n, i) \in Int /\ A[i].size \in Int
    BY <1>1, AtIs DEF IsFile
  <2> QED BY <1>4, <2>1
<1> HIDE DEF new
<1>7. \A x \in 1..Len(new.moofs) : new.moofs[x] = i
  <2>1. Append(<< >>, i) = << i >> /\ Len(<< i >>) = 1 /\ << i >>[1] = i /\ Len(<< >>) = 0
    OBVIOUS
  <2> QED BY <1>4, <2>1
<1>8. i \in i..i
  BY <1>1
<1> QED BY <1>1, <1>4, <1>5, <1>6, <1>7, <1>8 DEF Covers, new

-----------------------------------------------------------------------------
(* From a box on there is nothing but media, up to another, and none behind*)
(* that; of two sidx boxes the later opens a segment or a styp between them*)
(* does.                                                                   *)
MediaFrom(A, n, from, last) ==
  /\ from \in 1..n /\ last \in from..n
  /\ \A k \in from..last : A[k].kind \in MediaKinds
  /\ \A k \in (last + 1)..n : A[k].kind \notin MediaKinds
  /\ \A k, l \in from..last :
       k < l /\ A[k].kind = "sidx" /\ A[l].kind = "sidx" =>
         PreviousKind(A, l) = "mdat" \/ \E m \in k..l : A[m].kind = "styp"

(* Where a segment ends once the loop has been at box i.                   *)
Bound(segments, k, i) == IF k < Len(segments) THEN segments[k + 1].first ELSE i + 1

Tiled(A, n, track, from, segments, i) ==
  \A k \in 1..Len(segments) : Covers(A, n, track, from, segments[k], Bound(segments, k, i))

(* What the loop knows of the last segment.                                *)
LastIsKnown(A, from, segment, i) ==
  /\ segment.sidx_count # 0 => \E q \in segment.first..i : A[q].kind = "sidx"
  /\ \A q \in from..i : A[q].kind = "styp" => q <= segment.first

Tiling(A, n, track, from, st, i) ==
  /\ st \in Grouped(A) /\ st.segments # << >>
  /\ Tiled(A, n, track, from, st.segments, i)
  /\ LastIsKnown(A, from, st.segments[Len(st.segments)], i)

LEMMA PushTiles ==
  ASSUME NEW A, NEW n, IsFile(A, n), NEW track, HasDurations(A, n, track),
         NEW from \in 1..n, NEW i \in from..n, NEW st \in Grouped(A), NEW next,
         Tiled(A, n, track, from, st.segments, i - 1),
         A[i].kind \in MediaKinds \ {"mdat"},
         Pushes(st, next, Opened(A, i)), next \in Grouped(A)
  PROVE  Tiling(A, n, track, from, next, i)
<1> DEFINE c == Len(st.segments)
           new == Opened(A, i)
<1>1. c \in Nat /\ n \in Nat /\ i \in Int /\ from \in Int /\ (i - 1) + 1 = i
  BY SegmentsAre DEF IsFile
<1>2. /\ Len(next.segments) = c + 1 /\ next.segments[c + 1] = new
      /\ \A k \in 1..c : next.segments[k] = st.segments[k]
  BY DEF Pushes
<1>3. Covers(A, n, track, from, new, i + 1) /\ new.first = i
  <2>1. Covers(A, n, track, from, new, i + 1)
    BY OpenedCovers
  <2> QED BY <2>1 DEF Opened, Extended, Fresh
<1>4. new.sidx_count # 0 => A[i].kind = "sidx"
  BY DEF Opened, Extended, Fresh
<1> HIDE DEF c, new
<1>5. ASSUME NEW k \in 1..(c + 1)
      PROVE  Covers(A, n, track, from, next.segments[k], Bound(next.segments, k, i))
  <2>1. CASE k = c + 1
    <3>1. Bound(next.segments, k, i) = i + 1
      BY <1>1, <1>2, <2>1 DEF Bound
    <3> QED BY <1>2, <1>3, <2>1, <3>1
  <2>2. CASE k # c + 1
    <3>1. k \in 1..c /\ k < c + 1 /\ next.segments[k] = st.segments[k]
      BY <1>1, <1>2, <2>2
    <3>2. Bound(next.segments, k, i) = next.segments[k + 1].first
      BY <1>2, <3>1 DEF Bound
    <3>3. Bound(next.segments, k, i) = Bound(st.segments, k, i - 1)
      <4>1. CASE k = c
        <5>1. Bound(st.segments, k, i - 1) = i
          BY <1>1, <4>1 DEF Bound, c
        <5> QED BY <1>2, <1>3, <3>2, <4>1, <5>1
      <4>2. CASE k # c
        <5>1. k + 1 \in 1..c /\ k < c
          BY <1>1, <3>1, <4>2
        <5>2. Bound(st.segments, k, i - 1) = st.segments[k + 1].first
          BY <5>1 DEF Bound, c
        <5> QED BY <1>2, <3>2, <5>1, <5>2
      <4> QED BY <4>1, <4>2
    <3>4. Covers(A, n, track, from, st.segments[k], Bound(st.segments, k, i - 1))
      BY <3>1 DEF Tiled, c
    <3> QED BY <3>1, <3>3, <3>4
  <2> QED BY <2>1, <2>2
<1>6. Tiled(A, n, track, from, next.segments, i)
  BY <1>2, <1>5 DEF Tiled
<1>7. next.segments # << >>
  <2>1. Len(<< >>) = 0
    OBVIOUS
  <2>2. Len(next.segments) # 0
    BY <1>1, <1>2
  <2> QED BY <2>1, <2>2
<1>8. LastIsKnown(A, from, next.segments[Len(next.segments)], i)
  <2>1. next.segments[Len(next.segments)] = new
    BY <1>2
  <2>2. i \in i..i /\ \A q \in from..i : q <= i
    BY <1>1
  <2> QED BY <1>3, <1>4, <2>1, <2>2 DEF LastIsKnown
<1> QED BY <1>6, <1>7, <1>8 DEF Tiling

LEMMA ExtensionTiles ==
  ASSUME NEW A, NEW n, IsFile(A, n), NEW track, HasDurations(A, n, track),
         NEW from \in 1..n, NEW i \in from..n, NEW st \in Grouped(A), NEW next,
         Tiling(A, n, track, from, st, i - 1), next \in Grouped(A),
         A[i].kind # "styp",
         A[i].kind = "sidx" => st.segments[Len(st.segments)].sidx_count = 0,
         ReplacesLast(st, next, Extended(A, st.segments[Len(st.segments)], i))
  PROVE  Tiling(A, n, track, from, next, i)
<1> DEFINE c == Len(st.segments)
           last == st.segments[c]
           new == Extended(A, last, i)
<1>1. /\ c \in Nat \ {0} /\ n \in Nat /\ i \in Int /\ from \in Int /\ (i - 1) + 1 = i
      /\ i \in 1..n
  BY SegmentsAre DEF IsFile, Tiling
<1>2. last \in Segment(A)
  BY <1>1, SegmentsAre
<1>3. /\ Len(next.segments) = c
      /\ \A k \in 1..c : next.segments[k] = IF k = c THEN new ELSE st.segments[k]
  BY DEF ReplacesLast
<1>4. Covers(A, n, track, from, last, i)
  <2>1. c \in 1..c /\ Bound(st.segments, c, i - 1) = i
    BY <1>1 DEF Bound
  <2> QED BY <2>1 DEF Tiling, Tiled
<1>5. Covers(A, n, track, from, new, i + 1) /\ new.first = last.first
  <2>1. Covers(A, n, track, from, new, i + 1)
    <3> HIDE DEF last
    <3>1. A[i].kind = "sidx" => last.sidx_count = 0
      BY DEF last
    <3> QED BY <1>1, <1>2, <1>4, <3>1, ExtendedCovers
  <2> QED BY <2>1 DEF Extended
<1>6. new.sidx_count # 0 => last.sidx_count # 0 \/ A[i].kind = "sidx"
  BY DEF Extended
<1>7. LastIsKnown(A, from, last, i - 1)
  BY DEF Tiling
<1>8. last.first \in from..(i - 1)
  BY <1>4 DEF Covers
<1> HIDE DEF new, last
<1>9. LastIsKnown(A, from, new, i)
  <2>1. ASSUME new.sidx_count # 0 PROVE \E q \in new.first..i : A[q].kind = "sidx"
    <3>1. CASE A[i].kind = "sidx"
      <4>1. i \in new.first..i
        BY <1>1, <1>5, <1>8
      <4> QED BY <3>1, <4>1
    <3>2. CASE last.sidx_count # 0
      <4>1. PICK q \in last.first..(i - 1) : A[q].kind = "sidx"
        BY <1>7, <3>2 DEF LastIsKnown
      <4>2. q \in new.first..i
        BY <1>1, <1>5, <1>8
      <4> QED BY <4>1, <4>2
    <3> QED BY <1>6, <2>1, <3>1, <3>2
  <2>2. ASSUME NEW q \in from..i, A[q].kind = "styp" PROVE q <= new.first
    <3>1. q # i
      BY <2>2
    <3>2. q \in from..(i - 1)
      BY <1>1, <3>1
    <3> QED BY <1>5, <1>7, <2>2, <3>2 DEF LastIsKnown
  <2> QED BY <2>1, <2>2 DEF LastIsKnown
<1> HIDE DEF c
<1>10. ASSUME NEW k \in 1..c
       PROVE  Covers(A, n, track, from, next.segments[k], Bound(next.segments, k, i))
  <2>1. CASE k = c
    <3>1. Bound(next.segments, k, i) = i + 1
      BY <1>1, <1>3, <2>1 DEF Bound
    <3> QED BY <1>3, <1>5, <2>1, <3>1
  <2>2. CASE k # c
    <3>1. k < c /\ k + 1 \in 1..c /\ next.segments[k] = st.segments[k]
      BY <1>1, <1>3, <2>2
    <3>2. next.segments[k + 1].first = st.segments[k + 1].first
      <4>1. CASE k + 1 = c
        BY <1>3, <1>5, <3>1, <4>1 DEF last
      <4>2. CASE k + 1 # c
        BY <1>3, <3>1, <4>2
      <4> QED BY <4>1, <4>2
    <3>3. Bound(next.segments, k, i) = Bound(st.segments, k, i - 1)
      BY <1>3, <3>1, <3>2 DEF Bound, c
    <3>4. Covers(A, n, track, from, st.segments[k], Bound(st.segments, k, i - 1))
      BY DEF Tiling, Tiled, c
    <3> QED BY <3>1, <3>3, <3>4
  <2> QED BY <2>1, <2>2
<1>11. Tiled(A, n, track, from, next.segments, i)
  BY <1>3, <1>10 DEF Tiled
<1>12. next.segments # << >>
  <2>1. Len(<< >>) = 0
    OBVIOUS
  <2> QED BY <1>1, <1>3, <2>1
<1>13. next.segments[Len(next.segments)] = new
  BY <1>1, <1>3
<1> QED BY <1>9, <1>11, <1>12, <1>13 DEF Tiling

LEMMA TilingStep ==
  ASSUME NEW A, NEW n, IsFile(A, n), NEW track, HasDurations(A, n, track),
         NEW from, NEW last, MediaFrom(A, n, from, last),
         NEW i \in (from + 1)..last, NEW st \in Grouped(A),
         Tiling(A, n, track, from, st, i - 1), ~IsTaken(A, st, i),
         GroupBox(A, st, i) \in Grouped(A)
  PROVE  Tiling(A, n, track, from, GroupBox(A, st, i), i)
<1> DEFINE next == GroupBox(A, st, i)
           s == st.segments[Len(st.segments)]
<1>1. /\ n \in Nat /\ from \in 1..n /\ last \in from..n /\ i \in from..n /\ i \in 1..n
      /\ i \in from..last /\ from \in Int /\ i \in Int
  BY DEF IsFile, MediaFrom
<1>2. i \in DOMAIN A /\ A[i].size \in Int /\ A[i].kind \in MediaKinds
  <2>1. i \in DOMAIN A /\ A[i].size \in Int
    BY <1>1 DEF IsFile, IsRow
  <2>2. A[i].kind \in MediaKinds
    BY <1>1 DEF MediaFrom
  <2> QED BY <2>1, <2>2
<1>3. /\ st.segments # << >> /\ Tiled(A, n, track, from, st.segments, i - 1)
      /\ LastIsKnown(A, from, s, i - 1)
  BY DEF Tiling
<1>4. CASE Opens(A, st, i)
  <2>1. Pushes(st, next, Opened(A, i))
    BY <1>2, <1>4, StepIs
  <2>2. A[i].kind \in MediaKinds \ {"mdat"}
    BY <1>4 DEF Opens, MediaKinds
  <2> HIDE DEF next
  <2> QED BY <1>1, <1>3, <2>1, <2>2, PushTiles DEF next
<1>5. CASE ~Opens(A, st, i)
  <2>1. ReplacesLast(st, next, Extended(A, s, i))
    BY <1>2, <1>3, <1>5, StepIs
  <2>2. A[i].kind # "styp"
    BY <1>5 DEF Opens
  <2>3. ASSUME A[i].kind = "sidx", s.sidx_count # 0 PROVE FALSE
    <3>1. PICK q \in s.first..(i - 1) : A[q].kind = "sidx"
      BY <1>3, <2>3 DEF LastIsKnown
    <3>2. s.first \in from..(i - 1)
      <4>1. Len(st.segments) \in Nat \ {0}
        BY <1>3, SegmentsAre
      <4>2. Bound(st.segments, Len(st.segments), i - 1) = (i - 1) + 1
            /\ Len(st.segments) \in 1..Len(st.segments)
        BY <4>1 DEF Bound
      <4>3. s.first \in from..(((i - 1) + 1) - 1)
        BY <1>3, <4>2 DEF Tiled, Covers
      <4>4. ((i - 1) + 1) - 1 = i - 1
        BY <1>1
      <4> QED BY <4>3, <4>4
    <3>3. q \in from..last /\ q < i /\ q \in Int
      BY <1>1, <3>1, <3>2
    <3>4. PreviousKind(A, i) = "mdat" \/ \E m \in q..i : A[m].kind = "styp"
      BY <1>1, <2>3, <3>1, <3>3 DEF MediaFrom
    <3>5. PreviousKind(A, i) # "mdat"
      BY <1>5, <2>3 DEF Opens
    <3>6. PICK m \in q..i : A[m].kind = "styp"
      BY <3>4, <3>5
    <3>7. m # q /\ m # i
      BY <2>3, <3>1, <3>6
    <3>8. m \in from..(i - 1) /\ m > q
      BY <1>1, <3>3, <3>7
    <3>9. m <= s.first
      BY <1>3, <3>6, <3>8 DEF LastIsKnown
    <3> QED BY <1>1, <3>1, <3>2, <3>8, <3>9
  <2> HIDE DEF next
  <2> QED BY <1>1, <2>1, <2>2, <2>3, ExtensionTiles DEF next
<1> QED BY <1>4, <1>5

-----------------------------------------------------------------------------
(* The segments of a file for which a sidx can be planned tile its media.  *)
LEMMA SegmentsTile ==
  ASSUME NEW A, NEW n, IsFile(A, n), NEW track, HasDurations(A, n, track),
         NEW g, GroupingSteps(A, n, g), PlanError(A) = "None",
         NEW last, MediaFrom(A, n, g[n].segments[1].first, last)
  PROVE  Tiled(A, n, track, g[n].segments[1].first, g[n].segments, last)
<1> DEFINE F == g[n].segments[1].first
           T == { j \in 0..n : j >= F =>
                    Tiling(A, n, track, F, g[j], IF j <= last THEN j ELSE last) }
<1>1. g[n].segments # << >>
  BY AnalysisIs
<1>2. /\ F \in 1..n /\ g[F - 1].segments = << >> /\ Opens(A, g[F - 1], F)
  BY <1>1, FirstSegment
<1>3. /\ n \in Nat /\ last \in F..n /\ MediaFrom(A, n, F, last)
      /\ \A k \in (last + 1)..n : A[k].kind \notin MediaKinds
  BY DEF IsFile, MediaFrom
<1>4. ASSUME NEW i \in 1..n, i > F PROVE ~IsTaken(A, g[i - 1], i)
  BY <1>4, NoneTakenBehind
<1> HIDE DEF F
<1>5. 0 \in T
  BY <1>2, <1>3
<1>6. ASSUME NEW i \in 1..n, i - 1 \in T PROVE i \in T
  <2>1. /\ g[i - 1] \in Grouped(A) /\ g[i] \in Grouped(A) /\ i \in DOMAIN A
        /\ g[i] = GroupBox(A, g[i - 1], i) /\ A[i].size \in Int
    BY StatesAre
  <2>2. i \in 0..n /\ i \in Int /\ F \in Int /\ last \in Int
    BY <1>2, <1>3
  <2> SUFFICES ASSUME i >= F
               PROVE  Tiling(A, n, track, F, g[i], IF i <= last THEN i ELSE last)
    BY <2>2
  <2>3. CASE i = F
    <3>1. Pushes(g[i - 1], g[i], Opened(A, i))
      BY <1>2, <2>1, <2>3, StepIs
    <3>2. Tiled(A, n, track, F, g[i - 1].segments, i - 1)
      <4>1. Len(<< >>) = 0 /\ \A k : k \notin 1..0
        OBVIOUS
      <4> QED BY <1>2, <2>3, <4>1 DEF Tiled
    <3>3. A[i].kind \in MediaKinds \ {"mdat"}
      BY <1>2, <2>3 DEF Opens, MediaKinds
    <3>4. i \in F..n /\ i <= last
      BY <1>2, <1>3, <2>3
    <3>5. Tiling(A, n, track, F, g[i], i)
      BY <1>2, <2>1, <3>1, <3>2, <3>3, <3>4, PushTiles
    <3> QED BY <3>4, <3>5
  <2>4. CASE i # F /\ i <= last
    <3>1. i \in (F + 1)..last /\ i - 1 >= F /\ i - 1 <= last /\ i > F
      BY <2>2, <2>4
    <3>2. Tiling(A, n, track, F, g[i - 1], i - 1)
      BY <1>6, <3>1
    <3>3. ~IsTaken(A, g[i - 1], i)
      BY <1>4, <3>1
    <3>4. Tiling(A, n, track, F, GroupBox(A, g[i - 1], i), i)
      BY <1>3, <2>1, <3>1, <3>2, <3>3, TilingStep
    <3> QED BY <2>1, <2>4, <3>4
  <2>5. CASE i > last
    <3>1. i \in (last + 1)..n /\ i - 1 >= F
      BY <1>3, <2>2, <2>5
    <3>2. g[i] = g[i - 1]
      <4>1. A[i].kind \notin MediaKinds
        BY <1>3, <3>1
      <4> QED BY <2>1, <4>1, StepIs
    <3>3. Tiling(A, n, track, F, g[i - 1], IF i - 1 <= last THEN i - 1 ELSE last)
      BY <1>6, <3>1
    <3>4. (IF i - 1 <= last THEN i - 1 ELSE last) = last /\ ~(i <= last)
      BY <2>2, <2>5
    <3> QED BY <3>2, <3>3, <3>4
  <2> QED BY <2>2, <2>3, <2>4, <2>5
<1> HIDE DEF T
<1>7. 0..n \subseteq T
  BY <1>3, <1>5, <1>6, BoundedInduction
<1>8. n \in T /\ n >= F /\ (IF n <= last THEN n ELSE last) = last
  BY <1>2, <1>3, <1>7
<1>9. Tiling(A, n, track, F, g[n], last)
  <2>1. n >= F => Tiling(A, n, track, F, g[n], IF n <= last THEN n ELSE last)
    BY <1>8 DEF T
  <2> QED BY <1>8, <2>1
<1> QED BY <1>9 DEF Tiling, F

-----------------------------------------------------------------------------
(* A sum over a window of what was moved by some places.                   *)
IsWindow(f, h, m, n, d, a, b) ==
  /\ \A j \in 1..n : h[j] \in Int
  /\ \A j \in 1..m : f[j] = IF j \in (a + d)..(b + d) THEN h[j - d] ELSE 0

LEMMA WindowSum ==
  ASSUME NEW m \in Nat, NEW n \in Nat, NEW d \in Nat, NEW f, NEW h,
         NEW a \in 1..n, NEW b \in a..n, b + d <= m,
         IsWindow(f, h, m, n, d, a, b)
  PROVE  SumTo(f, m) = SumTo(h, b) - SumTo(h, a - 1)
<1> DEFINE upto(j) == IF j < a + d THEN 0
                      ELSE IF j <= b + d THEN SumTo(h, j - d) - SumTo(h, a - 1)
                      ELSE SumTo(h, b) - SumTo(h, a - 1)
           T == { j \in 0..m : SumTo(f, j) = upto(j) }
<1>0. /\ \A j \in 1..n : h[j] \in Int
      /\ \A j \in 1..m : f[j] = IF j \in (a + d)..(b + d) THEN h[j - d] ELSE 0
  BY DEF IsWindow
<1>1. ASSUME NEW j \in 0..n
      PROVE  SumTo(h, j) \in Int /\ (j > 0 => SumTo(h, j) = SumTo(h, j - 1) + h[j])
  <2>1. j \in Nat /\ \A k \in 1..j : h[k] \in Int
    BY <1>0
  <2> QED BY <2>1, SumToIs
<1>2. \A j \in 1..m : f[j] \in Int
  <2> SUFFICES ASSUME NEW j \in 1..m PROVE f[j] \in Int
    OBVIOUS
  <2>1. j \in (a + d)..(b + d) => j - d \in 1..n
    OBVIOUS
  <2> QED BY <1>0, <2>1
<1>3. ASSUME NEW j \in 1..m
      PROVE  SumTo(f, j) = SumTo(f, j - 1) + f[j] /\ SumTo(f, j - 1) \in Int
  <2>1. j \in Nat /\ j > 0 /\ j - 1 \in Nat
        /\ (\A k \in 1..j : f[k] \in Int) /\ \A k \in 1..(j - 1) : f[k] \in Int
    BY <1>2
  <2>2. SumTo(f, j) = SumTo(f, j - 1) + f[j]
    BY <2>1, SumToIs
  <2>3. SumTo(f, j - 1) \in Int
    BY <2>1, SumToIs
  <2> QED BY <2>2, <2>3
<1>4. a - 1 \in 0..n /\ b \in 0..n
  OBVIOUS
<1>5. SumTo(h, a - 1) \in Int /\ SumTo(h, b) \in Int
  BY <1>1, <1>4
<1>6. 0 \in T
  <2>1. \A j \in 1..0 : f[j] \in Int
    OBVIOUS
  <2>2. SumTo(f, 0) = 0
    BY <2>1, SumToIs
  <2>3. 0 < a + d
    OBVIOUS
  <2> QED BY <2>2, <2>3
<1>7. ASSUME NEW j \in 1..m, j - 1 \in T PROVE j \in T
  <2>1. SumTo(f, j) = upto(j - 1) + f[j]
    BY <1>3, <1>7
  <2>2. CASE j < a + d
    <3>1. upto(j - 1) = 0 /\ upto(j) = 0 /\ f[j] = 0
      BY <1>0, <2>2
    <3> QED BY <2>1, <3>1
  <2>3. CASE j \in (a + d)..(b + d)
    <3>1. j - d \in 0..n /\ j - d > 0 /\ (j - d) - 1 = (j - 1) - d /\ (j - d) - 1 \in 0..n
          /\ j - d \in 1..n
      BY <2>3
    <3> DEFINE k == j - d
    <3>2. /\ SumTo(h, k) = SumTo(h, k - 1) + h[k] /\ SumTo(h, k - 1) \in Int
          /\ SumTo(h, k) \in Int /\ h[k] \in Int
      <4>1. k \in 0..n /\ k > 0 /\ k - 1 \in 0..n /\ k \in 1..n
        BY <3>1
      <4> HIDE DEF k
      <4> QED BY <1>0, <1>1, <4>1
    <3>3. f[j] = h[k]
      BY <1>0, <2>3
    <3>4. upto(j) = SumTo(h, k) - SumTo(h, a - 1)
      BY <2>3
    <3>5. upto(j - 1) = SumTo(h, k - 1) - SumTo(h, a - 1)
      <4>1. CASE j = a + d
        <5>1. k - 1 = a - 1 /\ j - 1 < a + d
          BY <4>1
        <5>2. SumTo(h, k - 1) = SumTo(h, a - 1)
          BY <5>1
        <5>3. upto(j - 1) = 0
          BY <5>1
        <5> HIDE DEF k, upto
        <5> QED BY <1>5, <5>2, <5>3
      <4>2. CASE j # a + d
        <5>1. ~(j - 1 < a + d) /\ j - 1 <= b + d /\ (j - 1) - d = k - 1
          BY <2>3, <4>2
        <5>2. upto(j - 1) = SumTo(h, (j - 1) - d) - SumTo(h, a - 1)
          BY <5>1
        <5> HIDE DEF k, upto
        <5> QED BY <5>1, <5>2
      <4> QED BY <4>1, <4>2
    <3> HIDE DEF k, upto
    <3>6. SumTo(f, j) = upto(j)
      BY <1>5, <2>1, <3>2, <3>3, <3>4, <3>5
    <3> QED BY <3>6
  <2>4. CASE j > b + d
    <3>1. f[j] = 0
      BY <1>0, <2>4
    <3>2. upto(j) = SumTo(h, b) - SumTo(h, a - 1)
      BY <2>4
    <3>3. upto(j - 1) = SumTo(h, b) - SumTo(h, a - 1)
      <4>1. CASE j - 1 = b + d
        <5>1. (j - 1) - d = b /\ ~(j - 1 < a + d) /\ j - 1 <= b + d
          BY <4>1
        <5>2. upto(j - 1) = SumTo(h, (j - 1) - d) - SumTo(h, a - 1)
          BY <5>1
        <5> HIDE DEF upto
        <5> QED BY <5>1, <5>2
      <4>2. CASE j - 1 # b + d
        <5>1. ~(j - 1 < a + d) /\ ~(j - 1 <= b + d)
          BY <2>4, <4>2
        <5> QED BY <5>1
      <4> QED BY <4>1, <4>2
    <3> HIDE DEF upto
    <3>4. SumTo(f, j) = upto(j)
      BY <1>5, <2>1, <3>1, <3>2, <3>3
    <3> QED BY <3>4
  <2>5. j < a + d \/ j \in (a + d)..(b + d) \/ j > b + d
    OBVIOUS
  <2> QED BY <2>2, <2>3, <2>4, <2>5
<1> HIDE DEF T, upto
<1>8. 0..m \subseteq T
  BY <1>6, <1>7, BoundedInduction
<1>9. SumTo(f, m) = upto(m)
  BY <1>8 DEF T
<1>10. upto(m) = SumTo(h, b) - SumTo(h, a - 1)
  <2>1. CASE m = b + d
    <3>1. ~(m < a + d) /\ m <= b + d /\ m - d = b
      BY <2>1
    <3>2. upto(m) = SumTo(h, m - d) - SumTo(h, a - 1)
      BY <3>1 DEF upto
    <3> QED BY <3>1, <3>2
  <2>2. CASE m # b + d
    <3>1. ~(m < a + d) /\ ~(m <= b + d)
      BY <2>2
    <3> QED BY <3>1 DEF upto
  <2> QED BY <2>1, <2>2
<1> QED BY <1>9, <1>10

-----------------------------------------------------------------------------
(* A plan that was made for a file.                                        *)
Planned(A, n, g, track, p) ==
  /\ IsFile(A, n) /\ HasDurations(A, n, track)
  /\ GroupingSteps(A, n, g) /\ PlanError(A) = "None"
  /\ PlanFits(p, A)
  /\ p.replaced = IF g[n].existing = << >> THEN None ELSE g[n].existing[1]
  /\ p.insertion_box = g[n].segments[1].first
  /\ p.starts = [k \in DOMAIN g[n].segments |-> A[g[n].segments[k].first].offset]
  /\ p.sizes = [k \in DOMAIN g[n].segments |-> g[n].segments[k].size]
  /\ p.durations = [k \in DOMAIN g[n].segments |->
                      SegmentDuration(A, g[n].segments[k], track)]

(* What is written or replaced is in front of the media.                   *)
LEMMA InFrontOfMedia ==
  ASSUME NEW A, NEW n, NEW g, NEW track, NEW p, Planned(A, n, g, track, p)
  PROVE  LET first == g[n].segments[1].first
         IN  /\ first \in 1..n /\ A[first].kind \in MediaKinds \ {"mdat"}
             /\ WriteOffset(A, p) \in Int /\ RemovedSize(A, p) \in Nat
             /\ WriteOffset(A, p) + RemovedSize(A, p) <= A[first].offset
             /\ A[first].offset \in Int
             /\ p.replaced = None => WriteOffset(A, p) = A[first].offset
                                     /\ RemovedSize(A, p) = 0 /\ p.insertion_box = first
             /\ p.replaced # None =>
                  /\ p.replaced \in 1..n /\ p.replaced < first
                  /\ WriteOffset(A, p) = A[p.replaced].offset
                  /\ RemovedSize(A, p) = A[p.replaced].size
<1> DEFINE F == g[n].segments[1].first
           r == p.replaced
<1>1. /\ IsFile(A, n) /\ GroupingSteps(A, n, g) /\ PlanError(A) = "None"
      /\ r = IF g[n].existing = << >> THEN None ELSE g[n].existing[1]
      /\ p.insertion_box = F /\ r \in BoxesOf(A, "sidx") \cup {None}
  BY DEF Planned, PlanFits
<1>2. /\ g[n].segments # << >>
      /\ g[n].existing # << >> =>
           /\ SegmentStarts(A[g[n].existing[1]]) # << >>
           /\ SegmentStarts(A[g[n].existing[1]])[1] = A[F].offset
  BY <1>1, AnalysisIs
<1>3. F \in 1..n /\ Opens(A, g[F - 1], F)
  BY <1>1, <1>2, FirstSegment
<1>4. A[F].kind \in MediaKinds \ {"mdat"}
  BY <1>3 DEF Opens, MediaKinds
<1> HIDE DEF F
<1>5. n \in Nat /\ A[F].offset \in Int
  BY <1>1, <1>3 DEF IsFile
<1>6. CASE r = None
  <2>1. WriteOffset(A, p) = A[F].offset /\ RemovedSize(A, p) = 0
    BY <1>1, <1>6 DEF WriteOffset, RemovedSize
  <2> QED BY <1>1, <1>3, <1>4, <1>5, <1>6, <2>1 DEF F
<1>7. CASE r # None
  <2>1. WriteOffset(A, p) = A[r].offset /\ RemovedSize(A, p) = A[r].size
    BY <1>7 DEF WriteOffset, RemovedSize
  <2>2. r \in 1..n /\ A[r].kind = "sidx"
    BY <1>1, <1>7 DEF BoxesOf, IsFile, IsRow
  <2>3. SegmentStarts(A[r]) # << >> /\ SegmentStarts(A[r])[1] = A[F].offset
    BY <1>1, <1>2, <1>7
  <2> HIDE DEF r
  <2>4. A[F].offset >= A[r].offset + A[r].size
    BY <1>1, <2>2, <2>3, StartsBehind
  <2>5. A[r].offset \in Int /\ A[r].size \in Nat /\ A[r].size > 0
    BY <1>1, <2>2 DEF IsFile
  <2>6. r < F
    <3> SUFFICES ASSUME ~(r < F) PROVE FALSE
      OBVIOUS
    <3>1. F = r \/ F < r
      BY <1>3, <2>2
    <3>2. A[F].offset <= A[r].offset
      <4>1. CASE F = r
        BY <2>5, <4>1
      <4>2. CASE F < r
        <5>1. At(A, n, F) = A[F].offset /\ At(A, n, r) = A[r].offset
          BY <1>1, <1>3, <2>2, AtIs
        <5>2. F \in 1..(n + 1) /\ r \in 1..(n + 1)
          BY <1>3, <1>5, <2>2
        <5>3. At(A, n, F) < At(A, n, r)
          BY <1>1, <4>2, <5>2, AtIs
        <5> QED BY <1>5, <2>5, <5>1, <5>3
      <4> QED BY <3>1, <4>1, <4>2
    <3> QED BY <1>5, <2>4, <2>5, <3>2
  <2> QED BY <1>3, <1>4, <1>5, <1>7, <2>1, <2>2, <2>4, <2>5, <2>6 DEF F, r
<1> QED BY <1>6, <1>7 DEF F

-----------------------------------------------------------------------------
(* A segment of a tiling, and what it says of the bytes.                   *)
LiesBetween(A, n, track, segments, k, last) ==
  LET bound == Bound(segments, k, last)
      segment == segments[k]
  IN  /\ Len(segments) \in Nat /\ DOMAIN segments = 1..Len(segments)
      /\ Covers(A, n, track, segments[1].first, segment, bound)
      /\ segment \in Segment(A) /\ segment.moofs # << >>
      /\ segment.first \in segments[1].first..n /\ bound \in (segment.first + 1)..(n + 1)
      /\ bound - 1 \in segment.first..n
      /\ segment.size = At(A, n, bound) - At(A, n, segment.first)
      /\ At(A, n, bound) \in Int /\ At(A, n, segment.first) \in Int
      /\ At(A, n, segment.first) = A[segment.first].offset
      /\ At(A, n, bound) > At(A, n, segment.first)
      /\ At(A, n, segment.first) >= At(A, n, segments[1].first)
      /\ At(A, n, segments[1].first) \in Int

LEMMA SegmentCovers ==
  ASSUME NEW A, NEW n, NEW g, NEW track, NEW p, Planned(A, n, g, track, p),
         NEW last, MediaFrom(A, n, g[n].segments[1].first, last),
         NEW k \in 1..Len(g[n].segments)
  PROVE  LiesBetween(A, n, track, g[n].segments, k, last)
<1> DEFINE segments == g[n].segments
           F == segments[1].first
           bound == Bound(segments, k, last)
           segment == segments[k]
<1>1. /\ IsFile(A, n) /\ HasDurations(A, n, track)
      /\ GroupingSteps(A, n, g) /\ PlanError(A) = "None" /\ n \in Nat /\ g[n] \in Grouped(A)
  <2>1. /\ IsFile(A, n) /\ HasDurations(A, n, track)
        /\ GroupingSteps(A, n, g) /\ PlanError(A) = "None"
    BY DEF Planned
  <2>2. n \in Nat /\ n \in 0..n
    BY <2>1 DEF IsFile
  <2> QED BY <2>1, <2>2 DEF GroupingSteps
<1>2. Tiled(A, n, track, F, segments, last)
  BY <1>1, SegmentsTile
<1>3. /\ Len(segments) \in Nat /\ DOMAIN segments = 1..Len(segments)
      /\ segment \in Segment(A) /\ segment.moofs # << >>
      /\ \A j \in 1..Len(segments) : segments[j].first \in 1..n
  <2>1. DOMAIN A = 1..n
    BY <1>1 DEF IsFile, IsRow
  <2> QED BY <1>1, <2>1, SegmentsAre, AnalysisIs
<1>4. F \in 1..n /\ last \in F..n
  BY DEF MediaFrom
<1>5. Covers(A, n, track, F, segment, bound)
  BY <1>2 DEF Tiled
<1>6. bound \in 1..(n + 1)
  <2>1. CASE k < Len(segments)
    <3>1. k + 1 \in 1..Len(segments)
      BY <1>3, <2>1
    <3>2. segments[k + 1].first \in 1..n
      BY <1>3, <3>1
    <3>3. bound = segments[k + 1].first
      BY <2>1 DEF Bound
    <3> HIDE DEF bound, segments
    <3> QED BY <1>1, <3>2, <3>3
  <2>2. CASE ~(k < Len(segments))
    <3>1. bound = last + 1
      BY <2>2 DEF Bound
    <3> HIDE DEF bound, F
    <3> QED BY <1>1, <1>4, <3>1
  <2> QED BY <2>1, <2>2
<1>7. /\ segment.first \in F..(bound - 1)
      /\ segment.size = At(A, n, bound) - At(A, n, segment.first)
  BY <1>5 DEF Covers
<1>8. segment.first \in 1..n
  BY <1>3
<1> HIDE DEF segments, segment, bound, F
<1>9. /\ segment.first \in F..n /\ bound \in (segment.first + 1)..(n + 1)
      /\ bound - 1 \in segment.first..n
      /\ segment.first < bound
  BY <1>1, <1>4, <1>6, <1>7, <1>8
<1>10. /\ \A j \in 1..n : At(A, n, j) = A[j].offset /\ At(A, n, j) \in Int
                          /\ At(A, n, j + 1) \in Int
       /\ \A i, j \in 1..(n + 1) : i < j => At(A, n, i) < At(A, n, j)
  BY <1>1, AtIs
<1>11. At(A, n, bound) \in Int
  <2>1. bound - 1 \in 1..n /\ (bound - 1) + 1 = bound
    <3>1. n \in Nat /\ bound \in 1..(n + 1) /\ segment.first \in 1..n
          /\ segment.first < bound
      BY <1>1, <1>6, <1>8, <1>9
    <3> QED BY <3>1
  <2>2. At(A, n, (bound - 1) + 1) \in Int
    BY <1>10, <2>1
  <2> QED BY <2>1, <2>2
<1>12. At(A, n, bound) > At(A, n, segment.first) /\ At(A, n, segment.first) \in Int
       /\ At(A, n, segment.first) = A[segment.first].offset
  <2>1. segment.first \in 1..(n + 1)
    BY <1>1, <1>8
  <2>2. At(A, n, segment.first) < At(A, n, bound)
    BY <1>6, <1>9, <1>10, <2>1
  <2>3. At(A, n, segment.first) \in Int /\ At(A, n, segment.first) = A[segment.first].offset
    BY <1>8, <1>10
  <2> QED BY <1>11, <2>2, <2>3
<1>13. At(A, n, segment.first) >= At(A, n, F) /\ At(A, n, F) \in Int
  <2>1. At(A, n, F) \in Int
    BY <1>4, <1>10
  <2>2. CASE segment.first = F
    BY <1>12, <2>2
  <2>3. CASE segment.first # F
    <3>1. F < segment.first /\ F \in 1..(n + 1) /\ segment.first \in 1..(n + 1)
      BY <1>1, <1>4, <1>8, <1>9, <2>3
    <3>2. At(A, n, F) < At(A, n, segment.first)
      BY <1>10, <3>1
    <3> QED BY <1>12, <2>1, <3>2
  <2> QED BY <2>1, <2>2, <2>3
<1> QED BY <1>3, <1>5, <1>7, <1>9, <1>11, <1>12, <1>13
        DEF LiesBetween, segments, segment, bound, F

(* The sizes in front of a segment reach from the first to it.             *)
AreSizes(segments, f) == \A j \in 1..Len(segments) : f[j] = segments[j].size

Reaches(A, n, segments, f, k) ==
  SumTo(f, k - 1) = At(A, n, segments[k].first) - At(A, n, segments[1].first)

LEMMA SizesReach ==
  ASSUME NEW A, NEW n, NEW g, NEW track, NEW p, Planned(A, n, g, track, p),
         NEW last, MediaFrom(A, n, g[n].segments[1].first, last),
         NEW f, AreSizes(g[n].segments, f), NEW k \in 1..Len(g[n].segments)
  PROVE  Reaches(A, n, g[n].segments, f, k)
<1> DEFINE segments == g[n].segments
           c == Len(segments)
           at(j) == At(A, n, segments[j].first)
           T == { j \in 0..c : j > 0 => SumTo(f, j - 1) = at(j) - at(1) }
<1>1. c \in Nat
  <2>1. IsFile(A, n) /\ GroupingSteps(A, n, g)
    BY DEF Planned
  <2>2. n \in Nat /\ n \in 0..n
    BY <2>1 DEF IsFile
  <2>3. g[n] \in Grouped(A)
    BY <2>1, <2>2 DEF GroupingSteps
  <2> QED BY <2>3, SegmentsAre
<1>2. ASSUME NEW j \in 1..c
      PROVE  /\ f[j] \in Int /\ at(j) \in Int
             /\ j < c => f[j] = at(j + 1) - at(j)
  <2>1. /\ segments[j].size = At(A, n, Bound(segments, j, last)) - at(j)
        /\ At(A, n, Bound(segments, j, last)) \in Int /\ at(j) \in Int
    <3>1. LiesBetween(A, n, track, segments, j, last)
      BY SegmentCovers
    <3> QED BY <3>1 DEF LiesBetween
  <2>2. f[j] = segments[j].size
    BY DEF AreSizes
  <2>3. j < c => Bound(segments, j, last) = segments[j + 1].first
    BY DEF Bound
  <2> HIDE DEF segments, c
  <2> QED BY <2>1, <2>2, <2>3
<1> HIDE DEF at, c
<1>3. ASSUME NEW j \in 1..c
      PROVE  /\ SumTo(f, j - 1) \in Int /\ SumTo(f, 0) = 0
             /\ j - 1 > 0 => SumTo(f, j - 1) = SumTo(f, (j - 1) - 1) + f[j - 1]
  <2>1. j - 1 \in Nat /\ \A i \in 1..(j - 1) : f[i] \in Int
    BY <1>1, <1>2
  <2> DEFINE i == j - 1
  <2>2. i \in Nat /\ \A x \in 1..i : f[x] \in Int
    BY <2>1
  <2> HIDE DEF i
  <2>3. SumTo(f, i) \in Int /\ SumTo(f, 0) = 0
        /\ (i > 0 => SumTo(f, i) = SumTo(f, i - 1) + f[i])
    BY <2>2, SumToIs
  <2> QED BY <2>3 DEF i
<1>4. 0 \in T
  BY <1>1
<1>5. ASSUME NEW j \in 1..c, j - 1 \in T PROVE j \in T
  <2>1. CASE j = 1
    <3>1. SumTo(f, j - 1) = 0
      <4>1. j - 1 = 0
        BY <2>1
      <4> QED BY <1>3, <4>1
    <3>2. at(j) = at(1) /\ at(j) \in Int
      BY <1>2, <2>1
    <3> QED BY <3>1, <3>2
  <2>2. CASE j # 1
    <3>1. j - 1 \in 1..c /\ j - 1 > 0 /\ j - 1 < c /\ (j - 1) + 1 = j /\ 1 \in 1..c
      BY <1>1, <2>2
    <3>2. SumTo(f, (j - 1) - 1) = at(j - 1) - at(1)
      BY <1>5, <3>1
    <3>3. f[j - 1] = at(j) - at(j - 1) /\ at(j - 1) \in Int
      BY <1>2, <3>1
    <3>4. at(j) \in Int /\ at(1) \in Int
      BY <1>2, <3>1
    <3>5. SumTo(f, j - 1) = SumTo(f, (j - 1) - 1) + f[j - 1]
      BY <1>3, <3>1
    <3>6. SumTo(f, j - 1) = at(j) - at(1)
      BY <3>2, <3>3, <3>4, <3>5
    <3> QED BY <3>6
  <2> QED BY <2>1, <2>2
<1> HIDE DEF T
<1>6. 0..c \subseteq T
  BY <1>1, <1>4, <1>5, BoundedInduction
<1>7. k \in T /\ k > 0
  BY <1>1, <1>6 DEF c
<1>8. SumTo(f, k - 1) = at(k) - at(1)
  BY <1>7 DEF T
<1> QED BY <1>8 DEF at, Reaches

(* What the new sidx says.                                                 *)
LEMMA NewSays ==
  ASSUME NEW A, NEW n, NEW g, NEW track, NEW p, Planned(A, n, g, track, p)
  PROVE  LET segments == g[n].segments
             new == RewrittenSidx(A, p)
         IN  /\ segments # << >> /\ Len(segments) \in Nat \ {0}
             /\ DOMAIN segments = 1..Len(segments)
             /\ new.first_offset = A[segments[1].first].offset + new.size - RemovedSize(A, p)
                                     - (WriteOffset(A, p) + new.size)
             /\ DOMAIN new.entries = 1..Len(segments)
             /\ \A k \in 1..Len(segments) :
                  new.durations[k] = SegmentDuration(A, segments[k], track)
<1> DEFINE segments == g[n].segments
           new == RewrittenSidx(A, p)
           W == WriteOffset(A, p)
           R == RemovedSize(A, p)
           E == EncodedSidxSize(p.version, Len(p.sizes))
           x == A[segments[1].first].offset
<1>1. /\ p.starts = [k \in DOMAIN segments |-> A[segments[k].first].offset]
      /\ p.sizes = [k \in DOMAIN segments |-> segments[k].size]
      /\ p.durations = [k \in DOMAIN segments |-> SegmentDuration(A, segments[k], track)]
      /\ E \in Int
      /\ IsFile(A, n) /\ GroupingSteps(A, n, g) /\ PlanError(A) = "None"
  BY DEF Planned, PlanFits
<1>2. /\ new.first_offset = Shifted(p.starts[1], W + R, E, R) - (W + E)
      /\ DOMAIN new.entries = DOMAIN p.sizes
      /\ new.durations = p.durations /\ new.size = E
  BY DEF RewrittenSidx
<1>3. W \in Int /\ R \in Int /\ W + R <= x /\ x \in Int
  BY InFrontOfMedia
<1>4. segments # << >> /\ Len(segments) \in Nat \ {0} /\ DOMAIN segments = 1..Len(segments)
  <2>1. g[n].segments # << >>
    BY <1>1, AnalysisIs
  <2>2. g[n] \in Grouped(A)
    BY <1>1 DEF GroupingSteps, IsFile
  <2>3. Len(segments) \in 1..Len(segments)
    BY <2>1, <2>2, SegmentsAre
  <2> QED BY <2>1, <2>2, <2>3, SegmentsAre
<1>5. 1 \in DOMAIN segments
  BY <1>4
<1> HIDE DEF W, R, E, new
<1>6. p.starts[1] = x
  BY <1>1, <1>5
<1> HIDE DEF x
<1>7. new.first_offset = x + E - R - (W + E)
  <2>1. ~(x < W + R)
    BY <1>3
  <2>2. Shifted(x, W + R, E, R) = x + E - R
    BY <2>1 DEF Shifted
  <2> QED BY <1>1, <1>2, <1>3, <1>6, <2>2
<1>8. DOMAIN new.entries = 1..Len(segments)
  BY <1>1, <1>2, <1>4
<1>9. \A k \in 1..Len(segments) : new.durations[k] = SegmentDuration(A, segments[k], track)
  BY <1>1, <1>2, <1>4
<1> QED BY <1>2, <1>4, <1>7, <1>8, <1>9 DEF new, W, R, x

KeepsSize(A, p, segments, k) == RewrittenSidx(A, p).entries[k] = segments[k].size

LEMMA NewSizes ==
  ASSUME NEW A, NEW n, NEW g, NEW track, NEW p, Planned(A, n, g, track, p),
         NEW last, MediaFrom(A, n, g[n].segments[1].first, last),
         NEW k \in 1..Len(g[n].segments)
  PROVE  KeepsSize(A, p, g[n].segments, k)
<1> DEFINE segments == g[n].segments
           s == segments[k]
           b == Bound(segments, k, last)
           F == segments[1].first
           W == WriteOffset(A, p)
           R == RemovedSize(A, p)
           E == EncodedSidxSize(p.version, Len(p.sizes))
           a == p.starts[k]
           z == p.sizes[k]
           new == RewrittenSidx(A, p)
<1>1. /\ p.starts = [j \in DOMAIN segments |-> A[segments[j].first].offset]
      /\ p.sizes = [j \in DOMAIN segments |-> segments[j].size]
      /\ E \in Int /\ IsFile(A, n)
  BY DEF Planned, PlanFits
<1>2. new.entries = [j \in DOMAIN p.sizes |->
                       Shifted(p.starts[j] + p.sizes[j], W + R, E, R)
                         - Shifted(p.starts[j], W + R, E, R)]
  BY DEF RewrittenSidx
<1>3. k \in DOMAIN segments /\ a = A[s.first].offset /\ z = s.size /\ k \in DOMAIN p.sizes
  BY <1>1, NewSays
<1>4. W \in Int /\ R \in Nat /\ W + R <= A[F].offset /\ A[F].offset \in Int /\ F \in 1..n
  BY InFrontOfMedia
<1>5. At(A, n, F) = A[F].offset
  BY <1>1, <1>4, AtIs
<1>6. /\ s.size = At(A, n, b) - At(A, n, s.first)
      /\ At(A, n, b) \in Int /\ At(A, n, s.first) \in Int
      /\ At(A, n, s.first) = A[s.first].offset
      /\ At(A, n, b) > At(A, n, s.first)
      /\ At(A, n, s.first) >= At(A, n, F)
  <2>1. LiesBetween(A, n, track, segments, k, last)
    BY SegmentCovers
  <2> QED BY <2>1 DEF LiesBetween
<1>7. new.entries[k] = Shifted(a + z, W + R, E, R) - Shifted(a, W + R, E, R)
  BY <1>2, <1>3
<1> HIDE DEF new, a, z, W, R, E, s, b, F, segments
<1>8. a \in Int /\ z \in Int /\ ~(a < W + R) /\ ~(a + z < W + R)
  BY <1>3, <1>4, <1>5, <1>6
<1>9. Shifted(a, W + R, E, R) = a + E - R /\ Shifted(a + z, W + R, E, R) = a + z + E - R
  BY <1>8 DEF Shifted
<1>10. new.entries[k] = z
  BY <1>1, <1>4, <1>7, <1>8, <1>9
<1> QED BY <1>3, <1>10 DEF new, s, segments, KeepsSize

-----------------------------------------------------------------------------
(* What a plan makes of a file: as many boxes or one more, and the media   *)
(* moved by some places and some bytes.                                    *)
Moves(A, n, first, B, d, delta) ==
  /\ d \in 0..1 /\ delta \in Int /\ DOMAIN B = 1..(n + d) /\ IsLaid(B)
  /\ \A j \in 1..(n + d) : /\ B[j].offset \in Int /\ B[j].size \in Int /\ B[j].size > 0
  /\ \A k \in first..n : SameBut(A[k], B[k + d]) /\ B[k + d].offset = A[k].offset + delta

LEMMA InsertedMoves ==
  ASSUME NEW A, NEW n, NEW g, NEW track, NEW p, Planned(A, n, g, track, p),
         p.replaced = None
  PROVE  /\ Moves(A, n, g[n].segments[1].first, Applied(A, p), 1,
                  RewrittenSidx(A, p).size - RemovedSize(A, p))
         /\ Applied(A, p)[NewAt(p)].offset = WriteOffset(A, p)
<1> DEFINE b == g[n].segments[1].first
           B == Applied(A, p)
           size == RewrittenSidx(A, p).size
           at(j) == IF j <= b THEN At(A, n, j) ELSE At(A, n, j - 1) + size
           T == { j \in 0..(n + 1) : j > 0 => B[j].offset = at(j) }
<1>1. IsFile(A, n) /\ PlanFits(p, A)
  BY DEF Planned
<1>2. /\ b \in 1..n /\ WriteOffset(A, p) = A[b].offset /\ RemovedSize(A, p) = 0
      /\ p.insertion_box = b
  BY InFrontOfMedia
<1>3. /\ n \in Nat \ {0} /\ IsRow(A, n) /\ LaidSizes(A)
      /\ A[1].offset = 0
      /\ \A j \in 1..n : A[j].size \in Int /\ A[j].size > 0 /\ A[j].offset \in Int
  <2>1. n \in Nat \ {0} /\ IsRow(A, n) /\ LaidSizes(A) /\ IsLaid(A)
    BY <1>1 DEF IsFile
  <2>2. 1 \in DOMAIN A
    BY <2>1 DEF IsRow
  <2>3. A[1].offset = 0
    BY <2>1, <2>2 DEF IsLaid
  <2>4. \A j \in 1..n : A[j].size \in Int /\ A[j].size > 0 /\ A[j].offset \in Int
    BY <1>1 DEF IsFile
  <2> QED BY <2>1, <2>3, <2>4
<1>4. size \in Int /\ size > 0
  <2>1. size \in Nat \ {0}
    BY <1>1, NewSidxIs DEF PlanFits
  <2> QED BY <2>1
<1>5. CountWith(n, p) = n + 1 /\ NewAt(p) = b
      /\ \A k \in 1..n : To(p, k) = IF k >= b THEN k + 1 ELSE k
  BY <1>2 DEF CountWith, NewAt, To
<1>6. \A k \in 1..n : k # p.replaced
  BY <1>3, NoneAssumption
<1>7. /\ DOMAIN B = 1..(n + 1) /\ IsLaid(B)
      /\ \A j \in 1..(n + 1) : B[j].offset \in Int /\ B[j].size \in Int
      /\ SameBut(RewrittenSidx(A, p), B[b])
      /\ \A k \in 1..n : SameBut(A[k], B[To(p, k)])
  <2>1. /\ DOMAIN B = 1..CountWith(n, p) /\ IsLaid(B)
        /\ \A j \in 1..CountWith(n, p) : B[j].offset \in Int /\ B[j].size \in Int
        /\ SameBut(RewrittenSidx(A, p), B[NewAt(p)])
        /\ \A k \in 1..n : k # p.replaced => SameBut(A[k], B[To(p, k)])
    <3>1. n \in Nat
      BY <1>3
    <3> HIDE DEF B
    <3> QED BY <1>1, <1>3, <3>1, AppliedIs DEF B
  <2> HIDE DEF B, b
  <2> QED BY <1>5, <1>6, <2>1
<1>8. /\ \A j \in 1..n : At(A, n, j) = A[j].offset /\ At(A, n, j) \in Int
                         /\ At(A, n, j + 1) = At(A, n, j) + A[j].size
  BY <1>1, AtIs
<1> HIDE DEF B, size, b
<1>9. ASSUME NEW j \in 1..(n + 1)
      PROVE  B[j].size = IF j < b THEN A[j].size ELSE IF j = b THEN size ELSE A[j - 1].size
  <2>1. CASE j < b
    <3>1. j \in 1..n /\ To(p, j) = j
      BY <1>2, <1>3, <1>5, <2>1
    <3> QED BY <1>7, <2>1, <3>1 DEF SameBut
  <2>2. CASE j = b
    BY <1>7, <2>2 DEF SameBut, size
  <2>3. CASE j > b
    <3>1. j - 1 \in 1..n /\ j - 1 >= b /\ (j - 1) + 1 = j
      BY <1>2, <1>3, <2>3
    <3>2. To(p, j - 1) = j
      BY <1>5, <3>1
    <3>3. B[j].size = A[j - 1].size
      BY <1>7, <3>1, <3>2 DEF SameBut
    <3> QED BY <1>2, <2>3, <3>3
  <2> QED BY <1>2, <2>1, <2>2, <2>3
<1>10. 0 \in T
  BY <1>3
<1>11. ASSUME NEW j \in 1..(n + 1), j - 1 \in T PROVE j \in T
  <2> SUFFICES B[j].offset = at(j)
    BY <1>3
  <2>1. CASE j = 1
    <3>1. B[j].offset = 0
      BY <1>7, <2>1 DEF IsLaid
    <3>2. at(j) = A[1].offset
      BY <1>2, <1>3, <1>8, <2>1
    <3> QED BY <1>3, <3>1, <3>2
  <2>2. CASE j # 1
    <3>1. j - 1 \in 1..(n + 1) /\ j - 1 \in 1..n /\ j - 1 > 0 /\ (j - 1) + 1 = j
      BY <1>3, <2>2
    <3>2. B[j].offset = B[j - 1].offset + B[j - 1].size
      BY <1>7, <2>2 DEF IsLaid
    <3>3. B[j - 1].offset = at(j - 1)
      BY <1>11, <3>1
    <3>4. At(A, n, j) = At(A, n, j - 1) + A[j - 1].size /\ At(A, n, j - 1) \in Int
          /\ A[j - 1].size \in Int
      BY <1>3, <1>8, <3>1
    <3>5. CASE j <= b
      <4>1. j - 1 < b /\ j - 1 <= b
        BY <1>2, <3>5
      <4>2. B[j - 1].size = A[j - 1].size
        BY <1>9, <3>1, <4>1
      <4> QED BY <3>2, <3>3, <3>4, <3>5, <4>1, <4>2
    <3>6. CASE j = b + 1
      <4>1. j - 1 = b /\ j - 1 <= b /\ ~(j <= b)
        BY <1>2, <3>6
      <4>2. B[j - 1].size = size
        BY <1>2, <1>9, <3>1, <4>1
      <4>3. at(j) = At(A, n, j - 1) + size /\ at(j - 1) = At(A, n, j - 1)
        BY <4>1
      <4> QED BY <3>2, <3>3, <4>2, <4>3
    <3>7. CASE j > b + 1
      <4>1. ~(j - 1 <= b) /\ ~(j <= b) /\ ~(j - 1 < b) /\ j - 1 # b
            /\ (j - 1) - 1 \in 1..n /\ ((j - 1) - 1) + 1 = j - 1
        BY <1>2, <1>3, <3>7
      <4>2. B[j - 1].size = A[(j - 1) - 1].size
        BY <1>9, <3>1, <4>1
      <4>3. at(j) = At(A, n, j - 1) + size /\ at(j - 1) = At(A, n, (j - 1) - 1) + size
        BY <4>1
      <4>4. /\ At(A, n, j - 1) = At(A, n, (j - 1) - 1) + A[(j - 1) - 1].size
            /\ At(A, n, (j - 1) - 1) \in Int /\ A[(j - 1) - 1].size \in Int
        BY <1>3, <1>8, <4>1
      <4> QED BY <1>4, <3>2, <3>3, <4>2, <4>3, <4>4
    <3> QED BY <1>2, <3>5, <3>6, <3>7
  <2> QED BY <2>1, <2>2
<1> HIDE DEF T
<1>12. 0..(n + 1) \subseteq T
  <2>1. n + 1 \in Nat
    BY <1>3
  <2> QED BY <1>10, <1>11, <2>1, BoundedInduction
<1>13. \A j \in 1..(n + 1) : B[j].offset = at(j)
  <2> SUFFICES ASSUME NEW j \in 1..(n + 1) PROVE B[j].offset = at(j)
    OBVIOUS
  <2>1. j \in 0..(n + 1) /\ j > 0
    OBVIOUS
  <2>2. j \in T
    BY <1>12, <2>1
  <2> HIDE DEF at
  <2> QED BY <2>1, <2>2 DEF T
<1>14. ASSUME NEW k \in b..n
       PROVE  SameBut(A[k], B[k + 1]) /\ B[k + 1].offset = A[k].offset + size
  <2>1. k \in 1..n /\ k >= b /\ k + 1 \in 1..(n + 1) /\ ~(k + 1 <= b) /\ (k + 1) - 1 = k
    BY <1>2, <1>3
  <2>2. SameBut(A[k], B[k + 1])
    BY <1>5, <1>7, <2>1
  <2>3. B[k + 1].offset = At(A, n, (k + 1) - 1) + size
    BY <1>13, <2>1
  <2> QED BY <1>8, <2>1, <2>2, <2>3
<1>15. \A j \in 1..(n + 1) : B[j].size > 0
  <2> SUFFICES ASSUME NEW j \in 1..(n + 1) PROVE B[j].size > 0
    OBVIOUS
  <2>1. j < b => j \in 1..n
    BY <1>2, <1>3
  <2>2. j > b => j - 1 \in 1..n
    BY <1>2, <1>3
  <2>3. j < b \/ j = b \/ j > b
    BY <1>2
  <2>4. /\ j < b => B[j].size = A[j].size
        /\ j = b => B[j].size = size
        /\ j > b => B[j].size = A[j - 1].size
    BY <1>2, <1>9
  <2>5. /\ j < b => A[j].size > 0
        /\ j > b => A[j - 1].size > 0
    BY <1>3, <2>1, <2>2
  <2> QED BY <1>4, <2>3, <2>4, <2>5
<1>16. B[NewAt(p)].offset = WriteOffset(A, p)
  <2>1. b \in 1..(n + 1) /\ b <= b
    BY <1>2, <1>3
  <2>2. B[b].offset = At(A, n, b)
    BY <1>13, <2>1
  <2> QED BY <1>2, <1>5, <1>8, <2>2
<1>17. size - RemovedSize(A, p) = size
  BY <1>2, <1>4
<1>18. Moves(A, n, b, B, 1, size - RemovedSize(A, p))
  BY <1>4, <1>7, <1>14, <1>15, <1>17 DEF Moves
<1> QED BY <1>16, <1>18 DEF B, size, b

LEMMA ReplacedMoves ==
  ASSUME NEW A, NEW n, NEW g, NEW track, NEW p, Planned(A, n, g, track, p),
         p.replaced # None
  PROVE  /\ Moves(A, n, g[n].segments[1].first, Applied(A, p), 0,
                  RewrittenSidx(A, p).size - RemovedSize(A, p))
         /\ Applied(A, p)[NewAt(p)].offset = WriteOffset(A, p)
<1> DEFINE F == g[n].segments[1].first
           r == p.replaced
           B == Applied(A, p)
           size == RewrittenSidx(A, p).size
           delta == size - RemovedSize(A, p)
           at(j) == IF j <= r THEN A[j].offset ELSE A[j].offset + delta
           T == { j \in 0..n : j > 0 => B[j].offset = at(j) }
<1>1. IsFile(A, n) /\ PlanFits(p, A)
  BY DEF Planned
<1>2. /\ F \in 1..n /\ r \in 1..n /\ r < F
      /\ WriteOffset(A, p) = A[r].offset /\ RemovedSize(A, p) = A[r].size
  BY InFrontOfMedia
<1>3. /\ n \in Nat \ {0} /\ IsRow(A, n) /\ LaidSizes(A) /\ IsLaid(A)
      /\ \A j \in 1..n : A[j].size \in Int /\ A[j].size > 0 /\ A[j].offset \in Int
      /\ \A j \in 1..n : A[j].offset = IF j = 1 THEN 0 ELSE A[j - 1].offset + A[j - 1].size
  <2>1. n \in Nat \ {0} /\ IsRow(A, n) /\ LaidSizes(A) /\ IsLaid(A)
    BY <1>1 DEF IsFile
  <2>2. \A j \in 1..n : A[j].size \in Int /\ A[j].size > 0 /\ A[j].offset \in Int
    BY <1>1 DEF IsFile
  <2>3. \A j \in 1..n : A[j].offset = IF j = 1 THEN 0 ELSE A[j - 1].offset + A[j - 1].size
    BY <2>1 DEF IsLaid, IsRow
  <2> QED BY <2>1, <2>2, <2>3
<1>4. size \in Int /\ size > 0
  <2>1. size \in Nat \ {0}
    BY <1>1, NewSidxIs DEF PlanFits
  <2> QED BY <2>1
<1>5. CountWith(n, p) = n /\ NewAt(p) = r /\ \A k \in 1..n : To(p, k) = k
  BY DEF CountWith, NewAt, To
<1>6. /\ DOMAIN B = 1..n /\ IsLaid(B)
      /\ \A j \in 1..n : B[j].offset \in Int /\ B[j].size \in Int
      /\ SameBut(RewrittenSidx(A, p), B[r])
      /\ \A k \in 1..n : k # r => SameBut(A[k], B[k])
  <2>1. /\ DOMAIN B = 1..CountWith(n, p) /\ IsLaid(B)
        /\ \A j \in 1..CountWith(n, p) : B[j].offset \in Int /\ B[j].size \in Int
        /\ SameBut(RewrittenSidx(A, p), B[NewAt(p)])
        /\ \A k \in 1..n : k # p.replaced => SameBut(A[k], B[To(p, k)])
    <3>1. n \in Nat
      BY <1>3
    <3> HIDE DEF B
    <3> QED BY <1>1, <1>3, <3>1, AppliedIs DEF B
  <2> HIDE DEF B
  <2> QED BY <1>5, <2>1
<1> HIDE DEF B, size, F, r
<1>7. \A j \in 1..n : B[j].size = IF j = r THEN size ELSE A[j].size
  BY <1>6 DEF SameBut, size
<1>8. delta = size - A[r].size /\ delta \in Int /\ A[r].size \in Int
  BY <1>2, <1>3, <1>4
<1> HIDE DEF delta
<1>9. 0 \in T
  BY <1>3
<1>10. ASSUME NEW j \in 1..n, j - 1 \in T PROVE j \in T
  <2> SUFFICES B[j].offset = at(j)
    BY <1>3
  <2>1. CASE j = 1
    <3>1. B[j].offset = 0
      BY <1>6, <2>1 DEF IsLaid
    <3>2. at(j) = A[j].offset /\ A[j].offset = 0
      BY <1>2, <1>3, <2>1
    <3> QED BY <3>1, <3>2
  <2>2. CASE j # 1
    <3>1. j - 1 \in 1..n /\ j - 1 > 0
      BY <1>3, <2>2
    <3>2. B[j].offset = B[j - 1].offset + B[j - 1].size
      BY <1>6, <2>2 DEF IsLaid
    <3>3. B[j - 1].offset = at(j - 1)
      BY <1>10, <3>1
    <3>4. /\ A[j].offset = A[j - 1].offset + A[j - 1].size
          /\ A[j - 1].offset \in Int /\ A[j - 1].size \in Int
      BY <1>3, <2>2, <3>1
    <3>5. CASE j <= r
      <4>1. j - 1 # r /\ j - 1 <= r
        BY <1>2, <3>5
      <4> QED BY <1>7, <3>1, <3>2, <3>3, <3>4, <3>5, <4>1
    <3>6. CASE j - 1 = r
      <4>1. j - 1 <= r /\ ~(j <= r)
        BY <1>2, <3>6
      <4>2. at(j - 1) = A[j - 1].offset /\ at(j) = A[j].offset + delta
            /\ B[j - 1].size = size
        BY <1>7, <3>1, <3>6, <4>1
      <4>3. delta = size - A[j - 1].size
        BY <1>8, <3>6
      <4> HIDE DEF at
      <4> QED BY <1>4, <3>2, <3>3, <3>4, <4>2, <4>3
    <3>7. CASE j - 1 > r
      <4>1. ~(j - 1 <= r) /\ ~(j <= r) /\ j - 1 # r
        BY <1>2, <3>7
      <4>2. at(j - 1) = A[j - 1].offset + delta /\ at(j) = A[j].offset + delta
            /\ B[j - 1].size = A[j - 1].size
        BY <1>7, <3>1, <4>1
      <4> HIDE DEF at
      <4> QED BY <1>8, <3>2, <3>3, <3>4, <4>2
    <3> QED BY <1>2, <3>5, <3>6, <3>7
  <2> QED BY <2>1, <2>2
<1> HIDE DEF T
<1>11. 0..n \subseteq T
  <2>1. n \in Nat
    BY <1>3
  <2> QED BY <1>9, <1>10, <2>1, BoundedInduction
<1>12. \A j \in 1..n : B[j].offset = at(j)
  <2> SUFFICES ASSUME NEW j \in 1..n PROVE B[j].offset = at(j)
    OBVIOUS
  <2>1. j \in 0..n /\ j > 0
    OBVIOUS
  <2>2. j \in T
    BY <1>11, <2>1
  <2> HIDE DEF at
  <2> QED BY <2>1, <2>2 DEF T
<1>13. ASSUME NEW k \in F..n
       PROVE  SameBut(A[k], B[k + 0]) /\ B[k + 0].offset = A[k].offset + delta
  <2>1. k \in 1..n /\ k # r /\ ~(k <= r) /\ k + 0 = k
    BY <1>2, <1>3
  <2> QED BY <1>6, <1>12, <2>1
<1>14. \A j \in 1..n : B[j].size > 0
  BY <1>3, <1>4, <1>7
<1>15. B[NewAt(p)].offset = WriteOffset(A, p)
  BY <1>2, <1>5, <1>12
<1>16. n + 0 = n
  BY <1>3
<1>17. Moves(A, n, F, B, 0, delta)
  BY <1>6, <1>8, <1>13, <1>14, <1>16 DEF Moves
<1> QED BY <1>15, <1>17 DEF B, F, delta, size

-----------------------------------------------------------------------------
(* Of some numbers up to a bound, one is the greatest.                     *)
LEMMA MaxIs ==
  ASSUME NEW m \in Nat, NEW S, S \subseteq 1..m, S # {}
  PROVE  Max(S) \in S /\ \A x \in S : x <= Max(S)
<1> DEFINE M == { m - x : x \in S }
<1>1. M \subseteq Nat /\ M # {}
  <2>1. \A x \in S : m - x \in Nat
    <3> SUFFICES ASSUME NEW x \in S PROVE m - x \in Nat
      OBVIOUS
    <3>1. x \in 1..m
      OBVIOUS
    <3> QED BY <3>1
  <2> QED BY <2>1
<1> HIDE DEF M
<1>2. PICK y \in M : \A z \in M : y <= z
  BY <1>1, LeastExists
<1>3. PICK x \in S : y = m - x
  BY DEF M
<1>4. \A z \in S : x >= z
  <2> SUFFICES ASSUME NEW z \in S PROVE x >= z
    OBVIOUS
  <2>1. y <= m - z
    BY <1>2 DEF M
  <2>2. x \in 1..m /\ z \in 1..m
    OBVIOUS
  <2> QED BY <1>3, <2>1, <2>2
<1>5. \E v \in S : \A z \in S : v >= z
  BY <1>4
<1>6. Max(S) \in S /\ \A z \in S : Max(S) >= z
  BY <1>5 DEF Max
<1> QED BY <1>6

(* The new sidx says in the file what it was given.                        *)
LEMMA AppliedSays ==
  ASSUME NEW A, NEW n, IsFile(A, n), NEW p, PlanFits(p, A)
  PROVE  LET new == RewrittenSidx(A, p)
             written == Applied(A, p)[NewAt(p)]
         IN  /\ NewAt(p) \in DOMAIN Applied(A, p)
             /\ written.kind = "sidx" /\ written.size = new.size
             /\ written.first_offset = new.first_offset
             /\ written.entries = new.entries /\ written.durations = new.durations
<1> DEFINE new == RewrittenSidx(A, p)
           W == WithNew(A, p)
           w == NewAt(p)
<1>1. n \in Nat /\ IsRow(A, n) /\ LaidSizes(A)
  BY DEF IsFile
<1>2. /\ DOMAIN W = 1..CountWith(n, p) /\ w \in 1..n /\ W[w] = new
  BY <1>1, WithNewIs
<1>3. w \in DOMAIN W
  BY <1>1, <1>2 DEF CountWith
<1>4. Applied(A, p) = Relaid(W)
  BY DEF Applied, WithNew
<1>5. DOMAIN Relaid(W) = DOMAIN W
  BY DEF Relaid
<1>6. {"kind", "size", "first_offset", "entries", "durations"} \subseteq DOMAIN new
  BY DEF RewrittenSidx
<1>7. new.kind = "sidx"
  BY DEF RewrittenSidx
<1> HIDE DEF W, new, w
<1>8. \A field \in DOMAIN W[w] : field # "offset" => Relaid(W)[w][field] = W[w][field]
  BY <1>3, RelaidKeeps
<1> QED BY <1>2, <1>3, <1>4, <1>5, <1>6, <1>7, <1>8 DEF W, new, w

(* Where its references begin, the first of them in any file.              *)
LEMMA FirstStart ==
  ASSUME NEW A, NEW n, NEW g, NEW track, NEW p, Planned(A, n, g, track, p)
  PROVE  LET starts == SegmentStarts(Applied(A, p)[NewAt(p)])
             delta == RewrittenSidx(A, p).size - RemovedSize(A, p)
         IN  /\ DOMAIN starts = 1..Len(g[n].segments)
             /\ starts[1] = A[g[n].segments[1].first].offset + delta
             /\ \A k \in 1..Len(g[n].segments) :
                  starts[k] = starts[1] + SumTo(RewrittenSidx(A, p).entries, k - 1)
<1> DEFINE new == RewrittenSidx(A, p)
           sidx == Applied(A, p)[NewAt(p)]
           starts == SegmentStarts(sidx)
           c == Len(g[n].segments)
           x == A[g[n].segments[1].first].offset
           delta == new.size - RemovedSize(A, p)
           W == WriteOffset(A, p)
           R == RemovedSize(A, p)
<1>1. IsFile(A, n) /\ PlanFits(p, A)
  BY DEF Planned
<1>2. /\ new.first_offset = x + new.size - R - (W + new.size)
      /\ DOMAIN new.entries = 1..c /\ c \in Nat \ {0}
  BY NewSays
<1>3. sidx.offset = W
  BY InsertedMoves, ReplacedMoves
<1>4. /\ sidx.size = new.size /\ sidx.first_offset = new.first_offset
      /\ sidx.entries = new.entries
  BY <1>1, AppliedSays
<1>5. W \in Int /\ R \in Int /\ x \in Int
  BY InFrontOfMedia
<1>6. new.size \in Int
  BY <1>1, NewSidxIs
<1>7. starts = [k \in 1..c |-> sidx.offset + sidx.size + sidx.first_offset
                                 + SumTo(sidx.entries, k - 1)]
  BY <1>2, <1>4 DEF SegmentStarts
<1> DEFINE f == new.entries
           base == sidx.offset + sidx.size + sidx.first_offset
<1> HIDE DEF new, sidx, starts, c, x, W, R
<1>8. base = x + delta /\ x + delta \in Int
  BY <1>2, <1>3, <1>4, <1>5, <1>6 DEF R
<1>9. \A k \in 1..c : starts[k] = base + SumTo(f, k - 1)
  BY <1>4, <1>7
<1>10. SumTo(f, 1 - 1) = 0
  <2>1. \A j \in 1..0 : f[j] \in Int
    OBVIOUS
  <2>2. SumTo(f, 0) = 0
    BY <2>1, SumToIs
  <2> QED BY <2>2
<1>11. 1 \in 1..c /\ DOMAIN starts = 1..c
  BY <1>2, <1>7
<1> HIDE DEF base, f, delta
<1>12. starts[1] = base + 0
  BY <1>9, <1>10, <1>11
<1>13. starts[1] = base
  BY <1>8, <1>12
<1> QED BY <1>8, <1>9, <1>11, <1>13 DEF new, sidx, starts, c, x, W, R, f, delta

(* And each of them, where there is nothing but media.                     *)
LEMMA StartsMove ==
  ASSUME NEW A, NEW n, NEW g, NEW track, NEW p, Planned(A, n, g, track, p),
         NEW last, MediaFrom(A, n, g[n].segments[1].first, last),
         NEW k \in 1..Len(g[n].segments)
  PROVE  SegmentStarts(Applied(A, p)[NewAt(p)])[k]
           = A[g[n].segments[k].first].offset
               + (RewrittenSidx(A, p).size - RemovedSize(A, p))
<1> DEFINE segments == g[n].segments
           f == RewrittenSidx(A, p).entries
           starts == SegmentStarts(Applied(A, p)[NewAt(p)])
           delta == RewrittenSidx(A, p).size - RemovedSize(A, p)
           F == segments[1].first
           s == segments[k].first
<1>1. IsFile(A, n) /\ PlanFits(p, A)
  BY DEF Planned
<1>2. starts[1] = A[F].offset + delta /\ starts[k] = starts[1] + SumTo(f, k - 1)
  BY FirstStart
<1>3. AreSizes(segments, f)
  <2> SUFFICES ASSUME NEW j \in 1..Len(g[n].segments) PROVE f[j] = g[n].segments[j].size
    BY DEF AreSizes
  <2>1. KeepsSize(A, p, g[n].segments, j)
    BY NewSizes
  <2> QED BY <2>1 DEF KeepsSize
<1>4. SumTo(f, k - 1) = At(A, n, s) - At(A, n, F)
  <2>1. Reaches(A, n, segments, f, k)
    BY <1>3, SizesReach
  <2> QED BY <2>1 DEF Reaches
<1>5. /\ At(A, n, s) \in Int /\ At(A, n, s) = A[s].offset
  <2>1. LiesBetween(A, n, track, segments, k, last)
    BY SegmentCovers
  <2> QED BY <2>1 DEF LiesBetween
<1>6. A[F].offset \in Int /\ At(A, n, F) = A[F].offset
  <2>1. F \in 1..n /\ A[F].offset \in Int
    BY InFrontOfMedia
  <2> QED BY <1>1, <2>1, AtIs
<1>7. delta \in Int
  <2>1. RewrittenSidx(A, p).size \in Int
    BY <1>1, NewSidxIs
  <2>2. RemovedSize(A, p) \in Int
    BY InFrontOfMedia
  <2> QED BY <2>1, <2>2
<1> HIDE DEF starts, f, delta, F, s
<1>8. starts[k] = A[s].offset + delta
  BY <1>2, <1>4, <1>5, <1>6, <1>7
<1> QED BY <1>8 DEF starts, delta, s

-----------------------------------------------------------------------------
(* OnlyMedia and what ReferencesTile promises, of a file and its sidx.     *)
OnlyMediaIn(B, w) ==
  LET from == Min({ k \in DOMAIN B : B[k].offset >= SegmentStarts(B[w])[1] })
      last == Max(BoxesOf(B, "mdat"))
  IN /\ BoxesOf(B, "mdat") # {}
     /\ \A k \in from..last : B[k].kind \in MediaKinds
     /\ \A k \in DOMAIN B : k > last => B[k].kind \notin MediaKinds
     /\ \A k, l \in from..last :
          k < l /\ B[k].kind = "sidx" /\ B[l].kind = "sidx" =>
            PreviousKind(B, l) = "mdat" \/ \E m \in k..l : B[m].kind = "styp"

LEMMA MovedIncrease ==
  ASSUME NEW A, NEW n \in Nat, NEW first, NEW B, NEW d, NEW delta,
         Moves(A, n, first, B, d, delta)
  PROVE  \A j, k \in 1..(n + d) : j < k => B[j].offset < B[k].offset
<1> DEFINE m == n + d
           f == [k \in 1..m |-> B[k].offset]
           z == [k \in 1..m |-> B[k].size]
<1>1. /\ d \in Nat /\ m \in Nat /\ DOMAIN B = 1..m /\ IsLaid(B)
      /\ \A j \in 1..m : /\ B[j].offset \in Int /\ B[j].size \in Int /\ B[j].size > 0
  <2>1. d \in Nat /\ DOMAIN B = 1..m /\ IsLaid(B)
    BY DEF Moves
  <2>2. \A j \in 1..m : /\ B[j].offset \in Int /\ B[j].size \in Int /\ B[j].size > 0
    BY DEF Moves
  <2>3. m \in Nat
    BY <2>1
  <2> QED BY <2>1, <2>2, <2>3
<1> HIDE DEF m
<1>2. \A k \in 1..m : f[k] \in Int /\ z[k] \in Int /\ z[k] > 0
  BY <1>1
<1>3. \A k \in 1..m : k > 1 => f[k] = f[k - 1] + z[k - 1]
  <2> SUFFICES ASSUME NEW k \in 1..m, k > 1 PROVE f[k] = f[k - 1] + z[k - 1]
    OBVIOUS
  <2>1. k - 1 \in 1..m /\ k # 1
    BY <1>1
  <2>2. B[k].offset = B[k - 1].offset + B[k - 1].size
    BY <1>1, <2>1 DEF IsLaid
  <2> QED BY <2>1, <2>2
<1>4. \A k \in 1..m : f[k] = B[k].offset
  OBVIOUS
<1> HIDE DEF f, z
<1>5. \A i, j \in 1..m : i < j => f[i] < f[j]
  BY <1>1, <1>2, <1>3, Increasing
<1> QED BY <1>4, <1>5 DEF m

(* Nothing but media in the file that comes out is nothing but media in the*)
(* file that was read.                                                     *)
LEMMA MediaIs ==
  ASSUME NEW A, NEW n, NEW g, NEW track, NEW p, Planned(A, n, g, track, p), NEW d,
         Moves(A, n, g[n].segments[1].first, Applied(A, p), d,
               RewrittenSidx(A, p).size - RemovedSize(A, p)),
         OnlyMediaIn(Applied(A, p), NewAt(p))
  PROVE  LET last == Max(BoxesOf(Applied(A, p), "mdat"))
         IN  /\ MediaFrom(A, n, g[n].segments[1].first, last - d)
             /\ last \in 1..(n + d)
<1> DEFINE B == Applied(A, p)
           F == g[n].segments[1].first
           delta == RewrittenSidx(A, p).size - RemovedSize(A, p)
           start == SegmentStarts(B[NewAt(p)])[1]
           S == { k \in DOMAIN B : B[k].offset >= start }
           X == BoxesOf(B, "mdat")
           last == Max(X)
<1>1. n \in Nat
  BY DEF Planned, IsFile
<1>2. F \in 1..n /\ A[F].kind \in MediaKinds /\ A[F].offset \in Int
  BY InFrontOfMedia
<1>3. start = A[F].offset + delta
  BY FirstStart
<1>4. /\ X # {}
      /\ \A k \in Min(S)..last : B[k].kind \in MediaKinds
      /\ \A k \in DOMAIN B : k > last => B[k].kind \notin MediaKinds
      /\ \A k, l \in Min(S)..last :
           k < l /\ B[k].kind = "sidx" /\ B[l].kind = "sidx" =>
             PreviousKind(B, l) = "mdat" \/ \E m \in k..l : B[m].kind = "styp"
  BY DEF OnlyMediaIn
<1> HIDE DEF B, F, delta, start, last
<1>5. Moves(A, n, F, B, d, delta)
  BY DEF B, F, delta
<1>6. /\ d \in 0..1 /\ delta \in Int /\ DOMAIN B = 1..(n + d)
      /\ \A j \in 1..(n + d) : B[j].offset \in Int
      /\ \A k \in F..n : A[k].kind = B[k + d].kind /\ B[k + d].offset = A[k].offset + delta
  <2>1. d \in 0..1 /\ delta \in Int /\ DOMAIN B = 1..(n + d)
    BY <1>5 DEF Moves
  <2>2. \A j \in 1..(n + d) : B[j].offset \in Int
    BY <1>5 DEF Moves
  <2>3. \A k \in F..n : A[k].kind = B[k + d].kind /\ B[k + d].offset = A[k].offset + delta
    BY <1>5 DEF Moves, SameBut
  <2> QED BY <2>1, <2>2, <2>3
<1>7. \A j, k \in 1..(n + d) : j < k => B[j].offset < B[k].offset
  BY <1>1, <1>5, MovedIncrease
<1>8. F + d \in 1..(n + d) /\ B[F + d].offset = start /\ B[F + d].kind \in MediaKinds
      /\ start \in Int
  <2>1. F + d \in 1..(n + d) /\ F \in F..n
    BY <1>1, <1>2, <1>6
  <2>2. B[F + d].offset = A[F].offset + delta /\ B[F + d].kind = A[F].kind
    BY <1>6, <2>1
  <2> QED BY <1>2, <1>3, <1>6, <2>1, <2>2
<1>9. Min(S) = F + d
  <2>1. F + d \in S
    BY <1>6, <1>8
  <2>2. \A y \in S : F + d <= y
    <3> SUFFICES ASSUME NEW y \in S, ~(F + d <= y) PROVE FALSE
      OBVIOUS
    <3>1. y \in 1..(n + d) /\ B[y].offset >= start /\ B[y].offset \in Int
      BY <1>6
    <3>2. y < F + d
      BY <1>1, <1>2, <1>6, <3>1
    <3>3. B[y].offset < B[F + d].offset
      BY <1>7, <1>8, <3>1, <3>2
    <3> QED BY <1>8, <3>1, <3>3
  <2>3. S \subseteq Int
    BY <1>1, <1>6
  <2>4. \E x \in S : \A y \in S : x <= y
    BY <2>1, <2>2
  <2> HIDE DEF S
  <2>5. Min(S) \in S /\ \A y \in S : Min(S) <= y
    BY <2>4 DEF Min
  <2>6. Min(S) <= F + d /\ F + d <= Min(S) /\ Min(S) \in Int /\ F + d \in Int
    BY <2>1, <2>2, <2>3, <2>5
  <2> QED BY <2>6
<1>10. X \subseteq 1..(n + d) /\ n + d \in Nat
  BY <1>1, <1>6 DEF BoxesOf
<1>11. last \in X /\ \A x \in X : x <= last
  BY <1>4, <1>10, MaxIs DEF last
<1>12. last \in 1..(n + d)
  BY <1>10, <1>11
<1>13. F + d <= last
  BY <1>4, <1>6, <1>8, <1>12
<1>14. last - d \in F..n
  BY <1>1, <1>2, <1>6, <1>12, <1>13
<1> HIDE DEF S, X
<1>15. ASSUME NEW k \in F..n
       PROVE  k + d \in 1..(n + d) /\ A[k].kind = B[k + d].kind
              /\ (k <= last - d <=> k + d <= last)
  <2>1. k + d \in 1..(n + d)
    BY <1>1, <1>2, <1>6
  <2>2. k <= last - d <=> k + d <= last
    BY <1>1, <1>2, <1>6, <1>12
  <2> QED BY <1>6, <2>1, <2>2
<1>16. \A k \in F..(last - d) : A[k].kind \in MediaKinds
  <2> SUFFICES ASSUME NEW k \in F..(last - d) PROVE A[k].kind \in MediaKinds
    OBVIOUS
  <2>1. k \in F..n /\ k + d \in (F + d)..last
    BY <1>1, <1>2, <1>6, <1>12, <1>14
  <2> QED BY <1>4, <1>9, <1>15, <2>1
<1>17. \A k \in (last - d + 1)..n : A[k].kind \notin MediaKinds
  <2> SUFFICES ASSUME NEW k \in (last - d + 1)..n PROVE A[k].kind \notin MediaKinds
    OBVIOUS
  <2>1. k \in F..n /\ k + d > last /\ k + d \in 1..(n + d)
    BY <1>1, <1>2, <1>6, <1>12, <1>14
  <2> QED BY <1>4, <1>6, <1>15, <2>1
<1>18. ASSUME NEW k \in F..(last - d), NEW l \in F..(last - d), k < l,
              A[k].kind = "sidx", A[l].kind = "sidx"
       PROVE  PreviousKind(A, l) = "mdat" \/ \E m \in k..l : A[m].kind = "styp"
  <2>1. /\ k \in F..n /\ l \in F..n /\ l - 1 \in F..n /\ k \in Int /\ l \in Int
        /\ k + d \in (F + d)..last /\ l + d \in (F + d)..last /\ k + d < l + d
        /\ l # 1 /\ l + d # 1 /\ (l - 1) + d = (l + d) - 1
    BY <1>1, <1>2, <1>6, <1>12, <1>14, <1>18
  <2>2. B[k + d].kind = "sidx" /\ B[l + d].kind = "sidx"
    BY <1>15, <1>18, <2>1
  <2>3. PreviousKind(B, l + d) = "mdat" \/ \E m \in (k + d)..(l + d) : B[m].kind = "styp"
    BY <1>4, <1>9, <2>1, <2>2
  <2>4. PreviousKind(B, l + d) = PreviousKind(A, l)
    <3>1. B[(l - 1) + d].kind = A[l - 1].kind
      BY <1>15, <2>1
    <3> QED BY <2>1, <3>1 DEF PreviousKind
  <2>5. ASSUME NEW m \in (k + d)..(l + d), B[m].kind = "styp"
        PROVE  \E i \in k..l : A[i].kind = "styp"
    <3>1. m - d \in k..l /\ m - d \in F..n /\ (m - d) + d = m
      BY <1>1, <1>2, <1>6, <2>1
    <3>2. A[m - d].kind = B[(m - d) + d].kind
      BY <1>15, <3>1
    <3> QED BY <2>5, <3>1, <3>2
  <2> QED BY <2>3, <2>4, <2>5
<1>19. last - d + 1 = (last - d) + 1
  BY <1>6, <1>12
<1> DEFINE L == last - d
<1>20. /\ \A k \in F..L : A[k].kind \in MediaKinds
       /\ \A k \in (L + 1)..n : A[k].kind \notin MediaKinds
       /\ \A k, l \in F..L :
            k < l /\ A[k].kind = "sidx" /\ A[l].kind = "sidx" =>
              PreviousKind(A, l) = "mdat" \/ \E m \in k..l : A[m].kind = "styp"
  BY <1>16, <1>17, <1>18, <1>19
<1>21. L \in F..n
  BY <1>14
<1> HIDE DEF L
<1>22. MediaFrom(A, n, F, L)
  BY <1>2, <1>20, <1>21 DEF MediaFrom
<1> QED BY <1>12, <1>22 DEF L, last, B, F, X

-----------------------------------------------------------------------------
(* The moofs in the bytes of a reference.                                  *)
Inside(B, w, k) ==
  LET starts == SegmentStarts(B[w]) IN
  { m \in BoxesOf(B, "moof") : /\ starts[k] <= B[m].offset
                               /\ B[m].offset < starts[k] + B[w].entries[k] }

LastsInside(B, w, k, track) ==
  [m \in DOMAIN B |-> IF m \in Inside(B, w, k) THEN MoofDuration(B[m], track) ELSE 0]

TilesIn(B, w, track) ==
  LET sidx == B[w]
      starts == SegmentStarts(sidx)
      last == Max(BoxesOf(B, "mdat"))
  IN /\ \A n \in DOMAIN starts :
          /\ \E k \in DOMAIN B : /\ B[k].offset = starts[n]
                                 /\ B[k].kind \in MediaKinds \ {"mdat"}
          /\ Inside(B, w, n) # {}
          /\ sidx.durations[n] = SumTo(LastsInside(B, w, n, track), Len(B))
     /\ starts[Len(starts)] + sidx.entries[Len(starts)] = B[last].offset + B[last].size

(* A reference is the segment it was made for, moved.                      *)
IsInside(A, n, d, B, w, segments, k, last, delta) ==
  LET first == segments[k].first
      bound == Bound(segments, k, last)
      start == SegmentStarts(B[w])[k]
  IN  /\ \A m \in 1..(n + d) :
           m \in Inside(B, w, k) <=> m \in (first + d)..(bound - 1 + d) /\ A[m - d].kind = "moof"
      /\ start = B[first + d].offset
      /\ start + B[w].entries[k] = At(A, n, bound) + delta

LEMMA InsideIs ==
  ASSUME NEW A, NEW n, NEW g, NEW track, NEW p, Planned(A, n, g, track, p), NEW d,
         Moves(A, n, g[n].segments[1].first, Applied(A, p), d,
               RewrittenSidx(A, p).size - RemovedSize(A, p)),
         NEW last, MediaFrom(A, n, g[n].segments[1].first, last),
         NEW k \in 1..Len(g[n].segments)
  PROVE  IsInside(A, n, d, Applied(A, p), NewAt(p), g[n].segments, k, last,
                  RewrittenSidx(A, p).size - RemovedSize(A, p))
<1> DEFINE segments == g[n].segments
           F == segments[1].first
           a == segments[k].first
           b == Bound(segments, k, last)
           B == Applied(A, p)
           w == NewAt(p)
           delta == RewrittenSidx(A, p).size - RemovedSize(A, p)
           start == SegmentStarts(B[w])[k]
           entry == B[w].entries[k]
<1>1. n \in Nat /\ IsFile(A, n) /\ PlanFits(p, A)
  BY DEF Planned, IsFile
<1>2. /\ a \in F..n /\ b \in (a + 1)..(n + 1)
      /\ segments[k].size = At(A, n, b) - At(A, n, a)
      /\ At(A, n, b) \in Int /\ At(A, n, a) \in Int /\ At(A, n, a) = A[a].offset
  <2>1. LiesBetween(A, n, track, segments, k, last)
    BY SegmentCovers
  <2> QED BY <2>1 DEF LiesBetween
<1>3. F \in 1..n
  BY InFrontOfMedia
<1>4. start = A[a].offset + delta
  BY StartsMove
<1>5. entry = segments[k].size
  <2>1. B[w].entries = RewrittenSidx(A, p).entries
    BY <1>1, AppliedSays
  <2>2. KeepsSize(A, p, g[n].segments, k)
    BY NewSizes
  <2> QED BY <2>1, <2>2 DEF KeepsSize
<1>6. \A m : m \in Inside(B, w, k) <=> /\ m \in BoxesOf(B, "moof")
                                       /\ start <= B[m].offset
                                       /\ B[m].offset < start + entry
  BY DEF Inside
<1> HIDE DEF F, a, b, B, w, delta, start, entry
<1>7. Moves(A, n, F, B, d, delta)
  BY DEF B, F, delta
<1>8. /\ d \in 0..1 /\ delta \in Int /\ DOMAIN B = 1..(n + d)
      /\ \A j \in 1..(n + d) : B[j].offset \in Int
      /\ \A j \in F..n : A[j].kind = B[j + d].kind /\ B[j + d].offset = A[j].offset + delta
  <2>1. d \in 0..1 /\ delta \in Int /\ DOMAIN B = 1..(n + d)
    BY <1>7 DEF Moves
  <2>2. \A j \in 1..(n + d) : B[j].offset \in Int
    BY <1>7 DEF Moves
  <2>3. \A j \in F..n : A[j].kind = B[j + d].kind /\ B[j + d].offset = A[j].offset + delta
    BY <1>7 DEF Moves, SameBut
  <2> QED BY <2>1, <2>2, <2>3
<1>9. \A i, j \in 1..(n + d) : i < j => B[i].offset < B[j].offset
  BY <1>1, <1>7, MovedIncrease
<1>10. start + entry = At(A, n, b) + delta
  BY <1>2, <1>4, <1>5, <1>8
<1>11. start = B[a + d].offset /\ start \in Int
  <2>1. a \in F..n
    BY <1>2
  <2> QED BY <1>2, <1>4, <1>8, <2>1
<1>12. /\ \A j \in 1..n : At(A, n, j) = A[j].offset /\ At(A, n, j) \in Int
       /\ \A i, j \in 1..(n + 1) : i < j => At(A, n, i) < At(A, n, j)
  BY <1>1, AtIs
<1>13. ASSUME NEW j \in F..n
       PROVE  /\ start <= B[j + d].offset <=> a <= j
              /\ B[j + d].offset < start + entry <=> j < b
  <2>1. j \in 1..n /\ j \in 1..(n + 1) /\ a \in 1..(n + 1) /\ b \in 1..(n + 1) /\ a \in 1..n
    BY <1>1, <1>2, <1>3
  <2>2. B[j + d].offset = At(A, n, j) + delta /\ At(A, n, j) \in Int
    BY <1>8, <1>12, <2>1
  <2>3. start = At(A, n, a) + delta
    BY <1>2, <1>4
  <2>4. At(A, n, a) <= At(A, n, j) <=> a <= j
    <3>1. a < j => At(A, n, a) < At(A, n, j)
      BY <1>12, <2>1
    <3>2. j < a => At(A, n, j) < At(A, n, a)
      BY <1>12, <2>1
    <3>3. a < j \/ j < a \/ a = j
      BY <2>1
    <3> QED BY <1>2, <2>1, <2>2, <3>1, <3>2, <3>3
  <2>5. At(A, n, j) < At(A, n, b) <=> j < b
    <3>1. b < j => At(A, n, b) < At(A, n, j)
      BY <1>12, <2>1
    <3>2. j < b => At(A, n, j) < At(A, n, b)
      BY <1>12, <2>1
    <3>3. b < j \/ j < b \/ b = j
      BY <2>1
    <3> QED BY <1>2, <2>1, <2>2, <3>1, <3>2, <3>3
  <2>6. start <= B[j + d].offset <=> At(A, n, a) <= At(A, n, j)
    BY <1>2, <1>8, <2>2, <2>3
  <2>7. B[j + d].offset < start + entry <=> At(A, n, j) < At(A, n, b)
    BY <1>2, <1>8, <1>10, <2>2
  <2> QED BY <2>4, <2>5, <2>6, <2>7
<1>14. ASSUME NEW m \in 1..(n + d)
       PROVE  m \in Inside(B, w, k) <=> m \in (a + d)..(b - 1 + d) /\ A[m - d].kind = "moof"
  <2>1. m \in BoxesOf(B, "moof") <=> B[m].kind = "moof"
    BY <1>8 DEF BoxesOf
  <2>2. CASE m < F + d
    <3>1. m < a + d /\ a + d \in 1..(n + d)
      BY <1>1, <1>2, <1>3, <1>8, <2>2
    <3>2. B[m].offset < start /\ B[m].offset \in Int
      BY <1>8, <1>9, <1>11, <3>1
    <3>3. ~(start <= B[m].offset)
      BY <1>11, <3>2
    <3>4. m \notin (a + d)..(b - 1 + d)
      BY <1>1, <1>2, <1>3, <1>8, <3>1
    <3> QED BY <1>6, <3>3, <3>4
  <2>3. CASE ~(m < F + d)
    <3> DEFINE j == m - d
    <3>1. j \in F..n /\ j + d = m
      BY <1>1, <1>3, <1>8, <2>3
    <3> HIDE DEF j
    <3>2. /\ start <= B[m].offset <=> a <= j
          /\ B[m].offset < start + entry <=> j < b
          /\ A[j].kind = B[m].kind
      BY <1>8, <1>13, <3>1
    <3>3. m \in (a + d)..(b - 1 + d) <=> a <= j /\ j < b
      BY <1>1, <1>2, <1>3, <1>8, <3>1
    <3> QED BY <1>6, <2>1, <3>2, <3>3 DEF j
  <2> QED BY <2>2, <2>3
<1> QED BY <1>10, <1>11, <1>14 DEF IsInside, segments, F, a, b, B, w, delta, start, entry

-----------------------------------------------------------------------------
(* What ReferencesTile says of one reference.                              *)
ReferenceTiles(B, w, k, track) ==
  /\ \E m \in DOMAIN B : /\ B[m].offset = SegmentStarts(B[w])[k]
                         /\ B[m].kind \in MediaKinds \ {"mdat"}
  /\ Inside(B, w, k) # {}
  /\ B[w].durations[k] = SumTo(LastsInside(B, w, k, track), Len(B))

LEMMA ReferenceHolds ==
  ASSUME NEW A, NEW n, NEW g, NEW track, NEW p, Planned(A, n, g, track, p), NEW d,
         Moves(A, n, g[n].segments[1].first, Applied(A, p), d,
               RewrittenSidx(A, p).size - RemovedSize(A, p)),
         Applied(A, p) = [j \in 1..(n + d) |-> Applied(A, p)[j]],
         NEW last, MediaFrom(A, n, g[n].segments[1].first, last),
         NEW k \in 1..Len(g[n].segments)
  PROVE  ReferenceTiles(Applied(A, p), NewAt(p), k, track)
<1> DEFINE segments == g[n].segments
           F == segments[1].first
           s == segments[k]
           a == s.first
           b == Bound(segments, k, last)
           B == Applied(A, p)
           w == NewAt(p)
           delta == RewrittenSidx(A, p).size - RemovedSize(A, p)
           start == SegmentStarts(B[w])[k]
           f == LastsInside(B, w, k, track)
           h == Lasts(A, n, track)
<1>1. n \in Nat /\ IsFile(A, n) /\ PlanFits(p, A) /\ HasDurations(A, n, track)
  BY DEF Planned, IsFile
<1>2. /\ a \in F..n /\ b \in (a + 1)..(n + 1)
      /\ Covers(A, n, track, F, s, b)
      /\ s \in Segment(A) /\ s.moofs # << >>
  <2>1. LiesBetween(A, n, track, segments, k, last)
    BY SegmentCovers
  <2> QED BY <2>1 DEF LiesBetween
<1>3. F \in 1..n
  BY InFrontOfMedia
<1>4. /\ A[a].kind \in MediaKinds \ {"mdat"}
      /\ \A x \in 1..Len(s.moofs) : s.moofs[x] \in a..(b - 1)
      /\ SegmentDuration(A, s, track) = SumTo(h, b - 1) - SumTo(h, a - 1)
  BY <1>2 DEF Covers, LastsTo
<1>5. /\ \A m \in 1..(n + d) :
           m \in Inside(B, w, k) <=> m \in (a + d)..(b - 1 + d) /\ A[m - d].kind = "moof"
      /\ start = B[a + d].offset
  <2>1. IsInside(A, n, d, B, w, segments, k, last, delta)
    BY InsideIs
  <2> QED BY <2>1 DEF IsInside
<1>6. B[w].durations[k] = SegmentDuration(A, s, track)
  <2>1. B[w].durations = RewrittenSidx(A, p).durations
    BY <1>1, AppliedSays
  <2>2. RewrittenSidx(A, p).durations[k] = SegmentDuration(A, s, track)
    BY NewSays
  <2> QED BY <2>1, <2>2
<1>7. s.moofs[1] \in a..(b - 1) /\ A[s.moofs[1]].kind = "moof"
  <2>1. s.moofs \in Seq(BoxesOf(A, "moof"))
    BY <1>2 DEF Segment
  <2>2. 1 \in 1..Len(s.moofs) /\ s.moofs[1] \in BoxesOf(A, "moof")
    <3> DEFINE q == s.moofs
               S == BoxesOf(A, "moof")
    <3>1. q \in Seq(S) /\ q # << >>
      BY <1>2, <2>1
    <3> HIDE DEF q, S
    <3> QED BY <3>1 DEF q, S
  <2> QED BY <1>4, <2>2 DEF BoxesOf
<1>8. f = [m \in DOMAIN B |-> IF m \in Inside(B, w, k) THEN MoofDuration(B[m], track) ELSE 0]
  BY DEF LastsInside
<1>9. h = [i \in 1..n |-> IF A[i].kind = "moof" THEN MoofDuration(A[i], track) ELSE 0]
      /\ \A i \in 1..n : h[i] \in Int
  BY <1>1 DEF Lasts, HasDurations
<1>10. Moves(A, n, F, B, d, delta)
  OBVIOUS
<1>11. B = [j \in 1..(n + d) |-> B[j]]
  OBVIOUS
<1> HIDE DEF segments, F, s, a, b, B, w, delta, start, f, h
<1>12. /\ d \in 0..1 /\ DOMAIN B = 1..(n + d)
       /\ \A j \in F..n : B[j + d].kind = A[j].kind /\ B[j + d].trafs = A[j].trafs
  BY <1>10 DEF Moves, SameBut
<1>13. a \in 1..n /\ a \in F..n /\ b - 1 \in a..n /\ a + d \in 1..(n + d)
  BY <1>1, <1>2, <1>3, <1>12
<1>14. \E m \in DOMAIN B : B[m].offset = start /\ B[m].kind \in MediaKinds \ {"mdat"}
  <2>1. B[a + d].kind = A[a].kind
    BY <1>12, <1>13
  <2> QED BY <1>4, <1>5, <1>12, <1>13, <2>1
<1>15. Inside(B, w, k) # {}
  <2> DEFINE m == s.moofs[1]
  <2>1. m \in a..(b - 1)
    BY <1>7
  <2>2. A[m].kind = "moof"
    BY <1>7
  <2> HIDE DEF m
  <2>3. m + d \in 1..(n + d) /\ (m + d) - d = m /\ m + d \in (a + d)..(b - 1 + d)
    BY <1>1, <1>12, <1>13, <2>1
  <2> QED BY <1>5, <2>2, <2>3
<1>16. \A j \in 1..(n + d) :
         f[j] = IF j \in (a + d)..((b - 1) + d) THEN h[j - d] ELSE 0
  <2> SUFFICES ASSUME NEW j \in 1..(n + d)
               PROVE  f[j] = IF j \in (a + d)..((b - 1) + d) THEN h[j - d] ELSE 0
    OBVIOUS
  <2>1. f[j] = IF j \in Inside(B, w, k) THEN MoofDuration(B[j], track) ELSE 0
    BY <1>8, <1>12
  <2>2. CASE j \in (a + d)..((b - 1) + d)
    <3> DEFINE i == j - d
    <3>1. i \in F..n /\ i \in 1..n /\ i + d = j
      BY <1>1, <1>2, <1>3, <1>12, <1>13, <2>2
    <3>2. h[i] = IF A[i].kind = "moof" THEN MoofDuration(A[i], track) ELSE 0
      BY <1>9, <3>1
    <3>3. B[j].trafs = A[i].trafs
      BY <1>12, <3>1
    <3>4. MoofDuration(B[j], track) = MoofDuration(A[i], track)
      BY <3>3 DEF MoofDuration
    <3>5. j \in Inside(B, w, k) <=> A[i].kind = "moof"
      BY <1>5, <2>2
    <3> QED BY <2>1, <2>2, <3>2, <3>4, <3>5
  <2>3. CASE j \notin (a + d)..((b - 1) + d)
    <3>1. j \notin Inside(B, w, k)
      BY <1>5, <2>3
    <3> QED BY <2>1, <2>3, <3>1
  <2> QED BY <2>2, <2>3
<1>17. SumTo(f, n + d) = SumTo(h, b - 1) - SumTo(h, a - 1)
  <2> DEFINE c == b - 1
             m == n + d
  <2>1. m \in Nat /\ d \in Nat /\ c \in a..n /\ c + d <= m
    BY <1>1, <1>12, <1>13
  <2>2. \A j \in 1..m : f[j] = IF j \in (a + d)..(c + d) THEN h[j - d] ELSE 0
    BY <1>16
  <2> HIDE DEF c, m
  <2>4. \A j \in 1..n : h[j] \in Int
    BY <1>9
  <2>5. n \in Nat /\ a \in 1..n
    BY <1>1, <1>13
  <2>3. SumTo(f, m) = SumTo(h, c) - SumTo(h, a - 1)
    <3>1. IsWindow(f, h, m, n, d, a, c)
      BY <2>2, <2>4 DEF IsWindow
    <3> QED BY <2>1, <2>5, <3>1, WindowSum
  <2> QED BY <2>3 DEF c, m
<1>18. Len(B) = n + d
  <2>1. n + d \in Nat
    BY <1>1, <1>12
  <2> QED BY <1>11, <2>1, LenIs
<1>19. B[w].durations[k] = SumTo(f, Len(B))
  BY <1>4, <1>6, <1>17, <1>18
<1> QED BY <1>14, <1>15, <1>19 DEF ReferenceTiles, start, B, w, f

-----------------------------------------------------------------------------
(* A file with the sidx in it is a sequence.                               *)
LEMMA AppliedRow ==
  ASSUME NEW A, NEW n, IsFile(A, n), NEW p, PlanFits(p, A), NEW d,
         DOMAIN Applied(A, p) = 1..(n + d)
  PROVE  Applied(A, p) = [j \in 1..(n + d) |-> Applied(A, p)[j]]
<1> DEFINE W == WithNew(A, p)
<1>1. n \in Nat /\ IsRow(A, n) /\ LaidSizes(A)
  BY DEF IsFile
<1>2. /\ CountWith(n, p) \in Nat /\ DOMAIN W = 1..CountWith(n, p) /\ LaidSizes(W)
      /\ DOMAIN Applied(A, p) = 1..CountWith(n, p)
  BY <1>1, WithNewIs, AppliedIs
<1>3. Applied(A, p) = Relaid(W)
  BY DEF Applied, WithNew
<1> HIDE DEF W
<1>4. Relaid(W) = [j \in 1..CountWith(n, p) |-> Relaid(W)[j]]
  BY <1>2, RelaidIs
<1> QED BY <1>2, <1>3, <1>4

(* The references tile the media of a file made by a plan.                 *)
LEMMA TilesHold ==
  ASSUME NEW A, NEW n, NEW g, NEW track, NEW p, Planned(A, n, g, track, p), NEW d,
         Moves(A, n, g[n].segments[1].first, Applied(A, p), d,
               RewrittenSidx(A, p).size - RemovedSize(A, p)),
         OnlyMediaIn(Applied(A, p), NewAt(p))
  PROVE  TilesIn(Applied(A, p), NewAt(p), track)
<1> DEFINE segments == g[n].segments
           F == segments[1].first
           B == Applied(A, p)
           w == NewAt(p)
           delta == RewrittenSidx(A, p).size - RemovedSize(A, p)
           starts == SegmentStarts(B[w])
           last == Max(BoxesOf(B, "mdat"))
           c == Len(segments)
<1>1. n \in Nat /\ IsFile(A, n) /\ PlanFits(p, A)
  BY DEF Planned, IsFile
<1>2. MediaFrom(A, n, F, last - d) /\ last \in 1..(n + d)
  BY MediaIs
<1>3. DOMAIN starts = 1..c /\ c \in Nat \ {0}
  BY FirstStart, NewSays
<1>4. Len(starts) = c
  <2>1. starts = [k \in DOMAIN B[w].entries |-> starts[k]]
    BY DEF SegmentStarts
  <2>2. starts = [k \in 1..c |-> starts[k]]
    BY <1>3, <2>1
  <2> HIDE DEF starts, c
  <2> QED BY <1>3, <2>2, LenIs
<1>5. B = [j \in 1..(n + d) |-> B[j]]
  <2>1. DOMAIN B = 1..(n + d)
    BY DEF Moves
  <2> QED BY <1>1, <2>1, AppliedRow
<1>6. ASSUME NEW k \in 1..c PROVE ReferenceTiles(B, w, k, track)
  BY <1>2, <1>5, ReferenceHolds
<1>7. starts[c] + B[w].entries[c] = B[last].offset + B[last].size
  <2> DEFINE L == last - d
  <2>1. IsInside(A, n, d, B, w, segments, c, L, delta)
    <3>1. c \in 1..c
      BY <1>3
    <3> HIDE DEF L
    <3>2. MediaFrom(A, n, F, L)
      BY <1>2 DEF L
    <3> QED BY <3>1, <3>2, InsideIs
  <2>2. starts[c] + B[w].entries[c] = At(A, n, L + 1) + delta
    <3>1. Bound(segments, c, L) = L + 1
      BY <1>3 DEF Bound
    <3> QED BY <2>1, <3>1 DEF IsInside
  <2>3. L \in F..n /\ F \in 1..n
    BY <1>2 DEF MediaFrom
  <2>4. Moves(A, n, F, B, d, delta)
    OBVIOUS
  <2> HIDE DEF L, F, B, delta, starts, c, w
  <2>5. L \in 1..n /\ At(A, n, L) = A[L].offset /\ A[L].size \in Int /\ A[L].offset \in Int
    BY <1>1, <2>3, AtIs DEF IsFile
  <2>6. At(A, n, L + 1) = At(A, n, L) + A[L].size
    BY <1>1, <2>5, AtIs
  <2>7. B[L + d].offset = A[L].offset + delta /\ B[L + d].size = A[L].size /\ delta \in Int
    BY <2>3, <2>4 DEF Moves, SameBut
  <2>8. L + d = last
    <3>1. d \in 0..1 /\ last \in Int
      BY <1>1, <1>2, <2>4 DEF Moves
    <3> HIDE DEF last
    <3> QED BY <3>1 DEF L
  <2>9. At(A, n, L + 1) + delta = B[L + d].offset + B[L + d].size
    BY <2>5, <2>6, <2>7
  <2> QED BY <2>2, <2>8, <2>9
<1> HIDE DEF B, w, starts, last, c
<1>8. starts = SegmentStarts(B[w]) /\ last = Max(BoxesOf(B, "mdat"))
  BY DEF starts, last
<1>9. \A k \in DOMAIN starts :
        /\ \E m \in DOMAIN B : B[m].offset = starts[k] /\ B[m].kind \in MediaKinds \ {"mdat"}
        /\ Inside(B, w, k) # {}
        /\ B[w].durations[k] = SumTo(LastsInside(B, w, k, track), Len(B))
  BY <1>3, <1>6, <1>8 DEF ReferenceTiles
<1>10. TilesIn(B, w, track)
  BY <1>4, <1>7, <1>8, <1>9 DEF TilesIn
<1> QED BY <1>10 DEF B, w

(* What a plan makes of a file is one that its references tile.            *)
LEMMA PlanTiles ==
  ASSUME NEW A, NEW n, NEW g, NEW track, NEW p, Planned(A, n, g, track, p),
         OnlyMediaIn(Applied(A, p), NewAt(p))
  PROVE  TilesIn(Applied(A, p), NewAt(p), track)
<1>1. CASE p.replaced = None
  <2>1. Moves(A, n, g[n].segments[1].first, Applied(A, p), 1,
              RewrittenSidx(A, p).size - RemovedSize(A, p))
    BY <1>1, InsertedMoves
  <2> QED BY <2>1, TilesHold
<1>2. CASE p.replaced # None
  <2>1. Moves(A, n, g[n].segments[1].first, Applied(A, p), 0,
              RewrittenSidx(A, p).size - RemovedSize(A, p))
    BY <1>2, ReplacedMoves
  <2> QED BY <2>1, TilesHold
<1> QED BY <1>1, <1>2

-----------------------------------------------------------------------------
(* A rewrite that kept the fields of the request's boxes is a file.        *)
LEMMA SidxSays ==
  ASSUME NEW box \in RootBox, box.kind = "sidx"
  PROVE  box.first_offset \in Nat
<1>1. box \in SidxBox
  BY DEF RootBox, PlainBox, MoovBox
<1> QED BY <1>1 DEF SidxBox

LEMMA FileIs ==
  ASSUME NEW req \in Requests, NEW replacements, NEW A, IsCopy(req, replacements, A),
         KeepsFields(req, A), PlanError(A) = "None", NEW track
  PROVE  LET n == Len(req.root_boxes)
         IN  /\ IsFile(A, n) /\ HasDurations(A, n, track) /\ Len(A) = n
             /\ \A i \in 1..n : A[i].size \in Int
<1> DEFINE R == req.root_boxes
           n == Len(R)
<1>1. /\ n \in Nat /\ DOMAIN R = 1..n
      /\ \A i \in 1..n : R[i] \in RootBox /\ R[i].trafs \in Seq(Traf)
                         /\ R[i].entries \in Seq(Nat)
  BY RootBoxes
<1>2. /\ IsRow(A, n) /\ LaidSizes(A) /\ IsLaid(A)
      /\ \A i \in 1..n : A[i].offset \in Int /\ A[i].kind = R[i].kind
  BY <1>1 DEF IsCopy, ShapeKept
<1>3. \A i \in 1..n : FieldsKept(R[i], A[i])
  BY <1>1 DEF KeepsFields
<1>4. \A i \in 1..n : A[i].size \in Nat \ {0}
  BY <1>3 DEF FieldsKept
<1>5. BoxesOf(A, "moov") # {}
  <2>1. AnalysisError(A) = "None"
    BY DEF PlanError
  <2>2. InitError(A) = "None"
    BY <2>1 DEF AnalysisError
  <2> QED BY <2>2 DEF InitError
<1>6. n \in Nat \ {0}
  BY <1>1, <1>2, <1>5 DEF BoxesOf, IsRow
<1>7. ASSUME NEW i \in 1..n, A[i].kind = "sidx"
      PROVE  A[i].first_offset \in Nat /\ A[i].entries \in Seq(Nat)
  <2>1. R[i].kind = "sidx" /\ R[i] \in RootBox /\ R[i].entries \in Seq(Nat)
    BY <1>1, <1>2, <1>7
  <2>2. R[i].first_offset \in Nat
    BY <2>1, SidxSays
  <2>3. A[i].first_offset = R[i].first_offset /\ A[i].entries = R[i].entries
    BY <1>3, <2>1 DEF FieldsKept
  <2> QED BY <2>1, <2>2, <2>3
<1>8. IsFile(A, n)
  BY <1>2, <1>4, <1>6, <1>7 DEF IsFile
<1>9. ASSUME NEW i \in 1..n, A[i].kind = "moof"
      PROVE  MoofDuration(A[i], track) \in Int
  <2> DEFINE trafs == A[i].trafs
             f == [ t \in DOMAIN trafs |->
                      IF trafs[t].track = track THEN trafs[t].duration ELSE 0 ]
  <2>1. R[i].kind = "moof" /\ R[i].trafs \in Seq(Traf)
    BY <1>1, <1>2, <1>9
  <2>2. /\ DOMAIN trafs = DOMAIN R[i].trafs /\ Len(trafs) = Len(R[i].trafs)
        /\ \A t \in DOMAIN R[i].trafs : trafs[t].duration = R[i].trafs[t].duration
    BY <1>3, <2>1 DEF FieldsKept
  <2>3. /\ Len(R[i].trafs) \in Nat /\ DOMAIN R[i].trafs = 1..Len(R[i].trafs)
        /\ \A t \in 1..Len(R[i].trafs) : R[i].trafs[t] \in Traf
    <3> DEFINE q == R[i].trafs
    <3>1. q \in Seq(Traf)
      BY <2>1
    <3> HIDE DEF q
    <3>2. Len(q) \in Nat /\ DOMAIN q = 1..Len(q) /\ \A t \in 1..Len(q) : q[t] \in Traf
      BY <3>1
    <3> QED BY <3>2 DEF q
  <2>4. \A t \in 1..Len(trafs) : trafs[t].duration \in Int
    <3>1. \A t \in 1..Len(R[i].trafs) : R[i].trafs[t].duration \in Nat
      BY <2>3 DEF Traf
    <3> HIDE DEF trafs, R
    <3> QED BY <2>2, <2>3, <3>1
  <2>5. \A t \in 1..Len(trafs) : f[t] \in Int
    BY <2>2, <2>3, <2>4
  <2>6. MoofDuration(A[i], track) = SumTo(f, Len(trafs))
    BY DEF MoofDuration
  <2>7. Len(trafs) \in Nat
    BY <2>2, <2>3
  <2> HIDE DEF f
  <2>8. SumTo(f, Len(trafs)) \in Int
    BY <2>5, <2>7, SumToIs
  <2> QED BY <2>6, <2>8
<1>10. HasDurations(A, n, track)
  BY <1>9 DEF HasDurations
<1>11. Len(A) = n
  <2>1. A = [i \in 1..n |-> A[i]]
    BY <1>2 DEF IsRow
  <2> HIDE DEF n
  <2> QED BY <1>1, <2>1, LenIs
<1>12. \A i \in 1..n : A[i].size \in Int
  BY <1>4
<1> QED BY <1>8, <1>10, <1>11, <1>12

-----------------------------------------------------------------------------
(* What a request makes of a plan: the version that was there is kept in a *)
(* file that is decrypted.                                                 *)
PlanOf(A) == IF request.operation = "file" THEN VersionKept(A, Plan(A, request.options))
                                           ELSE Plan(A, request.options)

IsPlanFor(p, A) == PlanError(A) = "None" /\ p = PlanOf(A)

LEMMA PlannedIs ==
  ASSUME NEW A, NEW n, NEW track, IsFile(A, n), HasDurations(A, n, track), Len(A) = n,
         \A i \in 1..n : A[i].size \in Int,
         track = TimingTrack(A[Min(BoxesOf(A, "moov"))]), NEW p, IsPlanFor(p, A)
  PROVE  \E g : Planned(A, n, g, track, p)
<1>1. n \in Nat /\ DOMAIN A = 1..n /\ PlanError(A) = "None"
  BY DEF IsFile, IsRow, IsPlanFor
<1>2. PICK g : GroupingSteps(A, n, g)
  BY <1>1, GroupingIs
<1>3. PlanFits(p, A)
  BY <1>1, PlanIs DEF IsPlanFor, PlanOf
<1> DEFINE q == Plan(A, request.options)
<1>4. /\ q.replaced = IF g[n].existing = << >> THEN None ELSE g[n].existing[1]
      /\ q.insertion_box = g[n].segments[1].first
      /\ q.starts = [k \in DOMAIN g[n].segments |-> A[g[n].segments[k].first].offset]
      /\ q.sizes = [k \in DOMAIN g[n].segments |-> g[n].segments[k].size]
      /\ q.durations = [k \in DOMAIN g[n].segments |->
                          SegmentDuration(A, g[n].segments[k], track)]
      /\ DOMAIN q = {"replaced", "insertion_box", "version", "earliest", "starts", "sizes",
                     "durations"}
  <2>1. group_media_segments(A) = g[n]
    BY <1>2 DEF GroupingSteps
  <2> QED BY <2>1 DEF Plan
<1> HIDE DEF q
<1>5. /\ p.replaced = q.replaced /\ p.insertion_box = q.insertion_box
      /\ p.starts = q.starts /\ p.sizes = q.sizes /\ p.durations = q.durations
  <2>1. p = q \/ p = VersionKept(A, q)
    BY DEF IsPlanFor, PlanOf, q
  <2>2. p = q \/ p = [q EXCEPT !.version = 0]
    BY <2>1 DEF VersionKept
  <2> QED BY <1>4, <2>2
<1>6. Planned(A, n, g, track, p)
  BY <1>1, <1>2, <1>3, <1>4, <1>5 DEF Planned
<1> QED BY <1>6

(* The sidx that was written is where the plan puts it.                    *)
LEMMA WrittenIs ==
  ASSUME request \in Requests, NEW A, IsCopy(request, moof_replacements, A),
         PlanFits(plan, A), bytes = Applied(A, plan)
  PROVE  Written = NewAt(plan)
<1> DEFINE n == Len(root)
           m == CountWith(n, plan)
           B == Applied(A, plan)
           w == NewAt(plan)
           from == IF plan.replaced = None THEN 0 ELSE plan.replaced
<1>1. n \in Nat /\ Roots = 1..n /\ \A k \in 1..n : root[k].origin = k
  BY RootBoxes DEF Roots, root
<1>2. /\ IsRow(A, n) /\ LaidSizes(A) /\ \A k \in 1..n : A[k].origin = k
  BY <1>1 DEF IsCopy, ShapeKept, root, Roots
<1> HIDE DEF n
<1>3. /\ DOMAIN B = 1..m /\ w \in 1..n
      /\ SameBut(RewrittenSidx(A, plan), B[w])
      /\ \A k \in 1..n : k # plan.replaced => SameBut(A[k], B[To(plan, k)])
  <2> HIDE DEF B
  <2> QED BY <1>1, <1>2, AppliedIs DEF m, B
<1>4. /\ RewrittenSidx(A, plan).kind = "sidx"
      /\ RewrittenSidx(A, plan).origin
           = IF plan.replaced = None THEN 0 ELSE A[plan.replaced].origin
  BY NewSidxIs
<1>5. plan.replaced # None => plan.replaced \in 1..n /\ w = plan.replaced
  BY <1>3 DEF NewAt
<1>6. B[w].origin = from /\ B[w].kind = "sidx" /\ w \in DOMAIN B
  <2>1. plan.replaced # None => A[plan.replaced].origin = plan.replaced
    BY <1>2, <1>5
  <2>2. w \in 1..m
    BY <1>1, <1>3 DEF CountWith
  <2> HIDE DEF B
  <2> QED BY <1>3, <1>4, <2>1, <2>2 DEF SameBut
<1>7. ASSUME NEW k \in DOMAIN B, k # w PROVE B[k].origin # from
  <2> DEFINE i == IF plan.replaced = None /\ k > w THEN k - 1 ELSE k
  <2>1. i \in 1..n /\ To(plan, i) = k /\ i # plan.replaced
    <3>1. k \in 1..m /\ k \in Int /\ w \in Int
      BY <1>3
    <3>2. CASE plan.replaced = None
      <4>1. m = n + 1 /\ w = plan.insertion_box /\ plan.replaced \notin Int
        BY <3>2, NoneAssumption DEF CountWith, NewAt
      <4>2. i \in 1..n /\ (IF i >= w THEN i + 1 ELSE i) = k
        BY <1>1, <1>3, <1>7, <3>1, <3>2, <4>1
      <4> QED BY <3>2, <4>1, <4>2 DEF To
    <3>3. CASE plan.replaced # None
      <4>1. m = n /\ w = plan.replaced
        BY <1>5, <3>3 DEF CountWith
      <4> QED BY <1>7, <3>1, <3>3, <4>1 DEF To
    <3> QED BY <3>2, <3>3
  <2>2. B[k].origin = i
    BY <1>2, <1>3, <2>1 DEF SameBut
  <2>3. i # from
    BY <1>5, <2>1
  <2> QED BY <2>2, <2>3
<1>8. Written = CHOOSE k \in BoxesOf(B, "sidx") : B[k].origin = from
  <2>1. (IF plan.replaced = None THEN 0 ELSE root[plan.replaced].origin) = from
    BY <1>1, <1>5
  <2> QED BY <2>1 DEF Written
<1> HIDE DEF B, w, from
<1>9. (CHOOSE k \in BoxesOf(B, "sidx") : B[k].origin = from) = w
  <2>1. w \in BoxesOf(B, "sidx") /\ B[w].origin = from
    BY <1>6 DEF BoxesOf
  <2>2. \A k \in BoxesOf(B, "sidx") : B[k].origin = from => k = w
    BY <1>7 DEF BoxesOf
  <2> QED BY <2>1, <2>2
<1> QED BY <1>8, <1>9 DEF w

-----------------------------------------------------------------------------
(* A plan that is applied was made for the bytes it is applied to.         *)
TilingInv ==
  /\ pc = "apply_sidx" => KeepsFields(request, bytes) /\ IsPlanFor(plan, bytes)
  /\ pc = "done" /\ plan # << >> =>
       \E A : /\ IsCopy(request, moof_replacements, A) /\ KeepsFields(request, A)
              /\ IsPlanFor(plan, A) /\ bytes = Applied(A, plan)

LEMMA TilingKeeps == IInv /\ RefusalInv /\ TilingInv /\ [Next]_vars => TilingInv'
<1> SUFFICES ASSUME IInv, RefusalInv, TilingInv, [Next]_vars PROVE TilingInv'
  OBVIOUS
<1>1. CASE UNCHANGED vars
  <2>1. /\ request' = request /\ pc' = pc /\ bytes' = bytes /\ plan' = plan
        /\ moof_replacements' = moof_replacements
    BY <1>1 DEF vars, planVars
  <2>2. \A p, A : IsPlanFor(p, A)' <=> IsPlanFor(p, A)
    BY <2>1 DEF IsPlanFor, PlanOf
  <2> QED BY <2>1, <2>2 DEF TilingInv
<1>2. CASE Malformed \/ DecryptSamples \/ ReplaceMoof \/ RebuildMoov \/ ReplaceMfra
  <2>1. pc' \in {"failed", "moofs", "in_place", "mfra", "root"}
    BY <1>2 DEF Malformed, DecryptSamples, ReplaceMoof, RebuildMoov, ReplaceMfra, Fail
  <2> QED BY <2>1 DEF TilingInv
<1>3. CASE RebuildRoot \/ RewriteInPlace
  <2>1. pc' \in {"plan_sidx", "done"} /\ plan' = << >>
    BY <1>3 DEF RebuildRoot, RewriteInPlace, AfterRewrite, IInv, BytesInv, Before
  <2> QED BY <2>1 DEF TilingInv
<1>4. CASE PlanSidx
  <2>1. /\ request' = request /\ bytes' = bytes /\ pc = "plan_sidx" /\ plan = << >>
        /\ KeepsFields(request, bytes)
    BY <1>4 DEF PlanSidx, RefusalInv, IInv, BytesInv, Before
  <2>2. CASE pc' = "failed"
    BY <2>2 DEF TilingInv
  <2>3. CASE pc' = "done" /\ plan' = plan
    BY <2>1, <2>3 DEF TilingInv
  <2>4. CASE /\ pc' = "apply_sidx" /\ PlanError(bytes) = "None"
             /\ plan' = IF request.operation = "file"
                          THEN VersionKept(bytes, Plan(bytes, request.options))
                          ELSE Plan(bytes, request.options)
    <3>1. IsPlanFor(plan, bytes)'
      BY <2>1, <2>4 DEF IsPlanFor, PlanOf
    <3>2. KeepsFields(request, bytes)'
      BY <2>1
    <3> QED BY <2>4, <3>1, <3>2 DEF TilingInv
  <2> QED BY <1>4, <2>2, <2>3, <2>4 DEF PlanSidx, Fail
<1>5. CASE ApplySidx
  <2>1. /\ pc = "apply_sidx" /\ pc' = "done" /\ request' = request /\ plan' = plan
        /\ moof_replacements' = moof_replacements /\ bytes' = Applied(bytes, plan)
    BY <1>5 DEF ApplySidx, planVars
  <2>2. /\ IsCopy(request, moof_replacements, bytes) /\ KeepsFields(request, bytes)
        /\ IsPlanFor(plan, bytes)
    BY <2>1 DEF IInv, BytesInv, TilingInv
  <2>3. PICK A : A = bytes
    OBVIOUS
  <2>4. /\ IsCopy(request', moof_replacements', A) /\ KeepsFields(request', A)
        /\ IsPlanFor(plan, A)' /\ bytes' = Applied(A, plan')
    BY <2>1, <2>2, <2>3 DEF IsPlanFor, PlanOf
  <2> QED BY <2>1, <2>4 DEF TilingInv
<1> QED BY <1>1, <1>2, <1>3, <1>4, <1>5 DEF Next, Advance, Returned

(* What is returned with a sidx refreshed, and what it was made of.        *)
MadeOf(A, n, g, track) ==
  /\ IsCopy(request, moof_replacements, A) /\ KeepsFields(request, A)
  /\ IsPlanFor(plan, A) /\ bytes = Applied(A, plan)
  /\ n = Len(root) /\ Planned(A, n, g, track, plan)
  /\ track = TimingTrack(A[Min(BoxesOf(A, "moov"))])
  /\ track = TimingTrack(root[Min(BoxesOf(root, "moov"))])
  /\ Written = NewAt(plan)

LEMMA WrittenFrom ==
  ASSUME IInv, TilingInv, pc = "done", plan # << >>
  PROVE  \E A, n, g, track : MadeOf(A, n, g, track)
<1> DEFINE n == Len(root)
           track == TimingTrack(root[Min(BoxesOf(root, "moov"))])
           w == NewAt(plan)
<1>1. PICK A : /\ IsCopy(request, moof_replacements, A) /\ KeepsFields(request, A)
               /\ IsPlanFor(plan, A) /\ bytes = Applied(A, plan)
  BY DEF TilingInv
<1>2. request \in Requests /\ PlanError(A) = "None"
  BY <1>1 DEF IInv, IsPlanFor
<1>3. /\ IsFile(A, n) /\ HasDurations(A, n, track) /\ Len(A) = n
      /\ \A i \in 1..n : A[i].size \in Int
  BY <1>1, <1>2, FileIs DEF root
<1>4. track = TimingTrack(A[Min(BoxesOf(A, "moov"))])
  <2>1. n \in Nat /\ DOMAIN root = 1..n /\ DOMAIN A = 1..n
    BY <1>2, <1>3, RootBoxes DEF root, IsFile, IsRow
  <2>2. \A i \in 1..n : A[i].kind = root[i].kind /\ FieldsKept(root[i], A[i])
    BY <1>1, <2>1 DEF IsCopy, ShapeKept, KeepsFields, root
  <2>3. BoxesOf(A, "moov") = BoxesOf(root, "moov")
    BY <2>1, <2>2 DEF BoxesOf
  <2>4. BoxesOf(root, "moov") # {} /\ BoxesOf(root, "moov") \subseteq 1..n
    <3>1. PICK g : GroupingSteps(A, n, g)
      BY <1>3, <2>1, GroupingIs
    <3>2. BoxesOf(A, "moov") # {}
      BY <1>2, <1>3, <3>1, AnalysisIs
    <3> QED BY <2>1, <2>3, <3>2 DEF BoxesOf
  <2> DEFINE v == Min(BoxesOf(root, "moov"))
  <2>5. v \in 1..n /\ root[v].kind = "moov"
    <3>1. v \in BoxesOf(root, "moov")
      <4>1. BoxesOf(root, "moov") \subseteq Nat
        BY <2>1, <2>4
      <4> QED BY <2>4, <4>1, MinIs
    <3> QED BY <2>1, <3>1 DEF BoxesOf
  <2> HIDE DEF v
  <2>6. A[v].tracks = root[v].tracks
    BY <2>2, <2>5 DEF FieldsKept
  <2>7. TimingTrack(A[v]) = TimingTrack(root[v])
    BY <2>6 DEF TimingTrack
  <2> QED BY <2>3, <2>7 DEF v
<1> HIDE DEF n, track
<1>5. PICK g : Planned(A, n, g, track, plan)
  BY <1>1, <1>3, <1>4, PlannedIs
<1>6. Written = w
  <2>1. PlanFits(plan, A)
    BY <1>5 DEF Planned
  <2> QED BY <1>1, <1>2, <2>1, WrittenIs
<1> HIDE DEF w
<1>7. MadeOf(A, n, g, track)
  BY <1>1, <1>4, <1>5, <1>6 DEF MadeOf, n, track, w
<1> QED BY <1>7

(* For all requests, the references of a refreshed sidx tile the media:    *)
(* each begins at a box that can open a segment and lasts as long as the   *)
(* fragments in its bytes, and the last ends where the media ends          *)
(* (apply_top_level_sidx_plan in sidx.rs).                                 *)
THEOREM ReferencesAlwaysTile == Spec => []ReferencesTile
<1>1. Init => RefusalInv /\ TilingInv
  BY InitRefusal DEF Init, TilingInv
<1>2. IInv /\ RefusalInv /\ [Next]_vars => RefusalInv'
  BY RefusalKeeps
<1>3. IInv /\ RefusalInv /\ TilingInv /\ [Next]_vars => TilingInv'
  BY TilingKeeps
<1>4. IInv /\ TilingInv => ReferencesTile
  <2> SUFFICES ASSUME IInv, TilingInv, pc = "done", plan # << >>, OnlyMedia
               PROVE  ReferencesTile
    BY DEF ReferencesTile, Returns
  <2> DEFINE w == NewAt(plan)
  <2>1. PICK A, n, g, track : MadeOf(A, n, g, track)
    BY WrittenFrom
  <2>2. /\ Planned(A, n, g, track, plan) /\ bytes = Applied(A, plan) /\ Written = w
        /\ track = TimingTrack(root[Min(BoxesOf(root, "moov"))])
    BY <2>1 DEF MadeOf
  <2> HIDE DEF w
  <2>3. OnlyMediaIn(bytes, w)
    BY <2>2 DEF OnlyMedia, OnlyMediaIn, LastMdat
  <2>4. TilesIn(bytes, w, track)
    BY <2>2, <2>3, PlanTiles DEF w
  <2>5. TilesIn(bytes, Written, TimingTrack(root[Min(BoxesOf(root, "moov"))]))
    BY <2>2, <2>4
  <2> QED BY <2>5 DEF ReferencesTile, TilesIn, Inside, LastsInside, LastMdat
<1> QED BY <1>1, <1>2, <1>3, <1>4, OutputIs, PTL DEF Spec

-----------------------------------------------------------------------------
(* Two files that say the same of a box, and of a segment, as far as a plan*)
(* for a sidx reads them; the second has it d places further on.           *)
BoxAlike(A, B, i, d) ==
  B[i + d].kind = A[i].kind /\ B[i + d].size = A[i].size /\ B[i + d].trafs = A[i].trafs

Alike(A, B, s, t, d) ==
  /\ t.first = s.first + d /\ t.size = s.size /\ t.sidx_count = s.sidx_count
  /\ B[t.first].kind = A[s.first].kind /\ B[t.first].size = A[s.first].size
  /\ Len(t.moofs) = Len(s.moofs)
  /\ \A x \in 1..Len(s.moofs) : B[t.moofs[x]].trafs = A[s.moofs[x]].trafs

AllAlike(A, B, st, ts, d) ==
  /\ Len(ts.segments) = Len(st.segments)
  /\ \A k \in 1..Len(st.segments) : Alike(A, B, st.segments[k], ts.segments[k], d)

LEMMA ExtendedAlike ==
  ASSUME NEW A, NEW B, NEW i \in Int, NEW d \in Int, BoxAlike(A, B, i, d),
         NEW s, NEW S, s.moofs \in Seq(S), NEW t, NEW T, t.moofs \in Seq(T), Alike(A, B, s, t, d)
  PROVE  Alike(A, B, Extended(A, s, i), Extended(B, t, i + d), d)
<1> DEFINE e == Extended(A, s, i)
           f == Extended(B, t, i + d)
<1>1. /\ f.first = e.first + d /\ f.size = e.size /\ f.sidx_count = e.sidx_count
      /\ e.first = s.first /\ f.first = t.first
  BY DEF Extended, Alike, BoxAlike
<1>2. /\ e.moofs = IF A[i].kind = "moof" THEN Append(s.moofs, i) ELSE s.moofs
      /\ f.moofs = IF A[i].kind = "moof" THEN Append(t.moofs, i + d) ELSE t.moofs
  BY DEF Extended, BoxAlike
<1> HIDE DEF e, f
<1> DEFINE a == s.moofs
           b == t.moofs
           m == Len(a)
<1>3. m \in Nat /\ Len(b) = m /\ \A x \in 1..m : B[b[x]].trafs = A[a[x]].trafs
  BY DEF Alike
<1>4. /\ Len(Append(a, i)) = m + 1 /\ Append(a, i)[m + 1] = i
      /\ \A x \in 1..m : Append(a, i)[x] = a[x]
  OBVIOUS
<1>5. /\ Len(Append(b, i + d)) = m + 1 /\ Append(b, i + d)[m + 1] = i + d
      /\ \A x \in 1..m : Append(b, i + d)[x] = b[x]
  <2>1. /\ Len(Append(b, i + d)) = Len(b) + 1 /\ Append(b, i + d)[Len(b) + 1] = i + d
        /\ \A x \in 1..Len(b) : Append(b, i + d)[x] = b[x]
    OBVIOUS
  <2> QED BY <1>3, <2>1
<1>6. /\ Len(f.moofs) = Len(e.moofs)
      /\ \A x \in 1..Len(e.moofs) : B[f.moofs[x]].trafs = A[e.moofs[x]].trafs
  <2> HIDE DEF a, b, m
  <2>1. CASE A[i].kind = "moof"
    <3>1. e.moofs = Append(a, i) /\ f.moofs = Append(b, i + d)
      BY <1>2, <2>1 DEF a, b
    <3>2. \A x \in 1..(m + 1) : x \in 1..m \/ x = m + 1
      BY <1>3
    <3>3. B[i + d].trafs = A[i].trafs
      BY DEF BoxAlike
    <3> QED BY <1>3, <1>4, <1>5, <3>1, <3>2, <3>3
  <2>2. CASE A[i].kind # "moof"
    BY <1>2, <1>3, <2>2 DEF a, b, m
  <2> QED BY <2>1, <2>2
<1>7. Alike(A, B, e, f, d)
  BY <1>1, <1>6 DEF Alike
<1> QED BY <1>7 DEF e, f

LEMMA OpenedAlike ==
  ASSUME NEW A, NEW B, NEW i \in Int, NEW d \in Int, BoxAlike(A, B, i, d)
  PROVE  Alike(A, B, Opened(A, i), Opened(B, i + d), d)
<1>1. Alike(A, B, Fresh(i), Fresh(i + d), d)
  BY DEF Alike, Fresh, BoxAlike
<1>2. Fresh(i).moofs \in Seq({}) /\ Fresh(i + d).moofs \in Seq({})
  BY DEF Fresh
<1> QED BY <1>1, <1>2, ExtendedAlike DEF Opened

(* A box that is not taken for the sidx of either file.                    *)
LEMMA StepAlike ==
  ASSUME NEW A, NEW B, NEW st \in Grouped(A), NEW ts \in Grouped(B), NEW d \in Int,
         AllAlike(A, B, st, ts, d),
         NEW i \in Int, i \in DOMAIN A, i + d \in DOMAIN B, BoxAlike(A, B, i, d),
         A[i].size \in Int, B[i + d].size \in Int,
         ~IsTaken(A, st, i), ~IsTaken(B, ts, i + d),
         Opens(A, st, i) <=> Opens(B, ts, i + d)
  PROVE  /\ AllAlike(A, B, GroupBox(A, st, i), GroupBox(B, ts, i + d), d)
         /\ GroupBox(B, ts, i + d).existing = ts.existing
<1> DEFINE j == i + d
           a == GroupBox(A, st, i)
           b == GroupBox(B, ts, j)
           m == Len(st.segments)
<1>1. /\ m \in Nat /\ Len(ts.segments) = m
      /\ \A k \in 1..m : /\ Alike(A, B, st.segments[k], ts.segments[k], d)
                         /\ st.segments[k].moofs \in Seq(BoxesOf(A, "moof"))
                         /\ ts.segments[k].moofs \in Seq(BoxesOf(B, "moof"))
      /\ st.segments # << >> <=> m > 0
      /\ ts.segments # << >> <=> m > 0
  <2>1. m \in Nat /\ Len(ts.segments) = m /\ Len(ts.segments) \in Nat
    BY SegmentsAre DEF AllAlike
  <2>2. \A k \in 1..m : st.segments[k].moofs \in Seq(BoxesOf(A, "moof"))
    BY SegmentsAre
  <2>3. \A k \in 1..Len(ts.segments) : ts.segments[k].moofs \in Seq(BoxesOf(B, "moof"))
    BY SegmentsAre
  <2>4. (st.segments # << >> => m \in 1..m) /\ Len(<< >>) = 0
        /\ (ts.segments # << >> => Len(ts.segments) \in 1..Len(ts.segments))
    BY SegmentsAre
  <2>5. (st.segments # << >> <=> m > 0) /\ (ts.segments # << >> <=> m > 0)
    BY <2>1, <2>4
  <2> QED BY <2>1, <2>2, <2>3, <2>5 DEF AllAlike
<1>2. A[i].kind = B[j].kind
  BY DEF BoxAlike
<1>3. CASE A[i].kind \notin MediaKinds
  <2>1. a = st /\ b = ts
    BY <1>2, <1>3, StepIs
  <2> QED BY <2>1
<1>4. CASE Opens(A, st, i)
  <2>1. Pushes(st, a, Opened(A, i)) /\ Pushes(ts, b, Opened(B, j))
    BY <1>4, StepIs
  <2>2. Alike(A, B, Opened(A, i), Opened(B, j), d)
    BY OpenedAlike
  <2> HIDE DEF a, b, m, j
  <2>3. /\ Len(a.segments) = m + 1 /\ Len(b.segments) = m + 1 /\ b.existing = ts.existing
        /\ a.segments[m + 1] = Opened(A, i) /\ b.segments[m + 1] = Opened(B, j)
        /\ \A k \in 1..m : a.segments[k] = st.segments[k] /\ b.segments[k] = ts.segments[k]
    BY <1>1, <2>1 DEF Pushes, m
  <2>4. \A k \in 1..(m + 1) : k \in 1..m \/ k = m + 1
    BY <1>1
  <2>5. \A k \in 1..(m + 1) : Alike(A, B, a.segments[k], b.segments[k], d)
    BY <1>1, <2>2, <2>3, <2>4
  <2>6. AllAlike(A, B, a, b, d)
    BY <2>3, <2>5 DEF AllAlike
  <2> QED BY <2>3, <2>6 DEF a, b, j
<1>5. CASE A[i].kind \in MediaKinds /\ ~Opens(A, st, i)
  <2>1. /\ IF st.segments = << >>
             THEN a.existing = st.existing /\ a.segments = << >>
             ELSE ReplacesLast(st, a, Extended(A, st.segments[m], i))
        /\ IF ts.segments = << >>
             THEN b.existing = ts.existing /\ b.segments = << >>
             ELSE ReplacesLast(ts, b, Extended(B, ts.segments[Len(ts.segments)], j))
    BY <1>2, <1>5, StepIs
  <2>2. CASE m = 0
    <3>1. a.segments = << >> /\ b.segments = << >> /\ b.existing = ts.existing
      BY <1>1, <2>1, <2>2
    <3>2. Len(<< >>) = 0 /\ 1..0 = {}
      OBVIOUS
    <3> QED BY <3>1, <3>2 DEF AllAlike
  <2>3. CASE m # 0
    <3>1. /\ ReplacesLast(st, a, Extended(A, st.segments[m], i))
          /\ ReplacesLast(ts, b, Extended(B, ts.segments[m], j))
      BY <1>1, <2>1, <2>3
    <3>2. m \in 1..m
      BY <1>1, <2>3
    <3>3. Alike(A, B, Extended(A, st.segments[m], i), Extended(B, ts.segments[m], j), d)
      BY <1>1, <3>2, ExtendedAlike
    <3> HIDE DEF a, b, m, j
    <3>4. /\ Len(a.segments) = m /\ Len(b.segments) = m /\ b.existing = ts.existing
          /\ \A k \in 1..m : a.segments[k] = IF k = m THEN Extended(A, st.segments[m], i)
                                             ELSE st.segments[k]
          /\ \A k \in 1..m : b.segments[k] = IF k = m THEN Extended(B, ts.segments[m], j)
                                             ELSE ts.segments[k]
      BY <1>1, <3>1 DEF ReplacesLast, m
    <3>5. \A k \in 1..m : Alike(A, B, a.segments[k], b.segments[k], d)
      BY <1>1, <3>3, <3>4
    <3>6. AllAlike(A, B, a, b, d)
      BY <3>4, <3>5 DEF AllAlike
    <3> QED BY <3>4, <3>6 DEF a, b, j
  <2> QED BY <2>2, <2>3
<1> QED BY <1>3, <1>4, <1>5

(* A sidx is taken for that of both files, or of neither.                  *)
LEMMA TakenAlike ==
  ASSUME NEW A, NEW B, NEW st \in Grouped(A), NEW ts \in Grouped(B), NEW d,
         AllAlike(A, B, st, ts, d), NEW i, NEW j, B[j].kind = A[i].kind,
         A[i].kind = "sidx" => PreviousKind(B, j) = PreviousKind(A, i)
  PROVE  IsTaken(A, st, i) <=> IsTaken(B, ts, j)
<1> SUFFICES ASSUME A[i].kind = "sidx" PROVE IsTaken(A, st, i) <=> IsTaken(B, ts, j)
  BY DEF IsTaken
<1> DEFINE m == Len(st.segments)
<1>1. /\ m \in Nat /\ Len(ts.segments) = m
      /\ st.segments \in Seq(Segment(A)) /\ ts.segments \in Seq(Segment(B))
  BY SegmentsAre DEF AllAlike
<1>2. (st.segments = << >> <=> m = 0) /\ (ts.segments = << >> <=> m = 0)
  BY <1>1
<1>3. ASSUME m # 0
      PROVE  IsPendingStyp(A, Last(st.segments)) <=> IsPendingStyp(B, Last(ts.segments))
  <2> DEFINE s == st.segments[m]
             t == ts.segments[m]
  <2>1. m \in 1..m /\ Last(st.segments) = s /\ Last(ts.segments) = t
    BY <1>1, <1>3 DEF Last
  <2>2. Alike(A, B, s, t, d) /\ s \in Segment(A) /\ t \in Segment(B)
    BY <1>1, <2>1 DEF AllAlike
  <2> HIDE DEF s, t, m
  <2>3. s.moofs \in Seq(BoxesOf(A, "moof")) /\ t.moofs \in Seq(BoxesOf(B, "moof"))
    BY <2>2 DEF Segment
  <2>4. (s.moofs = << >> <=> Len(s.moofs) = 0) /\ (t.moofs = << >> <=> Len(t.moofs) = 0)
    BY <2>3
  <2>5. s.moofs = << >> <=> t.moofs = << >>
    BY <2>2, <2>4 DEF Alike
  <2>6. IsPendingStyp(A, s) <=> IsPendingStyp(B, t)
    BY <2>2, <2>5 DEF IsPendingStyp, Alike
  <2> QED BY <2>1, <2>6
<1> QED BY <1>2, <1>3 DEF IsTaken

-----------------------------------------------------------------------------
(* What the loop takes for the sidx of the file is all that it names.      *)
LEMMA ExistingStep ==
  ASSUME NEW A, NEW n, IsFile(A, n), NEW g, GroupingSteps(A, n, g), NEW i \in 1..n
  PROVE  g[i].existing = IF IsTaken(A, g[i - 1], i) THEN Append(g[i - 1].existing, i)
                         ELSE g[i - 1].existing
<1> DEFINE st == g[i - 1]
<1>1. /\ st \in Grouped(A) /\ i \in DOMAIN A /\ g[i] = GroupBox(A, st, i)
      /\ A[i].size \in Int
  BY StatesAre
<1> HIDE DEF st
<1>2. CASE IsTaken(A, st, i)
  <2>1. g[i].existing = Append(st.existing, i)
    BY <1>1, <1>2, StepIs
  <2> QED BY <1>2, <2>1 DEF st
<1>3. CASE ~IsTaken(A, st, i)
  <2>1. CASE A[i].kind \notin MediaKinds
    <3>1. g[i] = st
      BY <1>1, <2>1, StepIs
    <3> QED BY <1>3, <3>1 DEF st
  <2>2. CASE Opens(A, st, i)
    <3>1. Pushes(st, g[i], Opened(A, i))
      BY <1>1, <2>2, StepIs
    <3> QED BY <1>3, <3>1 DEF Pushes, st
  <2>3. CASE A[i].kind \in MediaKinds /\ ~Opens(A, st, i)
    <3>1. IF st.segments = << >> THEN g[i].existing = st.existing
          ELSE ReplacesLast(st, g[i], Extended(A, st.segments[Len(st.segments)], i))
      BY <1>1, <1>3, <2>3, StepIs
    <3> QED BY <1>3, <3>1 DEF ReplacesLast, st
  <2> QED BY <2>1, <2>2, <2>3
<1> QED BY <1>2, <1>3

LEMMA OneIs ==
  ASSUME NEW S, NEW s \in Seq(S), Len(s) = 1, NEW i, s[1] = i
  PROVE  s = << i >>
OBVIOUS

TakesOnly(A, n, g) ==
  /\ \A i \in 1..n : IsTaken(A, g[i - 1], i) <=> g[n].existing = << i >>
  /\ \A i \in 0..n : g[i].existing = << >> \/ g[i].existing = g[n].existing
  /\ \A i \in 1..n : g[n].existing = << i >> =>
       /\ \A j \in 0..(i - 1) : g[j].existing = << >>
       /\ \A j \in i..n : g[j].existing = << i >>
  /\ g[n].existing = << >> \/ \E i \in 1..n : g[n].existing = << i >>

LEMMA TakenIs ==
  ASSUME NEW A, NEW n, IsFile(A, n), NEW g, GroupingSteps(A, n, g),
         Len(g[n].existing) <= 1
  PROVE  TakesOnly(A, n, g)
<1> DEFINE e == g[n].existing
           Named(i) == IF \E k \in 1..i : e = << k >> THEN e ELSE << >>
           Taken(i) == IsTaken(A, g[i - 1], i)
           T == { i \in 0..n : \/ g[i].existing = << >> /\ \A k \in 1..i : ~Taken(k)
                               \/ \E k \in 1..i : Taken(k) }
           U == { i \in 0..n : g[i].existing = Named(i) }
<1>0. n \in Nat /\ n \in 0..n
  BY DEF IsFile
<1>1. e \in Seq(BoxesOf(A, "sidx")) /\ Len(e) \in Nat /\ (e = << >> <=> Len(e) = 0)
  <2>1. e \in Seq(BoxesOf(A, "sidx"))
    BY <1>0 DEF GroupingSteps, Grouped
  <2> HIDE DEF e
  <2> QED BY <2>1
<1>2. ASSUME NEW i \in 1..n, Taken(i) PROVE e = << i >>
  <2>1. PICK c \in 1..Len(e) : e[c] = i
    BY <1>2, TakenStays
  <2>2. Len(e) <= 1
    OBVIOUS
  <2> HIDE DEF e
  <2>3. PICK m \in Nat : m = Len(e)
    BY <1>1
  <2>4. c \in 1..m /\ m <= 1
    BY <2>2, <2>3
  <2>5. m = 1 /\ c = 1
    BY <2>4
  <2>6. Len(e) = 1 /\ e[1] = i
    BY <2>1, <2>3, <2>5
  <2> QED BY <1>1, <2>6, OneIs
<1>3. g[0].existing = << >>
  BY DEF GroupingSteps
<1>4. 0..n \subseteq T
  <2>1. 0 \in T
    BY <1>0, <1>3
  <2>2. ASSUME NEW i \in 1..n, i - 1 \in T PROVE i \in T
    <3> HIDE DEF Taken
    <3>1. i - 1 \in 0..n /\ i \in 0..n /\ i \in 1..i /\ \A k \in 1..(i - 1) : k \in 1..i
      BY <1>0
    <3>2. \A k \in 1..i : k \in 1..(i - 1) \/ k = i
      OBVIOUS
    <3>3. ~Taken(i) => g[i].existing = g[i - 1].existing
      BY ExistingStep DEF Taken
    <3> QED BY <2>2, <3>1, <3>2, <3>3
  <2> HIDE DEF T
  <2> QED BY <1>0, <2>1, <2>2, BoundedInduction
<1>5. e # << >> => \E k \in 1..n : Taken(k) /\ e = << k >>
  <2>1. n \in T
    BY <1>0, <1>4
  <2> HIDE DEF e, Taken
  <2> QED BY <1>2, <2>1 DEF e
<1>6. \A i \in 1..n : Taken(i) <=> e = << i >>
  <2> HIDE DEF e, Taken
  <2>1. ASSUME NEW i \in 1..n, e = << i >> PROVE Taken(i)
    <3>1. e # << >>
      BY <2>1
    <3>2. PICK k \in 1..n : Taken(k) /\ e = << k >>
      BY <1>5, <3>1
    <3>3. k = i
      BY <2>1, <3>2
    <3> QED BY <3>2, <3>3
  <2> QED BY <1>2, <2>1
<1>7. 0..n \subseteq U
  <2>1. 0 \in U
    BY <1>0, <1>3
  <2>2. ASSUME NEW i \in 1..n, i - 1 \in U PROVE i \in U
    <3> HIDE DEF Taken, e
    <3>1. i - 1 \in 0..n /\ i \in 0..n /\ i \in 1..i /\ \A k \in 1..(i - 1) : k \in 1..i /\ k # i
      BY <1>0
    <3>2. \A k \in 1..i : k \in 1..(i - 1) \/ k = i
      OBVIOUS
    <3>3. g[i].existing = IF Taken(i) THEN Append(g[i - 1].existing, i) ELSE g[i - 1].existing
      BY ExistingStep DEF Taken
    <3>4. g[i - 1].existing = Named(i - 1)
      BY <2>2
    <3>5. CASE Taken(i)
      <4>1. e = << i >>
        BY <1>6, <3>5
      <4>2. \A k \in 1..(i - 1) : e # << k >>
        BY <3>1, <4>1
      <4>3. Named(i - 1) = << >> /\ Named(i) = << i >>
        BY <3>1, <4>1, <4>2
      <4>4. Append(<< >>, i) = << i >>
        OBVIOUS
      <4> QED BY <3>1, <3>3, <3>4, <3>5, <4>3, <4>4
    <3>6. CASE ~Taken(i)
      <4>1. e # << i >>
        BY <1>6, <3>6
      <4>2. Named(i) = Named(i - 1)
        BY <3>1, <3>2, <4>1
      <4> QED BY <3>1, <3>3, <3>4, <3>6, <4>2
    <3> QED BY <3>5, <3>6
  <2> HIDE DEF U
  <2> QED BY <1>0, <2>1, <2>2, BoundedInduction
<1>8. \A i \in 0..n : g[i].existing = Named(i)
  BY <1>7
<1> HIDE DEF Taken, e
<1>9. \A i \in 1..n : e = << i >> =>
        /\ \A j \in 0..(i - 1) : Named(j) = << >>
        /\ \A j \in i..n : Named(j) = << i >>
  <2> SUFFICES ASSUME NEW i \in 1..n, e = << i >>
               PROVE  /\ \A j \in 0..(i - 1) : Named(j) = << >>
                      /\ \A j \in i..n : Named(j) = << i >>
    OBVIOUS
  <2>1. \A k : e = << k >> => k = i
    OBVIOUS
  <2>2. \A j \in 0..(i - 1) : i \notin 1..j
    OBVIOUS
  <2>3. \A j \in i..n : i \in 1..j
    OBVIOUS
  <2> QED BY <2>1, <2>2, <2>3
<1>10. \A i \in 1..n : e = << i >> =>
         /\ \A j \in 0..(i - 1) : g[j].existing = << >>
         /\ \A j \in i..n : g[j].existing = << i >>
  <2> SUFFICES ASSUME NEW i \in 1..n, e = << i >>
               PROVE  /\ \A j \in 0..(i - 1) : g[j].existing = << >>
                      /\ \A j \in i..n : g[j].existing = << i >>
    OBVIOUS
  <2>1. (\A j \in 0..(i - 1) : j \in 0..n) /\ (\A j \in i..n : j \in 0..n)
    BY <1>0
  <2> HIDE DEF Named
  <2> QED BY <1>8, <1>9, <2>1
<1>11. \A i \in 0..n : g[i].existing = << >> \/ g[i].existing = e
  BY <1>8
<1>12. e = << >> \/ \E i \in 1..n : e = << i >>
  BY <1>5
<1> QED BY <1>6, <1>10, <1>11, <1>12 DEF TakesOnly, Taken, e

(* Segments that are there when nothing more is taken stay to the end, and *)
(* those that come begin at boxes that come.                               *)
LEMMA FirstsSettle ==
  ASSUME NEW A, NEW n, IsFile(A, n), NEW g, GroupingSteps(A, n, g), NEW i \in 0..n,
         \A j \in (i + 1)..n : ~IsTaken(A, g[j - 1], j)
  PROVE  /\ Len(g[i].segments) <= Len(g[n].segments)
         /\ \A k \in 1..Len(g[n].segments) :
              IF k <= Len(g[i].segments)
                THEN g[n].segments[k].first = g[i].segments[k].first
                ELSE g[n].segments[k].first > i
<1> DEFINE m == Len(g[i].segments)
           Settled(st) ==
             /\ m <= Len(st.segments)
             /\ \A k \in 1..Len(st.segments) :
                  IF k <= m THEN st.segments[k].first = g[i].segments[k].first
                  ELSE st.segments[k].first > i
           T == { j \in 0..n : j >= i => Settled(g[j]) }
<1>0. n \in Nat /\ n \in 0..n /\ i \in Nat
  BY DEF IsFile
<1>1. m \in Nat
  <2>1. g[i] \in Grouped(A)
    BY DEF GroupingSteps
  <2> QED BY <2>1, SegmentsAre
<1>2. Settled(g[i])
  BY <1>1
<1> HIDE DEF m
<1>3. 0 \in T
  BY <1>0, <1>2
<1>4. ASSUME NEW j \in 1..n, j - 1 \in T PROVE j \in T
  <2> DEFINE st == g[j - 1]
             next == g[j]
  <2>1. /\ st \in Grouped(A) /\ j \in DOMAIN A /\ next = GroupBox(A, st, j)
        /\ A[j].size \in Int /\ j \in 0..n /\ j - 1 \in 0..n
    BY StatesAre
  <2> SUFFICES ASSUME j >= i PROVE Settled(next)
    BY <2>1
  <2>2. CASE j = i
    BY <1>2, <2>2
  <2>3. CASE j # i
    <3>1. j \in (i + 1)..n /\ j - 1 >= i /\ j > i
      BY <1>0, <2>3
    <3>2. Settled(st)
      BY <1>4, <3>1
    <3>3. ~IsTaken(A, st, j)
      BY <3>1
    <3> HIDE DEF st, next
    <3>4. /\ Len(st.segments) \in Nat /\ Len(next.segments) \in Nat
          /\ \A k \in 1..Len(next.segments) :
               \/ k \in 1..Len(st.segments) /\ next.segments[k].first = st.segments[k].first
               \/ k = Len(st.segments) + 1 /\ next.segments[k].first = j
      BY <2>1, FirstsStay, SegmentsAre
    <3>5. Len(st.segments) <= Len(next.segments)
      <4>1. CASE A[j].kind \notin MediaKinds
        <5>1. next = st
          BY <2>1, <4>1, StepIs
        <5> QED BY <3>4, <5>1
      <4>2. CASE Opens(A, st, j)
        <5>1. Pushes(st, next, Opened(A, j))
          BY <2>1, <4>2, StepIs
        <5> QED BY <3>4, <5>1 DEF Pushes
      <4>3. CASE A[j].kind \in MediaKinds /\ ~Opens(A, st, j)
        <5>1. IF st.segments = << >> THEN next.segments = << >>
              ELSE ReplacesLast(st, next, Extended(A, st.segments[Len(st.segments)], j))
          BY <2>1, <3>3, <4>3, StepIs
        <5> QED BY <3>4, <5>1 DEF ReplacesLast
      <4> QED BY <4>1, <4>2, <4>3
    <3>6. \A k \in 1..Len(next.segments) :
            IF k <= m THEN next.segments[k].first = g[i].segments[k].first
            ELSE next.segments[k].first > i
      <4> SUFFICES ASSUME NEW k \in 1..Len(next.segments)
                   PROVE  IF k <= m THEN next.segments[k].first = g[i].segments[k].first
                          ELSE next.segments[k].first > i
        OBVIOUS
      <4>1. CASE k \in 1..Len(st.segments) /\ next.segments[k].first = st.segments[k].first
        BY <3>2, <4>1
      <4>2. CASE k = Len(st.segments) + 1 /\ next.segments[k].first = j
        <5>1. ~(k <= m)
          BY <1>1, <3>2, <3>4, <4>2
        <5> QED BY <3>1, <4>2, <5>1
      <4> QED BY <3>4, <4>1, <4>2
    <3>7. m <= Len(next.segments)
      BY <1>1, <3>2, <3>4, <3>5
    <3> QED BY <3>6, <3>7
  <2> QED BY <2>2, <2>3
<1> HIDE DEF T
<1>5. 0..n \subseteq T
  BY <1>0, <1>3, <1>4, BoundedInduction
<1>6. n \in T /\ n >= i
  BY <1>0, <1>5
<1>7. Settled(g[n])
  BY <1>6 DEF T
<1> QED BY <1>7 DEF m

-----------------------------------------------------------------------------
(* A file, and what a plan made of it: from w on all is d places behind,   *)
(* and the sidx at w says where the segments begin.                        *)
Again(A, n, g, B, h, w, d) ==
  /\ IsFile(A, n) /\ GroupingSteps(A, n, g) /\ PlanError(A) = "None"
  /\ d \in 0..1 /\ IsFile(B, n + d) /\ GroupingSteps(B, n + d, h)
  /\ w \in 1..n /\ B[w].kind = "sidx" /\ PreviousKind(B, w) # "mdat"
  /\ d = 0 => g[n].existing = << w >>
  /\ d = 1 => g[n].existing = << >> /\ w = g[n].segments[1].first
  /\ \A i \in 1..(w - 1) : BoxAlike(A, B, i, 0)
  /\ \A i \in (w - d + 1)..n : BoxAlike(A, B, i, d)
  /\ DOMAIN B[w].entries = 1..Len(g[n].segments)
  /\ \A k \in 1..Len(g[n].segments) :
       SegmentStarts(B[w])[k] = B[g[n].segments[k].first + d].offset

LEMMA OnlySidx ==
  ASSUME NEW A, NEW n, NEW g, NEW B, NEW h, NEW w, NEW d, Again(A, n, g, B, h, w, d)
  PROVE  /\ \A i \in 1..n : IsTaken(A, g[i - 1], i) <=> d = 0 /\ i = w
         /\ \A i \in 0..(w - 1) : g[i].existing = << >>
         /\ d = 0 => A[w].kind = "sidx"
<1>1. /\ IsFile(A, n) /\ GroupingSteps(A, n, g) /\ PlanError(A) = "None"
      /\ n \in Nat /\ w \in 1..n /\ d \in 0..1
      /\ g[n].existing = IF d = 0 THEN << w >> ELSE << >>
  <2>1. /\ IsFile(A, n) /\ GroupingSteps(A, n, g) /\ PlanError(A) = "None"
        /\ w \in 1..n /\ d \in 0..1
        /\ d = 0 => g[n].existing = << w >>
        /\ d = 1 => g[n].existing = << >>
    BY DEF Again
  <2>2. n \in Nat
    BY <2>1 DEF IsFile
  <2> QED BY <2>1, <2>2
<1>2. Len(g[n].existing) <= 1
  BY <1>1, AnalysisIs
<1>3. TakesOnly(A, n, g)
  BY <1>1, <1>2, TakenIs
<1>4. \A i \in 1..n : IsTaken(A, g[i - 1], i) <=> d = 0 /\ i = w
  <2> SUFFICES ASSUME NEW i \in 1..n
               PROVE  IsTaken(A, g[i - 1], i) <=> d = 0 /\ i = w
    OBVIOUS
  <2>1. IsTaken(A, g[i - 1], i) <=> g[n].existing = << i >>
    BY <1>3 DEF TakesOnly
  <2>2. << w >> = << i >> <=> i = w
    OBVIOUS
  <2>3. << >> # << i >>
    OBVIOUS
  <2> QED BY <1>1, <2>1, <2>2, <2>3
<1>5. \A i \in 0..(w - 1) : g[i].existing = << >>
  <2>1. CASE d = 0
    BY <1>1, <1>3, <2>1 DEF TakesOnly
  <2>2. CASE d # 0
    <3>1. \A i \in 0..(w - 1) : i \in 0..n
      BY <1>1
    <3> QED BY <1>1, <1>3, <2>2, <3>1 DEF TakesOnly
  <2> QED BY <2>1, <2>2
<1>6. d = 0 => A[w].kind = "sidx"
  <2> SUFFICES ASSUME d = 0 PROVE A[w].kind = "sidx"
    OBVIOUS
  <2>1. IsTaken(A, g[w - 1], w)
    BY <1>1, <1>4
  <2> QED BY <2>1 DEF IsTaken
<1> QED BY <1>4, <1>5, <1>6

LEMMA FrontAlike ==
  ASSUME NEW A, NEW n, NEW g, NEW B, NEW h, NEW w, NEW d, Again(A, n, g, B, h, w, d)
  PROVE  \A i \in 0..(w - 1) : AllAlike(A, B, g[i], h[i], 0) /\ h[i].existing = << >>
<1> DEFINE T == { i \in 0..(w - 1) : AllAlike(A, B, g[i], h[i], 0) /\ h[i].existing = << >> }
<1>0. /\ IsFile(A, n) /\ GroupingSteps(A, n, g) /\ IsFile(B, n + d)
      /\ GroupingSteps(B, n + d, h) /\ n \in Nat /\ w \in 1..n /\ d \in 0..1
      /\ \A i \in 1..(w - 1) : BoxAlike(A, B, i, 0)
  BY DEF Again, IsFile
<1>1. 0 \in T
  <2>1. /\ g[0].segments = << >> /\ h[0].segments = << >> /\ h[0].existing = << >>
        /\ Len(<< >>) = 0
    BY <1>0 DEF GroupingSteps
  <2> QED BY <1>0, <2>1 DEF AllAlike
<1>2. ASSUME NEW i \in 1..(w - 1), i - 1 \in T PROVE i \in T
  <2> DEFINE st == g[i - 1]
             ts == h[i - 1]
  <2>1. i \in 1..n /\ i \in 1..(n + d) /\ i \in Int /\ i + 0 = i /\ i - 1 \in 0..(w - 1)
    BY <1>0
  <2>2. /\ st \in Grouped(A) /\ i \in DOMAIN A /\ g[i] = GroupBox(A, st, i)
        /\ A[i].size \in Int
    BY <1>0, <2>1, StatesAre
  <2>3. /\ ts \in Grouped(B) /\ i \in DOMAIN B /\ h[i] = GroupBox(B, ts, i)
        /\ B[i].size \in Int
    BY <1>0, <2>1, StatesAre
  <2>4. AllAlike(A, B, st, ts, 0) /\ ts.existing = << >> /\ st.existing = << >>
    BY <1>2, <2>1, OnlySidx
  <2>5. ~IsTaken(A, st, i)
    BY <1>0, <2>1, OnlySidx
  <2>6. BoxAlike(A, B, i, 0) /\ B[i].kind = A[i].kind
    BY <1>0, <2>1 DEF BoxAlike
  <2>7. PreviousKind(B, i) = PreviousKind(A, i)
    <3>1. CASE i = 1
      BY <3>1 DEF PreviousKind
    <3>2. CASE i # 1
      <4>1. i - 1 \in 1..(w - 1) /\ (i - 1) + 0 = i - 1
        BY <1>0, <3>2
      <4>2. B[i - 1].kind = A[i - 1].kind
        BY <1>0, <4>1 DEF BoxAlike
      <4> QED BY <4>2 DEF PreviousKind
    <3> QED BY <3>1, <3>2
  <2> HIDE DEF st, ts
  <2>8. ~IsTaken(B, ts, i)
    BY <2>2, <2>3, <2>4, <2>5, <2>6, <2>7, TakenAlike
  <2>9. Len(st.segments) = Len(ts.segments)
    BY <2>4 DEF AllAlike
  <2>10. ShouldStart(A, st, A[i].offset) <=> ShouldStart(B, ts, B[i].offset)
    BY <2>4, <2>9, ShouldStartIs
  <2>11. Opens(A, st, i) <=> Opens(B, ts, i)
    BY <2>6, <2>7, <2>10 DEF Opens
  <2>12. /\ AllAlike(A, B, GroupBox(A, st, i), GroupBox(B, ts, i + 0), 0)
         /\ GroupBox(B, ts, i + 0).existing = ts.existing
    BY <2>1, <2>2, <2>3, <2>4, <2>5, <2>6, <2>8, <2>11, StepAlike
  <2> QED BY <2>1, <2>2, <2>3, <2>4, <2>12
<1> HIDE DEF T
<1>3. w - 1 \in Nat
  BY <1>0
<1>4. 0..(w - 1) \subseteq T
  BY <1>1, <1>2, <1>3, BoundedInduction
<1> QED BY <1>4 DEF T

(* At the sidx that is now taken for that of the file.                     *)
LEMMA SidxAlike ==
  ASSUME NEW A, NEW n, NEW g, NEW B, NEW h, NEW w, NEW d, Again(A, n, g, B, h, w, d)
  PROVE  AllAlike(A, B, g[w - d], h[w], d) /\ h[w].existing = << w >>
<1>0. /\ IsFile(A, n) /\ GroupingSteps(A, n, g) /\ IsFile(B, n + d)
      /\ GroupingSteps(B, n + d, h) /\ n \in Nat /\ w \in 1..n /\ d \in 0..1
      /\ B[w].kind = "sidx" /\ PreviousKind(B, w) # "mdat"
      /\ w \in 1..(n + d) /\ w - 1 \in 0..(w - 1)
  BY DEF Again, IsFile
<1> DEFINE st == g[w - 1]
           ts == h[w - 1]
<1>1. AllAlike(A, B, st, ts, 0) /\ ts.existing = << >>
  BY <1>0, FrontAlike
<1>2. st \in Grouped(A) /\ w \in DOMAIN A /\ g[w] = GroupBox(A, st, w) /\ A[w].size \in Int
  BY <1>0, StatesAre
<1>3. ts \in Grouped(B) /\ w \in DOMAIN B /\ h[w] = GroupBox(B, ts, w) /\ B[w].size \in Int
  BY <1>0, StatesAre
<1>4. /\ Len(st.segments) \in Nat /\ Len(ts.segments) = Len(st.segments)
      /\ (st.segments = << >> <=> Len(st.segments) = 0)
      /\ (ts.segments = << >> <=> Len(st.segments) = 0)
  <2>1. st.segments \in Seq(Segment(A)) /\ ts.segments \in Seq(Segment(B))
    BY <1>2, <1>3, SegmentsAre
  <2>2. Len(ts.segments) = Len(st.segments)
    BY <1>1 DEF AllAlike
  <2>3. Len(st.segments) \in Nat /\ (st.segments = << >> <=> Len(st.segments) = 0)
    BY <2>1
  <2>4. ts.segments = << >> <=> Len(ts.segments) = 0
    BY <2>1
  <2> QED BY <2>2, <2>3, <2>4
<1>5. Append(<< >>, w) = << w >> /\ Len(<< >>) = 0
  OBVIOUS
<1>6. CASE d = 0
  <2>1. IsTaken(A, st, w) /\ A[w].kind = "sidx"
    BY <1>0, <1>6, OnlySidx
  <2>2. PreviousKind(B, w) = PreviousKind(A, w)
    <3>1. CASE w = 1
      BY <3>1 DEF PreviousKind
    <3>2. CASE w # 1
      <4>1. w - 1 \in 1..(w - 1) /\ (w - 1) + 0 = w - 1
        BY <1>0, <3>2
      <4>2. B[w - 1].kind = A[w - 1].kind
        BY <4>1 DEF BoxAlike, Again
      <4> QED BY <4>2 DEF PreviousKind
    <3> QED BY <3>1, <3>2
  <2> HIDE DEF st, ts
  <2>3. IsTaken(B, ts, w)
    BY <1>0, <1>1, <1>2, <1>3, <2>1, <2>2, TakenAlike
  <2>4. /\ h[w].existing = Append(ts.existing, w)
        /\ h[w].segments = IF ts.segments = << >> THEN << >> ELSE Front(ts.segments)
        /\ g[w].segments = IF st.segments = << >> THEN << >> ELSE Front(st.segments)
    BY <1>2, <1>3, <2>1, <2>3, StepIs
  <2>5. AllAlike(A, B, g[w], h[w], 0)
    <3>1. CASE st.segments = << >>
      BY <1>4, <1>5, <2>4, <3>1 DEF AllAlike
    <3>2. CASE st.segments # << >>
      <4> DEFINE m == Len(st.segments)
      <4>1. /\ Len(g[w].segments) = m - 1 /\ Len(h[w].segments) = m - 1
            /\ \A k \in 1..(m - 1) : /\ g[w].segments[k] = st.segments[k]
                                     /\ h[w].segments[k] = ts.segments[k]
        BY <1>2, <1>3, <1>4, <2>4, <3>2, FrontOf
      <4>2. \A k \in 1..(m - 1) : k \in 1..m
        BY <1>4
      <4> QED BY <1>1, <4>1, <4>2 DEF AllAlike
    <3> QED BY <3>1, <3>2
  <2> QED BY <1>0, <1>1, <1>5, <1>6, <2>4, <2>5
<1>7. CASE d = 1
  <2>1. w = g[n].segments[1].first /\ PlanError(A) = "None"
    BY <1>7 DEF Again
  <2>2. g[n].segments # << >>
    BY <1>0, <2>1, AnalysisIs
  <2>3. st.segments = << >>
    BY <1>0, <2>1, <2>2, FirstSegment
  <2> HIDE DEF st, ts
  <2>4. ts.segments = << >>
    BY <1>4, <2>3
  <2>5. IsTaken(B, ts, w)
    BY <1>0, <2>4 DEF IsTaken
  <2>6. h[w].existing = Append(ts.existing, w) /\ h[w].segments = << >>
    BY <1>3, <2>4, <2>5, StepIs
  <2>7. AllAlike(A, B, st, h[w], 1)
    BY <1>5, <2>3, <2>6 DEF AllAlike
  <2> QED BY <1>1, <1>5, <1>7, <2>6, <2>7 DEF st
<1> QED BY <1>0, <1>6, <1>7

(* A fragment opens a segment of the one file where it does of the other.  *)
LEMMA StartsAlike ==
  ASSUME NEW A, NEW n, NEW g, NEW B, NEW h, NEW w, NEW d, Again(A, n, g, B, h, w, d),
         NEW i \in (w - d + 1)..n, A[i].kind \in {"emsg", "moof"},
         NEW ts, ts.existing = << w >>, Len(ts.segments) = Len(g[i - 1].segments)
  PROVE  ShouldStart(A, g[i - 1], A[i].offset) <=> ShouldStart(B, ts, B[i + d].offset)
<1> DEFINE st == g[i - 1]
           c == Len(st.segments)
           end == g[n].segments
<1>0. /\ IsFile(A, n) /\ GroupingSteps(A, n, g) /\ IsFile(B, n + d)
      /\ n \in Nat /\ w \in 1..n /\ d \in 0..1 /\ i \in 1..n
  BY DEF Again, IsFile
<1>1. st \in Grouped(A) /\ i \in DOMAIN A /\ g[i] = GroupBox(A, st, i) /\ A[i].size \in Int
      /\ i \in 0..n /\ n \in 0..n
  BY <1>0, StatesAre
<1>2. g[n] \in Grouped(A)
  BY <1>0, <1>1 DEF GroupingSteps
<1>3. c \in Nat /\ Len(end) \in Nat /\ \A k \in 1..Len(end) : end[k].first \in 1..n
  <2>1. c \in Nat /\ Len(end) \in Nat
    BY <1>1, <1>2, SegmentsAre
  <2>2. FirstsMet(g[n], n)
    BY <1>0, <1>1, FirstsAreMet
  <2> QED BY <2>1, <2>2 DEF FirstsMet
<1>4. /\ Len(g[i].segments) <= Len(end)
      /\ \A k \in 1..Len(end) : IF k <= Len(g[i].segments)
                                  THEN end[k].first = g[i].segments[k].first
                                  ELSE end[k].first > i
  <2>1. \A j \in (i + 1)..n : ~IsTaken(A, g[j - 1], j)
    <3>1. \A j \in (i + 1)..n : j \in 1..n /\ (d = 0 => j # w)
      BY <1>0
    <3> QED BY <3>1, OnlySidx
  <2> QED BY <1>0, <1>1, <2>1, FirstsSettle
<1>5. ShouldStart(B, ts, B[i + d].offset) <=> c + 1 \in 1..Len(end) /\ end[c + 1].first = i
  <2>1. ShouldStart(B, ts, B[i + d].offset) <=>
          c + 1 \in DOMAIN B[w].entries /\ SegmentStarts(B[w])[c + 1] = B[i + d].offset
    BY ShouldStartIs
  <2>2. DOMAIN B[w].entries = 1..Len(end)
        /\ \A k \in 1..Len(end) : SegmentStarts(B[w])[k] = B[end[k].first + d].offset
    BY DEF Again
  <2> HIDE DEF c, end
  <2>3. \A k \in 1..n : k + d \in 1..(n + d)
    BY <1>0
  <2>4. \A j, k \in 1..(n + d) : j < k => At(B, n + d, j) < At(B, n + d, k)
    <3>1. \A j, k \in 1..((n + d) + 1) : j < k => At(B, n + d, j) < At(B, n + d, k)
      BY <1>0, AtIs
    <3>2. \A j \in 1..(n + d) : j \in 1..((n + d) + 1)
      BY <1>0
    <3> QED BY <3>1, <3>2
  <2>5. \A k \in 1..(n + d) : At(B, n + d, k) = B[k].offset /\ At(B, n + d, k) \in Int
    BY <1>0, AtIs
  <2>6. ASSUME NEW j \in 1..n, NEW k \in 1..n, B[j + d].offset = B[k + d].offset
        PROVE  j = k
    <3>1. At(B, n + d, j + d) = At(B, n + d, k + d) /\ At(B, n + d, k + d) \in Int
      BY <2>3, <2>5, <2>6
    <3>2. ~(j + d < k + d) /\ ~(k + d < j + d)
      BY <2>3, <2>4, <3>1
    <3> QED BY <1>0, <3>2
  <2> QED BY <1>0, <1>3, <2>1, <2>2, <2>6
<1>6. ShouldStart(A, st, A[i].offset) => c + 1 \in 1..Len(end) /\ end[c + 1].first = i
  <2> SUFFICES ASSUME ShouldStart(A, st, A[i].offset)
               PROVE  c + 1 \in 1..Len(end) /\ end[c + 1].first = i
    OBVIOUS
  <2>1. Opens(A, st, i)
    BY DEF Opens
  <2> HIDE DEF st
  <2>2. Pushes(st, g[i], Opened(A, i))
    BY <1>1, <2>1, StepIs
  <2>3. Opened(A, i).first = i
    BY DEF Opened, Extended, Fresh
  <2>4. Len(g[i].segments) = c + 1 /\ g[i].segments[c + 1].first = i
    BY <2>2, <2>3 DEF Pushes
  <2> HIDE DEF c, end
  <2> QED BY <1>3, <1>4, <2>4
<1>7. c + 1 \in 1..Len(end) /\ end[c + 1].first = i => ShouldStart(A, st, A[i].offset)
  <2> SUFFICES ASSUME c + 1 \in 1..Len(end), end[c + 1].first = i,
                      ~ShouldStart(A, st, A[i].offset)
               PROVE  FALSE
    OBVIOUS
  <2>1. ~Opens(A, st, i) /\ ~IsTaken(A, st, i) /\ A[i].kind \in MediaKinds
    BY DEF Opens, IsTaken, MediaKinds
  <2> HIDE DEF st
  <2>2. IF st.segments = << >> THEN g[i].segments = << >>
        ELSE ReplacesLast(st, g[i], Extended(A, st.segments[Len(st.segments)], i))
    BY <1>1, <2>1, StepIs
  <2>3. Len(g[i].segments) = c
    BY <2>2 DEF ReplacesLast
  <2> HIDE DEF c, end
  <2> QED BY <1>3, <1>4, <2>3, <1>0
<1> QED BY <1>5, <1>6, <1>7

LEMMA BehindAlike ==
  ASSUME NEW A, NEW n, NEW g, NEW B, NEW h, NEW w, NEW d, Again(A, n, g, B, h, w, d)
  PROVE  \A i \in (w - d)..n : AllAlike(A, B, g[i], h[i + d], d) /\ h[i + d].existing = << w >>
<1> DEFINE Now(i) == AllAlike(A, B, g[i], h[i + d], d) /\ h[i + d].existing = << w >>
           T == { i \in 0..n : i >= w - d => Now(i) }
<1>0. /\ IsFile(A, n) /\ GroupingSteps(A, n, g) /\ IsFile(B, n + d)
      /\ GroupingSteps(B, n + d, h) /\ n \in Nat /\ w \in 1..n /\ d \in 0..1
      /\ B[w].kind = "sidx" /\ PreviousKind(B, w) # "mdat" /\ PlanError(A) = "None"
      /\ \A i \in (w - d + 1)..n : BoxAlike(A, B, i, d)
  BY DEF Again, IsFile
<1>1. Now(w - d)
  <2>1. (w - d) + d = w
    BY <1>0
  <2> QED BY <2>1, SidxAlike
<1>2. 0 \in T
  <2>1. 0 >= w - d => w - d = 0
    BY <1>0
  <2> QED BY <1>0, <1>1, <2>1
<1>3. ASSUME NEW i \in 1..n, i - 1 \in T PROVE i \in T
  <2>0. i \in 0..n /\ i \in Int
    OBVIOUS
  <2> SUFFICES ASSUME i >= w - d PROVE Now(i)
    BY <2>0
  <2>1. CASE i = w - d
    BY <1>1, <2>1
  <2>2. CASE i # w - d
    <3> DEFINE st == g[i - 1]
               ts == h[(i - 1) + d]
               j == i + d
    <3>1. /\ i \in (w - d + 1)..n /\ i - 1 >= w - d /\ j \in 1..(n + d) /\ d \in Int
          /\ (i - 1) + d = j - 1
      BY <1>0, <2>2
    <3>2. AllAlike(A, B, st, ts, d) /\ ts.existing = << w >>
      BY <1>3, <3>1
    <3>3. /\ st \in Grouped(A) /\ i \in DOMAIN A /\ g[i] = GroupBox(A, st, i)
          /\ A[i].size \in Int
      BY <1>0, StatesAre
    <3>4. /\ ts \in Grouped(B) /\ j \in DOMAIN B /\ h[j] = GroupBox(B, ts, j)
          /\ B[j].size \in Int
      BY <1>0, <3>1, StatesAre
    <3>5. ~IsTaken(A, st, i)
      <4>1. ~(d = 0 /\ i = w)
        BY <1>0, <3>1
      <4> QED BY <4>1, OnlySidx
    <3>6. BoxAlike(A, B, i, d) /\ B[j].kind = A[i].kind
      BY <1>0, <3>1 DEF BoxAlike
    <3>7. ASSUME A[i].kind = "sidx" PROVE PreviousKind(B, j) = PreviousKind(A, i)
      <4>1. CASE i - 1 \in (w - d + 1)..n
        <5>1. B[(i - 1) + d].kind = A[i - 1].kind /\ i # 1 /\ j # 1
          BY <1>0, <4>1 DEF BoxAlike
        <5> QED BY <3>1, <5>1 DEF PreviousKind
      <4>2. CASE i - 1 \notin (w - d + 1)..n /\ d = 0
        <5>1. i - 1 = w /\ j - 1 = w /\ i # 1 /\ j # 1
          BY <1>0, <3>1, <4>2
        <5>2. A[w].kind = "sidx"
          BY <4>2, OnlySidx
        <5> QED BY <1>0, <5>1, <5>2 DEF PreviousKind
      <4>3. CASE i - 1 \notin (w - d + 1)..n /\ d = 1
        <5>1. i = w
          BY <1>0, <3>1, <4>3
        <5>2. w = g[n].segments[1].first
          BY <4>3 DEF Again
        <5>3. g[n].segments # << >>
          BY <1>0, AnalysisIs
        <5>4. Opens(A, g[w - 1], w)
          BY <1>0, <5>2, <5>3, FirstSegment
        <5>5. PreviousKind(A, w) = "mdat"
          BY <3>7, <5>1, <5>4 DEF Opens
        <5>6. w # 1 /\ A[w - 1].kind = "mdat"
          BY <5>5 DEF PreviousKind
        <5>7. w - 1 \in 1..(w - 1) /\ (w - 1) + 0 = w - 1
          BY <1>0, <5>6
        <5>8. B[w - 1].kind = "mdat"
          BY <5>6, <5>7 DEF Again, BoxAlike
        <5> QED BY <1>0, <5>6, <5>8 DEF PreviousKind
      <4> QED BY <1>0, <4>1, <4>2, <4>3
    <3>8. Len(ts.segments) = Len(st.segments)
      BY <3>2 DEF AllAlike
    <3>9. A[i].kind \in {"emsg", "moof"} =>
            (ShouldStart(A, st, A[i].offset) <=> ShouldStart(B, ts, B[j].offset))
      BY <3>1, <3>2, <3>8, StartsAlike
    <3> HIDE DEF st, ts
    <3>10. ~IsTaken(B, ts, j)
      <4> HIDE DEF j
      <4> QED BY <3>2, <3>3, <3>4, <3>5, <3>6, <3>7, TakenAlike
    <3>11. Opens(A, st, i) <=> Opens(B, ts, j)
      BY <3>6, <3>7, <3>9 DEF Opens
    <3>12. AllAlike(A, B, g[i], h[j], d) /\ h[j].existing = ts.existing
      BY <2>0, <3>1, <3>2, <3>3, <3>4, <3>5, <3>6, <3>10, <3>11, StepAlike
    <3> QED BY <3>2, <3>12
  <2> QED BY <2>1, <2>2
<1> HIDE DEF T
<1>4. 0..n \subseteq T
  BY <1>0, <1>2, <1>3, BoundedInduction
<1> SUFFICES ASSUME NEW i \in (w - d)..n PROVE Now(i)
  OBVIOUS
<1>5. i \in 0..n /\ i >= w - d
  BY <1>0
<1> HIDE DEF Now
<1> QED BY <1>4, <1>5 DEF T

-----------------------------------------------------------------------------
(* What a plan made of a file is a file again.                             *)
SidxFields(A, n) == \A i \in 1..n : A[i].kind = "sidx" => "first_offset" \in DOMAIN A[i]

PlacesOn(p) == IF p.replaced = None THEN 1 ELSE 0

LEMMA PlanMoves ==
  ASSUME NEW A, NEW n, NEW g, NEW track, NEW p, Planned(A, n, g, track, p)
  PROVE  /\ Moves(A, n, g[n].segments[1].first, Applied(A, p), PlacesOn(p),
                  RewrittenSidx(A, p).size - RemovedSize(A, p))
         /\ Applied(A, p)[NewAt(p)].offset = WriteOffset(A, p)
         /\ n + PlacesOn(p) = CountWith(n, p)
<1>1. CASE p.replaced = None
  BY <1>1, InsertedMoves DEF PlacesOn, CountWith
<1>2. CASE p.replaced # None
  <2>1. n \in Nat
    BY DEF Planned, IsFile
  <2> QED BY <1>2, <2>1, ReplacedMoves DEF PlacesOn, CountWith
<1> QED BY <1>1, <1>2

(* A box but the new one is what it was, but for its offset.               *)
LEMMA KeptBox ==
  ASSUME NEW A, NEW n, NEW g, NEW track, NEW p, Planned(A, n, g, track, p),
         NEW i \in 1..n, i # p.replaced
  PROVE  /\ To(p, i) \in DOMAIN Applied(A, p)
         /\ SameBut(A[i], Applied(A, p)[To(p, i)])
         /\ DOMAIN Applied(A, p)[To(p, i)] = DOMAIN A[i]
         /\ \A field \in DOMAIN A[i] :
              field # "offset" => Applied(A, p)[To(p, i)][field] = A[i][field]
<1> DEFINE W == WithNew(A, p)
<1>1. n \in Nat /\ IsRow(A, n) /\ LaidSizes(A) /\ PlanFits(p, A)
  BY DEF Planned, IsFile
<1>2. /\ DOMAIN W = 1..CountWith(n, p) /\ W[To(p, i)] = A[i]
      /\ SameBut(A[i], Applied(A, p)[To(p, i)])
  <2>1. DOMAIN W = 1..CountWith(n, p) /\ W[To(p, i)] = A[i]
    BY <1>1, WithNewIs
  <2>2. SameBut(A[i], Applied(A, p)[To(p, i)])
    BY <1>1, AppliedIs
  <2> QED BY <2>1, <2>2
<1>3. Applied(A, p) = Relaid(W)
  BY DEF Applied, WithNew
<1>4. To(p, i) \in DOMAIN W
  BY <1>1, <1>2 DEF To, CountWith
<1>5. DOMAIN Relaid(W) = DOMAIN W
  BY DEF Relaid
<1> HIDE DEF W
<1>6. /\ DOMAIN Relaid(W)[To(p, i)] = DOMAIN W[To(p, i)]
      /\ \A field \in DOMAIN W[To(p, i)] :
           field # "offset" => Relaid(W)[To(p, i)][field] = W[To(p, i)][field]
  BY <1>4, RelaidKeeps
<1> QED BY <1>2, <1>3, <1>4, <1>5, <1>6

(* Each box is the new one or one of these.                                *)
LEMMA FromWhere ==
  ASSUME NEW A, NEW n, NEW g, NEW track, NEW p, Planned(A, n, g, track, p),
         NEW k \in 1..(n + PlacesOn(p)), k # NewAt(p)
  PROVE  \E i \in 1..n : i # p.replaced /\ To(p, i) = k
<1>1. n \in Nat /\ NewAt(p) \in 1..n
  BY InFrontOfMedia DEF Planned, IsFile, NewAt
<1>2. CASE p.replaced = None
  <2>1. p.insertion_box = NewAt(p) /\ PlacesOn(p) = 1
    BY <1>2 DEF NewAt, PlacesOn
  <2>2. CASE k < NewAt(p)
    <3>1. k \in 1..n /\ To(p, k) = k /\ k # p.replaced
      BY <1>1, <1>2, <2>1, <2>2, NoneAssumption DEF To
    <3> QED BY <3>1
  <2>3. CASE ~(k < NewAt(p))
    <3>1. k - 1 \in 1..n /\ To(p, k - 1) = k /\ k - 1 # p.replaced
      BY <1>1, <1>2, <2>1, <2>3, NoneAssumption DEF To
    <3> QED BY <3>1
  <2> QED BY <2>2, <2>3
<1>3. CASE p.replaced # None
  BY <1>1, <1>3 DEF NewAt, PlacesOn, To
<1> QED BY <1>2, <1>3

LEMMA FileAgain ==
  ASSUME NEW A, NEW n, NEW g, NEW track, NEW p, Planned(A, n, g, track, p), SidxFields(A, n),
         NEW last, MediaFrom(A, n, g[n].segments[1].first, last)
  PROVE  IsFile(Applied(A, p), n + PlacesOn(p))
<1> DEFINE B == Applied(A, p)
           m == n + PlacesOn(p)
           w == NewAt(p)
           F == g[n].segments[1].first
           delta == RewrittenSidx(A, p).size - RemovedSize(A, p)
           new == RewrittenSidx(A, p)
           segments == g[n].segments
<1>1. /\ n \in Nat \ {0} /\ IsRow(A, n) /\ LaidSizes(A) /\ PlanFits(p, A) /\ IsFile(A, n)
      /\ PlacesOn(p) \in 0..1
  BY DEF Planned, IsFile, PlacesOn
<1>2. Moves(A, n, F, B, PlacesOn(p), delta) /\ m = CountWith(n, p)
  BY PlanMoves
<1>3. /\ m \in Nat \ {0} /\ DOMAIN B = 1..m /\ IsLaid(B)
      /\ \A j \in 1..m : B[j].offset \in Int /\ B[j].size \in Int /\ B[j].size > 0
  BY <1>1, <1>2 DEF Moves
<1>4. IsRow(B, m)
  <2>1. B = [j \in 1..m |-> B[j]]
    <3>1. DOMAIN Applied(A, p) = 1..(n + PlacesOn(p))
      BY <1>3
    <3> QED BY <1>1, <3>1, AppliedRow
  <2> QED BY <1>3, <2>1 DEF IsRow
<1>5. \A j \in 1..m : HasFields(B[j])
  <2> DEFINE W == WithNew(A, p)
  <2>1. DOMAIN W = 1..CountWith(n, p) /\ LaidSizes(W) /\ CountWith(n, p) \in Nat
    BY <1>1, WithNewIs
  <2>2. B = Relaid(W)
    BY DEF Applied, WithNew
  <2> HIDE DEF W, B
  <2>3. \A j \in 1..CountWith(n, p) : HasFields(Relaid(W)[j])
    BY <2>1, RelaidIs
  <2> QED BY <1>2, <2>2, <2>3
<1>6. B[w].first_offset \in Nat /\ B[w].entries \in Seq(Nat)
  <2>1. B[w].first_offset = new.first_offset /\ B[w].entries = new.entries
    BY <1>1, AppliedSays
  <2>2. /\ segments # << >> /\ Len(segments) \in Nat
        /\ new.first_offset = A[F].offset + new.size - RemovedSize(A, p)
                                - (WriteOffset(A, p) + new.size)
        /\ DOMAIN new.entries = 1..Len(segments)
    BY NewSays
  <2>3. /\ WriteOffset(A, p) \in Int /\ RemovedSize(A, p) \in Nat /\ A[F].offset \in Int
        /\ WriteOffset(A, p) + RemovedSize(A, p) <= A[F].offset
    BY InFrontOfMedia
  <2>4. new.size \in Int
    BY <1>1, NewSidxIs
  <2>5. \A k \in 1..Len(segments) : new.entries[k] \in Nat
    <3> SUFFICES ASSUME NEW k \in 1..Len(segments) PROVE new.entries[k] \in Nat
      OBVIOUS
    <3>1. new.entries[k] = segments[k].size
      BY NewSizes DEF KeepsSize
    <3>2. LiesBetween(A, n, track, segments, k, last)
      BY SegmentCovers
    <3> HIDE DEF new, segments
    <3>3. segments[k].size \in Nat
      BY <3>2 DEF LiesBetween
    <3> QED BY <3>1, <3>3
  <2>6. new.entries = [k \in 1..Len(segments) |-> new.entries[k]]
    <3>1. new.entries = [k \in DOMAIN p.sizes |-> new.entries[k]]
      BY DEF RewrittenSidx
    <3>2. DOMAIN new.entries = DOMAIN p.sizes
      BY DEF RewrittenSidx
    <3> HIDE DEF new, segments
    <3> QED BY <2>2, <3>1, <3>2
  <2> HIDE DEF new, segments, B, w, F
  <2>7. new.first_offset \in Nat
    BY <2>2, <2>3, <2>4
  <2>8. new.entries \in Seq(Nat)
    BY <2>2, <2>5, <2>6
  <2> QED BY <2>1, <2>7, <2>8
<1>7. ASSUME NEW j \in 1..m, B[j].kind = "sidx"
      PROVE  B[j].first_offset \in Nat /\ B[j].entries \in Seq(Nat)
  <2>1. CASE j = w
    BY <1>6, <2>1
  <2>2. CASE j # w
    <3>1. PICK i \in 1..n : i # p.replaced /\ To(p, i) = j
      BY <2>2, FromWhere
    <3>2. /\ SameBut(A[i], B[j])
          /\ \A field \in DOMAIN A[i] : field # "offset" => B[j][field] = A[i][field]
      BY <3>1, KeptBox
    <3>3. A[i].kind = "sidx" /\ B[j].entries = A[i].entries
      BY <1>7, <3>2 DEF SameBut
    <3>4. B[j].first_offset = A[i].first_offset
      BY <3>2, <3>3 DEF SidxFields
    <3> QED BY <1>1, <3>3, <3>4 DEF IsFile
  <2> QED BY <2>1, <2>2
<1>8. LaidSizes(B)
  BY <1>3, <1>5 DEF LaidSizes
<1> HIDE DEF B, m
<1>9. IsFile(B, m)
  BY <1>3, <1>4, <1>7, <1>8 DEF IsFile
<1> QED BY <1>9 DEF B, m

LEMMA AgainIs ==
  ASSUME NEW A, NEW n, NEW g, NEW track, NEW p, Planned(A, n, g, track, p), SidxFields(A, n),
         OnlyMediaIn(Applied(A, p), NewAt(p)),
         PreviousKind(Applied(A, p), NewAt(p)) # "mdat"
  PROVE  \E h : Again(A, n, g, Applied(A, p), h, NewAt(p), PlacesOn(p))
<1> DEFINE B == Applied(A, p)
           w == NewAt(p)
           d == PlacesOn(p)
           F == g[n].segments[1].first
           delta == RewrittenSidx(A, p).size - RemovedSize(A, p)
           segments == g[n].segments
           end == Max(BoxesOf(B, "mdat")) - d
<1>1. /\ IsFile(A, n) /\ GroupingSteps(A, n, g) /\ PlanError(A) = "None" /\ n \in Nat
      /\ PlanFits(p, A)
      /\ p.replaced = IF g[n].existing = << >> THEN None ELSE g[n].existing[1]
      /\ p.insertion_box = F
  BY DEF Planned, IsFile
<1>2. Moves(A, n, F, B, d, delta) /\ d \in 0..1
  BY PlanMoves DEF PlacesOn
<1>3. MediaFrom(A, n, F, end)
  BY <1>2, MediaIs
<1>4. IsFile(B, n + d)
  BY <1>3, FileAgain
<1>5. PICK h : GroupingSteps(B, n + d, h)
  <2>1. n + d \in Nat /\ B = [j \in 1..(n + d) |-> B[j]] /\ DOMAIN B = 1..(n + d)
        /\ \A j \in 1..(n + d) : B[j].size \in Int
    BY <1>4 DEF IsFile, IsRow
  <2> HIDE DEF B
  <2>2. Len(B) = n + d
    <3> DEFINE m == n + d
    <3>1. m \in Nat /\ B = [j \in 1..m |-> B[j]]
      BY <2>1
    <3> HIDE DEF m
    <3>2. Len(B) = m
      BY <3>1, LenIs
    <3> QED BY <3>2 DEF m
  <2> QED BY <2>1, <2>2, GroupingIs
<1>6. /\ w \in 1..n /\ B[w].kind = "sidx"
      /\ p.replaced # None => w = p.replaced /\ d = 0
      /\ p.replaced = None => w = F /\ d = 1
  <2>1. w \in 1..n
    BY <1>1, InFrontOfMedia DEF NewAt
  <2>2. B[w].kind = "sidx"
    BY <1>1, AppliedSays
  <2> QED BY <1>1, <2>1, <2>2 DEF NewAt, PlacesOn
<1>7. /\ d = 0 => g[n].existing = << w >>
      /\ d = 1 => g[n].existing = << >> /\ w = F
  <2>1. Len(g[n].existing) <= 1
    BY <1>1, AnalysisIs
  <2>2. g[n].existing = << >> \/ \E i \in 1..n : g[n].existing = << i >>
    BY <1>1, <2>1, TakenIs DEF TakesOnly
  <2>3. CASE g[n].existing = << >>
    <3>1. p.replaced = None
      BY <1>1, <2>3
    <3> QED BY <1>6, <2>3, <3>1
  <2>4. CASE g[n].existing # << >>
    <3>1. PICK i \in 1..n : g[n].existing = << i >>
      BY <2>2, <2>4
    <3>2. p.replaced = i /\ i # None
      BY <1>1, <2>4, <3>1, NoneAssumption
    <3> QED BY <1>6, <3>1, <3>2
  <2> QED BY <2>3, <2>4
<1>8. /\ \A i \in 1..(w - 1) : BoxAlike(A, B, i, 0)
      /\ \A i \in (w - d + 1)..n : BoxAlike(A, B, i, d)
  <2>1. ASSUME NEW i \in 1..n, i # p.replaced PROVE BoxAlike(A, B, i, To(p, i) - i)
    <3>1. SameBut(A[i], B[To(p, i)])
      BY <2>1, KeptBox
    <3>2. i + (To(p, i) - i) = To(p, i)
      BY DEF To
    <3> QED BY <3>1, <3>2 DEF SameBut, BoxAlike
  <2>2. ASSUME NEW i \in 1..(w - 1) PROVE BoxAlike(A, B, i, 0)
    <3>1. i \in 1..n /\ i # p.replaced
      BY <1>1, <1>6, NoneAssumption
    <3>2. To(p, i) - i = 0
      BY <1>1, <1>6 DEF To
    <3>3. BoxAlike(A, B, i, To(p, i) - i)
      BY <2>1, <3>1
    <3> QED BY <3>2, <3>3
  <2>3. ASSUME NEW i \in (w - d + 1)..n PROVE BoxAlike(A, B, i, d)
    <3>1. i \in 1..n /\ i # p.replaced
      BY <1>1, <1>2, <1>6, NoneAssumption
    <3>2. To(p, i) - i = d
      BY <1>1, <1>2, <1>6 DEF To
    <3>3. BoxAlike(A, B, i, To(p, i) - i)
      BY <2>1, <3>1
    <3> QED BY <3>2, <3>3
  <2> QED BY <2>2, <2>3
<1>9. DOMAIN B[w].entries = 1..Len(segments)
  <2>1. B[w].entries = RewrittenSidx(A, p).entries
    BY <1>1, AppliedSays
  <2>2. DOMAIN RewrittenSidx(A, p).entries = 1..Len(segments)
    BY NewSays
  <2> QED BY <2>1, <2>2
<1>10. ASSUME NEW k \in 1..Len(segments)
       PROVE  SegmentStarts(B[w])[k] = B[segments[k].first + d].offset
  <2>1. SegmentStarts(B[w])[k] = A[segments[k].first].offset + delta
    <3>1. PICK last : MediaFrom(A, n, g[n].segments[1].first, last)
      BY <1>3
    <3>2. SegmentStarts(Applied(A, p)[NewAt(p)])[k]
            = A[g[n].segments[k].first].offset
                + (RewrittenSidx(A, p).size - RemovedSize(A, p))
      BY <3>1, StartsMove
    <3> QED BY <3>2
  <2>2. segments[k].first \in F..n
    <3>1. LiesBetween(A, n, track, segments, k, end)
      <4> HIDE DEF end
      <4> QED BY <1>3, SegmentCovers
    <3> QED BY <3>1 DEF LiesBetween
  <2>3. B[segments[k].first + d].offset = A[segments[k].first].offset + delta
    BY <1>2, <2>2 DEF Moves
  <2> QED BY <2>1, <2>3
<1> HIDE DEF B, w, d
<1>11. Again(A, n, g, B, h, w, d)
  BY <1>1, <1>2, <1>4, <1>5, <1>6, <1>7, <1>8, <1>9, <1>10 DEF Again, B, w
<1> QED BY <1>11 DEF B, w, d

-----------------------------------------------------------------------------
(* A plan says the same of segments that are alike.                        *)
LEMMA SameMoofDuration ==
  ASSUME NEW b, NEW c, c.trafs = b.trafs, NEW track
  PROVE  /\ MoofDuration(c, track) = MoofDuration(b, track)
         /\ TimingTrafs(c, track) = TimingTrafs(b, track)
BY DEF MoofDuration, TimingTrafs

LEMMA SameSegmentDuration ==
  ASSUME NEW A, NEW B, NEW s, NEW t, NEW d, Alike(A, B, s, t, d),
         NEW S, s.moofs \in Seq(S), NEW T, t.moofs \in Seq(T), NEW track
  PROVE  SegmentDuration(B, t, track) = SegmentDuration(A, s, track)
<1>1. /\ DOMAIN s.moofs = 1..Len(s.moofs) /\ DOMAIN t.moofs = 1..Len(s.moofs)
      /\ Len(t.moofs) = Len(s.moofs)
  BY DEF Alike
<1>2. \A x \in 1..Len(s.moofs) :
        MoofDuration(B[t.moofs[x]], track) = MoofDuration(A[s.moofs[x]], track)
  BY SameMoofDuration DEF Alike
<1>3. [k \in DOMAIN t.moofs |-> MoofDuration(B[t.moofs[k]], track)]
        = [k \in DOMAIN s.moofs |-> MoofDuration(A[s.moofs[k]], track)]
  BY <1>1, <1>2
<1> QED BY <1>1, <1>3 DEF SegmentDuration

LEMMA SameTime ==
  ASSUME NEW A, NEW B, NEW s, NEW t, NEW d, Alike(A, B, s, t, d),
         NEW S, s.moofs \in Seq(S), s.moofs # << >>, NEW track
  PROVE  PresentationTime(B, t, track) = PresentationTime(A, s, track)
<1>1. 1 \in 1..Len(s.moofs)
  OBVIOUS
<1>2. B[t.moofs[1]].trafs = A[s.moofs[1]].trafs
  BY <1>1 DEF Alike
<1>3. TimingTrafs(B[t.moofs[1]], track) = TimingTrafs(A[s.moofs[1]], track)
  BY <1>2, SameMoofDuration
<1> QED BY <1>2, <1>3 DEF PresentationTime

LEMMA SameError ==
  ASSUME NEW A, NEW B, NEW s, NEW t, NEW d, Alike(A, B, s, t, d),
         NEW S, s.moofs \in Seq(S), NEW T, t.moofs \in Seq(T), NEW track
  PROVE  SegmentError(B, t, track) = SegmentError(A, s, track)
<1> DEFINE of(X, m) == { X[m].trafs[k] : k \in TimingTrafs(X[m], track) }
           all(X, moofs) == UNION { of(X, m) : m \in ToSet(moofs) }
<1>1. /\ DOMAIN s.moofs = 1..Len(s.moofs) /\ DOMAIN t.moofs = 1..Len(s.moofs)
      /\ Len(t.moofs) = Len(s.moofs)
  BY DEF Alike
<1>2. \A x \in 1..Len(s.moofs) : of(B, t.moofs[x]) = of(A, s.moofs[x])
  <2> TAKE x \in 1..Len(s.moofs)
  <2>1. B[t.moofs[x]].trafs = A[s.moofs[x]].trafs
    BY DEF Alike
  <2>2. TimingTrafs(B[t.moofs[x]], track) = TimingTrafs(A[s.moofs[x]], track)
    BY <2>1, SameMoofDuration
  <2> QED BY <2>1, <2>2
<1> HIDE DEF of
<1>3. { of(B, m) : m \in ToSet(t.moofs) } = { of(A, m) : m \in ToSet(s.moofs) }
  BY <1>1, <1>2 DEF ToSet
<1>4. all(B, t.moofs) = all(A, s.moofs)
  BY <1>3
<1>5. t.moofs = << >> <=> s.moofs = << >>
  BY <1>1
<1> QED BY <1>4, <1>5 DEF SegmentError, of

(* What a file says besides for which a sidx can be planned.               *)
LEMMA AnalysisSays ==
  ASSUME NEW A, NEW n, IsFile(A, n), NEW g, GroupingSteps(A, n, g), PlanError(A) = "None"
  PROVE  /\ InitError(A) = "None" /\ GroupError(A, g[n]) = "None"
         /\ \A k \in 1..Len(g[n].segments) :
              SegmentError(A, g[n].segments[k],
                           TimingTrack(A[Min(BoxesOf(A, "moov"))])) = "None"
<1> DEFINE grouped == g[n]
           track == TimingTrack(A[Min(BoxesOf(A, "moov"))])
           refused(k) == SegmentError(A, grouped.segments[k], track)
           failing == { k \in DOMAIN grouped.segments : refused(k) # "None" }
<1>1. n \in Nat /\ grouped \in Grouped(A) /\ group_media_segments(A) = grouped
  BY DEF IsFile, GroupingSteps
<1>2. DOMAIN grouped.segments = 1..Len(grouped.segments)
  BY <1>1, SegmentsAre
<1> HIDE DEF grouped, track
<1>3. AnalysisError(A) = IF InitError(A) # "None" THEN InitError(A)
                         ELSE IF GroupError(A, grouped) # "None" THEN GroupError(A, grouped)
                         ELSE IF failing # {} THEN refused(Min(failing))
                         ELSE "None"
  BY <1>1 DEF AnalysisError, track
<1>4. AnalysisError(A) = "None"
  BY DEF PlanError
<1>5. failing # {} => refused(Min(failing)) # "None"
  <2>1. failing \subseteq Nat
    BY <1>2
  <2>2. failing # {} => Min(failing) \in failing
    <3> HIDE DEF failing
    <3> QED BY <2>1, MinIs
  <2> QED BY <2>2
<1>6. InitError(A) = "None" /\ GroupError(A, grouped) = "None" /\ failing = {}
  <2> HIDE DEF failing, refused
  <2> QED BY <1>3, <1>4, <1>5
<1>7. \A k \in 1..Len(grouped.segments) : refused(k) = "None"
  BY <1>2, <1>6
<1> QED BY <1>6, <1>7 DEF grouped, track

(* And what is all that the plan asks of a file.                           *)
LEMMA NothingIsAsked ==
  ASSUME NEW A, NEW n, NEW g, GroupingSteps(A, n, g),
         InitError(A) = "None", GroupError(A, g[n]) = "None", PlacementError(A, g[n]) = "None",
         \A k \in DOMAIN g[n].segments :
           SegmentError(A, g[n].segments[k], TimingTrack(A[Min(BoxesOf(A, "moov"))])) = "None"
  PROVE  PlanError(A) = "None"
<1>1. group_media_segments(A) = g[n]
  BY DEF GroupingSteps
<1> DEFINE failing == { k \in DOMAIN g[n].segments :
                          SegmentError(A, g[n].segments[k],
                                       TimingTrack(A[Min(BoxesOf(A, "moov"))])) # "None" }
<1>2. failing = {}
  OBVIOUS
<1>3. AnalysisError(A) = "None"
  BY <1>1, <1>2 DEF AnalysisError
<1> QED BY <1>1, <1>3 DEF PlanError

-----------------------------------------------------------------------------
(* The moov of the file that comes out is that of the file that was read.  *)
MoovFields(A, n) ==
  \A i \in 1..n : A[i].kind = "moov" => {"mvex", "tracks", "extended"} \subseteq DOMAIN A[i]

LEMMA LeastIs ==
  ASSUME NEW S, S \subseteq Int, NEW x \in S, \A y \in S : x <= y
  PROVE  Min(S) = x
<1>1. \A z \in S : (\A y \in S : z <= y) => z = x
  OBVIOUS
<1> QED BY <1>1 DEF Min

LEMMA MoovsMove ==
  ASSUME NEW A, NEW n, NEW g, NEW track, NEW p, Planned(A, n, g, track, p)
  PROVE  LET v == Min(BoxesOf(A, "moov"))
         IN  /\ v \in 1..n /\ A[v].kind = "moov" /\ v # p.replaced
             /\ BoxesOf(Applied(A, p), "moov") # {}
             /\ Min(BoxesOf(Applied(A, p), "moov")) = To(p, v)
<1> DEFINE B == Applied(A, p)
           moovs == BoxesOf(A, "moov")
           v == Min(moovs)
<1>1. /\ IsFile(A, n) /\ GroupingSteps(A, n, g) /\ PlanError(A) = "None" /\ n \in Nat
      /\ DOMAIN A = 1..n /\ PlanFits(p, A)
  BY DEF Planned, IsFile, IsRow
<1>2. moovs # {} /\ moovs \subseteq 1..n /\ \A i \in moovs : A[i].kind = "moov"
  <2>1. BoxesOf(A, "moov") # {}
    BY <1>1, AnalysisIs
  <2> QED BY <1>1, <2>1 DEF BoxesOf
<1>3. v \in moovs /\ \A y \in moovs : v <= y
  <2>1. moovs \subseteq Nat
    BY <1>2
  <2> HIDE DEF moovs
  <2>2. \E x \in moovs : \A y \in moovs : x <= y
    BY <1>2, <2>1, LeastExists
  <2> QED BY <2>2 DEF Min
<1>4. \A i \in moovs : i # p.replaced
  BY <1>1, <1>2, NoneAssumption DEF PlanFits, BoxesOf
<1>5. DOMAIN B = 1..(n + PlacesOn(p)) /\ PlacesOn(p) \in 0..1
  BY PlanMoves DEF Moves, PlacesOn
<1>6. B[NewAt(p)].kind = "sidx"
  BY <1>1, AppliedSays
<1>7. BoxesOf(B, "moov") = { To(p, i) : i \in moovs }
  <2>1. ASSUME NEW i \in moovs PROVE To(p, i) \in BoxesOf(B, "moov")
    <3>1. i \in 1..n /\ i # p.replaced /\ A[i].kind = "moov"
      BY <1>2, <1>4
    <3>2. To(p, i) \in DOMAIN B /\ SameBut(A[i], B[To(p, i)])
      BY <3>1, KeptBox
    <3> QED BY <3>1, <3>2 DEF SameBut, BoxesOf
  <2>2. ASSUME NEW k \in BoxesOf(B, "moov") PROVE \E i \in moovs : To(p, i) = k
    <3>1. k \in 1..(n + PlacesOn(p)) /\ k # NewAt(p) /\ B[k].kind = "moov"
      BY <1>5, <1>6 DEF BoxesOf
    <3>2. PICK i \in 1..n : i # p.replaced /\ To(p, i) = k
      BY <3>1, FromWhere
    <3>3. SameBut(A[i], B[To(p, i)])
      BY <3>2, KeptBox
    <3>4. i \in moovs
      BY <1>1, <3>1, <3>2, <3>3 DEF SameBut, BoxesOf
    <3> QED BY <3>2, <3>4
  <2> HIDE DEF B, moovs
  <2> QED BY <2>1, <2>2
<1> HIDE DEF B, moovs, v
<1>8. p.insertion_box \in Int
  BY <1>1 DEF PlanFits
<1>9. Min({ To(p, i) : i \in moovs }) = To(p, v)
  <2> DEFINE S == { To(p, i) : i \in moovs }
  <2>1. S \subseteq Int
    BY <1>2 DEF To
  <2>2. To(p, v) \in S
    BY <1>3
  <2>3. \A y \in S : To(p, v) <= y
    BY <1>2, <1>3, <1>8 DEF To
  <2> HIDE DEF S
  <2>4. Min(S) = To(p, v)
    BY <2>1, <2>2, <2>3, LeastIs
  <2> QED BY <2>4 DEF S
<1> QED BY <1>2, <1>3, <1>4, <1>7, <1>9 DEF B, moovs, v

LEMMA SameInit ==
  ASSUME NEW A, NEW n, NEW g, NEW track, NEW p, Planned(A, n, g, track, p), MoovFields(A, n)
  PROVE  /\ TimingTrack(Applied(A, p)[Min(BoxesOf(Applied(A, p), "moov"))])
              = TimingTrack(A[Min(BoxesOf(A, "moov"))])
         /\ InitError(Applied(A, p)) = "None"
<1> DEFINE v == Min(BoxesOf(A, "moov"))
           w == Min(BoxesOf(Applied(A, p), "moov"))
<1>1. /\ v \in 1..n /\ A[v].kind = "moov" /\ v # p.replaced
      /\ BoxesOf(Applied(A, p), "moov") # {} /\ w = To(p, v)
  BY MoovsMove
<1>2. InitError(A) = "None"
  BY AnalysisSays DEF Planned
<1> HIDE DEF v, w
<1>3. /\ Applied(A, p)[w].mvex = A[v].mvex /\ Applied(A, p)[w].tracks = A[v].tracks
      /\ Applied(A, p)[w].extended = A[v].extended
  BY <1>1, KeptBox DEF MoovFields
<1>4. TimingTrack(Applied(A, p)[w]) = TimingTrack(A[v])
  BY <1>3 DEF TimingTrack
<1>5. A[v].mvex /\ A[v].tracks # << >> /\ TimingTrack(A[v]) \in A[v].extended
  BY <1>2 DEF InitError, v
<1>6. InitError(Applied(A, p)) = "None"
  BY <1>1, <1>3, <1>4, <1>5 DEF InitError, w
<1> QED BY <1>4, <1>6 DEF v, w

(* The new box is in the file as it was made.                              *)
LEMMA NewBox ==
  ASSUME NEW A, NEW n, NEW g, NEW track, NEW p, Planned(A, n, g, track, p)
  PROVE  Applied(A, p)[NewAt(p)] = RewrittenSidx(A, p)
<1> DEFINE W == WithNew(A, p)
           w == NewAt(p)
           new == RewrittenSidx(A, p)
<1>1. /\ IsRow(A, n) /\ LaidSizes(A) /\ n \in Nat /\ PlanFits(p, A)
  BY DEF Planned, IsFile
<1>2. Applied(A, p) = Relaid(W)
  BY DEF Applied, WithNew
<1>3. /\ CountWith(n, p) \in Nat /\ DOMAIN W = 1..CountWith(n, p)
      /\ w \in 1..n /\ W[w] = new
  BY <1>1, WithNewIs
<1>4. w \in DOMAIN W
  BY <1>1, <1>3 DEF CountWith
<1>5. Applied(A, p)[w].offset = new.offset
  <2>1. Applied(A, p)[NewAt(p)].offset = WriteOffset(A, p)
    BY PlanMoves
  <2>2. new.offset = WriteOffset(A, p)
    BY DEF RewrittenSidx
  <2> QED BY <2>1, <2>2
<1>6. \E o : Relaid(W)[w] = [W[w] EXCEPT !.offset = o]
  <2> HIDE DEF W
  <2> QED BY <1>4 DEF Relaid
<1>7. PICK o : Relaid(W)[w] = [new EXCEPT !.offset = o]
  BY <1>3, <1>6
<1>8. "offset" \in DOMAIN new
  BY DEF RewrittenSidx
<1>9. [new EXCEPT !.offset = new.offset] = new
  BY DEF RewrittenSidx
<1> HIDE DEF W, w, new
<1>10. [new EXCEPT !.offset = o].offset = o
  BY <1>8
<1>11. o = new.offset
  BY <1>2, <1>5, <1>7, <1>10
<1> QED BY <1>2, <1>7, <1>9, <1>11 DEF w, new

-----------------------------------------------------------------------------
(* The plan that would be made of the file that comes out.                 *)
IsAgain(A, n, g, p, h) == Again(A, n, g, Applied(A, p), h, NewAt(p), PlacesOn(p))

Replanned(A, n, g, track, p, h) ==
  /\ Planned(A, n, g, track, p) /\ MoovFields(A, n)
  /\ track = TimingTrack(A[Min(BoxesOf(A, "moov"))])
  /\ IsAgain(A, n, g, p, h)

LEMMA AlikeSegments ==
  ASSUME NEW A, NEW n, NEW g, NEW p, NEW h, IsAgain(A, n, g, p, h)
  PROVE  LET old == g[n].segments
             new == h[n + PlacesOn(p)].segments
         IN  /\ h[n + PlacesOn(p)].existing = << NewAt(p) >>
             /\ group_media_segments(Applied(A, p)) = h[n + PlacesOn(p)]
             /\ Len(new) = Len(old) /\ Len(old) \in Nat \ {0}
             /\ DOMAIN old = 1..Len(old) /\ DOMAIN new = 1..Len(old)
             /\ \A k \in 1..Len(old) :
                  /\ Alike(A, Applied(A, p), old[k], new[k], PlacesOn(p))
                  /\ \E S : old[k].moofs \in Seq(S)
                  /\ \E S : new[k].moofs \in Seq(S)
                  /\ old[k].moofs # << >>
<1> DEFINE B == Applied(A, p)
           w == NewAt(p)
           d == PlacesOn(p)
<1>1. Again(A, n, g, B, h, w, d)
  BY DEF IsAgain
<1> HIDE DEF B, w, d
<1>2. /\ IsFile(A, n) /\ GroupingSteps(A, n, g) /\ PlanError(A) = "None"
      /\ GroupingSteps(B, n + d, h) /\ n \in Nat /\ d \in 0..1 /\ w \in 1..n
  BY <1>1 DEF Again, IsFile
<1>3. AllAlike(A, B, g[n], h[n + d], d) /\ h[n + d].existing = << w >>
  <2>1. n \in (w - d)..n
    BY <1>2
  <2> QED BY <1>1, <2>1, BehindAlike
<1>4. g[n] \in Grouped(A) /\ h[n + d] \in Grouped(B) /\ group_media_segments(B) = h[n + d]
  BY <1>2 DEF GroupingSteps
<1>5. /\ g[n].segments # << >>
      /\ \A k \in 1..Len(g[n].segments) : g[n].segments[k].moofs # << >>
  BY <1>2, AnalysisIs
<1>6. /\ Len(g[n].segments) \in Nat /\ DOMAIN g[n].segments = 1..Len(g[n].segments)
      /\ g[n].segments # << >> => Len(g[n].segments) \in 1..Len(g[n].segments)
      /\ \A k \in 1..Len(g[n].segments) :
           g[n].segments[k].moofs \in Seq(BoxesOf(A, "moof"))
  BY <1>4, SegmentsAre
<1>7. /\ DOMAIN h[n + d].segments = 1..Len(h[n + d].segments)
      /\ \A k \in 1..Len(h[n + d].segments) :
           h[n + d].segments[k].moofs \in Seq(BoxesOf(B, "moof"))
  BY <1>4, SegmentsAre
<1> QED BY <1>3, <1>4, <1>5, <1>6, <1>7 DEF AllAlike, B, w, d

LEMMA RefusesNothing ==
  ASSUME NEW A, NEW n, NEW g, NEW track, NEW p, Planned(A, n, g, track, p), MoovFields(A, n),
         NEW h, IsAgain(A, n, g, p, h)
  PROVE  PlanError(Applied(A, p)) = "None"
<1> DEFINE B == Applied(A, p)
           w == NewAt(p)
           d == PlacesOn(p)
           old == g[n].segments
           new == h[n + d].segments
           timing == TimingTrack(A[Min(BoxesOf(A, "moov"))])
<1>1. /\ GroupingSteps(A, n, g) /\ IsFile(A, n) /\ PlanError(A) = "None"
      /\ GroupingSteps(B, n + d, h)
      /\ DOMAIN B[w].entries = 1..Len(old)
      /\ \A k \in 1..Len(old) : SegmentStarts(B[w])[k] = B[old[k].first + d].offset
  BY DEF IsAgain, Again
<1>2. /\ h[n + d].existing = << w >> /\ Len(old) \in Nat \ {0}
      /\ DOMAIN new = 1..Len(old) /\ Len(new) = Len(old)
      /\ \A k \in 1..Len(old) :
           /\ Alike(A, B, old[k], new[k], d)
           /\ \E S : old[k].moofs \in Seq(S)
           /\ \E S : new[k].moofs \in Seq(S)
  BY AlikeSegments
<1>3. TimingTrack(B[Min(BoxesOf(B, "moov"))]) = timing /\ InitError(B) = "None"
  BY SameInit
<1>4. \A k \in 1..Len(old) : SegmentError(A, old[k], timing) = "None"
  BY <1>1, AnalysisSays
<1>5. ~B[w].chained
  <2>1. B[w] = RewrittenSidx(A, p)
    BY NewBox
  <2>2. RewrittenSidx(A, p).chained = FALSE
    BY DEF RewrittenSidx
  <2> QED BY <2>1, <2>2
<1> HIDE DEF B, w, d, old, new, timing
<1>6. \A k \in 1..Len(old) : SegmentError(B, new[k], timing) = "None"
  <2> TAKE k \in 1..Len(old)
  <2>1. PICK S, T : old[k].moofs \in Seq(S) /\ new[k].moofs \in Seq(T)
    BY <1>2
  <2>2. SegmentError(B, new[k], timing) = SegmentError(A, old[k], timing)
    BY <1>2, <2>1, SameError
  <2> QED BY <1>4, <2>2
<1>7. GroupError(B, h[n + d]) = "None"
  <2>1. new # << >>
    BY <1>2
  <2> QED BY <1>2, <1>5, <2>1 DEF GroupError, new
<1>8. PlacementError(B, h[n + d]) = "None"
  <2> DEFINE starts == SegmentStarts(B[w])
  <2>1. 1 \in 1..Len(old)
    BY <1>2
  <2>2. starts # << >>
    <3>1. DOMAIN starts = 1..Len(old)
      BY <1>1 DEF SegmentStarts
    <3> HIDE DEF starts
    <3> QED BY <2>1, <3>1
  <2>3. new[1].first = old[1].first + d
    BY <1>2, <2>1 DEF Alike
  <2>4. starts[1] = B[new[1].first].offset
    BY <1>1, <2>1, <2>3
  <2>5. Len(<< w >>) = 1 /\ << w >>[1] = w
    OBVIOUS
  <2> QED BY <1>2, <2>2, <2>4, <2>5 DEF PlacementError, new
<1>9. PlanError(B) = "None"
  BY <1>1, <1>2, <1>3, <1>6, <1>7, <1>8, NothingIsAsked DEF new
<1> QED BY <1>9 DEF B
-----------------------------------------------------------------------------
(* It is the plan of before, for the sidx that is there now.               *)
LEMMA SamePlan ==
  ASSUME NEW A, NEW n, NEW g, NEW track, NEW p, NEW h, Replanned(A, n, g, track, p, h),
         NEW options
  PROVE  LET q == Plan(Applied(A, p), options)
         IN  /\ q.replaced = NewAt(p) /\ q.version = 1
             /\ q.earliest = Plan(A, options).earliest
             /\ q.sizes = p.sizes /\ q.durations = p.durations
             /\ DOMAIN p.sizes = 1..Len(g[n].segments) /\ DOMAIN q.starts = DOMAIN p.sizes
             /\ \A k \in DOMAIN p.sizes :
                  q.starts[k] = Applied(A, p)[g[n].segments[k].first + PlacesOn(p)].offset
<1> DEFINE B == Applied(A, p)
           w == NewAt(p)
           d == PlacesOn(p)
           old == g[n].segments
           new == h[n + d].segments
           q == Plan(B, options)
<1>0. /\ Planned(A, n, g, track, p) /\ MoovFields(A, n) /\ IsAgain(A, n, g, p, h)
      /\ track = TimingTrack(A[Min(BoxesOf(A, "moov"))])
  BY DEF Replanned
<1>1. /\ GroupingSteps(A, n, g)
      /\ p.sizes = [k \in DOMAIN old |-> old[k].size]
      /\ p.durations = [k \in DOMAIN old |-> SegmentDuration(A, old[k], track)]
  BY <1>0 DEF Planned
<1>2. /\ h[n + d].existing = << w >> /\ Len(old) \in Nat \ {0}
      /\ group_media_segments(B) = h[n + d]
      /\ DOMAIN old = 1..Len(old) /\ DOMAIN new = 1..Len(old) /\ Len(new) = Len(old)
      /\ \A k \in 1..Len(old) :
           /\ Alike(A, B, old[k], new[k], d)
           /\ \E S : old[k].moofs \in Seq(S)
           /\ \E S : new[k].moofs \in Seq(S)
           /\ old[k].moofs # << >>
  BY <1>0, AlikeSegments
<1>3. TimingTrack(B[Min(BoxesOf(B, "moov"))]) = track
  BY <1>0, SameInit
<1>4. group_media_segments(A) = g[n]
  BY <1>1 DEF GroupingSteps
<1>5. Plan(A, options).earliest
        = IF options.non_zero_ept THEN PresentationTime(A, old[1], track) ELSE 0
  BY <1>0, <1>4 DEF Plan
<1> HIDE DEF B, w, d, old
<1>6. /\ q.replaced = IF h[n + d].existing = << >> THEN None ELSE h[n + d].existing[1]
      /\ q.version = 1
      /\ q.earliest = IF options.non_zero_ept THEN PresentationTime(B, new[1], track) ELSE 0
      /\ q.starts = [k \in DOMAIN new |-> B[new[k].first].offset]
      /\ q.sizes = [k \in DOMAIN new |-> new[k].size]
      /\ q.durations = [k \in DOMAIN new |-> SegmentDuration(B, new[k], track)]
  BY <1>2, <1>3 DEF Plan
<1> HIDE DEF new, q
<1>7. q.replaced = w
  BY <1>2, <1>6
<1>8. PresentationTime(B, new[1], track) = PresentationTime(A, old[1], track)
  <2>1. 1 \in 1..Len(old)
    BY <1>2
  <2>2. PICK S : old[1].moofs \in Seq(S)
    BY <1>2, <2>1
  <2> QED BY <1>2, <2>1, <2>2, SameTime
<1>9. \A k \in 1..Len(old) :
        /\ new[k].size = old[k].size /\ new[k].first = old[k].first + d
        /\ SegmentDuration(B, new[k], track) = SegmentDuration(A, old[k], track)
  <2> TAKE k \in 1..Len(old)
  <2>1. PICK S, T : old[k].moofs \in Seq(S) /\ new[k].moofs \in Seq(T)
    BY <1>2
  <2>2. SegmentDuration(B, new[k], track) = SegmentDuration(A, old[k], track)
    BY <1>2, <2>1, SameSegmentDuration
  <2> QED BY <1>2, <2>2 DEF Alike
<1>10. q.sizes = p.sizes /\ q.durations = p.durations
  BY <1>1, <1>2, <1>6, <1>9
<1>11. DOMAIN p.sizes = 1..Len(old) /\ DOMAIN q.starts = DOMAIN p.sizes
  BY <1>1, <1>2, <1>6
<1>12. \A k \in 1..Len(old) : q.starts[k] = B[old[k].first + d].offset
  BY <1>2, <1>6, <1>9
<1> QED BY <1>5, <1>6, <1>7, <1>8, <1>10, <1>11, <1>12 DEF B, w, d, old, q

-----------------------------------------------------------------------------
LEMMA VersionIs ==
  ASSUME NEW A, NEW options
  PROVE  LET plain == Plan(A, options)
             kept  == VersionKept(A, plain)
         IN  /\ plain.version = 1
             /\ kept.version = IF plain.replaced # None /\ A[plain.replaced].version = 0
                                 THEN 0 ELSE 1
             /\ kept.replaced = plain.replaced /\ kept.earliest = plain.earliest
             /\ kept.starts = plain.starts /\ kept.sizes = plain.sizes
             /\ kept.durations = plain.durations
<1> DEFINE q == Plan(A, options)
<1>1. /\ q.version = 1
      /\ DOMAIN q = {"replaced", "insertion_box", "version", "earliest", "starts", "sizes",
                     "durations"}
  BY DEF Plan
<1> HIDE DEF q
<1> QED BY <1>1 DEF VersionKept, q

LEMMA SamePlanOf ==
  ASSUME NEW A, NEW n, NEW g, NEW track, NEW p, NEW h, Replanned(A, n, g, track, p, h),
         IsPlanFor(p, A)
  PROVE  LET q == PlanOf(Applied(A, p))
         IN  /\ q.replaced = NewAt(p) /\ q.replaced # None /\ q.version = p.version
             /\ q.earliest = p.earliest
             /\ q.sizes = p.sizes /\ q.durations = p.durations
             /\ DOMAIN p.sizes = 1..Len(g[n].segments) /\ DOMAIN q.starts = DOMAIN p.sizes
             /\ \A k \in DOMAIN p.sizes :
                  q.starts[k] = Applied(A, p)[g[n].segments[k].first + PlacesOn(p)].offset
<1> DEFINE B == Applied(A, p)
           w == NewAt(p)
           a == Plan(A, request.options)
           b == Plan(B, request.options)
           q == PlanOf(B)
<1>0. Planned(A, n, g, track, p) /\ IsAgain(A, n, g, p, h)
  BY DEF Replanned
<1>1. /\ b.replaced = w /\ b.version = 1 /\ b.earliest = a.earliest
      /\ b.sizes = p.sizes /\ b.durations = p.durations
      /\ DOMAIN p.sizes = 1..Len(g[n].segments) /\ DOMAIN b.starts = DOMAIN p.sizes
      /\ \A k \in DOMAIN p.sizes :
           b.starts[k] = B[g[n].segments[k].first + PlacesOn(p)].offset
  <2>1. PICK options : options = request.options
    OBVIOUS
  <2>2. LET c == Plan(Applied(A, p), options)
        IN  /\ c.replaced = NewAt(p) /\ c.version = 1
            /\ c.earliest = Plan(A, options).earliest
            /\ c.sizes = p.sizes /\ c.durations = p.durations
            /\ DOMAIN p.sizes = 1..Len(g[n].segments) /\ DOMAIN c.starts = DOMAIN p.sizes
            /\ \A k \in DOMAIN p.sizes :
                 c.starts[k] = Applied(A, p)[g[n].segments[k].first + PlacesOn(p)].offset
    <3> QED BY SamePlan
  <2> QED BY <2>1, <2>2
<1>2. w # None
  <2>1. w \in 1..n
    BY <1>0 DEF IsAgain, Again
  <2> QED BY <2>1, NoneAssumption
<1>3. B[w].version = p.version
  <2>1. B[w] = RewrittenSidx(A, p)
    BY <1>0, NewBox
  <2> QED BY <2>1 DEF RewrittenSidx
<1>4. /\ a.version = 1 /\ VersionKept(A, a).version \in {0, 1}
      /\ VersionKept(A, a).earliest = a.earliest
  BY VersionIs
<1>5. /\ VersionKept(B, b).version = IF b.replaced # None /\ B[b.replaced].version = 0
                                       THEN 0 ELSE 1
      /\ VersionKept(B, b).replaced = b.replaced /\ VersionKept(B, b).earliest = b.earliest
      /\ VersionKept(B, b).starts = b.starts /\ VersionKept(B, b).sizes = b.sizes
      /\ VersionKept(B, b).durations = b.durations
  BY VersionIs
<1>6. /\ p = IF request.operation = "file" THEN VersionKept(A, a) ELSE a
      /\ q = IF request.operation = "file" THEN VersionKept(B, b) ELSE b
  BY DEF IsPlanFor, PlanOf
<1> HIDE DEF B, w, a, b, q
<1>7. p.earliest = a.earliest
  BY <1>4, <1>6
<1>8. q.version = p.version
  <2>1. CASE request.operation = "file"
    <3>1. p.version \in {0, 1}
      BY <1>4, <1>6, <2>1
    <3> QED BY <1>1, <1>2, <1>3, <1>5, <1>6, <2>1, <3>1
  <2>2. CASE request.operation # "file"
    BY <1>1, <1>4, <1>6, <2>2
  <2> QED BY <2>1, <2>2
<1>9. /\ q.replaced = b.replaced /\ q.earliest = b.earliest /\ q.starts = b.starts
      /\ q.sizes = b.sizes /\ q.durations = b.durations
  BY <1>5, <1>6
<1> QED BY <1>1, <1>2, <1>7, <1>8, <1>9 DEF B, w, q
-----------------------------------------------------------------------------
(* What lies where it did is as long as it was.                            *)
LEMMA Unshifted ==
  ASSUME NEW o \in Int, NEW at, NEW size \in Int
  PROVE  Shifted(o, at, size, size) = o
BY DEF Shifted

LEMMA NewEntries ==
  ASSUME NEW A, NEW n, NEW g, NEW track, NEW p, Planned(A, n, g, track, p),
         NEW last, MediaFrom(A, n, g[n].segments[1].first, last)
  PROVE  /\ RewrittenSidx(A, p).entries = p.sizes
         /\ \A k \in DOMAIN p.sizes : p.sizes[k] \in Int
<1> DEFINE e == RewrittenSidx(A, p).entries
           segments == g[n].segments
<1>1. /\ p.sizes = [k \in DOMAIN segments |-> segments[k].size]
      /\ DOMAIN segments = 1..Len(segments)
  BY NewSays DEF Planned
<1>2. e = [k \in DOMAIN e |-> e[k]] /\ DOMAIN e = DOMAIN p.sizes
  BY DEF RewrittenSidx
<1>3. ASSUME NEW k \in 1..Len(segments) PROVE e[k] = segments[k].size
  <2>1. KeepsSize(A, p, g[n].segments, k)
    BY <1>3, NewSizes
  <2> QED BY <2>1 DEF KeepsSize
<1>4. ASSUME NEW k \in 1..Len(segments) PROVE segments[k].size \in Int
  <2>1. g[n] \in Grouped(A)
    BY DEF Planned, GroupingSteps, IsFile
  <2>2. segments[k] \in Segment(A)
    BY <2>1, SegmentsAre
  <2> QED BY <2>2 DEF Segment
<1> HIDE DEF e, segments
<1>5. e = p.sizes
  BY <1>1, <1>2, <1>3
<1>6. \A k \in DOMAIN p.sizes : p.sizes[k] \in Int
  BY <1>1, <1>4
<1> QED BY <1>5, <1>6 DEF e

(* The sidx that would be written is the one that is there.                *)
SidxOf(offset, size, p, first_offset, entries, origin) ==
  [ kind |-> "sidx", offset |-> offset, size |-> size, header_size |-> 8,
    trafs |-> << >>, chained |-> FALSE, version |-> p.version, earliest |-> p.earliest,
    first_offset |-> first_offset, entries |-> entries, durations |-> p.durations,
    origin |-> origin ]

LEMMA SameSidx ==
  ASSUME NEW A, NEW n, NEW g, NEW track, NEW p, NEW h, Replanned(A, n, g, track, p, h),
         IsPlanFor(p, A),
         NEW last, MediaFrom(A, n, g[n].segments[1].first, last)
  PROVE  RewrittenSidx(Applied(A, p), PlanOf(Applied(A, p))) = Applied(A, p)[NewAt(p)]
<1> DEFINE B == Applied(A, p)
           w == NewAt(p)
           q == PlanOf(B)
           new == RewrittenSidx(A, p)
           size == EncodedSidxSize(p.version, Len(p.sizes))
           d == PlacesOn(p)
           old == g[n].segments
           again == RewrittenSidx(B, q)
<1>0. Planned(A, n, g, track, p) /\ IsAgain(A, n, g, p, h)
  BY DEF Replanned
<1>1. /\ q.replaced = w /\ q.replaced # None /\ q.version = p.version
      /\ q.earliest = p.earliest /\ q.sizes = p.sizes /\ q.durations = p.durations
      /\ DOMAIN p.sizes = 1..Len(old) /\ DOMAIN q.starts = DOMAIN p.sizes
      /\ \A k \in DOMAIN p.sizes : q.starts[k] = B[old[k].first + d].offset
  <2> HIDE DEF new, size, again
  <2> QED BY SamePlanOf
<1>2. B[w] = new
  BY <1>0, NewBox
<1>3. new = SidxOf(B[w].offset, size, p, new.first_offset, new.entries, new.origin)
  <2>1. new.offset = WriteOffset(A, p)
    BY DEF RewrittenSidx
  <2> QED BY <1>2, <2>1 DEF RewrittenSidx, SidxOf
<1>4. new.entries = p.sizes /\ \A k \in DOMAIN p.sizes : p.sizes[k] \in Int
  BY <1>0, NewEntries
<1>5. Again(A, n, g, B, h, w, d)
  BY <1>0 DEF IsAgain
<1>6. /\ IsFile(B, n + d) /\ n \in Nat /\ d \in 0..1 /\ w \in 1..(n + d) /\ B[w].kind = "sidx"
      /\ \A k \in 1..Len(old) : SegmentStarts(B[w])[k] = B[old[k].first + d].offset
      /\ DOMAIN B[w].entries = 1..Len(old)
  BY <1>5 DEF Again, IsFile
<1>7. B[w].size = size /\ size \in Int
  <2>1. new.size = size
    BY DEF RewrittenSidx
  <2>2. size \in Int
    BY <1>0 DEF Planned, PlanFits
  <2> QED BY <1>2, <2>1, <2>2
<1>8. 1 \in 1..Len(old)
  BY <1>0, NewSays
<1>9. \A k \in 1..Len(old) : old[k].first + d \in 1..(n + d)
  <2>1. g[n] \in Grouped(A) /\ DOMAIN A = 1..n
    <3>1. IsFile(A, n) /\ GroupingSteps(A, n, g)
      BY <1>0 DEF Planned
    <3>2. n \in Nat /\ DOMAIN A = 1..n
      BY <3>1 DEF IsFile, IsRow
    <3>3. \A i \in 0..n : g[i] \in Grouped(A)
      BY <3>1 DEF GroupingSteps
    <3> QED BY <3>2, <3>3
  <2>2. \A k \in 1..Len(old) : old[k].first \in 1..n
    BY <2>1, SegmentsAre
  <2> QED BY <1>6, <2>2
<1> HIDE DEF B, w, q, new, size, d, old
<1>10. \A k \in DOMAIN p.sizes : q.starts[k] \in Int
  BY <1>1, <1>6, <1>9 DEF IsFile
<1>11. B[w].offset \in Int /\ B[w].first_offset \in Int
  BY <1>6 DEF IsFile
<1>12. q.starts[1] = B[w].offset + size + B[w].first_offset
  <2>1. SegmentStarts(B[w]) # << >>
    <3>1. DOMAIN SegmentStarts(B[w]) = 1..Len(old)
      BY <1>6 DEF SegmentStarts
    <3> QED BY <1>8, <3>1
  <2>2. SegmentStarts(B[w])[1] = B[w].offset + B[w].size + B[w].first_offset
    BY <1>6, <2>1, StartsBehind
  <2> QED BY <1>1, <1>6, <1>7, <1>8, <2>2
<1> DEFINE end == B[w].offset + size
           shift(o) == Shifted(o, end, size, size)
<1>13. again = SidxOf(B[w].offset, size, q, shift(q.starts[1]) - end,
                      [k \in DOMAIN p.sizes |->
                         shift(q.starts[k] + p.sizes[k]) - shift(q.starts[k])],
                      B[w].origin)
  <2>1. /\ WriteOffset(B, q) = B[w].offset /\ RemovedSize(B, q) = size
        /\ EncodedSidxSize(q.version, Len(q.sizes)) = size
    BY <1>1, <1>7 DEF WriteOffset, RemovedSize, size
  <2> QED BY <1>1, <2>1 DEF RewrittenSidx, SidxOf
<1> HIDE DEF end
<1>14. shift(q.starts[1]) - end = B[w].first_offset
  <2>1. q.starts[1] \in Int
    BY <1>1, <1>8, <1>10
  <2>2. shift(q.starts[1]) = q.starts[1]
    BY <1>7, <2>1, Unshifted
  <2> QED BY <1>7, <1>11, <1>12, <2>1, <2>2 DEF end
<1>15. [k \in DOMAIN p.sizes |-> shift(q.starts[k] + p.sizes[k]) - shift(q.starts[k])]
         = p.sizes
  <2>1. ASSUME NEW k \in DOMAIN p.sizes
        PROVE  shift(q.starts[k] + p.sizes[k]) - shift(q.starts[k]) = p.sizes[k]
    <3>1. q.starts[k] \in Int /\ p.sizes[k] \in Int
      BY <1>4, <1>10
    <3>2. q.starts[k] + p.sizes[k] \in Int
      BY <3>1
    <3>3. /\ shift(q.starts[k]) = q.starts[k]
          /\ shift(q.starts[k] + p.sizes[k]) = q.starts[k] + p.sizes[k]
      BY <1>7, <3>1, <3>2, Unshifted
    <3> QED BY <3>1, <3>3
  <2>2. p.sizes = [k \in DOMAIN p.sizes |-> p.sizes[k]]
    BY <1>0 DEF Planned
  <2> HIDE DEF shift
  <2> QED BY <2>1, <2>2
<1>16. B[w].first_offset = new.first_offset /\ B[w].origin = new.origin
  BY <1>2
<1> HIDE DEF shift, again
<1>17. again = SidxOf(B[w].offset, size, q, new.first_offset, new.entries, new.origin)
  BY <1>4, <1>13, <1>14, <1>15, <1>16
<1>18. again = SidxOf(B[w].offset, size, p, new.first_offset, new.entries, new.origin)
  BY <1>1, <1>17 DEF SidxOf
<1> QED BY <1>2, <1>3, <1>18 DEF again, B, w, q
-----------------------------------------------------------------------------
(* Boxes that are laid out stay where they are when they are again.        *)
LEMMA RelaidOnce ==
  ASSUME NEW n \in Nat, NEW W, DOMAIN W = 1..n, LaidSizes(W)
  PROVE  Relaid(Relaid(W)) = Relaid(W)
<1> DEFINE B == Relaid(W)
           C == Relaid(B)
<1>1. /\ DOMAIN B = 1..n /\ B = [i \in 1..n |-> B[i]] /\ IsLaid(B)
      /\ \A i \in 1..n : HasFields(B[i]) /\ SameBut(W[i], B[i])
  BY RelaidIs
<1>2. LaidSizes(B)
  <2> HIDE DEF B
  <2> QED BY <1>1 DEF LaidSizes, SameBut
<1> HIDE DEF B
<1>3. /\ DOMAIN C = 1..n /\ C = [i \in 1..n |-> C[i]] /\ IsLaid(C)
      /\ \A i \in 1..n : SameBut(B[i], C[i])
  BY <1>1, <1>2, RelaidIs
<1>4. \A i \in 1..n : \E o : C[i] = [B[i] EXCEPT !.offset = o]
  BY <1>1 DEF Relaid
<1>5. \A i \in 1..n : \E b, o : B[i] = [b EXCEPT !.offset = o]
  BY RelaidIs DEF Relaid, B
<1> HIDE DEF C
<1>6. \A i \in 1..n : B[i].offset = C[i].offset
  <2>1. \A i \in 1..n : B[i].size = C[i].size
    BY <1>3 DEF SameBut
  <2> HIDE DEF B
  <2>2. DOMAIN B = 1..n /\ DOMAIN C = 1..n /\ IsLaid(B) /\ IsLaid(C)
    BY <1>1, <1>3
  <2> QED BY <2>1, <2>2, SameOffsets
<1>7. \A i \in 1..n : C[i] = B[i]
  <2> TAKE i \in 1..n
  <2>1. PICK o : C[i] = [B[i] EXCEPT !.offset = o]
    BY <1>4
  <2>2. PICK b, r : B[i] = [b EXCEPT !.offset = r]
    BY <1>5
  <2>3. "offset" \in DOMAIN B[i]
    BY <1>1 DEF HasFields
  <2>4. C[i].offset = o
    BY <2>1, <2>3
  <2>5. o = B[i].offset
    BY <1>6, <2>4
  <2>6. [B[i] EXCEPT !.offset = B[i].offset] = B[i]
    BY <2>2
  <2> QED BY <2>1, <2>5, <2>6
<1> QED BY <1>1, <1>3, <1>7 DEF B, C

LEMMA AppliedTwice ==
  ASSUME NEW A, NEW n, NEW g, NEW track, NEW p, NEW h, Replanned(A, n, g, track, p, h),
         IsPlanFor(p, A),
         NEW last, MediaFrom(A, n, g[n].segments[1].first, last)
  PROVE  Applied(Applied(A, p), PlanOf(Applied(A, p))) = Applied(A, p)
<1> DEFINE B == Applied(A, p)
           w == NewAt(p)
           q == PlanOf(B)
           W == WithNew(A, p)
<1>0. Planned(A, n, g, track, p) /\ IsAgain(A, n, g, p, h)
  BY DEF Replanned
<1>1. IsRow(A, n) /\ LaidSizes(A) /\ n \in Nat /\ PlanFits(p, A) /\ IsFile(A, n)
  BY <1>0 DEF Planned, IsFile
<1>2. /\ CountWith(n, p) \in Nat /\ DOMAIN W = 1..CountWith(n, p) /\ LaidSizes(W)
  BY <1>1, WithNewIs
<1>3. B = Relaid(W)
  BY DEF Applied, WithNew
<1>4. Relaid(B) = B
  <2> HIDE DEF W, B
  <2>1. Relaid(Relaid(W)) = Relaid(W)
    BY <1>2, RelaidOnce
  <2> QED BY <1>3, <2>1
<1>5. RewrittenSidx(B, q) = B[w]
  BY SameSidx
<1>6. q.replaced = w /\ q.replaced # None
  <2> HIDE DEF W
  <2> QED BY SamePlanOf
<1>7. \E m : B = [j \in 1..m |-> B[j]]
  <2>1. IsFile(B, n + PlacesOn(p))
    BY <1>0 DEF IsAgain, Again
  <2> HIDE DEF B
  <2> QED BY <2>1 DEF IsFile, IsRow
<1> HIDE DEF B, w, q
<1>8. ReplaceAt(B, w, B[w]) = B
  BY <1>7 DEF ReplaceAt
<1>9. Applied(B, q) = Relaid(ReplaceAt(B, w, B[w]))
  BY <1>5, <1>6 DEF Applied
<1> QED BY <1>4, <1>8, <1>9 DEF B, q

-----------------------------------------------------------------------------
(* A second refresh of a file finds nothing to change.                     *)
LEMMA RefreshStable ==
  ASSUME NEW A, NEW n, NEW g, NEW track, NEW p, Planned(A, n, g, track, p),
         SidxFields(A, n), MoovFields(A, n), IsPlanFor(p, A),
         track = TimingTrack(A[Min(BoxesOf(A, "moov"))]),
         OnlyMediaIn(Applied(A, p), NewAt(p)),
         PreviousKind(Applied(A, p), NewAt(p)) # "mdat"
  PROVE  /\ PlanError(Applied(A, p)) = "None"
         /\ Applied(Applied(A, p), PlanOf(Applied(A, p))) = Applied(A, p)
<1>1. PICK h : IsAgain(A, n, g, p, h)
  BY AgainIs DEF IsAgain
<1>2. PlanError(Applied(A, p)) = "None"
  BY <1>1, RefusesNothing
<1>3. PICK last : MediaFrom(A, n, g[n].segments[1].first, last)
  <2>1. Moves(A, n, g[n].segments[1].first, Applied(A, p), PlacesOn(p),
              RewrittenSidx(A, p).size - RemovedSize(A, p))
    BY PlanMoves
  <2> QED BY <2>1, MediaIs
<1>4. Replanned(A, n, g, track, p, h)
  BY <1>1 DEF Replanned
<1>5. Applied(Applied(A, p), PlanOf(Applied(A, p))) = Applied(A, p)
  BY <1>3, <1>4, AppliedTwice
<1> QED BY <1>2, <1>5

(* For all requests, a second refresh of the file that is returned refuses *)
(* nothing and changes nothing, unless an mdat in front makes the sidx look*)
(* like one of a segment (build_top_level_sidx_plan and                    *)
(* apply_top_level_sidx_plan in sidx.rs).                                  *)
THEOREM RefreshAlwaysStable == Spec => []RefreshIsStable
<1>1. Init => RefusalInv /\ TilingInv
  BY InitRefusal DEF Init, TilingInv
<1>2. IInv /\ RefusalInv /\ [Next]_vars => RefusalInv'
  BY RefusalKeeps
<1>3. IInv /\ RefusalInv /\ TilingInv /\ [Next]_vars => TilingInv'
  BY TilingKeeps
<1>4. IInv /\ TilingInv => RefreshIsStable
  <2> SUFFICES ASSUME IInv, TilingInv, pc = "done", plan # << >>, OnlyMedia,
                      PreviousKind(bytes, Written) # "mdat"
               PROVE  PlanError(bytes) = "None" /\ Applied(bytes, PlanOf(bytes)) = bytes
    BY DEF RefreshIsStable, Returns, PlanOf
  <2> DEFINE w == NewAt(plan)
  <2>1. PICK A, n, g, track : MadeOf(A, n, g, track)
    BY WrittenFrom
  <2>2. /\ Planned(A, n, g, track, plan) /\ bytes = Applied(A, plan) /\ Written = w
        /\ IsPlanFor(plan, A) /\ track = TimingTrack(A[Min(BoxesOf(A, "moov"))])
    BY <2>1 DEF MadeOf
  <2>3. SidxFields(A, n) /\ MoovFields(A, n)
    <3>1. /\ n = Len(root) /\ IsCopy(request, moof_replacements, A)
          /\ KeepsFields(request, A) /\ request \in Requests
      BY <2>1 DEF MadeOf, IInv
    <3>2. DOMAIN root = 1..n
      BY <3>1, RootBoxes DEF root
    <3>3. \A i \in 1..n : A[i].kind = root[i].kind /\ FieldsKept(root[i], A[i])
      BY <3>1, <3>2 DEF IsCopy, ShapeKept, KeepsFields, root
    <3> QED BY <3>3 DEF FieldsKept, SidxFields, MoovFields
  <2> HIDE DEF w
  <2>4. OnlyMediaIn(bytes, w)
    BY <2>2 DEF OnlyMedia, OnlyMediaIn, LastMdat
  <2>5. OnlyMediaIn(Applied(A, plan), NewAt(plan))
        /\ PreviousKind(Applied(A, plan), NewAt(plan)) # "mdat"
    BY <2>2, <2>4 DEF w
  <2>6. PICK p : p = plan
    OBVIOUS
  <2>7. /\ PlanError(Applied(A, p)) = "None"
        /\ Applied(Applied(A, p), PlanOf(Applied(A, p))) = Applied(A, p)
    <3>1. /\ Planned(A, n, g, track, p) /\ IsPlanFor(p, A)
          /\ OnlyMediaIn(Applied(A, p), NewAt(p))
          /\ PreviousKind(Applied(A, p), NewAt(p)) # "mdat"
      BY <2>2, <2>5, <2>6
    <3> QED BY <2>2, <2>3, <3>1, RefreshStable
  <2> QED BY <2>2, <2>6, <2>7
<1> QED BY <1>1, <1>2, <1>3, <1>4, OutputIs, PTL DEF Spec
=============================================================================
