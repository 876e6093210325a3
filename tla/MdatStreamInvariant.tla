------------------------- MODULE MdatStreamInvariant -------------------------
(***************************************************************************)
(* The inductive invariant of MdatStream: what the parser, the window, the *)
(* caches and the output know of each other between two steps.  TLC checks *)
(* it on the small instance; MdatStreamProofs proves it for all constants. *)
(***************************************************************************)
EXTENDS MdatStream

Places == 1..Len(range_items)

StartOf(k) == queue_range_start(range_items[k])

EndOf(k) == queue_range_end(range_items[k])

-----------------------------------------------------------------------------
(* What Init fixes for good: the sorted items are the plan's edits, in the *)
(* order of their offsets.                                                 *)
PlanInv ==
  /\ range_end = payload_end
  /\ mdat.header_size <= mdat.size
  /\ \A k \in Places : payload_start <= StartOf(k) /\ EndOf(k) <= payload_end
  /\ \A i, j \in Places : i < j => StartOf(i) <= StartOf(j)
  /\ \A k \in Places : \E i \in DOMAIN mdat.edits : range_items[k] = mdat.edits[i]
  /\ \A i \in DOMAIN mdat.edits : \E k \in Places : range_items[k] = mdat.edits[i]
  /\ \A k \in Places :
       range_items[k].span # None =>
         range_items[k].span \in auxiliary_info_spans(work_queue)
  /\ \A span \in auxiliary_info_spans(work_queue) :
       span # None /\ \E k \in Places : range_items[k].span = span

(* The parser on its own: everything it has handed out lies behind its     *)
(* cursor, except the item whose gap it is waiting to follow up.           *)
ParserInv ==
  /\ payload_start <= parser_cursor /\ parser_cursor <= payload_end
  /\ pending_item \in {0, next_item_index}
  /\ pending_item # 0 => parser_cursor < StartOf(pending_item)
  /\ ~emitted_auxiliary_info => next_item_index = 0 /\ ~emitted_tail
  /\ emitted_tail => next_item_index = Len(range_items) /\ pending_item = 0
  /\ stage.kind # "Overlap" =>
       \A k \in Places :
         k <= next_item_index /\ k # pending_item => EndOf(k) <= parser_cursor

(* A range in hand runs up to the pending item or, after the last item, to *)
(* the end of the payload.                                                 *)
RangeInHand ==
  /\ stage.kind = "CopyRange"
  /\ stage.start = parser_cursor /\ cursor = parser_cursor
  /\ emitted_auxiliary_info
  /\ IF pending_item # 0 THEN copy_end = StartOf(pending_item)
                         ELSE emitted_tail /\ copy_end = payload_end

(* An item in hand begins where the stream stands and ends where the parser*)
(* stands.                                                                 *)
ItemInHand ==
  /\ stage.kind = "WorkItem"
  /\ stage.item \in Places /\ stage.item = next_item_index
  /\ pending_item = 0 /\ ~emitted_tail /\ emitted_auxiliary_info
  /\ cursor = StartOf(stage.item) /\ parser_cursor = EndOf(stage.item)

(* Where the stream stands as seen from the parser.                        *)
AlignInv ==
  /\ pc = "header" =>
       /\ stage.kind = "None" /\ ~emitted_auxiliary_info
       /\ cursor = payload_start /\ parser_cursor = payload_start
  /\ pc = "next_stage" =>
       /\ stage.kind # "Overlap"
       /\ cursor = IF pending_item # 0 THEN StartOf(pending_item)
                   ELSE IF emitted_tail THEN payload_end
                   ELSE parser_cursor
  /\ pc = "dispatch" =>
       \/ /\ stage.kind = "AuxiliaryInfo"
          /\ emitted_auxiliary_info /\ ~emitted_tail
          /\ next_item_index = 0 /\ cursor = parser_cursor
       \/ RangeInHand
       \/ ItemInHand
       \/ /\ stage.kind = "Complete" /\ emitted_auxiliary_info
          /\ next_item_index = Len(range_items) /\ pending_item = 0
          /\ cursor = payload_end
       \/ stage.kind = "Overlap"
  /\ pc = "copy" => /\ RangeInHand
                    /\ stage.start <= copy_cursor /\ copy_cursor <= copy_end
  /\ pc = "sample" => ItemInHand

(* How far the box has been written.                                       *)
WrittenTo ==
  CASE pc = "header" -> mdat.offset
    [] pc = "copy"   -> copy_cursor
    [] pc = "done"   -> payload_end
    [] OTHER         -> cursor

WindowInv ==
  /\ pc = "header" => /\ input_position = mdat.offset
                      /\ raw_queue = RawQueueAt(payload_start)
  /\ pc \in {"next_stage", "dispatch", "copy", "sample", "done"} =>
       /\ raw_queue.head = WrittenTo
       /\ input_position = QueueTail(raw_queue)
       /\ IsWindow(raw_queue)
       /\ QueueTail(raw_queue) <= target_end
  /\ pc \in {"next_stage", "dispatch", "done"} => raw_queue.bytes = << >>

OutputInv ==
  /\ pc # "failed" => mdat.offset + Len(output) = WrittenTo
  /\ OutputIsRewrite

(* The first item whose staged record has not been used.                   *)
FirstUnserved ==
  IF pending_item # 0 THEN pending_item
  ELSE IF stage.kind = "WorkItem" /\ pc \in {"dispatch", "sample"} THEN stage.item
  ELSE next_item_index + 1

Staged ==
  /\ pc \in {"next_stage", "dispatch", "copy", "sample"}
  /\ emitted_auxiliary_info
  /\ ~(pc = "dispatch" /\ stage.kind \in {"AuxiliaryInfo", "Overlap"})

CacheInv ==
  /\ ~emitted_auxiliary_info => auxiliary_info_cache = None
  /\ Staged /\ auxiliary_info_cache # None =>
       /\ DOMAIN auxiliary_info_cache = auxiliary_info_spans(work_queue)
       /\ \A span \in DOMAIN auxiliary_info_cache :
            LET queue == auxiliary_info_cache[span] IN
            /\ \A a, b \in DOMAIN queue : a < b => queue[a] < queue[b]
            /\ \A k \in Places :
                 (\E a \in DOMAIN queue : queue[a] = k) <=>
                   range_items[k].span = span /\ FirstUnserved <= k

ReuseInv ==
  \A k \in DOMAIN decryptor_reuse :
    \E scheme \in Schemes : k = << scheme, decryptor_reuse[k] >>

ErrorInv == PartsAgree /\ (pc # "failed" => error = "None")

(* Everything above, together: each part holds after a step because the    *)
(* others held before it.                                                  *)
IInv ==
  /\ TypeOK /\ PlanInv /\ ParserInv /\ AlignInv
  /\ WindowInv /\ OutputInv /\ CacheInv /\ ReuseInv /\ ErrorInv
-----------------------------------------------------------------------------
(***************************************************************************)
(* What a run knows of its outcome, on top of IInv.                        *)
(***************************************************************************)

(* Sorting twice has moved the edits and neither lost nor doubled any.     *)
EditsAreFiled ==
  \E place \in [Places -> DOMAIN mdat.edits] :
    /\ \A k \in Places : range_items[k] = mdat.edits[place[k]]
    /\ \A k, l \in Places : place[k] = place[l] => k = l
    /\ \A i \in DOMAIN mdat.edits : \E k \in Places : place[k] = i

(* The parser stands at the end of an item it has handed out.              *)
CursorEndsItem ==
  \/ parser_cursor = payload_start
  \/ \E k \in Places : k <= next_item_index /\ parser_cursor = EndOf(k)

(* Items taken so far lie one behind the other, and those served could be  *)
(* decrypted.                                                              *)
TakenApart ==
  stage.kind # "Overlap" =>
    \A i, j \in Places : i < j /\ j <= next_item_index => EndOf(i) <= StartOf(j)

ServedDecodable ==
  pc # "failed" /\ stage.kind # "Overlap" =>
    \A k \in Places : k < FirstUnserved => range_items[k].decodable

DoneServed ==
  pc = "done" =>
    stage.kind = "Complete" /\ next_item_index = Len(range_items) /\ pending_item = 0

OutcomeInv ==
  /\ EditsAreFiled /\ CursorEndsItem /\ TakenApart /\ ServedDecodable /\ DoneServed
  /\ stage.kind = "Overlap" => SomeOverlap
  /\ FailureHasCause
  /\ WindowIsBounded
=============================================================================
