-------------------------- MODULE RangeQueueParser --------------------------
(***************************************************************************)
(* RangeQueueParser of src/src/queue.rs: it walks one payload range in     *)
(* offset order and hands its caller one stage at a time: first the        *)
(* auxiliary information spans, then alternating gaps to copy and work     *)
(* items, then the tail of the range, then Complete.  One action per path  *)
(* through next_stage.  Offsets are unbounded naturals: every edit was     *)
(* found inside an mdat whose end is a u64, so checked_range_end cannot    *)
(* overflow (ParserStaysInside in MdatStream states what that rests on).   *)
(***************************************************************************)
EXTENDS OrderedWorkQueue

VARIABLES
  range_items,             \* the items, sorted by range start
  next_item_index,         \* how many items next_stage has taken
  pending_item,            \* the item whose gap was handed out, 0 for None
  parser_cursor,           \* RangeQueueParser::cursor
  range_end,
  emitted_auxiliary_info,
  emitted_tail,
  stage                    \* what the last next_stage returned

parserVars == << range_items, next_item_index, pending_item, parser_cursor,
                 range_end, emitted_auxiliary_info, emitted_tail, stage >>

StageKinds == {"None", "AuxiliaryInfo", "CopyRange", "WorkItem", "Complete",
               "Overlap"}

Stage == [kind : StageKinds, start : Nat, size : Nat, item : Nat]

Returns(kind) == stage' = [kind |-> kind, start |-> 0, size |-> 0, item |-> 0]

ReturnsRange(start, end) ==
  stage' = [kind |-> "CopyRange", start |-> start, size |-> end - start, item |-> 0]

ReturnsItem(k) ==
  stage' = [kind |-> "WorkItem", start |-> 0, size |-> 0, item |-> k]

(* Defect: the queue's own order is taken for the range order.             *)
UnsortedItems(items) == {items}

(* The second sort of the two: by range start, over the queue's own order. *)
SortedByRangeStart(items) == StableSorts(items, queue_range_start)

ParserNew(items, start, end) ==
  /\ range_items \in SortedByRangeStart(items)
  /\ next_item_index = 0
  /\ pending_item = 0
  /\ parser_cursor = start
  /\ range_end = end
  /\ emitted_auxiliary_info = FALSE
  /\ emitted_tail = FALSE
  /\ stage = [kind |-> "None", start |-> 0, size |-> 0, item |-> 0]

-----------------------------------------------------------------------------
Quiet == pending_item = 0 /\ emitted_auxiliary_info

NextItem == next_item_index + 1

NextStart == queue_range_start(range_items[NextItem])

HasNextItem == NextItem \in DOMAIN range_items

(* Defect: an item that merely touches the previous one counts as overlap. *)
TouchesParsed(start) == start <= parser_cursor

OverlapsParsed(start) == start < parser_cursor

(* Defect: the end of the item is added to the cursor, not assigned.       *)
CursorPlusEnd(k) == parser_cursor + queue_range_end(range_items[k])

CursorAfter(k) == queue_range_end(range_items[k])

(* The gap before pending_item was handed out by the previous call.        *)
TakePendingItem ==
  /\ pending_item # 0
  /\ parser_cursor' = CursorAfter(pending_item)
  /\ pending_item' = 0
  /\ ReturnsItem(pending_item)
  /\ UNCHANGED << range_items, next_item_index, range_end,
                  emitted_auxiliary_info, emitted_tail >>

EmitAuxiliaryInfo ==
  /\ pending_item = 0
  /\ ~emitted_auxiliary_info
  /\ emitted_auxiliary_info' = TRUE
  /\ Returns("AuxiliaryInfo")
  /\ UNCHANGED << range_items, next_item_index, pending_item, parser_cursor,
                  range_end, emitted_tail >>

(* The index moves on before the overlap is reported.                      *)
RejectOverlap ==
  /\ Quiet /\ HasNextItem
  /\ OverlapsParsed(NextStart)
  /\ next_item_index' = NextItem
  /\ Returns("Overlap")
  /\ UNCHANGED << range_items, pending_item, parser_cursor, range_end,
                  emitted_auxiliary_info, emitted_tail >>

CopyGapBeforeItem ==
  /\ Quiet /\ HasNextItem
  /\ NextStart > parser_cursor
  /\ next_item_index' = NextItem
  /\ pending_item' = NextItem
  /\ ReturnsRange(parser_cursor, NextStart)
  /\ UNCHANGED << range_items, parser_cursor, range_end,
                  emitted_auxiliary_info, emitted_tail >>

TakeItemAtCursor ==
  /\ Quiet /\ HasNextItem
  /\ NextStart = parser_cursor
  /\ next_item_index' = NextItem
  /\ parser_cursor' = CursorAfter(NextItem)
  /\ ReturnsItem(NextItem)
  /\ UNCHANGED << range_items, pending_item, range_end,
                  emitted_auxiliary_info, emitted_tail >>

(* The cursor stays where it is: emitted_tail is what stops a second tail. *)
EmitTail ==
  /\ Quiet /\ ~HasNextItem
  /\ ~emitted_tail /\ parser_cursor < range_end
  /\ emitted_tail' = TRUE
  /\ ReturnsRange(parser_cursor, range_end)
  /\ UNCHANGED << range_items, next_item_index, pending_item, parser_cursor,
                  range_end, emitted_auxiliary_info >>

(* Defect: the tail of the range is forgotten.                             *)
CompleteAfterItems ==
  /\ Quiet /\ ~HasNextItem
  /\ Returns("Complete")
  /\ UNCHANGED << range_items, next_item_index, pending_item, parser_cursor,
                  range_end, emitted_auxiliary_info, emitted_tail >>

Complete ==
  /\ Quiet /\ ~HasNextItem
  /\ emitted_tail \/ parser_cursor >= range_end
  /\ Returns("Complete")
  /\ UNCHANGED << range_items, next_item_index, pending_item, parser_cursor,
                  range_end, emitted_auxiliary_info, emitted_tail >>

next_stage ==
  \/ TakePendingItem
  \/ EmitAuxiliaryInfo
  \/ RejectOverlap
  \/ CopyGapBeforeItem
  \/ TakeItemAtCursor
  \/ EmitTail
  \/ Complete
=============================================================================
