----------------------------- MODULE MdatStream -----------------------------
(***************************************************************************)
(* stream_mdat_with_sample_edits_non_seekable of src/src/decrypt.rs (its   *)
(* async twin has the same control): one mdat box is read forward from the *)
(* input, the samples the plan names are decrypted, every other byte is    *)
(* copied, and the result is written forward.  The parser, the raw offset  *)
(* queue, the cache of staged auxiliary information and the cache of       *)
(* ciphers each keep their own idea of where the stream stands; the module *)
(* composes them.                                                          *)
(*                                                                         *)
(* A step is one read_exact, one write_all or one pure hand-over, so that  *)
(* the input may end, and either side may fail, between any two of them.   *)
(***************************************************************************)
EXTENDS RangeQueueParser, FiniteSets

CONSTANTS
  BufferLen,  \* queue_buffer.len(), 64 * 1024 in the code
  Schemes,    \* scheme types of Common Encryption
  Keys,       \* content keys
  Plans       \* the mdats, their edits, and how far the input can be read

Plan == [ offset : Nat, header_size : Nat, size : Nat, readable : Nat,
          edits : Seq(Edit(Schemes, Keys)) ]

(* What append_common_encryption_sample_edits guarantees of its edits: each*)
(* lies inside the payload of the mdat it was filed under.                 *)
InsidePayload(plan, edit) ==
  /\ plan.offset + plan.header_size <= edit.absolute_offset
  /\ edit.absolute_offset + edit.sample_size <= plan.offset + plan.size

ASSUME BufferAssumption == BufferLen \in Nat \ {0}

ASSUME NoneAssumption == None \notin Span

ASSUME PlansAssumption ==
  \A plan \in Plans :
    /\ plan \in Plan
    /\ plan.header_size <= plan.size
    /\ \A i \in DOMAIN plan.edits : InsidePayload(plan, plan.edits[i])

VARIABLES
  mdat,                   \* the plan of the box being streamed
  work_queue,             \* sample_edits: the OrderedWorkQueue's items
  input_position,         \* where the next read takes place
  output,                 \* what was written for this box
  cursor,                 \* the function's own cursor over the payload
  copy_cursor,            \* the cursor of copy_range_from_progressive_queue
  raw_queue,
  auxiliary_info_cache,   \* None, or span -> staged samples not yet used
  decryptor_reuse,        \* (scheme, key) -> cipher
  pc,
  error

streamVars == << mdat, work_queue, input_position, output, cursor, copy_cursor,
                 raw_queue, auxiliary_info_cache, decryptor_reuse, pc, error >>

vars == << parserVars, streamVars >>

payload_start == mdat.offset + mdat.header_size
payload_end == mdat.offset + mdat.size

Outcomes == {"done", "failed"}
-----------------------------------------------------------------------------
(* A byte of the output: which input byte it comes from and, for the bytes *)
(* of a decrypted sample, the auxiliary record and the key it was decrypted*)
(* with.                                                                   *)
Copied(offset) == [offset |-> offset, sample |-> 0, key |-> None]

Decrypted(offset, sample, key) == [offset |-> offset, sample |-> sample, key |-> key]

ReadBytes(n) == [i \in 1..n |-> input_position + i - 1]

(* Defect: the last byte of the input is never read.                       *)
CanReadExclusive(n) == input_position + n < mdat.readable

CanRead(n) == input_position + n <= mdat.readable

(* Every `?` of the function: nothing but the outcome changes.             *)
Fail(reason) == pc' = "failed" /\ error' = reason

Start(plan) ==
  /\ mdat = plan
  /\ input_position = plan.offset
  /\ output = << >>
  /\ cursor = plan.offset + plan.header_size
  /\ copy_cursor = plan.offset + plan.header_size
  /\ raw_queue = RawQueueAt(plan.offset + plan.header_size)
  /\ auxiliary_info_cache = None
  /\ decryptor_reuse = << >>
  /\ pc = "header"
  /\ error = "None"
  /\ work_queue \in OrderedItems(plan.edits)
  /\ ParserNew(work_queue, plan.offset + plan.header_size, plan.offset + plan.size)

Init == \E plan \in Plans : Start(plan)
-----------------------------------------------------------------------------
(* ActiveAuxiliaryInfoCache.  stage() sorts the queue's items by absolute  *)
(* offset, which is the parser's own stable sort of the same list, and     *)
(* pushes each sample on the queue of its span: a staged queue holds the   *)
(* places in range_items of the samples of its span, in range order.       *)
ItemsOf(span) == { k \in DOMAIN range_items : range_items[k].span = span }

Ascending(S) ==
  { queue \in [1..Cardinality(S) -> S] :
      /\ \A a, b \in 1..Cardinality(S) : a < b => queue[a] < queue[b]
      /\ \A k \in S : \E a \in 1..Cardinality(S) : queue[a] = k }

StagedCaches ==
  LET spans == auxiliary_info_spans(work_queue) IN
  { staged \in [spans -> UNION { Ascending(ItemsOf(s)) : s \in spans }] :
      \A s \in spans : staged[s] \in Ascending(ItemsOf(s)) }

(* resolved_sample_for_edit: an edit without a span, or a cache that was   *)
(* never staged, falls back on the edit's own record; otherwise the front  *)
(* of the staged queue is taken, and only its sample_index is compared.    *)
UsesCache(edit) == auxiliary_info_cache # None /\ edit.span # None

StagedFront(edit) == range_items[Head(auxiliary_info_cache[edit.span])]

Resolves(edit) ==
  UsesCache(edit) =>
    /\ edit.span \in DOMAIN auxiliary_info_cache
    /\ auxiliary_info_cache[edit.span] # << >>
    /\ StagedFront(edit).sample_index = edit.sample_index

resolved_sample(edit) ==
  IF UsesCache(edit) THEN StagedFront(edit).sample ELSE edit.sample

(* Defect: the record is used and stays in the cache.                      *)
CacheKept(edit) == auxiliary_info_cache

CacheAfter(edit) ==
  IF UsesCache(edit)
    THEN [auxiliary_info_cache EXCEPT ![edit.span] = Tail(@)]
    ELSE auxiliary_info_cache

CacheDrained ==
  auxiliary_info_cache # None =>
    \A span \in DOMAIN auxiliary_info_cache : auxiliary_info_cache[span] = << >>

(* DecryptorReuseCache::touch_or_insert_with: the first key under a reuse  *)
(* key builds the cipher, the later ones reuse it.                         *)
(* Defect: ciphers are shared by scheme, whatever their key.               *)
SchemeOnlyReuseKey(edit) == << edit.scheme_type >>

DecryptorReuseKey(edit) == << edit.scheme_type, edit.content_key >>

Cipher(edit) ==
  IF DecryptorReuseKey(edit) \in DOMAIN decryptor_reuse
    THEN decryptor_reuse[DecryptorReuseKey(edit)]
    ELSE edit.content_key

ReuseAfter(edit) ==
  [k \in DOMAIN decryptor_reuse \cup {DecryptorReuseKey(edit)} |->
     IF k \in DOMAIN decryptor_reuse THEN decryptor_reuse[k] ELSE edit.content_key]
-----------------------------------------------------------------------------
(* The read the stream is about to make, and the bytes it is about to      *)
(* write.  fill_progressive_raw_queue reads up to the end of the range it  *)
(* was asked for, a buffer at a time.                                      *)
copy_end == stage.start + stage.size

(* Defect: the whole range is read before any of it is written.            *)
UnchunkedEnd == copy_end

chunk_end == Lower(copy_end, copy_cursor + BufferLen)

EditAtHand == range_items[stage.item]

target_end ==
  CASE pc = "copy"   -> chunk_end
    [] pc = "sample" -> queue_range_end(EditAtHand)
    [] OTHER         -> QueueTail(raw_queue)

Filled == QueueTail(raw_queue) >= target_end

NextRead ==
  IF pc = "header" THEN mdat.header_size
  ELSE IF Filled THEN 0
  ELSE Lower(BufferLen, target_end - QueueTail(raw_queue))

CopiedWindow ==
  LET bytes == RangeBytes(raw_queue, copy_cursor, chunk_end - copy_cursor)
  IN [i \in DOMAIN bytes |-> Copied(bytes[i])]

DecryptedSample ==
  LET bytes == RangeBytes(raw_queue, EditAtHand.absolute_offset, EditAtHand.sample_size)
  IN [i \in DOMAIN bytes |->
        Decrypted(bytes[i], resolved_sample(EditAtHand), Cipher(EditAtHand))]

NextWrite ==
  CASE pc = "header" -> [i \in 1..mdat.header_size |-> Copied(ReadBytes(mdat.header_size)[i])]
    [] pc = "copy"   -> CopiedWindow
    [] pc = "sample" -> DecryptedSample
    [] OTHER         -> << >>
-----------------------------------------------------------------------------
(* copy_exact_from_current of the header: at most 16 bytes, so one read and*)
(* one write.                                                              *)
CopyHeader ==
  /\ pc = "header"
  /\ CanRead(mdat.header_size)
  /\ input_position' = input_position + mdat.header_size
  /\ output' = output \o NextWrite
  /\ pc' = "next_stage"
  /\ UNCHANGED << parserVars, mdat, work_queue, cursor, copy_cursor, raw_queue,
                  auxiliary_info_cache, decryptor_reuse, error >>

AskParser ==
  /\ pc = "next_stage"
  /\ next_stage
  /\ pc' = "dispatch"
  /\ UNCHANGED << mdat, work_queue, input_position, output, cursor, copy_cursor,
                  raw_queue, auxiliary_info_cache, decryptor_reuse, error >>

StopAtOverlap ==
  /\ pc = "dispatch" /\ stage.kind = "Overlap"
  /\ Fail("Overlap")
  /\ UNCHANGED << parserVars, mdat, work_queue, input_position, output, cursor,
                  copy_cursor, raw_queue, auxiliary_info_cache, decryptor_reuse >>

(* stage(): a span that covers no sample would be an error, and so would a *)
(* sample of a span that was not staged.                                   *)
StageAuxiliaryInfo ==
  /\ pc = "dispatch" /\ stage.kind = "AuxiliaryInfo"
  /\ \E staged \in StagedCaches :
       IF \E span \in DOMAIN staged : staged[span] = << >>
         THEN Fail("AuxiliaryInfo") /\ UNCHANGED auxiliary_info_cache
         ELSE /\ auxiliary_info_cache' = staged
              /\ pc' = "next_stage"
              /\ UNCHANGED error
  /\ UNCHANGED << parserVars, mdat, work_queue, input_position, output, cursor,
                  copy_cursor, raw_queue, decryptor_reuse >>

BeginCopy ==
  /\ pc = "dispatch" /\ stage.kind = "CopyRange"
  /\ IF stage.start # cursor
       THEN Fail("LostPosition") /\ UNCHANGED copy_cursor
       ELSE copy_cursor' = stage.start /\ pc' = "copy" /\ UNCHANGED error
  /\ UNCHANGED << parserVars, mdat, work_queue, input_position, output, cursor,
                  raw_queue, auxiliary_info_cache, decryptor_reuse >>

BeginSample ==
  /\ pc = "dispatch" /\ stage.kind = "WorkItem"
  /\ IF EditAtHand.absolute_offset # cursor
       THEN Fail("LostPosition")
       ELSE pc' = "sample" /\ UNCHANGED error
  /\ UNCHANGED << parserVars, mdat, work_queue, input_position, output, cursor,
                  copy_cursor, raw_queue, auxiliary_info_cache, decryptor_reuse >>

(* One turn of fill_progressive_raw_queue's loop.                          *)
FillQueue ==
  /\ pc \in {"copy", "sample"}
  /\ NextRead > 0 /\ CanRead(NextRead)
  /\ raw_queue' = PushBytes(raw_queue, ReadBytes(NextRead))
  /\ input_position' = input_position + NextRead
  /\ UNCHANGED << parserVars, mdat, work_queue, output, cursor, copy_cursor,
                  auxiliary_info_cache, decryptor_reuse, pc, error >>

(* One turn of copy_range_from_progressive_queue's loop, once filled.      *)
CopyChunk ==
  /\ pc = "copy" /\ copy_cursor < copy_end /\ Filled
  /\ IF /\ RangeAccepts(raw_queue, copy_cursor, chunk_end - copy_cursor)
        /\ TrimAccepts(raw_queue, chunk_end)
       THEN /\ output' = output \o NextWrite
            /\ raw_queue' = TrimTo(raw_queue, chunk_end)
            /\ copy_cursor' = chunk_end
            /\ UNCHANGED << pc, error >>
       ELSE Fail("QueueAccess") /\ UNCHANGED << output, raw_queue, copy_cursor >>
  /\ UNCHANGED << parserVars, mdat, work_queue, input_position, cursor,
                  auxiliary_info_cache, decryptor_reuse >>

EndCopy ==
  /\ pc = "copy" /\ copy_cursor >= copy_end
  /\ cursor' = copy_end
  /\ pc' = "next_stage"
  /\ UNCHANGED << parserVars, mdat, work_queue, input_position, output, copy_cursor,
                  raw_queue, auxiliary_info_cache, decryptor_reuse, error >>

(* The bytes leave the queue before the auxiliary record is taken and the  *)
(* cipher is tried, so a failure in between has already used them up.      *)
DecryptSample ==
  /\ pc = "sample" /\ Filled
  /\ EditAtHand.decodable \/ ~Resolves(EditAtHand)
  /\ IF /\ RangeAccepts(raw_queue, EditAtHand.absolute_offset, EditAtHand.sample_size)
        /\ TrimAccepts(raw_queue, target_end)
       THEN IF Resolves(EditAtHand)
         THEN /\ raw_queue' = TrimTo(raw_queue, target_end)
              /\ auxiliary_info_cache' = CacheAfter(EditAtHand)
              /\ decryptor_reuse' = ReuseAfter(EditAtHand)
              /\ output' = output \o NextWrite
              /\ cursor' = cursor + EditAtHand.sample_size
              /\ pc' = "next_stage"
              /\ UNCHANGED error
         ELSE /\ Fail("AuxiliaryInfo")
              /\ raw_queue' = TrimTo(raw_queue, target_end)
              /\ UNCHANGED << auxiliary_info_cache, decryptor_reuse, output, cursor >>
       ELSE /\ Fail("QueueAccess")
            /\ UNCHANGED << raw_queue, auxiliary_info_cache, decryptor_reuse, output,
                            cursor >>
  /\ UNCHANGED << parserVars, mdat, work_queue, input_position, copy_cursor >>

(* The scheme is unknown, the cipher refuses the sample's layout, or the   *)
(* clear sample came out at another size.                                  *)
RejectSample ==
  /\ pc = "sample" /\ Filled
  /\ ~EditAtHand.decodable /\ Resolves(EditAtHand)
  /\ Fail("Rejected")
  /\ raw_queue' = TrimTo(raw_queue, target_end)
  /\ auxiliary_info_cache' = CacheAfter(EditAtHand)
  /\ UNCHANGED << parserVars, mdat, work_queue, input_position, output, cursor,
                  copy_cursor, decryptor_reuse >>

Finish ==
  /\ pc = "dispatch" /\ stage.kind = "Complete"
  /\ IF CacheDrained THEN pc' = "done" /\ UNCHANGED error ELSE Fail("AuxiliaryInfo")
  /\ UNCHANGED << parserVars, mdat, work_queue, input_position, output, cursor,
                  copy_cursor, raw_queue, auxiliary_info_cache, decryptor_reuse >>
-----------------------------------------------------------------------------
(* read_exact meets the end of the input.                                  *)
InputEnds ==
  /\ NextRead > 0 /\ ~CanRead(NextRead)
  /\ Fail("Eof")
  /\ UNCHANGED << parserVars, mdat, work_queue, input_position, output, cursor,
                  copy_cursor, raw_queue, auxiliary_info_cache, decryptor_reuse >>

(* read_exact fails for any other reason.                                  *)
InputFails ==
  /\ NextRead > 0
  /\ Fail("Io")
  /\ UNCHANGED << parserVars, mdat, work_queue, input_position, output, cursor,
                  copy_cursor, raw_queue, auxiliary_info_cache, decryptor_reuse >>

(* write_all fails after a part of the buffer went out.  The function      *)
(* returns: of its state only the two streams are left to anybody.         *)
OutputFails ==
  /\ pc \in {"header", "copy", "sample"}
  /\ pc = "header" => CanRead(mdat.header_size)
  /\ pc = "copy" => copy_cursor < copy_end
  /\ pc = "sample" => Resolves(EditAtHand) /\ EditAtHand.decodable
  /\ Filled
  /\ \E n \in 1..Len(NextWrite) : output' = output \o SubSeq(NextWrite, 1, n - 1)
  /\ input_position' = IF pc = "header" THEN input_position + mdat.header_size
                                        ELSE input_position
  /\ Fail("Io")
  /\ UNCHANGED << parserVars, mdat, work_queue, cursor, copy_cursor, raw_queue,
                  auxiliary_info_cache, decryptor_reuse >>

Returned == pc \in Outcomes /\ UNCHANGED vars

Advance ==
  \/ CopyHeader \/ AskParser \/ StopAtOverlap \/ StageAuxiliaryInfo
  \/ BeginCopy \/ BeginSample \/ FillQueue \/ CopyChunk \/ EndCopy
  \/ DecryptSample \/ RejectSample \/ Finish \/ InputEnds

Next == Advance \/ InputFails \/ OutputFails \/ Returned

(* The loop runs in one thread (or one task) and nothing in it waits for   *)
(* another party: as long as reads and writes return, it goes on.          *)
Spec == Init /\ [][Next]_vars /\ WF_vars(Advance)
-----------------------------------------------------------------------------
(***************************************************************************)
(* What the stream promises.                                               *)
(***************************************************************************)
EditsAt(offset) ==
  { i \in DOMAIN mdat.edits :
      /\ queue_range_start(mdat.edits[i]) <= offset
      /\ offset < queue_range_end(mdat.edits[i]) }

(* A byte of a sample is decrypted with the record and the key of a sample *)
(* that covers it; a byte of no sample is copied.                          *)
Admissible(offset) ==
  IF EditsAt(offset) = {}
    THEN {Copied(offset)}
    ELSE { Decrypted(offset, mdat.edits[i].sample, mdat.edits[i].content_key) :
             i \in EditsAt(offset) }

Overlapping(e, f) ==
  /\ queue_range_start(e) <= queue_range_start(f)
  /\ queue_range_start(f) < queue_range_end(e)

SomeOverlap ==
  \E i, j \in DOMAIN mdat.edits : i # j /\ Overlapping(mdat.edits[i], mdat.edits[j])

Byte == [offset : Nat, sample : Nat, key : Keys \cup {None}]

TypeOK ==
  /\ range_items \in Seq(Edit(Schemes, Keys))
  /\ next_item_index \in 0..Len(range_items)
  /\ pending_item \in 0..Len(range_items)
  /\ parser_cursor \in Nat /\ range_end \in Nat
  /\ emitted_auxiliary_info \in BOOLEAN /\ emitted_tail \in BOOLEAN
  /\ stage \in Stage /\ stage.item \in 0..Len(range_items)
  /\ mdat \in Plan
  /\ work_queue \in Seq(Edit(Schemes, Keys))
  /\ input_position \in Nat
  /\ output \in Seq(Byte)
  /\ cursor \in Nat /\ copy_cursor \in Nat
  /\ raw_queue \in RawQueue
  /\ \/ auxiliary_info_cache = None
     \/ /\ DOMAIN auxiliary_info_cache \subseteq Span
        /\ \A span \in DOMAIN auxiliary_info_cache :
             auxiliary_info_cache[span] \in Seq(1..Len(range_items))
  /\ \A k \in DOMAIN decryptor_reuse : decryptor_reuse[k] \in Keys
  /\ pc \in {"header", "next_stage", "dispatch", "copy", "sample"} \cup Outcomes
  /\ error \in {"None", "Overlap", "AuxiliaryInfo", "LostPosition", "QueueAccess",
                "Rejected", "Eof", "Io"}

(* Whatever happens, the bytes written for the box are its own bytes, in   *)
(* order and without a gap, each copied or decrypted as the plan says: a   *)
(* failed run leaves a correct prefix (stream_mdat_with_sample_edits).     *)
OutputIsRewrite ==
  /\ Len(output) <= mdat.size
  /\ \A i \in DOMAIN output : output[i] \in Admissible(mdat.offset + i - 1)

(* The raw offset queue describes the input: its tail is where the next    *)
(* read takes place, and the byte it holds for an offset is the input's    *)
(* byte at that offset (fill_progressive_raw_queue reads from wherever the *)
(* input stands, and never seeks).                                         *)
QueueIsWindow ==
  pc \notin Outcomes \cup {"header"} =>
    /\ input_position = QueueTail(raw_queue)
    /\ IsWindow(raw_queue)

(* None of the errors the code raises only when its parts disagree is ever *)
(* raised: the parser and the stream never lose each other's position, the *)
(* queue is never asked for bytes it dropped or has not read, and the      *)
(* staged auxiliary records never drift from the samples they belong to.   *)
PartsAgree == error \notin {"LostPosition", "QueueAccess", "AuxiliaryInfo"}

(* The parser never leaves the payload it was given, which is why its      *)
(* checked additions cannot overflow.                                      *)
ParserStaysInside ==
  /\ payload_start <= parser_cursor /\ parser_cursor <= payload_end
  /\ cursor <= payload_end

(* A finished run wrote the whole box, left the input at the end of it (the*)
(* root loop reads the next box from there), and met no pair of edits that *)
(* would have decrypted a byte twice, and none it could not decrypt.       *)
DoneIsComplete ==
  pc = "done" =>
    /\ Len(output) = mdat.size
    /\ input_position = payload_end
    /\ raw_queue.bytes = << >>
    /\ \A i, j \in DOMAIN mdat.edits :
         i # j => \/ mdat.edits[i].sample_size = 0
                  \/ mdat.edits[j].sample_size = 0
                  \/ ~Overlapping(mdat.edits[i], mdat.edits[j])
    /\ \A i \in DOMAIN mdat.edits : mdat.edits[i].decodable

(* Every failure has its cause in the input: overlapping samples, a sample *)
(* the cipher rejects, an input that ends too early, or a stream that      *)
(* failed.                                                                 *)
FailureHasCause ==
  /\ error = "Overlap"  => SomeOverlap
  /\ error = "Rejected" => \E i \in DOMAIN mdat.edits : ~mdat.edits[i].decodable
  /\ error = "Eof"      => mdat.readable < payload_end

(* The window never outgrows one buffer or one sample, however long the    *)
(* mdat is: the stream runs in bounded memory.                             *)
WindowIsBounded ==
  \/ Len(raw_queue.bytes) <= BufferLen
  \/ \E i \in DOMAIN mdat.edits : Len(raw_queue.bytes) <= mdat.edits[i].sample_size

SoundPlan ==
  /\ ~SomeOverlap
  /\ \A i \in DOMAIN mdat.edits : mdat.edits[i].decodable
  /\ mdat.readable >= payload_end

(* The stream comes to an end on every input, and on a sound plan over a   *)
(* complete input nothing but a failing stream can keep it from finishing. *)
SoundPlanFinishes ==
  /\ <>(pc \in Outcomes)
  /\ SoundPlan ~> (pc = "done" \/ error = "Io")
-----------------------------------------------------------------------------
Rewrite == INSTANCE ForwardRewrite WITH
  admissible <- [i \in 1..mdat.size |-> Admissible(mdat.offset + i - 1)],
  emitted    <- output,
  status     <- IF pc \in Outcomes THEN pc ELSE "running"

(* The stream implements the abstract forward rewriter.                    *)
ImplementsRewrite == Rewrite!Spec
=============================================================================
