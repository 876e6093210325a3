----------------------------- MODULE BoxRewrite -----------------------------
(***************************************************************************)
(* rewrite_boxes_as of src/src/rewrite.rs: a depth-first walk that copies  *)
(* the boxes no path leads to, decodes and encodes again those on a path,  *)
(* and edits those at its end; and the Writer of src/src/writer.rs, which  *)
(* writes a placeholder for each header and comes back with the size.      *)
(*                                                                         *)
(* Three positions move at once: the reader's, what is left of each open   *)
(* sequence, and the writer's.  A file is its headers by offset and how    *)
(* many bytes the decoder of each box reads; the output is the sequence of *)
(* its pieces.                                                             *)
(***************************************************************************)
EXTENDS BoxHeader, Sums, Sequences, FiniteSets

CONSTANTS
  Jobs,     \* a file, the paths to edit, and what the edit does
  Wildcard  \* the type that matches any other, in a path and in a file

Header == [type : STRING, form : {"Small", "Large", "ExtendToEof"}, field : Nat,
           own : Nat, decodes : BOOLEAN, visual : BOOLEAN]

VARIABLES
  job, state, error,
  reader,           \* where the input stands
  frames,           \* the sequences being rewritten, outermost first
  box_stack,        \* the writer's open boxes
  output,
  rewritten_count

vars == << job, state, error, reader, frames, box_stack, output, rewritten_count >>
-----------------------------------------------------------------------------
headers == job.headers

Matches(lhs, rhs) == lhs = Wildcard \/ rhs = Wildcard \/ lhs = rhs

(* BoxPath::compare_with.                                                  *)
LeadsTo(path, other) ==
  /\ Len(path) <= Len(other)
  /\ \A i \in DOMAIN path : Matches(path[i], other[i])

ForwardMatch(path) ==
  \E other \in job.paths : LeadsTo(path, other) /\ Len(path) < Len(other)

ExactMatch(path) ==
  \E other \in job.paths : LeadsTo(path, other) /\ Len(path) = Len(other)

IsMatched(path) == ForwardMatch(path) \/ ExactMatch(path)

InfoIn(file, at) == ReadBack(file.headers[at], at, file.length)

InfoAt(at) == InfoIn(job, at)

EndOf(info) == info.offset + info.size

PayloadSize(info) == info.size - info.header_size

(* What the decoder of the box at an offset reads, and what it writes after*)
(* the edit.                                                               *)
OwnSize(at) == headers[at].own

NewOwnSize(at, path) == IF ExactMatch(path) THEN OwnSize(at) + job.growth ELSE OwnSize(at)

ChildrenIn(file, info) == info.offset + info.header_size + file.headers[info.offset].own

ChildrenOffset(info) == ChildrenIn(job, info)

(* split_box_children_with_optional_trailing_bytes: how much of the bytes  *)
(* from at to limit is boxes.                                              *)
BoxesEnd(file, at, limit) ==
  LET next[o \in at..limit] ==
        IF /\ o + SmallHeader <= limit /\ o \in DOMAIN file.headers
           /\ LET box == InfoIn(file, o) IN
              ~ box.extend_to_eof /\ CoversHeader(box) /\ EndOf(box) <= limit
        THEN next[EndOf(InfoIn(file, o))] ELSE o
  IN  next[at]

(* A visual sample entry may be followed by bytes that are no box.         *)
TrailingIn(file, info) ==
  IF file.headers[info.offset].visual
  THEN EndOf(info) - BoxesEnd(file, ChildrenIn(file, info), EndOf(info)) ELSE 0

TrailingSize(info) == TrailingIn(job, info)

(* What a decoder reads lies in the file at natural offsets.               *)
ASSUME JobsAssumption ==
  \A file \in Jobs :
    /\ file.length \in Nat /\ file.growth \in Int /\ file.names_quicktime \in BOOLEAN
    /\ DOMAIN file.headers \subseteq Nat
    /\ \A at \in DOMAIN file.headers : file.headers[at] \in Header

SizeOf(pieces) == SumTo([i \in DOMAIN pieces |-> pieces[i].size], Len(pieces))

HeaderPiece(info, at) ==
  [kind |-> "header", of |-> at, size |-> EncodedSize(info), written |-> Encoded(info)]

PayloadPiece(at, path) ==
  [kind |-> IF ExactMatch(path) THEN "edited" ELSE "payload", of |-> at,
   size |-> NewOwnSize(at, path), written |-> Encoded(NewInfo(0))]

CopyPiece(at, size, kind) ==
  [kind |-> kind, of |-> at, size |-> size, written |-> Encoded(NewInfo(0))]
-----------------------------------------------------------------------------
Root == [remaining |-> 0, path |-> << >>, quick |-> FALSE, of |-> 0, trailing |-> 0]

Init ==
  /\ job \in Jobs
  /\ state = "running" /\ error = "none"
  /\ reader = 0
  /\ frames = << Root >> /\ box_stack = << >> /\ output = << >> /\ rewritten_count = 0

depth == Len(frames)
frame == frames[depth]
IsRoot == depth = 1
info == InfoAt(reader)
current_path == Append(frame.path, headers[reader].type)

(* validate_paths.                                                         *)
RefusePaths ==
  /\ state = "running" /\ << >> \in job.paths
  /\ state' = "failed" /\ error' = "empty_path"
  /\ UNCHANGED << job, reader, frames, box_stack, output, rewritten_count >>

CopyFile ==
  /\ state = "running" /\ job.paths = {}
  /\ state' = "done"
  /\ output' = << CopyPiece(0, job.length, "copy") >>
  /\ reader' = job.length
  /\ UNCHANGED << job, error, frames, box_stack, rewritten_count >>

(* What has been written stays in the output; nobody reads it again.       *)
Fail(why) ==
  /\ state' = "failed" /\ error' = why
  /\ UNCHANGED << job, reader, frames, box_stack, output, rewritten_count >>

(* unmarshal finds a payload it can read, and the bytes it needs.          *)
Decodes(box) ==
  /\ headers[box.offset].decodes
  /\ OwnSize(box.offset) <= PayloadSize(box)
  /\ box.offset + box.header_size + OwnSize(box.offset) <= job.length

(* The loop goes on: the sequence may hold another box.                    *)
InSequence ==
  /\ state = "running" /\ job.paths # {} /\ << >> \notin job.paths
  /\ IsRoot \/ frame.remaining >= SmallHeader

HasHeader ==
  /\ reader \in DOMAIN headers
  /\ reader + EncodedSize(info) <= job.length

FitsSequence == IsRoot \/ info.size <= frame.remaining

IsCarrier(at, path) == headers[at].type = "keys" \/ (headers[at].type = "ftyp" /\ path = << >>)

(* inspect_context_carriers decodes what later boxes are decoded by.       *)
CarrierIsRead == IsCarrier(reader, frame.path) => Decodes(info)

ReadsHeader ==
  /\ InSequence /\ HasHeader
  /\ info.size > 0 /\ CoversHeader(info)
  /\ FitsSequence /\ CarrierIsRead

(* The file ends where a box of the root sequence would begin.             *)
EndOfFile ==
  /\ InSequence /\ IsRoot /\ reader = job.length
  /\ state' = "done"
  /\ UNCHANGED << job, error, reader, frames, box_stack, output, rewritten_count >>

RefuseHeader ==
  /\ InSequence
  /\ \/ ~ HasHeader /\ ~ (IsRoot /\ reader = job.length)
     \/ HasHeader /\ (info.size = 0 \/ ~ CoversHeader(info))
  /\ Fail("header")

RefuseSize ==
  /\ InSequence /\ HasHeader /\ info.size > 0 /\ CoversHeader(info)
  /\ ~ FitsSequence
  /\ Fail("too_large_box_size")

RefuseCarrier ==
  /\ InSequence /\ HasHeader /\ info.size > 0 /\ CoversHeader(info)
  /\ FitsSequence /\ ~ CarrierIsRead
  /\ Fail("payload")

(* Defect: the header of the box is not taken off.                         *)
LessPayload(remaining, size) == remaining - (size - SmallHeader)

LessBox(remaining, size) == remaining - size

(* Defect: only an ftyp that some path leads to is looked into.            *)
PathNamesQuickTime ==
  /\ frame.path = << >> /\ headers[reader].type = "ftyp" /\ job.names_quicktime
  /\ IsMatched(current_path)

(* An ftyp of the root that names QuickTime changes how the sequences after*)
(* it end.                                                                 *)
NamesQuickTime == frame.path = << >> /\ headers[reader].type = "ftyp" /\ job.names_quicktime

Charged(quick) ==
  [frame EXCEPT !.remaining = IF IsRoot THEN @ ELSE LessBox(@, info.size), !.quick = quick]

CopyBox ==
  /\ ReadsHeader /\ ~ IsMatched(current_path)
  /\ EndOf(info) <= job.length
  /\ output' = Append(output, CopyPiece(reader, info.size, "copy"))
  /\ reader' = EndOf(info)
  /\ frames' = [frames EXCEPT ![depth] = Charged(frame.quick \/ NamesQuickTime)]
  /\ UNCHANGED << job, state, error, box_stack, rewritten_count >>

(* The file ends inside a box that is copied.                              *)
CopyFails ==
  /\ ReadsHeader /\ ~ IsMatched(current_path)
  /\ EndOf(info) > job.length
  /\ Fail("incomplete_copy")

(* visual_sample_entry_children_layout reads all there is of the box.      *)
ChildrenAreRead == headers[reader].visual => EndOf(info) <= job.length

IsWanted == ExactMatch(current_path) => headers[reader].type \in job.typed

(* marshal_dyn may refuse what the edit made of the payload.               *)
Encodes == ExactMatch(current_path) => job.encodes

RefusePayload ==
  /\ ReadsHeader /\ IsMatched(current_path)
  /\ ~ Decodes(info) \/ ~ IsWanted \/ ~ Encodes \/ ~ ChildrenAreRead
  /\ Fail("payload")

Placeholder == [info EXCEPT !.size = info.header_size]

(* process_box on a path: placeholder and payload go out, and the sequence *)
(* of its children opens.                                                  *)
EnterBox ==
  /\ ReadsHeader /\ IsMatched(current_path)
  /\ Decodes(info) /\ IsWanted /\ Encodes /\ ChildrenAreRead
  /\ rewritten_count' = rewritten_count + (IF ExactMatch(current_path) THEN 1 ELSE 0)
  /\ box_stack' = Append(box_stack, [info |-> Normalized(Placeholder, SizeOf(output)),
                                     piece |-> Len(output) + 1])
  /\ output' = output \o << HeaderPiece(Placeholder, reader),
                            PayloadPiece(reader, current_path) >>
  /\ frames' = Append([frames EXCEPT ![depth] = Charged(frame.quick)],
                      [remaining |-> PayloadSize(info) - OwnSize(reader) - TrailingSize(info),
                       path |-> current_path,
                       quick |-> frame.quick \/ NamesQuickTime,
                       of |-> reader, trailing |-> TrailingSize(info)])
  /\ reader' = ChildrenOffset(info)
  /\ UNCHANGED << job, state, error >>
-----------------------------------------------------------------------------
(* The sequence of a box is over, and so is the box.                       *)
AtSequenceEnd == state = "running" /\ ~ IsRoot /\ frame.remaining < SmallHeader

RefuseRest ==
  /\ AtSequenceEnd
  /\ frame.remaining # 0 /\ ~ frame.quick
  /\ Fail("unexpected_eof")

Trailing ==
  IF frame.trailing = 0 THEN << >>
  ELSE << CopyPiece(EndOf(InfoAt(frame.of)) - frame.trailing, frame.trailing, "trailing") >>

started == box_stack[Len(box_stack)]

(* Defect: the size counts from the end of the header.                     *)
SizeBehindHeader(end) == end - started.info.offset - started.info.header_size

FinalSize(end) == end - started.info.offset

Final ==
  [started.info EXCEPT !.size = FinalSize(SizeOf(output \o Trailing)), !.extend_to_eof = FALSE]

MayEnd == AtSequenceEnd /\ (frame.remaining = 0 \/ frame.quick)

(* end_box: the header is written again over the placeholder.              *)
EndBox ==
  /\ MayEnd
  /\ EncodedSize(Final) = started.info.header_size
  /\ output' = [output EXCEPT ![started.piece] = HeaderPiece(Final, frame.of)] \o Trailing
  /\ box_stack' = SubSeq(box_stack, 1, Len(box_stack) - 1)
  /\ reader' = EndOf(InfoAt(frame.of))
  /\ frames' = [SubSeq(frames, 1, depth - 1) EXCEPT
                  ![depth - 1].quick = @ \/ frame.quick]
  /\ UNCHANGED << job, state, error, rewritten_count >>

(* The box has outgrown its header; what follows it is overwritten.        *)
RefuseGrowth ==
  /\ MayEnd
  /\ EncodedSize(Final) # started.info.header_size
  /\ Fail("header_size_changed")

Ended == state # "running" /\ UNCHANGED vars

Walk ==
  \/ RefusePaths \/ CopyFile
  \/ EndOfFile \/ RefuseHeader \/ RefuseSize \/ RefuseCarrier \/ CopyBox \/ CopyFails
  \/ RefusePayload \/ EnterBox \/ RefuseRest \/ EndBox \/ RefuseGrowth

Next == Walk \/ Ended

(* One call, run to its end.                                               *)
Spec == Init /\ [][Next]_vars /\ WF_vars(Walk)
-----------------------------------------------------------------------------
SequenceEnd(d) == EndOf(InfoAt(frames[d].of)) - frames[d].trailing

NextStart(d) == IF d = depth THEN reader ELSE EndOf(InfoAt(frames[d + 1].of))

(* While the walk is on, the reader, what is left of each open sequence and*)
(* the writer's open boxes agree: each sequence ends where its box does,   *)
(* and each open header is where its box began.                            *)
FramesAgree ==
  state = "running" =>
    /\ Len(box_stack) = depth - 1
    /\ \A d \in 2..depth : NextStart(d) + frames[d].remaining = SequenceEnd(d)
    /\ \A d \in DOMAIN box_stack :
         /\ output[box_stack[d].piece].kind = "header"
         /\ output[box_stack[d].piece].of = frames[d + 1].of
         /\ box_stack[d].info.offset = SizeOf(SubSeq(output, 1, box_stack[d].piece - 1))
=============================================================================
