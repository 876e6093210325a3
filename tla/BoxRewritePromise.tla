-------------------------- MODULE BoxRewritePromise --------------------------
(***************************************************************************)
(* What rewrite_boxes_as promises of its output, against a definition of   *)
(* the edited file that computes every size from the inside out, as the    *)
(* rewrite itself, which writes front to back, cannot.                     *)
(***************************************************************************)
EXTENDS BoxRewrite

(* What lies between two offsets of the input, in the box at path.         *)
Span == [at : Nat, limit : Int, path : Seq(STRING)]

WholeFile == [at |-> 0, limit |-> job.length, path |-> << >>]

InnerPath(span) == Append(span.path, headers[span.at].type)

(* A span goes on with a box, which can be read if it is on a path.        *)
HasBox(span) ==
  /\ span.at + SmallHeader <= span.limit
  /\ span.at \in DOMAIN headers /\ span.at + SmallHeader <= job.length
  /\ CoversHeader(InfoAt(span.at))
  /\ IsMatched(InnerPath(span)) => Decodes(InfoAt(span.at))

Children(span) ==
  LET box == InfoAt(span.at)
  IN  [at |-> ChildrenOffset(box), limit |-> EndOf(box) - TrailingSize(box),
       path |-> InnerPath(span)]

Rest(span) == [span EXCEPT !.at = EndOf(InfoAt(span.at))]

(* The payload of a box, its edited children, and what is behind them.     *)
Inside(span, children) ==
  LET box == InfoAt(span.at)
      trailing == TrailingSize(box)
  IN  << PayloadPiece(span.at, InnerPath(span)) >> \o children
      \o (IF trailing = 0 THEN << >>
          ELSE << CopyPiece(EndOf(box) - trailing, trailing, "trailing") >>)

(* The header that counts what is inside, and what is inside.              *)
Enclosed(span, inside) ==
  LET box == InfoAt(span.at)
      whole == [box EXCEPT !.size = box.header_size + SizeOf(inside), !.extend_to_eof = FALSE]
  IN  << HeaderPiece(whole, span.at) >> \o inside

(* The pieces of the edited file, sizes from the inside out: those of the  *)
(* boxes in a span.                                                        *)
Edited[span \in Span] ==
  IF ~ HasBox(span) THEN << >>
  ELSE (IF IsMatched(InnerPath(span))
        THEN Enclosed(span, Inside(span, Edited[Children(span)]))
        ELSE << CopyPiece(span.at, InfoAt(span.at).size, "copy") >>)
       \o Edited[Rest(span)]

EditedFile ==
  IF job.paths = {} THEN << CopyPiece(0, job.length, "copy") >> ELSE Edited[WholeFile]

Count(pieces, kind) == Cardinality({ i \in DOMAIN pieces : pieces[i].kind = kind })

(* The output of a rewrite that succeeds is the edited file: every header  *)
(* counts what came to stand behind it, boxes on no path and the bytes     *)
(* behind the children of visual sample entries are there unchanged and in *)
(* their order, and each payload at the end of a path was edited once.  The*)
(* bytes too few for a box that a QuickTime sequence may end with are not. *)
OutputIsEdited ==
  state = "done" =>
    /\ output = EditedFile
    /\ rewritten_count = Count(output, "edited")
    /\ box_stack = << >>

(* The boxes of a span lie side by side, and those on a path can be read,  *)
(* hold what their paths expect, and do not outgrow their header.  A box   *)
(* whose type is the wildcard is on every path that is long enough.        *)
Sound[span \in Span, quick \in BOOLEAN] ==
  IF span.at = span.limit THEN TRUE
  ELSE IF span.at + SmallHeader > span.limit THEN quick /\ span.path # << >>
  ELSE /\ span.at \in DOMAIN headers
       /\ LET at == span.at
              box == InfoAt(at)
              ftyp == span.path = << >> /\ headers[at].type = "ftyp" /\ job.names_quicktime
          IN  /\ box.size > 0 /\ CoversHeader(box) /\ EndOf(box) <= span.limit
              /\ IsCarrier(at, span.path) => Decodes(box)
              /\ Sound[Rest(span), quick \/ ftyp]
              /\ IsMatched(InnerPath(span)) =>
                   /\ Decodes(box)
                   /\ ExactMatch(InnerPath(span)) => headers[at].type \in job.typed /\ job.encodes
                   /\ Sound[Children(span), quick \/ ftyp]

FitsHeaders ==
  SizeOf(EditedFile) <= U32Max

(* A well-formed file whose new sizes fit into 32 bits is rewritten.       *)
WellFormedIsRewritten ==
  <>(state = "done" \/ << >> \in job.paths \/ ~ Sound[WholeFile, FALSE] \/ ~ FitsHeaders)
============================================================================
