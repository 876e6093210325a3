----------------------------- MODULE BoxHeader -----------------------------
(***************************************************************************)
(* The header of a box, src/src/header.rs: which form it is written in, the*)
(* size that goes into the file, and what a reader makes of it.            *)
(*                                                                         *)
(* A header on disk is told apart by its form and the number in its size   *)
(* field; a box that reaches to the end of the file has no number.         *)
(***************************************************************************)
EXTENDS Naturals

CONSTANT U32Max  \* the largest size a small header holds

SmallHeader == 8
LargeHeader == 16

ASSUME U32MaxAssumption == U32Max \in Nat /\ U32Max >= LargeHeader

(* BoxInfo: where a box lies, how long it is, how long its header is.      *)
BoxInfo == [offset : Nat, size : Nat, header_size : {SmallHeader, LargeHeader},
            extend_to_eof : BOOLEAN]

NewInfo(size) ==
  [offset |-> 0, size |-> size, header_size |-> SmallHeader, extend_to_eof |-> FALSE]

HeaderForm(info) ==
  IF info.extend_to_eof THEN "ExtendToEof"
  ELSE IF info.size <= U32Max /\ info.header_size # LargeHeader THEN "Small" ELSE "Large"

EncodedSize(info) == IF HeaderForm(info) = "Large" THEN LargeHeader ELSE SmallHeader

(* The bytes of a header: its form and its size field.                     *)
Encoded(info) ==
  [form |-> HeaderForm(info), field |-> IF info.extend_to_eof THEN 0 ELSE info.size]

(* The size covers the header the caller counted on.                       *)
CoversHeader(info) == info.size >= info.header_size

(* What BoxInfo::write returns of a header written at offset.              *)
Normalized(info, offset) ==
  [offset |-> offset,
   size |-> (info.size - info.header_size) + EncodedSize(info),
   header_size |-> EncodedSize(info),
   extend_to_eof |-> info.extend_to_eof]

(* What BoxInfo::read makes of a header at offset in a stream of length    *)
(* end.                                                                    *)
ReadBack(header, offset, end) ==
  [offset |-> offset,
   size |-> IF header.form = "ExtendToEof" THEN end - offset ELSE header.field,
   header_size |-> IF header.form = "Large" THEN LargeHeader ELSE SmallHeader,
   extend_to_eof |-> header.form = "ExtendToEof"]
=============================================================================
