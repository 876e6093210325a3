------------------------------ MODULE Options -------------------------------
(***************************************************************************)
(* The Option of Rust, in the modules whose proofs share lemmas.           *)
(***************************************************************************)
CONSTANT None  \* the absent value of an Option
=============================================================================
