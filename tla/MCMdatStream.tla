---------------------------- MODULE MCMdatStream ----------------------------
(***************************************************************************)
(* MdatStream on an mdat of six bytes at offset 1: one header byte and the *)
(* payload 2..6, read two bytes at a time.  The plans come in families,    *)
(* each of which exhausts one thing that can vary; see README.md.          *)
(***************************************************************************)
EXTENDS MdatStreamInvariant

CONSTANTS k1, k2

MCKeys == {k1, k2}
MCSchemes == {"cenc", "cbcs"}

Before == [absolute_offset |-> 0, size |-> 1]
After  == [absolute_offset |-> 9, size |-> 1]
Spans  == {None, Before, After}

(* Where a sample may lie: offset and size, empty ones included.           *)
SamplePlaces == { place \in (2..7) \X (0..2) : place[1] + place[2] <= 7 }

EditAt(place, span, id, index, scheme, key, decodable) ==
  [ absolute_offset |-> place[1], sample_size |-> place[2], span |-> span,
    sample |-> id, sample_index |-> index, scheme_type |-> scheme,
    content_key |-> key, decodable |-> decodable ]

PlanOf(edits, readable) ==
  [offset |-> 1, header_size |-> 1, size |-> 6, readable |-> readable, edits |-> edits]

(* Every placement of two samples, overlapping ones included, with and     *)
(* without a span that moves the sample forward in the work queue.         *)
PlacementPlans ==
  { PlanOf(<< EditAt(p, s, 1, 1, "cenc", k1, TRUE), EditAt(q, t, 2, 2, "cenc", k1, TRUE) >>, 7) :
      p, q \in SamplePlaces, s, t \in {None, Before} }

Thirds == << <<2, 2>>, <<4, 1>>, <<5, 1>> >>

Orders == { << 1, 2, 3 >>, << 1, 3, 2 >>, << 2, 1, 3 >>, << 2, 3, 1 >>, << 3, 1, 2 >>,
            << 3, 2, 1 >> }

(* Three samples side by side, filed in any order, with any spans; samples *)
(* of two tracks may bear the same sample number.                          *)
Numberings == { << 1, 1, 1 >>, << 1, 1, 2 >>, << 1, 2, 3 >> }

CachePlans ==
  { PlanOf([i \in 1..3 |-> EditAt(Thirds[o[i]], s[i], i, n[i], "cenc", k1, TRUE)], 7) :
      o \in Orders, s \in [1..3 -> Spans], n \in Numberings }

(* Three samples with any schemes and keys, the cipher accepting all of    *)
(* them or all but the last.                                               *)
CipherPlans ==
  { PlanOf([i \in 1..3 |-> EditAt(Thirds[i], Before, i, i, c[i], k[i], i = 3 => d)], 7) :
      c \in [1..3 -> MCSchemes], k \in [1..3 -> MCKeys], d \in BOOLEAN }

(* An input that ends anywhere, under no sample, one long sample, or two.  *)
TruncatedPlans ==
  { PlanOf(e, r) :
      r \in 0..7,
      e \in { << >>,
              << EditAt(<<2, 5>>, None, 1, 1, "cenc", k1, TRUE) >>,
              << EditAt(<<5, 2>>, After, 1, 1, "cenc", k1, TRUE),
                 EditAt(<<2, 2>>, Before, 2, 1, "cbcs", k2, TRUE) >> } }

MCPlans == PlacementPlans \cup CachePlans \cup CipherPlans \cup TruncatedPlans
=============================================================================
