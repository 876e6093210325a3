--------------------------- MODULE MCMovieStream ----------------------------
(***************************************************************************)
(* Movies of two tracks whose five chunks lie in one or two mdats, before  *)
(* or behind the moov; and one thing at a time wrong with such a movie.    *)
(***************************************************************************)
EXTENDS MovieStream

Entry(first, count, description) ==
  [first_chunk |-> first, samples_per_chunk |-> count, sample_description_index |-> description]

Box(type, size) == [type |-> type, size |-> size]

(* Three chunks of two, two and one sample, in order or not.               *)
First(offsets, keyed, fixed, wide) ==
  [entries |-> << Entry(1, 2, 1), Entry(3, 1, 1) >>, offsets |-> offsets,
   sizes |-> IF fixed THEN << 3, 3, 3, 3, 3 >> ELSE << 3, 2, 4, 2, 3 >>,
   clear |-> IF fixed THEN << 2, 2, 2, 2, 2 >> ELSE << 2, 2, 1, 0, 2 >>,
   broken |-> {}, keyed |-> keyed, fixed |-> fixed, wide |-> wide]

(* Two chunks of one sample, one of them empty.                            *)
Second(offsets, size, wide) ==
  [entries |-> << Entry(1, 1, 1) >>, offsets |-> offsets, sizes |-> << size, 0 >>,
   clear |-> << size, 0 >>, broken |-> {2}, keyed |-> FALSE, fixed |-> FALSE, wide |-> wide]

(* Roots with one ftyp, two or none; where the tracks begin, and how long  *)
(* the sample of the second one is.                                        *)
Roots ==
  { [boxes |-> << Box("ftyp", 12), Box("moov", 20), Box("mdat", 40) >>,
     base |-> 40, other |-> 62, size |-> 5],
    [boxes |-> << Box("ftyp", 12), Box("mdat", 40), Box("moov", 40), Box("ftyp", 9) >>,
     base |-> 20, other |-> 42, size |-> 5],
    [boxes |-> << Box("ftyp", 12), Box("mdat", 40), Box("moov", 40) >>,
     base |-> 20, other |-> 42, size |-> 5],
    [boxes |-> << Box("mdat", 26), Box("free", 8), Box("moov", 20), Box("mdat", 70) >>,
     base |-> 8, other |-> 62, size |-> 60] }

Length(root) == FoldLeft(LAMBDA sum, box : sum + box.size, 0, root.boxes)

Movie(root, format, offsets, empty, keyed, fixed, wide) ==
  [boxes |-> root.boxes, length |-> Length(root), format |-> format, new_ftyp |-> 10,
   moov_growth |-> IF keyed THEN -3 ELSE 0,
   tracks |-> << First([c \in 1..3 |-> root.base + offsets[c]], keyed, fixed, wide),
                 Second(<< root.other, root.other + empty >>, root.size, wide) >>]

Sane ==
  { Movie(root, format, offsets, root.size + empty, keyed, fixed, wide) :
      root \in Roots, format \in {"marlin", "oma", "iaec"},
      offsets \in { << 0, 6, 12 >>, << 0, 12, 6 >>, << 12, 0, 6 >> },
      empty \in {-1, 0, 1}, keyed \in BOOLEAN, fixed \in BOOLEAN, wide \in BOOLEAN }

(* One thing wrong.                                                        *)
Wrong(m) ==
  { [m EXCEPT !.length = @ - 12], [m EXCEPT !.tracks[1].broken = {3}],
    [m EXCEPT !.tracks[1].sizes = << >>],
    [m EXCEPT !.tracks[1].clear[2] = 1],
    [m EXCEPT !.tracks[1].fixed = TRUE, !.tracks[1].sizes = << 3, 3, 3, 3, 3 >>,
              !.tracks[1].clear = << 0, 0, 0, 0, 0 >>],
    [m EXCEPT !.tracks[2].offsets[1] = m.tracks[1].offsets[1] + 1],
    [m EXCEPT !.tracks[2].offsets[1] = m.tracks[1].offsets[1]],
    [m EXCEPT !.tracks[2].offsets[2] = 1] }
  \cup { [m EXCEPT !.tracks[2].entries = entries] : entries \in
           { << >>, << Entry(2, 1, 1) >>, << Entry(1, 2, 1) >>, << Entry(1, 1, 0) >>,
             << Entry(1, 1, 1), Entry(1, 1, 1) >>, << Entry(1, 1, 1), Entry(3, 1, 1) >> } }

MCMovies ==
  Sane \cup UNION { Wrong(m) : m \in { m \in Sane : m.format = "oma" } }
=============================================================================
