---------------------------- MODULE MCBoxRewrite ----------------------------
(***************************************************************************)
(* Files of up to four levels for the rewrite: a small tree is laid out    *)
(* into headers by offset, the size in a header may lie, and bytes that are*)
(* no box may follow the children of one, and a box may have the type that *)
(* matches any.                                                            *)
(***************************************************************************)
EXTENDS BoxRewritePromise, SequencesExt, TLC

Node == [type |-> "free", form |-> "Small", own |-> 0, decodes |-> TRUE, visual |-> FALSE,
         kids |-> << >>, tail |-> 0, lie |-> 0]

Leaf(type, own) == [Node EXCEPT !.type = type, !.own = own]

Parent(type, kids) == [Leaf(type, 1) EXCEPT !.kids = kids]

HeaderSize(node) == IF node.form = "Large" THEN LargeHeader ELSE SmallHeader

RECURSIVE NodeSize(_)
NodeSize(node) ==
  HeaderSize(node) + node.own + node.tail
  + FoldSeq(LAMBDA kid, sum : NodeSize(kid) + sum, 0, node.kids)

RECURSIVE Laid(_, _)
Laid(nodes, at) ==
  IF nodes = << >> THEN << >>
  ELSE LET node == Head(nodes)
           header == [type |-> node.type, form |-> node.form, own |-> node.own,
                      decodes |-> node.decodes, visual |-> node.visual,
                      field |-> IF node.form = "ExtendToEof" THEN 0
                                ELSE NodeSize(node) + node.lie]
       IN  (at :> header)
           @@ Laid(node.kids, at + HeaderSize(node) + node.own)
           @@ Laid(Tail(nodes), at + NodeSize(node))

LengthOf(nodes) == FoldSeq(LAMBDA node, sum : NodeSize(node) + sum, 0, nodes)

JobOf(nodes, paths, growth, quick, cut) ==
  [headers |-> Laid(nodes, 0), length |-> LengthOf(nodes) - cut, paths |-> paths,
   growth |-> growth, encodes |-> growth # 0, typed |-> {"tkhd", "moov", "ftyp"}, names_quicktime |-> quick]

(* A sample entry whose children are followed by bytes that are no box, and*)
(* such a sequence in any other box.                                       *)
Entries ==
  { [Parent("avc1", kids) EXCEPT !.own = 2, !.tail = t, !.visual = v] :
      kids \in { << >>, << Leaf("tkhd", 4) >>, << Leaf("tkhd", 4), Node >> },
      t \in {0, 4, 9}, v \in BOOLEAN }

Tracks ==
  { [Parent("trak", << entry >> \o rest) EXCEPT !.form = f, !.tail = t] :
      entry \in { e \in Entries : ~ e.visual => e.tail # 9 },
      rest \in { << >>, << Leaf("tkhd", 4) >> },
      f \in {"Small", "Large"}, t \in {0, 3} }

(* One thing at a time is wrong with the box, or nothing.                  *)
Variants(node) ==
  { node, [node EXCEPT !.decodes = FALSE], [node EXCEPT !.own = 1, !.lie = -9],
    [node EXCEPT !.lie = -1], [node EXCEPT !.lie = 1], [node EXCEPT !.lie = 40],
    [node EXCEPT !.lie = 0 - NodeSize(node)],
    [node EXCEPT !.lie = 5 - NodeSize(node)] }

Paths ==
  { {}, { << >> }, { << "moov", "trak", "avc1", "tkhd" >> }, { << "moov", Wildcard, "tkhd" >> },
    { << "moov", Wildcard, Wildcard, Wildcard >> }, { << "moov" >>, << "moov", "trak", "avc1", "tkhd" >> },
    { << "ftyp" >>, << "moov", "trak", "tkhd" >> }, { << "none" >> }, { << "moov", "trak" >> } }

SoundJobs ==
  { JobOf(<< Leaf("ftyp", 4), Parent("moov", << trak >>), last >>, paths, growth, quick, cut) :
      trak \in Tracks,
      last \in { [Leaf("mdat", 5) EXCEPT !.form = "ExtendToEof"] },
      paths \in Paths, growth \in {3, 60}, quick \in BOOLEAN, cut \in {0} }

(* A wrong box somewhere on the way down, or a file that is cut.           *)
Plain == [Parent("avc1", << Leaf("tkhd", 4), Node >>) EXCEPT !.own = 2, !.visual = TRUE]

UnsoundFiles ==
  { << Leaf("ftyp", 4), Parent("moov", << Parent("trak", << Plain >>), leaf >>) >> :
      leaf \in Variants(Leaf("tkhd", 4)) \cup Variants(Leaf("keys", 4)) }
  \cup { << Leaf("ftyp", 4), Parent("moov", << Parent("trak", << entry >>) >>) >> :
      entry \in Variants([Plain EXCEPT !.form = "Large"]) \cup Variants([Plain EXCEPT !.tail = 2]) }
  \cup { << ftyp, moov >> :
      ftyp \in Variants(Leaf("ftyp", 4)),
      moov \in { [Parent("moov", << Parent("trak", << Plain >>) >>) EXCEPT !.form = f] :
                   f \in {"Small", "Large", "ExtendToEof"} } }

(* A box whose type on disk is the wildcard: no default registry knows it, *)
(* one of the caller's may.                                                *)
Untyped ==
  { [node EXCEPT !.decodes = d] :
      node \in { Leaf(Wildcard, 4), Parent(Wildcard, << Plain >>) }, d \in BOOLEAN }

UntypedFiles ==
  { << Leaf("ftyp", 4), node, Parent("moov", << Parent("trak", << Plain >>) >>) >> :
      node \in Untyped }
  \cup { << Leaf("ftyp", 4), Parent("moov", << node, Parent("trak", << Plain >>) >>) >> :
      node \in Untyped }
  \cup { << Parent("moov", << Parent("trak", << [Plain EXCEPT !.kids = << node >>] >>) >>) >> :
      node \in Untyped }

UntypedJobs ==
  { [JobOf(nodes, paths, growth, FALSE, 0) EXCEPT !.typed = @ \cup {Wildcard}] :
      nodes \in UntypedFiles, paths \in Paths, growth \in {3, 0} }
  \cup
  { JobOf(nodes, paths, 3, FALSE, 0) : nodes \in UntypedFiles, paths \in Paths }

UnsoundJobs ==
  { JobOf(nodes, paths, growth, quick, cut) :
      nodes \in UnsoundFiles, paths \in Paths, growth \in {-1, 1, 0}, quick \in BOOLEAN,
      cut \in {0, 1, 20} }

MCJobs == SoundJobs \cup UnsoundJobs \cup UntypedJobs

=============================================================================
