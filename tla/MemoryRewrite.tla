---------------------------- MODULE MemoryRewrite ----------------------------
(***************************************************************************)
(* The in-memory twin of CommonEncryptionStream (src/src/decrypt.rs): a    *)
(* whole file, or one segment of it, is decrypted in a copy, its moofs are *)
(* rebuilt without their encryption metadata or, when one of them cannot   *)
(* be, everything is rewritten in place with free boxes; and a file's      *)
(* top-level sidx is then refreshed by the functions of SidxUpdate.  A     *)
(* refresh on its own is the other request.                                *)
(*                                                                         *)
(* Nothing outlives a failure: the bytes are returned at the end or not at *)
(* all.  The root boxes the request came with stay at hand to the end.     *)
(***************************************************************************)
EXTENDS SidxUpdate

CONSTANT Requests   \* what is asked for, and of which file

Traf ==
  [ base_data_offset : Int \cup {None}, default_base_is_moof : BOOLEAN, removed : Nat,
    active : BOOLEAN, runs : Seq(Run), track : Nat, tfdt : Nat \cup {None},
    duration : Nat, composition : Int ]

(* Root boxes.  shrink: what a moov loses.  entries: what an mfra names, or*)
(* the sizes of a sidx's references.  origin: which box of the input it is.*)
PlainBox ==
  [ kind : {"styp", "emsg", "moof", "mdat", "mfra", "other"}, offset : Nat,
    size : Nat \ {0}, header_size : Nat, shrink : Nat, trafs : Seq(Traf),
    entries : Seq(Nat), origin : Nat ]

MoovBox ==
  [ kind : {"moov"}, offset : Nat, size : Nat \ {0}, header_size : Nat, shrink : Nat,
    trafs : {<< >>}, entries : {<< >>}, origin : Nat,
    mvex : BOOLEAN, tracks : Seq([id : Nat, handler : STRING]), extended : SUBSET Nat ]

SidxBox ==
  [ kind : {"sidx"}, offset : Nat, size : Nat \ {0}, header_size : Nat, shrink : {0},
    trafs : {<< >>}, entries : Seq(Nat), origin : Nat,
    version : 0..1, first_offset : Nat, chained : BOOLEAN, earliest : Nat,
    durations : Seq(Nat) ]

RootBox == PlainBox \cup MoovBox \cup SidxBox

(* operation: "file" and "segment" decrypt, "refresh" only plans and       *)
(* applies a sidx.  options: what a refresh may do.                        *)
Request ==
  [ operation : {"file", "segment", "refresh"},
    options : [add_if_not_exists : BOOLEAN, non_zero_ept : BOOLEAN],
    root_boxes : Seq(RootBox) ]

(* read_root_box_infos finds the boxes one behind the other; what a moov or*)
(* a moof loses is part of it, and its header is not lost.                 *)
ASSUME RequestsAssumption ==
  \A r \in Requests :
    /\ r \in Request
    /\ \A i \in DOMAIN r.root_boxes :
         LET box == r.root_boxes[i]
         IN  /\ box.origin = i
             /\ box.shrink < box.size /\ MoofRemoved(box) < box.size
             /\ box.offset = IF i = 1 THEN 0
                             ELSE r.root_boxes[i - 1].offset + r.root_boxes[i - 1].size

VARIABLES
  request,
  next_root,           \* the root box the current loop has come to
  moof_replacements,   \* root box -> size and trafs of its replacement
  moov_replacement,    \* None, or the size of the rebuilt moov
  rewritten_offsets,   \* compute_rewritten_root_offsets
  mfra_replacements,   \* root box -> entries
  bytes,               \* the boxes of the buffer in hand
  plan,                \* the TopLevelSidxPlan, or << >>
  pc, error

planVars == << moof_replacements, moov_replacement, rewritten_offsets, mfra_replacements >>

vars == << request, next_root, planVars, bytes, plan, pc, error >>

root == request.root_boxes

Roots == DOMAIN root

Fail(reason) == pc' = "failed" /\ error' = reason

Init ==
  /\ request \in Requests
  /\ next_root = 1
  /\ moof_replacements = << >> /\ moov_replacement = None
  /\ rewritten_offsets = << >> /\ mfra_replacements = << >>
  /\ bytes = request.root_boxes
  /\ plan = << >>
  /\ pc = IF request.operation = "refresh" THEN "plan_sidx" ELSE "samples"
  /\ error = "None"
-----------------------------------------------------------------------------
(* The samples of a traf with an active sample entry are looked up, even   *)
(* those of a PIFF track, which are then left as they are.                 *)
SamplesFound(i) ==
  \A t \in DOMAIN root[i].trafs : root[i].trafs[t].active =>
    \A s \in SampleSpans(root[i].trafs[t], root[i].offset) :
      \E j \in Roots : HoldsSample(root[j], s)

(* The first loop of build_common_encryption_fragment_replacements.        *)
DecryptSamples ==
  /\ pc = "samples"
  /\ IF \A i \in BoxesOf(root, "moof") : SamplesFound(i)
       THEN pc' = "moofs" /\ UNCHANGED error
       ELSE Fail("SampleDataRangeNotFound")
  /\ UNCHANGED << request, next_root, planVars, bytes, plan >>

(* One turn of the second loop.  A moof that must be patched and cannot be *)
(* drops the replacements made so far, and the decrypted copy with them.   *)
ReplaceMoof ==
  /\ pc = "moofs" /\ next_root \in Roots
  /\ LET box == root[next_root]
         loses == box.kind = "moof" /\ MoofRemoved(box) # 0
     IN IF loses /\ PatchBlocked(box)
          THEN pc' = "in_place" /\ UNCHANGED << next_root, moof_replacements >>
          ELSE /\ moof_replacements' =
                    IF loses THEN Including(moof_replacements, next_root, RebuiltMoof(box))
                             ELSE moof_replacements
               /\ next_root' = next_root + 1
               /\ UNCHANGED pc
  /\ UNCHANGED << request, moov_replacement, rewritten_offsets, mfra_replacements, bytes,
                  plan, error >>

(* A segment has no moov here, and its mfra is left as it is.              *)
RebuildMoov ==
  /\ pc = "moofs" /\ next_root \notin Roots
  /\ IF request.operation = "file"
       THEN /\ \E i \in BoxesOf(root, "moov") :
                 moov_replacement' = root[i].size - root[i].shrink
            /\ pc' = "mfra"
       ELSE /\ UNCHANGED moov_replacement
            /\ pc' = "root"
  /\ UNCHANGED << request, next_root, moof_replacements, rewritten_offsets,
                  mfra_replacements, bytes, plan, error >>

(* rewritten_root_box_size, and the size of what is put out for the box.   *)
(* Defect: the moov is taken to keep its size.                             *)
SizeOfOldMoov(i) ==
  IF i \in DOMAIN moof_replacements THEN moof_replacements[i].size ELSE root[i].size

SizeOf(i) ==
  IF root[i].kind = "moov" /\ moov_replacement # None THEN moov_replacement
  ELSE IF i \in DOMAIN moof_replacements THEN moof_replacements[i].size
  ELSE root[i].size

(* compute_rewritten_root_offsets: a sum of its own, apart from the one    *)
(* that lays out the output.                                               *)
PlannedOffsets ==
  LET sizes == [i \in Roots |-> SizeOf(i)] IN
  [ o \in { root[i].offset : i \in Roots } |->
      SumTo(sizes, (CHOOSE i \in Roots : root[i].offset = o) - 1) ]

PatchedEntries(i) ==
  [ e \in DOMAIN root[i].entries |->
      IF root[i].entries[e] \in DOMAIN rewritten_offsets'
        THEN rewritten_offsets'[root[i].entries[e]] ELSE root[i].entries[e] ]

ReplaceMfra ==
  /\ pc = "mfra"
  /\ rewritten_offsets' = IF BoxesOf(root, "mfra") = {} THEN << >> ELSE PlannedOffsets
  /\ mfra_replacements' = [ i \in { j \in BoxesOf(root, "mfra") :
                                      PatchedEntries(j) # root[j].entries } |->
                              PatchedEntries(i) ]
  /\ pc' = "root"
  /\ UNCHANGED << request, next_root, moof_replacements, moov_replacement, bytes, plan,
                  error >>

(* rebuild_common_encryption_root_bytes                                    *)
Rebuilt(i) ==
  IF root[i].kind = "moov" /\ moov_replacement # None
    THEN [root[i] EXCEPT !.size = moov_replacement, !.shrink = 0]
  ELSE IF i \in DOMAIN mfra_replacements
    THEN [root[i] EXCEPT !.entries = mfra_replacements[i]]
  ELSE IF i \in DOMAIN moof_replacements
    THEN [root[i] EXCEPT !.size = moof_replacements[i].size,
                         !.trafs = moof_replacements[i].trafs]
  ELSE root[i]

AfterRewrite == IF request.operation = "file" THEN "plan_sidx" ELSE "done"

RebuildRoot ==
  /\ pc = "root"
  /\ bytes' = Relaid([i \in Roots |-> Rebuilt(i)])
  /\ pc' = AfterRewrite
  /\ UNCHANGED << request, next_root, planVars, plan, error >>

(* decrypt_common_encryption_init_bytes_legacy and                         *)
(* decrypt_media_bytes_in_place_legacy: metadata becomes free boxes of its *)
(* size.  No box moves.                                                    *)
RewriteInPlace ==
  /\ pc = "in_place"
  /\ bytes' =
       [ i \in Roots |->
           [root[i] EXCEPT !.shrink = 0,
                           !.trafs = [t \in DOMAIN @ |-> [@[t] EXCEPT !.removed = 0]]] ]
  /\ pc' = AfterRewrite
  /\ UNCHANGED << request, next_root, planVars, plan, error >>
-----------------------------------------------------------------------------
(* refresh_fragmented_top_level_sidx                                       *)
PlanSidx ==
  /\ pc = "plan_sidx"
  /\ IF PlanError(bytes) # "None"
       THEN Fail(PlanError(bytes)) /\ UNCHANGED plan
     ELSE IF ~IsPlanned(bytes, request.options)
       THEN pc' = "done" /\ UNCHANGED << plan, error >>
     ELSE /\ plan' = LET planned == Plan(bytes, request.options)
                     IN IF request.operation = "file" THEN VersionKept(bytes, planned)
                                                      ELSE planned
          /\ pc' = "apply_sidx"
          /\ UNCHANGED error
  /\ UNCHANGED << request, next_root, planVars, bytes >>

ApplySidx ==
  /\ pc = "apply_sidx"
  /\ bytes' = Applied(bytes, plan)
  /\ pc' = "done"
  /\ UNCHANGED << request, next_root, planVars, plan, error >>

(* Metadata the model leaves out is malformed, or a number does not fit.   *)
Malformed ==
  /\ pc \notin {"done", "failed"}
  /\ Fail("Malformed")
  /\ UNCHANGED << request, next_root, planVars, bytes, plan >>

Returned == pc \in {"done", "failed"} /\ UNCHANGED vars

Advance ==
  \/ DecryptSamples \/ ReplaceMoof \/ RebuildMoov \/ ReplaceMfra \/ RebuildRoot
  \/ RewriteInPlace \/ PlanSidx \/ ApplySidx

Next == Advance \/ Malformed \/ Returned

Spec == Init /\ [][Next]_vars
-----------------------------------------------------------------------------
(***************************************************************************)
(* What is promised of the bytes returned.                                 *)
(***************************************************************************)
Returns == pc = "done"

(* The box of the output that came from a box of the input.                *)
Heir(i) == CHOOSE j \in DOMAIN bytes : bytes[j].origin = i

Place(i) == bytes[Heir(i)].offset

(* The sidx that was written has another size than what it replaces; all   *)
(* behind it has moved after the rest of the plan was made.                *)
SidxResized ==
  plan # << >> /\ RemovedSize(root, plan) # EncodedSidxSize(plan.version, Len(plan.sizes))

WentTo(span, target) ==
  \E j \in Roots :
    HoldsSample(root[j], span) /\ target = Place(j) + (span.offset - root[j].offset)

FindsItsSamples(i) ==
  \A t \in DOMAIN root[i].trafs :
    LET before == SampleSpans(root[i].trafs[t], root[i].offset)
        after  == SampleSpans(bytes[Heir(i)].trafs[t], Place(i))
    IN \A s \in before : (\E j \in Roots : HoldsSample(root[j], s)) =>
         \E u \in after : u.run = s.run /\ u.index = s.index /\ WentTo(s, u.offset)

HasAbsoluteBase(i) ==
  \E t \in DOMAIN root[i].trafs : root[i].trafs[t].base_data_offset # None

IsRewrittenInPlace ==
  /\ request.operation # "refresh"
  /\ \E i \in BoxesOf(root, "moof") : MoofRemoved(root[i]) # 0 /\ PatchBlocked(root[i])

(* A sidx that was not there before comes between the two boxes.           *)
SidxComesBetween(i, j) ==
  /\ plan # << >> /\ plan.replaced = None
  /\ plan.insertion_box \in (i + 1)..j \cup (j + 1)..i

(* A box between the moof and a sample changed its size or is new, or the  *)
(* sample lies in front of a moof whose runs were moved towards it.        *)
Disturbed(i) ==
  \E t \in DOMAIN root[i].trafs :
    \E s \in SampleSpans(root[i].trafs[t], root[i].offset) :
      \E j \in Roots :
        /\ HoldsSample(root[j], s)
        /\ \/ j < i /\ i \in DOMAIN moof_replacements /\ ~IsRewrittenInPlace
           \/ \E k \in (i + 1)..(j - 1) \cup (j + 1)..(i - 1) :
                bytes[Heir(k)].size # root[k].size
           \/ SidxComesBetween(i, j)

(* Every fragment finds its samples, in the rebuilt file and in the one    *)
(* rewritten in place, where those with an absolute base find theirs too.  *)
(* Only a sidx of another size moves what such a base names.               *)
FragmentsFindSamples ==
  Returns =>
    \A i \in BoxesOf(root, "moof") :
      \/ FindsItsSamples(i)
      \/ Disturbed(i)
      \/ HasAbsoluteBase(i) /\ (SidxResized \/ ~IsRewrittenInPlace)

(* An mfra entry that named a root box of a file names it still, unless the*)
(* refresh that comes last resized the sidx.                               *)
RandomAccessSurvives ==
  Returns /\ request.operation = "file" /\ ~SidxResized =>
    \A i \in BoxesOf(root, "mfra") : \A e \in DOMAIN root[i].entries : \A j \in Roots :
      root[i].entries[e] = root[j].offset => bytes[Heir(i)].entries[e] = Place(j)

Written == CHOOSE k \in BoxesOf(bytes, "sidx") :
             bytes[k].origin = IF plan.replaced = None THEN 0 ELSE root[plan.replaced].origin

(* From the first box of the first reference on there is nothing but media,*)
(* and no segment has two sidx boxes of its own: of two sidx boxes the     *)
(* later opens a segment, behind an mdat, or a styp between them opens one.*)
MediaKinds == {"styp", "sidx", "emsg", "moof", "mdat"}

LastMdat == Max(BoxesOf(bytes, "mdat"))

OnlyMedia ==
  LET from == Min({ k \in DOMAIN bytes :
                      bytes[k].offset >= SegmentStarts(bytes[Written])[1] })
  IN /\ BoxesOf(bytes, "mdat") # {}
     /\ \A k \in from..LastMdat : bytes[k].kind \in MediaKinds
     /\ \A k \in DOMAIN bytes : k > LastMdat => bytes[k].kind \notin MediaKinds
     /\ \A k, l \in from..LastMdat :
          k < l /\ bytes[k].kind = "sidx" /\ bytes[l].kind = "sidx" =>
            PreviousKind(bytes, l) = "mdat" \/ \E m \in k..l : bytes[m].kind = "styp"

(* The references of a refreshed sidx tile the media: each begins at a box *)
(* that can open a segment, the last ends where the media ends, and each   *)
(* lasts as long as the fragments in its bytes.                            *)
ReferencesTile ==
  Returns /\ plan # << >> /\ OnlyMedia =>
    LET sidx   == bytes[Written]
        starts == SegmentStarts(sidx)
        track  == TimingTrack(root[Min(BoxesOf(root, "moov"))])
        inside(n) == { m \in BoxesOf(bytes, "moof") :
                         /\ starts[n] <= bytes[m].offset
                         /\ bytes[m].offset < starts[n] + sidx.entries[n] }
        lasts(n) == [ m \in DOMAIN bytes |->
                        IF m \in inside(n) THEN MoofDuration(bytes[m], track) ELSE 0 ]
    IN /\ \A n \in DOMAIN starts :
            /\ \E k \in DOMAIN bytes : /\ bytes[k].offset = starts[n]
                                       /\ bytes[k].kind \in MediaKinds \ {"mdat"}
            /\ inside(n) # {}
            /\ sidx.durations[n] = SumTo(lasts(n), Len(bytes))
       /\ starts[Len(starts)] + sidx.entries[Len(starts)]
            = bytes[LastMdat].offset + bytes[LastMdat].size

(* A second refresh finds nothing to change, unless an mdat in front makes *)
(* the sidx look like one of a segment.                                    *)
RefreshIsStable ==
  Returns /\ plan # << >> /\ OnlyMedia /\ PreviousKind(bytes, Written) # "mdat" =>
    /\ PlanError(bytes) = "None"
    /\ LET again == Plan(bytes, request.options) IN
       Applied(bytes, IF request.operation = "file" THEN VersionKept(bytes, again)
                                                    ELSE again) = bytes
-----------------------------------------------------------------------------
(* A file that the rewrite and the refresh can deal with: the samples of   *)
(* its tracks are there, each fragment times the track the sidx is about,  *)
(* what opens a segment is followed by a fragment, and a sidx, if there is *)
(* one, is alone, behind the moov and in front of the media it counts from.*)
(* (The boxes between moov and sidx may shrink: what is indexed from in    *)
(* front of the moov is lost.)                                             *)
Timed(i) ==
  LET track == TimingTrack(root[Min(BoxesOf(root, "moov"))]) IN
  /\ TimingTrafs(root[i], track) # {}
  /\ \A t \in TimingTrafs(root[i], track) : root[i].trafs[t].tfdt # None

Opening == {"styp", "emsg", "moof"}

(* Where media begins: behind the sidx, if there is one.                   *)
MediaStart ==
  Min({ i \in Roots : /\ root[i].kind \in Opening
                      /\ \A k \in BoxesOf(root, "sidx") : i > k })

IsReferred(i) ==
  \E k \in BoxesOf(root, "sidx") : \E n \in DOMAIN root[k].entries :
    SegmentStarts(root[k])[n] = root[i].offset

(* The box in front of a sidx may be a styp that says nothing of a segment.*)
Openers ==
  { i \in BoxesOf(root, "styp") : i + 1 \notin BoxesOf(root, "sidx") }
  \cup { i \in BoxesOf(root, "emsg") \cup BoxesOf(root, "moof") : IsReferred(i) }
  \cup {MediaStart}

Indexable ==
  /\ BoxesOf(root, "moov") # {} /\ BoxesOf(root, "moof") # {}
  /\ \A i \in BoxesOf(root, "moov") :
       /\ BoxesOf(root, "moov") = {i} /\ root[i].mvex /\ root[i].tracks # << >>
       /\ TimingTrack(root[i]) \in root[i].extended
  /\ \A i \in BoxesOf(root, "moof") : Timed(i)
  /\ \A i \in BoxesOf(root, "sidx") :
       /\ BoxesOf(root, "sidx") = {i} /\ ~root[i].chained
       /\ Min(BoxesOf(root, "moov")) < i /\ PreviousKind(root, i) # "mdat"
       /\ \A m \in Roots : root[m].kind \in Opening =>
            m > i \/ (m = i - 1 /\ root[m].kind = "styp")
       /\ \E m \in BoxesOf(root, "moof") : m > i
       /\ root[i].entries # << >>
       /\ SegmentStarts(root[i])[1] = root[MediaStart].offset
  /\ \A i \in Openers :
       \E m \in BoxesOf(root, "moof") : i <= m /\ \A k \in (i + 1)..m : k \notin Openers

(* The fragments have shrunk, and one begins by chance where an old        *)
(* reference does that was not its own.                                    *)
Misled ==
  \E k \in BoxesOf(root, "sidx") : \E n \in DOMAIN root[k].entries : \E i \in Roots :
    /\ root[i].kind \in {"emsg", "moof"}
    /\ bytes[i].offset = SegmentStarts(bytes[k])[n]
    /\ root[i].offset # SegmentStarts(root[k])[n]

SoundRequest ==
  /\ request.operation # "refresh" => \A i \in BoxesOf(root, "moof") : SamplesFound(i)
  /\ request.operation # "segment" => Indexable

(* Only malformed metadata keeps a sound request from being answered.      *)
SoundRequestSucceeds ==
  pc = "failed" /\ SoundRequest /\ ~Misled => error = "Malformed"
=============================================================================
