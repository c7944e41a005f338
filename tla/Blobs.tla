------------------------------ MODULE Blobs ------------------------------
(***************************************************************************)
(* From lit pixels to blobs (image_process.c, list.c).  Stripes come line  *)
(* by line; the ranges of the line before (current) and of this line       *)
(* (next) point to preblobs, which grow, are merged, and are put on a list *)
(* when no later stripe can touch them.  The sums a preblob keeps are      *)
(* additive, and stand here as the set of stripes they were made of.       *)
(***************************************************************************)
EXTENDS Integers, Sequences, SequencesExt

CONSTANTS Width, Height,        \* of the picture
          Pictures,             \* sets of lit pixels <<x, line>>
          MaxBlobs,             \* num_blobs, as many as the caller has room for
          MinPoints, MaxPoints  \* sizes of a blob that counts

ASSUME SizesAssumption == Width \in Nat /\ Height \in Nat /\ MaxBlobs \in Nat

VARIABLES
    phase,            \* "idle", "stripes" while they are added, "blobs" when they are told
    image, input,     \* the stripes of the picture, and those not added yet
    current, next,    \* ranges: [stripe, pb]
    vline,            \* current_vline
    preblob,          \* the allocated preblobs: number -> stripes
    matched, added,   \* the preblobs with these marks
    preblobs,         \* the list of those that are complete
    blobs             \* the blobs told

rangeVars == <<current, next, vline>>
preblobVars == <<preblob, matched, added, preblobs>>
vars == <<phase, image, input, rangeVars, preblobVars, blobs>>

NoLine == Height + 2

Init ==
    /\ phase = "idle" /\ image = {} /\ input = <<>>
    /\ current = <<>> /\ next = <<>> /\ vline = NoLine
    /\ preblob = <<>> /\ matched = {} /\ added = {} /\ preblobs = <<>>
    /\ blobs = <<>>

-----------------------------------------------------------------------
(* ltr_int_to_stripes: the maximal runs of lit pixels, line by line. *)

Runs(lit) ==
    {s \in [line : 0 .. Height - 1, from : 0 .. Width - 1, to : 0 .. Width - 1] :
        /\ s.from <= s.to
        /\ \A x \in s.from .. s.to : <<x, s.line>> \in lit
        /\ <<s.from - 1, s.line>> \notin lit /\ <<s.to + 1, s.line>> \notin lit}

Before(s, t) == s.line < t.line \/ (s.line = t.line /\ s.from < t.from)

LineByLine(stripes) ==
    [i \in 1 .. Cardinality(stripes) |->
        CHOOSE s \in stripes : Cardinality({t \in stripes : Before(t, s)}) = i - 1]

NewPicture ==
    /\ phase = "idle" /\ phase' = "stripes"
    /\ \E lit \in Pictures : image' = Runs(lit) /\ input' = LineByLine(Runs(lit))
    /\ UNCHANGED <<rangeVars, preblobVars, blobs>>

-----------------------------------------------------------------------
(* ltr_int_add_stripe *)

Preblobs(ranges) == {ranges[i].pb : i \in DOMAIN ranges}

\* Those elements of s that are in S, in their order and once each.
Listed(s, S) ==
    LET upTo[n \in 0 .. Len(s)] ==
          IF n = 0 THEN <<>>
          ELSE IF s[n] \in S /\ \A m \in 1 .. n - 1 : s[m] # s[n] THEN Append(upTo[n - 1], s[n])
          ELSE upTo[n - 1]
    IN  upTo[Len(s)]

\* The preblobs of these ranges, in the order of the ranges.
InOrder(ranges, which) == Listed([i \in 1 .. Len(ranges) |-> ranges[i].pb], which)

\* store_preblobs: what is added to the list when the line ends.
Complete(all) ==
    InOrder(current, Preblobs(current) \ (matched \cup added))
        \o (IF all THEN InOrder(next, Preblobs(next) \ added) ELSE <<>>)

StorePreblobs(all) ==
    /\ preblobs' = preblobs \o Complete(all)
    /\ added' = added \cup ToSet(Complete(all))
    /\ matched' = matched \ Preblobs(next)

\* A stripe of another line: of the next one, or further away.
NextLine ==
    /\ phase = "stripes" /\ input # <<>> /\ input[1].line # vline
    /\ IF input[1].line = vline + 1
         THEN StorePreblobs(FALSE) /\ current' = next
         ELSE StorePreblobs(TRUE) /\ current' = <<>>
    /\ next' = <<>> /\ vline' = input[1].line
    /\ UNCHANGED <<phase, image, input, preblob, blobs>>

\* Mutant: only stripes that share a column are taken together.
InRangeStraight(stripe, r) == stripe.from <= r.stripe.to /\ stripe.to >= r.stripe.from

\* Corners touch (stripe_in_range).
InRange(stripe, r) == stripe.from <= r.stripe.to + 1 /\ stripe.to + 1 >= r.stripe.from

\* malloc: a place where no preblob is.
NewPreblob == CHOOSE n \in 1 .. Cardinality(DOMAIN preblob) + 1 : n \notin DOMAIN preblob

Redirect(ranges, from, to) ==
    [i \in DOMAIN ranges |-> IF ranges[i].pb \in from THEN [ranges[i] EXCEPT !.pb = to] ELSE ranges[i]]

\* Mutant: the ranges of this line go on pointing to the merged preblobs.
JoinCurrentOnly(stripe, hits, root) ==
    LET merged == hits \ {root} IN
    /\ preblob' = [p \in DOMAIN preblob \ merged |->
                     IF p = root THEN {stripe} \cup UNION {preblob[q] : q \in hits} ELSE preblob[p]]
    /\ current' = Redirect(current, merged, root)
    /\ next' = Append(next, [stripe |-> stripe, pb |-> root])
    /\ matched' = (matched \cup hits) \ merged

\* The stripe joins the preblob of the first range it touches, and the preblobs
\* of the others are merged into that one.
Join(stripe, hits, root) ==
    LET merged == hits \ {root} IN
    /\ preblob' = [p \in DOMAIN preblob \ merged |->
                     IF p = root THEN {stripe} \cup UNION {preblob[q] : q \in hits} ELSE preblob[p]]
    /\ current' = Redirect(current, merged, root)
    /\ next' = Append(Redirect(next, merged, root), [stripe |-> stripe, pb |-> root])
    /\ matched' = (matched \cup hits) \ merged

First(places) == CHOOSE i \in places : \A j \in places : i <= j

StartPreblob(stripe) ==
    /\ preblob' = [p \in DOMAIN preblob \cup {NewPreblob} |->
                     IF p = NewPreblob THEN {stripe} ELSE preblob[p]]
    /\ next' = Append(next, [stripe |-> stripe, pb |-> NewPreblob])
    /\ matched' = matched \cup {NewPreblob} /\ UNCHANGED current

AddStripe ==
    /\ phase = "stripes" /\ input # <<>> /\ input[1].line = vline
    /\ LET touched == {i \in DOMAIN current : InRange(input[1], current[i])}
       IN  IF touched = {} THEN StartPreblob(input[1])
           ELSE Join(input[1], {current[i].pb : i \in touched}, current[First(touched)].pb)
    /\ input' = Tail(input)
    /\ UNCHANGED <<phase, image, vline, added, preblobs, blobs>>

-----------------------------------------------------------------------
(* ltr_int_stripes_to_blobs *)

Points(stripes) == FoldSet(LAMBDA s, n : n + s.to - s.from + 1, 0, stripes)

Counts(stripes) == Points(stripes) \in MinPoints .. MaxPoints

StripesToBlobs ==
    /\ phase = "stripes" /\ input = <<>> /\ phase' = "blobs"
    /\ LET valid == Listed(preblobs \o Complete(TRUE), {p \in DOMAIN preblob : Counts(preblob[p])})
       IN  blobs' = [i \in 1 .. IF Len(valid) < MaxBlobs THEN Len(valid) ELSE MaxBlobs |->
                       preblob[valid[i]]]
    /\ preblobs' = <<>> /\ added' = {} /\ matched' = {}
    /\ preblob' = [p \in DOMAIN preblob \ (ToSet(preblobs) \cup ToSet(Complete(TRUE))) |-> preblob[p]]
    /\ current' = <<>> /\ next' = <<>> /\ vline' = NoLine
    /\ UNCHANGED <<image, input>>

\* The blobs are taken; the next picture starts from nothing.
Take ==
    /\ phase = "blobs" /\ phase' = "idle" /\ image' = {} /\ blobs' = <<>>
    /\ UNCHANGED <<input, rangeVars, preblobVars>>

Next == NewPicture \/ NextLine \/ AddStripe \/ StripesToBlobs \/ Take

Spec == Init /\ [][Next]_vars

-----------------------------------------------------------------------
(* Properties *)

\* Stripes touch when they are on neighbouring lines and a pixel of one is
\* next to a pixel of the other, corners included.
Touch(s, t) ==
    /\ s.line = t.line + 1 \/ t.line = s.line + 1
    /\ s.from <= t.to + 1 /\ t.from <= s.to + 1

Closed(part, whole) == \A s \in part, t \in whole : Touch(s, t) => t \in part

IsComponent(part, whole) ==
    /\ part # {} /\ Closed(part, whole)
    /\ \A less \in SUBSET part : Closed(less, whole) => less \in {{}, part}

\* The preblobs in use are the allocated ones, and no range or list entry points
\* to one that was merged away and freed (image_process.c:347-359).
TypeOK ==
    /\ phase \in {"idle", "stripes", "blobs"} /\ vline \in 0 .. NoLine
    /\ Preblobs(current) \cup Preblobs(next) \cup ToSet(preblobs) = DOMAIN preblob
    /\ added = ToSet(preblobs) /\ matched \subseteq DOMAIN preblob
    /\ Len(current) <= (Width \div 2) + 1 /\ Len(next) <= (Width \div 2) + 1

\* The blobs told are the connected areas of the picture, none missing, twice or
\* in two parts, except for those of a size that does not count and those beyond
\* the caller's room (image_process.c:463-512).
BlobsAreAreas ==
    phase = "blobs" =>
        /\ \A i \in DOMAIN blobs : IsComponent(blobs[i], image) /\ Counts(blobs[i])
        /\ \A i, j \in DOMAIN blobs : i # j => blobs[i] \cap blobs[j] = {}
        /\ Len(blobs) < MaxBlobs =>
               \A part \in SUBSET (image \ UNION ToSet(blobs)) :
                   Counts(part) => ~IsComponent(part, image)
=======================================================================
