----------------------------- MODULE ImageSrcset -----------------------------
(***************************************************************************)
(* The responsive-image URLs a front end builds with the SDK               *)
(* (clients/js/src/transform.ts) against what the server authorises and    *)
(* renders (KilnCMS.Media.ImageTransform): a pure function of the item's   *)
(* recorded size, the options, the ladder of sizes and the server's cap.   *)
(* Divisions round half away from zero, of exact quotients.                *)
(***************************************************************************)
EXTENDS Naturals, FiniteSets, FiniteSetsExt

CONSTANTS
    Ladder,         \* the server's sizes, and the client's
    MaxDimension,   \* the server's cap on an output side
    Ratios,         \* the aspect ratios of the allowlist
    MaxSide,        \* sides of an item and widths asked for are 1..MaxSide
    MaxDpr

VARIABLES
    source,    \* the item's recorded width and height
    options,   \* what the front end asked for
    requests   \* the URLs it was given: width, height, and a descriptor or 0

srcsetVars == <<source, options, requests>>

Sides == 1..MaxSide
NoRatio == <<0, 0>>
Unset == 0
Options == [widths : SUBSET Sides, ar : Ratios \union {NoRatio}, dpr : 1..MaxDpr,
            fit : {"cover", "contain"}, signed : BOOLEAN]
Request(width, height, described) == [w |-> width, h |-> height, described |-> described]

AtLeastOne(n) == Max({1, n})
Rounded(n, d) == (2 * n + d) \div (2 * d)

(***************************************************************************)
(* The client.                                                             *)
(***************************************************************************)

\* snapTransformSize: up to the next rung, past the top the top rung.
Snapped(value) ==
    IF \E rung \in Ladder : rung >= value THEN Min({rung \in Ladder : rung >= value})
    ELSE Max(Ladder)

\* The width of the item, or of its largest window of the shape asked for.
Widest(ar) ==
    IF ar = NoRatio THEN source.w
    ELSE Min({source.w, AtLeastOne(Rounded(source.h * ar[1], ar[2]))})

\* Mutant: the widths as they were asked for.
Candidates_Unsnapped(o) ==
    LET described(w) == Min({w, Widest(o.ar)})
    IN  {Request(w, Unset, described(w)) :
            w \in {v \in o.widths : \A u \in o.widths : u < v => described(u) # described(v)}}

\* srcsetCandidates: of those that would all be described alike, the narrowest.
Candidates(o) ==
    LET widths == IF o.signed THEN o.widths ELSE {Snapped(w) : w \in o.widths}
        described(w) == Min({w, Widest(o.ar)})
    IN  {Request(w, Unset, described(w)) :
            w \in {v \in widths : \A u \in widths : u < v => described(u) # described(v)}}

SrcsetInit ==
    /\ source \in [w : Sides, h : Sides]
    /\ options \in {o \in Options : Cardinality(o.widths) = 2}
    /\ requests = {}

\* buildTransformSrcset, buildSignedTransformSrcset
BuildSrcset ==
    /\ requests = {}
    /\ requests' = Candidates(options)
    /\ UNCHANGED <<source, options>>

\* transformPath, with a width and a height, or one of them and a shape.
TransformPath(width, height) ==
    /\ requests = {} /\ ~options.signed
    /\ height = Unset \/ options.ar = NoRatio
    /\ requests' = {Request(Snapped(width), IF height = Unset THEN Unset ELSE Snapped(height), Unset)}
    /\ UNCHANGED <<source, options>>

SrcsetNext ==
    \/ BuildSrcset
    \/ \E width \in options.widths, height \in options.widths \union {Unset} :
          TransformPath(width, height)

SrcsetSpec == SrcsetInit /\ [][SrcsetNext]_srcsetVars

(***************************************************************************)
(* The server.                                                             *)
(***************************************************************************)

\* check_allowlist
Allowed(r) == r.w \in Ladder /\ r.h \in Ladder \union {Unset}

\* box, after dpr: the sides asked for, and the shape of the crop's window.
Box(r, o) ==
    LET w == r.w * o.dpr
    IN  IF r.h # Unset THEN [w |-> w, h |-> r.h * o.dpr, a |-> r.w, b |-> r.h]
        ELSE [w |-> w, h |-> AtLeastOne(Rounded(w * o.ar[2], o.ar[1])), a |-> o.ar[1], b |-> o.ar[2]]

\* within: a box too large is shrunk as a whole.
Within(box) ==
    LET side == Max({box.w, box.h})
    IN  IF side <= MaxDimension THEN box
        ELSE [box EXCEPT !.w = AtLeastOne(Rounded(@ * MaxDimension, side)),
                         !.h = AtLeastOne(Rounded(@ * MaxDimension, side))]

\* window: the largest of that shape that the source holds.
Window(a, b) ==
    IF source.w * b > source.h * a
    THEN [w |-> AtLeastOne(Min({source.w, Rounded(source.h * a, b)})), h |-> source.h]
    ELSE [w |-> source.w, h |-> AtLeastOne(Min({source.h, Rounded(source.w * b, a)}))]

\* cover: the box, or the window where the box is larger.
Cover(box) ==
    LET window == Window(box.a, box.b)
    IN  IF box.w <= window.w /\ box.h <= window.h THEN box.w ELSE window.w

\* contain: the whole frame, scaled by the smallest of 1 and the box's two scales.
Contain(box) ==
    AtLeastOne(IF box.w >= source.w /\ box.h >= source.h THEN source.w
               ELSE IF box.w * source.h <= box.h * source.w THEN box.w
               ELSE Rounded(source.w * box.h, source.h))

\* geometry: how wide a request comes out.
Rendered(r, o) ==
    IF r.h = Unset /\ o.ar = NoRatio THEN Min({r.w * o.dpr, MaxDimension, source.w})
    ELSE IF o.fit = "contain" THEN Contain(Within(Box(r, o)))
    ELSE Cover(Within(Box(r, o)))

(***************************************************************************)
(* Properties.                                                             *)
(***************************************************************************)

SrcsetTypeOK ==
    /\ source \in [w : Sides, h : Sides] /\ options \in Options
    /\ requests \subseteq [w : Nat, h : Nat, described : Nat]

\* The options under which a descriptor is only min(w, widest): a density, a
\* contained frame of another shape, a box past the server's cap.
Inexact(r) ==
    \/ options.dpr > 1
    \/ options.fit = "contain" /\ options.ar # NoRatio
    \/ r.w > MaxDimension
    \/ options.ar # NoRatio /\ Within(Box(r, options)) # Box(r, options)

\* "Each candidate is described by the width it can really render at", and an
\* unsigned URL is one the server's allowlist accepts.  The largest thing the
\* server could send is among the candidates whenever a width asked for it, and
\* no two descriptors are the same.
SrcsetTellsTheWidth ==
    /\ ~options.signed => \A r \in requests : Allowed(r)
    /\ \A r \in requests : r.described # Unset =>
          /\ Inexact(r) \/ Rendered(r, options) = r.described
          /\ \A other \in requests : other.described = r.described => other = r
          /\ \A w \in options.widths : \E other \in requests :
                other.described >= Min({w, Widest(options.ar), Max(Ladder)})
=============================================================================
