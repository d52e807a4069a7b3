--------------------------- MODULE ClientSideProofs ---------------------------
(***************************************************************************)
(* What the parts of the browser code promise, as theorems of the          *)
(* specification they are run in together: a step of one part is a step of *)
(* its module, and every other part leaves it alone.  The two parts that   *)
(* only search come first, the sizes of an image and the findings in a     *)
(* body, for any ladder and item and any body.                             *)
(***************************************************************************)
EXTENDS MCClientSide, WireProofs, WidgetProofs, ListProofs

-----------------------------------------------------------------------------
(* The image URLs.                                                         *)

LEMMA SrcsetMin ==
    ASSUME NEW S, S \subseteq Nat, S # {}
    PROVE /\ Srcset!Min(S) \in S /\ \A y \in S : Srcset!Min(S) <= y
<1>1. \E x \in S : \A y \in S : x <= y
  BY LeastNumber
<1> QED
  BY <1>1 DEF Srcset!Min

LEMMA SrcsetMax ==
    ASSUME NEW S, Places(S), S # {}
    PROVE /\ Srcset!Max(S) \in S /\ \A y \in S : y <= Srcset!Max(S)
<1>1. S \subseteq Nat /\ IsFiniteSet(S) /\ Cardinality(S) \in Nat
  BY FS_CardinalityType DEF Places
<1>2. Cardinality(S) # 0
  BY <1>1, FS_EmptySet
<1> DEFINE n == Cardinality(S)
           x == Nth(S, n)
<1>3. n \in 1..Cardinality(S)
  BY <1>1, <1>2
<1>4. x \in S /\ Rank(S, x) = n
  BY <1>3, NthFacts
<1>5. \A y \in S : y <= x
  <2> SUFFICES ASSUME NEW y \in S, ~(y <= x) PROVE FALSE
    OBVIOUS
  <2>1. x < y
    <3>1. x \in Nat /\ y \in Nat
      BY <1>1, <1>4
    <3> HIDE DEF x
    <3> QED
      BY <3>1
  <2> HIDE DEF x, n
  <2>2. Rank(S, x) < Rank(S, y) /\ Rank(S, y) \in 1..Cardinality(S)
    BY <1>4, <2>1, RankGrows, RankType
  <2> QED
    BY <1>1, <1>4, <2>2 DEF n
<1>6. x \in S /\ \A y \in S : x >= y
  BY <1>1, <1>4, <1>5
<1>7. Srcset!Max(S) \in S /\ \A y \in S : Srcset!Max(S) >= y
  <2> HIDE DEF x
  <2> QED
    BY <1>6 DEF Srcset!Max
<1> QED
  BY <1>1, <1>7

LEMMA LesserOfTwo ==
    ASSUME NEW a \in Nat, NEW b \in Nat
    PROVE Srcset!Min({a, b}) = IF a <= b THEN a ELSE b
<1>1. Srcset!Min({a, b}) \in {a, b} /\ \A y \in {a, b} : Srcset!Min({a, b}) <= y
  BY SrcsetMin
<1> QED
  BY <1>1

LEMMA LeastOfThree ==
    ASSUME NEW a \in Nat, NEW b \in Nat, NEW c \in Nat
    PROVE LET m == Srcset!Min({a, b, c})
          IN m \in {a, b, c} /\ m <= a /\ m <= b /\ m <= c
<1>1. Srcset!Min({a, b, c}) \in {a, b, c} /\ \A y \in {a, b, c} : Srcset!Min({a, b, c}) <= y
  BY SrcsetMin
<1> QED
  BY <1>1

LEMMA OneOrMore ==
    ASSUME NEW a \in Nat
    PROVE Srcset!AtLeastOne(a) = IF a >= 1 THEN a ELSE 1
<1>1. {1, a} \subseteq Nat /\ IsFiniteSet({1, a})
  <2>1. \A y \in {1, a} : y <= a + 1
    OBVIOUS
  <2> QED
    BY <2>1, FS_BoundedSetOfNaturals
<1>2. Srcset!Max({1, a}) \in {1, a} /\ \A y \in {1, a} : y <= Srcset!Max({1, a})
  BY <1>1, SrcsetMax DEF Places
<1> QED
  BY <1>2 DEF Srcset!AtLeastOne

\* The quotient is exact to half of one.
LEMMA RoundedFacts ==
    ASSUME NEW n \in Nat, NEW d \in Nat \ {0}
    PROVE /\ Srcset!Rounded(n, d) \in Nat
          /\ 2 * d * Srcset!Rounded(n, d) <= 2 * n + d
          /\ 2 * n + d < 2 * d * Srcset!Rounded(n, d) + 2 * d
BY DEF Srcset!Rounded

\* The arithmetic of a crop's window: sw and sh are the source's sides, a and b the
\* shape's, w the width asked for.  Rounding what is exact, what grows, and what is
\* narrower than the window.
LEMMA RoundedExact ==
    ASSUME NEW n \in Nat, NEW d \in Nat \ {0}
    PROVE Srcset!Rounded(n * d, d) = n
<1>1. n * d \in Nat
  OBVIOUS
<1> DEFINE q == Srcset!Rounded(n * d, d)
<1>2. q \in Nat /\ 2 * d * q <= 2 * (n * d) + d /\ 2 * (n * d) + d < 2 * d * q + 2 * d
  BY <1>1, RoundedFacts
<1> HIDE DEF q
<1>3. ~(q <= n - 1)
  <2>1. q <= n - 1 => 2 * d * q <= 2 * d * (n - 1)
    BY <1>2
  <2> QED
    BY <1>2, <2>1
<1>4. ~(q >= n + 1)
  <2>1. q >= n + 1 => 2 * d * q >= 2 * d * (n + 1)
    BY <1>2
  <2> QED
    BY <1>2, <2>1
<1> QED
  BY <1>2, <1>3, <1>4 DEF q

LEMMA RoundedGrows ==
    ASSUME NEW m \in Nat, NEW n \in Nat, NEW d \in Nat \ {0}, m <= n
    PROVE Srcset!Rounded(m, d) <= Srcset!Rounded(n, d)
<1> DEFINE p == Srcset!Rounded(m, d)
           q == Srcset!Rounded(n, d)
<1>1. /\ p \in Nat /\ 2 * d * p <= 2 * m + d
      /\ q \in Nat /\ 2 * n + d < 2 * d * q + 2 * d
  BY RoundedFacts
<1> HIDE DEF p, q
<1>2. ~(p >= q + 1)
  <2>1. p >= q + 1 => 2 * d * p >= 2 * d * (q + 1)
    BY <1>1
  <2> QED
    BY <1>1, <2>1
<1> QED
  BY <1>1, <1>2 DEF p, q

LEMMA NarrowIsLow ==
    ASSUME NEW w \in Nat, NEW sh \in Nat, NEW a \in Nat \ {0}, NEW b \in Nat \ {0},
           w + 1 <= Srcset!Rounded(sh * a, b)
    PROVE Srcset!Rounded(w * b, a) <= sh
<1>1. sh * a \in Nat /\ w * b \in Nat
  OBVIOUS
<1> DEFINE r == Srcset!Rounded(sh * a, b)
           q == Srcset!Rounded(w * b, a)
<1>2. /\ r \in Nat /\ 2 * b * r <= 2 * (sh * a) + b
      /\ q \in Nat /\ 2 * a * q <= 2 * (w * b) + a
  BY <1>1, RoundedFacts
<1>3. w + 1 <= r
  OBVIOUS
<1> HIDE DEF r, q
<1>4. 2 * b * (w + 1) <= 2 * b * r
  BY <1>2, <1>3
<1>5. 2 * b * (w + 1) = 2 * (w * b) + 2 * b
  OBVIOUS
<1>6. 2 * (w * b) + b <= 2 * (sh * a)
  BY <1>2, <1>4, <1>5
<1>7. 2 * a * q < 2 * (sh * a) + a
  BY <1>1, <1>2, <1>6
<1>8. ~(q >= sh + 1)
  <2>1. q >= sh + 1 => 2 * a * q >= 2 * a * (sh + 1)
    BY <1>2
  <2>2. 2 * a * (sh + 1) = 2 * (sh * a) + 2 * a
    OBVIOUS
  <2> QED
    BY <1>1, <1>2, <1>7, <2>1, <2>2
<1> QED
  BY <1>2, <1>8 DEF q

\* What a request of a shape comes out as, when its frame is within the cap.
LEMMA CoveredWidth ==
    ASSUME source.w \in Nat \ {0}, source.h \in Nat \ {0}, NEW w \in Nat \ {0},
           NEW a \in Nat \ {0}, NEW b \in Nat \ {0}
    PROVE LET frame == [w |-> w, h |-> Srcset!AtLeastOne(Srcset!Rounded(w * b, a)), a |-> a, b |-> b]
              wide == Srcset!Min({source.w, Srcset!AtLeastOne(Srcset!Rounded(source.h * a, b))})
          IN Srcset!Cover(frame) = IF w <= wide THEN w ELSE wide
<1> DEFINE sw == source.w
           sh == source.h
           R == Srcset!Rounded(sh * a, b)
           H == Srcset!Rounded(w * b, a)
           V == Srcset!Rounded(sw * b, a)
           h == Srcset!AtLeastOne(H)
           wide == Srcset!Min({sw, Srcset!AtLeastOne(R)})
           frame == [w |-> w, h |-> h, a |-> a, b |-> b]
           window == Srcset!Window(a, b)
<1>1. sw \in Nat \ {0} /\ sh \in Nat \ {0} /\ sh * a \in Nat /\ w * b \in Nat /\ sw * b \in Nat
  OBVIOUS
<1>2. R \in Nat /\ H \in Nat /\ V \in Nat
  BY <1>1, RoundedFacts
<1>3. w + 1 <= R => H <= sh
  BY <1>1, NarrowIsLow
<1>4. w <= sw => H <= V
  <2>1. w <= sw => w * b <= sw * b
    BY <1>1
  <2> QED
    BY <1>1, <2>1, RoundedGrows
<1>5. sw * b <= sh * a => sw <= R /\ V <= sh
  <2> SUFFICES ASSUME sw * b <= sh * a PROVE sw <= R /\ V <= sh
    OBVIOUS
  <2>1. Srcset!Rounded(sw * b, b) = sw /\ Srcset!Rounded(sh * a, a) = sh
    BY <1>1, RoundedExact
  <2>2. Srcset!Rounded(sw * b, b) <= R /\ V <= Srcset!Rounded(sh * a, a)
    BY <1>1, RoundedGrows
  <2> QED
    BY <2>1, <2>2
<1>6. window = IF sw * b > sh * a
               THEN [w |-> Srcset!AtLeastOne(Srcset!Min({sw, R})), h |-> sh]
               ELSE [w |-> sw, h |-> Srcset!AtLeastOne(Srcset!Min({sh, V}))]
  BY DEF Srcset!Window
<1>7. Srcset!Cover(frame) = IF w <= window.w /\ h <= window.h THEN w ELSE window.w
  BY DEF Srcset!Cover
<1> HIDE DEF sw, sh, R, H, V, h, wide, window
<1>8. h = IF H >= 1 THEN H ELSE 1
  BY <1>2, OneOrMore DEF h
<1>9. wide = IF sw <= (IF R >= 1 THEN R ELSE 1) THEN sw ELSE (IF R >= 1 THEN R ELSE 1)
  <2>1. Srcset!AtLeastOne(R) = IF R >= 1 THEN R ELSE 1
    BY <1>2, OneOrMore
  <2>2. (IF R >= 1 THEN R ELSE 1) \in Nat
    BY <1>2
  <2> QED
    BY <1>1, <2>1, <2>2, LesserOfTwo DEF wide
<1>10. CASE sw * b > sh * a
  <2>1. window.w = Srcset!AtLeastOne(Srcset!Min({sw, R})) /\ window.h = sh
    BY <1>6, <1>10
  <2>2. Srcset!Min({sw, R}) = IF sw <= R THEN sw ELSE R
    BY <1>1, <1>2, LesserOfTwo
  <2>3. window.w = wide
    <3>1. Srcset!Min({sw, R}) \in Nat
      BY <1>1, <1>2, <2>2
    <3>2. window.w = IF Srcset!Min({sw, R}) >= 1 THEN Srcset!Min({sw, R}) ELSE 1
      BY <2>1, <3>1, OneOrMore
    <3> QED
      BY <1>1, <1>2, <1>9, <2>2, <3>2
  <2>4. w < window.w => h <= window.h
    BY <1>1, <1>2, <1>3, <1>8, <1>9, <2>1, <2>3
  <2>5. Srcset!Cover(frame) = IF w <= wide THEN w ELSE wide
    BY <1>1, <1>2, <1>7, <1>9, <2>3, <2>4
  <2> QED
    BY <2>5 DEF wide, sw, sh, R, h, H, frame
<1>11. CASE sw * b <= sh * a
  <2>1. window.w = sw /\ window.h = Srcset!AtLeastOne(Srcset!Min({sh, V}))
    <3>1. ~(sw * b > sh * a)
      BY <1>1, <1>11
    <3> QED
      BY <1>6, <3>1
  <2>2. Srcset!Min({sh, V}) = V
    BY <1>1, <1>2, <1>5, <1>11, LesserOfTwo
  <2>3. window.h = IF V >= 1 THEN V ELSE 1
    BY <1>2, <2>1, <2>2, OneOrMore
  <2>4. wide = sw
    BY <1>1, <1>2, <1>5, <1>9, <1>11
  <2>5. w < window.w => h <= window.h
    BY <1>1, <1>2, <1>4, <1>8, <2>1, <2>3
  <2>6. Srcset!Cover(frame) = IF w <= wide THEN w ELSE wide
    BY <1>1, <1>2, <1>7, <2>1, <2>4, <2>5
  <2> QED
    BY <2>6 DEF wide, sw, sh, R, h, H, frame
<1> QED
  BY <1>1, <1>10, <1>11

SrcsetInv ==
    /\ source \in [w : Srcset!Sides, h : Srcset!Sides] /\ options \in Srcset!Options
    /\ \/ requests = {}
       \/ requests = Srcset!Candidates(options)
       \/ ~options.signed /\ \E w \in options.widths, h \in options.widths :
            requests \in {{Srcset!Request(Srcset!Snapped(w), Srcset!Unset, Srcset!Unset)},
                          {Srcset!Request(Srcset!Snapped(w), Srcset!Snapped(h), Srcset!Unset)}}

\* The sizes the client knows: the server's own.
LEMMA SnappedFacts ==
    ASSUME NEW v \in Nat
    PROVE /\ Srcset!Snapped(v) \in Ladder /\ Srcset!Max(Ladder) \in Ladder
          /\ Srcset!Snapped(v) >= v \/ Srcset!Snapped(v) >= Srcset!Max(Ladder)
<1>1. Places(Ladder) /\ Ladder # {}
  BY SrcsetAssumption DEF Places
<1>2. Srcset!Max(Ladder) \in Ladder /\ Srcset!Max(Ladder) \in Nat
  BY <1>1, SrcsetMax DEF Places
<1>3. CASE \E rung \in Ladder : rung >= v
  <2> DEFINE higher == {rung \in Ladder : rung >= v}
  <2>1. higher \subseteq Nat /\ higher # {}
    BY <1>1, <1>3 DEF Places
  <2>2. Srcset!Min(higher) \in higher
    BY <2>1, SrcsetMin
  <2>3. Srcset!Snapped(v) = Srcset!Min(higher)
    BY <1>3 DEF Srcset!Snapped
  <2> QED
    BY <1>2, <2>2, <2>3
<1>4. CASE ~\E rung \in Ladder : rung >= v
  BY <1>2, <1>4 DEF Srcset!Snapped
<1> QED
  BY <1>3, <1>4

LEMMA WidestType ==
    ASSUME SrcsetInv
    PROVE /\ Srcset!Widest(options.ar) \in Nat
          /\ source.w \in Nat \ {0} /\ source.h \in Nat \ {0}
          /\ options.ar = Srcset!NoRatio => Srcset!Widest(options.ar) = source.w
          /\ options.ar # Srcset!NoRatio =>
                options.ar \in {<<3, 2>>, <<1, 3>>}
<1>1. source.w \in Nat \ {0} /\ source.h \in Nat \ {0}
  BY SrcsetAssumption DEF SrcsetInv, Srcset!Sides
<1>2. options.ar \in {<<3, 2>>, <<1, 3>>} \union {Srcset!NoRatio}
  BY DEF SrcsetInv, Srcset!Options
<1>3. ASSUME options.ar \in {<<3, 2>>, <<1, 3>>}, options.ar # Srcset!NoRatio
      PROVE Srcset!Widest(options.ar) \in Nat
  <2> DEFINE a == options.ar[1]
             b == options.ar[2]
             R == Srcset!Rounded(source.h * a, b)
  <2>1. a \in Nat \ {0} /\ b \in Nat \ {0} /\ source.h * a \in Nat
    BY <1>1, <1>3
  <2>2. R \in Nat
    BY <2>1, RoundedFacts
  <2>3. Srcset!AtLeastOne(R) \in Nat
    BY <2>2, OneOrMore
  <2>4. Srcset!Widest(options.ar) = Srcset!Min({source.w, Srcset!AtLeastOne(R)})
    BY <1>3 DEF Srcset!Widest
  <2> HIDE DEF R
  <2> QED
    BY <1>1, <2>3, <2>4, LesserOfTwo
<1> QED
  BY <1>1, <1>2, <1>3 DEF Srcset!Widest

SrcsetWidths == IF options.signed THEN options.widths
                ELSE {Srcset!Snapped(w) : w \in options.widths}
Described(w) == Srcset!Min({w, Srcset!Widest(options.ar)})

LEMMA WidthsType ==
    ASSUME SrcsetInv
    PROVE /\ SrcsetWidths \subseteq Nat \ {0} /\ options.widths \subseteq Nat \ {0}
          /\ ~options.signed => SrcsetWidths \subseteq Ladder
          /\ \A w \in options.widths : \E v \in SrcsetWidths : v >= w \/ v >= Srcset!Max(Ladder)
<1>1. options.widths \subseteq Nat \ {0}
  BY SrcsetAssumption DEF SrcsetInv, Srcset!Options, Srcset!Sides
<1>2. \A w \in options.widths :
         /\ Srcset!Snapped(w) \in Ladder
         /\ Srcset!Snapped(w) >= w \/ Srcset!Snapped(w) >= Srcset!Max(Ladder)
  BY <1>1, SnappedFacts
<1>3. Ladder \subseteq Nat \ {0}
  BY SrcsetAssumption
<1>4. \A w \in options.widths : w >= w
  BY <1>1
<1> QED
  BY <1>1, <1>2, <1>3, <1>4 DEF SrcsetWidths

LEMMA DescribedType ==
    ASSUME SrcsetInv, NEW w \in Nat
    PROVE /\ Described(w) \in Nat
          /\ Described(w) = IF w <= Srcset!Widest(options.ar) THEN w ELSE Srcset!Widest(options.ar)
<1>1. Srcset!Widest(options.ar) \in Nat
  BY WidestType
<1> QED
  BY <1>1, LesserOfTwo DEF Described

\* The candidates are the narrowest of those described alike.
LEMMA CandidatesAre ==
    ASSUME SrcsetInv
    PROVE Srcset!Candidates(options) =
            {[w |-> w, h |-> 0, described |-> Described(w)] :
               w \in {v \in SrcsetWidths :
                        \A u \in SrcsetWidths : u < v => Described(u) # Described(v)}}
BY Zenon DEF Srcset!Candidates, SrcsetWidths, Described, Srcset!Request, Srcset!Unset

LEMMA CandidateDescribesItself ==
    ASSUME SrcsetInv, NEW w \in SrcsetWidths, NEW r,
           r = [w |-> w, h |-> 0, described |-> Described(w)]
    PROVE Srcset!Inexact(r) \/ Srcset!Rendered(r, options) = r.described
<1> SUFFICES ASSUME ~Srcset!Inexact(r) PROVE Srcset!Rendered(r, options) = Described(w)
  OBVIOUS
<1> DEFINE wide == Srcset!Widest(options.ar)
<1>1. /\ w \in Nat \ {0} /\ wide \in Nat /\ r.w = w /\ r.h = 0
      /\ source.w \in Nat \ {0} /\ source.h \in Nat \ {0}
      /\ Described(w) = IF w <= wide THEN w ELSE wide
      /\ MaxDimension \in Nat
  BY WidthsType, WidestType, DescribedType, SrcsetAssumption
<1>2. /\ options.dpr = 1 /\ w <= MaxDimension
      /\ options.fit = "contain" => options.ar = Srcset!NoRatio
      /\ options.ar # Srcset!NoRatio => Srcset!Within(Srcset!Box(r, options)) = Srcset!Box(r, options)
  <2>1. options.dpr \in 1..MaxDpr /\ MaxDpr \in Nat
    BY SrcsetAssumption DEF SrcsetInv, Srcset!Options
  <2> QED
    BY <1>1, <2>1 DEF Srcset!Inexact
<1>3. w * options.dpr = w
  BY <1>1, <1>2
<1>4. CASE options.ar = Srcset!NoRatio
  <2>1. Srcset!Rendered(r, options) = Srcset!Min({w, MaxDimension, source.w})
    BY <1>1, <1>3, <1>4 DEF Srcset!Rendered, Srcset!Unset
  <2>2. wide = source.w
    BY <1>4, WidestType
  <2> DEFINE m == Srcset!Min({w, MaxDimension, source.w})
  <2>3. m \in {w, MaxDimension, source.w} /\ m <= w /\ m <= MaxDimension /\ m <= source.w
    BY <1>1, LeastOfThree
  <2> HIDE DEF m, wide
  <2> QED
    BY <1>1, <1>2, <2>1, <2>2, <2>3 DEF m
<1>5. CASE options.ar # Srcset!NoRatio
  <2> DEFINE a == options.ar[1]
             b == options.ar[2]
             frame == [w |-> w, h |-> Srcset!AtLeastOne(Srcset!Rounded(w * b, a)), a |-> a, b |-> b]
  <2>1. a \in Nat \ {0} /\ b \in Nat \ {0}
    <3>1. options.ar \in {<<3, 2>>, <<1, 3>>}
      BY <1>5, WidestType
    <3> QED
      BY <3>1
  <2>2. Srcset!Box(r, options) = frame
    BY <1>1, <1>3 DEF Srcset!Box, Srcset!Unset
  <2>3. Srcset!Rendered(r, options) = Srcset!Cover(frame)
    <3>1. options.fit # "contain"
      BY <1>2, <1>5
    <3> QED
      BY <1>1, <1>2, <1>5, <2>2, <3>1 DEF Srcset!Rendered
  <2>4. wide = Srcset!Min({source.w, Srcset!AtLeastOne(Srcset!Rounded(source.h * a, b))})
    BY <1>5 DEF Srcset!Widest
  <2> HIDE DEF wide, frame, a, b
  <2>5. Srcset!Cover(frame) = IF w <= wide THEN w ELSE wide
    BY <1>1, <2>1, <2>4, CoveredWidth DEF frame
  <2> QED
    BY <1>1, <2>3, <2>5
<1> QED
  BY <1>4, <1>5

LEMMA SrcsetSafe == ASSUME SrcsetInv PROVE Srcset!SrcsetTellsTheWidth
<1>1. CASE requests = {}
  BY <1>1 DEF Srcset!SrcsetTellsTheWidth
<1>2. ASSUME ~options.signed, NEW w \in options.widths, NEW h \in options.widths,
             requests \in {{Srcset!Request(Srcset!Snapped(w), Srcset!Unset, Srcset!Unset)},
                           {Srcset!Request(Srcset!Snapped(w), Srcset!Snapped(h), Srcset!Unset)}}
      PROVE Srcset!SrcsetTellsTheWidth
  <2>1. w \in Nat /\ h \in Nat
    BY WidthsType
  <2>2. Srcset!Snapped(w) \in Ladder /\ Srcset!Snapped(h) \in Ladder
    BY <2>1, SnappedFacts
  <2>3. \A r \in requests : Srcset!Allowed(r) /\ r.described = Srcset!Unset
    BY <1>2, <2>2 DEF Srcset!Allowed, Srcset!Request
  <2> QED
    BY <2>3 DEF Srcset!SrcsetTellsTheWidth
<1>3. CASE requests = Srcset!Candidates(options)
  <2> DEFINE narrowest == {v \in SrcsetWidths :
                             \A u \in SrcsetWidths : u < v => Described(u) # Described(v)}
             asked(v) == [w |-> v, h |-> 0, described |-> Described(v)]
  <2>1. requests = {asked(v) : v \in narrowest}
    BY <1>3, CandidatesAre
  <2>2. ~options.signed => \A r \in requests : Srcset!Allowed(r)
    BY <2>1, WidthsType DEF Srcset!Allowed, Srcset!Unset
  <2>3. \A r \in requests : Srcset!Inexact(r) \/ Srcset!Rendered(r, options) = r.described
    <3> SUFFICES ASSUME NEW v \in narrowest
                 PROVE \/ Srcset!Inexact(asked(v))
                       \/ Srcset!Rendered(asked(v), options) = asked(v).described
      BY <2>1
    <3>1. v \in SrcsetWidths
      OBVIOUS
    <3> DEFINE r == asked(v)
    <3>2. r = [w |-> v, h |-> 0, described |-> Described(v)]
      OBVIOUS
    <3> HIDE DEF r
    <3>3. Srcset!Inexact(r) \/ Srcset!Rendered(r, options) = r.described
      BY <3>1, <3>2, CandidateDescribesItself
    <3> QED
      BY <3>3 DEF r
  <2>4. \A r \in requests : \A other \in requests : other.described = r.described => other = r
    <3> SUFFICES ASSUME NEW u \in narrowest, NEW v \in narrowest, Described(u) = Described(v)
                 PROVE u = v
      BY <2>1
    <3>1. u \in Nat /\ v \in Nat
      BY WidthsType
    <3>2. ~(u < v) /\ ~(v < u)
      OBVIOUS
    <3> QED
      BY <3>1, <3>2
  <2>5. \A w \in options.widths : \E other \in requests :
           other.described >= Srcset!Min({w, Srcset!Widest(options.ar), Srcset!Max(Ladder)})
    <3> SUFFICES ASSUME NEW w \in options.widths
                 PROVE \E other \in requests : other.described >=
                          Srcset!Min({w, Srcset!Widest(options.ar), Srcset!Max(Ladder)})
      OBVIOUS
    <3> DEFINE wide == Srcset!Widest(options.ar)
               top == Srcset!Max(Ladder)
               m == Srcset!Min({w, wide, top})
    <3>1. PICK v \in SrcsetWidths : v >= w \/ v >= top
      BY WidthsType
    <3>2. w \in Nat /\ wide \in Nat /\ top \in Nat /\ v \in Nat
      <4>1. top \in Ladder
        BY WidthsType, SnappedFacts
      <4> QED
        BY <4>1, WidthsType, WidestType, SrcsetAssumption
    <3>3. m \in {w, wide, top} /\ m <= w /\ m <= wide /\ m <= top
      BY <3>2, LeastOfThree
    <3> DEFINE alike == {u \in SrcsetWidths : Described(u) = Described(v)}
    <3>4. alike \subseteq Nat /\ v \in alike
      BY WidthsType
    <3>5. PICK u \in alike : \A x \in alike : u <= x
      BY <3>4, LeastNumber
    <3>6. u \in narrowest
      <4> SUFFICES ASSUME NEW x \in SrcsetWidths, x < u, Described(x) = Described(u) PROVE FALSE
        BY <3>5
      <4>1. x \in alike /\ x \in Nat /\ u \in Nat
        BY <3>4, <3>5
      <4>2. u <= x
        BY <3>5, <4>1
      <4> QED
        BY <4>1, <4>2
    <3>7. Described(u) = IF v <= wide THEN v ELSE wide
      BY <3>2, <3>5, DescribedType
    <3> HIDE DEF m, wide, top, alike
    <3>8. Described(u) >= m
      BY <3>1, <3>2, <3>3, <3>7
    <3>9. asked(u) \in requests /\ asked(u).described >= m
      BY <2>1, <3>6, <3>8
    <3> HIDE DEF asked
    <3> QED
      BY <3>9 DEF m, wide, top
  <2> QED
    BY <2>2, <2>3, <2>4, <2>5 DEF Srcset!SrcsetTellsTheWidth
<1> QED
  BY <1>1, <1>2, <1>3 DEF SrcsetInv

LEMMA SrcsetStart == Srcset!SrcsetInit => SrcsetInv
BY DEF Srcset!SrcsetInit, SrcsetInv

LEMMA SrcsetStep ==
    ASSUME SrcsetInv, [Srcset!SrcsetNext]_(Srcset!srcsetVars)
    PROVE SrcsetInv'
<1>1. CASE UNCHANGED Srcset!srcsetVars
  <2>1. UNCHANGED <<source, options, requests>>
    BY <1>1 DEF Srcset!srcsetVars
  <2>2. Srcset!Candidates(options)' = Srcset!Candidates(options)
    BY <2>1 DEF Srcset!Candidates, Srcset!Widest, Srcset!Snapped
  <2> QED
    BY <2>1, <2>2 DEF SrcsetInv
<1>2. CASE Srcset!BuildSrcset
  <2>1. UNCHANGED <<source, options>> /\ requests' = Srcset!Candidates(options)
    BY <1>2 DEF Srcset!BuildSrcset
  <2>2. Srcset!Candidates(options)' = Srcset!Candidates(options)
    BY <2>1 DEF Srcset!Candidates, Srcset!Widest, Srcset!Snapped
  <2> QED
    BY <2>1, <2>2 DEF SrcsetInv
<1>3. ASSUME NEW w \in options.widths, NEW h \in options.widths \union {Srcset!Unset},
             Srcset!TransformPath(w, h)
      PROVE SrcsetInv'
  <2>1. UNCHANGED <<source, options>> /\ ~options.signed
    BY <1>3 DEF Srcset!TransformPath
  <2>2. CASE h = Srcset!Unset
    <3>1. requests' = {Srcset!Request(Srcset!Snapped(w), Srcset!Unset, Srcset!Unset)}
      BY <1>3, <2>2 DEF Srcset!TransformPath
    <3> QED
      BY <2>1, <3>1 DEF SrcsetInv, Srcset!Request
  <2>3. CASE h # Srcset!Unset
    <3>1. requests' = {Srcset!Request(Srcset!Snapped(w), Srcset!Snapped(h), Srcset!Unset)}
          /\ h \in options.widths
      BY <1>3, <2>3 DEF Srcset!TransformPath
    <3> QED
      BY <2>1, <3>1 DEF SrcsetInv, Srcset!Request
  <2> QED
    BY <2>2, <2>3
<1> QED
  BY <1>1, <1>2, <1>3 DEF Srcset!SrcsetNext

-----------------------------------------------------------------------------
(* The advisories.                                                         *)

AdviceSeq(P) == CHOOSE f \in [1..Cardinality(P) -> P] : \A i, j \in DOMAIN f : f[i] = f[j] => i = j

LEMMA AdviceSeqIs == ASSUME NEW P PROVE Advice!SetToSeq(P) = AdviceSeq(P)
BY Zenon DEF Advice!SetToSeq, AdviceSeq, Advice!IsInjective, Advice!Cardinality, Cardinality

\* A finite set as a sequence holds every one of its elements.
LEMMA AdviceSeqFacts ==
    ASSUME NEW P, IsFiniteSet(P)
    PROVE AdviceSeq(P) \in Seq(P) /\ Range(AdviceSeq(P)) = P
<1> DEFINE n == Cardinality(P)
           f == AdviceSeq(P)
<1>1. n \in Nat /\ ExistsBijection(1..n, P)
  BY FS_CardinalityType
<1>2. PICK g \in Bijection(1..n, P) : TRUE
  BY <1>1 DEF ExistsBijection
<1>3. g \in [1..n -> P] /\ \A i, j \in DOMAIN g : g[i] = g[j] => i = j
  BY <1>2 DEF Bijection, Injection, IsInjective
<1>4. f \in [1..n -> P] /\ \A i, j \in DOMAIN f : f[i] = f[j] => i = j
  BY <1>3 DEF AdviceSeq
<1> HIDE DEF f
<1>5. f \in Injection(1..n, P)
  BY <1>4 DEF Injection, IsInjective
<1>6. Cardinality(1..n) = n
  BY <1>1, FirstNumbers
<1>7. f \in Surjection(1..n, P)
  BY <1>5, <1>6, FS_Injection
<1>8. \A t \in P : \E s \in 1..n : f[s] = t
  BY <1>7 DEF Surjection
<1>9. f \in Seq(P)
  BY <1>1, <1>4, SeqDef
<1>10. Range(f) = P
  BY <1>4, <1>8 DEF Range
<1> QED
  BY <1>9, <1>10 DEF f

AdviceLetters == {"c", "o", "X", "~"}
AdviceElements == [tag : {"h", "a", "p"}, text : Seq(AdviceLetters)]

JumpInv ==
    /\ body \in Seq(Seq(AdviceElements))
    /\ \E S : pulseEnds \in Seq(S)
    /\ Advice!OneFindingShown

LEMMA ElementsTyped == PageElements \subseteq AdviceElements
<1> DEFINE L == AdviceLetters
<1>1. "c" \in L /\ "o" \in L /\ "X" \in L
  BY DEF AdviceLetters
<1> HIDE DEF L
<1>2. /\ <<>> \in Seq(L) /\ <<"c">> \in Seq(L) /\ <<"o">> \in Seq(L)
      /\ <<"X", "X">> \in Seq(L) /\ <<"o", "X", "X">> \in Seq(L)
  BY <1>1
<1>3. \A tag \in {"h", "a", "p"}, text \in Seq(L) : Element(tag, text) \in AdviceElements
  BY DEF Element, AdviceElements, L
<1> QED
  BY <1>2, <1>3 DEF PageElements

LEMMA PulsesEnd ==
    ASSUME body \in Seq(Seq(AdviceElements)), NEW f
    PROVE IsFiniteSet(Advice!Resolve(f).pulse)
<1>1. IsFiniteSet(f.blocks \cap DOMAIN body)
  <2>1. DOMAIN body = 1..Len(body) /\ Len(body) \in Nat
    BY LenProperties
  <2>2. IsFiniteSet(DOMAIN body)
    BY <2>1, FirstNumbers
  <2> QED
    BY <2>2, FS_Intersection
<1>2. \A x : IsFiniteSet({x})
  BY FS_Singleton
<1>3. \/ Advice!Resolve(f).pulse = f.blocks \cap DOMAIN body
      \/ \E x : Advice!Resolve(f).pulse = {x}
  BY DEF Advice!Resolve, Advice!Everywhere
<1> QED
  BY <1>1, <1>2, <1>3

LEMMA JumpStart == Advice!JumpInit => JumpInv
<1> SUFFICES ASSUME Advice!JumpInit PROVE JumpInv
  OBVIOUS
<1>1. body \in PageBodies /\ marks = {} /\ pulsing = {} /\ pulseEnds = <<>>
  BY DEF Advice!JumpInit
<1>2. PageElements \subseteq AdviceElements
  BY ElementsTyped
<1>3. PICK x \in PageElements, y \in PageElements, e \in PageElements : body = << <<x, y>>, <<e>> >>
  BY <1>1 DEF PageBodies
<1>4. body \in Seq(Seq(AdviceElements))
  <2>1. x \in AdviceElements /\ y \in AdviceElements /\ e \in AdviceElements
    BY <1>2, <1>3
  <2> HIDE DEF AdviceElements
  <2>2. <<x, y>> \in Seq(AdviceElements) /\ <<e>> \in Seq(AdviceElements)
    BY <2>1
  <2> DEFINE s == <<x, y>>
             t == <<e>>
  <2> HIDE DEF s, t
  <2>3. s \in Seq(AdviceElements) /\ t \in Seq(AdviceElements)
    BY <2>2 DEF s, t
  <2>4. <<s, t>> \in Seq(Seq(AdviceElements))
    BY <2>3
  <2> QED
    BY <1>3, <2>4 DEF s, t
<1>5. pulseEnds \in Seq({})
  BY <1>1, EmptySeq
<1> QED
  BY <1>1, <1>4, <1>5 DEF JumpInv, Advice!OneFindingShown

LEMMA JumpStep ==
    ASSUME JumpInv, [Advice!JumpNext]_(Advice!jumpVars)
    PROVE JumpInv'
<1>1. /\ body \in Seq(Seq(AdviceElements))
      /\ marks \subseteq target.marks /\ (marks # {} => clearTimer)
      /\ pulsing \subseteq {pulseEnds[i] : i \in DOMAIN pulseEnds}
  BY DEF JumpInv, Advice!OneFindingShown, Advice!ToSet
<1>2. PICK S : pulseEnds \in Seq(S)
  BY DEF JumpInv
<1>3. CASE UNCHANGED Advice!jumpVars
  BY <1>3 DEF Advice!jumpVars, JumpInv, Advice!OneFindingShown, Advice!ToSet
<1>4. CASE Advice!Edit
  <2>1. /\ UNCHANGED <<findings, target, clearTimer, pulsing, pulseEnds>> /\ marks' \subseteq marks
    BY <1>4 DEF Advice!Edit
  <2>2. body' \in Seq(Seq(AdviceElements))
    <3>1. PICK p \in UNION {{b} \X DOMAIN body[b] : b \in DOMAIN body}, e \in PageElements :
             body' = [body EXCEPT ![p[1]][p[2]] = e]
      BY <1>4 DEF Advice!Edit, Advice!Everywhere
    <3>2. PICK b \in DOMAIN body : p \in {b} \X DOMAIN body[b]
      OBVIOUS
    <3>3. p[1] = b /\ p[2] \in DOMAIN body[b] /\ b \in 1..Len(body)
      BY <1>1, <3>2, LenProperties
    <3>4. e \in AdviceElements
      BY <3>1, ElementsTyped
    <3>5. body[b] \in Seq(AdviceElements)
      BY <1>1, <3>3, ElementOfSeq
    <3> HIDE DEF AdviceElements
    <3>6. [body[b] EXCEPT ![p[2]] = e] \in Seq(AdviceElements)
      BY <3>3, <3>4, <3>5, ExceptSeq
    <3>7. body' = [body EXCEPT ![b] = [body[b] EXCEPT ![p[2]] = e]]
      BY <3>1, <3>3
    <3> QED
      BY <1>1, <3>3, <3>6, <3>7, ExceptSeq
  <2> QED
    BY <1>1, <1>2, <2>1, <2>2 DEF JumpInv, Advice!OneFindingShown, Advice!ToSet
<1>5. CASE Advice!Refresh
  BY <1>1, <1>2, <1>5 DEF Advice!Refresh, JumpInv, Advice!OneFindingShown, Advice!ToSet
<1>6. CASE Advice!Jump
  <2>1. PICK f \in findings : target' = Advice!Resolve(f)
    BY <1>6 DEF Advice!Jump
  <2> DEFINE P == target'.pulse
             s == AdviceSeq(P)
  <2>2. /\ marks' = target'.marks /\ clearTimer' = TRUE /\ pulsing' = pulsing \cup P
        /\ UNCHANGED body /\ pulseEnds' = pulseEnds \o s
    BY <1>6, AdviceSeqIs DEF Advice!Jump
  <2>3. IsFiniteSet(P)
    BY <1>1, <2>1, PulsesEnd
  <2> HIDE DEF P
  <2>4. s \in Seq(P) /\ Range(s) = P
    BY <2>3, AdviceSeqFacts
  <2> HIDE DEF s
  <2> DEFINE T == S \union P
  <2>5. pulseEnds \in Seq(T) /\ s \in Seq(T)
    BY <1>2, <2>4, SeqMonotonic
  <2> HIDE DEF T
  <2>6. pulseEnds' \in Seq(T) /\ Range(pulseEnds') = Range(pulseEnds) \union Range(s)
    BY <2>2, <2>5, Joined, ConcatProperties
  <2>7. pulsing' \subseteq Range(pulseEnds')
    BY <1>1, <2>2, <2>4, <2>6 DEF Range
  <2> QED
    BY <1>1, <2>2, <2>6, <2>7 DEF JumpInv, Advice!OneFindingShown, Advice!ToSet, Range
<1>7. CASE Advice!ClearMarks
  BY <1>1, <1>2, <1>7 DEF Advice!ClearMarks, JumpInv, Advice!OneFindingShown, Advice!ToSet
<1>8. CASE Advice!EndPulse
  <2>1. /\ pulseEnds # <<>> /\ pulseEnds' = Tail(pulseEnds)
        /\ pulsing' = pulsing \ {Head(pulseEnds)}
        /\ UNCHANGED <<body, findings, target, marks, clearTimer>>
    BY <1>8 DEF Advice!EndPulse
  <2>2. /\ Head(pulseEnds) = pulseEnds[1] /\ Tail(pulseEnds) \in Seq(S)
        /\ Len(pulseEnds) \in Nat /\ Len(pulseEnds) >= 1
        /\ Len(Tail(pulseEnds)) = Len(pulseEnds) - 1
        /\ \A k \in 1..Len(Tail(pulseEnds)) :
              k + 1 \in 1..Len(pulseEnds) /\ Tail(pulseEnds)[k] = pulseEnds[k + 1]
        /\ DOMAIN pulseEnds = 1..Len(pulseEnds)
        /\ DOMAIN Tail(pulseEnds) = 1..Len(Tail(pulseEnds))
    BY <1>2, <2>1, Taken, LenProperties
  <2>3. \A x \in pulsing' : \E k \in DOMAIN pulseEnds' : x = pulseEnds'[k]
    <3> SUFFICES ASSUME NEW x \in pulsing, x # pulseEnds[1]
                 PROVE \E k \in 1..Len(Tail(pulseEnds)) : x = Tail(pulseEnds)[k]
      BY <2>1, <2>2
    <3>1. PICK i \in 1..Len(pulseEnds) : x = pulseEnds[i]
      BY <1>1, <2>2
    <3>2. i # 1
      BY <3>1
    <3> DEFINE k == i - 1
    <3>3. k \in 1..Len(Tail(pulseEnds)) /\ k + 1 = i
      BY <2>2, <3>2
    <3> HIDE DEF k
    <3> QED
      BY <2>2, <3>1, <3>3
  <2> QED
    BY <1>1, <2>1, <2>2, <2>3 DEF JumpInv, Advice!OneFindingShown, Advice!ToSet
<1> QED
  BY <1>3, <1>4, <1>5, <1>6, <1>7, <1>8 DEF Advice!JumpNext

LEMMA PlacesOf ==
    ASSUME NEW tag, NEW blocks, NEW p
    PROVE p \in Advice!AllOf(tag, blocks) <=>
            /\ p = <<p[1], p[2]>> /\ p[1] \in blocks /\ p[2] \in DOMAIN body[p[1]]
            /\ Advice!At(p).tag = tag
<1>1. ASSUME NEW b PROVE p \in {b} \X DOMAIN body[b] <=>
                           p = <<p[1], p[2]>> /\ p[1] = b /\ p[2] \in DOMAIN body[b]
  OBVIOUS
<1>2. p \in Advice!AllOf(tag, blocks) <=>
        (\E b \in blocks : p \in {b} \X DOMAIN body[b]) /\ Advice!At(p).tag = tag
  BY DEF Advice!AllOf
<1> QED
  BY <1>1, <1>2

\* The first of some places is one of them.
LEMMA FirstFacts ==
    ASSUME NEW P, P \subseteq Nat \X Nat, P # {}
    PROVE Advice!First(P) \in P
<1> DEFINE rows1 == {p[1] : p \in P}
<1>1. rows1 \subseteq Nat /\ rows1 # {}
  OBVIOUS
<1>2. PICK b \in rows1 : \A x \in rows1 : b <= x
  BY <1>1, LeastNumber
<1> DEFINE cols == {p[2] : p \in {q \in P : q[1] = b}}
<1>3. cols \subseteq Nat /\ cols # {}
  BY <1>2
<1>4. PICK c \in cols : \A x \in cols : c <= x
  BY <1>3, LeastNumber
<1>5. PICK p \in P : p[1] = b /\ p[2] = c
  BY <1>4
<1>6. \A q \in P : p[1] < q[1] \/ (p[1] = q[1] /\ p[2] <= q[2])
  <2> SUFFICES ASSUME NEW q \in P PROVE p[1] < q[1] \/ (p[1] = q[1] /\ p[2] <= q[2])
    OBVIOUS
  <2>1. q[1] \in rows1 /\ q[1] \in Nat /\ p[1] \in Nat
    OBVIOUS
  <2>2. b <= q[1]
    BY <1>2, <2>1
  <2>3. q[1] = b => q[2] \in cols
    OBVIOUS
  <2>4. q[1] = b => c <= q[2]
    BY <1>4, <2>3
  <2> QED
    BY <1>5, <2>1, <2>2, <2>4
<1> QED
  BY <1>6 DEF Advice!First

LEMMA FoundAt ==
    ASSUME body \in Seq(Seq(AdviceElements)), NEW tag, NEW p \in Advice!AllOf(tag, Advice!Everywhere)
    PROVE /\ p \in Nat \X Nat /\ p = <<p[1], p[2]>>
          /\ p[1] \in DOMAIN body /\ p[2] \in DOMAIN body[p[1]]
          /\ body[p[1]] \in Seq(AdviceElements)
          /\ Advice!At(p) \in AdviceElements /\ Advice!At(p) = body[p[1]][p[2]]
          /\ Advice!At(p).tag = tag
<1>1. /\ p = <<p[1], p[2]>> /\ p[1] \in DOMAIN body /\ p[2] \in DOMAIN body[p[1]]
      /\ Advice!At(p).tag = tag
  BY PlacesOf DEF Advice!Everywhere
<1>2. p[1] \in 1..Len(body) /\ Len(body) \in Nat
  BY <1>1, LenProperties
<1>3. body[p[1]] \in Seq(AdviceElements)
  BY <1>2, ElementOfSeq
<1>4. p[2] \in 1..Len(body[p[1]]) /\ Len(body[p[1]]) \in Nat
  BY <1>1, <1>3, LenProperties
<1>5. body[p[1]][p[2]] \in AdviceElements
  BY <1>3, <1>4, ElementOfSeq
<1> QED
  BY <1>1, <1>2, <1>3, <1>4, <1>5 DEF Advice!At

\* An empty heading leads to every one of them.
LEMMA HeadingsLead ==
    ASSUME body \in Seq(Seq(AdviceElements)), NEW f, f.code = "headings_empty",
           f.blocks = {p[1] : p \in Advice!EmptyHeadings}, Advice!EmptyHeadings # {}
    PROVE Advice!Resolve(f).marks = Advice!EmptyHeadings
<1> DEFINE named == f.blocks \cap Advice!Everywhere
<1>1. \A p \in Advice!EmptyHeadings :
         p \in Advice!AllOf("h", Advice!Everywhere) /\ Advice!Blank(Advice!At(p))
  BY DEF Advice!EmptyHeadings
<1>2. \A p \in Advice!EmptyHeadings : p[1] \in Advice!Everywhere
  BY <1>1, PlacesOf
<1>3. named = {p[1] : p \in Advice!EmptyHeadings} /\ named # {}
  BY <1>2
<1>4. Advice!Resolve(f).marks = UNION {Advice!WithinBlock(b, f) : b \in named}
  BY <1>3 DEF Advice!Resolve
<1>5. \A b : Advice!WithinBlock(b, f) = {p \in Advice!AllOf("h", {b}) : Advice!Blank(Advice!At(p))}
  BY DEF Advice!WithinBlock
<1> HIDE DEF named
<1>6. ASSUME NEW p \in Advice!EmptyHeadings
      PROVE \E b \in named : p \in Advice!WithinBlock(b, f)
  <2>1. p[1] \in named
    BY <1>3
  <2>2. p \in Advice!AllOf("h", {p[1]}) /\ Advice!Blank(Advice!At(p))
    BY <1>1, PlacesOf
  <2> QED
    BY <1>5, <2>1, <2>2
<1>7. ASSUME NEW b \in named, NEW p \in Advice!WithinBlock(b, f)
      PROVE p \in Advice!EmptyHeadings
  <2>1. p \in Advice!AllOf("h", {b}) /\ Advice!Blank(Advice!At(p))
    BY <1>5
  <2>2. b \in Advice!Everywhere
    BY <1>2, <1>3
  <2>3. p \in Advice!AllOf("h", Advice!Everywhere)
    BY <2>1, <2>2, PlacesOf
  <2> QED
    BY <2>1, <2>3 DEF Advice!EmptyHeadings
<1> QED
  BY <1>4, <1>6, <1>7

LEMMA LongParagraphsLead ==
    ASSUME body \in Seq(Seq(AdviceElements)), NEW f, f.code = "long_paragraphs",
           f.blocks = {}, Advice!LongParagraphs # {}
    PROVE Advice!Resolve(f).marks = Advice!LongParagraphs
<1> DEFINE found == Advice!WithinBody(f)
<1>1. found = [marks |-> {p \in Advice!AllOf("p", Advice!Everywhere) :
                            ~Advice!Blank(Advice!At(p)) /\ Len(Advice!At(p).text) > LongFrom},
               range |-> Advice!NoRange]
  BY DEF Advice!WithinBody
<1>2. \A p \in Advice!AllOf("p", Advice!Everywhere) :
         Len(Advice!At(p).text) > LongFrom => ~Advice!Blank(Advice!At(p))
  <2> SUFFICES ASSUME NEW p \in Advice!AllOf("p", Advice!Everywhere),
                      Len(Advice!At(p).text) > LongFrom, Advice!At(p).text = <<>>
               PROVE FALSE
    BY DEF Advice!Blank
  <2>1. Len(Advice!At(p).text) = 0
    OBVIOUS
  <2> QED
    BY <2>1, AdviceAssumption
<1>3. found.marks = Advice!LongParagraphs /\ found.range = Advice!NoRange
  BY <1>1, <1>2 DEF Advice!LongParagraphs
<1> HIDE DEF found
<1>4. f.blocks \cap Advice!Everywhere = {}
  OBVIOUS
<1> QED
  BY <1>3, <1>4 DEF Advice!Resolve, found

\* A poor link leads to the very words, where the block still has them.
LEMMA LinksLead ==
    ASSUME body \in Seq(Seq(AdviceElements)), NEW f, f.code = "link_text_uninformative",
           f.blocks = {p[1] : p \in Advice!PoorLinks}, Advice!PoorLinks # {},
           f.text = Advice!At(Advice!First(Advice!PoorLinks)).text
    PROVE /\ Advice!PoorLinks \subseteq Advice!Resolve(f).marks \cup
                {p \in Advice!PoorLinks : Advice!At(p).text # f.text}
          /\ \A p \in Advice!Resolve(f).marks \ Advice!PoorLinks :
                \A q \in Advice!AllOf("a", {p[1]}) : Advice!At(q).text # f.text
<1> DEFINE named == f.blocks \cap Advice!Everywhere
           exact(b) == {p \in Advice!AllOf("a", {b}) : Advice!At(p).text = f.text}
<1>1. \A p \in Advice!PoorLinks : p \in Advice!AllOf("a", Advice!Everywhere) /\ Advice!Says(Advice!At(p))
  BY DEF Advice!PoorLinks
<1>2. \A p \in Advice!PoorLinks : p[1] \in Advice!Everywhere /\ p \in Nat \X Nat
  BY <1>1, PlacesOf, FoundAt
<1>3. named = {p[1] : p \in Advice!PoorLinks} /\ named # {} /\ named \subseteq Advice!Everywhere
  BY <1>2
<1>4. Advice!Resolve(f).marks = UNION {Advice!WithinBlock(b, f) : b \in named}
  BY <1>3 DEF Advice!Resolve
<1>5. \A b : Advice!WithinBlock(b, f) = IF exact(b) # {} THEN exact(b) ELSE Advice!AllOf("a", {b})
  BY DEF Advice!WithinBlock
<1>6. f.text \in {<<"c">>, <<"r">>}
  <2>1. Advice!First(Advice!PoorLinks) \in Advice!PoorLinks
    BY <1>2, FirstFacts
  <2> QED
    BY <1>1, <2>1 DEF Advice!Says
<1> HIDE DEF named, exact
<1>7. ASSUME NEW p \in Advice!PoorLinks, Advice!At(p).text = f.text
      PROVE p \in Advice!Resolve(f).marks
  <2>1. p[1] \in named /\ p \in Advice!AllOf("a", {p[1]})
    BY <1>1, <1>3, PlacesOf
  <2>2. p \in exact(p[1])
    BY <1>7, <2>1 DEF exact
  <2>3. p \in Advice!WithinBlock(p[1], f)
    BY <1>5, <2>2
  <2> QED
    BY <1>4, <2>1, <2>3
<1>8. ASSUME NEW p \in Advice!Resolve(f).marks, p \notin Advice!PoorLinks
      PROVE \A q \in Advice!AllOf("a", {p[1]}) : Advice!At(q).text # f.text
  <2>1. PICK b \in named : p \in Advice!WithinBlock(b, f)
    BY <1>4
  <2>2. p \in Advice!AllOf("a", {b})
    BY <1>5, <2>1 DEF exact
  <2>3. p[1] = b /\ p \in Advice!AllOf("a", Advice!Everywhere)
    BY <1>3, <2>1, <2>2, PlacesOf
  <2>4. Advice!At(p).text # f.text
    BY <1>6, <1>8, <2>3 DEF Advice!PoorLinks, Advice!Says
  <2>5. exact(b) = {}
    BY <1>5, <2>1, <2>4 DEF exact
  <2> QED
    BY <2>3, <2>5 DEF exact
<1> QED
  BY <1>7, <1>8

\* Pieces of sizes laid end to end: an offset falls in, or at the end of, the last
\* piece that is not empty and starts no later.
LEMMA LastPiece ==
    ASSUME NEW n \in Nat, NEW start \in [1..(n + 1) -> Nat], NEW size \in [1..n -> Nat],
           start[1] = 0, \A i \in 1..n : start[i + 1] = start[i] + size[i],
           NEW offset \in Nat, offset <= start[n + 1], start[n + 1] # 0,
           NEW hits, hits = {i \in 1..n : size[i] # 0 /\ start[i] <= offset}
    PROVE \E i \in hits : /\ \A j \in hits : j <= i
                          /\ start[i] <= offset /\ offset <= start[i] + size[i]
<1>1. hits \subseteq Nat /\ \A i \in hits : i <= n
  OBVIOUS
<1>2. hits # {}
  <2> DEFINE later == {i \in 1..(n + 1) : start[i] # 0}
  <2>1. later \subseteq Nat /\ n + 1 \in later
    OBVIOUS
  <2>2. PICK m \in later : \A x \in later : m <= x
    BY <2>1, LeastNumber
  <2>3. m \in 1..(n + 1) /\ m # 1 /\ start[m] # 0
    OBVIOUS
  <2> DEFINE k == m - 1
  <2>4. k \in 1..n /\ k \in 1..(n + 1) /\ k + 1 = m /\ ~(m <= k)
    BY <2>3
  <2>5. start[k] = 0
    BY <2>2, <2>4
  <2> HIDE DEF k
  <2>6. start[m] = start[k] + size[k]
    BY <2>4
  <2>7. size[k] # 0
    BY <2>3, <2>4, <2>5, <2>6
  <2>8. start[k] <= offset
    BY <2>5
  <2> QED
    BY <2>4, <2>7, <2>8
<1>3. PICK i \in hits : \A j \in hits : j <= i
  BY <1>1, <1>2, GreatestNumber
<1>4. /\ i \in 1..n /\ i + 1 \in 1..(n + 1) /\ start[i] <= offset
      /\ start[i + 1] = start[i] + size[i] /\ start[i] \in Nat /\ size[i] \in Nat
  OBVIOUS
<1>5. offset <= start[i] + size[i]
  <2> SUFFICES ASSUME start[i + 1] < offset PROVE FALSE
    BY <1>4
  <2> DEFINE later == {x \in (i + 1)..(n + 1) : start[x] > start[i + 1]}
  <2>1. n + 1 \in later
    <3>1. start[i + 1] \in Nat /\ start[n + 1] \in Nat
      BY <1>4
    <3> DEFINE sn == start[n + 1]
               si == start[i + 1]
    <3>2. sn \in Nat /\ si \in Nat /\ si < offset /\ offset <= sn
      BY <3>1
    <3> HIDE DEF sn, si
    <3>3. sn > si
      BY <3>2
    <3>4. n + 1 \in (i + 1)..(n + 1)
      BY <1>4
    <3> QED
      BY <3>3, <3>4 DEF sn, si
  <2>2. later \subseteq Nat
    BY <1>4
  <2>3. PICK m \in later : \A x \in later : m <= x
    BY <2>1, <2>2, LeastNumber
  <2>4. m \in (i + 1)..(n + 1) /\ start[m] > start[i + 1] /\ m # i + 1
    BY <1>4
  <2> DEFINE k == m - 1
  <2>5. /\ k \in (i + 1)..(n + 1) /\ k \in 1..n /\ k \in 1..(n + 1) /\ k + 1 = m
        /\ ~(m <= k) /\ k > i
    BY <1>4, <2>4
  <2>6. ~(start[k] > start[i + 1])
    BY <2>3, <2>5
  <2> HIDE DEF k
  <2>7. start[m] = start[k] + size[k] /\ start[k] \in Nat /\ size[k] \in Nat
    BY <2>5
  <2>8. start[k] <= start[i + 1] /\ start[i + 1] \in Nat
    <3>1. start[i + 1] \in Nat
      BY <1>4
    <3> DEFINE sk == start[k]
               si == start[i + 1]
    <3>2. sk \in Nat /\ si \in Nat /\ ~(sk > si)
      BY <2>6, <2>7, <3>1
    <3> HIDE DEF sk, si
    <3>3. sk <= si
      BY <3>2
    <3> QED
      BY <3>1, <3>3 DEF sk, si
  <2>9. size[k] # 0 /\ start[k] <= offset
    <3> DEFINE sk == start[k]
               si == start[i + 1]
               sm == start[m]
               z == size[k]
    <3>1. /\ sm > si /\ sm = sk + z /\ sk \in Nat /\ z \in Nat /\ sk <= si /\ si \in Nat
          /\ si < offset
      BY <2>4, <2>7, <2>8
    <3> HIDE DEF sk, si, sm, z
    <3>2. z # 0
      BY <3>1
    <3>3. sk <= offset
      BY <3>1
    <3> QED
      BY <3>2, <3>3 DEF sk, z
  <2>10. k \in hits
    BY <2>5, <2>9
  <2> QED
    BY <1>3, <1>4, <2>5, <2>10
<1> QED
  BY <1>3, <1>4, <1>5

\* The texts of a block up to an element, laid end to end.
TextsTo(b, i) == [k \in 1..i |-> body[b][k].text]
WordsTo(b, i) == FlattenSeq(TextsTo(b, i))

LEMMA AdviceFlat == ASSUME NEW s PROVE Advice!FlattenSeq(s) = FlattenSeq(s)
BY Zenon DEF Advice!FlattenSeq, FlattenSeq

LEMMA WordsGrow ==
    ASSUME body \in Seq(Seq(AdviceElements)), NEW b \in DOMAIN body, NEW i \in 0..Len(body[b])
    PROVE /\ Len(body[b]) \in Nat /\ WordsTo(b, i) \in Seq(AdviceLetters) /\ WordsTo(b, 0) = <<>>
          /\ i # Len(body[b]) =>
                /\ body[b][i + 1].text \in Seq(AdviceLetters)
                /\ WordsTo(b, i + 1) = WordsTo(b, i) \o body[b][i + 1].text
<1>1. b \in 1..Len(body) /\ body[b] \in Seq(AdviceElements)
  BY LenProperties, ElementOfSeq
<1>2. Len(body[b]) \in Nat
  BY <1>1, LenProperties
<1>3. \A k \in 1..Len(body[b]) : body[b][k].text \in Seq(AdviceLetters)
  <2> SUFFICES ASSUME NEW k \in 1..Len(body[b]) PROVE body[b][k].text \in Seq(AdviceLetters)
    OBVIOUS
  <2>1. body[b][k] \in AdviceElements
    BY <1>1, ElementOfSeq
  <2> QED
    BY <2>1 DEF AdviceElements
<1>4. \A j \in 0..Len(body[b]) : TextsTo(b, j) \in Seq(Seq(AdviceLetters)) /\ Len(TextsTo(b, j)) = j
  <2> SUFFICES ASSUME NEW j \in 0..Len(body[b])
               PROVE TextsTo(b, j) \in Seq(Seq(AdviceLetters)) /\ Len(TextsTo(b, j)) = j
    OBVIOUS
  <2>1. TextsTo(b, j) \in [1..j -> Seq(AdviceLetters)] /\ j \in Nat
    BY <1>2, <1>3 DEF TextsTo
  <2>2. TextsTo(b, j) \in Seq(Seq(AdviceLetters))
    BY <2>1, SeqDef
  <2> QED
    BY <2>1, <2>2, LenProperties
<1>5. WordsTo(b, i) \in Seq(AdviceLetters)
  BY <1>4, FlatType DEF WordsTo
<1>6. WordsTo(b, 0) = <<>>
  <2>1. TextsTo(b, 0) \in Seq(Seq(AdviceLetters)) /\ Len(TextsTo(b, 0)) = 0
    BY <1>2, <1>4
  <2>2. TextsTo(b, 0) = <<>>
    BY <2>1, EmptySeq
  <2> QED
    BY <2>2, FlatEmpty DEF WordsTo
<1>7. ASSUME i # Len(body[b])
      PROVE /\ body[b][i + 1].text \in Seq(AdviceLetters)
            /\ WordsTo(b, i + 1) = WordsTo(b, i) \o body[b][i + 1].text
  <2>1. i \in Nat /\ i + 1 \in 1..Len(body[b]) /\ i + 1 \in 0..Len(body[b])
    BY <1>2, <1>7
  <2> DEFINE s == TextsTo(b, i)
             t == TextsTo(b, i + 1)
             e == body[b][i + 1].text
  <2>2. /\ s \in Seq(Seq(AdviceLetters)) /\ Len(s) = i /\ t \in Seq(Seq(AdviceLetters))
        /\ Len(t) = i + 1 /\ e \in Seq(AdviceLetters)
    BY <1>3, <1>4, <2>1
  <2>3. /\ \A k \in 1..i : t[k] = s[k]
        /\ t[i + 1] = e
    BY <2>1 DEF TextsTo
  <2> HIDE DEF s, t, e
  <2>4. /\ Append(s, e) \in Seq(Seq(AdviceLetters)) /\ Len(Append(s, e)) = i + 1
        /\ \A k \in 1..i : Append(s, e)[k] = s[k]
        /\ Append(s, e)[i + 1] = e
    BY <2>2, Added
  <2>5. \A k \in 1..(i + 1) : t[k] = Append(s, e)[k]
    <3>1. \A k \in 1..(i + 1) : k \in 1..i \/ k = i + 1
      BY <2>1
    <3> QED
      BY <2>3, <2>4, <3>1
  <2>6. t = Append(s, e)
    BY <2>2, <2>4, <2>5, SeqEqual
  <2>7. FlattenSeq(t) = FlattenSeq(s) \o e
    BY <2>2, <2>6, FlatAppend
  <2> QED
    BY <2>2, <2>7 DEF WordsTo, s, t, e
<1> QED
  BY <1>2, <1>5, <1>6, <1>7

LEMMA AdviceWords ==
    ASSUME body \in Seq(Seq(AdviceElements)), NEW b \in DOMAIN body
    PROVE /\ Advice!Words(b) = WordsTo(b, Len(body[b]))
          /\ \A i : Advice!StartOf(b, i) = Len(WordsTo(b, i - 1))
          /\ DOMAIN body[b] = 1..Len(body[b]) /\ Len(body[b]) \in Nat
<1>1. b \in 1..Len(body) /\ body[b] \in Seq(AdviceElements)
  BY LenProperties, ElementOfSeq
<1>2. DOMAIN body[b] = 1..Len(body[b]) /\ Len(body[b]) \in Nat
  BY <1>1, LenProperties
<1>3. Advice!Words(b) = WordsTo(b, Len(body[b]))
  BY <1>2, AdviceFlat DEF Advice!Words, WordsTo, TextsTo
<1>4. \A i : Advice!StartOf(b, i) = Len(WordsTo(b, i - 1))
  BY AdviceFlat DEF Advice!StartOf, WordsTo, TextsTo
<1> QED
  BY <1>2, <1>3, <1>4

\* An offset in the words is where it is located.
LEMMA LocateFacts ==
    ASSUME body \in Seq(Seq(AdviceElements)), NEW b \in DOMAIN body,
           NEW offset \in Nat, offset <= Len(Advice!Words(b)), Advice!Words(b) # <<>>
    PROVE Advice!StartOf(b, Advice!Locate(b, offset).node) + Advice!Locate(b, offset).offset = offset
<1> DEFINE n == Len(body[b])
           start == [i \in 1..(n + 1) |-> Len(WordsTo(b, i - 1))]
           size == [i \in 1..n |-> Len(body[b][i].text)]
           hits == {i \in Advice!TextNodes(b) : Advice!StartOf(b, i) <= offset}
<1>1. /\ Advice!Words(b) = WordsTo(b, n) /\ n \in Nat /\ DOMAIN body[b] = 1..n
      /\ \A i : Advice!StartOf(b, i) = Len(WordsTo(b, i - 1))
  BY AdviceWords
<1>2. \A i \in 0..n : /\ WordsTo(b, i) \in Seq(AdviceLetters) /\ Len(WordsTo(b, i)) \in Nat
                      /\ i # n => /\ body[b][i + 1].text \in Seq(AdviceLetters)
                                  /\ WordsTo(b, i + 1) = WordsTo(b, i) \o body[b][i + 1].text
  BY WordsGrow, LenProperties
<1>3. WordsTo(b, 0) = <<>>
  <2>1. 0 \in 0..Len(body[b])
    BY <1>1
  <2> QED
    BY <2>1, WordsGrow
<1>4. \A i \in 1..n : /\ body[b][i].text \in Seq(AdviceLetters)
                      /\ WordsTo(b, i) = WordsTo(b, i - 1) \o body[b][i].text
  <2> SUFFICES ASSUME NEW i \in 1..n
               PROVE /\ body[b][i].text \in Seq(AdviceLetters)
                     /\ WordsTo(b, i) = WordsTo(b, i - 1) \o body[b][i].text
    OBVIOUS
  <2> DEFINE k == i - 1
  <2>1. k \in 0..n /\ k # n /\ k + 1 = i
    BY <1>1
  <2> HIDE DEF n
  <2>2. /\ body[b][k + 1].text \in Seq(AdviceLetters)
        /\ WordsTo(b, k + 1) = WordsTo(b, k) \o body[b][k + 1].text
    BY <1>2, <2>1
  <2> QED
    BY <2>1, <2>2
<1> HIDE DEF n
<1>5. \A i \in 1..(n + 1) : i - 1 \in 0..n
  BY <1>1
<1>6. start \in [1..(n + 1) -> Nat]
  BY <1>2, <1>5
<1>7. size \in [1..n -> Nat]
  BY <1>4, LenProperties
<1>8. start[1] = 0
  BY <1>1, <1>3
<1>9. \A i \in 1..n : start[i + 1] = start[i] + size[i]
  <2> SUFFICES ASSUME NEW i \in 1..n PROVE start[i + 1] = start[i] + size[i]
    OBVIOUS
  <2>1. /\ i + 1 \in 1..(n + 1) /\ i \in 1..(n + 1) /\ (i + 1) - 1 = i /\ i - 1 \in 0..n
    BY <1>1
  <2>2. start[i + 1] = Len(WordsTo(b, i)) /\ start[i] = Len(WordsTo(b, i - 1))
        /\ size[i] = Len(body[b][i].text)
    BY <2>1
  <2>3. Len(WordsTo(b, i - 1) \o body[b][i].text) = Len(WordsTo(b, i - 1)) + Len(body[b][i].text)
    BY <1>2, <1>4, <2>1, ConcatProperties
  <2> QED
    BY <1>4, <2>2, <2>3
<1>10. start[n + 1] = Len(Advice!Words(b)) /\ start[n + 1] # 0
  <2>1. n + 1 \in 1..(n + 1) /\ (n + 1) - 1 = n /\ n \in 0..n
    BY <1>1
  <2>2. start[n + 1] = Len(WordsTo(b, n))
    BY <2>1
  <2> QED
    BY <1>1, <1>2, <2>1, <2>2, EmptySeq
<1>11. hits = {i \in 1..n : size[i] # 0 /\ start[i] <= offset}
  <2>1. \A i \in 1..n : Advice!Blank(body[b][i]) <=> size[i] = 0
    BY <1>4, EmptySeq DEF Advice!Blank
  <2>2. Advice!TextNodes(b) = {i \in 1..n : size[i] # 0}
    BY <1>1, <2>1 DEF Advice!TextNodes
  <2>3. \A i \in 1..n : Advice!StartOf(b, i) = start[i]
    <3>1. \A i \in 1..n : i \in 1..(n + 1)
      BY <1>1
    <3> QED
      BY <1>1, <3>1
  <2> HIDE DEF size, start
  <2> QED
    BY <2>2, <2>3
<1> DEFINE node == CHOOSE i \in hits : \A j \in hits : j <= i
<1>12. /\ node \in hits /\ start[node] <= offset /\ offset <= start[node] + size[node]
  <2> HIDE DEF start, size, hits
  <2>0. n \in Nat /\ start[n + 1] # 0 /\ offset <= start[n + 1]
    BY <1>1, <1>10
  <2>a. \E i \in hits : /\ \A j \in hits : j <= i
                       /\ start[i] <= offset /\ offset <= start[i] + size[i]
    BY <1>6, <1>7, <1>8, <1>9, <1>11, <2>0, LastPiece
  <2>1. PICK i \in hits : /\ \A j \in hits : j <= i
                          /\ start[i] <= offset /\ offset <= start[i] + size[i]
    BY <2>a
  <2>2. node \in hits /\ \A j \in hits : j <= node
    BY <2>1
  <2>3. node \in Nat /\ i \in Nat
    BY <1>11, <2>1, <2>2
  <2>4. node <= i /\ i <= node
    BY <2>1, <2>2
  <2> HIDE DEF node
  <2>5. node = i
    BY <2>3, <2>4
  <2> QED
    BY <2>1, <2>2, <2>5
<1>13. node \in 1..n /\ node \in 1..(n + 1)
  <2>1. node \in 1..n
    BY <1>11, <1>12
  <2> QED
    BY <1>1, <2>1
<1>14. Advice!StartOf(b, node) = start[node] /\ Len(body[b][node].text) = size[node]
  <2> HIDE DEF node
  <2> QED
    BY <1>1, <1>13
<1>15. Advice!Locate(b, offset) =
         [node |-> node, offset |-> IF offset - Advice!StartOf(b, node) < Len(body[b][node].text)
                                    THEN offset - Advice!StartOf(b, node)
                                    ELSE Len(body[b][node].text)]
  BY Zenon DEF Advice!Locate
<1> HIDE DEF hits, node, start, size
<1>16. start[node] \in Nat /\ size[node] \in Nat
  BY <1>6, <1>7, <1>13
<1> DEFINE a == start[node]
           z == size[node]
           here == Advice!Locate(b, offset)
<1>17. /\ a \in Nat /\ z \in Nat /\ a <= offset /\ offset <= a + z
       /\ Advice!StartOf(b, here.node) = a
       /\ here.offset = IF offset - a < z THEN offset - a ELSE z
  BY <1>12, <1>14, <1>15, <1>16
<1> HIDE DEF a, z, here
<1>18. Advice!StartOf(b, here.node) + here.offset = offset
  BY <1>17
<1> QED
  BY <1>18 DEF here

\* What is selected of a text that was found is that text.
LEMMA SelectedFacts ==
    ASSUME body \in Seq(Seq(AdviceElements)), NEW needle \in Seq(AdviceLetters), needle # <<>>,
           Advice!TextRange(needle) # Advice!NoRange
    PROVE Advice!Selected(Advice!TextRange(needle)) = needle
<1> DEFINE blocks == {b \in Advice!Everywhere :
                        Len(Advice!Words(b)) >= Len(needle) /\ Advice!Holds(b, needle) # {}}
           b == CHOOSE x \in blocks : \A c \in blocks : x <= c
           spot == CHOOSE x \in Advice!Holds(b, needle) : \A k \in Advice!Holds(b, needle) : x <= k
           r == Advice!TextRange(needle)
<1>1. blocks # {}
  BY DEF Advice!TextRange
<1>2. r = [block |-> b, from |-> Advice!Locate(b, spot), to |-> Advice!Locate(b, spot + Len(needle))]
  BY <1>1, Zenon DEF Advice!TextRange
<1>3. blocks \subseteq Nat
  <2>1. DOMAIN body \subseteq Nat
    BY LenProperties
  <2> QED
    BY <2>1 DEF Advice!Everywhere
<1>4. b \in blocks
  <2> HIDE DEF blocks
  <2>1. \E x \in blocks : \A c \in blocks : x <= c
    BY <1>1, <1>3, LeastNumber
  <2> QED
    BY <2>1
<1> HIDE DEF b
<1>5. b \in DOMAIN body /\ Len(Advice!Words(b)) >= Len(needle) /\ Advice!Holds(b, needle) # {}
  BY <1>4 DEF Advice!Everywhere
<1>6. Len(needle) \in Nat /\ Len(needle) # 0
  BY LenProperties, EmptySeq
<1>7. Advice!Words(b) \in Seq(AdviceLetters) /\ Len(Advice!Words(b)) \in Nat
  <2> DEFINE n == Len(body[b])
  <2>1. n \in 0..n /\ Advice!Words(b) = WordsTo(b, n)
    BY <1>5, AdviceWords
  <2>2. WordsTo(b, n) \in Seq(AdviceLetters)
    BY <1>5, <2>1, WordsGrow
  <2> QED
    BY <2>1, <2>2, LenProperties
<1>8. \A x \in Advice!Holds(b, needle) :
         /\ x \in Nat /\ x + Len(needle) <= Len(Advice!Words(b))
         /\ SubSeq(Advice!Words(b), x + 1, x + Len(needle)) = needle
  BY <1>6, <1>7 DEF Advice!Holds
<1>9. spot \in Advice!Holds(b, needle)
  <2>1. Advice!Holds(b, needle) \subseteq Nat
    BY <1>8
  <2>2. \E x \in Advice!Holds(b, needle) : \A k \in Advice!Holds(b, needle) : x <= k
    BY <1>5, <2>1, LeastNumber
  <2> QED
    BY <2>2
<1> HIDE DEF spot
<1>10. /\ spot \in Nat /\ spot + Len(needle) \in Nat /\ spot <= Len(Advice!Words(b))
       /\ spot + Len(needle) <= Len(Advice!Words(b))
       /\ SubSeq(Advice!Words(b), spot + 1, spot + Len(needle)) = needle
  <2>1. /\ spot \in Nat /\ spot + Len(needle) <= Len(Advice!Words(b))
        /\ SubSeq(Advice!Words(b), spot + 1, spot + Len(needle)) = needle
    BY <1>8, <1>9
  <2> QED
    BY <1>6, <1>7, <2>1
<1>11. Advice!Words(b) # <<>>
  BY <1>5, <1>6
<1>12. /\ Advice!StartOf(b, Advice!Locate(b, spot).node) + Advice!Locate(b, spot).offset = spot
       /\ Advice!StartOf(b, Advice!Locate(b, spot + Len(needle)).node)
            + Advice!Locate(b, spot + Len(needle)).offset = spot + Len(needle)
  BY <1>5, <1>10, <1>11, LocateFacts
<1> HIDE DEF r
<1>13. /\ r.block = b /\ r.from = Advice!Locate(b, spot)
       /\ r.to = Advice!Locate(b, spot + Len(needle))
  BY <1>2
<1>14. Advice!Selected(r) = SubSeq(Advice!Words(b), spot + 1, spot + Len(needle))
  BY <1>12, <1>13 DEF Advice!Selected
<1> QED
  BY <1>10, <1>14 DEF r

LEMMA LettersJoined ==
    \A x, y, z \in Seq(AdviceLetters) : (x \o y) \o z = x \o (y \o z)
BY ConcatAssociative

\* The text of an element is found in the words of its block.
LEMMA TextIsFound ==
    ASSUME body \in Seq(Seq(AdviceElements)), NEW b \in DOMAIN body, NEW i \in 1..Len(body[b]),
           NEW needle, needle = body[b][i].text, needle # <<>>
    PROVE Advice!TextRange(needle) # Advice!NoRange
<1> DEFINE n == Len(body[b])
           u == WordsTo(b, i - 1)
<1>1. /\ n \in Nat /\ Advice!Words(b) = WordsTo(b, n)
  BY AdviceWords
<1>2. i - 1 \in 0..n /\ i - 1 # n /\ (i - 1) + 1 = i /\ i \in 0..n
  BY <1>1
<1>3. /\ u \in Seq(AdviceLetters) /\ needle \in Seq(AdviceLetters)
      /\ WordsTo(b, i) = u \o needle
  BY <1>2, WordsGrow
<1> DEFINE part1 == u \o needle
           short == {j \in i..n : ~\E t \in Seq(AdviceLetters) : WordsTo(b, j) = part1 \o t}
<1>4. part1 \in Seq(AdviceLetters) /\ Len(part1) = Len(u) + Len(needle)
      /\ Len(u) \in Nat /\ Len(needle) \in Nat
      /\ \A k \in 1..Len(needle) : part1[Len(u) + k] = needle[k]
  <2>1. Len(u) \in Nat /\ Len(needle) \in Nat
    BY <1>3, LenProperties
  <2>2. /\ part1 \in Seq(AdviceLetters) /\ Len(part1) = Len(u) + Len(needle)
        /\ \A k \in 1..(Len(u) + Len(needle)) :
              part1[k] = IF k <= Len(u) THEN u[k] ELSE needle[k - Len(u)]
    BY <1>3, ConcatProperties
  <2>3. ASSUME NEW k \in 1..Len(needle) PROVE part1[Len(u) + k] = needle[k]
    <3> DEFINE a == Len(u)
               z == Len(needle)
    <3>0. a \in Nat /\ z \in Nat /\ k \in 1..z
      BY <2>1
    <3> HIDE DEF a, z
    <3>a. a + k \in 1..(a + z) /\ ~(a + k <= a) /\ (a + k) - a = k
      BY <3>0
    <3>1. /\ Len(u) + k \in 1..(Len(u) + Len(needle)) /\ ~(Len(u) + k <= Len(u))
          /\ (Len(u) + k) - Len(u) = k
      BY <3>a DEF a, z
    <3> QED
      BY <2>2, <3>1
  <2> QED
    BY <2>1, <2>2, <2>3
<1> HIDE DEF n, u, part1
<1>5. short = {}
  <2> SUFFICES ASSUME short # {} PROVE FALSE
    OBVIOUS
  <2>1. short \subseteq Nat
    BY <1>1
  <2>2. PICK j \in short : \A k \in short : j <= k
    BY <2>1, LeastNumber
  <2>3. j \in i..n /\ ~\E t \in Seq(AdviceLetters) : WordsTo(b, j) = part1 \o t
    OBVIOUS
  <2>4. j # i
    <3>1. part1 \o <<>> = part1 /\ <<>> \in Seq(AdviceLetters)
      BY <1>4, ConcatEmptySeq, EmptySeq
    <3> QED
      BY <1>3, <2>3, <3>1 DEF part1
  <2> DEFINE k == j - 1
  <2>5. k \in i..n /\ k \in 0..n /\ k # n /\ k + 1 = j /\ ~(j <= k)
    BY <1>1, <2>3, <2>4
  <2>6. PICK t \in Seq(AdviceLetters) : WordsTo(b, k) = part1 \o t
    BY <2>2, <2>5
  <2> HIDE DEF k
  <2> DEFINE e == body[b][k + 1].text
  <2>7. e \in Seq(AdviceLetters) /\ WordsTo(b, k + 1) = WordsTo(b, k) \o e
    BY <2>5, WordsGrow DEF n
  <2> HIDE DEF e
  <2>8. WordsTo(b, j) = part1 \o (t \o e) /\ t \o e \in Seq(AdviceLetters)
    <3>1. part1 \in Seq(AdviceLetters) /\ t \in Seq(AdviceLetters) /\ e \in Seq(AdviceLetters)
      BY <1>4, <2>6, <2>7
    <3> DEFINE Texts == Seq(AdviceLetters)
    <3> HIDE DEF Texts
    <3>2. (part1 \o t) \o e = part1 \o (t \o e)
      <4>1. \A x, y, z \in Texts : (x \o y) \o z = x \o (y \o z)
        BY LettersJoined DEF Texts
      <4>2. part1 \in Texts /\ t \in Texts /\ e \in Texts
        BY <3>1 DEF Texts
      <4> QED
        BY <4>1, <4>2
    <3>3. t \o e \in Seq(AdviceLetters)
      BY <3>1, ConcatProperties
    <3> QED
      BY <2>5, <2>6, <2>7, <3>2, <3>3
  <2> QED
    BY <2>3, <2>8
<1>6. PICK t \in Seq(AdviceLetters) : WordsTo(b, n) = part1 \o t
  <2>1. n \in i..n
    BY <1>1, <1>2
  <2> QED
    BY <1>5, <2>1
<1> DEFINE W == Advice!Words(b)
<1>7. /\ W \in Seq(AdviceLetters) /\ Len(W) = Len(part1) + Len(t) /\ Len(t) \in Nat
      /\ \A k \in 1..Len(part1) : W[k] = part1[k]
  <2>1. W = part1 \o t
    BY <1>1, <1>6
  <2>2. Len(t) \in Nat /\ Len(part1) \in Nat
    BY <1>4, LenProperties
  <2>a. part1 \in Seq(AdviceLetters) /\ t \in Seq(AdviceLetters)
    BY <1>4, <1>6
  <2>3. /\ part1 \o t \in Seq(AdviceLetters) /\ Len(part1 \o t) = Len(part1) + Len(t)
        /\ \A k \in 1..(Len(part1) + Len(t)) :
              (part1 \o t)[k] = IF k <= Len(part1) THEN part1[k] ELSE t[k - Len(part1)]
    BY <2>a, ConcatProperties
  <2>4. \A k \in 1..Len(part1) : k \in 1..(Len(part1) + Len(t)) /\ k <= Len(part1)
    BY <2>2
  <2> QED
    BY <2>1, <2>2, <2>3, <2>4
<1> HIDE DEF W
<1>8. SubSeq(W, Len(u) + 1, Len(u) + Len(needle)) = needle
  <2>1. Len(u) + 1 \in 1..(Len(W) + 1) /\ Len(u) + Len(needle) \in Len(u)..Len(W)
    <3> DEFINE a == Len(u)
               c == Len(needle)
               d == Len(part1)
               h == Len(t)
               w == Len(W)
    <3>1. a \in Nat /\ c \in Nat /\ d \in Nat /\ h \in Nat /\ a + c <= d /\ w = d + h
      BY <1>4, <1>7, LenProperties
    <3> HIDE DEF a, c, d, h, w
    <3>2. a + 1 \in 1..(w + 1) /\ a + c \in a..w
      BY <3>1
    <3> QED
      BY <3>2 DEF a, c, w
  <2> DEFINE s == SubSeq(W, Len(u) + 1, Len(u) + Len(needle))
             m == Len(u) + 1
             q == Len(u) + Len(needle)
  <2>2. m \in 1..(Len(W) + 1) /\ q \in (m - 1)..Len(W) /\ q - m + 1 = Len(needle)
    BY <1>4, <2>1
  <2>3. /\ SubSeq(W, m, q) \in Seq(AdviceLetters)
        /\ Len(SubSeq(W, m, q)) = q - m + 1
        /\ \A k \in 1..(q - m + 1) : SubSeq(W, m, q)[k] = W[m + k - 1]
    <3> DEFINE w == Len(W)
    <3>1. /\ m \in 1..(w + 1) /\ q \in (m - 1)..w /\ w \in Nat /\ W \in Seq(AdviceLetters)
      BY <1>7, <2>2, LenProperties
    <3> HIDE DEF m, q, w
    <3>2. m \in Int /\ q \in Int /\ \A x \in m..q : x \in 1..w
      BY <3>1
    <3>3. \A x \in m..q : W[x] \in AdviceLetters
      BY <3>1, <3>2, ElementOfSeq DEF w
    <3>4. /\ SubSeq(W, m, q) \in Seq(AdviceLetters)
          /\ Len(SubSeq(W, m, q)) = IF m <= q THEN q - m + 1 ELSE 0
          /\ \A x \in 1..(q - m + 1) : SubSeq(W, m, q)[x] = W[m + x - 1]
      BY <3>2, <3>3, SubSeqProperties
    <3>5. (IF m <= q THEN q - m + 1 ELSE 0) = q - m + 1
      BY <3>1
    <3> QED
      BY <3>4, <3>5
  <2>4. ASSUME NEW k \in 1..Len(needle) PROVE s[k] = needle[k]
    <3>1. s[k] = W[m + k - 1]
      BY <2>2, <2>3
    <3>2. m + k - 1 = Len(u) + k /\ Len(u) + k \in 1..Len(part1)
      BY <1>4
    <3> QED
      BY <1>4, <1>7, <3>1, <3>2
  <2>5. s \in Seq(AdviceLetters) /\ Len(s) = Len(needle)
    BY <2>2, <2>3
  <2> HIDE DEF s
  <2>6. s = needle
    BY <1>3, <2>4, <2>5, SeqEqual
  <2> QED
    BY <2>6 DEF s
<1>9. Len(u) \in Advice!Holds(b, needle) /\ Len(W) >= Len(needle)
  <2>1. Len(u) \in 0..(Len(W) - Len(needle)) /\ Len(W) >= Len(needle)
    <3> DEFINE a == Len(u)
               c == Len(needle)
               d == Len(part1)
               h == Len(t)
               w == Len(W)
    <3>1. a \in Nat /\ c \in Nat /\ d \in Nat /\ h \in Nat /\ d = a + c /\ w = d + h
      BY <1>4, <1>7, LenProperties
    <3> HIDE DEF a, c, d, h, w
    <3>2. a \in 0..(w - c) /\ w >= c
      BY <3>1
    <3> QED
      BY <3>2 DEF a, c, w
  <2> QED
    BY <1>8, <2>1 DEF Advice!Holds, W
<1> DEFINE blocks == {x \in Advice!Everywhere :
                        Len(Advice!Words(x)) >= Len(needle) /\ Advice!Holds(x, needle) # {}}
           c == CHOOSE x \in blocks : \A y \in blocks : x <= y
<1>10. b \in blocks
  BY <1>9 DEF W, Advice!Everywhere
<1>11. blocks \subseteq Nat \ {0}
  <2>1. DOMAIN body \subseteq Nat \ {0}
    BY LenProperties
  <2> QED
    BY <2>1 DEF Advice!Everywhere
<1>12. c \in blocks
  <2> HIDE DEF blocks
  <2>1. \E x \in blocks : \A y \in blocks : x <= y
    BY <1>10, <1>11, LeastNumber
  <2> QED
    BY <2>1
<1>13. Advice!TextRange(needle).block = c
  BY <1>10 DEF Advice!TextRange
<1>14. c # 0
  BY <1>11, <1>12
<1>15. Advice!NoRange.block = 0
  BY DEF Advice!NoRange
<1> QED
  BY <1>13, <1>14, <1>15


\* What the server finds is one of its four findings.
LEMMA CheckedFacts ==
    ASSUME NEW f \in Advice!Checked
    PROVE \/ /\ f.code = "headings_empty" /\ Advice!EmptyHeadings # {}
             /\ f.blocks = {p[1] : p \in Advice!EmptyHeadings}
          \/ /\ f.code = "link_text_uninformative" /\ Advice!PoorLinks # {}
             /\ f.blocks = {p[1] : p \in Advice!PoorLinks}
             /\ f.text = Advice!At(Advice!First(Advice!PoorLinks)).text
          \/ /\ f.code = "all_caps_run" /\ Advice!Shouting # {} /\ f.blocks = {}
             /\ f.text = Advice!Truncated(Advice!At(Advice!First(Advice!Shouting)).text)
          \/ /\ f.code = "long_paragraphs" /\ Advice!LongParagraphs # {} /\ f.blocks = {}
<1> DEFINE Blocks(places) == {p[1] : p \in places}
<1>1. \/ f \in Advice!Finding("headings_empty", Advice!EmptyHeadings, <<>>)
      \/ f \in Advice!Finding("link_text_uninformative", Advice!PoorLinks,
                 IF Advice!PoorLinks = {} THEN <<>> ELSE Advice!At(Advice!First(Advice!PoorLinks)).text)
      \/ f \in Advice!Finding("all_caps_run", Advice!Shouting,
                 IF Advice!Shouting = {} THEN <<>>
                 ELSE Advice!Truncated(Advice!At(Advice!First(Advice!Shouting)).text))
      \/ f \in Advice!Finding("long_paragraphs", Advice!LongParagraphs, <<>>)
  BY DEF Advice!Checked
<1>2. ASSUME NEW code, NEW places, NEW example, NEW g \in Advice!Finding(code, places, example)
      PROVE /\ places # {} /\ g.code = code /\ g.text = example
            /\ code \in {"headings_empty", "link_text_uninformative"} => g.blocks = Blocks(places)
            /\ code \notin {"headings_empty", "link_text_uninformative"} => g.blocks = {}
  <2>1. places # {} /\ g = [code |-> code, text |-> example,
         blocks |-> IF code \in {"headings_empty", "link_text_uninformative"}
                    THEN {p[1] : p \in places} ELSE {}]
    BY DEF Advice!Finding
  <2> QED
    BY <2>1
<1>a. Blocks(Advice!EmptyHeadings) = {p[1] : p \in Advice!EmptyHeadings}
  OBVIOUS
<1>b. Blocks(Advice!PoorLinks) = {p[1] : p \in Advice!PoorLinks}
  OBVIOUS
<1> HIDE DEF Blocks
<1>3. CASE f \in Advice!Finding("headings_empty", Advice!EmptyHeadings, <<>>)
  BY <1>2, <1>3, <1>a
<1>4. CASE f \in Advice!Finding("link_text_uninformative", Advice!PoorLinks,
                 IF Advice!PoorLinks = {} THEN <<>> ELSE Advice!At(Advice!First(Advice!PoorLinks)).text)
  <2> DEFINE example == IF Advice!PoorLinks = {} THEN <<>> ELSE Advice!At(Advice!First(Advice!PoorLinks)).text
  <2>1. f \in Advice!Finding("link_text_uninformative", Advice!PoorLinks, example)
    BY <1>4
  <2> HIDE DEF example
  <2>2. /\ Advice!PoorLinks # {} /\ f.code = "link_text_uninformative" /\ f.text = example
        /\ f.blocks = {p[1] : p \in Advice!PoorLinks}
    BY <1>2, <1>b, <2>1
  <2> QED
    BY <2>2 DEF example
<1>5. CASE f \in Advice!Finding("all_caps_run", Advice!Shouting,
                 IF Advice!Shouting = {} THEN <<>>
                 ELSE Advice!Truncated(Advice!At(Advice!First(Advice!Shouting)).text))
  <2> DEFINE example == IF Advice!Shouting = {} THEN <<>>
                        ELSE Advice!Truncated(Advice!At(Advice!First(Advice!Shouting)).text)
  <2>1. f \in Advice!Finding("all_caps_run", Advice!Shouting, example)
    BY <1>5
  <2> HIDE DEF example
  <2>2. /\ Advice!Shouting # {} /\ f.code = "all_caps_run" /\ f.text = example /\ f.blocks = {}
    BY <1>2, <2>1
  <2> QED
    BY <2>2 DEF example
<1>6. CASE f \in Advice!Finding("long_paragraphs", Advice!LongParagraphs, <<>>)
  BY <1>2, <1>6
<1> QED
  BY <1>1, <1>3, <1>4, <1>5, <1>6

\* An example is typed, and one that was cut says so.
LEMMA TruncatedFacts ==
    ASSUME NEW text \in Seq(AdviceLetters), text # <<>>
    PROVE /\ Advice!Truncated(text) \in Seq(AdviceLetters) /\ Advice!Truncated(text) # <<>>
          /\ Advice!Truncated(text) = text \/ Advice!Last(Advice!Truncated(text)) = "~"
<1> DEFINE m == ExampleLimit - 1
           cut == SubSeq(text, 1, m)
<1>1. Len(text) \in Nat /\ ExampleLimit \in Nat /\ ExampleLimit # 0 /\ m \in Nat
  BY LenProperties, AdviceAssumption
<1>2. CASE Len(text) <= ExampleLimit
  BY <1>2 DEF Advice!Truncated
<1>3. CASE ~(Len(text) <= ExampleLimit)
  <2>1. Advice!Truncated(text) = Append(cut, "~")
    BY <1>3 DEF Advice!Truncated
  <2>2. 1 \in 1..(Len(text) + 1) /\ m \in 0..Len(text) /\ m \in (1 - 1)..Len(text)
    BY <1>1, <1>3
  <2> HIDE DEF m
  <2>3. cut \in Seq(AdviceLetters)
    BY <2>2, SubSeqProperties
  <2> HIDE DEF cut
  <2>4. "~" \in AdviceLetters
    BY DEF AdviceLetters
  <2>5. /\ Append(cut, "~") \in Seq(AdviceLetters) /\ Append(cut, "~") # <<>>
        /\ Len(Append(cut, "~")) = Len(cut) + 1
        /\ Append(cut, "~")[Len(cut) + 1] = "~"
    BY <2>3, <2>4, Added
  <2> QED
    BY <2>1, <2>5 DEF Advice!Last
<1> QED
  BY <1>2, <1>3

\* A run of capitals leads to the very words, or to the canvas if they were cut.
LEMMA ShoutingLeads ==
    ASSUME body \in Seq(Seq(AdviceElements)), NEW f, f.code = "all_caps_run", f.blocks = {},
           Advice!Shouting # {},
           f.text = Advice!Truncated(Advice!At(Advice!First(Advice!Shouting)).text)
    PROVE \/ /\ Advice!Resolve(f).range # Advice!NoRange
             /\ Advice!Selected(Advice!Resolve(f).range) = f.text
          \/ Advice!Last(f.text) = "~" /\ Advice!Resolve(f).pulse = {Advice!Canvas}
<1> DEFINE p == Advice!First(Advice!Shouting)
           text == Advice!At(p).text
           found == Advice!WithinBody(f)
<1>1. \A q \in Advice!Shouting : q \in Advice!AllOf("p", Advice!Everywhere) /\ Advice!Shouts(Advice!At(q))
  BY DEF Advice!Shouting
<1>2. Advice!Shouting \subseteq Nat \X Nat
  BY <1>1, FoundAt
<1>3. p \in Advice!Shouting
  BY <1>2, FirstFacts
<1> HIDE DEF p
<1>4. /\ p[1] \in DOMAIN body /\ p[2] \in DOMAIN body[p[1]]
      /\ Advice!At(p) \in AdviceElements /\ Advice!At(p) = body[p[1]][p[2]]
      /\ Len(text) >= 2
  <2>1. p \in Advice!AllOf("p", Advice!Everywhere) /\ Len(text) >= 2
    BY <1>1, <1>3 DEF Advice!Shouts
  <2> QED
    BY <2>1, FoundAt
<1>5. text \in Seq(AdviceLetters) /\ text # <<>>
  BY <1>4 DEF AdviceElements
<1>6. p[2] \in 1..Len(body[p[1]])
  BY <1>4, AdviceWords
<1>7. Advice!TextRange(text) # Advice!NoRange
  BY <1>4, <1>5, <1>6, TextIsFound
<1>8. f.text = Advice!Truncated(text)
  BY DEF p
<1> HIDE DEF text
<1>9. /\ f.text \in Seq(AdviceLetters) /\ f.text # <<>>
      /\ f.text = text \/ Advice!Last(f.text) = "~"
  BY <1>5, <1>8, TruncatedFacts
<1>10. found = [marks |-> {}, range |-> Advice!TextRange(f.text)]
  BY DEF Advice!WithinBody
<1>11. found.marks = {} /\ found.range = Advice!TextRange(f.text)
  BY <1>10
<1> HIDE DEF found
<1>12. f.blocks \cap Advice!Everywhere = {}
  OBVIOUS
<1>13. CASE Advice!TextRange(f.text) # Advice!NoRange
  <2>1. Advice!Resolve(f).range = Advice!TextRange(f.text)
    BY <1>11, <1>12, <1>13 DEF Advice!Resolve, found
  <2>2. Advice!Selected(Advice!TextRange(f.text)) = f.text
    BY <1>9, <1>13, SelectedFacts
  <2> QED
    BY <1>13, <2>1, <2>2
<1>14. CASE Advice!TextRange(f.text) = Advice!NoRange
  <2>1. Advice!Resolve(f).pulse = {Advice!Canvas}
    BY <1>11, <1>12, <1>14 DEF Advice!Resolve, found
  <2>2. Advice!Last(f.text) = "~"
    BY <1>7, <1>9, <1>14
  <2> QED
    BY <2>1, <2>2
<1> QED
  BY <1>13, <1>14

\* A finding of the body as it is leads to its fault.
LEMMA JumpSafe == JumpInv => Advice!LeadsToTheFault /\ Advice!OneFindingShown
<1> SUFFICES ASSUME JumpInv PROVE Advice!LeadsToTheFault
  BY DEF JumpInv
<1>1. body \in Seq(Seq(AdviceElements))
  BY DEF JumpInv
<1> SUFFICES ASSUME NEW f \in findings \cap Advice!Checked
             PROVE CASE f.code = "headings_empty" -> Advice!Resolve(f).marks = Advice!EmptyHeadings
                     [] f.code = "long_paragraphs" -> Advice!Resolve(f).marks = Advice!LongParagraphs
                     [] f.code = "link_text_uninformative" ->
                          /\ Advice!PoorLinks \subseteq Advice!Resolve(f).marks \cup
                               {p \in Advice!PoorLinks : Advice!At(p).text # f.text}
                          /\ \A p \in Advice!Resolve(f).marks \ Advice!PoorLinks :
                               \A q \in Advice!AllOf("a", {p[1]}) : Advice!At(q).text # f.text
                     [] f.code = "all_caps_run" ->
                          \/ /\ Advice!Resolve(f).range # Advice!NoRange
                             /\ Advice!Selected(Advice!Resolve(f).range) = f.text
                          \/ Advice!Last(f.text) = "~" /\ Advice!Resolve(f).pulse = {Advice!Canvas}
  BY Zenon DEF Advice!LeadsToTheFault
<1>2. f \in Advice!Checked
  OBVIOUS
<1>3. CASE f.code = "headings_empty"
  <2>1. f.blocks = {p[1] : p \in Advice!EmptyHeadings} /\ Advice!EmptyHeadings # {}
    BY <1>2, <1>3, CheckedFacts
  <2>2. Advice!Resolve(f).marks = Advice!EmptyHeadings
    BY <1>1, <1>3, <2>1, HeadingsLead
  <2> QED
    BY <1>3, <2>2
<1>4. CASE f.code = "long_paragraphs"
  <2>1. f.blocks = {} /\ Advice!LongParagraphs # {}
    BY <1>2, <1>4, CheckedFacts
  <2>2. Advice!Resolve(f).marks = Advice!LongParagraphs
    BY <1>1, <1>4, <2>1, LongParagraphsLead
  <2> QED
    BY <1>4, <2>2
<1>5. CASE f.code = "link_text_uninformative"
  <2>1. /\ f.blocks = {p[1] : p \in Advice!PoorLinks} /\ Advice!PoorLinks # {}
        /\ f.text = Advice!At(Advice!First(Advice!PoorLinks)).text
    BY <1>2, <1>5, CheckedFacts
  <2>2. /\ Advice!PoorLinks \subseteq Advice!Resolve(f).marks \cup
             {p \in Advice!PoorLinks : Advice!At(p).text # f.text}
        /\ \A p \in Advice!Resolve(f).marks \ Advice!PoorLinks :
             \A q \in Advice!AllOf("a", {p[1]}) : Advice!At(q).text # f.text
    BY <1>1, <1>5, <2>1, LinksLead
  <2> QED
    BY <1>5, <2>2
<1>6. CASE f.code = "all_caps_run"
  <2>1. /\ f.blocks = {} /\ Advice!Shouting # {}
        /\ f.text = Advice!Truncated(Advice!At(Advice!First(Advice!Shouting)).text)
    BY <1>2, <1>6, CheckedFacts
  <2>2. \/ /\ Advice!Resolve(f).range # Advice!NoRange
           /\ Advice!Selected(Advice!Resolve(f).range) = f.text
        \/ Advice!Last(f.text) = "~" /\ Advice!Resolve(f).pulse = {Advice!Canvas}
    BY <1>1, <1>6, <2>1, ShoutingLeads
  <2> QED
    BY <1>6, <2>2
<1> QED
  BY <1>2, <1>3, <1>4, <1>5, <1>6, CheckedFacts

\* What a finding leads to: elements of the body, and blocks of it or the canvas.
AdviceTyped ==
    /\ Advice!JumpTypeOK
    /\ \A f \in findings :
          f.blocks # {} => f.code \in {"headings_empty", "link_text_uninformative"}

LEMMA BodyPlaces ==
    ASSUME JumpInv, NEW tag, NEW blocks, blocks \subseteq Advice!Everywhere
    PROVE Advice!AllOf(tag, blocks) \subseteq Nat \X Nat
<1> SUFFICES ASSUME NEW p \in Advice!AllOf(tag, blocks) PROVE p \in Nat \X Nat
  OBVIOUS
<1>1. p \in Advice!AllOf(tag, Advice!Everywhere)
  BY PlacesOf
<1> QED
  BY <1>1, FoundAt DEF JumpInv

LEMMA RangeInBody ==
    ASSUME JumpInv, NEW needle, Advice!TextRange(needle) # Advice!NoRange
    PROVE Advice!TextRange(needle).block \in Advice!Everywhere
<1> DEFINE blocks == {b \in Advice!Everywhere : /\ Len(Advice!Words(b)) >= Len(needle)
                                                /\ Advice!Holds(b, needle) # {}}
           least == CHOOSE b \in blocks : \A c \in blocks : b <= c
<1>1. blocks \subseteq Nat
  BY LenProperties DEF JumpInv, Advice!Everywhere
<1>2. blocks # {} /\ Advice!TextRange(needle).block = least
  BY DEF Advice!TextRange
<1>3. \E b \in blocks : \A c \in blocks : b <= c
  BY <1>1, <1>2, LeastNumber
<1>4. least \in blocks
  BY <1>3
<1> QED
  BY <1>2, <1>4

LEMMA ResolvedTypes ==
    ASSUME JumpInv, AdviceTyped, NEW f \in findings
    PROVE /\ Advice!Resolve(f).marks \subseteq Nat \X Nat
          /\ Advice!Resolve(f).pulse \subseteq Advice!Everywhere \union {Advice!Canvas}
<1> DEFINE named == f.blocks \cap Advice!Everywhere
           found == Advice!WithinBody(f)
<1>1. CASE named # {}
  <2>1. f.code \in {"headings_empty", "link_text_uninformative"}
    BY <1>1 DEF AdviceTyped
  <2>2. ASSUME NEW b \in named PROVE Advice!WithinBlock(b, f) \subseteq Nat \X Nat
    <3>1. \A tag : Advice!AllOf(tag, {b}) \subseteq Nat \X Nat
      BY BodyPlaces
    <3>2. CASE f.code = "headings_empty"
      BY <3>1, <3>2 DEF Advice!WithinBlock
    <3>3. CASE f.code = "link_text_uninformative"
      BY <3>1, <3>3 DEF Advice!WithinBlock
    <3> QED BY <2>1, <3>2, <3>3
  <2>3. /\ Advice!Resolve(f).marks = UNION {Advice!WithinBlock(b, f) : b \in named}
        /\ Advice!Resolve(f).pulse = named
    BY <1>1 DEF Advice!Resolve
  <2> QED BY <2>2, <2>3
<1>2. CASE named = {} /\ found.range # Advice!NoRange
  <2>1. f.code # "long_paragraphs" /\ found.range = Advice!TextRange(f.text)
    BY <1>2 DEF Advice!WithinBody
  <2>2. found.range.block \in Advice!Everywhere
    BY <1>2, <2>1, RangeInBody
  <2>3. /\ Advice!Resolve(f).marks = {} /\ Advice!Resolve(f).pulse = {found.range.block}
    BY <1>2 DEF Advice!Resolve
  <2> QED BY <2>2, <2>3
<1>3. CASE named = {} /\ found.range = Advice!NoRange /\ found.marks # {}
  <2>1. found.marks \subseteq Advice!AllOf("p", Advice!Everywhere)
    BY <1>3 DEF Advice!WithinBody
  <2>2. found.marks \subseteq Nat \X Nat
    BY <2>1, BodyPlaces
  <2>3. Advice!First(found.marks) \in found.marks
    BY <1>3, <2>2, FirstFacts
  <2>4. Advice!First(found.marks)[1] \in Advice!Everywhere
    BY <2>1, <2>3, PlacesOf
  <2>5. /\ Advice!Resolve(f).marks = found.marks
        /\ Advice!Resolve(f).pulse = {Advice!First(found.marks)[1]}
    BY <1>3 DEF Advice!Resolve
  <2> QED BY <2>2, <2>4, <2>5
<1>4. CASE named = {} /\ found.range = Advice!NoRange /\ found.marks = {}
  <2>1. Advice!Resolve(f).marks = {} /\ Advice!Resolve(f).pulse = {Advice!Canvas}
    BY <1>4 DEF Advice!Resolve
  <2> QED BY <2>1
<1> QED BY <1>1, <1>2, <1>3, <1>4

LEMMA CheckedTypes ==
    ASSUME NEW f \in Advice!Checked
    PROVE /\ f.blocks \subseteq Advice!Everywhere
          /\ f.blocks # {} => f.code \in {"headings_empty", "link_text_uninformative"}
<1>1. \A p \in Advice!EmptyHeadings \union Advice!PoorLinks : p[1] \in Advice!Everywhere
  BY PlacesOf DEF Advice!EmptyHeadings, Advice!PoorLinks
<1>2. \/ f.code = "headings_empty" /\ f.blocks = {p[1] : p \in Advice!EmptyHeadings}
      \/ f.code = "link_text_uninformative" /\ f.blocks = {p[1] : p \in Advice!PoorLinks}
      \/ f.blocks = {}
  BY CheckedFacts
<1> QED BY <1>1, <1>2

LEMMA AdviceTypes ==
    /\ Advice!JumpInit => AdviceTyped
    /\ JumpInv /\ AdviceTyped /\ [Advice!JumpNext]_(Advice!jumpVars) => AdviceTyped'
<1>1. Advice!JumpInit => AdviceTyped
  BY CheckedTypes DEF Advice!JumpInit, AdviceTyped, Advice!JumpTypeOK
<1>2. ASSUME JumpInv, AdviceTyped, [Advice!JumpNext]_(Advice!jumpVars) PROVE AdviceTyped'
  <2>0. /\ marks \subseteq (Nat \X Nat) /\ clearTimer \in BOOLEAN
        /\ \A f \in findings : f.blocks \subseteq DOMAIN body
        /\ pulsing \subseteq DOMAIN body \union {0}
        /\ \A f \in findings :
              f.blocks # {} => f.code \in {"headings_empty", "link_text_uninformative"}
    BY <1>2 DEF AdviceTyped, Advice!JumpTypeOK, Advice!Everywhere, Advice!Canvas
  <2>1. CASE Advice!Edit
    <3>1. DOMAIN body' = DOMAIN body
      BY <2>1 DEF Advice!Edit
    <3>2. marks' \subseteq marks /\ UNCHANGED <<findings, clearTimer, pulsing>>
      BY <2>1 DEF Advice!Edit
    <3> QED
      BY <2>0, <3>1, <3>2 DEF AdviceTyped, Advice!JumpTypeOK, Advice!Everywhere, Advice!Canvas
  <2>2. CASE Advice!Refresh
    <3>1. findings' = Advice!Checked /\ UNCHANGED <<body, marks, clearTimer, pulsing>>
      BY <2>2 DEF Advice!Refresh
    <3>2. \A f \in findings' : /\ f.blocks \subseteq DOMAIN body
                               /\ f.blocks # {} => f.code \in {"headings_empty", "link_text_uninformative"}
      BY <3>1, CheckedTypes DEF Advice!Everywhere
    <3> QED
      BY <2>0, <3>1, <3>2 DEF AdviceTyped, Advice!JumpTypeOK, Advice!Everywhere, Advice!Canvas
  <2>3. CASE Advice!Jump
    <3>1. PICK f \in findings : target' = Advice!Resolve(f)
      BY <2>3 DEF Advice!Jump
    <3>2. /\ target'.marks \subseteq Nat \X Nat
          /\ target'.pulse \subseteq DOMAIN body \union {0}
      BY <1>2, <3>1, ResolvedTypes DEF Advice!Everywhere, Advice!Canvas
    <3>3. /\ marks' = target'.marks /\ clearTimer' = TRUE /\ pulsing' = pulsing \union target'.pulse
          /\ UNCHANGED <<body, findings>>
      BY <2>3 DEF Advice!Jump
    <3> QED
      BY <2>0, <3>2, <3>3 DEF AdviceTyped, Advice!JumpTypeOK, Advice!Everywhere, Advice!Canvas
  <2>4. CASE Advice!ClearMarks
    BY <2>0, <2>4 DEF Advice!ClearMarks, AdviceTyped, Advice!JumpTypeOK, Advice!Everywhere, Advice!Canvas
  <2>5. CASE Advice!EndPulse
    BY <2>0, <2>5 DEF Advice!EndPulse, AdviceTyped, Advice!JumpTypeOK, Advice!Everywhere, Advice!Canvas
  <2>6. CASE UNCHANGED Advice!jumpVars
    BY <2>0, <2>6 DEF Advice!jumpVars, AdviceTyped, Advice!JumpTypeOK, Advice!Everywhere, Advice!Canvas
  <2> QED BY <1>2, <2>1, <2>2, <2>3, <2>4, <2>5, <2>6 DEF Advice!JumpNext
<1> QED BY <1>1, <1>2

\* Widths and descriptors are natural numbers.
LEMMA SrcsetTypes == ASSUME SrcsetInv PROVE Srcset!SrcsetTypeOK
<1>1. source \in [w : Srcset!Sides, h : Srcset!Sides] /\ options \in Srcset!Options
  BY DEF SrcsetInv
<1>2. CASE requests = {}
  BY <1>1, <1>2 DEF Srcset!SrcsetTypeOK
<1>3. ASSUME NEW w \in options.widths, NEW h \in options.widths,
             requests \in {{Srcset!Request(Srcset!Snapped(w), Srcset!Unset, Srcset!Unset)},
                           {Srcset!Request(Srcset!Snapped(w), Srcset!Snapped(h), Srcset!Unset)}}
      PROVE Srcset!SrcsetTypeOK
  <2>1. w \in Nat /\ h \in Nat
    BY WidthsType
  <2>2. Srcset!Snapped(w) \in Nat /\ Srcset!Snapped(h) \in Nat
    BY <2>1, SnappedFacts, SrcsetAssumption
  <2> QED
    BY <1>1, <1>3, <2>2 DEF Srcset!SrcsetTypeOK, Srcset!Request, Srcset!Unset
<1>4. CASE requests = Srcset!Candidates(options)
  <2>1. \A r \in requests :
           \E w \in SrcsetWidths : r = [w |-> w, h |-> 0, described |-> Described(w)]
    BY <1>4, CandidatesAre
  <2>2. ASSUME NEW w \in SrcsetWidths PROVE w \in Nat /\ Described(w) \in Nat
    <3>1. w \in Nat
      BY WidthsType
    <3> QED
      BY <3>1, DescribedType
  <2>3. requests \subseteq [w : Nat, h : Nat, described : Nat]
    BY <2>1, <2>2
  <2> QED
    BY <1>1, <2>3 DEF Srcset!SrcsetTypeOK
<1> QED
  BY <1>2, <1>3, <1>4 DEF SrcsetInv

-----------------------------------------------------------------------------
(* The bridge's socket and the offline page.                               *)

LEMMA BridgeTypes ==
    /\ BridgeInit => BridgeTypeOK
    /\ BridgeTypeOK /\ [BridgeNext]_bridgeVars => BridgeTypeOK'
<1> DEFINE Streams == [state : {"none", "connecting", "open"}, token : Tokens \union {0}]
<1>1. ASSUME BridgeInit PROVE BridgeTypeOK
  <2>1. 1 \in Tokens /\ 0 \in 0..MAX_FAILURES /\ 0 \in 0..MaxCalls /\ 0 \in 0..MaxOutages
    BY BridgeAssumption DEF Tokens
  <2>2. NoSocket \in Streams
    BY DEF NoSocket
  <2> QED BY <1>1, <2>1, <2>2 DEF BridgeInit, BridgeTypeOK
<1>2. ASSUME BridgeTypeOK, [BridgeNext]_bridgeVars PROVE BridgeTypeOK'
  <2>0. /\ watching \in BOOLEAN /\ retryTimer \in BOOLEAN /\ missed \in BOOLEAN
        /\ stream \in Streams /\ refused \in 0..MAX_FAILURES
        /\ previewToken \in Tokens /\ valid \subseteq Tokens
        /\ calls \in 0..MaxCalls /\ outages \in 0..MaxOutages
    BY <1>2 DEF BridgeTypeOK
  <2>1. ASSUME watching' \in BOOLEAN, retryTimer' \in BOOLEAN, missed' \in BOOLEAN,
               stream' \in Streams, refused' \in 0..MAX_FAILURES,
               previewToken' \in Tokens, valid' \subseteq Tokens,
               calls' \in 0..MaxCalls, outages' \in 0..MaxOutages
        PROVE  BridgeTypeOK'
    BY <2>1 DEF BridgeTypeOK, Tokens
  <2>2. /\ NoSocket \in Streams /\ Connecting(previewToken) \in Streams
        /\ \A token \in Tokens : Connecting(token) \in Streams
        /\ Streaming(stream.token) \in Streams
    BY <2>0 DEF NoSocket, Connecting, Streaming
  <2> HIDE DEF Streams
  <2>3. 0 \in 0..MAX_FAILURES
    BY BridgeAssumption
  <2>4. calls < MaxCalls /\ calls' = calls + 1 => calls' \in 0..MaxCalls
    BY <2>0, BridgeAssumption
  <2>5. ASSUME NEW untried \in BOOLEAN, Lost(untried)
        PROVE  /\ stream' \in Streams /\ refused' \in 0..MAX_FAILURES
               /\ retryTimer' \in BOOLEAN /\ missed' \in BOOLEAN
    <3>1. refused \in 0..MAX_FAILURES /\ MAX_FAILURES \in Nat
      BY <2>0, BridgeAssumption
    <3>2. refused < MAX_FAILURES => refused + 1 \in 0..MAX_FAILURES
      BY <3>1
    <3>3. CASE watching /\ ~retryTimer /\ refused < MAX_FAILURES
      BY <2>0, <2>2, <2>5, <3>2, <3>3 DEF Lost
    <3>4. CASE ~(watching /\ ~retryTimer /\ refused < MAX_FAILURES)
      BY <2>0, <2>2, <2>5, <3>4 DEF Lost
    <3> QED BY <3>3, <3>4
  <2>6. CASE Connect
    BY <2>0, <2>1, <2>2, <2>3, <2>4, <2>6 DEF Connect, Open
  <2>7. CASE Disconnect
    BY <2>0, <2>1, <2>2, <2>3, <2>4, <2>7 DEF Disconnect
  <2>8. CASE Nudged
    BY <2>0, <2>1, <2>2, <2>3, <2>4, <2>8 DEF Nudged
  <2>9. CASE Admitted
    BY <2>0, <2>1, <2>2, <2>3, <2>9 DEF Admitted
  <2>10. CASE Refused
    <3>1. /\ Lost(stream.token # previewToken)
          /\ UNCHANGED <<watching, previewToken, valid, calls, outages>>
      BY <2>10 DEF Refused
    <3>2. (stream.token # previewToken) \in BOOLEAN
      OBVIOUS
    <3> QED BY <2>0, <2>1, <2>5, <3>1, <3>2
  <2>11. CASE Outage
    <3>1. /\ Lost(TRUE) /\ outages < MaxOutages /\ outages' = outages + 1
          /\ UNCHANGED <<watching, previewToken, valid, calls>>
      BY <2>11 DEF Outage
    <3>2. outages' \in 0..MaxOutages
      BY <2>0, <3>1, BridgeAssumption
    <3> QED BY <2>0, <2>1, <2>5, <3>1, <3>2
  <2>12. CASE RetryFires
    BY <2>0, <2>1, <2>2, <2>12 DEF RetryFires, Open
  <2>13. ASSUME NEW token \in Tokens, SetPreviewToken(token) PROVE BridgeTypeOK'
    BY <2>0, <2>1, <2>2, <2>3, <2>13 DEF SetPreviewToken, Open
  <2>14. ASSUME NEW token \in Tokens, Lapse(token) PROVE BridgeTypeOK'
    BY <2>0, <2>1, <2>14 DEF Lapse
  <2>15. CASE UNCHANGED bridgeVars
    BY <2>0, <2>1, <2>15 DEF bridgeVars
  <2> QED BY <1>2, <2>6, <2>7, <2>8, <2>9, <2>10, <2>11, <2>12, <2>13, <2>14, <2>15 DEF BridgeNext
<1> QED BY <1>1, <1>2

LEMMA OfflineTypes ==
    /\ OfflineInit => OfflineTypeOK
    /\ OfflineTypeOK /\ [OfflineNext]_offlineVars => OfflineTypeOK'
<1> DEFINE Copies == [brand : Brands \union {0}, stale : BOOLEAN]
           Installs == [version : Versions \union {0}, fetched : BOOLEAN]
<1>1. ASSUME OfflineInit PROVE OfflineTypeOK
  <2>1. 1 \in Versions /\ 1 \in Brands /\ 0 \in 0..MaxRefusals
    BY OfflineAssumption DEF Versions, Brands
  <2>2. NoCopy \in Copies /\ [version |-> 0, fetched |-> FALSE] \in Installs
    BY DEF NoCopy
  <2> QED BY <1>1, <2>1, <2>2 DEF OfflineInit, OfflineTypeOK, NoWorker
<1>2. ASSUME OfflineTypeOK, [OfflineNext]_offlineVars PROVE OfflineTypeOK'
  <2>0. /\ deployed \in Versions /\ brand \in Brands /\ online \in BOOLEAN
        /\ worker \in Versions \union {0} /\ installing \in Installs
        /\ caches \in [Versions -> Copies] /\ refreshing \in [Versions -> BOOLEAN]
        /\ shown \in {"nothing", "page", "offline page", "words"} /\ refusals \in 0..MaxRefusals
    BY <1>2 DEF OfflineTypeOK, NoWorker
  <2>1. ASSUME deployed' \in Versions, brand' \in Brands, online' \in BOOLEAN,
               worker' \in Versions \union {0}, installing' \in Installs,
               caches' \in [Versions -> Copies], refreshing' \in [Versions -> BOOLEAN],
               shown' \in {"nothing", "page", "offline page", "words"},
               refusals' \in 0..MaxRefusals
        PROVE  OfflineTypeOK'
    BY <2>1 DEF OfflineTypeOK, NoWorker, Versions, Brands
  <2>2. /\ NoCopy \in Copies /\ Copy(brand) \in Copies
        /\ \A v \in Versions : [caches[v] EXCEPT !.stale = TRUE] \in Copies
    BY <2>0 DEF NoCopy, Copy
  <2>3. \A v \in Versions \union {0}, b \in BOOLEAN : [version |-> v, fetched |-> b] \in Installs
    OBVIOUS
  <2>4. installing.version \in Versions \union {0}
        /\ [installing EXCEPT !.fetched = TRUE] \in Installs
    BY <2>0
  <2> HIDE DEF Copies, Installs
  <2>5. refusals < MaxRefusals /\ refusals' = refusals + 1 => refusals' \in 0..MaxRefusals
    <3>1. refusals \in 0..MaxRefusals /\ MaxRefusals \in Nat
      BY <2>0, OfflineAssumption
    <3> QED BY <3>1
  <2>6. ASSUME NEW v \in Versions, CacheOffline(v)
        PROVE  caches' \in [Versions -> Copies] /\ refusals' \in 0..MaxRefusals
    <3>1. refusals' \in 0..MaxRefusals
      BY <2>0, <2>5, <2>6 DEF CacheOffline
    <3>2. caches' = caches \/ caches' = [caches EXCEPT ![v] = Copy(brand)]
      BY <2>6 DEF CacheOffline
    <3> QED BY <2>0, <2>2, <3>1, <3>2
  <2>7. CASE DeployWorker
    <3>1. deployed' \in Versions
      <4>1. deployed \in 1..MaxVersions /\ MaxVersions \in Nat
        BY <2>0, OfflineAssumption DEF Versions
      <4>2. deployed < MaxVersions /\ deployed' = deployed + 1
        BY <2>7 DEF DeployWorker
      <4>3. deployed' \in 1..MaxVersions
        BY <4>1, <4>2
      <4> QED BY <4>3 DEF Versions
    <3> QED BY <2>0, <2>1, <2>7, <3>1 DEF DeployWorker
  <2>8. CASE Rebrand
    <3>1. brand' \in Brands
      <4>1. brand \in 1..MaxBrands /\ MaxBrands \in Nat
        BY <2>0, OfflineAssumption DEF Brands
      <4>2. brand < MaxBrands /\ brand' = brand + 1
        BY <2>8 DEF Rebrand
      <4>3. brand' \in 1..MaxBrands
        BY <4>1, <4>2
      <4> QED BY <4>3 DEF Brands
    <3> QED BY <2>0, <2>1, <2>8, <3>1 DEF Rebrand
  <2>9. CASE LineGoes
    BY <2>0, <2>1, <2>5, <2>9 DEF LineGoes
  <2>10. CASE LineReturns
    BY <2>0, <2>1, <2>10 DEF LineReturns
  <2>11. CASE Register
    <3>1. installing' \in Installs
      BY <2>0, <2>3, <2>11 DEF Register
    <3> QED BY <2>0, <2>1, <2>11, <3>1 DEF Register
  <2>12. CASE Install
    <3>1. installing.version \in Versions /\ CacheOffline(installing.version)
      BY <2>4, <2>12 DEF Install
    <3> QED BY <2>0, <2>1, <2>4, <2>6, <2>12, <3>1 DEF Install
  <2>13. CASE Activate
    <3>1. caches' = [v \in Versions |-> IF v = worker' THEN caches[v] ELSE NoCopy]
      BY <2>13 DEF Activate
    <3>2. caches' \in [Versions -> Copies]
      BY <2>0, <2>2, <3>1
    <3>3. installing' \in Installs
      BY <2>3, <2>13 DEF Activate
    <3> QED BY <2>0, <2>1, <2>4, <2>13, <3>2, <3>3 DEF Activate
  <2>14. CASE Navigate
    <3>1. worker \in Versions
      BY <2>0, <2>14 DEF Navigate, NoWorker
    <3>2. refreshing' \in [Versions -> BOOLEAN]
      <4>1. PICK b \in BOOLEAN : refreshing' = [refreshing EXCEPT ![worker] = b]
        BY <2>0, <2>14, <3>1 DEF Navigate
      <4> QED BY <2>0, <3>1, <4>1
    <3>3. shown' \in {"nothing", "page", "offline page", "words"}
      BY <2>14 DEF Navigate
    <3> QED BY <2>0, <2>1, <2>14, <3>2, <3>3 DEF Navigate
  <2>15. ASSUME NEW v \in Versions, Ages(v) PROVE OfflineTypeOK'
    <3>1. caches' = [caches EXCEPT ![v] = [caches[v] EXCEPT !.stale = TRUE]]
      BY <2>15 DEF Ages
    <3>2. caches' \in [Versions -> Copies]
      BY <2>0, <2>2, <3>1
    <3> QED BY <2>0, <2>1, <2>15, <3>2 DEF Ages
  <2>16. ASSUME NEW v \in Versions, Evicted(v) PROVE OfflineTypeOK'
    <3>1. caches' \in [Versions -> Copies]
      BY <2>0, <2>2, <2>16 DEF Evicted
    <3> QED BY <2>0, <2>1, <2>5, <2>16, <3>1 DEF Evicted
  <2>17. ASSUME NEW v \in Versions, RefreshOffline(v) PROVE OfflineTypeOK'
    <3>1. refreshing' \in [Versions -> BOOLEAN]
      BY <2>0, <2>17 DEF RefreshOffline
    <3> QED BY <2>0, <2>1, <2>6, <2>17, <3>1 DEF RefreshOffline
  <2>18. CASE UNCHANGED offlineVars
    BY <2>0, <2>1, <2>18 DEF offlineVars
  <2> QED BY <1>2, <2>7, <2>8, <2>9, <2>10, <2>11, <2>12, <2>13, <2>14, <2>15, <2>16, <2>17, <2>18
       DEF OfflineNext
<1> QED BY <1>1, <1>2

Parts == {"sync", "line", "bridge", "calls", "room", "push", "offline", "paste", "srcset",
          "picker", "dialog", "lists", "order", "tag", "flash", "fold", "cal", "advice"}

-----------------------------------------------------------------------------
\* The lifting of a part's theorem: what is left for it to show is that the steps
\* of the other parts, and stuttering, do not touch its variables.
LEMMA SyncPart == Spec => SyncSpec
<1>1. Init => SyncInit
  BY DEF Init
<1>2. [Next]_vars => [SyncNext]_syncVars
  <2> SUFFICES ASSUME [Next]_vars PROVE [SyncNext]_syncVars
    OBVIOUS
  <2>1. CASE \E p \in Parts \ {"sync"} : Moves(p)
    BY <2>1 DEF Moves
  <2>2. CASE UNCHANGED vars
    BY <2>2 DEF vars
  <2> QED BY <2>1, <2>2 DEF Next, Parts
<1> QED BY <1>1, <1>2, PTL DEF Spec, SyncSpec

LEMMA CallsPart == Spec => CallsSpec
<1>1. Init => CallsInit
  BY DEF Init
<1>2. [Next]_vars => [CallsNext]_callVars
  <2> SUFFICES ASSUME [Next]_vars PROVE [CallsNext]_callVars
    OBVIOUS
  <2>1. CASE \E p \in Parts \ {"calls"} : Moves(p)
    BY <2>1 DEF Moves
  <2>2. CASE UNCHANGED vars
    BY <2>2 DEF vars
  <2> QED BY <2>1, <2>2 DEF Next, Parts
<1> QED BY <1>1, <1>2, PTL DEF Spec, CallsSpec

LEMMA RoomPart == Spec => CollabSpec
<1>1. Init => CollabInit
  BY DEF Init
<1>2. [Next]_vars => [CollabNext]_collabVars
  <2> SUFFICES ASSUME [Next]_vars PROVE [CollabNext]_collabVars
    OBVIOUS
  <2>1. CASE \E p \in Parts \ {"room"} : Moves(p)
    BY <2>1 DEF Moves
  <2>2. CASE UNCHANGED vars
    BY <2>2 DEF vars
  <2> QED BY <2>1, <2>2 DEF Next, Parts
<1> QED BY <1>1, <1>2, PTL DEF Spec, CollabSpec

LEMMA LinePart == Spec => LineSpec
<1>1. Init => LineInit
  BY DEF Init
<1>2. [Next]_vars => [LineNext]_lineVars
  <2> SUFFICES ASSUME [Next]_vars PROVE [LineNext]_lineVars
    OBVIOUS
  <2>1. CASE \E p \in Parts \ {"line"} : Moves(p)
    BY <2>1 DEF Moves
  <2>2. CASE UNCHANGED vars
    BY <2>2 DEF vars
  <2> QED BY <2>1, <2>2 DEF Next, Parts
<1> QED BY <1>1, <1>2, PTL DEF Spec, LineSpec

-----------------------------------------------------------------------------
(***************************************************************************)
(* The parts of which more than one thing is shown.  What has a state in   *)
(* every behaviour, though only a behaviour of its own moves it:           *)
(***************************************************************************)

LEMMA FlashMoves == [Next]_vars => [Flash!FlashNext]_flashVars
<1> SUFFICES ASSUME [Next]_vars PROVE [Flash!FlashNext]_flashVars
  OBVIOUS
<1>1. CASE \E p \in Parts \ {"flash"} : Moves(p)
  BY <1>1 DEF Moves
<1>2. CASE UNCHANGED vars
  BY <1>2 DEF vars
<1> QED BY <1>1, <1>2 DEF Next, Parts

LEMMA FlashKept == Spec => [](FlashInv /\ FlashTyped)
<1>1. Init => (FlashInv /\ FlashTyped)
  BY FlashInitInv, FlashTypes DEF Init
<1>2. FlashInv /\ FlashTyped /\ [Next]_vars => (FlashInv /\ FlashTyped)'
  BY FlashMoves, FlashStep, FlashTypes
<1> QED BY <1>1, <1>2, PTL DEF Spec

LEMMA FoldMoves == [Next]_vars => [AccordionNext]_accordionVars
<1> SUFFICES ASSUME [Next]_vars PROVE [AccordionNext]_accordionVars
  OBVIOUS
<1>1. CASE \E p \in Parts \ {"fold"} : Moves(p)
  BY <1>1 DEF Moves
<1>2. CASE UNCHANGED vars
  BY <1>2 DEF vars
<1> QED BY <1>1, <1>2 DEF Next, Parts

LEMMA FoldKept == Spec => [](TheToggleIsKept /\ AccordionTypeOK)
<1>1. Init => (TheToggleIsKept /\ AccordionTypeOK)
  BY FoldTypes DEF Init, AccordionInit, TheToggleIsKept
<1>2. TheToggleIsKept /\ AccordionTypeOK /\ [Next]_vars => (TheToggleIsKept /\ AccordionTypeOK)'
  BY FoldMoves, FoldStep, FoldTypes
<1> QED BY <1>1, <1>2, PTL DEF Spec

LEMMA CalMoves == [Next]_vars => [Cal!CalendarNext]_calVars
<1> SUFFICES ASSUME [Next]_vars PROVE [Cal!CalendarNext]_calVars
  OBVIOUS
<1>1. CASE \E p \in Parts \ {"cal"} : Moves(p)
  BY <1>1 DEF Moves
<1>2. CASE UNCHANGED vars
  BY <1>2 DEF vars
<1> QED BY <1>1, <1>2 DEF Next, Parts

LEMMA CalKept == Spec => [](CalInv /\ CalTyped)
<1>1. Init => (CalInv /\ CalTyped)
  BY CalInitInv, CalTypes DEF Init
<1>2. CalInv /\ CalTyped /\ [Next]_vars => (CalInv /\ CalTyped)'
  BY CalMoves, CalStep, CalTypes
<1> QED BY <1>1, <1>2, PTL DEF Spec

LEMMA TagMoves == [Next]_vars => [Tag!TagNext]_tagVars
<1> SUFFICES ASSUME [Next]_vars PROVE [Tag!TagNext]_tagVars
  OBVIOUS
<1>1. CASE \E p \in Parts \ {"tag"} : Moves(p)
  BY <1>1 DEF Moves
<1>2. CASE UNCHANGED vars
  BY <1>2 DEF vars
<1> QED BY <1>1, <1>2 DEF Next, Parts

LEMMA TagKept == Spec => [](TagInv /\ TagTyped)
<1>1. Init => (TagInv /\ TagTyped)
  BY TagInitInv, TagTypes DEF Init
<1>2. TagInv /\ TagTyped /\ [Next]_vars => (TagInv /\ TagTyped)'
  BY TagMoves, TagStep, TagTypes
<1> QED BY <1>1, <1>2, PTL DEF Spec

LEMMA PushMoves == [Next]_vars => [Push!PushNext]_pushVars
<1> SUFFICES ASSUME [Next]_vars PROVE [Push!PushNext]_pushVars
  OBVIOUS
<1>1. CASE \E p \in Parts \ {"push"} : Moves(p)
  BY <1>1 DEF Moves
<1>2. CASE UNCHANGED vars
  BY <1>2 DEF vars
<1> QED BY <1>1, <1>2 DEF Next, Parts

LEMMA PushKept == Spec => [](PushInv /\ PushKeyed)
<1>1. Init => (PushInv /\ PushKeyed)
  BY PushInitInv, PushKeyedStart DEF Init
<1>2. PushInv /\ PushKeyed /\ [Next]_vars => (PushInv /\ PushKeyed)'
  BY PushMoves, PushStep, PushKeyedStep
<1> QED BY <1>1, <1>2, PTL DEF Spec

LEMMA PasteMoves == [Next]_vars => [Paste!PasteNext]_pasteVars
<1> SUFFICES ASSUME [Next]_vars PROVE [Paste!PasteNext]_pasteVars
  OBVIOUS
<1>1. CASE \E p \in Parts \ {"paste"} : Moves(p)
  BY <1>1 DEF Moves
<1>2. CASE UNCHANGED vars
  BY <1>2 DEF vars
<1> QED BY <1>1, <1>2 DEF Next, Parts

LEMMA PasteKept == Spec => [](PasteInv /\ PasteSized)
<1>1. Init => (PasteInv /\ PasteSized)
  BY PasteInitInv, PasteSizedStart DEF Init
<1>2. PasteInv /\ PasteSized /\ [Next]_vars => (PasteInv /\ PasteSized)'
  BY PasteMoves, PasteStep, PasteSizedStep
<1> QED BY <1>1, <1>2, PTL DEF Spec

LEMMA BridgeMoves == [Next]_vars => [BridgeNext]_bridgeVars
<1> SUFFICES ASSUME [Next]_vars PROVE [BridgeNext]_bridgeVars
  OBVIOUS
<1>1. CASE \E p \in Parts \ {"bridge"} : Moves(p)
  BY <1>1 DEF Moves
<1>2. CASE UNCHANGED vars
  BY <1>2 DEF vars
<1> QED BY <1>1, <1>2 DEF Next, Parts

LEMMA BridgeKept == Spec => []BridgeTypeOK
<1>1. Init => BridgeTypeOK
  BY BridgeTypes DEF Init
<1>2. BridgeTypeOK /\ [Next]_vars => BridgeTypeOK'
  BY BridgeMoves, BridgeTypes
<1> QED BY <1>1, <1>2, PTL DEF Spec

LEMMA OfflineMoves == [Next]_vars => [OfflineNext]_offlineVars
<1> SUFFICES ASSUME [Next]_vars PROVE [OfflineNext]_offlineVars
  OBVIOUS
<1>1. CASE \E p \in Parts \ {"offline"} : Moves(p)
  BY <1>1 DEF Moves
<1>2. CASE UNCHANGED vars
  BY <1>2 DEF vars
<1> QED BY <1>1, <1>2 DEF Next, Parts

LEMMA OfflineKept == Spec => []OfflineTypeOK
<1>1. Init => OfflineTypeOK
  BY OfflineTypes DEF Init
<1>2. OfflineTypeOK /\ [Next]_vars => OfflineTypeOK'
  BY OfflineMoves, OfflineTypes
<1> QED BY <1>1, <1>2, PTL DEF Spec

LEMMA PicksMoves == [Next]_vars => [Picker!PickerNext]_(Picker!pickerVars)
<1> SUFFICES ASSUME [Next]_vars PROVE [Picker!PickerNext]_(Picker!pickerVars)
  OBVIOUS
<1>1. CASE \E p \in Parts \ {"picker"} : Moves(p)
  BY <1>1 DEF Moves, pickerVars, Picker!pickerVars
<1>2. CASE UNCHANGED vars
  BY <1>2 DEF vars, pickerVars, Picker!pickerVars
<1> QED BY <1>1, <1>2 DEF Next, Parts

LEMMA PicksKept == Spec => [](PickerInv /\ PickerListed)
<1>1. Init => (PickerInv /\ PickerListed)
  BY PickerStart, PickerListedStart DEF Init
<1>2. PickerInv /\ PickerListed /\ [Next]_vars => (PickerInv /\ PickerListed)'
  BY PicksMoves, PickerStep, PickerListedStep DEF PickerInv, pickerVars, Picker!pickerVars
<1> QED BY <1>1, <1>2, PTL DEF Spec

LEMMA OrderMoves == [Next]_vars => [Order!ListNext]_(Order!listVars)
<1> SUFFICES ASSUME [Next]_vars PROVE [Order!ListNext]_(Order!listVars)
  OBVIOUS
<1>1. CASE \E p \in Parts \ {"order"} : Moves(p)
  BY <1>1 DEF Moves, orderVars, Order!listVars
<1>2. CASE UNCHANGED vars
  BY <1>2 DEF vars, orderVars, Order!listVars
<1> QED BY <1>1, <1>2 DEF Next, Parts

LEMMA OrderKept == Spec => [](OrderInv /\ RacedIs)
<1>1. Init => (OrderInv /\ RacedIs)
  BY OrderStart, RacedStart DEF Init
<1>2. OrderInv /\ RacedIs /\ [Next]_vars => (OrderInv /\ RacedIs)'
  BY OrderMoves, OrderStep, RacedStep
<1> QED BY <1>1, <1>2, PTL DEF Spec

\* What only has a state in a behaviour of its own: a behaviour is of one part.
LEMMA DialogMoves == [Next]_vars => part' = part /\ [Dialog!DialogsNext]_dialogVars
<1> SUFFICES ASSUME [Next]_vars PROVE part' = part /\ [Dialog!DialogsNext]_dialogVars
  OBVIOUS
<1>1. CASE \E p \in Parts \ {"dialog"} : Moves(p)
  BY <1>1 DEF Moves
<1>2. CASE UNCHANGED vars
  BY <1>2 DEF vars
<1>3. CASE Moves("dialog") /\ Dialog!DialogsNext
  BY <1>3 DEF Moves
<1> QED BY <1>1, <1>2, <1>3 DEF Next, Parts

LEMMA DialogKept == Spec => [](part = "dialog" => (DialogInv /\ strayed \in BOOLEAN))
<1>1. Init => (part = "dialog" => (DialogInv /\ strayed \in BOOLEAN))
  BY DialogInitInv, DialogTypes DEF Init
<1>2. (part = "dialog" => (DialogInv /\ strayed \in BOOLEAN)) /\ [Next]_vars
      => (part = "dialog" => (DialogInv /\ strayed \in BOOLEAN))'
  BY DialogMoves, DialogStep, DialogTypes
<1> QED BY <1>1, <1>2, PTL DEF Spec

LEMMA ListsMoves == [Next]_vars => part' = part /\ [Lists!ListNext]_(Lists!listVars)
<1> SUFFICES ASSUME [Next]_vars PROVE part' = part /\ [Lists!ListNext]_(Lists!listVars)
  OBVIOUS
<1>1. CASE \E p \in Parts \ {"lists"} : Moves(p)
  BY <1>1 DEF Moves, listVars, Lists!listVars
<1>2. CASE UNCHANGED vars
  BY <1>2 DEF vars, listVars, Lists!listVars
<1>3. CASE Moves("lists") /\ Lists!ListNext
  BY <1>3 DEF Moves
<1> QED BY <1>1, <1>2, <1>3 DEF Next, Parts

LEMMA ListsKept == Spec => [](part = "lists" => (ListsInv /\ ListsSized))
<1>1. Init => (part = "lists" => (ListsInv /\ ListsSized))
  BY ListsStart, ListsSizedStart DEF Init
<1>2. (part = "lists" => (ListsInv /\ ListsSized)) /\ [Next]_vars
      => (part = "lists" => (ListsInv /\ ListsSized))'
  BY ListsMoves, ListsStep, ListsSizedStep
<1> QED BY <1>1, <1>2, PTL DEF Spec

LEMMA SrcsetMoves == [Next]_vars => part' = part /\ [Srcset!SrcsetNext]_(Srcset!srcsetVars)
<1> SUFFICES ASSUME [Next]_vars PROVE part' = part /\ [Srcset!SrcsetNext]_(Srcset!srcsetVars)
  OBVIOUS
<1>1. CASE \E p \in Parts \ {"srcset"} : Moves(p)
  BY <1>1 DEF Moves, srcsetVars, Srcset!srcsetVars
<1>2. CASE UNCHANGED vars
  BY <1>2 DEF vars, srcsetVars, Srcset!srcsetVars
<1>3. CASE Moves("srcset") /\ Srcset!SrcsetNext
  BY <1>3 DEF Moves
<1> QED BY <1>1, <1>2, <1>3 DEF Next, Parts

LEMMA SrcsetKept == Spec => [](part = "srcset" => SrcsetInv)
<1>1. Init => (part = "srcset" => SrcsetInv)
  BY SrcsetStart DEF Init
<1>2. (part = "srcset" => SrcsetInv) /\ [Next]_vars
      => (part = "srcset" => SrcsetInv)'
  BY SrcsetMoves, SrcsetStep
<1> QED BY <1>1, <1>2, PTL DEF Spec

LEMMA AdviceMoves == [Next]_vars => part' = part /\ [Advice!JumpNext]_(Advice!jumpVars)
<1> SUFFICES ASSUME [Next]_vars PROVE part' = part /\ [Advice!JumpNext]_(Advice!jumpVars)
  OBVIOUS
<1>1. CASE \E p \in Parts \ {"advice"} : Moves(p)
  BY <1>1 DEF Moves, adviceVars, Advice!jumpVars
<1>2. CASE UNCHANGED vars
  BY <1>2 DEF vars, adviceVars, Advice!jumpVars
<1>3. CASE Moves("advice") /\ Advice!JumpNext
  BY <1>3 DEF Moves
<1> QED BY <1>1, <1>2, <1>3 DEF Next, Parts

LEMMA AdviceKept == Spec => [](part = "advice" => (JumpInv /\ AdviceTyped))
<1>1. Init => (part = "advice" => (JumpInv /\ AdviceTyped))
  BY JumpStart, AdviceTypes DEF Init
<1>2. (part = "advice" => (JumpInv /\ AdviceTyped)) /\ [Next]_vars
      => (part = "advice" => (JumpInv /\ AdviceTyped))'
  BY AdviceMoves, JumpStep, AdviceTypes
<1> QED BY <1>1, <1>2, PTL DEF Spec

\* A mirror that polls has no hole and no ghost among the documents that are
\* quiet, and no old body but of a document whose fire came late.
THEOREM PollersHaveATrueMirror == Spec => []MirrorTrue
BY SyncPart, MirrorIsTrue, PTL

\* A caller of the SDK is told what happened to its call, whatever was lost,
\* cut off, retried or aborted on the way.
THEOREM CallersToldWhatHappened == Spec => []CallersAreTold
<1>1. ToldWhatHappened => CallersAreTold
  BY DEF CallersAreTold
<1> QED BY <1>1, CallsPart, CallersTold, PTL

\* The stored text is seeded into a room once, but for the stray seeds, and a word
\* typed in a page stays in an open page, on its way, in the room or in the
\* database, unless its page closed without a line or the room's server died.
THEOREM RoomsKeepTheText == Spec => []RoomKeepsTheText
<1>1. SeededOnce /\ KeepsWords => RoomKeepsTheText
  BY DEF RoomKeepsTheText
<1> QED BY <1>1, RoomPart, RoomKeepsItsText, PTL

\* The notice a page shows is of the trouble it is in, and a view that reads
\* joined on a line that is up was joined on that line.
LEMMA PagesTellOfTheirLine == Spec => []NoticesAreCurrent
BY LinePart, PageSaysWhatIsSo, PTL

\* The watch takes down no line that answers, whatever was rebuilt or hidden
\* before.
LEMMA LinesThatAnswerStay == Spec => LiveLineLeftAlone
BY LinePart, LineLeftAlone

\* What an editor does through a paste, a tag or a drag of a chip is what the entry
\* holds, whatever the server answers meanwhile.
THEOREM WidgetsKeepEntries == Spec => []WidgetsKeepTheEntry
<1>1. PasteInv /\ TagInv /\ CalInv => WidgetsKeepTheEntry
  BY PasteLandsOnce, TagListed, CalAddsUp DEF WidgetsKeepTheEntry
<1> QED BY <1>1, PasteKept, TagKept, CalKept, PTL

\* What a page shows or promises of its line, a flash, a subscription or a section is
\* so, and focus is where it was left when the last dialog closes.
THEOREM PagesAreRight == Spec => []PagesSayWhatIsSo
<1>1. /\ PushInv /\ FlashInv /\ TheToggleIsKept /\ NoticesAreCurrent
      /\ part = "dialog" => DialogInv
      => PagesSayWhatIsSo
  BY PushAgrees, FlashTellsTheTruth DEF PagesSayWhatIsSo, DialogInv
<1> QED BY <1>1, PushKept, FlashKept, FoldKept, DialogKept, PagesTellOfTheirLine, PTL

\* No step takes a word that was not selected, closes a dialog under another, or
\* takes down a line that answers.
THEOREM NothingWasTaken == Spec => NothingIsTaken
<1>1. Spec => Paste!OnlyTheSelectedGoes
  <2>1. PasteInv /\ [Next]_vars =>
          [\A piece \in Paste!Among(doc) \ Paste!Among(doc') :
              \/ piece \in Paste!Covered(selection, doc)
              \/ \E k \in 1..Len(pastes) :
                    /\ ~pastes[k].settled /\ pastes'[k].settled
                    /\ piece \in Paste!Covered(pastes[k].at, pastes[k].before)
              \/ piece = Paste!Piece("doc", last.paste)]_(Paste!pasteVars)
    BY PasteMoves, PasteTakes
  <2> QED BY <2>1, PasteKept, PTL DEF Spec, Paste!OnlyTheSelectedGoes
<1>2. Spec => Dialog!EscapeClosesTheTop
  <2>1. (part = "dialog" => DialogInv) /\ [Next]_vars =>
          [Len(pushes') > Len(pushes) =>
              LET p == Dialog!Last(pushes')
              IN  /\ p \in connected
                  /\ \A q \in (connected \intersect closable) \ {p} :
                        Dialog!Within(q, p) \/ (q > p /\ ~Dialog!Within(p, q)) =>
                            Dialog!Holds(p, dialogFocus) /\ ~Dialog!Holds(q, dialogFocus)
          ]_(Dialog!dialogVars)
    <3> SUFFICES ASSUME part = "dialog" => DialogInv, [Next]_vars, Len(pushes') > Len(pushes),
                        ~UNCHANGED Dialog!dialogVars
                 PROVE  LET p == Dialog!Last(pushes')
                        IN  /\ p \in connected
                            /\ \A q \in (connected \intersect closable) \ {p} :
                                  Dialog!Within(q, p) \/ (q > p /\ ~Dialog!Within(p, q)) =>
                                      /\ Dialog!Holds(p, dialogFocus)
                                      /\ ~Dialog!Holds(q, dialogFocus)
      OBVIOUS
    <3>1. part = "dialog"
      <4>1. ~UNCHANGED dialogVars
        BY DEF Dialog!dialogVars, dialogVars
      <4>2. CASE \E p \in Parts \ {"dialog"} : Moves(p)
        BY <4>1, <4>2 DEF Moves
      <4>3. CASE UNCHANGED vars
        BY <4>1, <4>3 DEF vars
      <4> QED BY <4>2, <4>3 DEF Next, Parts, Moves
    <3> QED BY <3>1, DialogMoves, DialogEscape
  <2> QED BY <2>1, DialogKept, PTL DEF Spec, Dialog!EscapeClosesTheTop
<1> QED BY <1>1, <1>2, LinesThatAnswerStay DEF NothingIsTaken

\* What is worked out of a text, a size or a list comes to what was meant by it:
\* for any list, any number of drags, picks and answers on their way, any nesting of
\* pasted lists, any widths asked of an image and any findings.
THEOREM AllIsWorkedOutAsMeant == Spec => []WorkedOutAsMeant
<1>1. /\ PickerInv /\ OrderInv
      /\ part = "lists" => ListsInv
      /\ part = "srcset" => SrcsetInv
      /\ part = "advice" => JumpInv
      => WorkedOutAsMeant
  BY PickerSafe, OrderSafe, ListsSafe, SrcsetSafe, JumpSafe DEF WorkedOutAsMeant
<1> QED BY <1>1, PicksKept, OrderKept, ListsKept, SrcsetKept, AdviceKept, PTL

\* No reported order, however old, loses a row of a list or doubles it.
THEOREM RowsStay == Spec => NoRowSlipsAway
<1>1. OrderInv /\ [Next]_vars =>
        [(orderUp # <<>> /\ orderUp' = Tail(orderUp) /\ Head(orderUp).op = "drag")
           => \/ Order!Contents(held') = Order!Contents(held)
              \/ kind = "columns" /\ behind]_(Order!listVars)
  BY OrderMoves, OrderSlips
<1> QED BY <1>1, OrderKept, PTL DEF Spec, NoRowSlipsAway, Order!NothingSlipsAway

-----------------------------------------------------------------------------
(* Types.                                                                  *)

\* Every variable of the browser code holds what its module says it may: no list of
\* pushes, answers, patches or frames takes in anything else, no counter leaves its
\* range, and no hook is left in a state it has no case for.
THEOREM BrowserTypes == Spec => []ClientTypeOK
<1>1. /\ LineInv => LineTypeOK
      /\ CallsInv => CallsTypeOK
      /\ CollabInv => CollabTypeOK
  BY DEF LineInv, CallsInv, CollabInv
<1>2. /\ FlashTyped => Flash!FlashTypeOK
      /\ CalTyped => Cal!CalendarTypeOK
      /\ TagTyped => Tag!TagTypeOK
      /\ AdviceTyped => Advice!JumpTypeOK
      /\ DialogInv /\ strayed \in BOOLEAN => Dialog!DialogsTypeOK
  BY DEF FlashTyped, CalTyped, TagTyped, AdviceTyped, DialogInv, Dialog!DialogsTypeOK
<1>3. PickerInv /\ PickerListed => Picker!PickerTypeOK
  BY PickerTypes DEF PickerInv
<1>4. /\ SyncTypeOK /\ LineInv /\ BridgeTypeOK /\ CallsInv /\ CollabInv /\ OfflineTypeOK
      /\ PushInv /\ PushKeyed /\ PasteInv /\ PasteSized /\ PickerInv /\ PickerListed
      /\ OrderInv /\ RacedIs /\ TagTyped /\ FlashTyped /\ AccordionTypeOK /\ CalTyped
      /\ part = "srcset" => SrcsetInv
      /\ part = "dialog" => (DialogInv /\ strayed \in BOOLEAN)
      /\ part = "lists" => (ListsInv /\ ListsSized)
      /\ part = "advice" => (JumpInv /\ AdviceTyped)
      => ClientTypeOK
  BY <1>1, <1>2, <1>3, PushTypes, PasteTypes, OrderTypes, ListsTypes, SrcsetTypes DEF ClientTypeOK
<1>5. Spec => [](SyncTypeOK /\ LineInv /\ CallsInv /\ CollabInv)
  BY SyncPart, SyncTypes, LinePart, LineInvariant, CallsPart, CallsInvariant, RoomPart,
     RoomInvariant, PTL
<1> QED
  BY <1>4, <1>5, BridgeKept, OfflineKept, PushKept, PasteKept, PicksKept, OrderKept, TagKept,
     FlashKept, FoldKept, CalKept, SrcsetKept, DialogKept, ListsKept, AdviceKept, PTL
===============================================================================
