------------------------- MODULE Transcoder_proofs -------------------------
(***************************************************************************)
(* Proofs about Transcoder: what jpegtran crops, trims and copies, and     *)
(* where every sample goes, for every picture, every sampling, every       *)
(* option and every list of markers.                                       *)
(***************************************************************************)
EXTENDS Transcoder, TLAPS, SequenceTheorems, WellFoundedInduction

(***************************************************************************)
(* Induction, as statements about sets.                                    *)
(***************************************************************************)
LEMMA NatMin ==
  ASSUME NEW T \in SUBSET Nat, T # {}
  PROVE  \E m \in T : \A k \in T : m <= k
<1> DEFINE R == OpToRel(<, Nat)
<1>1. IsWellFoundedOn(R, Nat)
  BY NatLessThanWellFounded, Zenon
<1>2. \A x, y \in Nat : <<y, x>> \in R <=> y < x
  BY DEF OpToRel
<1> HIDE DEF R
<1>3. PICK m \in T : \A k \in T : ~ (<<k, m>> \in R)
  BY <1>1, WFMin
<1>4. \A k \in T : m <= k
  <2> TAKE k \in T
  <2>1. m \in Nat /\ k \in Nat /\ ~ (k < m)
    BY <1>2, <1>3
  <2> QED
    BY <2>1
<1> QED
  BY <1>4

LEMMA UpTo ==
  ASSUME NEW n \in Nat, NEW S, 0 \in S,
         \A k \in 1 .. n : k - 1 \in S => k \in S
  PROVE  0 .. n \subseteq S
<1> SUFFICES ASSUME (0 .. n) \ S # {} PROVE FALSE
  OBVIOUS
<1>0. (0 .. n) \ S \in SUBSET Nat
  OBVIOUS
<1>1. PICK m \in (0 .. n) \ S : \A k \in (0 .. n) \ S : m <= k
  BY <1>0, NatMin
<1>2. m \in 1 .. n /\ m - 1 \in 0 .. n
  BY <1>1
<1>3. m - 1 \in S
  BY <1>1, <1>2
<1> QED
  BY <1>1, <1>2, <1>3

\* A set that has the empty sequence, and with a sequence every longer one, has all.
LEMMA SeqInduction ==
  ASSUME NEW T, NEW S, <<>> \in S,
         \A s \in Seq(T), e \in T : s \in S => Append(s, e) \in S
  PROVE  Seq(T) \subseteq S
<1> SUFFICES ASSUME NEW t \in Seq(T) PROVE t \in S
  OBVIOUS
<1>0. PICK n \in Nat : n = Len(t)
  OBVIOUS
<1> DEFINE L == {k \in 0 .. n : \A s \in Seq(T) : Len(s) = k => s \in S}
<1>1. 0 \in L
  <2>1. \A s \in Seq(T) : Len(s) = 0 => s = <<>>
    OBVIOUS
  <2> QED
    BY <2>1
<1>2. ASSUME NEW k \in 1 .. n, k - 1 \in L PROVE k \in L
  <2> SUFFICES ASSUME NEW s \in Seq(T), Len(s) = k PROVE s \in S
    OBVIOUS
  <2>1. PICK r \in Seq(T), e \in T : s = Append(r, e)
    <3>1. s # <<>>
      OBVIOUS
    <3> QED
      BY <3>1, SequenceEmptyOrAppend
  <2>2. Len(r) = k - 1
    BY <2>1
  <2> QED
    BY <1>2, <2>1, <2>2
<1> HIDE DEF L
<1>3. 0 .. n \subseteq L
  BY <1>1, <1>2, UpTo
<1> QED
  BY <1>0, <1>3 DEF L

(***************************************************************************)
(* The markers of certain kinds.                                           *)
(***************************************************************************)
Picked(found, m, kinds) == IF m.kind \in kinds THEN Append(found, m) ELSE found
Picks(g, markers, kinds, n) ==
  g = [i \in 0 .. n |-> IF i = 0 THEN <<>> ELSE Picked(g[i - 1], markers[i], kinds)]

LEMMA PicksExist ==
  ASSUME NEW markers, NEW kinds, NEW n \in Nat
  PROVE  \E g : Picks(g, markers, kinds, n)
<1> DEFINE S == {k \in 0 .. n : \E g : Picks(g, markers, kinds, k)}
<1>1. 0 \in S
  <2>1. Picks([i \in 0 .. 0 |-> <<>>], markers, kinds, 0)
    BY DEF Picks
  <2> QED
    BY <2>1
<1>2. ASSUME NEW k \in 1 .. n, k - 1 \in S PROVE k \in S
  <2>1. PICK g : Picks(g, markers, kinds, k - 1)
    BY <1>2
  <2> DEFINE h == [i \in 0 .. k |-> IF i < k THEN g[i]
                                    ELSE Picked(g[k - 1], markers[k], kinds)]
  <2>2. ASSUME NEW i \in 0 .. k
        PROVE  h[i] = IF i = 0 THEN <<>> ELSE Picked(h[i - 1], markers[i], kinds)
    <3>1. CASE i < k
      BY <2>1, <3>1 DEF Picks
    <3>2. CASE i = k
      BY <3>2
    <3> QED
      BY <3>1, <3>2
  <2>3. Picks(h, markers, kinds, k)
    BY <2>2 DEF Picks
  <2> QED
    BY <2>3
<1> HIDE DEF S
<1>3. 0 .. n \subseteq S
  BY <1>1, <1>2, UpTo
<1> QED
  BY <1>3 DEF S

LEMMA OfKindPicks ==
  ASSUME NEW markers, NEW kinds, Len(markers) \in Nat
  PROVE  \E g : Picks(g, markers, kinds, Len(markers))
                /\ OfKind(markers, kinds) = g[Len(markers)]
<1> DEFINE s == CHOOSE g : Picks(g, markers, kinds, Len(markers))
<1>1. Picks(s, markers, kinds, Len(markers))
  BY PicksExist
<1>2. OfKind(markers, kinds) = s[Len(markers)]
  BY DEF OfKind, Picks, Picked
<1> QED
  BY <1>1, <1>2

LEMMA OfKindEmpty ==
  ASSUME NEW kinds
  PROVE  OfKind(<<>>, kinds) = <<>>
<1>1. Len(<<>>) = 0
  OBVIOUS
<1> QED
  BY <1>1, OfKindPicks DEF Picks

LEMMA OfKindAppend ==
  ASSUME NEW s \in Seq(MarkerType), NEW m \in MarkerType, NEW kinds
  PROVE  OfKind(Append(s, m), kinds)
           = IF m.kind \in kinds THEN Append(OfKind(s, kinds), m) ELSE OfKind(s, kinds)
<1> DEFINE n == Len(s)
           t == Append(s, m)
<1>1. n \in Nat /\ Len(t) = n + 1 /\ t[n + 1] = m /\ \A i \in 1 .. n : t[i] = s[i]
  OBVIOUS
<1>2. PICK g : Picks(g, s, kinds, n) /\ OfKind(s, kinds) = g[n]
  BY <1>1, OfKindPicks
<1> HIDE DEF n, t
<1>3. PICK h : Picks(h, t, kinds, n + 1) /\ OfKind(t, kinds) = h[n + 1]
  <2>1. Len(t) \in Nat
    BY <1>1
  <2> QED
    BY <1>1, <2>1, OfKindPicks
<1> DEFINE S == {i \in 0 .. n : g[i] = h[i]}
<1>4. 0 \in S
  BY <1>1, <1>2, <1>3 DEF Picks
<1>5. ASSUME NEW i \in 1 .. n, i - 1 \in S PROVE i \in S
  BY <1>1, <1>2, <1>3, <1>5 DEF Picks
<1> HIDE DEF S
<1>6. 0 .. n \subseteq S
  BY <1>1, <1>4, <1>5, UpTo
<1>7. g[n] = h[n]
  BY <1>1, <1>6 DEF S
<1>8. h[n + 1] = Picked(h[n], t[n + 1], kinds)
  BY <1>1, <1>3 DEF Picks
<1> QED
  BY <1>1, <1>2, <1>3, <1>7, <1>8, Zenon DEF t, Picked

LEMMA OfKindType ==
  ASSUME NEW T \in SUBSET MarkerType, NEW s \in Seq(T), NEW kinds
  PROVE  OfKind(s, kinds) \in Seq(T)
<1> DEFINE S == {t \in Seq(T) : OfKind(t, kinds) \in Seq(T)}
<1>1. <<>> \in S
  <2>1. <<>> \in Seq(T)
    OBVIOUS
  <2> QED
    BY <2>1, OfKindEmpty, Zenon
<1>2. ASSUME NEW t \in Seq(T), NEW m \in T, t \in S PROVE Append(t, m) \in S
  <2>1. Append(t, m) \in Seq(T) /\ m \in MarkerType
    OBVIOUS
  <2>2. PICK p \in Seq(T) : p = OfKind(t, kinds)
    BY <1>2
  <2>3. Append(p, m) \in Seq(T)
    OBVIOUS
  <2>4. t \in Seq(MarkerType)
    BY SeqMonotonic
  <2> QED
    BY <2>1, <2>2, <2>3, <2>4, OfKindAppend, Zenon
<1> HIDE DEF S
<1>3. Seq(T) \subseteq S
  BY <1>1, <1>2, SeqInduction
<1> QED
  BY <1>3 DEF S

LEMMA OfKindConcat ==
  ASSUME NEW r \in Seq(MarkerType), NEW s \in Seq(MarkerType), NEW kinds
  PROVE  OfKind(r \o s, kinds) = OfKind(r, kinds) \o OfKind(s, kinds)
<1> DEFINE S == {t \in Seq(MarkerType) :
                   OfKind(r \o t, kinds) = OfKind(r, kinds) \o OfKind(t, kinds)}
<1>0. OfKind(r, kinds) \in Seq(MarkerType)
  BY OfKindType
<1>1. <<>> \in S
  <2>1. <<>> \in Seq(MarkerType)
    OBVIOUS
  <2>2. r \o <<>> = r
    OBVIOUS
  <2>3. OfKind(r, kinds) \o <<>> = OfKind(r, kinds)
    BY <1>0
  <2> QED
    BY <2>1, <2>2, <2>3, OfKindEmpty, Zenon
<1>2. ASSUME NEW t \in Seq(MarkerType), NEW m \in MarkerType, t \in S PROVE Append(t, m) \in S
  <2>1. r \o Append(t, m) = Append(r \o t, m) /\ r \o t \in Seq(MarkerType)
    OBVIOUS
  <2>2. PICK q \in Seq(MarkerType) : q = OfKind(r, kinds)
    BY <1>0
  <2>3. PICK p \in Seq(MarkerType) : p = OfKind(t, kinds)
    BY OfKindType
  <2>4. q \o Append(p, m) = Append(q \o p, m)
    OBVIOUS
  <2>5. OfKind(r \o Append(t, m), kinds) = IF m.kind \in kinds THEN Append(q \o p, m) ELSE q \o p
    <3>1. OfKind(r \o t, kinds) = q \o p
      BY <1>2, <2>2, <2>3, Zenon
    <3>2. PICK u \in Seq(MarkerType) : u = r \o t
      BY <2>1
    <3>3. OfKind(Append(u, m), kinds) = IF m.kind \in kinds THEN Append(OfKind(u, kinds), m)
                                        ELSE OfKind(u, kinds)
      BY OfKindAppend
    <3> QED
      BY <2>1, <3>1, <3>2, <3>3, Zenon
  <2>6. OfKind(Append(t, m), kinds) = IF m.kind \in kinds THEN Append(p, m) ELSE p
    BY <2>3, OfKindAppend
  <2>7. Append(t, m) \in Seq(MarkerType)
    OBVIOUS
  <2>8. OfKind(r \o Append(t, m), kinds) = OfKind(r, kinds) \o OfKind(Append(t, m), kinds)
    BY <2>2, <2>4, <2>5, <2>6, Zenon
  <2> QED
    BY <2>7, <2>8, Zenon
<1> HIDE DEF S
<1>3. Seq(MarkerType) \subseteq S
  BY <1>1, <1>2, SeqInduction
<1> QED
  BY <1>3 DEF S

LEMMA OfKindTwice ==
  ASSUME NEW s \in Seq(MarkerType), NEW K, NEW L
  PROVE  OfKind(OfKind(s, K), L) = OfKind(s, K \cap L)
<1> DEFINE S == {t \in Seq(MarkerType) : OfKind(OfKind(t, K), L) = OfKind(t, K \cap L)}
<1>1. <<>> \in S
  <2>1. <<>> \in Seq(MarkerType)
    OBVIOUS
  <2> QED
    BY <2>1, OfKindEmpty, Zenon
<1>2. ASSUME NEW t \in Seq(MarkerType), NEW m \in MarkerType, t \in S PROVE Append(t, m) \in S
  <2>1. PICK p \in Seq(MarkerType) : p = OfKind(t, K)
    BY OfKindType
  <2>2. OfKind(Append(t, m), K) = IF m.kind \in K THEN Append(p, m) ELSE p
    BY <2>1, OfKindAppend
  <2>3. OfKind(Append(p, m), L) = IF m.kind \in L THEN Append(OfKind(p, L), m) ELSE OfKind(p, L)
    BY OfKindAppend
  <2>4. OfKind(Append(t, m), K \cap L)
          = IF m.kind \in K \cap L THEN Append(OfKind(t, K \cap L), m) ELSE OfKind(t, K \cap L)
    BY OfKindAppend
  <2>5. OfKind(p, L) = OfKind(t, K \cap L)
    BY <1>2, <2>1
  <2>6. m.kind \in K \cap L <=> m.kind \in K /\ m.kind \in L
    OBVIOUS
  <2>7. Append(t, m) \in Seq(MarkerType)
    OBVIOUS
  <2>8. OfKind(OfKind(Append(t, m), K), L) = OfKind(Append(t, m), K \cap L)
    BY <2>2, <2>3, <2>4, <2>5, <2>6, Zenon
  <2> QED
    BY <2>7, <2>8, Zenon
<1> HIDE DEF S
<1>3. Seq(MarkerType) \subseteq S
  BY <1>1, <1>2, SeqInduction
<1> QED
  BY <1>3 DEF S

LEMMA OfNoKind ==
  ASSUME NEW s \in Seq(MarkerType)
  PROVE  OfKind(s, {}) = <<>>
<1> DEFINE S == {t \in Seq(MarkerType) : OfKind(t, {}) = <<>>}
<1>1. <<>> \in S
  <2>1. <<>> \in Seq(MarkerType)
    OBVIOUS
  <2> QED
    BY <2>1, OfKindEmpty, Zenon
<1>2. ASSUME NEW t \in Seq(MarkerType), NEW m \in MarkerType, t \in S PROVE Append(t, m) \in S
  <2>1. Append(t, m) \in Seq(MarkerType)
    OBVIOUS
  <2> QED
    BY <1>2, <2>1, OfKindAppend, Zenon
<1> HIDE DEF S
<1>3. Seq(MarkerType) \subseteq S
  BY <1>1, <1>2, SeqInduction
<1> QED
  BY <1>3 DEF S

LEMMA OfKindOne ==
  ASSUME NEW m \in MarkerType, NEW kinds
  PROVE  OfKind(<<m>>, kinds) = IF m.kind \in kinds THEN <<m>> ELSE <<>>
<1>1. <<>> \in Seq(MarkerType)
  OBVIOUS
<1>2. Append(<<>>, m) = <<m>>
  OBVIOUS
<1>3. OfKind(Append(<<>>, m), kinds) = IF m.kind \in kinds THEN Append(<<>>, m) ELSE <<>>
  BY <1>1, OfKindAppend, OfKindEmpty, Zenon
<1> QED
  BY <1>2, <1>3, Zenon

\* A first marker of the kind stays the first.
LEMMA OfKindHead ==
  ASSUME NEW s \in Seq(MarkerType), s # <<>>, NEW kinds, Head(s).kind \in kinds
  PROVE  OfKind(s, kinds) # <<>> /\ Head(OfKind(s, kinds)) = Head(s)
<1>1. Head(s) \in MarkerType /\ Tail(s) \in Seq(MarkerType)
  OBVIOUS
<1>2. s = <<Head(s)>> \o Tail(s)
  OBVIOUS
<1>3. PICK m \in MarkerType : m = Head(s)
  BY <1>1
<1>4. PICK t \in Seq(MarkerType) : t = Tail(s)
  BY <1>1
<1>5. PICK p \in Seq(MarkerType) : p = OfKind(t, kinds)
  BY OfKindType
<1>6. <<m>> \in Seq(MarkerType)
  OBVIOUS
<1>7. OfKind(<<m>> \o t, kinds) = OfKind(<<m>>, kinds) \o p
  BY <1>5, <1>6, OfKindConcat
<1>8. OfKind(<<m>>, kinds) = <<m>>
  BY <1>3, OfKindOne
<1>9. <<m>> \o p # <<>> /\ Head(<<m>> \o p) = m
  OBVIOUS
<1> QED
  BY <1>2, <1>3, <1>4, <1>7, <1>8, <1>9

(***************************************************************************)
(* The crop specification, and one axis of the picture: what is cropped    *)
(* and trimmed of it.                                                      *)
(***************************************************************************)
Asked == jtransform_parse_crop_spec(opt.crop)

LEMMA AskedIsSane ==
  ASSUME NEW spec \in Seq(Int), NEW a, a = jtransform_parse_crop_spec(spec), a.ok
  PROVE  /\ a.w.value \in Nat /\ a.w.set \in {"UNSET", "POS", "FORCE"}
         /\ a.h.value \in Nat /\ a.h.set \in {"UNSET", "POS", "FORCE"}
         /\ a.x.value \in Nat /\ a.x.set \in {"UNSET", "POS", "NEG"}
         /\ a.y.value \in Nat /\ a.y.set \in {"UNSET", "POS", "NEG"}
<1>1. \A p \in Nat \ {0} : TokenAt(spec, p) \in Int
  BY DEF TokenAt, End
<1>2. ASSUME NEW p \in Nat \ {0}
      PROVE  /\ Unset(p).next \in Nat \ {0} /\ Unset(p).value \in Nat
             /\ Unset(p).set = "UNSET"
  BY DEF Unset
<1>3. ASSUME NEW p \in Nat \ {0}, Extent(spec, p).ok
      PROVE  /\ Extent(spec, p).next \in Nat \ {0} /\ Extent(spec, p).value \in Nat
             /\ Extent(spec, p).set \in {"POS", "FORCE"}
  <2>1. IsNumber(TokenAt(spec, p))
    BY <1>3, Zenon DEF Extent
  <2>2. TokenAt(spec, p) \in Nat
    BY <1>1, <2>1 DEF IsNumber
  <2> QED
    BY <2>2 DEF Extent
<1>4. ASSUME NEW p \in Nat \ {0}, Offset(spec, p).ok
      PROVE  /\ Offset(spec, p).next \in Nat \ {0} /\ Offset(spec, p).value \in Nat
             /\ Offset(spec, p).set \in {"UNSET", "POS", "NEG"}
  <2>1. p + 1 \in Nat \ {0} /\ p + 2 \in Nat \ {0}
    OBVIOUS
  <2>2. CASE TokenAt(spec, p) \notin {Plus, Minus}
    BY <2>2 DEF Offset, Unset
  <2>3. CASE TokenAt(spec, p) \in {Plus, Minus}
    <3>1. IsNumber(TokenAt(spec, p + 1))
      BY <1>4, <2>3, Zenon DEF Offset
    <3>2. TokenAt(spec, p + 1) \in Nat
      BY <1>1, <2>1, <3>1 DEF IsNumber
    <3> QED
      BY <2>1, <2>3, <3>2 DEF Offset
  <2> QED
    BY <2>2, <2>3
<1> DEFINE w == IF IsNumber(TokenAt(spec, 1)) THEN Extent(spec, 1) ELSE Unset(1)
           h == IF TokenAt(spec, w.next) = X THEN Extent(spec, w.next + 1) ELSE Unset(w.next)
           x == Offset(spec, h.next)
           y == Offset(spec, x.next)
<1>5. a.w = w /\ a.h = h /\ a.x = x /\ a.y = y /\ w.ok /\ h.ok /\ x.ok /\ y.ok
  BY DEF jtransform_parse_crop_spec
<1>6. w.next \in Nat \ {0} /\ w.value \in Nat /\ w.set \in {"UNSET", "POS", "FORCE"}
  BY <1>2, <1>3, <1>5
<1>7. h.next \in Nat \ {0} /\ h.value \in Nat /\ h.set \in {"UNSET", "POS", "FORCE"}
  <2> HIDE DEF w
  <2>1. w.next + 1 \in Nat \ {0}
    BY <1>6
  <2> QED
    BY <1>2, <1>3, <1>5, <1>6, <2>1
<1>8. x.next \in Nat \ {0} /\ x.value \in Nat /\ x.set \in {"UNSET", "POS", "NEG"}
  <2> HIDE DEF h
  <2> QED
    BY <1>4, <1>5, <1>7
<1>9. y.value \in Nat /\ y.set \in {"UNSET", "POS", "NEG"}
  <2> HIDE DEF x
  <2> QED
    BY <1>4, <1>5, <1>8
<1> HIDE DEF w, h, x, y
<1> QED
  BY <1>5, <1>6, <1>7, <1>8, <1>9

\* A region lies inside of the picture and begins less than an iMCU to the left of
\* what was asked for, with the same end.
RegionHolds(r, full, imcu, forced) ==
  /\ r.offset \in Nat /\ r.start \in Nat /\ r.size \in Nat \ {0} /\ r.wanted \in Nat \ {0}
  /\ r.offset * imcu <= r.start /\ r.start < r.offset * imcu + imcu
  /\ r.offset * imcu + r.size <= full
  /\ ~ forced => r.offset * imcu + r.size = r.start + r.wanted
  /\ forced => r.size = r.wanted

LEMMA CroppedHolds ==
  ASSUME NEW full \in Nat \ {0}, NEW imcu \in {2, 4, 6, 8}, NEW extent, NEW offset,
         extent.value \in Nat, extent.set \in {"UNSET", "POS", "FORCE"},
         offset.value \in Nat, offset.set \in {"UNSET", "POS", "NEG"},
         NEW r, r = Cropped(full, imcu, extent, offset), r.ok
  PROVE  RegionHolds(r, full, imcu, extent.set = "FORCE")
<1> DEFINE off   == IF offset.set = "UNSET" THEN 0 ELSE offset.value
           size  == IF extent.set = "UNSET" THEN full - off ELSE extent.value
           start == IF offset.set = "NEG" THEN full - size - off ELSE off
<1>1. /\ off < full /\ size > 0 /\ size <= full /\ off <= full - size
      /\ r.start = start /\ r.wanted = size
      /\ r.size = IF extent.set = "FORCE" THEN size ELSE size + (start % imcu)
      /\ r.offset = start \div imcu
  BY DEF Cropped
<1>2. off \in Nat /\ size \in Int
  OBVIOUS
<1> HIDE DEF off, size
<1>3. start \in Nat /\ start + size <= full
  BY <1>1, <1>2
<1> HIDE DEF start
<1>4. \A n \in Nat : /\ n \div imcu \in Nat /\ n % imcu \in 0 .. imcu - 1
                    /\ n = (n \div imcu) * imcu + (n % imcu)
  <2>1. CASE imcu = 2
    BY <2>1
  <2>2. CASE imcu = 4
    BY <2>2
  <2>3. CASE imcu = 6
    BY <2>3
  <2>4. CASE imcu = 8
    BY <2>4
  <2> QED
    BY <2>1, <2>2, <2>3, <2>4
<1>5. PICK q \in Nat, m \in Nat :
        q = start \div imcu /\ m = start % imcu /\ m < imcu /\ start = q * imcu + m
  <2>1. PICK s \in Nat : s = start
    BY <1>3
  <2>2. s \div imcu \in Nat /\ s % imcu \in Nat /\ s % imcu < imcu
        /\ s = (s \div imcu) * imcu + (s % imcu)
    BY <1>4
  <2> QED
    BY <2>1, <2>2
<1>6. PICK p \in Nat : p = q * imcu
  <2>1. imcu \in Nat
    OBVIOUS
  <2> QED
    BY <2>1
<1>7. CASE extent.set = "FORCE"
  BY <1>1, <1>2, <1>3, <1>5, <1>6, <1>7 DEF RegionHolds
<1>8. CASE extent.set # "FORCE"
  BY <1>1, <1>2, <1>3, <1>5, <1>6, <1>8 DEF RegionHolds
<1> QED
  BY <1>7, <1>8

LEMMA UncroppedHolds ==
  ASSUME NEW full \in Nat \ {0}, NEW imcu \in {2, 4, 6, 8}
  PROVE  RegionHolds(Uncropped(full), full, imcu, FALSE)
BY DEF RegionHolds, Uncropped

\* What is trimmed is less than an iMCU, and where it is trimmed whole iMCUs are left.
LEMMA TrimmedHolds ==
  ASSUME NEW full \in Nat \ {0}, NEW imcu \in {2, 4, 6, 8}, NEW size \in Nat \ {0},
         NEW offset \in Nat, offset * imcu + size <= full,
         NEW t, t = Trimmed(size, offset, full, imcu)
  PROVE  /\ t \in Nat \ {0} /\ t <= size /\ t > size - imcu
         /\ t < imcu \/ offset * imcu + t <= (full \div imcu) * imcu
<1>1. t = IF size \div imcu > 0 /\ offset + (size \div imcu) = full \div imcu
          THEN (size \div imcu) * imcu ELSE size
  BY DEF Trimmed
<1>2. CASE imcu = 2
  BY <1>1, <1>2
<1>3. CASE imcu = 4
  BY <1>1, <1>3
<1>4. CASE imcu = 6
  BY <1>1, <1>4
<1>5. CASE imcu = 8
  BY <1>1, <1>5
<1> QED
  BY <1>2, <1>3, <1>4, <1>5

(***************************************************************************)
(* The largest sampling factor.                                            *)
(***************************************************************************)
LEMMA SmallMaximum ==
  ASSUME NEW S \in SUBSET (1 .. 4), S # {}
  PROVE  \E m \in S : \A k \in S : k <= m
<1>1. CASE 4 \in S
  BY <1>1
<1>2. CASE 4 \notin S /\ 3 \in S
  BY <1>2
<1>3. CASE 4 \notin S /\ 3 \notin S /\ 2 \in S
  BY <1>3
<1>4. CASE 4 \notin S /\ 3 \notin S /\ 2 \notin S
  <2>1. \A k \in S : k = 1
    BY <1>4
  <2>2. PICK k \in S : TRUE
    OBVIOUS
  <2>3. k <= k
    BY <2>1, <2>2
  <2> QED
    BY <2>1, <2>2, <2>3
<1> QED
  BY <1>1, <1>2, <1>3, <1>4

LEMMA MaxFactors ==
  ASSUME NEW comps \in Seq(ComponentType), comps # <<>>
  PROVE  /\ max_h(comps) \in 1 .. 4 /\ max_v(comps) \in 1 .. 4
         /\ \A ci \in DOMAIN comps : comps[ci].h <= max_h(comps) /\ comps[ci].v <= max_v(comps)
         /\ \E ci \in DOMAIN comps : comps[ci].h = max_h(comps)
         /\ \E ci \in DOMAIN comps : comps[ci].v = max_v(comps)
<1>1. \A ci \in DOMAIN comps : comps[ci].h \in 1 .. 4 /\ comps[ci].v \in 1 .. 4
  <2>1. \A ci \in DOMAIN comps : comps[ci] \in ComponentType
    OBVIOUS
  <2>2. \A c \in ComponentType : c.h \in 1 .. 4 /\ c.v \in 1 .. 4
    BY DEF ComponentType
  <2> QED
    BY <2>1, <2>2
<1>2. 1 \in DOMAIN comps
  OBVIOUS
<1> DEFINE H == {comps[ci].h : ci \in DOMAIN comps}
           V == {comps[ci].v : ci \in DOMAIN comps}
<1>3. H \in SUBSET (1 .. 4) /\ H # {} /\ V \in SUBSET (1 .. 4) /\ V # {}
  BY <1>1, <1>2
<1>4. \E m \in H : \A ci \in DOMAIN comps : comps[ci].h <= m
  <2>1. \A ci \in DOMAIN comps : comps[ci].h \in H
    OBVIOUS
  <2> HIDE DEF H
  <2> QED
    BY <1>3, <2>1, SmallMaximum
<1>5. \E m \in V : \A ci \in DOMAIN comps : comps[ci].v <= m
  <2>1. \A ci \in DOMAIN comps : comps[ci].v \in V
    OBVIOUS
  <2> HIDE DEF V
  <2> QED
    BY <1>3, <2>1, SmallMaximum
<1>6. max_h(comps) = CHOOSE m \in H : \A ci \in DOMAIN comps : comps[ci].h <= m
  BY DEF max_h, Most
<1>7. max_v(comps) = CHOOSE m \in V : \A ci \in DOMAIN comps : comps[ci].v <= m
  BY DEF max_v, Most
<1> HIDE DEF H, V
<1>8. max_h(comps) \in H /\ \A ci \in DOMAIN comps : comps[ci].h <= max_h(comps)
  BY <1>4, <1>6
<1>9. max_v(comps) \in V /\ \A ci \in DOMAIN comps : comps[ci].v <= max_v(comps)
  BY <1>5, <1>7
<1>10. \E ci \in DOMAIN comps : comps[ci].h = max_h(comps)
  BY <1>8 DEF H
<1>11. \E ci \in DOMAIN comps : comps[ci].v = max_v(comps)
  BY <1>9 DEF V
<1> QED
  BY <1>3, <1>8, <1>9, <1>10, <1>11

(***************************************************************************)
(* The invariant: what each step has fixed for those that follow.          *)
(***************************************************************************)
AfterRequest == {"adjust", "write", "markers", "execute", "done"}
AfterAdjust == {"write", "markers", "execute", "done"}

FittingMarker == {m \in MarkerType : m.fits <= Len(m.sub)}
PictureType == [space : {"YCbCr", "RGB", "GRAY"}, comps : Seq(ComponentType),
                w : Nat \ {0}, h : Nat \ {0}, reused : BOOLEAN, markers : Seq(FittingMarker)]
OptionType == [transform : {"NONE", "FLIP_H", "FLIP_V", "TRANSPOSE", "TRANSVERSE",
                            "ROT_90", "ROT_180", "ROT_270"},
               perfect : BOOLEAN, trim : BOOLEAN, gray : BOOLEAN, crop : Seq(Int),
               copy : {"ALL", "COMMENTS", "NONE"}]
Read == src \in PictureType /\ src.comps # <<>> /\ opt \in OptionType

RegionX == Region(full_width, iMCU_sample_width, Asked.w, Asked.x)
RegionY == Region(full_height, iMCU_sample_height, Asked.h, Asked.y)
WidthOut == OutputSize(RegionX, MirrorsRight, full_width, iMCU_sample_width)
HeightOut == OutputSize(RegionY, MirrorsBottom, full_height, iMCU_sample_height)
Information == [num |-> num_components, w |-> WidthOut, h |-> HeightOut,
                x |-> RegionX.offset, y |-> RegionY.offset,
                region |-> [x |-> RegionX, y |-> RegionY]]
Perfect == jtransform_perfect_transform(src.w, src.h, mcu_width, mcu_height, opt.transform)
WorkArrays == IF NeedsWorkspace(opt.transform, info.x, info.y)
              THEN [ci \in 1 .. num_components |-> Workspace(ci, info.w, info.h)]
              ELSE <<>>

Requested ==
  /\ phase \in {"header", "request"} => info = Asked
  /\ phase \in {"header", "request"} \union AfterRequest => Asked.ok
  /\ phase \in AfterRequest =>
       /\ opt.perfect => Perfect
       /\ RegionX.ok /\ RegionY.ok
       /\ info = Information
  /\ phase \in AfterRequest \ {"done"} => work = WorkArrays

OutputParameters ==
  [(IF transpose_it THEN TransposedParameters(Parameters) ELSE Parameters)
     EXCEPT !.jfif = @ /\ ~ LeadingExif]
NamesSize(m, w, h) ==
  m.parses /\ Len(m.sub) > 1 =>
    \A k \in 1 .. m.fits :
      /\ m.sub[k].tag = "ExifImageWidth" => m.sub[k].value = w
      /\ m.sub[k].tag = "ExifImageHeight" => m.sub[k].value = h
ExifNamesSize ==
  LeadingExif /\ <<info.w, info.h>> # <<src.w, src.h>> =>
    NamesSize(src.markers[1], info.w, info.h)
Adjusted ==
  phase \in AfterAdjust =>
    /\ opt.gray => grayscale
    /\ dst = OutputParameters
    /\ ExifNamesSize

FileStart == (IF dst.jfif THEN <<Marker("JFIF")>> ELSE <<>>)
               \o (IF dst.adobe THEN <<Marker("Adobe")>> ELSE <<>>)
CopiedKinds == {"Exif", "COM"} \union (IF dst.jfif THEN {} ELSE {"JFIF"})
                               \union (IF dst.adobe THEN {} ELSE {"Adobe"})
Copied ==
  /\ phase = "markers" => out = FileStart
  /\ phase \in {"execute", "done"} => out = FileStart \o OfKind(src.markers, CopiedKinds)

SourceArrays == [ci \in DOMAIN src.comps |-> SourceArray(src, ci)]
MovedArray(ci) ==
  [y \in DOMAIN WorkArrays[ci] |-> [x \in DOMAIN WorkArrays[ci][y] |->
     BlockAt(Moved(SourceArrays[ci], Place(ci)), y, x)]]
FlippedArray(ci) ==
  IF ci \in DOMAIN dst.comps THEN do_flip_h_no_crop(SourceArrays[ci], Place(ci))
  ELSE SourceArrays[ci]
Left == opt.transform = "NONE" /\ info.x = 0 /\ info.y = 0
InPlace == opt.transform = "FLIP_H" /\ info.y = 0
Executed ==
  /\ phase # "done" => coefs = SourceArrays
  /\ phase = "done" =>
       /\ Left => coefs = SourceArrays /\ work = WorkArrays
       /\ InPlace => coefs = [ci \in DOMAIN src.comps |-> FlippedArray(ci)]
                      /\ work = WorkArrays
       /\ ~ Left /\ ~ InPlace => coefs = SourceArrays
                               /\ work = [ci \in DOMAIN dst.comps |-> MovedArray(ci)]

IInv == Read /\ Requested /\ Adjusted /\ Copied /\ Executed

\* The operators of the request look at the size and the components of the source.
SameSource == /\ src'.w = src.w /\ src'.h = src.h /\ src'.comps = src.comps
              /\ src'.space = src.space /\ opt' = opt

LEMMA SameAxes ==
  ASSUME SameSource
  PROVE  /\ num_components' = num_components /\ transpose_it' = transpose_it
         /\ full_width' = full_width /\ full_height' = full_height
         /\ mcu_width' = mcu_width /\ mcu_height' = mcu_height
         /\ iMCU_sample_width' = iMCU_sample_width /\ iMCU_sample_height' = iMCU_sample_height
<1>1. num_components' = num_components
  BY DEF SameSource, num_components
<1>2. transpose_it' = transpose_it
  BY DEF SameSource, transpose_it
<1>3. full_width' = full_width /\ full_height' = full_height
  BY <1>2 DEF SameSource, full_width, full_height
<1>4. mcu_width' = mcu_width /\ mcu_height' = mcu_height
  BY <1>1 DEF SameSource, mcu_width, mcu_height
<1>5. iMCU_sample_width' = iMCU_sample_width /\ iMCU_sample_height' = iMCU_sample_height
  BY <1>2, <1>4 DEF iMCU_sample_width, iMCU_sample_height
<1> QED
  BY <1>1, <1>2, <1>3, <1>4, <1>5

LEMMA SameRequest ==
  ASSUME SameSource
  PROVE  /\ Asked' = Asked /\ Perfect' = Perfect
         /\ RegionX' = RegionX /\ RegionY' = RegionY
         /\ Information' = Information
<1>1. Asked' = Asked
  BY DEF SameSource, Asked
<1>2. Perfect' = Perfect
  BY SameAxes DEF SameSource, Perfect
<1>3. RegionX' = RegionX /\ RegionY' = RegionY
  BY <1>1, SameAxes DEF SameSource, RegionX, RegionY, Region
<1>4. WidthOut' = WidthOut /\ HeightOut' = HeightOut
  BY <1>3, SameAxes DEF SameSource, WidthOut, HeightOut, OutputSize
<1>5. Information' = Information
  BY <1>3, <1>4, SameAxes DEF Information
<1> QED
  BY <1>1, <1>2, <1>3, <1>5

LEMMA SameWorkspace ==
  ASSUME SameSource
  PROVE  WorkArrays' = IF NeedsWorkspace(opt.transform, info'.x, info'.y)
                       THEN [ci \in 1 .. num_components |-> Workspace(ci, info'.w, info'.h)]
                       ELSE <<>>
<1>1. ASSUME NEW ci PROVE Workspace(ci, info.w, info.h)' = Workspace(ci, info'.w, info'.h)
  BY SameAxes DEF SameSource, Workspace
<1> QED
  BY <1>1, SameAxes DEF SameSource, WorkArrays

LEMMA SameArrays ==
  ASSUME SameSource
  PROVE  SourceArrays' = SourceArrays
<1>1. ASSUME NEW r, NEW s, r.w = s.w, r.h = s.h, r.comps = s.comps, NEW ci
      PROVE  SourceArray(r, ci) = SourceArray(s, ci)
  BY <1>1 DEF SourceArray
<1> QED
  BY <1>1 DEF SameSource, SourceArrays

LEMMA SameParameters ==
  ASSUME SameSource, info' = info, LeadingExif' = LeadingExif
  PROVE  OutputParameters' = OutputParameters
<1>1. Parameters' = Parameters
  BY DEF SameSource, Parameters
<1> QED
  BY <1>1, SameAxes DEF OutputParameters

LEMMA SameMoves ==
  ASSUME UNCHANGED <<src, opt, info, dst>>
  PROVE  /\ \A ci : MovedArray(ci)' = MovedArray(ci)
         /\ \A ci : FlippedArray(ci)' = FlippedArray(ci)
<1>0. SameSource
  BY DEF SameSource
<1>1. \A ci : Place(ci)' = Place(ci)
  BY <1>0, SameAxes DEF Place
<1>3. SourceArrays' = SourceArrays /\ WorkArrays' = WorkArrays
  BY <1>0, SameArrays, SameWorkspace DEF WorkArrays
<1>4. \A ci : Moved(SourceArrays[ci], Place(ci))' = Moved(SourceArrays[ci], Place(ci))
  BY <1>1, <1>3 DEF Moved
<1>5. \A ci : MovedArray(ci)' = MovedArray(ci)
  BY <1>3, <1>4 DEF MovedArray
<1>6. \A ci : FlippedArray(ci)' = FlippedArray(ci)
  BY <1>1, <1>3 DEF FlippedArray
<1> QED
  BY <1>5, <1>6

LEMMA MarkersFit ==
  ASSUME NEW m \in FittingMarker, NEW w \in Nat, NEW h \in Nat,
         NEW n, n = adjust_exif_parameters(m, w, h)
  PROVE  n \in FittingMarker /\ n.kind = m.kind /\ NamesSize(n, w, h)
<1>1. m \in MarkerType /\ m.fits <= Len(m.sub)
  BY DEF FittingMarker
<1>2. m.fits \in Nat /\ m.sub \in Seq(TagType) /\ m.parses \in BOOLEAN
  BY <1>1 DEF MarkerType
<1>3. CASE ~ m.parses \/ Len(m.sub) < 2
  <2>1. n = m
    BY <1>3 DEF adjust_exif_parameters
  <2>2. Len(m.sub) \in Nat
    BY <1>2
  <2> QED
    BY <1>3, <2>1, <2>2 DEF NamesSize
<1>4. CASE ~ (~ m.parses \/ Len(m.sub) < 2)
  <2> DEFINE New(k) == IF k > m.fits THEN m.sub[k]
                       ELSE CASE m.sub[k].tag = "ExifImageWidth"  -> [m.sub[k] EXCEPT !.value = w]
                              [] m.sub[k].tag = "ExifImageHeight" -> [m.sub[k] EXCEPT !.value = h]
                              [] OTHER -> m.sub[k]
             sub == [k \in DOMAIN m.sub |-> New(k)]
  <2>1. n = [m EXCEPT !.sub = sub]
    BY <1>4 DEF adjust_exif_parameters
  <2>2. PICK len \in Nat : len = Len(m.sub) /\ DOMAIN m.sub = 1 .. len
    BY <1>2
  <2>3. ASSUME NEW k \in 1 .. len
        PROVE  /\ New(k) \in TagType
               /\ k <= m.fits /\ New(k).tag = "ExifImageWidth" => New(k).value = w
               /\ k <= m.fits /\ New(k).tag = "ExifImageHeight" => New(k).value = h
    <3>1. PICK c \in TagType : c = m.sub[k]
      BY <1>2, <2>2
    <3>2. c.tag \in {"ExifImageWidth", "ExifImageHeight", "ColorSpace"}
      BY DEF TagType
    <3>3. [c EXCEPT !.value = w] \in TagType /\ [c EXCEPT !.value = h] \in TagType
      BY DEF TagType
    <3>4. /\ [c EXCEPT !.value = w].tag = c.tag /\ [c EXCEPT !.value = w].value = w
          /\ [c EXCEPT !.value = h].tag = c.tag /\ [c EXCEPT !.value = h].value = h
      BY DEF TagType
    <3>5. CASE k > m.fits
      <4>1. ~ (k <= m.fits)
        BY <1>2, <3>5
      <4> QED
        BY <3>1, <3>5, <4>1
    <3>6. CASE ~ (k > m.fits) /\ c.tag = "ExifImageWidth"
      <4>1. New(k) = [c EXCEPT !.value = w]
        BY <3>1, <3>6
      <4> HIDE DEF New
      <4> QED
        BY <3>3, <3>4, <3>6, <4>1
    <3>7. CASE ~ (k > m.fits) /\ c.tag = "ExifImageHeight"
      <4>1. New(k) = [c EXCEPT !.value = h]
        BY <3>1, <3>7
      <4> HIDE DEF New
      <4> QED
        BY <3>3, <3>4, <3>7, <4>1
    <3>8. CASE ~ (k > m.fits) /\ c.tag = "ColorSpace"
      <4>1. New(k) = c
        BY <3>1, <3>8
      <4> HIDE DEF New
      <4> QED
        BY <3>8, <4>1
    <3> QED
      BY <3>2, <3>5, <3>6, <3>7, <3>8
  <2>4. sub = [k \in 1 .. len |-> New(k)]
    BY <2>2
  <2> HIDE DEF New
  <2>5. sub \in Seq(TagType) /\ Len(sub) = len /\ \A k \in 1 .. len : sub[k] = New(k)
    BY <2>3, <2>4
  <2> HIDE DEF sub
  <2>6. n \in MarkerType /\ n.sub = sub /\ n.fits = m.fits /\ n.kind = m.kind
    <3>1. PICK s \in Seq(TagType) : s = sub
      BY <2>5
    <3> QED
      BY <1>1, <2>1, <3>1 DEF MarkerType
  <2>7. n \in FittingMarker
    BY <1>1, <2>2, <2>5, <2>6 DEF FittingMarker
  <2>8. \A k \in 1 .. n.fits : k \in 1 .. len /\ k <= m.fits /\ n.sub[k] = New(k)
    BY <1>1, <1>2, <2>2, <2>5, <2>6
  <2> QED
    BY <2>3, <2>6, <2>7, <2>8 DEF NamesSize
<1> QED
  BY <1>3, <1>4

LEMMA InitInv ==
  ASSUME Init
  PROVE  IInv
<1> USE DEF Init
<1>1. Read
  <2>1. src \in [space : {"YCbCr", "RGB", "GRAY"}, comps : Seq(ComponentType),
                 w : Nat \ {0}, h : Nat \ {0}, reused : BOOLEAN, markers : Seq(MarkerType)]
        /\ src.comps # <<>>
        /\ \A k \in DOMAIN src.markers : src.markers[k].fits <= Len(src.markers[k].sub)
    BY SourcesAssumption
  <2>2. src.markers \in Seq(FittingMarker)
    BY <2>1 DEF FittingMarker
  <2>3. src \in PictureType
    BY <2>1, <2>2 DEF PictureType
  <2>4. opt \in OptionType
    BY OptionsAssumption DEF OptionType
  <2> QED
    BY <2>1, <2>3, <2>4 DEF Read
<1>2. Requested
  BY DEF Requested, AfterRequest
<1>3. Adjusted
  BY DEF Adjusted, AfterAdjust
<1>4. Copied
  BY DEF Copied
<1>5. Executed
  BY DEF Executed, SourceArrays
<1> QED
  BY <1>1, <1>2, <1>3, <1>4, <1>5 DEF IInv

LEMMA ParseSwitchesInv ==
  ASSUME IInv, ParseSwitches
  PROVE  IInv'
<1> USE DEF ParseSwitches
<1>0. SameSource
  BY DEF SameSource
<1>1. Read'
  BY DEF IInv, Read
<1>2. Requested'
  BY <1>0, SameRequest DEF Requested, AfterRequest, Asked
<1>3. Adjusted'
  BY DEF Adjusted, AfterAdjust
<1>4. Copied'
  BY DEF Copied
<1>5. Executed'
  BY <1>0, SameArrays DEF IInv, Executed
<1> QED
  BY <1>1, <1>2, <1>3, <1>4, <1>5 DEF IInv

LEMMA ReadHeaderInv ==
  ASSUME IInv, ReadHeader
  PROVE  IInv'
<1> USE DEF ReadHeader
<1>1. Read'
  <2>1. src \in PictureType /\ opt \in OptionType /\ src.comps # <<>>
    BY DEF IInv, Read
  <2>2. src.markers \in Seq(FittingMarker)
    BY <2>1 DEF PictureType
  <2>3. PICK m \in Seq(FittingMarker) : m = Saved(src.markers, opt.copy)
    <3>1. FittingMarker \in SUBSET MarkerType
      BY DEF FittingMarker
    <3>2. OfKind(src.markers, {"COM"}) \in Seq(FittingMarker)
      BY <2>2, <3>1, OfKindType
    <3>3. <<>> \in Seq(FittingMarker)
      OBVIOUS
    <3>4. opt.copy \in {"ALL", "COMMENTS", "NONE"}
      BY <2>1 DEF OptionType
    <3> QED
      BY <2>2, <3>2, <3>3, <3>4 DEF Saved
  <2>4. src' = [src EXCEPT !.markers = m]
    BY <2>3
  <2>5. src' \in PictureType /\ src'.comps = src.comps
    BY <2>1, <2>4 DEF PictureType
  <2> QED
    BY <2>1, <2>5 DEF Read
<1>0. SameSource
  BY DEF SameSource, IInv, Read, PictureType
<1>2. Requested'
  BY <1>0, SameRequest DEF IInv, Requested, AfterRequest
<1>3. Adjusted'
  BY DEF Adjusted, AfterAdjust
<1>4. Copied'
  BY DEF Copied
<1>5. Executed'
  BY <1>0, SameArrays DEF IInv, Executed
<1> QED
  BY <1>1, <1>2, <1>3, <1>4, <1>5 DEF IInv

LEMMA RequestWorkspaceInv ==
  ASSUME IInv, RequestWorkspace
  PROVE  IInv'
<1> USE DEF RequestWorkspace
<1>0. SameSource
  BY DEF SameSource
<1>1. Read'
  BY DEF IInv, Read
<1>2. info = Asked /\ Asked.ok
  BY DEF IInv, Requested
<1>3. opt.perfect /\ ~ Perfect => phase' = "imperfect"
  BY DEF Perfect
<1>4. ~ (opt.perfect /\ ~ Perfect) /\ ~ (RegionX.ok /\ RegionY.ok) => phase' = "bad crop"
  BY <1>2, Zenon DEF Perfect, RegionX, RegionY
<1>5. ASSUME ~ (opt.perfect /\ ~ Perfect), RegionX.ok, RegionY.ok
      PROVE  /\ phase' = "adjust"
             /\ info' = Information
             /\ work' = IF NeedsWorkspace(opt.transform, RegionX.offset, RegionY.offset)
                        THEN [ci \in 1 .. num_components |-> Workspace(ci, WidthOut, HeightOut)]
                        ELSE <<>>
  BY <1>2, <1>5, Zenon DEF Perfect, RegionX, RegionY, WidthOut, HeightOut, Information
<1>6. Requested'
  <2>1. ASSUME ~ (opt.perfect /\ ~ Perfect), RegionX.ok, RegionY.ok
        PROVE  work' = WorkArrays'
    <3>1. info'.w = WidthOut /\ info'.h = HeightOut /\ info'.x = RegionX.offset
          /\ info'.y = RegionY.offset
      BY <1>5, <2>1 DEF Information
    <3> QED
      BY <1>0, <1>5, <2>1, <3>1, SameWorkspace
  <2>2. Asked' = Asked /\ Perfect' = Perfect /\ RegionX' = RegionX /\ RegionY' = RegionY
        /\ Information' = Information
    BY <1>0, SameRequest
  <2> QED
    BY <1>2, <1>3, <1>4, <1>5, <2>1, <2>2 DEF SameSource, Requested, AfterRequest
<1>7. Adjusted'
  BY <1>3, <1>4, <1>5 DEF Adjusted, AfterAdjust
<1>8. Copied'
  BY DEF Copied
<1>9. Executed'
  BY <1>0, SameArrays DEF IInv, Executed
<1> QED
  BY <1>1, <1>6, <1>7, <1>8, <1>9 DEF IInv

\* Sizes are numbers.
SizesKnown == info.w \in Nat /\ info.h \in Nat

LEMMA AdjustInv ==
  ASSUME IInv, Adjust, SizesKnown
  PROVE  IInv'
<1> DEFINE Errors == {"quant table mismatch", "not implemented"}
           m == src.markers[1]
<1>1. /\ phase = "adjust" /\ UNCHANGED <<opt, info, coefs, work, out>>
      /\ \/ phase' \in Errors /\ UNCHANGED <<src, dst>>
         \/ /\ phase' = "write" /\ (opt.gray => grayscale)
            /\ dst' = OutputParameters
            /\ src' = IF LeadingExif /\ <<info.w, info.h>> # <<src.w, src.h>>
                      THEN [src EXCEPT !.markers[1] = adjust_exif_parameters(@, info.w, info.h)]
                      ELSE src
  BY Zenon DEF Adjust, OutputParameters
<1>2. src \in PictureType /\ src.comps # <<>> /\ opt \in OptionType
  BY DEF IInv, Read
<1>3. src.markers \in Seq(FittingMarker)
  BY <1>2 DEF PictureType
<1>4. CASE phase' \in Errors
  <2>1. SameSource
    BY <1>1, <1>4 DEF SameSource
  <2>2. UNCHANGED <<src, dst, info>>
    BY <1>1, <1>4
  <2>3. Read' /\ Requested' /\ Adjusted' /\ Copied'
    BY <1>1, <1>2, <1>4, <2>2 DEF Read, Requested, Adjusted, Copied, AfterRequest, AfterAdjust
  <2>4. Executed'
    BY <1>1, <1>4, <2>1, SameArrays DEF IInv, Executed
  <2> QED
    BY <2>3, <2>4 DEF IInv
<1>5. CASE phase' = "write"
  <2>0. \/ LeadingExif /\ <<info.w, info.h>> # <<src.w, src.h>>
        \/ ~ (LeadingExif /\ <<info.w, info.h>> # <<src.w, src.h>>)
    OBVIOUS
  <2>1. /\ src' \in PictureType /\ SameSource /\ LeadingExif' = LeadingExif /\ ExifNamesSize'
        /\ src'.comps = src.comps
    <3>1. CASE ~ (LeadingExif /\ <<info.w, info.h>> # <<src.w, src.h>>)
      <4>1. src' = src /\ info' = info /\ opt' = opt
        BY <1>1, <1>5, <3>1
      <4> QED
        BY <1>2, <3>1, <4>1 DEF SameSource, LeadingExif, ExifNamesSize
    <3>2. CASE LeadingExif /\ <<info.w, info.h>> # <<src.w, src.h>>
      <4>1. src.markers # <<>> /\ Head(src.markers).kind = "Exif"
        BY <3>2 DEF LeadingExif
      <4>2. Len(src.markers) \in Nat \ {0} /\ m \in FittingMarker /\ m = Head(src.markers)
        BY <1>3, <4>1
      <4>3. PICK n : n = adjust_exif_parameters(m, info.w, info.h)
        OBVIOUS
      <4>4. n \in FittingMarker /\ n.kind = m.kind /\ NamesSize(n, info.w, info.h)
        <5>1. PICK c \in FittingMarker : c = m
          BY <4>2
        <5>2. PICK w \in Nat, h \in Nat : w = info.w /\ h = info.h
          BY DEF SizesKnown
        <5>3. n = adjust_exif_parameters(c, w, h)
          BY <4>3, <5>1, <5>2
        <5>4. n \in FittingMarker /\ n.kind = c.kind /\ NamesSize(n, w, h)
          BY ONLY c \in FittingMarker, w \in Nat, h \in Nat, <5>3, MarkersFit, Zenon
        <5> QED
          BY <5>1, <5>2, <5>4
      <4>5. PICK ms \in Seq(FittingMarker) : ms = [src.markers EXCEPT ![1] = n]
        <5>1. 1 \in 1 .. Len(src.markers)
          BY <4>2
        <5> QED
          BY <1>3, <4>4, <5>1, ExceptSeq
      <4>6. ms[1] = n /\ ms # <<>> /\ Head(ms) = n
        BY <1>3, <4>2, <4>5
      <4>7. src' = [src EXCEPT !.markers = ms]
        BY <1>1, <1>2, <1>5, <3>2, <4>3, <4>5 DEF PictureType
      <4>8. src' \in PictureType /\ src'.comps = src.comps /\ SameSource /\ src'.markers = ms
        BY <1>1, <1>2, <4>5, <4>7 DEF PictureType, SameSource
      <4>9. LeadingExif' = LeadingExif
        BY <3>2, <4>1, <4>2, <4>4, <4>6, <4>8 DEF LeadingExif
      <4>10. ExifNamesSize'
        BY <1>1, <4>4, <4>6, <4>8 DEF ExifNamesSize
      <4> QED
        BY <4>8, <4>9, <4>10
    <3> QED
      BY <3>1, <3>2
  <2>2. Read'
    BY <1>1, <1>2, <2>1 DEF Read
  <2>3. Requested'
    <3>1. /\ Asked' = Asked /\ Perfect' = Perfect /\ RegionX' = RegionX /\ RegionY' = RegionY
          /\ Information' = Information
      BY <2>1, SameRequest
    <3>2. WorkArrays' = WorkArrays
      BY <1>1, <2>1, SameWorkspace DEF WorkArrays
    <3> QED
      BY <1>1, <1>5, <3>1, <3>2 DEF IInv, Requested, AfterRequest
  <2>4. Adjusted'
    <3>1. OutputParameters' = OutputParameters
      BY <1>1, <2>1, SameParameters
    <3>2. grayscale' = grayscale
      BY <2>1 DEF SameSource, grayscale
    <3> QED
      BY <1>1, <1>5, <2>1, <3>1, <3>2 DEF Adjusted
  <2>5. Copied'
    BY <1>5 DEF Copied
  <2>6. Executed'
    BY <1>1, <1>5, <2>1, SameArrays DEF IInv, Executed
  <2> QED
    BY <2>2, <2>3, <2>4, <2>5, <2>6 DEF IInv
<1> QED
  BY <1>1, <1>4, <1>5

\* The last three steps change neither the source nor what has been decided.
LEMMA DecidedStays ==
  ASSUME IInv, UNCHANGED <<src, opt, info, dst>>, phase \in AfterAdjust, phase' \in AfterAdjust,
         phase # "done", phase' # "done" => work' = work
  PROVE  Read' /\ Requested' /\ Adjusted'
<1>0. SameSource
  BY DEF SameSource
<1>1. Read'
  BY DEF IInv, Read
<1>2. /\ Asked' = Asked /\ Perfect' = Perfect /\ RegionX' = RegionX /\ RegionY' = RegionY
      /\ Information' = Information
  BY <1>0, SameRequest
<1>3. WorkArrays' = WorkArrays
  BY <1>0, SameWorkspace DEF WorkArrays
<1>4. Requested'
  <2>1. Asked.ok /\ (opt.perfect => Perfect) /\ RegionX.ok /\ RegionY.ok /\ info = Information
        /\ (phase # "done" => work = WorkArrays)
    BY DEF IInv, Requested, AfterRequest, AfterAdjust
  <2>2. phase' # "done" => work' = WorkArrays'
    BY <1>3, <2>1
  <2>3. phase' \in AfterRequest /\ phase' \notin {"header", "request"}
    BY DEF AfterRequest, AfterAdjust
  <2> QED
    BY <1>2, <2>1, <2>2, <2>3 DEF Requested
<1>5. LeadingExif' = LeadingExif /\ ExifNamesSize' = ExifNamesSize /\ grayscale' = grayscale
  BY DEF LeadingExif, ExifNamesSize, grayscale
<1>6. OutputParameters' = OutputParameters
  BY <1>0, <1>5, SameParameters
<1>7. Adjusted'
  BY <1>5, <1>6 DEF IInv, Adjusted, AfterAdjust
<1> QED
  BY <1>1, <1>4, <1>7

LEMMA WriteCoefficientsInv ==
  ASSUME IInv, WriteCoefficients
  PROVE  IInv'
<1> USE DEF WriteCoefficients
<1>1. Read' /\ Requested' /\ Adjusted'
  BY DecidedStays DEF AfterAdjust
<1>2. Copied'
  BY DEF Copied, FileStart
<1>3. Executed'
  BY SameArrays DEF SameSource, IInv, Executed
<1> QED
  BY <1>1, <1>2, <1>3 DEF IInv

LEMMA CopyMarkersInv ==
  ASSUME IInv, CopyMarkers
  PROVE  IInv'
<1> USE DEF CopyMarkers
<1>1. Read' /\ Requested' /\ Adjusted'
  BY DecidedStays DEF AfterAdjust
<1>2. Copied'
  <2>1. FileStart' = FileStart /\ CopiedKinds' = CopiedKinds
    BY DEF FileStart, CopiedKinds
  <2>2. out' = FileStart \o OfKind(src.markers, CopiedKinds)
    BY DEF IInv, Copied, CopiedKinds
  <2> QED
    BY <2>1, <2>2 DEF Copied
<1>3. Executed'
  BY SameArrays DEF SameSource, IInv, Executed
<1> QED
  BY <1>1, <1>2, <1>3 DEF IInv

LEMMA ExecuteTransformInv ==
  ASSUME IInv, ExecuteTransform
  PROVE  IInv'
<1>1. /\ phase = "execute" /\ phase' = "done" /\ UNCHANGED <<src, opt, info, dst, out>>
      /\ coefs = SourceArrays /\ work = WorkArrays
  BY DEF ExecuteTransform, IInv, Executed, Requested, AfterRequest
<1>2. Read' /\ Requested' /\ Adjusted'
  BY <1>1, DecidedStays DEF AfterAdjust
<1>3. Copied'
  <2>1. FileStart' = FileStart /\ CopiedKinds' = CopiedKinds
    BY <1>1 DEF FileStart, CopiedKinds
  <2> QED
    BY <1>1, <2>1 DEF IInv, Copied
<1>4. SourceArrays' = SourceArrays /\ WorkArrays' = WorkArrays
  BY <1>1, SameArrays, SameWorkspace DEF SameSource, WorkArrays
<1>5. Left' = Left /\ InPlace' = InPlace /\ ~ (Left /\ InPlace)
  BY <1>1 DEF Left, InPlace
<1>6. ASSUME Left PROVE UNCHANGED <<coefs, work>>
  BY <1>6 DEF ExecuteTransform, Left
<1>7. ASSUME InPlace
      PROVE  coefs' = [ci \in DOMAIN src.comps |-> FlippedArray(ci)] /\ work' = work
  <2>1. DOMAIN coefs = DOMAIN src.comps
    BY <1>1 DEF SourceArrays
  <2> QED
    BY <1>1, <1>7, <2>1 DEF ExecuteTransform, InPlace, FlippedArray
<1>8. ASSUME ~ Left, ~ InPlace
      PROVE  coefs' = coefs /\ work' = [ci \in DOMAIN dst.comps |-> MovedArray(ci)]
  BY <1>1, <1>8 DEF ExecuteTransform, Left, InPlace, MovedArray
<1>9. Executed'
  BY <1>1, <1>4, <1>5, <1>6, <1>7, <1>8, SameMoves DEF Executed
<1> QED
  BY <1>2, <1>3, <1>9 DEF IInv

(***************************************************************************)
(* What has been decided about the two axes of the picture.                *)
(***************************************************************************)
LEMMA AxesKnown ==
  ASSUME Read
  PROVE  /\ num_components \in Nat \ {0}
         /\ full_width \in Nat \ {0} /\ full_height \in Nat \ {0}
         /\ mcu_width \in {2, 4, 6, 8} /\ mcu_height \in {2, 4, 6, 8}
         /\ iMCU_sample_width \in {2, 4, 6, 8} /\ iMCU_sample_height \in {2, 4, 6, 8}
<1>1. src.w \in Nat \ {0} /\ src.h \in Nat \ {0} /\ src.comps \in Seq(ComponentType)
      /\ src.comps # <<>>
  BY DEF Read, PictureType
<1>2. num_components \in Nat \ {0}
  BY <1>1 DEF num_components
<1>3. full_width \in Nat \ {0} /\ full_height \in Nat \ {0}
  BY <1>1 DEF full_width, full_height
<1>4. max_h(src.comps) \in 1 .. 4 /\ max_v(src.comps) \in 1 .. 4
  BY <1>1, MaxFactors
<1>5. mcu_width \in {2, 4, 6, 8} /\ mcu_height \in {2, 4, 6, 8}
  BY <1>4 DEF mcu_width, mcu_height, DCTSIZE
<1> QED
  BY <1>2, <1>3, <1>5 DEF iMCU_sample_width, iMCU_sample_height

LEMMA RegionsHold ==
  ASSUME Read, Asked.ok, RegionX.ok, RegionY.ok
  PROVE  /\ RegionHolds(RegionX, full_width, iMCU_sample_width,
                        opt.crop # <<>> /\ Asked.w.set = "FORCE")
         /\ RegionHolds(RegionY, full_height, iMCU_sample_height,
                        opt.crop # <<>> /\ Asked.h.set = "FORCE")
<1>1. opt.crop \in Seq(Int)
  BY DEF Read, OptionType
<1>2. PICK a : a = Asked
  OBVIOUS
<1>3. /\ a.w.value \in Nat /\ a.w.set \in {"UNSET", "POS", "FORCE"}
      /\ a.h.value \in Nat /\ a.h.set \in {"UNSET", "POS", "FORCE"}
      /\ a.x.value \in Nat /\ a.x.set \in {"UNSET", "POS", "NEG"}
      /\ a.y.value \in Nat /\ a.y.set \in {"UNSET", "POS", "NEG"}
  <2>1. a = jtransform_parse_crop_spec(opt.crop) /\ a.ok
    BY <1>2 DEF Asked
  <2> QED
    BY <1>1, <2>1, AskedIsSane
<1>4. PICK fw \in Nat \ {0}, fh \in Nat \ {0} : fw = full_width /\ fh = full_height
  BY AxesKnown
<1>5. PICK iw \in {2, 4, 6, 8}, ih \in {2, 4, 6, 8} :
        iw = iMCU_sample_width /\ ih = iMCU_sample_height
  BY AxesKnown
<1>6. CASE opt.crop = <<>>
  <2>1. RegionX = Uncropped(fw) /\ RegionY = Uncropped(fh)
    BY <1>4, <1>6 DEF RegionX, RegionY, Region
  <2>2. RegionHolds(Uncropped(fw), fw, iw, FALSE) /\ RegionHolds(Uncropped(fh), fh, ih, FALSE)
    BY UncroppedHolds
  <2> QED
    BY <1>4, <1>5, <1>6, <2>1, <2>2 DEF RegionHolds
<1>7. CASE opt.crop # <<>>
  <2>1. PICK x : x = Cropped(fw, iw, a.w, a.x)
    OBVIOUS
  <2>2. PICK y : y = Cropped(fh, ih, a.h, a.y)
    OBVIOUS
  <2>3. RegionX = x /\ RegionY = y
    BY <1>2, <1>4, <1>5, <1>7, <2>1, <2>2 DEF RegionX, RegionY, Region
  <2>4. x.ok /\ y.ok
    BY <2>3
  <2>5. RegionHolds(x, fw, iw, a.w.set = "FORCE")
    BY <1>3, <2>1, <2>4, CroppedHolds
  <2>6. RegionHolds(y, fh, ih, a.h.set = "FORCE")
    BY <1>3, <2>2, <2>4, CroppedHolds
  <2> QED
    BY <1>2, <1>4, <1>5, <1>7, <2>3, <2>5, <2>6 DEF RegionHolds
<1> QED
  BY <1>6, <1>7

\* The size of the output along an axis.
OutputHolds(size, r, full, imcu, trims) ==
  /\ size \in Nat \ {0} /\ size <= r.size /\ size > r.size - imcu
  /\ ~ trims => size = r.size
  /\ trims => size < imcu \/ r.offset * imcu + size <= (full \div imcu) * imcu

LEMMA OutputSizeHolds ==
  ASSUME NEW full \in Nat \ {0}, NEW imcu \in {2, 4, 6, 8}, NEW forced, NEW r,
         RegionHolds(r, full, imcu, forced), NEW mirrors,
         NEW t, t = OutputSize(r, mirrors, full, imcu)
  PROVE  OutputHolds(t, r, full, imcu, opt.trim /\ opt.transform \in mirrors)
<1>1. r.size \in Nat \ {0} /\ r.offset \in Nat /\ r.offset * imcu + r.size <= full
  BY DEF RegionHolds
<1>2. CASE opt.trim /\ opt.transform \in mirrors
  <2>1. t = Trimmed(r.size, r.offset, full, imcu)
    BY <1>2 DEF OutputSize
  <2>2. /\ t \in Nat \ {0} /\ t <= r.size /\ t > r.size - imcu
        /\ t < imcu \/ r.offset * imcu + t <= (full \div imcu) * imcu
    BY <1>1, <2>1, TrimmedHolds
  <2> QED
    BY <1>2, <2>2 DEF OutputHolds
<1>3. CASE ~ (opt.trim /\ opt.transform \in mirrors)
  <2>1. t = r.size
    BY <1>3 DEF OutputSize
  <2> QED
    BY <1>1, <1>3, <2>1 DEF OutputHolds
<1> QED
  BY <1>2, <1>3

LEMMA OutputsHold ==
  ASSUME Read, Asked.ok, RegionX.ok, RegionY.ok
  PROVE  /\ OutputHolds(WidthOut, RegionX, full_width, iMCU_sample_width,
                        opt.trim /\ opt.transform \in MirrorsRight)
         /\ OutputHolds(HeightOut, RegionY, full_height, iMCU_sample_height,
                        opt.trim /\ opt.transform \in MirrorsBottom)
<1>1. PICK fw \in Nat \ {0}, fh \in Nat \ {0} : fw = full_width /\ fh = full_height
  BY AxesKnown
<1>2. PICK iw \in {2, 4, 6, 8}, ih \in {2, 4, 6, 8} :
        iw = iMCU_sample_width /\ ih = iMCU_sample_height
  BY AxesKnown
<1>3. PICK x, y, w, h : x = RegionX /\ y = RegionY /\ w = WidthOut /\ h = HeightOut
  OBVIOUS
<1>4. PICK p : RegionHolds(x, fw, iw, p)
  BY <1>1, <1>2, <1>3, RegionsHold
<1>5. PICK q : RegionHolds(y, fh, ih, q)
  BY <1>1, <1>2, <1>3, RegionsHold
<1>6. w = OutputSize(x, MirrorsRight, fw, iw) /\ h = OutputSize(y, MirrorsBottom, fh, ih)
  BY <1>1, <1>2, <1>3 DEF WidthOut, HeightOut
<1>7. OutputHolds(w, x, fw, iw, opt.trim /\ opt.transform \in MirrorsRight)
  BY <1>4, <1>6, OutputSizeHolds
<1>8. OutputHolds(h, y, fh, ih, opt.trim /\ opt.transform \in MirrorsBottom)
  BY <1>5, <1>6, OutputSizeHolds
<1> QED
  BY <1>1, <1>2, <1>3, <1>7, <1>8

LEMMA SizesAreKnown ==
  ASSUME IInv, phase \in AfterRequest
  PROVE  SizesKnown
<1>1. Read /\ Asked.ok /\ RegionX.ok /\ RegionY.ok /\ info = Information
  BY DEF IInv, Requested
<1>2. WidthOut \in Nat /\ HeightOut \in Nat
  BY <1>1, OutputsHold DEF OutputHolds
<1> QED
  BY <1>1, <1>2 DEF SizesKnown, Information

LEMMA Invariance == Spec => []IInv
<1>1. Init => IInv
  BY InitInv
<1>2. IInv /\ [Next]_vars => IInv'
  <2> SUFFICES ASSUME IInv, [Next]_vars PROVE IInv'
    OBVIOUS
  <2>1. CASE ParseSwitches
    BY <2>1, ParseSwitchesInv
  <2>2. CASE ReadHeader
    BY <2>2, ReadHeaderInv
  <2>3. CASE RequestWorkspace
    BY <2>3, RequestWorkspaceInv
  <2>4. CASE Adjust
    <3>1. SizesKnown
      BY <2>4, SizesAreKnown DEF Adjust, AfterRequest
    <3> QED
      BY <2>4, <3>1, AdjustInv
  <2>5. CASE WriteCoefficients
    BY <2>5, WriteCoefficientsInv
  <2>6. CASE CopyMarkers
    BY <2>6, CopyMarkersInv
  <2>7. CASE ExecuteTransform
    BY <2>7, ExecuteTransformInv
  <2>8. CASE UNCHANGED vars
    <3>1. UNCHANGED <<phase, src, opt, info, coefs, work, dst, out>>
      BY <2>8 DEF vars
    <3>2. SameSource
      BY <3>1 DEF SameSource
    <3>3. Read'
      BY <3>1 DEF IInv, Read
    <3>4. /\ Asked' = Asked /\ Perfect' = Perfect /\ RegionX' = RegionX /\ RegionY' = RegionY
          /\ Information' = Information
      BY <3>2, SameRequest
    <3>5. WorkArrays' = WorkArrays /\ SourceArrays' = SourceArrays
      BY <3>1, <3>2, SameWorkspace, SameArrays DEF WorkArrays
    <3>6. Requested'
      BY <3>1, <3>4, <3>5 DEF IInv, Requested
    <3>7. LeadingExif' = LeadingExif /\ ExifNamesSize' = ExifNamesSize /\ grayscale' = grayscale
      BY <3>1 DEF LeadingExif, ExifNamesSize, grayscale
    <3>8. OutputParameters' = OutputParameters
      BY <3>1, <3>2, <3>7, SameParameters
    <3>9. Adjusted'
      BY <3>1, <3>7, <3>8 DEF IInv, Adjusted
    <3>10. FileStart' = FileStart /\ CopiedKinds' = CopiedKinds
      BY <3>1 DEF FileStart, CopiedKinds
    <3>11. Copied'
      BY <3>1, <3>10 DEF IInv, Copied
    <3>12. Left' = Left /\ InPlace' = InPlace
      BY <3>1 DEF Left, InPlace
    <3>13. Executed'
      BY <3>1, <3>5, <3>12, SameMoves DEF IInv, Executed
    <3> QED
      BY <3>3, <3>6, <3>9, <3>11, <3>13 DEF IInv
  <2> QED
    BY <2>1, <2>2, <2>3, <2>4, <2>5, <2>6, <2>7, <2>8 DEF Next
<1> QED
  BY <1>1, <1>2, PTL DEF Spec

(***************************************************************************)
(* The parameters of the output.                                           *)
(***************************************************************************)
LEMMA OutputKnown ==
  ASSUME IInv, phase \in AfterAdjust
  PROVE  /\ dst.w = info.w /\ dst.h = info.h
         /\ dst.jfif = ((opt.gray \/ src.space # "RGB") /\ ~ LeadingExif)
         /\ dst.adobe = (~ opt.gray /\ src.space = "RGB")
         /\ info = Information
         /\ Read /\ Asked.ok /\ RegionX.ok /\ RegionY.ok /\ (opt.perfect => Perfect)
<1>1. dst = OutputParameters
  BY DEF IInv, Adjusted
<1>2. info = Information /\ Read /\ Asked.ok /\ RegionX.ok /\ RegionY.ok
      /\ (opt.perfect => Perfect)
  BY DEF IInv, Requested, AfterAdjust, AfterRequest
<1>3. /\ Parameters.w = info.w /\ Parameters.h = info.h
      /\ Parameters.jfif = (opt.gray \/ src.space # "RGB")
      /\ Parameters.adobe = (~ opt.gray /\ src.space = "RGB")
      /\ DOMAIN Parameters = {"w", "h", "quant", "comps", "jfif", "adobe"}
  BY DEF Parameters
<1>4. PICK p : p = Parameters
  OBVIOUS
<1>5. PICK q : q = IF transpose_it THEN TransposedParameters(p) ELSE p
  OBVIOUS
<1>6. /\ q.w = p.w /\ q.h = p.h /\ q.jfif = p.jfif /\ q.adobe = p.adobe
      /\ DOMAIN q = {"w", "h", "quant", "comps", "jfif", "adobe"}
  BY <1>3, <1>4, <1>5 DEF TransposedParameters
<1>7. dst = [q EXCEPT !.jfif = @ /\ ~ LeadingExif]
  BY <1>1, <1>4, <1>5 DEF OutputParameters
<1>8. /\ dst.w = q.w /\ dst.h = q.h /\ dst.jfif = (q.jfif /\ ~ LeadingExif) /\ dst.adobe = q.adobe
  BY <1>6, <1>7
<1> QED
  BY <1>2, <1>3, <1>4, <1>6, <1>8

\* transupp.h and -trim: no strip is left that is not mirrored with the rest, for every
\* size of a picture, every sampling and every crop.
THEOREM NoStrips == Spec => []NoStripIsLeft
<1>1. ASSUME IInv PROVE NoStripIsLeft
  <2> SUFFICES ASSUME phase = "done", opt.perfect \/ opt.trim
               PROVE  /\ opt.transform \in MirrorsRight =>
                           \/ dst.w < iMCU_sample_width
                           \/ info.x * iMCU_sample_width + dst.w
                                 <= (full_width \div iMCU_sample_width) * iMCU_sample_width
                      /\ opt.transform \in MirrorsBottom =>
                           \/ dst.h < iMCU_sample_height
                           \/ info.y * iMCU_sample_height + dst.h
                                 <= (full_height \div iMCU_sample_height) * iMCU_sample_height
    BY DEF NoStripIsLeft
  <2>1. phase \in AfterAdjust
    BY DEF AfterAdjust
  <2>2. /\ dst.w = WidthOut /\ dst.h = HeightOut /\ info.x = RegionX.offset
        /\ info.y = RegionY.offset
    BY <1>1, <2>1, OutputKnown DEF Information
  <2>3. Read /\ Asked.ok /\ RegionX.ok /\ RegionY.ok /\ (opt.perfect => Perfect)
    BY <1>1, <2>1, OutputKnown
  <2>4. PICK fw \in Nat \ {0}, fh \in Nat \ {0} : fw = full_width /\ fh = full_height
    BY <2>3, AxesKnown
  <2>5. PICK iw \in {2, 4, 6, 8}, ih \in {2, 4, 6, 8} :
          iw = iMCU_sample_width /\ ih = iMCU_sample_height
    BY <2>3, AxesKnown
  <2>6. PICK x, y : x = RegionX /\ y = RegionY
    OBVIOUS
  <2>7. /\ OutputHolds(dst.w, x, fw, iw, opt.trim /\ opt.transform \in MirrorsRight)
        /\ OutputHolds(dst.h, y, fh, ih, opt.trim /\ opt.transform \in MirrorsBottom)
    BY <2>2, <2>3, <2>4, <2>5, <2>6, OutputsHold
  <2>8. PICK p : RegionHolds(x, fw, iw, p)
    BY <2>3, <2>4, <2>5, <2>6, RegionsHold
  <2>9. PICK q : RegionHolds(y, fh, ih, q)
    BY <2>3, <2>4, <2>5, <2>6, RegionsHold
  <2>10. CASE opt.trim
    BY <2>2, <2>4, <2>5, <2>6, <2>7, <2>10 DEF OutputHolds
  <2>11. CASE opt.perfect /\ ~ opt.trim
    <3>1. dst.w \in Nat /\ dst.w <= x.size /\ dst.h \in Nat /\ dst.h <= y.size
      BY <2>7 DEF OutputHolds
    <3>2. x.offset * iw + x.size <= fw /\ y.offset * ih + y.size <= fh
          /\ x.offset \in Nat /\ y.offset \in Nat /\ x.size \in Nat /\ y.size \in Nat
      BY <2>8, <2>9 DEF RegionHolds
    <3>3. ASSUME NEW full \in Nat, NEW imcu \in {2, 4, 6, 8}, full % imcu = 0
          PROVE  full = (full \div imcu) * imcu
      BY <3>3
    <3>4. x.offset * iw \in Nat /\ y.offset * ih \in Nat
      BY <3>2
    <3>5. /\ opt.transform \in MirrorsRight => fw % iw = 0
          /\ opt.transform \in MirrorsBottom => fh % ih = 0
      BY <2>3, <2>4, <2>5, <2>11
      DEF Perfect, jtransform_perfect_transform, MirrorsRight, MirrorsBottom, Transposing,
          transpose_it, full_width, full_height, iMCU_sample_width, iMCU_sample_height
    <3>6. opt.transform \in MirrorsRight => x.offset * iw + dst.w <= (fw \div iw) * iw
      BY <3>1, <3>2, <3>3, <3>4, <3>5
    <3>7. opt.transform \in MirrorsBottom => y.offset * ih + dst.h <= (fh \div ih) * ih
      BY <3>1, <3>2, <3>3, <3>4, <3>5
    <3> QED
      BY <2>2, <2>4, <2>5, <2>6, <3>6, <3>7
  <2> QED
    BY <2>10, <2>11
<1> QED
  BY <1>1, Invariance, PTL

\* The crop region: the output begins less than an iMCU to the left of and above what
\* was asked for and ends where that ends, for every specification that is accepted.
THEOREM CropsShowRegion == Spec => []CropShowsRegion
<1>1. ASSUME IInv PROVE CropShowsRegion
  <2> DEFINE Shows(region, extent, size, offset, imcu, trims) ==
               /\ offset * imcu <= region.start /\ region.start < offset * imcu + imcu
               /\ extent # "FORCE" =>
                    \/ offset * imcu + size = region.start + region.wanted
                    \/ trims /\ offset * imcu + size > region.start + region.wanted - imcu
               /\ extent = "FORCE" /\ ~ trims => size = region.wanted
  <2> SUFFICES ASSUME phase = "done", opt.crop # <<>>
               PROVE  /\ Shows(info.region.x, Asked.w.set, dst.w, info.x, iMCU_sample_width,
                               opt.trim /\ opt.transform \in MirrorsRight)
                      /\ Shows(info.region.y, Asked.h.set, dst.h, info.y, iMCU_sample_height,
                               opt.trim /\ opt.transform \in MirrorsBottom)
    BY Zenon DEF CropShowsRegion, Asked
  <2>1. phase \in AfterAdjust
    BY DEF AfterAdjust
  <2>2. /\ dst.w = WidthOut /\ dst.h = HeightOut /\ info.x = RegionX.offset
        /\ info.y = RegionY.offset /\ info.region.x = RegionX /\ info.region.y = RegionY
    BY <1>1, <2>1, OutputKnown DEF Information
  <2>3. Read /\ Asked.ok /\ RegionX.ok /\ RegionY.ok
    BY <1>1, <2>1, OutputKnown
  <2>4. ASSUME NEW full, NEW imcu \in {2, 4, 6, 8}, NEW extent, NEW r, NEW size, NEW trims,
               RegionHolds(r, full, imcu, extent = "FORCE"), OutputHolds(size, r, full, imcu, trims)
        PROVE  Shows(r, extent, size, r.offset, imcu, trims)
    <3>1. PICK o \in Nat : o = r.offset * imcu
      BY <2>4 DEF RegionHolds
    <3>2. /\ o <= r.start /\ r.start < o + imcu /\ r.start \in Nat /\ r.wanted \in Nat
          /\ r.size \in Nat /\ (extent # "FORCE" => o + r.size = r.start + r.wanted)
          /\ (extent = "FORCE" => r.size = r.wanted)
      BY <2>4, <3>1 DEF RegionHolds
    <3>3. size \in Nat /\ size <= r.size /\ size > r.size - imcu /\ (~ trims => size = r.size)
      BY <2>4 DEF OutputHolds
    <3>4. CASE trims
      <4>1. extent # "FORCE" => o + size > r.start + r.wanted - imcu
        BY <3>2, <3>3
      <4> QED
        BY <3>1, <3>2, <3>4, <4>1, Zenon
    <3>5. CASE ~ trims
      BY <3>1, <3>2, <3>3, <3>5
    <3> QED
      BY <3>4, <3>5
  <2> HIDE DEF Shows
  <2>5. PICK iw \in {2, 4, 6, 8}, ih \in {2, 4, 6, 8} :
          iw = iMCU_sample_width /\ ih = iMCU_sample_height
    BY <2>3, AxesKnown
  <2>6. PICK x, y, fw, fh : x = RegionX /\ y = RegionY /\ fw = full_width /\ fh = full_height
    OBVIOUS
  <2>7. PICK ew, eh : ew = Asked.w.set /\ eh = Asked.h.set
    OBVIOUS
  <2>8. RegionHolds(x, fw, iw, ew = "FORCE") /\ RegionHolds(y, fh, ih, eh = "FORCE")
    <3>1. (opt.crop # <<>> /\ Asked.w.set = "FORCE") = (ew = "FORCE")
      BY <2>7
    <3>2. (opt.crop # <<>> /\ Asked.h.set = "FORCE") = (eh = "FORCE")
      BY <2>7
    <3> QED
      BY <2>3, <2>5, <2>6, <3>1, <3>2, RegionsHold, Zenon
  <2>9. /\ OutputHolds(dst.w, x, fw, iw, opt.trim /\ opt.transform \in MirrorsRight)
        /\ OutputHolds(dst.h, y, fh, ih, opt.trim /\ opt.transform \in MirrorsBottom)
    BY <2>2, <2>3, <2>5, <2>6, OutputsHold
  <2>10. Shows(x, ew, dst.w, x.offset, iw, opt.trim /\ opt.transform \in MirrorsRight)
    BY <2>4, <2>8, <2>9, Zenon
  <2>11. Shows(y, eh, dst.h, y.offset, ih, opt.trim /\ opt.transform \in MirrorsBottom)
    BY <2>4, <2>8, <2>9, Zenon
  <2> QED
    BY <2>2, <2>5, <2>6, <2>7, <2>10, <2>11, Zenon
<1> QED
  BY <1>1, Invariance, PTL

\* jcopy_markers_execute(): no marker is doubled, none is lost, a leading Exif segment
\* stays the first of those copied and names the new size.
THEOREM MarkersCohere == Spec => []MarkersAreCoherent
<1>1. ASSUME IInv PROVE MarkersAreCoherent
  <2> SUFFICES ASSUME phase = "done"
               PROVE  /\ \A kind \in {"JFIF", "Adobe"} :
                           Len(OfKind(out, {kind})) \in {1, Len(OfKind(src.markers, {kind}))}
                      /\ Others(out) = Others(src.markers)
                      /\ LeadingExif =>
                           LET m == Head(Others(out)) IN
                           /\ ~ dst.jfif
                           /\ <<info.w, info.h>> # <<src.w, src.h>> /\ m.parses /\ Len(m.sub) > 1 =>
                                \A k \in 1 .. m.fits :
                                  /\ m.sub[k].tag = "ExifImageWidth" => m.sub[k].value = dst.w
                                  /\ m.sub[k].tag = "ExifImageHeight" => m.sub[k].value = dst.h
    BY Zenon DEF MarkersAreCoherent
  <2>1. phase \in AfterAdjust
    BY DEF AfterAdjust
  <2>2. src.markers \in Seq(MarkerType)
    <3>1. src.markers \in Seq(FittingMarker) /\ FittingMarker \subseteq MarkerType
      BY <1>1 DEF IInv, Read, PictureType, FittingMarker
    <3> QED
      BY <3>1, SeqMonotonic
  <2>3. PICK s \in Seq(MarkerType) : s = src.markers
    BY <2>2
  <2>4. out = FileStart \o OfKind(s, CopiedKinds)
    BY <1>1, <2>3 DEF IInv, Copied
  <2>5. Marker("JFIF") \in MarkerType /\ Marker("JFIF").kind = "JFIF"
        /\ Marker("Adobe") \in MarkerType /\ Marker("Adobe").kind = "Adobe"
    <3>1. <<>> \in Seq(TagType)
      OBVIOUS
    <3> QED
      BY <3>1 DEF Marker, MarkerType
  <2>6. PICK j \in MarkerType, a \in MarkerType :
          j = Marker("JFIF") /\ a = Marker("Adobe") /\ j.kind = "JFIF" /\ a.kind = "Adobe"
    BY <2>5
  <2>7. <<j>> \in Seq(MarkerType) /\ <<a>> \in Seq(MarkerType) /\ <<>> \in Seq(MarkerType)
    OBVIOUS
  <2>8. PICK first \in Seq(MarkerType) : first = IF dst.jfif THEN <<j>> ELSE <<>>
    BY <2>7
  <2>9. PICK second \in Seq(MarkerType) : second = IF dst.adobe THEN <<a>> ELSE <<>>
    BY <2>7
  <2>10. FileStart = first \o second
    BY <2>6, <2>8, <2>9 DEF FileStart
  \* The markers of some kinds in the output.
  <2>11. ASSUME NEW K
         PROVE  OfKind(out, K) = (OfKind(first, K) \o OfKind(second, K))
                               \o OfKind(s, CopiedKinds \cap K)
    <3>1. PICK c \in Seq(MarkerType) : c = OfKind(s, CopiedKinds)
      BY OfKindType
    <3>2. first \o second \in Seq(MarkerType)
      BY ConcatProperties
    <3>3. OfKind((first \o second) \o c, K) = OfKind(first \o second, K) \o OfKind(c, K)
      BY <3>2, OfKindConcat
    <3>4. OfKind(first \o second, K) = OfKind(first, K) \o OfKind(second, K)
      BY ONLY first \in Seq(MarkerType), second \in Seq(MarkerType), OfKindConcat
    <3>5. OfKind(OfKind(s, CopiedKinds), K) = OfKind(s, CopiedKinds \cap K)
      BY OfKindTwice
    <3> QED
      BY <2>4, <2>10, <3>1, <3>2, <3>3, <3>4, <3>5, Zenon
  <2>12. ASSUME NEW K
         PROVE  /\ OfKind(first, K) = IF dst.jfif /\ "JFIF" \in K THEN <<j>> ELSE <<>>
                /\ OfKind(second, K) = IF dst.adobe /\ "Adobe" \in K THEN <<a>> ELSE <<>>
    <3>1. OfKind(<<j>>, K) = IF "JFIF" \in K THEN <<j>> ELSE <<>>
      BY <2>6, OfKindOne, Zenon
    <3>2. OfKind(<<a>>, K) = IF "Adobe" \in K THEN <<a>> ELSE <<>>
      BY <2>6, OfKindOne, Zenon
    <3> QED
      BY <2>8, <2>9, <3>1, <3>2, OfKindEmpty, Zenon
  <2>13. Len(OfKind(out, {"JFIF"})) \in {1, Len(OfKind(src.markers, {"JFIF"}))}
    <3>1. OfKind(second, {"JFIF"}) = <<>>
      BY <2>12
    <3>2. CASE dst.jfif
      <4>1. OfKind(first, {"JFIF"}) = <<j>>
        BY <2>12, <3>2
      <4>2. CopiedKinds \cap {"JFIF"} = {}
        BY <3>2 DEF CopiedKinds
      <4>3. OfKind(s, CopiedKinds \cap {"JFIF"}) = <<>>
        BY <4>2, OfNoKind
      <4>4. (<<j>> \o <<>>) \o <<>> = <<j>> /\ Len(<<j>>) = 1
        OBVIOUS
      <4> QED
        BY <2>11, <3>1, <4>1, <4>3, <4>4
    <3>3. CASE ~ dst.jfif
      <4>1. OfKind(first, {"JFIF"}) = <<>>
        BY <2>12, <3>3
      <4>2. CopiedKinds \cap {"JFIF"} = {"JFIF"}
        BY <3>3 DEF CopiedKinds
      <4>3. PICK c \in Seq(MarkerType) : c = OfKind(s, {"JFIF"})
        BY OfKindType
      <4>4. (<<>> \o <<>>) \o c = c
        OBVIOUS
      <4> QED
        BY <2>3, <2>11, <3>1, <4>1, <4>2, <4>3, <4>4
    <3> QED
      BY <3>2, <3>3
  <2>14. Len(OfKind(out, {"Adobe"})) \in {1, Len(OfKind(src.markers, {"Adobe"}))}
    <3>1. OfKind(first, {"Adobe"}) = <<>>
      BY <2>12
    <3>2. CASE dst.adobe
      <4>1. OfKind(second, {"Adobe"}) = <<a>>
        BY <2>12, <3>2
      <4>2. CopiedKinds \cap {"Adobe"} = {}
        BY <3>2 DEF CopiedKinds
      <4>3. OfKind(s, CopiedKinds \cap {"Adobe"}) = <<>>
        BY <4>2, OfNoKind
      <4>4. (<<>> \o <<a>>) \o <<>> = <<a>> /\ Len(<<a>>) = 1
        OBVIOUS
      <4> QED
        BY <2>11, <3>1, <4>1, <4>3, <4>4
    <3>3. CASE ~ dst.adobe
      <4>1. OfKind(second, {"Adobe"}) = <<>>
        BY <2>12, <3>3
      <4>2. CopiedKinds \cap {"Adobe"} = {"Adobe"}
        BY <3>3 DEF CopiedKinds
      <4>3. PICK c \in Seq(MarkerType) : c = OfKind(s, {"Adobe"})
        BY OfKindType
      <4>4. (<<>> \o <<>>) \o c = c
        OBVIOUS
      <4> QED
        BY <2>3, <2>11, <3>1, <4>1, <4>2, <4>3, <4>4
    <3> QED
      BY <3>2, <3>3
  <2>15. Others(out) = Others(src.markers)
    <3>1. OfKind(first, {"Exif", "COM"}) = <<>> /\ OfKind(second, {"Exif", "COM"}) = <<>>
      BY <2>12
    <3>2. CopiedKinds \cap {"Exif", "COM"} = {"Exif", "COM"}
      BY DEF CopiedKinds
    <3>3. PICK c \in Seq(MarkerType) : c = OfKind(s, {"Exif", "COM"})
      BY OfKindType
    <3>4. (<<>> \o <<>>) \o c = c
      OBVIOUS
    <3> QED
      BY <2>3, <2>11, <3>1, <3>2, <3>3, <3>4 DEF Others
  <2>16. ASSUME LeadingExif
         PROVE  /\ ~ dst.jfif
                /\ Head(Others(out)) = src.markers[1]
    <3>1. s # <<>> /\ Head(s).kind = "Exif"
      BY <2>3, <2>16 DEF LeadingExif
    <3>2. Head(OfKind(s, {"Exif", "COM"})) = Head(s)
      BY <3>1, OfKindHead
    <3>3. Head(s) = s[1]
      BY <3>1
    <3>4. dst.jfif = ((opt.gray \/ src.space # "RGB") /\ ~ LeadingExif)
      BY <1>1, <2>1, OutputKnown
    <3> QED
      BY <2>3, <2>15, <2>16, <3>2, <3>3, <3>4 DEF Others
  <2>17. dst.w = info.w /\ dst.h = info.h /\ ExifNamesSize
    BY <1>1, <2>1, OutputKnown DEF IInv, Adjusted
  <2> QED
    BY <2>13, <2>14, <2>15, <2>16, <2>17 DEF ExifNamesSize, NamesSize
<1> QED
  BY <1>1, Invariance, PTL

(***************************************************************************)
(* The components of the output.                                           *)
(***************************************************************************)
LEMMA SameComponent ==
  ASSUME NEW c \in ComponentType, NEW d \in ComponentType, c.h = d.h, c.v = d.v, c.q = d.q
  PROVE  c = d
BY DEF ComponentType

LEMMA SwappedComponent ==
  ASSUME NEW c \in ComponentType
  PROVE  [c EXCEPT !.h = c.v, !.v = c.h] = [h |-> c.v, v |-> c.h, q |-> c.q]
<1>1. PICK a \in 1 .. 4, b \in 1 .. 4, k \in 0 .. 1 : a = c.h /\ b = c.v /\ k = c.q
  BY DEF ComponentType
<1>2. PICK d : d = [c EXCEPT !.h = b, !.v = a]
  OBVIOUS
<1>3. PICK e : e = [h |-> b, v |-> a, q |-> k]
  OBVIOUS
<1>4. d \in ComponentType /\ d.h = b /\ d.v = a /\ d.q = k
  BY <1>1, <1>2 DEF ComponentType
<1>5. e \in ComponentType /\ e.h = b /\ e.v = a /\ e.q = k
  BY <1>1, <1>3 DEF ComponentType
<1>6. d = e
  BY <1>4, <1>5, SameComponent
<1> QED
  BY <1>1, <1>2, <1>3, <1>6, Zenon

OutputComponent(ci) ==
  LET c == src.comps[ci]
  IN IF num_components = 1 THEN [h |-> 1, v |-> 1, q |-> c.q]
     ELSE IF transpose_it THEN [h |-> c.v, v |-> c.h, q |-> c.q] ELSE c

LEMMA ComponentsKnown ==
  ASSUME IInv, phase \in AfterAdjust
  PROVE  /\ dst.comps = [ci \in 1 .. num_components |-> OutputComponent(ci)]
         /\ dst.comps \in Seq(ComponentType) /\ Len(dst.comps) = num_components
         /\ dst.quant = IF transpose_it THEN [q \in 0 .. 1 |-> Transposed(QuantTable[q])]
                        ELSE QuantTable
         /\ num_components \in 1 .. Len(src.comps)
<1>1. dst = OutputParameters /\ (opt.gray => grayscale)
  BY DEF IInv, Adjusted
<1>2. info.num = num_components /\ Read
  BY OutputKnown DEF Information
<1>3. src.comps \in Seq(ComponentType) /\ src.comps # <<>>
  BY <1>2 DEF Read, PictureType
<1>4. PICK n \in Nat \ {0} : n = Len(src.comps) /\ DOMAIN src.comps = 1 .. n
  BY <1>3
<1>5. num_components \in {1, n} /\ (opt.gray => num_components = 1)
  BY <1>1, <1>4 DEF num_components, grayscale
<1>6. PICK cs : cs = IF opt.gray \/ num_components = 1 THEN <<[h |-> 1, v |-> 1, q |-> src.comps[1].q]>>
                     ELSE src.comps
  OBVIOUS
<1>7. \A ci \in 1 .. n : src.comps[ci] \in ComponentType
  BY <1>3, <1>4
<1>8. \A ci \in 1 .. num_components : OutputComponent(ci) \in ComponentType
  <2> SUFFICES ASSUME NEW ci \in 1 .. num_components PROVE OutputComponent(ci) \in ComponentType
    OBVIOUS
  <2>1. src.comps[ci] \in ComponentType
    BY <1>5, <1>7
  <2>2. PICK c \in ComponentType : c = src.comps[ci]
    BY <2>1
  <2>3. c.h \in 1 .. 4 /\ c.v \in 1 .. 4 /\ c.q \in 0 .. 1
    BY DEF ComponentType
  <2> QED
    BY <2>2, <2>3 DEF OutputComponent, ComponentType
<1>9. PICK out1 : out1 = [ci \in 1 .. num_components |-> OutputComponent(ci)]
  OBVIOUS
<1>10. out1 \in Seq(ComponentType) /\ Len(out1) = num_components
  BY <1>5, <1>8, <1>9
<1>11. cs = IF num_components = 1 THEN <<[h |-> 1, v |-> 1, q |-> src.comps[1].q]>> ELSE src.comps
  BY <1>5, <1>6
<1>12. DOMAIN cs = 1 .. num_components
  <2>1. \A x : DOMAIN <<x>> = 1 .. 1
    OBVIOUS
  <2>2. CASE num_components = 1
    BY <1>11, <2>1, <2>2
  <2>3. CASE num_components # 1
    BY <1>4, <1>5, <1>11, <2>3
  <2> QED
    BY <2>2, <2>3
<1>13. (IF transpose_it
        THEN [ci \in DOMAIN cs |-> [cs[ci] EXCEPT !.h = cs[ci].v, !.v = cs[ci].h]]
        ELSE cs) = out1
  <2>1. CASE num_components = 1
    <3>1. OutputComponent(1) = [h |-> 1, v |-> 1, q |-> src.comps[1].q]
      BY <2>1 DEF OutputComponent
    <3>2. cs = [ci \in 1 .. 1 |-> OutputComponent(ci)]
      BY <1>11, <2>1, <3>1
    <3>3. [OutputComponent(1) EXCEPT !.h = OutputComponent(1).v, !.v = OutputComponent(1).h]
            = OutputComponent(1)
      <4>1. PICK c \in ComponentType : c = OutputComponent(1)
        BY <1>8, <2>1
      <4>2. c.h = 1 /\ c.v = 1
        BY <3>1, <4>1
      <4>3. [c EXCEPT !.h = c.v, !.v = c.h] = c
        <5>1. PICK d : d = [h |-> c.v, v |-> c.h, q |-> c.q]
          OBVIOUS
        <5>2. d \in ComponentType /\ d.h = c.h /\ d.v = c.v /\ d.q = c.q
          BY <4>2, <5>1 DEF ComponentType
        <5>3. d = c
          BY <5>2, SameComponent
        <5> QED
          BY <5>1, <5>3, SwappedComponent
      <4> QED
        BY <4>1, <4>3
    <3> QED
      BY <1>9, <2>1, <3>2, <3>3
  <2>2. CASE num_components # 1 /\ ~ transpose_it
    <3>1. cs = src.comps
      BY <1>11, <2>2
    <3>2. \A ci \in 1 .. num_components : OutputComponent(ci) = src.comps[ci]
      BY <2>2 DEF OutputComponent
    <3> QED
      BY <1>3, <1>4, <1>5, <1>9, <2>2, <3>1, <3>2
  <2>3. CASE num_components # 1 /\ transpose_it
    <3>1. cs = src.comps
      BY <1>11, <2>3
    <3>2. ASSUME NEW ci \in 1 .. num_components
          PROVE  OutputComponent(ci) = [cs[ci] EXCEPT !.h = cs[ci].v, !.v = cs[ci].h]
      <4>1. PICK c \in ComponentType : c = src.comps[ci]
        BY <1>5, <1>7
      <4>2. [c EXCEPT !.h = c.v, !.v = c.h] = [h |-> c.v, v |-> c.h, q |-> c.q]
        BY SwappedComponent
      <4> QED
        BY <2>3, <3>1, <4>1, <4>2 DEF OutputComponent
    <3> QED
      BY <1>9, <1>12, <2>3, <3>2
  <2> QED
    BY <2>1, <2>2, <2>3
<1>14. /\ Parameters.comps = cs /\ Parameters.quant = QuantTable
       /\ DOMAIN Parameters = {"w", "h", "quant", "comps", "jfif", "adobe"}
  BY <1>2, <1>6 DEF Parameters
<1>15. PICK p : p = Parameters
  OBVIOUS
<1>16. PICK q : q = IF transpose_it THEN TransposedParameters(p) ELSE p
  OBVIOUS
<1>17. DOMAIN QuantTable = 0 .. 1
  BY DEF QuantTable
<1>18. /\ q.comps = out1
       /\ q.quant = IF transpose_it THEN [k \in 0 .. 1 |-> Transposed(QuantTable[k])] ELSE QuantTable
       /\ DOMAIN q = {"w", "h", "quant", "comps", "jfif", "adobe"}
  <2>1. CASE transpose_it
    <3>1. /\ q.comps = [ci \in DOMAIN cs |-> [cs[ci] EXCEPT !.h = cs[ci].v, !.v = cs[ci].h]]
          /\ q.quant = [k \in 0 .. 1 |-> Transposed(QuantTable[k])]
          /\ DOMAIN q = {"w", "h", "quant", "comps", "jfif", "adobe"}
      BY <1>14, <1>15, <1>16, <1>17, <2>1 DEF TransposedParameters
    <3> QED
      BY <1>13, <2>1, <3>1
  <2>2. CASE ~ transpose_it
    BY <1>13, <1>14, <1>15, <1>16, <2>2
  <2> QED
    BY <2>1, <2>2
<1>19. dst = [q EXCEPT !.jfif = @ /\ ~ LeadingExif]
  BY <1>1, <1>15, <1>16 DEF OutputParameters
<1>20. dst.comps = q.comps /\ dst.quant = q.quant
  BY <1>18, <1>19
<1> QED
  BY <1>4, <1>5, <1>9, <1>10, <1>18, <1>20

\* The program is at one of its steps, an error is final, and there are arrays and
\* parameters for the components there are.
THEOREM TypeCorrect == Spec => []TypeOK
<1> DEFINE Steps == {"start", "header", "request", "adjust", "write", "markers", "execute", "done",
                     "usage", "imperfect", "bad crop", "quant table mismatch", "not implemented"}
           AtStep == phase \in Steps
<1>1. Init => AtStep
  BY DEF Init
<1>2. AtStep /\ [Next]_vars => AtStep'
  <2> SUFFICES ASSUME AtStep, [Next]_vars PROVE AtStep'
    OBVIOUS
  <2>1. CASE ParseSwitches
    BY <2>1 DEF ParseSwitches
  <2>2. CASE ReadHeader
    BY <2>2 DEF ReadHeader
  <2>3. CASE RequestWorkspace
    <3>1. phase' \in {"imperfect", "bad crop", "adjust"}
      BY <2>3, Zenon DEF RequestWorkspace
    <3> QED
      BY <3>1
  <2>4. CASE Adjust
    <3>1. phase' \in {"quant table mismatch", "not implemented", "write"}
      BY <2>4, Zenon DEF Adjust
    <3> QED
      BY <3>1
  <2>5. CASE WriteCoefficients
    BY <2>5 DEF WriteCoefficients
  <2>6. CASE CopyMarkers
    BY <2>6 DEF CopyMarkers
  <2>7. CASE ExecuteTransform
    <3>1. phase' = "done"
      BY <2>7, Zenon DEF ExecuteTransform
    <3> QED
      BY <3>1
  <2>8. CASE UNCHANGED vars
    BY <2>8 DEF vars
  <2> QED
    BY <2>1, <2>2, <2>3, <2>4, <2>5, <2>6, <2>7, <2>8 DEF Next
<1>3. ASSUME IInv, AtStep PROVE TypeOK
  <2>1. src.comps \in Seq(ComponentType)
    BY <1>3 DEF IInv, Read, PictureType
  <2>2. PICK n \in Nat : n = Len(src.comps) /\ DOMAIN src.comps = 1 .. n
    BY <2>1
  <2>3. Len(coefs) = n
    <3>1. SourceArrays = [ci \in DOMAIN src.comps |-> SourceArrays[ci]]
      BY DEF SourceArrays
    <3>2. DOMAIN coefs = 1 .. n /\ coefs = [ci \in 1 .. n |-> coefs[ci]]
      BY <1>3, <2>2, <3>1 DEF IInv, Executed
    <3> QED
      BY <3>2
  <2>4. ASSUME phase \in AfterRequest PROVE info.num = num_components /\ num_components \in Nat
    <3>1. Read /\ info = Information
      BY <1>3, <2>4 DEF IInv, Requested
    <3>2. num_components \in Nat
      BY <3>1, AxesKnown
    <3> QED
      BY <3>1, <3>2 DEF Information
  <2>5. ASSUME phase \in AfterRequest PROVE Len(WorkArrays) \in {0, info.num}
    <3>1. PICK num \in Nat : num = num_components /\ num = info.num
      BY <2>4, <2>5
    <3>2. CASE NeedsWorkspace(opt.transform, info.x, info.y)
      <4>1. WorkArrays = [ci \in 1 .. num |-> WorkArrays[ci]]
        BY <3>1, <3>2 DEF WorkArrays
      <4>2. Len(WorkArrays) = num
        BY <4>1
      <4> QED
        BY <3>1, <4>2
    <3>3. CASE ~ NeedsWorkspace(opt.transform, info.x, info.y)
      <4>1. WorkArrays = <<>> /\ Len(<<>>) = 0
        BY <3>3 DEF WorkArrays
      <4> QED
        BY <4>1
    <3> QED
      BY <3>2, <3>3
  <2>6. ASSUME phase \in AfterAdjust PROVE Len(dst.comps) = info.num /\ DOMAIN dst.comps = 1 .. info.num
    <3>1. phase \in AfterRequest
      BY <2>6 DEF AfterAdjust, AfterRequest
    <3>2. dst.comps \in Seq(ComponentType) /\ Len(dst.comps) = num_components
      BY <1>3, <2>6, ComponentsKnown
    <3> QED
      BY <2>4, <3>1, <3>2
  <2>7. ASSUME phase \in AfterRequest PROVE Len(work) \in {0, info.num}
    <3>1. CASE phase # "done"
      BY <1>3, <2>5, <2>7, <3>1 DEF IInv, Requested
    <3>2. CASE phase = "done" /\ (Left \/ InPlace)
      BY <1>3, <2>5, <2>7, <3>2 DEF IInv, Executed
    <3>3. CASE phase = "done" /\ ~ Left /\ ~ InPlace
      <4>1. work = [ci \in DOMAIN dst.comps |-> MovedArray(ci)]
        BY <1>3, <3>3 DEF IInv, Executed
      <4>2. PICK num \in Nat : num = info.num /\ DOMAIN dst.comps = 1 .. num
        BY <2>4, <2>6, <2>7, <3>3 DEF AfterAdjust
      <4>3. work = [ci \in 1 .. num |-> work[ci]]
        BY <4>1, <4>2
      <4>4. Len(work) = num
        BY <4>3
      <4> QED
        BY <4>2, <4>4
    <3> QED
      BY <3>1, <3>2, <3>3
  <2> QED
    BY <1>3, <2>2, <2>3, <2>6, <2>7 DEF TypeOK, AfterRequest, AfterAdjust
<1> QED
  BY <1>1, <1>2, <1>3, Invariance, PTL DEF Spec

(***************************************************************************)
(* The samples of a block whose coefficients were negated or transposed.   *)
(***************************************************************************)
BlockType == [0 .. 1 -> [0 .. 1 -> Int]]

LEMMA BlockEntries ==
  ASSUME NEW b \in BlockType
  PROVE  /\ OddColumnsNegated(b) \in BlockType /\ OddRowsNegated(b) \in BlockType
         /\ Transposed(b) \in BlockType
         /\ \A i, j \in 0 .. 1 :
              /\ OddColumnsNegated(b)[i][j] = IF j = 1 THEN -b[i][j] ELSE b[i][j]
              /\ OddRowsNegated(b)[i][j] = IF i = 1 THEN -b[i][j] ELSE b[i][j]
              /\ Transposed(b)[i][j] = b[j][i]
<1>1. DCTSIZE - 1 = 1
  BY DEF DCTSIZE
<1>2. \A i, j \in 0 .. 1 : b[i][j] \in Int /\ -b[i][j] \in Int /\ (j % 2 = 1 <=> j = 1)
  BY DEF BlockType
<1>3. OddColumnsNegated(b) = [i \in 0 .. 1 |-> [j \in 0 .. 1 |-> IF j = 1 THEN -b[i][j] ELSE b[i][j]]]
  BY <1>1, <1>2 DEF OddColumnsNegated, Block
<1>4. OddRowsNegated(b) = [i \in 0 .. 1 |-> [j \in 0 .. 1 |-> IF i = 1 THEN -b[i][j] ELSE b[i][j]]]
  BY <1>1, <1>2 DEF OddRowsNegated, Block
<1>5. Transposed(b) = [i \in 0 .. 1 |-> [j \in 0 .. 1 |-> b[j][i]]]
  BY <1>1 DEF Transposed, Block
<1>6. OddColumnsNegated(b) \in BlockType
  BY <1>2, <1>3 DEF BlockType
<1>7. OddRowsNegated(b) \in BlockType
  BY <1>2, <1>4 DEF BlockType
<1>8. Transposed(b) \in BlockType
  BY <1>2, <1>5 DEF BlockType
<1> QED
  BY <1>3, <1>4, <1>5, <1>6, <1>7, <1>8

\* The sum that a sample is, for each of its four places.
SampleIs(s, b, q, u, v) ==
  s = q[0][0] * b[0][0] + (IF v = 1 THEN -(q[0][1] * b[0][1]) ELSE q[0][1] * b[0][1])
        + (IF u = 1 THEN -(q[1][0] * b[1][0]) ELSE q[1][0] * b[1][0])
        + (IF u = v THEN q[1][1] * b[1][1] ELSE -(q[1][1] * b[1][1]))

LEMMA SampleForm ==
  ASSUME NEW b \in BlockType, NEW q \in BlockType, NEW u \in 0 .. 1, NEW v \in 0 .. 1
  PROVE  SampleIs(Sample(b, q, u, v), b, q, u, v)
<1>1. PICK b00 \in Int, b01 \in Int, b10 \in Int, b11 \in Int :
        b00 = b[0][0] /\ b01 = b[0][1] /\ b10 = b[1][0] /\ b11 = b[1][1]
  BY DEF BlockType
<1>2. PICK q00 \in Int, q01 \in Int, q10 \in Int, q11 \in Int :
        q00 = q[0][0] /\ q01 = q[0][1] /\ q10 = q[1][0] /\ q11 = q[1][1]
  BY DEF BlockType
<1>3. PICK p00 \in Int, p01 \in Int, p10 \in Int, p11 \in Int :
        p00 = q00 * b00 /\ p01 = q01 * b01 /\ p10 = q10 * b10 /\ p11 = q11 * b11
  OBVIOUS
<1>4. Sample(b, q, u, v)
        = p00 * (IF 0 * u = 1 THEN -1 ELSE 1) * (IF 0 * v = 1 THEN -1 ELSE 1)
          + p01 * (IF 0 * u = 1 THEN -1 ELSE 1) * (IF 1 * v = 1 THEN -1 ELSE 1)
          + p10 * (IF 1 * u = 1 THEN -1 ELSE 1) * (IF 0 * v = 1 THEN -1 ELSE 1)
          + p11 * (IF 1 * u = 1 THEN -1 ELSE 1) * (IF 1 * v = 1 THEN -1 ELSE 1)
  BY <1>1, <1>2, <1>3 DEF Sample
<1>5. Sample(b, q, u, v) = p00 + (IF v = 1 THEN -p01 ELSE p01) + (IF u = 1 THEN -p10 ELSE p10)
                           + (IF u = v THEN p11 ELSE -p11)
  <2>1. CASE u = 0 /\ v = 0
    BY <1>4, <2>1
  <2>2. CASE u = 0 /\ v = 1
    BY <1>4, <2>2
  <2>3. CASE u = 1 /\ v = 0
    BY <1>4, <2>3
  <2>4. CASE u = 1 /\ v = 1
    BY <1>4, <2>4
  <2> QED
    BY <2>1, <2>2, <2>3, <2>4
<1> QED
  BY <1>1, <1>2, <1>3, <1>5 DEF SampleIs

LEMMA NegatedProduct ==
  ASSUME NEW a \in Int, NEW b \in Int
  PROVE  a * (-b) = -(a * b)
OBVIOUS

\* Negating the odd columns mirrors the samples of a block, and so on.
LEMMA SamplesMirrored ==
  ASSUME NEW b \in BlockType, NEW q \in BlockType, NEW u \in 0 .. 1, NEW v \in 0 .. 1
  PROVE  /\ Sample(OddColumnsNegated(b), q, u, v) = Sample(b, q, u, 1 - v)
         /\ Sample(OddRowsNegated(b), q, u, v) = Sample(b, q, 1 - u, v)
         /\ Sample(Transposed(b), Transposed(q), u, v) = Sample(b, q, v, u)
<1>1. PICK b00 \in Int, b01 \in Int, b10 \in Int, b11 \in Int :
        b00 = b[0][0] /\ b01 = b[0][1] /\ b10 = b[1][0] /\ b11 = b[1][1]
  BY DEF BlockType
<1>2. PICK q00 \in Int, q01 \in Int, q10 \in Int, q11 \in Int :
        q00 = q[0][0] /\ q01 = q[0][1] /\ q10 = q[1][0] /\ q11 = q[1][1]
  BY DEF BlockType
<1>3. PICK p00 \in Int, p01 \in Int, p10 \in Int, p11 \in Int :
        p00 = q00 * b00 /\ p01 = q01 * b01 /\ p10 = q10 * b10 /\ p11 = q11 * b11
  OBVIOUS
<1>4. q01 * (-b01) = -p01 /\ q10 * (-b10) = -p10 /\ q11 * (-b11) = -p11
  BY <1>3, NegatedProduct
<1>5. 1 - u \in 0 .. 1 /\ 1 - v \in 0 .. 1
  OBVIOUS
<1>6. Sample(OddColumnsNegated(b), q, u, v) = Sample(b, q, u, 1 - v)
  <2>1. PICK c \in BlockType : c = OddColumnsNegated(b)
    BY BlockEntries
  <2>2. c[0][0] = b00 /\ c[0][1] = -b01 /\ c[1][0] = b10 /\ c[1][1] = -b11
    BY <1>1, <2>1, BlockEntries
  <2>3. SampleIs(Sample(c, q, u, v), c, q, u, v)
    BY SampleForm
  <2>4. SampleIs(Sample(b, q, u, 1 - v), b, q, u, 1 - v)
    BY <1>5, SampleForm
  <2>5. Sample(c, q, u, v) = p00 + (IF v = 1 THEN p01 ELSE -p01) + (IF u = 1 THEN -p10 ELSE p10)
                             + (IF u = v THEN -p11 ELSE p11)
    BY <1>2, <1>3, <1>4, <2>2, <2>3 DEF SampleIs
  <2>6. Sample(b, q, u, 1 - v)
          = p00 + (IF 1 - v = 1 THEN -p01 ELSE p01) + (IF u = 1 THEN -p10 ELSE p10)
            + (IF u = 1 - v THEN p11 ELSE -p11)
    BY <1>1, <1>2, <1>3, <2>4 DEF SampleIs
  <2>7. u \in {0, 1} /\ v \in {0, 1}
    OBVIOUS
  <2> QED
    BY <2>1, <2>5, <2>6, <2>7
<1>7. Sample(OddRowsNegated(b), q, u, v) = Sample(b, q, 1 - u, v)
  <2>1. PICK c \in BlockType : c = OddRowsNegated(b)
    BY BlockEntries
  <2>2. c[0][0] = b00 /\ c[0][1] = b01 /\ c[1][0] = -b10 /\ c[1][1] = -b11
    BY <1>1, <2>1, BlockEntries
  <2>3. SampleIs(Sample(c, q, u, v), c, q, u, v)
    BY SampleForm
  <2>4. SampleIs(Sample(b, q, 1 - u, v), b, q, 1 - u, v)
    BY <1>5, SampleForm
  <2>5. Sample(c, q, u, v) = p00 + (IF v = 1 THEN -p01 ELSE p01) + (IF u = 1 THEN p10 ELSE -p10)
                             + (IF u = v THEN -p11 ELSE p11)
    BY <1>2, <1>3, <1>4, <2>2, <2>3 DEF SampleIs
  <2>6. Sample(b, q, 1 - u, v)
          = p00 + (IF v = 1 THEN -p01 ELSE p01) + (IF 1 - u = 1 THEN -p10 ELSE p10)
            + (IF 1 - u = v THEN p11 ELSE -p11)
    BY <1>1, <1>2, <1>3, <2>4 DEF SampleIs
  <2>7. u \in {0, 1} /\ v \in {0, 1}
    OBVIOUS
  <2> QED
    BY <2>1, <2>5, <2>6, <2>7
<1>8. Sample(Transposed(b), Transposed(q), u, v) = Sample(b, q, v, u)
  <2>1. PICK c \in BlockType, d \in BlockType : c = Transposed(b) /\ d = Transposed(q)
    BY BlockEntries
  <2>2. /\ c[0][0] = b00 /\ c[0][1] = b10 /\ c[1][0] = b01 /\ c[1][1] = b11
        /\ d[0][0] = q00 /\ d[0][1] = q10 /\ d[1][0] = q01 /\ d[1][1] = q11
    BY <1>1, <1>2, <2>1, BlockEntries
  <2>3. SampleIs(Sample(c, d, u, v), c, d, u, v)
    BY SampleForm
  <2>4. SampleIs(Sample(b, q, v, u), b, q, v, u)
    BY SampleForm
  <2>5. Sample(c, d, u, v) = p00 + (IF v = 1 THEN -p10 ELSE p10) + (IF u = 1 THEN -p01 ELSE p01)
                             + (IF u = v THEN p11 ELSE -p11)
    BY <1>3, <2>2, <2>3 DEF SampleIs
  <2>6. Sample(b, q, v, u) = p00 + (IF u = 1 THEN -p01 ELSE p01) + (IF v = 1 THEN -p10 ELSE p10)
                             + (IF v = u THEN p11 ELSE -p11)
    BY <1>1, <1>2, <1>3, <2>4 DEF SampleIs
  <2> QED
    BY <2>1, <2>5, <2>6
<1> QED
  BY <1>6, <1>7, <1>8

(***************************************************************************)
(* One axis of the output: where a sample of it lies in the source. f is   *)
(* the sampling factor of the component, m the largest there is.           *)
(***************************************************************************)
WholeBlocks(full, m, f) == (full \div (m * DCTSIZE)) * f

LEMMA AxisSamples ==
  ASSUME NEW m \in 1 .. 4, NEW f \in 1 .. m, NEW full \in Nat \ {0}, NEW offset \in Nat,
         NEW size \in Nat \ {0}, offset * (m * 2) + size <= full,
         NEW z \in Nat, z < jdiv_round_up(size * f, m)
  PROVE  /\ z + offset * f * 2 < jdiv_round_up(full * f, m)
         /\ z \div 2 < jdiv_round_up(size * f, m * 2)
         /\ z \div 2 < jdiv_round_up(size, m * 2) * f
         /\ WholeBlocks(full, m, f) \in Nat
         /\ WholeBlocks(full, m, f) * 2 <= jdiv_round_up(full * f, m)
<1> USE DEF jdiv_round_up, WholeBlocks, DCTSIZE
<1>1. CASE m = 1 /\ f = 1
  BY <1>1
<1>2. CASE m = 2 /\ f = 1
  BY <1>2
<1>3. CASE m = 2 /\ f = 2
  BY <1>3
<1>4. CASE m = 3 /\ f = 1
  BY <1>4
<1>5. CASE m = 3 /\ f = 2
  BY <1>5
<1>6. CASE m = 3 /\ f = 3
  BY <1>6
<1>7. CASE m = 4 /\ f = 1
  BY <1>7
<1>8. CASE m = 4 /\ f = 2
  BY <1>8
<1>9. CASE m = 4 /\ f = 3
  BY <1>9
<1>10. CASE m = 4 /\ f = 4
  BY <1>10
<1> QED
  BY <1>1, <1>2, <1>3, <1>4, <1>5, <1>6, <1>7, <1>8, <1>9, <1>10

\* The arrays are padded to whole iMCUs.
LEMMA AxisPadding ==
  ASSUME NEW m \in 1 .. 4, NEW f \in 1 .. m, NEW full \in Nat \ {0},
         NEW z \in Nat, z < jdiv_round_up(full * f, m)
  PROVE  z \div 2 < jround_up(jdiv_round_up(full * f, m * 2), f)
<1> USE DEF jdiv_round_up, jround_up
<1>1. CASE m = 1 /\ f = 1
  BY <1>1
<1>2. CASE m = 2 /\ f = 1
  BY <1>2
<1>3. CASE m = 2 /\ f = 2
  BY <1>3
<1>4. CASE m = 3 /\ f = 1
  BY <1>4
<1>5. CASE m = 3 /\ f = 2
  BY <1>5
<1>6. CASE m = 3 /\ f = 3
  BY <1>6
<1>7. CASE m = 4 /\ f = 1
  BY <1>7
<1>8. CASE m = 4 /\ f = 2
  BY <1>8
<1>9. CASE m = 4 /\ f = 3
  BY <1>9
<1>10. CASE m = 4 /\ f = 4
  BY <1>10
<1> QED
  BY <1>1, <1>2, <1>3, <1>4, <1>5, <1>6, <1>7, <1>8, <1>9, <1>10

LEMMA RoundedUp ==
  ASSUME NEW a \in Nat, NEW b \in 1 .. 4
  PROVE  jround_up(a, b) \in Nat /\ a <= jround_up(a, b)
<1> USE DEF jdiv_round_up, jround_up
<1>1. CASE b = 1
  BY <1>1
<1>2. CASE b = 2
  BY <1>2
<1>3. CASE b = 3
  BY <1>3
<1>4. CASE b = 4
  BY <1>4
<1> QED
  BY <1>1, <1>2, <1>3, <1>4

\* Mirroring samples is mirroring blocks, and the samples of each.
MirroredBlock(z, whole) == IF z < whole THEN whole - z - 1 ELSE z
MirroredPlace(z, whole, u) == IF z < whole THEN 1 - u ELSE u

(***************************************************************************)
(* What each routine does to the samples.                                  *)
(***************************************************************************)
LEMMA BlockInside ==
  ASSUME NEW a, NEW y \in DOMAIN a, NEW x \in DOMAIN a[y]
  PROVE  BlockAt(a, y, x) = a[y][x]
BY DEF BlockAt

PlaceType == [rows : Int, cols : Int, x : Int, y : Int, width : Int, height : Int]

\* The block a routine writes, for a block row and column of the output.
BlockMoved(a, y, x, height, width) ==
  CASE opt.transform = "NONE"   -> BlockAt(a, y, x)
    [] opt.transform = "FLIP_H" ->
         IF x < width THEN OddColumnsNegated(BlockAt(a, y, width - x - 1)) ELSE BlockAt(a, y, x)
    [] opt.transform = "FLIP_V" ->
         IF y < height THEN OddRowsNegated(BlockAt(a, height - y - 1, x)) ELSE BlockAt(a, y, x)
    [] opt.transform = "TRANSPOSE" -> Transposed(BlockAt(a, x, y))
    [] opt.transform = "TRANSVERSE" ->
         IF y < height
         THEN IF x < width
              THEN OddRowsNegated(OddColumnsNegated(Transposed(
                     BlockAt(a, width - x - 1, height - y - 1))))
              ELSE OddRowsNegated(Transposed(BlockAt(a, x, height - y - 1)))
         ELSE IF x < width
              THEN OddColumnsNegated(Transposed(BlockAt(a, width - x - 1, y)))
              ELSE Transposed(BlockAt(a, x, y))
    [] opt.transform = "ROT_90" ->
         IF x < width THEN OddColumnsNegated(Transposed(BlockAt(a, width - x - 1, y)))
         ELSE Transposed(BlockAt(a, x, y))
    [] opt.transform = "ROT_180" ->
         IF y < height
         THEN IF x < width
              THEN OddRowsNegated(OddColumnsNegated(BlockAt(a, height - y - 1, width - x - 1)))
              ELSE OddRowsNegated(BlockAt(a, height - y - 1, x))
         ELSE IF x < width
              THEN OddColumnsNegated(BlockAt(a, y, width - x - 1))
              ELSE BlockAt(a, y, x)
    [] opt.transform = "ROT_270" ->
         IF y < height THEN OddRowsNegated(Transposed(BlockAt(a, x, height - y - 1)))
         ELSE Transposed(BlockAt(a, x, y))

Known == opt.transform \in {"NONE", "FLIP_H", "FLIP_V", "TRANSPOSE", "TRANSVERSE",
                            "ROT_90", "ROT_180", "ROT_270"}
HoldsBlocks(a) == \A j, k \in Int : BlockAt(a, j, k) \in BlockType

LEMMA MovedBlocks ==
  ASSUME NEW a, NEW g \in PlaceType, NEW y \in 0 .. g.rows - 1, NEW x \in 0 .. g.cols - 1,
         Known
  PROVE  BlockAt(Moved(a, g), y, x) = BlockMoved(a, y + g.y, x + g.x, g.height, g.width)
<1>1. PICK m : m = Moved(a, g)
  OBVIOUS
<1>2. y \in DOMAIN m
  BY <1>1
  DEF Moved, do_crop, do_flip_h, do_flip_v, do_transpose, do_transverse, do_rot_90, do_rot_180,
      do_rot_270, Written, Known
<1>3. x \in DOMAIN m[y]
  BY <1>1
  DEF Moved, do_crop, do_flip_h, do_flip_v, do_transpose, do_transverse, do_rot_90, do_rot_180,
      do_rot_270, Written, Known
<1>4. m[y][x] = BlockMoved(a, y + g.y, x + g.x, g.height, g.width)
  BY <1>1
  DEF Moved, do_crop, do_flip_h, do_flip_v, do_transpose, do_transverse, do_rot_90, do_rot_180,
      do_rot_270, Written, BlockMoved, Known
<1> QED
  BY <1>1, <1>2, <1>3, <1>4, BlockInside

\* And the sample of a block that was moved is the sample of the source that is mirrored
\* to its place.
LEMMA SamplesMoved ==
  ASSUME NEW a, HoldsBlocks(a),
         NEW y \in Int, NEW x \in Int, NEW height \in Int, NEW width \in Int,
         NEW u \in 0 .. 1, NEW v \in 0 .. 1, NEW q \in BlockType,
         NEW s \in Int, s = y * 2 + u, NEW t \in Int, t = x * 2 + v,
         Known
  PROVE  Sample(BlockMoved(a, y, x, height, width), IF transpose_it THEN Transposed(q) ELSE q, u, v)
           = SampleOf(a, q, SourceOf(s, t, height * 2, width * 2))
<1> DEFINE my == MirroredBlock(y, height)
           mx == MirroredBlock(x, width)
           mu == MirroredPlace(y, height, u)
           mv == MirroredPlace(x, width, v)
           ms == Mirrored(s, height * 2)
           mt == Mirrored(t, width * 2)
<1>1. s \div 2 = y /\ s % 2 = u /\ ms \div 2 = my /\ ms % 2 = mu
  BY ONLY y \in Int, u \in 0 .. 1, height \in Int, s \in Int, s = y * 2 + u
  DEF my, mu, ms, Mirrored, MirroredBlock, MirroredPlace
<1>2. t \div 2 = x /\ t % 2 = v /\ mt \div 2 = mx /\ mt % 2 = mv
  BY ONLY x \in Int, v \in 0 .. 1, width \in Int, t \in Int, t = x * 2 + v
  DEF mx, mv, mt, Mirrored, MirroredBlock, MirroredPlace
<1>3. my \in Int /\ mx \in Int /\ mu \in 0 .. 1 /\ mv \in 0 .. 1
  BY DEF MirroredBlock, MirroredPlace
<1>4. \A at : SampleOf(a, q, at) = Sample(BlockAt(a, at[1] \div 2, at[2] \div 2), q,
                                          at[1] % 2, at[2] % 2)
  BY DEF SampleOf, DCTSIZE
<1>5. /\ y < height => my = height - y - 1 /\ mu = 1 - u
      /\ ~ (y < height) => my = y /\ mu = u
      /\ x < width => mx = width - x - 1 /\ mv = 1 - v
      /\ ~ (x < width) => mx = x /\ mv = v
  BY DEF MirroredBlock, MirroredPlace
<1> HIDE DEF my, mx, mu, mv, ms, mt
<1>6. PICK q2 \in BlockType : q2 = IF transpose_it THEN Transposed(q) ELSE q
  BY BlockEntries
<1>7. ASSUME NEW b \in BlockType, NEW k \in 0 .. 1, NEW l \in 0 .. 1
      PROVE  /\ OddRowsNegated(b) \in BlockType /\ OddColumnsNegated(b) \in BlockType
             /\ Sample(OddRowsNegated(b), q2, k, l) = Sample(b, q2, 1 - k, l)
             /\ Sample(OddColumnsNegated(b), q2, k, l) = Sample(b, q2, k, 1 - l)
  <2>1. OddRowsNegated(b) \in BlockType /\ OddColumnsNegated(b) \in BlockType
    BY BlockEntries
  <2>2. Sample(OddRowsNegated(b), q2, k, l) = Sample(b, q2, 1 - k, l)
    BY ONLY b \in BlockType, q2 \in BlockType, k \in 0 .. 1, l \in 0 .. 1, SamplesMirrored
  <2>3. Sample(OddColumnsNegated(b), q2, k, l) = Sample(b, q2, k, 1 - l)
    BY ONLY b \in BlockType, q2 \in BlockType, k \in 0 .. 1, l \in 0 .. 1, SamplesMirrored
  <2> QED
    BY <2>1, <2>2, <2>3
<1>8. ASSUME NEW b \in BlockType, NEW k \in 0 .. 1, NEW l \in 0 .. 1, transpose_it
      PROVE  Transposed(b) \in BlockType /\ Sample(Transposed(b), q2, k, l) = Sample(b, q, l, k)
  <2>1. Transposed(b) \in BlockType
    BY BlockEntries
  <2>2. Sample(Transposed(b), Transposed(q), k, l) = Sample(b, q, l, k)
    BY ONLY b \in BlockType, q \in BlockType, k \in 0 .. 1, l \in 0 .. 1, SamplesMirrored
  <2> QED
    BY <1>6, <1>8, <2>1, <2>2
<1>9. \A j, k \in Int : BlockAt(a, j, k) \in BlockType
  BY DEF HoldsBlocks
<1>10. height - y - 1 \in Int /\ width - x - 1 \in Int /\ 1 - u \in 0 .. 1 /\ 1 - v \in 0 .. 1
  OBVIOUS
<1> DEFINE Moves == BlockMoved(a, y, x, height, width)
           From == SourceOf(s, t, height * 2, width * 2)
<1> HIDE DEF BlockType
<1>11. CASE opt.transform = "NONE"
  BY <1>1, <1>2, <1>4, <1>6, <1>11 DEF BlockMoved, SourceOf, transpose_it, Transposing
<1>12. CASE opt.transform = "FLIP_H"
  <2>1. From = <<s, mt>> /\ ~ transpose_it
    BY <1>12 DEF SourceOf, mt, transpose_it, Transposing
  <2>2. Moves = IF x < width THEN OddColumnsNegated(BlockAt(a, y, width - x - 1)) ELSE BlockAt(a, y, x)
    BY <1>12 DEF BlockMoved
  <2>3. SampleOf(a, q, From) = Sample(BlockAt(a, y, mx), q, u, mv)
    BY <1>1, <1>2, <1>4, <2>1
  <2> HIDE DEF Moves, From
  <2>4. Sample(Moves, q2, u, v) = SampleOf(a, q, From)
    BY <1>5, <1>6, <1>7, <1>9, <1>10, <2>1, <2>2, <2>3
  <2> QED
    BY <1>6, <2>4 DEF Moves, From
<1>13. CASE opt.transform = "TRANSVERSE"
  <2>1. From = <<mt, ms>> /\ transpose_it
    BY <1>13 DEF SourceOf, mt, ms, transpose_it, Transposing
  <2>2. Moves = IF y < height
                THEN IF x < width
                     THEN OddRowsNegated(OddColumnsNegated(Transposed(
                            BlockAt(a, width - x - 1, height - y - 1))))
                     ELSE OddRowsNegated(Transposed(BlockAt(a, x, height - y - 1)))
                ELSE IF x < width
                     THEN OddColumnsNegated(Transposed(BlockAt(a, width - x - 1, y)))
                     ELSE Transposed(BlockAt(a, x, y))
    BY <1>13 DEF BlockMoved
  <2>3. SampleOf(a, q, From) = Sample(BlockAt(a, mx, my), q, mv, mu)
    BY <1>1, <1>2, <1>4, <2>1
  <2> HIDE DEF Moves, From
  <2>4. Sample(Moves, q2, u, v) = SampleOf(a, q, From)
    BY <1>3, <1>5, <1>6, <1>7, <1>8, <1>9, <1>10, <2>1, <2>2, <2>3
  <2> QED
    BY <1>6, <2>4 DEF Moves, From
<1>14. CASE opt.transform = "FLIP_V"
  <2>1. From = <<ms, t>> /\ ~ transpose_it
    BY <1>14 DEF SourceOf, ms, mt, transpose_it, Transposing
  <2>2. Moves = IF y < height THEN OddRowsNegated(BlockAt(a, height - y - 1, x)) ELSE BlockAt(a, y, x)
    BY <1>14 DEF BlockMoved
  <2>3. SampleOf(a, q, From) = Sample(BlockAt(a, my, x), q, mu, v)
    BY <1>1, <1>2, <1>4, <2>1
  <2> HIDE DEF Moves, From
  <2>4. Sample(Moves, q2, u, v) = SampleOf(a, q, From)
    BY <1>3, <1>5, <1>6, <1>7, <1>8, <1>9, <1>10, <2>1, <2>2, <2>3
  <2> QED
    BY <1>6, <2>4 DEF Moves, From
<1>15. CASE opt.transform = "TRANSPOSE"
  <2>1. From = <<t, s>> /\ transpose_it
    BY <1>15 DEF SourceOf, ms, mt, transpose_it, Transposing
  <2>2. Moves = Transposed(BlockAt(a, x, y))
    BY <1>15 DEF BlockMoved
  <2>3. SampleOf(a, q, From) = Sample(BlockAt(a, x, y), q, v, u)
    BY <1>1, <1>2, <1>4, <2>1
  <2> HIDE DEF Moves, From
  <2>4. Sample(Moves, q2, u, v) = SampleOf(a, q, From)
    BY <1>3, <1>5, <1>6, <1>7, <1>8, <1>9, <1>10, <2>1, <2>2, <2>3
  <2> QED
    BY <1>6, <2>4 DEF Moves, From
<1>16. CASE opt.transform = "ROT_90"
  <2>1. From = <<mt, s>> /\ transpose_it
    BY <1>16 DEF SourceOf, ms, mt, transpose_it, Transposing
  <2>2. Moves = IF x < width THEN OddColumnsNegated(Transposed(BlockAt(a, width - x - 1, y)))
                ELSE Transposed(BlockAt(a, x, y))
    BY <1>16 DEF BlockMoved
  <2>3. SampleOf(a, q, From) = Sample(BlockAt(a, mx, y), q, mv, u)
    BY <1>1, <1>2, <1>4, <2>1
  <2> HIDE DEF Moves, From
  <2>4. Sample(Moves, q2, u, v) = SampleOf(a, q, From)
    BY <1>3, <1>5, <1>6, <1>7, <1>8, <1>9, <1>10, <2>1, <2>2, <2>3
  <2> QED
    BY <1>6, <2>4 DEF Moves, From
<1>17. CASE opt.transform = "ROT_180"
  <2>1. From = <<ms, mt>> /\ ~ transpose_it
    BY <1>17 DEF SourceOf, ms, mt, transpose_it, Transposing
  <2>2. Moves = IF y < height
                THEN IF x < width
                     THEN OddRowsNegated(OddColumnsNegated(
                            BlockAt(a, height - y - 1, width - x - 1)))
                     ELSE OddRowsNegated(BlockAt(a, height - y - 1, x))
                ELSE IF x < width
                     THEN OddColumnsNegated(BlockAt(a, y, width - x - 1))
                     ELSE BlockAt(a, y, x)
    BY <1>17 DEF BlockMoved
  <2>3. SampleOf(a, q, From) = Sample(BlockAt(a, my, mx), q, mu, mv)
    BY <1>1, <1>2, <1>4, <2>1
  <2> HIDE DEF Moves, From
  <2>4. Sample(Moves, q2, u, v) = SampleOf(a, q, From)
    BY <1>3, <1>5, <1>6, <1>7, <1>8, <1>9, <1>10, <2>1, <2>2, <2>3
  <2> QED
    BY <1>6, <2>4 DEF Moves, From
<1>18. CASE opt.transform = "ROT_270"
  <2>1. From = <<t, ms>> /\ transpose_it
    BY <1>18 DEF SourceOf, ms, mt, transpose_it, Transposing
  <2>2. Moves = IF y < height THEN OddRowsNegated(Transposed(BlockAt(a, x, height - y - 1)))
                ELSE Transposed(BlockAt(a, x, y))
    BY <1>18 DEF BlockMoved
  <2>3. SampleOf(a, q, From) = Sample(BlockAt(a, x, my), q, v, mu)
    BY <1>1, <1>2, <1>4, <2>1
  <2> HIDE DEF Moves, From
  <2>4. Sample(Moves, q2, u, v) = SampleOf(a, q, From)
    BY <1>3, <1>5, <1>6, <1>7, <1>8, <1>9, <1>10, <2>1, <2>2, <2>3
  <2> QED
    BY <1>6, <2>4 DEF Moves, From
<1> QED
  BY <1>11, <1>12, <1>13, <1>14, <1>15, <1>16, <1>17, <1>18 DEF Known

(***************************************************************************)
(* The sampling factors of the output, and where its samples come from.    *)
(***************************************************************************)
LEMMA OutputFactors ==
  ASSUME IInv, phase \in AfterAdjust
  PROVE  /\ max_h(dst.comps) \in 1 .. 4 /\ max_v(dst.comps) \in 1 .. 4
         /\ iMCU_sample_width = max_h(dst.comps) * 2
         /\ iMCU_sample_height = max_v(dst.comps) * 2
         /\ \A ci \in DOMAIN dst.comps : /\ dst.comps[ci].h \in 1 .. max_h(dst.comps)
                                         /\ dst.comps[ci].v \in 1 .. max_v(dst.comps)
         /\ num_components # 1 => /\ max_h(dst.comps) = IF transpose_it THEN max_v(src.comps)
                                                        ELSE max_h(src.comps)
                                  /\ max_v(dst.comps) = IF transpose_it THEN max_h(src.comps)
                                                        ELSE max_v(src.comps)
         /\ num_components = 1 => max_h(dst.comps) = 1 /\ max_v(dst.comps) = 1
<1>1. /\ dst.comps = [ci \in 1 .. num_components |-> OutputComponent(ci)]
      /\ dst.comps \in Seq(ComponentType) /\ Len(dst.comps) = num_components
      /\ num_components \in 1 .. Len(src.comps)
  BY ComponentsKnown
<1>2. Read
  BY OutputKnown
<1>3. src.comps \in Seq(ComponentType) /\ src.comps # <<>>
  BY <1>2 DEF Read, PictureType
<1>4. PICK d \in Seq(ComponentType), s \in Seq(ComponentType), n \in Nat :
        d = dst.comps /\ s = src.comps /\ s # <<>> /\ n = num_components /\ n # 0
        /\ Len(d) = n /\ d # <<>>
  BY <1>1, <1>3
<1>5. PICK dh \in 1 .. 4, dv \in 1 .. 4 : dh = max_h(d) /\ dv = max_v(d)
  BY <1>4, MaxFactors
<1>6. PICK sh \in 1 .. 4, sv \in 1 .. 4 : sh = max_h(s) /\ sv = max_v(s)
  BY <1>4, MaxFactors
<1>7. /\ \A ci \in DOMAIN d : d[ci].h <= dh /\ d[ci].v <= dv
      /\ \E ci \in DOMAIN d : d[ci].h = dh
      /\ \E ci \in DOMAIN d : d[ci].v = dv
  BY <1>4, <1>5, MaxFactors
<1>8. /\ \A ci \in DOMAIN s : s[ci].h <= sh /\ s[ci].v <= sv
      /\ \E ci \in DOMAIN s : s[ci].h = sh
      /\ \E ci \in DOMAIN s : s[ci].v = sv
  BY <1>4, <1>6, MaxFactors
<1>9. \A ci \in DOMAIN d : d[ci].h \in 1 .. dh /\ d[ci].v \in 1 .. dv
  <2>1. \A ci \in DOMAIN d : d[ci] \in ComponentType
    OBVIOUS
  <2>2. \A c \in ComponentType : c.h \in 1 .. 4 /\ c.v \in 1 .. 4
    BY DEF ComponentType
  <2> QED
    BY <1>7, <2>1, <2>2
<1>10. DOMAIN d = 1 .. n /\ \A ci \in 1 .. n : d[ci] = OutputComponent(ci)
  BY <1>1, <1>4
<1>11. CASE n = 1
  <2>1. d[1].h = 1 /\ d[1].v = 1 /\ \A ci \in DOMAIN d : ci = 1
    BY <1>4, <1>10, <1>11 DEF OutputComponent
  <2>2. dh = 1 /\ dv = 1
    BY <1>7, <2>1
  <2>3. iMCU_sample_width = 2 /\ iMCU_sample_height = 2
    BY <1>4, <1>11 DEF iMCU_sample_width, iMCU_sample_height, mcu_width, mcu_height, DCTSIZE
  <2> QED
    BY <1>4, <1>5, <1>9, <1>11, <2>2, <2>3
<1>12. CASE n # 1
  <2>1. n = Len(s)
    BY <1>4, <1>12 DEF num_components
  <2>2. DOMAIN s = 1 .. n
    BY <2>1
  <2>3. iMCU_sample_width = (IF transpose_it THEN sv ELSE sh) * 2
        /\ iMCU_sample_height = (IF transpose_it THEN sh ELSE sv) * 2
    BY <1>4, <1>6, <1>12 DEF iMCU_sample_width, iMCU_sample_height, mcu_width, mcu_height, DCTSIZE
  <2>4. ASSUME NEW ci \in 1 .. n
        PROVE  /\ transpose_it => d[ci].h = s[ci].v /\ d[ci].v = s[ci].h
               /\ ~ transpose_it => d[ci].h = s[ci].h /\ d[ci].v = s[ci].v
    <3>1. d[ci] = OutputComponent(ci) /\ src.comps[ci] = s[ci]
      BY <1>4, <1>10
    <3>2. CASE transpose_it
      <4>1. OutputComponent(ci) = [h |-> s[ci].v, v |-> s[ci].h, q |-> s[ci].q]
        BY <1>4, <1>12, <3>1, <3>2 DEF OutputComponent
      <4> QED
        BY <3>1, <3>2, <4>1
    <3>3. CASE ~ transpose_it
      BY <1>4, <1>12, <3>1, <3>3 DEF OutputComponent
    <3> QED
      BY <3>2, <3>3
  <2>5. dh = (IF transpose_it THEN sv ELSE sh) /\ dv = (IF transpose_it THEN sh ELSE sv)
    <3>1. PICK ci \in 1 .. n, cj \in 1 .. n : d[ci].h = dh /\ d[cj].v = dv
      BY <1>7, <1>10
    <3>2. PICK ck \in 1 .. n, cl \in 1 .. n : s[ck].h = sh /\ s[cl].v = sv
      BY <1>8, <2>2
    <3>3. /\ s[ci].h <= sh /\ s[ci].v <= sv /\ s[cj].h <= sh /\ s[cj].v <= sv
          /\ d[ck].h <= dh /\ d[ck].v <= dv /\ d[cl].h <= dh /\ d[cl].v <= dv
      BY <1>7, <1>8, <1>10, <2>2
    <3>4. CASE transpose_it
      <4>1. d[ci].h = s[ci].v /\ d[cj].v = s[cj].h /\ d[cl].h = s[cl].v /\ d[ck].v = s[ck].h
        BY <2>4, <3>4
      <4>2. dh = sv /\ dv = sh
        BY <3>1, <3>2, <3>3, <4>1
      <4> QED
        BY <3>4, <4>2
    <3>5. CASE ~ transpose_it
      <4>1. d[ci].h = s[ci].h /\ d[cj].v = s[cj].v /\ d[ck].h = s[ck].h /\ d[cl].v = s[cl].v
        BY <2>4, <3>5
      <4>2. dh = sh /\ dv = sv
        BY <3>1, <3>2, <3>3, <4>1
      <4> QED
        BY <3>5, <4>2
    <3> QED
      BY <3>4, <3>5
  <2> QED
    BY <1>4, <1>5, <1>6, <1>9, <1>12, <2>3, <2>5
<1> QED
  BY <1>11, <1>12

\* The samples of a component along the two axes of the uncropped output, and the
\* sampling factors its source is shown with.
SamplesDown(ci) == jdiv_round_up(full_height * dst.comps[ci].v, max_v(dst.comps))
SamplesAcross(ci) == jdiv_round_up(full_width * dst.comps[ci].h, max_h(dst.comps))
Shown(ci) == IF info.num = 1 THEN [h |-> max_h(src.comps), v |-> max_v(src.comps)]
             ELSE src.comps[ci]

LEMMA WholeAxis ==
  ASSUME NEW m \in 1 .. 4, NEW full \in Nat
  PROVE  jdiv_round_up(full * m, m) = full
<1> USE DEF jdiv_round_up
<1>1. CASE m = 1
  BY <1>1
<1>2. CASE m = 2
  BY <1>2
<1>3. CASE m = 3
  BY <1>3
<1>4. CASE m = 4
  BY <1>4
<1> QED
  BY <1>1, <1>2, <1>3, <1>4

LEMMA ShownFactors ==
  ASSUME IInv, phase \in AfterAdjust, NEW ci \in DOMAIN dst.comps
  PROVE  /\ ci \in DOMAIN src.comps /\ ci \in 1 .. num_components /\ ci \in Nat
         /\ src.comps[ci].h = Shown(ci).h /\ src.comps[ci].v = Shown(ci).v
         /\ Shown(ci).h \in 1 .. max_h(src.comps) /\ Shown(ci).v \in 1 .. max_v(src.comps)
         /\ num_components # 1 =>
              /\ dst.comps[ci].h = IF transpose_it THEN Shown(ci).v ELSE Shown(ci).h
              /\ dst.comps[ci].v = IF transpose_it THEN Shown(ci).h ELSE Shown(ci).v
         /\ num_components = 1 =>
              /\ dst.comps[ci].h = 1 /\ dst.comps[ci].v = 1
              /\ Shown(ci).h = max_h(src.comps) /\ Shown(ci).v = max_v(src.comps)
<1>1. /\ dst.comps = [k \in 1 .. num_components |-> OutputComponent(k)]
      /\ num_components \in 1 .. Len(src.comps)
  BY ComponentsKnown
<1>2. Read /\ info.num = num_components
  BY OutputKnown DEF Information
<1>3. src.comps \in Seq(ComponentType) /\ src.comps # <<>>
  BY <1>2 DEF Read, PictureType
<1>4. PICK n \in Nat, s \in Seq(ComponentType) :
        n = num_components /\ s = src.comps /\ s # <<>> /\ n \in 1 .. Len(s)
  BY <1>1, <1>3
<1>5. ci \in 1 .. n /\ dst.comps[ci] = OutputComponent(ci) /\ ci \in DOMAIN s
  BY <1>1, <1>4
<1>6. PICK c \in ComponentType : c = s[ci]
  BY <1>5
<1>7. PICK sh \in 1 .. 4, sv \in 1 .. 4 : sh = max_h(s) /\ sv = max_v(s)
  BY <1>4, MaxFactors
<1>8. /\ \A k \in DOMAIN s : s[k].h <= sh /\ s[k].v <= sv
      /\ \E k \in DOMAIN s : s[k].h = sh
      /\ \E k \in DOMAIN s : s[k].v = sv
  BY <1>4, <1>7, MaxFactors
<1>9. c.h \in 1 .. 4 /\ c.v \in 1 .. 4 /\ c.h <= sh /\ c.v <= sv
  BY <1>5, <1>6, <1>8 DEF ComponentType
<1>10. CASE n # 1
  <2>1. Shown(ci) = c
    BY <1>2, <1>4, <1>6, <1>10 DEF Shown
  <2>2. transpose_it => dst.comps[ci].h = c.v /\ dst.comps[ci].v = c.h
    <3>1. transpose_it => OutputComponent(ci) = [h |-> c.v, v |-> c.h, q |-> c.q]
      BY <1>4, <1>6, <1>10 DEF OutputComponent
    <3> QED
      BY <1>5, <3>1
  <2>3. ~ transpose_it => dst.comps[ci] = c
    BY <1>4, <1>5, <1>6, <1>10 DEF OutputComponent
  <2> QED
    BY <1>4, <1>5, <1>6, <1>7, <1>9, <1>10, <2>1, <2>2, <2>3
<1>11. CASE n = 1
  <2>1. Shown(ci).h = sh /\ Shown(ci).v = sv
    BY <1>2, <1>4, <1>7, <1>11 DEF Shown
  <2>2. dst.comps[ci].h = 1 /\ dst.comps[ci].v = 1
    BY <1>4, <1>5, <1>11 DEF OutputComponent
  <2>3. ci = 1
    BY <1>5, <1>11
  <2>4. c.h = sh /\ c.v = sv
    <3>1. CASE opt.gray
      <4>1. grayscale
        BY <3>1 DEF IInv, Adjusted
      <4> QED
        BY <1>4, <1>6, <1>7, <2>3, <4>1 DEF grayscale
    <3>2. CASE ~ opt.gray
      <4>1. Len(s) = 1
        BY <1>4, <1>11, <3>2 DEF num_components
      <4>2. \A k \in DOMAIN s : k = ci
        BY <2>3, <4>1
      <4> QED
        BY <1>6, <1>8, <4>2
    <3> QED
      BY <3>1, <3>2
  <2> QED
    BY <1>4, <1>5, <1>6, <1>7, <1>9, <1>11, <2>1, <2>2, <2>4
<1> QED
  BY <1>10, <1>11

LEMMA ShownSamples ==
  ASSUME IInv, phase \in AfterAdjust, NEW ci \in DOMAIN dst.comps
  PROVE  /\ SamplesHigh(src, Shown(ci)) = IF transpose_it THEN SamplesAcross(ci) ELSE SamplesDown(ci)
         /\ SamplesWide(src, Shown(ci)) = IF transpose_it THEN SamplesDown(ci) ELSE SamplesAcross(ci)
<1>1. PICK c : c = Shown(ci)
  OBVIOUS
<1>2. Read
  BY OutputKnown
<1>3. src.w \in Nat /\ src.h \in Nat /\ src.comps \in Seq(ComponentType) /\ src.comps # <<>>
  BY <1>2 DEF Read, PictureType
<1>4. PICK sh \in 1 .. 4, sv \in 1 .. 4 : sh = max_h(src.comps) /\ sv = max_v(src.comps)
  BY <1>3, MaxFactors
<1>5. SamplesHigh(src, c) = jdiv_round_up(src.h * c.v, sv)
      /\ SamplesWide(src, c) = jdiv_round_up(src.w * c.h, sh)
  BY <1>4 DEF SamplesHigh, SamplesWide
<1>6. CASE num_components # 1
  <2>1. /\ dst.comps[ci].h = IF transpose_it THEN c.v ELSE c.h
        /\ dst.comps[ci].v = IF transpose_it THEN c.h ELSE c.v
    BY <1>1, <1>6, ShownFactors
  <2>2. /\ max_h(dst.comps) = IF transpose_it THEN sv ELSE sh
        /\ max_v(dst.comps) = IF transpose_it THEN sh ELSE sv
    BY <1>4, <1>6, OutputFactors
  <2>3. CASE transpose_it
    BY <1>1, <1>5, <2>1, <2>2, <2>3 DEF SamplesAcross, SamplesDown, full_width, full_height
  <2>4. CASE ~ transpose_it
    BY <1>1, <1>5, <2>1, <2>2, <2>4 DEF SamplesAcross, SamplesDown, full_width, full_height
  <2> QED
    BY <2>3, <2>4
<1>7. CASE num_components = 1
  <2>1. dst.comps[ci].h = 1 /\ dst.comps[ci].v = 1 /\ c.h = sh /\ c.v = sv
    BY <1>1, <1>4, <1>7, ShownFactors
  <2>2. max_h(dst.comps) = 1 /\ max_v(dst.comps) = 1
    BY <1>7, OutputFactors
  <2>3. full_width \in Nat /\ full_height \in Nat
    BY <1>2, AxesKnown
  <2>4. SamplesAcross(ci) = full_width /\ SamplesDown(ci) = full_height
    BY <2>1, <2>2, <2>3, WholeAxis DEF SamplesAcross, SamplesDown
  <2>5. SamplesHigh(src, c) = src.h /\ SamplesWide(src, c) = src.w
    BY <1>3, <1>5, <2>1, WholeAxis
  <2> QED
    BY <1>1, <2>4, <2>5 DEF full_width, full_height
<1> QED
  BY <1>6, <1>7

(***************************************************************************)
(* The arrays of the source hold blocks, one for every sample.             *)
(***************************************************************************)
LEMMA ArraysOfBlocks ==
  ASSUME NEW s, NEW ci \in Nat, NEW j \in Int, NEW k \in Int
  PROVE  BlockAt(SourceArray(s, ci), j, k) \in BlockType
<1>1. DCTSIZE - 1 = 1
  BY DEF DCTSIZE
<1>2. Garbage \in BlockType
  BY <1>1 DEF Garbage, Block, BlockType
<1>3. PICK a : a = SourceArray(s, ci)
  OBVIOUS
<1>4. CASE j \in DOMAIN a /\ k \in DOMAIN a[j]
  <2>1. a[j][k] = Block(LAMBDA x, y : IF x + y = 0 THEN 20 * (100 * ci + 10 * j + k) ELSE 1)
    BY <1>3, <1>4 DEF SourceArray
  <2>2. 20 * (100 * ci + 10 * j + k) \in Int
    OBVIOUS
  <2>3. a[j][k] \in BlockType
    <3>1. PICK e \in Int : e = 20 * (100 * ci + 10 * j + k)
      BY <2>2
    <3>2. a[j][k] = [x \in 0 .. 1 |-> [y \in 0 .. 1 |-> IF x + y = 0 THEN e ELSE 1]]
      BY <1>1, <2>1, <3>1 DEF Block
    <3> QED
      BY ONLY <3>2, e \in Int DEF BlockType
  <2> QED
    BY <1>3, <1>4, <2>3, BlockInside
<1>5. CASE ~ (j \in DOMAIN a /\ k \in DOMAIN a[j])
  BY <1>2, <1>3, <1>5 DEF BlockAt
<1> QED
  BY <1>4, <1>5

LEMMA QuantBlocks ==
  ASSUME NEW q \in 0 .. 1
  PROVE  QuantTable[q] \in BlockType
BY DEF QuantTable, Block, BlockType, DCTSIZE

LEMMA SamplesInArrays ==
  ASSUME IInv, phase \in AfterAdjust, NEW ci \in DOMAIN dst.comps,
         NEW s \in Nat, s < SamplesHigh(src, Shown(ci)),
         NEW t \in Nat, t < SamplesWide(src, Shown(ci))
  PROVE  /\ ci \in DOMAIN SourceArrays /\ SourceArrays[ci] = SourceArray(src, ci)
         /\ s \div 2 \in DOMAIN SourceArrays[ci]
         /\ \A k \in Nat : k <= t \div 2 => k \in DOMAIN SourceArrays[ci][s \div 2]
<1>1. ci \in DOMAIN src.comps /\ Read
  BY ShownFactors, OutputKnown
<1>2. ci \in DOMAIN SourceArrays /\ SourceArrays[ci] = SourceArray(src, ci)
  BY <1>1 DEF SourceArrays
<1>3. src.w \in Nat \ {0} /\ src.h \in Nat \ {0} /\ src.comps \in Seq(ComponentType) /\ src.comps # <<>>
  BY <1>1 DEF Read, PictureType
<1>4. PICK sh \in 1 .. 4, sv \in 1 .. 4 : sh = max_h(src.comps) /\ sv = max_v(src.comps)
  BY <1>3, MaxFactors
<1>5. PICK fh \in 1 .. sh, fv \in 1 .. sv :
        /\ fh = src.comps[ci].h /\ fv = src.comps[ci].v
        /\ fh = Shown(ci).h /\ fv = Shown(ci).v
  BY <1>4, ShownFactors
<1>6. PICK w \in Nat \ {0}, h \in Nat \ {0} : w = src.w /\ h = src.h
  BY <1>3
<1>7. s < jdiv_round_up(h * fv, sv) /\ t < jdiv_round_up(w * fh, sh)
  BY <1>4, <1>5, <1>6 DEF SamplesHigh, SamplesWide
<1>8. s \div 2 < jround_up(jdiv_round_up(h * fv, sv * 2), fv)
  BY <1>7, AxisPadding
<1>9. t \div 2 < jround_up(jdiv_round_up(w * fh, sh * 2), fh)
  BY <1>7, AxisPadding
<1>10. PICK rows, cols : rows = jround_up(jdiv_round_up(h * fv, sv * 2), fv)
                        /\ cols = jround_up(jdiv_round_up(w * fh, sh * 2), fh)
  OBVIOUS
<1>11. rows \in Int /\ cols \in Int
  <2>1. jdiv_round_up(h * fv, sv * 2) \in Int /\ jdiv_round_up(w * fh, sh * 2) \in Int
    BY DEF jdiv_round_up
  <2> QED
    BY <1>10, <2>1 DEF jround_up, jdiv_round_up
<1>12. /\ DOMAIN SourceArray(src, ci) = 0 .. rows - 1
       /\ \A y \in 0 .. rows - 1 : DOMAIN SourceArray(src, ci)[y] = 0 .. cols - 1
  BY <1>4, <1>5, <1>6, <1>10 DEF SourceArray, DCTSIZE
<1>13. s \div 2 \in 0 .. rows - 1
  BY <1>8, <1>10, <1>11
<1>14. ASSUME NEW k \in Nat, k <= t \div 2 PROVE k \in 0 .. cols - 1
  BY <1>9, <1>10, <1>11, <1>14
<1> QED
  BY <1>2, <1>12, <1>13, <1>14

(***************************************************************************)
(* A sample of the output: its block is one of those that are written, and *)
(* what it is to show is in the source.                                    *)
(***************************************************************************)
OutputSample(ci, y, x) ==
  /\ y \in 0 .. SamplesHigh(dst, dst.comps[ci]) - 1
  /\ x \in 0 .. SamplesWide(dst, dst.comps[ci]) - 1

LEMMA PlaceKnown ==
  ASSUME IInv, phase \in AfterAdjust, NEW ci \in DOMAIN dst.comps
  PROVE  /\ Place(ci) \in PlaceType
         /\ \A y, x : OutputSample(ci, y, x) =>
              /\ y \in Nat /\ x \in Nat
              /\ y \div 2 \in 0 .. Place(ci).rows - 1 /\ x \div 2 \in 0 .. Place(ci).cols - 1
              /\ y + Place(ci).y * 2 \in 0 .. SamplesDown(ci) - 1
              /\ x + Place(ci).x * 2 \in 0 .. SamplesAcross(ci) - 1
              /\ Mirrored(y + Place(ci).y * 2, Place(ci).height * 2) \in 0 .. SamplesDown(ci) - 1
              /\ Mirrored(x + Place(ci).x * 2, Place(ci).width * 2) \in 0 .. SamplesAcross(ci) - 1
              /\ y \div 2 < jdiv_round_up(info.h, iMCU_sample_height) * dst.comps[ci].v
              /\ x \div 2 < jdiv_round_up(info.w, iMCU_sample_width) * dst.comps[ci].h
<1>1. /\ dst.w = WidthOut /\ dst.h = HeightOut /\ info.x = RegionX.offset
      /\ info.y = RegionY.offset /\ dst.w = info.w /\ dst.h = info.h
  BY OutputKnown DEF Information
<1>2. Read /\ Asked.ok /\ RegionX.ok /\ RegionY.ok
  BY OutputKnown
<1>3. PICK mh \in 1 .. 4, mv \in 1 .. 4 :
        /\ mh = max_h(dst.comps) /\ mv = max_v(dst.comps)
        /\ iMCU_sample_width = mh * 2 /\ iMCU_sample_height = mv * 2
  BY OutputFactors
<1>4. PICK fh \in 1 .. mh, fv \in 1 .. mv : fh = dst.comps[ci].h /\ fv = dst.comps[ci].v
  BY <1>3, OutputFactors
<1>5. PICK fw \in Nat \ {0}, fl \in Nat \ {0} : fw = full_width /\ fl = full_height
  BY <1>2, AxesKnown
<1>6. PICK ox \in Nat, oy \in Nat, w \in Nat \ {0}, h \in Nat \ {0} :
        /\ ox = info.x /\ oy = info.y /\ w = dst.w /\ h = dst.h
        /\ ox * (mh * 2) + w <= fw /\ oy * (mv * 2) + h <= fl
  <2>0. PICK iw \in {2, 4, 6, 8}, ih \in {2, 4, 6, 8} : iw = mh * 2 /\ ih = mv * 2
    BY <1>3
  <2>1. PICK x, y : x = RegionX /\ y = RegionY
    OBVIOUS
  <2>2. PICK tx, ty : OutputHolds(dst.w, x, fw, iw, tx) /\ OutputHolds(dst.h, y, fl, ih, ty)
    BY <1>1, <1>2, <1>3, <1>5, <2>0, <2>1, OutputsHold
  <2>3. PICK p : RegionHolds(x, fw, iw, p)
    BY <1>2, <1>3, <1>5, <2>0, <2>1, RegionsHold
  <2>4. PICK q : RegionHolds(y, fl, ih, q)
    BY <1>2, <1>3, <1>5, <2>0, <2>1, RegionsHold
  <2>5. dst.w \in Nat \ {0} /\ dst.w <= x.size /\ dst.h \in Nat \ {0} /\ dst.h <= y.size
    BY <2>2 DEF OutputHolds
  <2>6. /\ x.offset \in Nat /\ x.size \in Nat /\ x.offset * iw + x.size <= fw
        /\ y.offset \in Nat /\ y.size \in Nat /\ y.offset * ih + y.size <= fl
    BY <2>3, <2>4 DEF RegionHolds
  <2>7. PICK a \in Nat, b \in Nat : a = x.offset * iw /\ b = y.offset * ih
    BY <2>6
  <2>8. x.offset * iw + dst.w <= fw /\ y.offset * ih + dst.h <= fl
    BY <2>5, <2>6, <2>7
  <2>9. info.x = x.offset /\ info.y = y.offset
    BY <1>1, <2>1
  <2> QED
    BY <2>0, <2>5, <2>6, <2>8, <2>9
<1>7. PICK kx \in Nat, ky \in Nat : kx = ox * fh /\ ky = oy * fv
  <2>1. fh \in Nat /\ fv \in Nat
    OBVIOUS
  <2> QED
    BY <2>1
<1>8. PICK width, height : width = WholeBlocks(fw, mh, fh) /\ height = WholeBlocks(fl, mv, fv)
  OBVIOUS
<1>9. PICK nx, ny : nx = jdiv_round_up(fw * fh, mh) /\ ny = jdiv_round_up(fl * fv, mv)
  OBVIOUS
<1>10. nx \in Int /\ ny \in Int
  BY <1>9 DEF jdiv_round_up
<1>11. SamplesAcross(ci) = nx /\ SamplesDown(ci) = ny
  BY <1>3, <1>4, <1>5, <1>9 DEF SamplesAcross, SamplesDown
<1>12. PICK bx \in Nat, by \in Nat : bx = jdiv_round_up(w * fh, mh * 2)
                                   /\ by = jdiv_round_up(h * fv, mv * 2)
  BY DEF jdiv_round_up
<1>13. PICK g : g = Place(ci)
  OBVIOUS
<1>14. /\ g.rows = jround_up(by, fv)
       /\ g.cols = IF transpose_it THEN jround_up(bx, fh) ELSE bx
       /\ g.x = kx /\ g.y = ky /\ g.width = width /\ g.height = height
       /\ g = [rows |-> g.rows, cols |-> g.cols, x |-> kx, y |-> ky, width |-> width, height |-> height]
  BY <1>3, <1>4, <1>5, <1>6, <1>7, <1>8, <1>12, <1>13 DEF Place, DCTSIZE, WholeBlocks
<1>15. jround_up(by, fv) \in Nat /\ by <= jround_up(by, fv)
       /\ jround_up(bx, fh) \in Nat /\ bx <= jround_up(bx, fh)
  <2>1. fv \in 1 .. 4 /\ fh \in 1 .. 4
    OBVIOUS
  <2> QED
    BY <2>1, RoundedUp
<1>16. g.rows \in Nat /\ g.cols \in Nat /\ by <= g.rows /\ bx <= g.cols
  BY <1>14, <1>15
<1>17. ASSUME NEW y \in Nat, y < jdiv_round_up(h * fv, mv)
       PROVE  /\ y + ky * 2 < ny /\ y \div 2 < by /\ y \div 2 < jdiv_round_up(h, mv * 2) * fv
              /\ height \in Nat /\ height * 2 <= ny
  <2>1. y + oy * fv * 2 < ny
    BY <1>6, <1>9, <1>17, AxisSamples
  <2>2. y \div 2 < jdiv_round_up(h * fv, mv * 2)
    BY <1>6, <1>17, AxisSamples
  <2>3. y \div 2 < jdiv_round_up(h, mv * 2) * fv
    BY <1>6, <1>17, AxisSamples
  <2>4. height \in Nat
    BY <1>6, <1>8, <1>17, AxisSamples
  <2>5. height * 2 <= ny
    BY <1>6, <1>8, <1>9, <1>17, AxisSamples
  <2> QED
    BY <1>7, <1>12, <2>1, <2>2, <2>3, <2>4, <2>5
<1>18. ASSUME NEW x \in Nat, x < jdiv_round_up(w * fh, mh)
       PROVE  /\ x + kx * 2 < nx /\ x \div 2 < bx /\ x \div 2 < jdiv_round_up(w, mh * 2) * fh
              /\ width \in Nat /\ width * 2 <= nx
  <2>1. x + ox * fh * 2 < nx
    BY <1>6, <1>9, <1>18, AxisSamples
  <2>2. x \div 2 < jdiv_round_up(w * fh, mh * 2)
    BY <1>6, <1>18, AxisSamples
  <2>3. x \div 2 < jdiv_round_up(w, mh * 2) * fh
    BY <1>6, <1>18, AxisSamples
  <2>4. width \in Nat
    BY <1>6, <1>8, <1>18, AxisSamples
  <2>5. width * 2 <= nx
    BY <1>6, <1>8, <1>9, <1>18, AxisSamples
  <2> QED
    BY <1>7, <1>12, <2>1, <2>2, <2>3, <2>4, <2>5
<1>19. ASSUME NEW z \in Nat, NEW n \in Int, z < n, NEW k \in Nat, k * 2 <= n
       PROVE  Mirrored(z, k * 2) \in 0 .. n - 1
  BY <1>19 DEF Mirrored
<1>20. width \in Int /\ height \in Int
  BY <1>8 DEF WholeBlocks, DCTSIZE
<1>21. g \in PlaceType
  BY <1>14, <1>16, <1>20 DEF PlaceType
<1>22. ASSUME NEW y, NEW x, OutputSample(ci, y, x)
       PROVE  /\ y \in Nat /\ x \in Nat
              /\ y < jdiv_round_up(h * fv, mv) /\ x < jdiv_round_up(w * fh, mh)
  <2>1. PICK a \in Int, b \in Int : a = jdiv_round_up(h * fv, mv) /\ b = jdiv_round_up(w * fh, mh)
    BY DEF jdiv_round_up
  <2>2. y \in 0 .. a - 1 /\ x \in 0 .. b - 1
    BY <1>3, <1>4, <1>6, <1>22, <2>1 DEF OutputSample, SamplesHigh, SamplesWide
  <2> QED
    BY <2>1, <2>2
<1>23. ASSUME NEW y, NEW x, OutputSample(ci, y, x)
       PROVE  /\ y \in Nat /\ x \in Nat
              /\ y \div 2 \in 0 .. g.rows - 1 /\ x \div 2 \in 0 .. g.cols - 1
              /\ y + ky * 2 \in 0 .. ny - 1 /\ x + kx * 2 \in 0 .. nx - 1
              /\ Mirrored(y + ky * 2, height * 2) \in 0 .. ny - 1
              /\ Mirrored(x + kx * 2, width * 2) \in 0 .. nx - 1
              /\ y \div 2 < jdiv_round_up(h, mv * 2) * fv
              /\ x \div 2 < jdiv_round_up(w, mh * 2) * fh
  <2>1. /\ y \in Nat /\ x \in Nat
        /\ y < jdiv_round_up(h * fv, mv) /\ x < jdiv_round_up(w * fh, mh)
    BY <1>22, <1>23
  <2>2. /\ y + ky * 2 < ny /\ y \div 2 < by /\ y \div 2 < jdiv_round_up(h, mv * 2) * fv
        /\ height \in Nat /\ height * 2 <= ny
    BY <1>17, <2>1
  <2>3. /\ x + kx * 2 < nx /\ x \div 2 < bx /\ x \div 2 < jdiv_round_up(w, mh * 2) * fh
        /\ width \in Nat /\ width * 2 <= nx
    BY <1>18, <2>1
  <2>4. y + ky * 2 \in Nat /\ x + kx * 2 \in Nat
    BY <2>1
  <2>5. Mirrored(y + ky * 2, height * 2) \in 0 .. ny - 1
    BY <1>10, <1>19, <2>2, <2>4
  <2>6. Mirrored(x + kx * 2, width * 2) \in 0 .. nx - 1
    BY <1>10, <1>19, <2>3, <2>4
  <2>7. y \div 2 \in 0 .. g.rows - 1 /\ x \div 2 \in 0 .. g.cols - 1
    BY <1>16, <2>1, <2>2, <2>3
  <2>8. y + ky * 2 \in 0 .. ny - 1 /\ x + kx * 2 \in 0 .. nx - 1
    BY <1>10, <2>2, <2>3, <2>4
  <2> QED
    BY <2>1, <2>2, <2>3, <2>5, <2>6, <2>7, <2>8
<1>24. info.h = h /\ info.w = w
  BY <1>1, <1>6
<1> QED
  BY <1>3, <1>4, <1>11, <1>13, <1>14, <1>21, <1>23, <1>24

LEMMA FlippedBlocks ==
  ASSUME NEW a, NEW g \in PlaceType, g.y = 0, opt.transform = "FLIP_H",
         NEW y \in 0 .. g.rows - 1, NEW x \in 0 .. g.cols - 1,
         y \in DOMAIN a, x \in DOMAIN a[y], x + g.x \in DOMAIN a[y]
  PROVE  BlockAt(do_flip_h_no_crop(a, g), y, x)
           = BlockMoved(a, y + g.y, x + g.x, g.height, g.width)
<1>1. PICK b : b = [j \in DOMAIN a |-> [k \in DOMAIN a[j] |->
                      IF k < g.width /\ j < g.rows
                      THEN OddColumnsNegated(BlockAt(a, j, g.width - k - 1)) ELSE a[j][k]]]
  OBVIOUS
<1>2. PICK m : m = do_flip_h_no_crop(a, g)
  OBVIOUS
<1>3. m = [j \in DOMAIN a |-> [k \in DOMAIN a[j] |->
             IF k < g.cols /\ j < g.rows THEN BlockAt(b, j, k + g.x) ELSE b[j][k]]]
  BY <1>1, <1>2 DEF do_flip_h_no_crop
<1>4. g.rows \in Int /\ g.cols \in Int /\ g.x \in Int
  BY DEF PlaceType
<1>5. y < g.rows /\ x < g.cols /\ y + g.y = y
  BY <1>4
<1>6. y \in DOMAIN m /\ x \in DOMAIN m[y] /\ m[y][x] = BlockAt(b, y, x + g.x)
  BY <1>3, <1>5
<1>7. y \in DOMAIN b /\ x + g.x \in DOMAIN b[y]
  BY <1>1
<1>8. b[y][x + g.x] = IF x + g.x < g.width
                      THEN OddColumnsNegated(BlockAt(a, y, g.width - (x + g.x) - 1))
                      ELSE a[y][x + g.x]
  BY <1>1, <1>5
<1>9. BlockAt(a, y, x + g.x) = a[y][x + g.x]
  BY BlockInside
<1>10. BlockAt(m, y, x) = b[y][x + g.x]
  BY <1>6, <1>7, BlockInside
<1>11. BlockMoved(a, y, x + g.x, g.height, g.width)
         = IF x + g.x < g.width
           THEN OddColumnsNegated(BlockAt(a, y, g.width - (x + g.x) - 1))
           ELSE BlockAt(a, y, x + g.x)
  BY DEF BlockMoved
<1> QED
  BY <1>2, <1>5, <1>8, <1>9, <1>10, <1>11

\* The workspace has room for every block that is shown.
LEMMA WorkBlocks ==
  ASSUME IInv, phase \in AfterAdjust, NEW ci \in DOMAIN dst.comps, ~ Left, ~ InPlace,
         NEW y, NEW x, OutputSample(ci, y, x)
  PROVE  BlockAt(MovedArray(ci), y \div 2, x \div 2)
           = BlockAt(Moved(SourceArrays[ci], Place(ci)), y \div 2, x \div 2)
<1>1. Read
  BY OutputKnown
<1>2. Known
  BY <1>1 DEF Read, OptionType, Known
<1>3. NeedsWorkspace(opt.transform, info.x, info.y)
  BY <1>2 DEF Known, NeedsWorkspace, Left, InPlace
<1>4. ci \in 1 .. num_components
  BY ShownFactors
<1>5. WorkArrays[ci] = Workspace(ci, info.w, info.h)
  BY <1>3, <1>4 DEF WorkArrays
<1>6. PICK rows, cols : /\ rows = jdiv_round_up(info.h, iMCU_sample_height) * dst.comps[ci].v
                        /\ cols = jdiv_round_up(info.w, iMCU_sample_width) * dst.comps[ci].h
  OBVIOUS
<1>7. /\ DOMAIN WorkArrays[ci] = 0 .. rows - 1
      /\ \A j \in 0 .. rows - 1 : DOMAIN WorkArrays[ci][j] = 0 .. cols - 1
  <2>1. CASE num_components = 1
    <3>1. dst.comps[ci].h = 1 /\ dst.comps[ci].v = 1
      BY <2>1, ShownFactors
    <3> QED
      BY <1>5, <1>6, <2>1, <3>1 DEF Workspace
  <2>2. CASE num_components # 1
    <3>1. src.comps[ci].h = Shown(ci).h /\ src.comps[ci].v = Shown(ci).v
      BY ShownFactors
    <3>2. /\ dst.comps[ci].h = IF transpose_it THEN Shown(ci).v ELSE Shown(ci).h
          /\ dst.comps[ci].v = IF transpose_it THEN Shown(ci).h ELSE Shown(ci).v
      BY <2>2, ShownFactors
    <3>3. /\ dst.comps[ci].h = IF transpose_it THEN src.comps[ci].v ELSE src.comps[ci].h
          /\ dst.comps[ci].v = IF transpose_it THEN src.comps[ci].h ELSE src.comps[ci].v
      BY <3>1, <3>2
    <3> QED
      BY <1>5, <1>6, <2>2, <3>3 DEF Workspace
  <2> QED
    BY <2>1, <2>2
<1>8. rows \in Int /\ cols \in Int
  <2>1. info.w \in Nat /\ info.h \in Nat
    <3>1. phase \in AfterRequest
      BY DEF AfterAdjust, AfterRequest
    <3> QED
      BY <3>1, SizesAreKnown DEF SizesKnown
  <2>2. iMCU_sample_height \in {2, 4, 6, 8} /\ iMCU_sample_width \in {2, 4, 6, 8}
    BY <1>1, AxesKnown
  <2>3. dst.comps[ci].h \in Int /\ dst.comps[ci].v \in Int
    BY OutputFactors
  <2>4. jdiv_round_up(info.h, iMCU_sample_height) \in Int
        /\ jdiv_round_up(info.w, iMCU_sample_width) \in Int
    BY <2>1, <2>2 DEF jdiv_round_up
  <2> QED
    BY <1>6, <2>3, <2>4
<1>9. /\ y \in Nat /\ x \in Nat
      /\ y \div 2 < rows /\ x \div 2 < cols
  BY <1>6, PlaceKnown
<1>10. y \div 2 \in 0 .. rows - 1 /\ x \div 2 \in 0 .. cols - 1
  BY <1>8, <1>9
<1>11. PICK j, k : j = y \div 2 /\ k = x \div 2
  OBVIOUS
<1>12. /\ j \in DOMAIN MovedArray(ci) /\ k \in DOMAIN MovedArray(ci)[j]
       /\ MovedArray(ci)[j][k] = BlockAt(Moved(SourceArrays[ci], Place(ci)), j, k)
  BY <1>7, <1>10, <1>11 DEF MovedArray
<1> QED
  BY <1>11, <1>12, BlockInside

\* What is to be shown lies inside of the source, and not in its padding.
LEMMA ShownInside ==
  ASSUME IInv, phase \in AfterAdjust, NEW ci \in DOMAIN dst.comps,
         NEW y, NEW x, OutputSample(ci, y, x), NEW at,
         at = SourceOf(y + Place(ci).y * 2, x + Place(ci).x * 2,
                       Place(ci).height * 2, Place(ci).width * 2)
  PROVE  /\ at[1] \in Nat /\ at[1] < SamplesHigh(src, Shown(ci))
         /\ at[2] \in Nat /\ at[2] < SamplesWide(src, Shown(ci))
<1>1. Read
  BY OutputKnown
<1>2. Known
  BY <1>1 DEF Read, OptionType, Known
<1>3. PICK s, t, ms, mt : /\ s = y + Place(ci).y * 2 /\ t = x + Place(ci).x * 2
                          /\ ms = Mirrored(s, Place(ci).height * 2)
                          /\ mt = Mirrored(t, Place(ci).width * 2)
  OBVIOUS
<1>4. PICK ny, nx : ny = SamplesDown(ci) /\ nx = SamplesAcross(ci)
  OBVIOUS
<1>5. ny \in Int /\ nx \in Int
  <2>1. full_width \in Nat /\ full_height \in Nat
    BY <1>1, AxesKnown
  <2>2. PICK mh \in 1 .. 4, mv \in 1 .. 4 : mh = max_h(dst.comps) /\ mv = max_v(dst.comps)
    BY OutputFactors
  <2>3. dst.comps[ci].h \in Int /\ dst.comps[ci].v \in Int
    BY OutputFactors
  <2> QED
    BY <1>4, <2>1, <2>2, <2>3 DEF SamplesDown, SamplesAcross, jdiv_round_up
<1>6. {s, ms} \subseteq 0 .. ny - 1 /\ {t, mt} \subseteq 0 .. nx - 1
  BY <1>3, <1>4, PlaceKnown
<1>7. /\ transpose_it => at[1] \in {t, mt} /\ at[2] \in {s, ms}
      /\ ~ transpose_it => at[1] \in {s, ms} /\ at[2] \in {t, mt}
  BY <1>2, <1>3 DEF Known, SourceOf, transpose_it, Transposing
<1>8. /\ SamplesHigh(src, Shown(ci)) = IF transpose_it THEN nx ELSE ny
      /\ SamplesWide(src, Shown(ci)) = IF transpose_it THEN ny ELSE nx
  BY <1>4, ShownSamples
<1>9. CASE transpose_it
  BY <1>5, <1>6, <1>7, <1>8, <1>9
<1>10. CASE ~ transpose_it
  BY <1>5, <1>6, <1>7, <1>8, <1>10
<1> QED
  BY <1>9, <1>10

OutputArray(ci) == IF work # <<>> THEN work[ci] ELSE coefs[ci]

\* The block of the output a sample is in.
LEMMA OutputBlocks ==
  ASSUME IInv, phase = "done", NEW ci \in DOMAIN dst.comps, NEW y, NEW x, OutputSample(ci, y, x)
  PROVE  BlockAt(OutputArray(ci), y \div 2, x \div 2)
           = BlockMoved(SourceArray(src, ci), y \div 2 + Place(ci).y, x \div 2 + Place(ci).x,
                        Place(ci).height, Place(ci).width)
<1>1. phase \in AfterAdjust
  BY DEF AfterAdjust
<1>2. PICK g \in PlaceType : g = Place(ci)
  BY <1>1, PlaceKnown
<1>3. PICK j \in Nat, k \in Nat : /\ j = y \div 2 /\ k = x \div 2
                                  /\ j \in 0 .. g.rows - 1 /\ k \in 0 .. g.cols - 1
  BY <1>1, <1>2, PlaceKnown
<1>4. PICK a : a = SourceArray(src, ci)
  OBVIOUS
<1>5. Read /\ ci \in DOMAIN src.comps /\ SourceArrays[ci] = a
  BY <1>1, <1>4, OutputKnown, ShownFactors DEF SourceArrays
<1>6. Known
  BY <1>5 DEF Read, OptionType, Known
<1>7. CASE Left
  <2>1. work = <<>> /\ coefs[ci] = a
    BY <1>5, <1>7 DEF IInv, Executed, WorkArrays, NeedsWorkspace, Left
  <2>2. g.x = 0 /\ g.y = 0
    <3>1. dst.comps[ci].h \in Int /\ dst.comps[ci].v \in Int
      BY <1>1, OutputFactors
    <3> QED
      BY <1>2, <1>7, <3>1 DEF Left, Place
  <2>3. BlockMoved(a, j, k, g.height, g.width) = BlockAt(a, j, k)
    BY <1>7 DEF Left, BlockMoved
  <2> QED
    BY <1>2, <1>3, <1>4, <2>1, <2>2, <2>3 DEF OutputArray
<1>8. CASE InPlace
  <2>1. work = <<>> /\ coefs[ci] = do_flip_h_no_crop(a, g)
    BY <1>2, <1>5, <1>8 DEF IInv, Executed, WorkArrays, NeedsWorkspace, InPlace, FlippedArray
  <2>2. g.y = 0 /\ ~ transpose_it
    <3>1. dst.comps[ci].v \in Int
      BY <1>1, OutputFactors
    <3> QED
      BY <1>2, <1>8, <3>1 DEF InPlace, Place, transpose_it, Transposing
  <2>3. PICK s \in Nat, t \in Nat :
          /\ s = y + g.y * 2 /\ t = x + g.x * 2
          /\ s \in 0 .. SamplesDown(ci) - 1 /\ t \in 0 .. SamplesAcross(ci) - 1
    BY <1>1, <1>2, PlaceKnown
  <2>4. SamplesHigh(src, Shown(ci)) = SamplesDown(ci) /\ SamplesWide(src, Shown(ci)) = SamplesAcross(ci)
    BY <1>1, <2>2, ShownSamples
  <2>5. SamplesDown(ci) \in Int /\ SamplesAcross(ci) \in Int
    <3>1. full_width \in Nat /\ full_height \in Nat
      BY <1>5, AxesKnown
    <3>2. PICK mh \in 1 .. 4, mv \in 1 .. 4 : mh = max_h(dst.comps) /\ mv = max_v(dst.comps)
      BY <1>1, OutputFactors
    <3>3. dst.comps[ci].h \in Int /\ dst.comps[ci].v \in Int
      BY <1>1, OutputFactors
    <3> QED
      BY <3>1, <3>2, <3>3 DEF SamplesDown, SamplesAcross, jdiv_round_up
  <2>6. s < SamplesHigh(src, Shown(ci)) /\ t < SamplesWide(src, Shown(ci))
    BY <2>3, <2>4, <2>5
  <2>7. y \in Nat /\ x \in Nat /\ g.x \in Nat
    <3>1. y \in Nat /\ x \in Nat
      BY <1>1, PlaceKnown
    <3>2. dst.comps[ci].h \in Nat
      BY <1>1, OutputFactors
    <3>3. info.x \in Nat
      <4>1. info.x = RegionX.offset /\ Asked.ok /\ RegionX.ok /\ RegionY.ok
        BY <1>1, OutputKnown DEF Information
      <4> QED
        BY <1>5, <4>1, RegionsHold DEF RegionHolds
    <3>4. g.x = info.x * dst.comps[ci].h
      BY <1>2 DEF Place
    <3> QED
      BY <3>1, <3>2, <3>3, <3>4
  <2>8. s \div 2 = j /\ t \div 2 = k + g.x
    BY <1>3, <2>2, <2>3, <2>7
  <2>9. s \div 2 \in DOMAIN a /\ \A n \in Nat : n <= t \div 2 => n \in DOMAIN a[s \div 2]
    BY <1>1, <1>5, <2>6, SamplesInArrays
  <2>10. j \in DOMAIN a /\ k \in DOMAIN a[j] /\ k + g.x \in DOMAIN a[j]
    <3>1. k <= t \div 2 /\ k + g.x <= t \div 2 /\ k \in Nat /\ k + g.x \in Nat
      BY <2>7, <2>8
    <3> QED
      BY <2>8, <2>9, <3>1
  <2>11. BlockAt(do_flip_h_no_crop(a, g), j, k) = BlockMoved(a, j + g.y, k + g.x, g.height, g.width)
    BY <1>3, <1>8, <2>2, <2>10, FlippedBlocks DEF InPlace
  <2> QED
    BY <1>2, <1>3, <1>4, <2>1, <2>11 DEF OutputArray
<1>9. CASE ~ Left /\ ~ InPlace
  <2>1. work = [k1 \in DOMAIN dst.comps |-> MovedArray(k1)]
    BY <1>9 DEF IInv, Executed
  <2>2. work[ci] = MovedArray(ci) /\ work # <<>>
    BY <2>1
  <2>3. BlockAt(MovedArray(ci), j, k) = BlockAt(Moved(a, g), j, k)
    BY <1>1, <1>2, <1>3, <1>5, <1>9, WorkBlocks
  <2>4. BlockAt(Moved(a, g), j, k) = BlockMoved(a, j + g.y, k + g.x, g.height, g.width)
    BY <1>3, <1>6, MovedBlocks
  <2> QED
    BY <1>2, <1>3, <1>4, <2>2, <2>3, <2>4 DEF OutputArray
<1> QED
  BY <1>7, <1>8, <1>9

\* transupp.c, the do_ routines: every sample of the output is the sample of the source
\* that the rotation, mirroring and cropping put there, for every picture and sampling.
THEOREM SamplesInPlace == Spec => []EverySampleInPlace
<1>1. ASSUME IInv PROVE EverySampleInPlace
  <2> SUFFICES ASSUME phase = "done", NEW ci \in DOMAIN dst.comps,
                      NEW y \in 0 .. SamplesHigh(dst, dst.comps[ci]) - 1,
                      NEW x \in 0 .. SamplesWide(dst, dst.comps[ci]) - 1,
                      NEW at, at = SourceOf(y + Place(ci).y * DCTSIZE, x + Place(ci).x * DCTSIZE,
                                            Place(ci).height * DCTSIZE, Place(ci).width * DCTSIZE)
               PROVE  /\ at[1] < SamplesHigh(src, Shown(ci))
                      /\ at[2] < SamplesWide(src, Shown(ci))
                      /\ SampleOf(OutputArray(ci), dst.quant[dst.comps[ci].q], <<y, x>>)
                           = SampleOf(SourceArray(src, ci), QuantTable[dst.comps[ci].q], at)
    BY Zenon DEF EverySampleInPlace, OutputArray, Shown
  <2>1. phase \in AfterAdjust /\ OutputSample(ci, y, x)
    BY DEF AfterAdjust, OutputSample
  <2>2. at = SourceOf(y + Place(ci).y * 2, x + Place(ci).x * 2,
                      Place(ci).height * 2, Place(ci).width * 2)
    BY DEF DCTSIZE
  <2>3. at[1] < SamplesHigh(src, Shown(ci)) /\ at[2] < SamplesWide(src, Shown(ci))
    BY <1>1, <2>1, <2>2, ShownInside
  <2>4. PICK g \in PlaceType : g = Place(ci)
    BY <1>1, <2>1, PlaceKnown
  <2>5. y \in Nat /\ x \in Nat
    BY <1>1, <2>1, PlaceKnown
  <2>6. /\ g.y \in Int /\ g.x \in Int /\ g.height \in Int /\ g.width \in Int
    BY DEF PlaceType
  <2>7. PICK j \in Int, k \in Int, u \in 0 .. 1, v \in 0 .. 1, s \in Int, t \in Int :
          /\ j = y \div 2 + g.y /\ k = x \div 2 + g.x /\ u = y % 2 /\ v = x % 2
          /\ s = y + g.y * 2 /\ t = x + g.x * 2 /\ s = j * 2 + u /\ t = k * 2 + v
    <3>1. y = (y \div 2) * 2 + (y % 2) /\ x = (x \div 2) * 2 + (x % 2)
          /\ y % 2 \in 0 .. 1 /\ x % 2 \in 0 .. 1
      BY <2>5
    <3> QED
      BY <2>5, <2>6, <3>1
  <2>8. PICK a : a = SourceArray(src, ci)
    OBVIOUS
  <2>9. HoldsBlocks(a)
    <3>1. ci \in Nat
      BY <1>1, <2>1, ShownFactors
    <3> QED
      BY <2>8, <3>1, ArraysOfBlocks DEF HoldsBlocks
  <2>10. dst.comps[ci].q \in 0 .. 1
    <3>1. dst.comps \in Seq(ComponentType)
      BY <1>1, <2>1, ComponentsKnown
    <3>2. dst.comps[ci] \in ComponentType
      BY <3>1
    <3> QED
      BY <3>2 DEF ComponentType
  <2>11. PICK q \in BlockType : q = QuantTable[dst.comps[ci].q]
    BY <2>10, QuantBlocks
  <2>12. dst.quant[dst.comps[ci].q] = IF transpose_it THEN Transposed(q) ELSE q
    BY <1>1, <2>1, <2>10, <2>11, ComponentsKnown
  <2>13. Known
    BY <1>1 DEF IInv, Read, OptionType, Known
  <2>14. BlockAt(OutputArray(ci), y \div 2, x \div 2) = BlockMoved(a, j, k, g.height, g.width)
    BY <1>1, <2>1, <2>4, <2>7, <2>8, OutputBlocks
  <2>15. SampleOf(OutputArray(ci), dst.quant[dst.comps[ci].q], <<y, x>>)
           = Sample(BlockMoved(a, j, k, g.height, g.width),
                    IF transpose_it THEN Transposed(q) ELSE q, u, v)
    BY <2>7, <2>12, <2>14 DEF SampleOf, DCTSIZE
  <2>16. Sample(BlockMoved(a, j, k, g.height, g.width),
                IF transpose_it THEN Transposed(q) ELSE q, u, v)
           = SampleOf(a, q, SourceOf(s, t, g.height * 2, g.width * 2))
    <3>1. PICK h \in Int, w \in Int : h = g.height /\ w = g.width
      BY <2>6
    <3>2. Sample(BlockMoved(a, j, k, h, w), IF transpose_it THEN Transposed(q) ELSE q, u, v)
            = SampleOf(a, q, SourceOf(s, t, h * 2, w * 2))
      BY ONLY <2>7, <2>9, <2>13, h \in Int, w \in Int, j \in Int, k \in Int, u \in 0 .. 1,
              v \in 0 .. 1, s \in Int, t \in Int, q \in BlockType, SamplesMoved
    <3> QED
      BY <3>1, <3>2
  <2>17. at = SourceOf(s, t, g.height * 2, g.width * 2)
    BY <2>2, <2>4, <2>7
  <2> QED
    BY <2>3, <2>8, <2>11, <2>15, <2>16, <2>17
<1> QED
  BY <1>1, Invariance, PTL
=============================================================================
