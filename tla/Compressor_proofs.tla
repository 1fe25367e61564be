------------------------- MODULE Compressor_proofs -------------------------
(***************************************************************************)
(* Proofs about Compressor: the buffer of the correction bits, for every   *)
(* image, every scan script that validate_script lets pass, every restart  *)
(* interval and every size of the buffer that holds a block.               *)
(***************************************************************************)
EXTENDS Compressor, FiniteSetTheorems, SequenceTheorems, WellFoundedInduction, TLAPS

\* A set of natural numbers that has any has a least.
LEMMA NatMin ==
  ASSUME NEW T \in SUBSET Nat, T # {}
  PROVE  \E m \in T : \A k \in T : m <= k
<1> DEFINE R == OpToRel(<, Nat)
<1>1. IsWellFoundedOn(R, Nat)
  BY NatLessThanWellFounded, Zenon
<1>2. \A x, y \in Nat : <<y, x>> \in R <=> y < x
  BY DEF OpToRel
<1> HIDE DEF R
<1>3. PICK m \in T : \A k \in T : ~ (<<k, m>> \in R)
  BY <1>1, WFMin
<1>4. \A k \in T : m <= k
  <2> TAKE k \in T
  <2>1. m \in Nat /\ k \in Nat /\ ~ (k < m)
    BY <1>2, <1>3
  <2> QED
    BY <2>1
<1> QED
  BY <1>4

\* What holds of 0, and of a number if of the one before, holds up to any number.
LEMMA UpTo ==
  ASSUME NEW n \in Nat, NEW S, 0 \in S,
         \A k \in 1 .. n : k - 1 \in S => k \in S
  PROVE  0 .. n \subseteq S
<1> SUFFICES ASSUME (0 .. n) \ S # {} PROVE FALSE
  OBVIOUS
<1>0. (0 .. n) \ S \in SUBSET Nat
  OBVIOUS
<1>1. PICK m \in (0 .. n) \ S : \A k \in (0 .. n) \ S : m <= k
  BY <1>0, NatMin
<1>2. m \in 1 .. n /\ m - 1 \in 0 .. n
  BY <1>1
<1>3. m - 1 \in S
  BY <1>1, <1>2
<1> QED
  BY <1>1, <1>2, <1>3

-----------------------------------------------------------------------------
(* Scan scripts *)

\* A band of coefficients that lies in a block.
Band == {s \in ScanType : 0 <= s.Ss /\ s.Ss <= s.Se /\ s.Se < DCTSIZE * DCTSIZE}

\* The loop of reduce_script.
Reducing(kept, s, lim) ==
  IF s.Ss > lim THEN kept ELSE Append(kept, [s EXCEPT !.Se = IF @ > lim THEN lim ELSE @])
\* Its states, the script of n scans up to the end.
Reduced(script, lim, n, g) ==
  g = [i \in 0 .. n |-> IF i = 0 THEN <<>> ELSE Reducing(g[i - 1], script[i], lim)]

\* The loop of reduce_script gets to the end of the script.
LEMMA ReducedExist ==
  ASSUME NEW script, NEW lim, NEW n \in Nat
  PROVE  \E g : Reduced(script, lim, n, g)
<1> DEFINE S == {k \in 0 .. n : \E g : Reduced(script, lim, k, g)}
<1>1. 0 \in S
  <2>1. Reduced(script, lim, 0, [i \in 0 .. 0 |-> <<>>])
    BY DEF Reduced
  <2> QED
    BY <2>1
<1>2. ASSUME NEW k \in 1 .. n, k - 1 \in S PROVE k \in S
  <2>1. PICK g : Reduced(script, lim, k - 1, g)
    BY <1>2
  <2> DEFINE h == [i \in 0 .. k |-> IF i < k THEN g[i] ELSE Reducing(g[k - 1], script[k], lim)]
  <2>2. ASSUME NEW i \in 0 .. k
        PROVE  h[i] = IF i = 0 THEN <<>> ELSE Reducing(h[i - 1], script[i], lim)
    <3>1. CASE i < k
      BY <2>1, <3>1 DEF Reduced
    <3>2. CASE i = k
      BY <3>2
    <3> QED
      BY <3>1, <3>2
  <2>3. Reduced(script, lim, k, h)
    BY <2>2 DEF Reduced
  <2> QED
    BY <2>3
<1> HIDE DEF S
<1>3. 0 .. n \subseteq S
  BY <1>1, <1>2, UpTo
<1> QED
  BY <1>3 DEF S

\* What reduce_script returns is what its loop has kept at the end.
LEMMA ReduceScript ==
  ASSUME NEW script, NEW lim, Len(script) \in Nat
  PROVE  \E g : Reduced(script, lim, Len(script), g)
                /\ reduce_script(script, lim) = g[Len(script)]
<1> DEFINE s == CHOOSE g : Reduced(script, lim, Len(script), g)
<1>1. Reduced(script, lim, Len(script), s)
  BY ReducedExist
<1>2. reduce_script(script, lim) = s[Len(script)]
  BY DEF reduce_script, Reduced, Reducing
<1> QED
  BY <1>1, <1>2

\* Of a script that begins with the first coefficient something is left, and every
\* band that is left lies in a block.
LEMMA ReducedBands ==
  ASSUME NEW script \in Seq(Band), NEW lim \in 0 .. 63,
         script # <<>>, script[1].Ss <= lim
  PROVE  reduce_script(script, lim) \in Seq(Band) /\ reduce_script(script, lim) # <<>>
<1>0. PICK n \in Nat : n = Len(script)
  OBVIOUS
<1>6. lim \in Int /\ lim < 64
  OBVIOUS
<1>1. PICK g : Reduced(script, lim, n, g) /\ reduce_script(script, lim) = g[n]
  BY <1>0, ReduceScript
<1> DEFINE S == {k \in 0 .. n : g[k] \in Seq(Band) /\ (k > 0 => g[k] # <<>>)}
<1>2. 0 \in S
  BY <1>1 DEF Reduced
<1>3. ASSUME NEW k \in 1 .. n, k - 1 \in S PROVE k \in S
  <2>1. g[k] = Reducing(g[k - 1], script[k], lim)
    BY <1>1 DEF Reduced
  <2>2. PICK s \in Band : s = script[k]
    BY <1>0
  <2>3. PICK r \in Seq(Band) : r = g[k - 1] /\ (k > 1 => r # <<>>)
    BY <1>3
  <2>4. CASE s.Ss > lim
    <3>1. k > 1
      BY <2>2, <2>4, <1>0 DEF Band, ScanType
    <3> QED
      BY <2>1, <2>2, <2>3, <2>4, <3>1 DEF Reducing
  <2>5. CASE ~(s.Ss > lim)
    <3> DEFINE t == [s EXCEPT !.Se = IF @ > lim THEN lim ELSE @]
    <3>1. t \in Band
      <4>1. s \in ScanType /\ 0 <= s.Ss /\ s.Ss <= s.Se /\ s.Se < 64
        BY DEF Band, DCTSIZE
      <4>3. t \in ScanType
        BY <4>1, <1>6 DEF ScanType
      <4>4. t.Ss = s.Ss /\ t.Se = IF s.Se > lim THEN lim ELSE s.Se
        BY <4>1 DEF ScanType
      <4>5. s.Ss \in Int /\ s.Se \in Int
        BY <4>1 DEF ScanType
      <4> HIDE DEF t
      <4>6. 0 <= t.Ss /\ t.Ss <= t.Se /\ t.Se < 64
        BY <2>5, <4>1, <1>6, <4>4, <4>5
      <4> QED
        BY <4>3, <4>6 DEF Band, DCTSIZE
    <3>2. g[k] = Append(r, t)
      BY <2>1, <2>2, <2>3, <2>5 DEF Reducing
    <3> HIDE DEF t
    <3>3. Append(r, t) \in Seq(Band) /\ Append(r, t) # <<>>
      BY <3>1, AppendProperties
    <3>4. g[k] \in Seq(Band) /\ g[k] # <<>>
      BY <3>2, <3>3, Zenon
    <3> QED
      BY <3>4
  <2> QED
    BY <2>4, <2>5
<1> HIDE DEF S
<1>4. 0 .. n \subseteq S
  BY <1>2, <1>3, UpTo
<1>5. n > 0
  BY <1>0
<1> QED
  BY <1>1, <1>4, <1>5 DEF S

\* A progressive script that is let pass sends bands of a block, and begins with the
\* first coefficient: the others of a component come only after it.
LEMMA ValidScript ==
  ASSUME NEW script \in Seq(ScanType), NEW ncomps, IsProgressive(script),
         validate_script(script, ncomps)
  PROVE  script \in Seq(Band) /\ script # <<>> /\ script[1].Ss = 0
<1>1. \A n \in DOMAIN script : LegalProgression(script, n) /\ InFrameOrder(script[n], ncomps)
  BY DEF validate_script
<1>2. script # <<>>
  BY DEF IsProgressive
<1>3. \A n \in 1 .. Len(script) : script[n] \in Band
  <2> SUFFICES ASSUME NEW n \in 1 .. Len(script) PROVE script[n] \in Band
    OBVIOUS
  <2>1. script[n] \in ScanType /\ n \in DOMAIN script
    OBVIOUS
  <2> QED
    BY <1>1, <2>1 DEF LegalProgression, Band
<1>4. script[1].Ss = 0
  <2> SUFFICES ASSUME script[1].Ss # 0 PROVE FALSE
    OBVIOUS
  <2>0. 1 \in DOMAIN script
    BY <1>2
  <2>1. PICK c : c \in Range(script[1].comps)
    <3>1. Len(script[1].comps) \in 1 .. MAX_COMPS_IN_SCAN /\ script[1].comps \in Seq(Nat)
      <4>1. script[1] \in ScanType
        BY <2>0
      <4> QED
        BY <1>1, <2>0, <4>1 DEF InFrameOrder, ScanType
    <3>2. 1 \in DOMAIN script[1].comps
      BY <3>1 DEF MAX_COMPS_IN_SCAN
    <3> QED
      BY <3>2 DEF Range
  <2>2. LastBitpos(script, 1, c, 0) >= 0
    BY <1>1, <2>0, <2>1 DEF LegalProgression
  <2>3. LastBitpos(script, 1, c, 0) = -1
    BY DEF LastBitpos
  <2> QED
    BY <2>2, <2>3
<1> QED
  BY <1>2, <1>3, <1>4
-----------------------------------------------------------------------------
(* The encoder *)

\* Some sequence, of whatever.
IsSequence(s) == s \in Seq(Range(s))

\* Sequences stay sequences.
LEMMA EmptyIsSequence == IsSequence(<<>>)
BY DEF IsSequence, Range

LEMMA AppendIsSequence ==
  ASSUME NEW s, NEW x, IsSequence(s)
  PROVE  IsSequence(Append(s, x))
<1> DEFINE T == Range(s) \cup {x}
           a == Append(s, x)
<1>1. s \in Seq(T) /\ x \in T
  BY DEF IsSequence
<1> HIDE DEF T
<1>2. a \in Seq(T)
  BY <1>1, AppendProperties
<1> HIDE DEF a
<1>3. \A i \in 1 .. Len(a) : a[i] \in Range(a)
  BY <1>2 DEF Range
<1>4. a \in Seq(Range(a))
  BY <1>2, <1>3
<1> QED
  BY <1>4 DEF IsSequence, a

LEMMA ConcatIsSequence ==
  ASSUME NEW s, NEW t, IsSequence(s), IsSequence(t)
  PROVE  IsSequence(s \o t)
<1> DEFINE T == Range(s) \cup Range(t)
           a == s \o t
<1>1. s \in Seq(T) /\ t \in Seq(T)
  BY DEF IsSequence
<1> HIDE DEF T
<1>2. a \in Seq(T)
  BY <1>1
<1> HIDE DEF a
<1>3. \A i \in 1 .. Len(a) : a[i] \in Range(a)
  BY <1>2 DEF Range
<1>4. a \in Seq(Range(a))
  BY <1>2, <1>3
<1> QED
  BY <1>4 DEF IsSequence, a

\* Correction bits may wait for the end of a run; a block's fit behind them.
Waits(e) == "BE" \in DOMAIN e /\ IsSequence(e.BE) /\ ~BufferLow(e)

\* After emit_eobrun no correction bits wait.
LEMMA NoEobrunWaits ==
  ASSUME NEW e, "BE" \in DOMAIN e
  PROVE  Waits(NoEobrun(e))
<1> DEFINE f == NoEobrun(e)
<1>1. "BE" \in DOMAIN f /\ f.BE = <<>>
  BY DEF NoEobrun
<1> HIDE DEF f
<1>2. ~BufferLow(f)
  BY <1>1, BufferAssumption DEF BufferLow, DCTSIZE
<1>3. Waits(f)
  BY <1>1, <1>2, EmptyIsSequence DEF Waits
<1> QED
  BY <1>3 DEF f

\* What changes nothing of the correction bits changes nothing of their room.
LEMMA SameWaits ==
  ASSUME NEW e, NEW f, Waits(e), DOMAIN f = DOMAIN e, f.BE = e.BE
  PROVE  Waits(f)
BY DEF Waits, BufferLow

\* What changes other fields of the encoder keeps the bits that wait: the DC
\* predictions, the count of a restart interval.
LEMMA ChangedWaits ==
  ASSUME NEW e, NEW field, NEW value, Waits(e), field # "BE"
  PROVE  Waits([e EXCEPT ![field] = value])
<1> DEFINE f == [e EXCEPT ![field] = value]
<1>1. DOMAIN f = DOMAIN e /\ f.BE = e.BE
  BY DEF Waits
<1> HIDE DEF f
<1> QED
  BY <1>1, SameWaits DEF f

LEMMA NoPredictionWaits ==
  ASSUME NEW e, Waits(e)
  PROVE  Waits(NoPrediction(e))
BY ChangedWaits, Zenon DEF NoPrediction

LEMMA UpdatedDCWaits ==
  ASSUME NEW e, NEW blocks, NEW M, NEW Al, Waits(e)
  PROVE  Waits(UpdatedDC(e, blocks, M, Al))
BY ChangedWaits, Zenon DEF UpdatedDC

LEMMA CountRestartWaits ==
  ASSUME NEW e, NEW interval, Waits(e)
  PROVE  Waits(CountRestart(e, interval))
<1> DEFINE f == CountRestart(e, interval)
<1>1. DOMAIN f = DOMAIN e /\ f.BE = e.BE
  BY DEF Waits, CountRestart
<1> HIDE DEF f
<1> QED
  BY <1>1, SameWaits DEF f

\* The run is forced out when the buffer of its correction bits gets low.
LEMMA SendFullRunWaits ==
  ASSUME NEW e, NEW ops, NEW full, NEW tbl, "BE" \in DOMAIN e, IsSequence(e.BE),
         BufferLow(e) => full
  PROVE  Waits(SendFullRun(e, ops, full, tbl).e)
<1>1. CASE full
  <2>1. SendFullRun(e, ops, full, tbl).e = NoEobrun(e)
    BY <1>1 DEF SendFullRun
  <2> QED
    BY <2>1, NoEobrunWaits
<1>2. CASE ~full
  BY <1>2 DEF SendFullRun, Waits
<1> QED
  BY <1>1, <1>2

\* The end of a block in a first AC scan.
LEMMA EndFirstWaits ==
  ASSUME NEW e, NEW ops, NEW ends, NEW tbl, Waits(e)
  PROVE  Waits(EndFirst(e, ops, ends, tbl).e)
<1>1. CASE ends
  <2> DEFINE f == [e EXCEPT !.EOBRUN = @ + 1]
  <2>1. DOMAIN f = DOMAIN e /\ f.BE = e.BE
    BY DEF Waits
  <2>2. EndFirst(e, ops, ends, tbl) = SendFullRun(f, ops, e.EOBRUN + 1 = MAX_EOBRUN, tbl)
    BY <1>1 DEF EndFirst
  <2> HIDE DEF f
  <2>3. Waits(f)
    BY <2>1, SameWaits
  <2> QED
    BY <2>2, <2>3, SendFullRunWaits DEF Waits
<1>2. CASE ~ends
  BY <1>2 DEF EndFirst
<1> QED
  BY <1>1, <1>2

\* A block of a first AC scan adds no correction bits.
LEMMA AcFirstWaits ==
  ASSUME NEW e, NEW s, NEW tbl, NEW block, Waits(e)
  PROVE  Waits(encode_mcu_AC_first(e, s, tbl, block).e)
<1> DEFINE ended == Nonzero(PointTransform(block, s.Al), s.Ss, s.Se) # <<>>
           f == IF ended THEN NoEobrun(e) ELSE e
<1>1. Waits(f)
  BY NoEobrunWaits DEF Waits
<1> HIDE DEF f
<1> QED
  BY <1>1, EndFirstWaits DEF encode_mcu_AC_first, f

\* The refinement of a block at any of its coefficients.
Refining(w) ==
  {"r", "BR", "e", "ops"} \subseteq DOMAIN w /\ IsSequence(w.BR) /\ Waits(w.e)

\* The ZRLs, which take the waiting bits with them (jchuff.c, the while of
\* encode_mcu_AC_refine).
LEMMA PastZeroesRefining ==
  ASSUME NEW w, NEW tbl, Refining(w)
  PROVE  Refining(PastZeroes(w, tbl))
<1> DEFINE v == PastZeroes(w, tbl)
<1>1. DOMAIN v = DOMAIN w /\ v.BR = <<>> /\ v.e = NoEobrun(w.e)
  BY DEF Refining, PastZeroes
<1> HIDE DEF v
<1>2. Waits(NoEobrun(w.e))
  BY NoEobrunWaits DEF Refining, Waits
<1>3. Refining(v)
  BY <1>1, <1>2, EmptyIsSequence DEF Refining
<1> QED
  BY <1>3 DEF v

\* A coefficient that is not zero, known before or new.
LEMMA RefineValueRefining ==
  ASSUME NEW w, NEW value, NEW tbl, Refining(w)
  PROVE  Refining(RefineValue(w, value, tbl))
<1> DEFINE v == RefineValue(w, value, tbl)
<1>1. CASE Abs(value) > 1
  <2>1. DOMAIN v = DOMAIN w /\ v.BR = Append(w.BR, Abs(value) % 2) /\ v.e = w.e
    BY <1>1 DEF Refining, RefineValue
  <2> HIDE DEF v
  <2>2. IsSequence(v.BR)
    BY <2>1, AppendIsSequence DEF Refining
  <2>3. Refining(v)
    BY <2>1, <2>2 DEF Refining
  <2> QED
    BY <2>3 DEF v
<1>2. CASE ~(Abs(value) > 1)
  <2>1. DOMAIN v = DOMAIN w /\ v.BR = <<>> /\ v.e = NoEobrun(w.e)
    BY <1>2 DEF Refining, RefineValue
  <2> HIDE DEF v
  <2>2. Waits(NoEobrun(w.e))
    BY NoEobrunWaits DEF Refining, Waits
  <2>3. Refining(v)
    BY <2>1, <2>2, EmptyIsSequence DEF Refining
  <2> QED
    BY <2>3 DEF v
<1> QED
  BY <1>1, <1>2

\* One turn of the loop.
LEMMA RefineNextRefining ==
  ASSUME NEW w, NEW k, NEW value, NEW EOB, NEW tbl, Refining(w)
  PROVE  Refining(RefineNext(w, k, value, EOB, tbl))
<1>1. CASE w.r > 15 /\ value # 0 /\ k <= EOB
  BY <1>1, PastZeroesRefining, RefineValueRefining DEF RefineNext
<1>2. CASE ~(w.r > 15 /\ value # 0 /\ k <= EOB) /\ value # 0
  BY <1>2, RefineValueRefining DEF RefineNext
<1>3. CASE value = 0
  <2> DEFINE v == RefineNext(w, k, value, EOB, tbl)
  <2>1. DOMAIN v = DOMAIN w /\ v.BR = w.BR /\ v.e = w.e
    BY <1>3 DEF Refining, RefineNext
  <2> HIDE DEF v
  <2>2. Refining(v)
    BY <2>1 DEF Refining
  <2> QED
    BY <2>2 DEF v
<1> QED
  BY <1>1, <1>2, <1>3

\* The loop of the refinement.
Refines(e, b, s, EOB, tbl, last, g) ==
  g = [k \in s.Ss - 1 .. last |->
        IF k < s.Ss THEN [r |-> 0, BR |-> <<>>, e |-> e, ops |-> <<>>]
        ELSE RefineNext(g[k - 1], k, b[k], EOB, tbl)]

\* The loop gets to the end of the band.
LEMMA RefinesExist ==
  ASSUME NEW e, NEW b, NEW s, NEW EOB, NEW tbl, NEW n \in Nat, s.Ss \in Int
  PROVE  \E g : Refines(e, b, s, EOB, tbl, s.Ss - 1 + n, g)
<1>0. PICK m \in Int : m = s.Ss
  OBVIOUS
<1> DEFINE Start == [r |-> 0, BR |-> <<>>, e |-> e, ops |-> <<>>]
           S == {k \in 0 .. n : \E g : Refines(e, b, s, EOB, tbl, m - 1 + k, g)}
<1> HIDE DEF Start
<1>1. 0 \in S
  <2>1. Refines(e, b, s, EOB, tbl, m - 1 + 0, [k \in m - 1 .. m - 1 |-> Start])
    BY <1>0 DEF Refines, Start
  <2> QED
    BY <2>1
<1>2. ASSUME NEW k \in 1 .. n, k - 1 \in S PROVE k \in S
  <2>1. PICK g : Refines(e, b, s, EOB, tbl, m - 1 + (k - 1), g)
    BY <1>2
  <2>2. PICK l \in Int : l = m - 1 + k
    OBVIOUS
  <2> DEFINE h == [i \in m - 1 .. l |-> IF i < l THEN g[i]
                                        ELSE RefineNext(g[l - 1], l, b[l], EOB, tbl)]
  <2>3. ASSUME NEW i \in m - 1 .. l
        PROVE  h[i] = IF i < m THEN Start ELSE RefineNext(h[i - 1], i, b[i], EOB, tbl)
    <3>1. CASE i < l
      BY <1>0, <2>1, <2>2, <3>1 DEF Refines, Start
    <3>2. CASE i = l
      BY <2>2, <3>2
    <3> QED
      BY <3>1, <3>2
  <2>4. Refines(e, b, s, EOB, tbl, l, h)
    BY <1>0, <2>3 DEF Refines, Start
  <2> QED
    BY <2>2, <2>4
<1> HIDE DEF S
<1>3. 0 .. n \subseteq S
  BY <1>1, <1>2, UpTo
<1> QED
  BY <1>0, <1>3 DEF S

\* The refinement at the end of the band.
LEMMA RefinedRefining ==
  ASSUME NEW e, NEW b, NEW s, NEW EOB, NEW tbl, s.Ss \in Int, s.Se \in Int, s.Ss <= s.Se, Waits(e)
  PROVE  Refining(Refined(e, b, s, EOB, tbl))
<1>0. PICK m \in Int, l \in Int : m = s.Ss /\ l = s.Se /\ m <= l
  OBVIOUS
<1>1. PICK n \in Nat : l = m - 1 + n
  <2>1. l - m + 1 \in Nat /\ l = m - 1 + (l - m + 1)
    BY <1>0
  <2> QED
    BY <2>1
<1> DEFINE f == CHOOSE g : Refines(e, b, s, EOB, tbl, s.Se, g)
<1>2. Refines(e, b, s, EOB, tbl, l, f)
  BY <1>0, <1>1, RefinesExist
<1>3. Refined(e, b, s, EOB, tbl) = f[l]
  BY <1>0 DEF Refined, Refines
<1> HIDE DEF f
<1> DEFINE S == {k \in 0 .. n : Refining(f[m - 1 + k])}
<1>4. 0 \in S
  <2>1. f[m - 1 + 0] = [r |-> 0, BR |-> <<>>, e |-> e, ops |-> <<>>]
    BY <1>0, <1>1, <1>2 DEF Refines
  <2>2. Refining([r |-> 0, BR |-> <<>>, e |-> e, ops |-> <<>>])
    BY EmptyIsSequence DEF Refining
  <2> QED
    BY <2>1, <2>2
<1>5. ASSUME NEW k \in 1 .. n, k - 1 \in S PROVE k \in S
  <2>1. PICK j \in Int : j = m - 1 + k
    OBVIOUS
  <2>2. f[j] = RefineNext(f[j - 1], j, b[j], EOB, tbl)
    <3>1. j \in s.Ss - 1 .. l /\ ~(j < s.Ss)
      BY <1>0, <1>1, <2>1
    <3> QED
      BY <1>2, <3>1 DEF Refines
  <2>3. Refining(f[j - 1])
    <3>1. j - 1 = m - 1 + (k - 1)
      BY <2>1
    <3> QED
      BY <1>5, <3>1
  <2>4. Refining(f[j])
    BY <2>2, <2>3, RefineNextRefining
  <2> QED
    BY <2>1, <2>4
<1> HIDE DEF S
<1>6. 0 .. n \subseteq S
  BY <1>4, <1>5, UpTo
<1> QED
  BY <1>1, <1>3, <1>6 DEF S

\* A block of a refining AC scan leaves room for the next one.
LEMMA AcRefineWaits ==
  ASSUME NEW e, NEW s, NEW tbl, NEW block, s.Ss \in Int, s.Se \in Int, s.Ss <= s.Se, Waits(e)
  PROVE  Waits(encode_mcu_AC_refine(e, s, tbl, block).e)
<1> DEFINE b == PointTransform(block, s.Al)
           new == {k \in s.Ss .. s.Se : Abs(b[k]) = 1}
           w == Refined(e, b, s, IF new = {} THEN 0 ELSE Max(new), tbl)
           ends == w.r > 0 \/ w.BR # <<>>
           r == [w.e EXCEPT !.EOBRUN = @ + 1, !.BE = @ \o w.BR]
           full == r.EOBRUN = MAX_EOBRUN \/ BufferLow(r)
<1>1. encode_mcu_AC_refine(e, s, tbl, block) = EndRefined(w, ends, tbl)
  BY DEF encode_mcu_AC_refine, EndOfBand
<1>2. Refining(w)
  BY RefinedRefining
<1> HIDE DEF w
<1>3. CASE ~ends
  BY <1>1, <1>2, <1>3 DEF EndRefined, Refining
<1>4. CASE ends
  <2>1. encode_mcu_AC_refine(e, s, tbl, block) = SendFullRun(r, w.ops, full, tbl)
    BY <1>1, <1>4 DEF EndRefined
  <2>2. "BE" \in DOMAIN r /\ r.BE = w.e.BE \o w.BR
    BY <1>2 DEF Refining, Waits
  <2> HIDE DEF r
  <2>3. IsSequence(r.BE)
    BY <1>2, <2>2, ConcatIsSequence DEF Refining, Waits
  <2> QED
    BY <2>1, <2>2, <2>3, SendFullRunWaits
<1> QED
  BY <1>3, <1>4

\* An MCU of a progressive scan.
LEMMA ProgressiveWaits ==
  ASSUME NEW f, NEW e, NEW s \in Band, NEW interval, NEW blocks, NEW M, Waits(e)
  PROVE  Waits(encode_mcu_progressive(f, e, s, interval, blocks, M).e)
<1> DEFINE tbl == f.comps[s.comps[1]].ac
           o == IF RestartDue(e, interval) THEN emit_restart_e(e, s, tbl)
                ELSE [e |-> e, ops |-> <<>>]
           q == EncodeBlocks(f, o.e, s, tbl, blocks, M)
<1>1. encode_mcu_progressive(f, e, s, interval, blocks, M).e = CountRestart(q.e, interval)
  BY DEF encode_mcu_progressive, EncodeAfter, Joined
<1>2. Waits(o.e)
  <2>1. CASE RestartDue(e, interval)
    <3>1. o.e = NoEobrun(e) \/ o.e = NoPrediction(NoEobrun(e))
      BY <2>1 DEF emit_restart_e
    <3>2. Waits(NoEobrun(e))
      BY NoEobrunWaits DEF Waits
    <3> QED
      BY <3>1, <3>2, NoPredictionWaits
  <2>2. CASE ~RestartDue(e, interval)
    BY <2>2
  <2> QED
    BY <2>1, <2>2
<1> HIDE DEF o
<1>3. s.Ss \in Int /\ s.Se \in Int /\ s.Ss <= s.Se
  BY DEF Band, ScanType
<1>4. Waits(q.e)
  <2>1. CASE s.Ss = 0 /\ s.Ah = 0
    <3>1. q.e = UpdatedDC(o.e, blocks, M, s.Al)
      BY <2>1 DEF EncodeBlocks, encode_mcu_DC_first
    <3> QED
      BY <1>2, <3>1, UpdatedDCWaits
  <2>2. CASE s.Ss = 0 /\ s.Ah # 0
    <3>1. q.e = o.e
      BY <2>2 DEF EncodeBlocks, encode_mcu_DC_refine
    <3> QED
      BY <1>2, <3>1
  <2>3. CASE s.Ss # 0 /\ s.Ah = 0
    <3>1. q = encode_mcu_AC_first(o.e, s, tbl, M[1])
      BY <2>3 DEF EncodeBlocks
    <3> QED
      BY <1>2, <3>1, AcFirstWaits
  <2>4. CASE s.Ss # 0 /\ s.Ah # 0
    <3>1. q = encode_mcu_AC_refine(o.e, s, tbl, M[1])
      BY <2>4 DEF EncodeBlocks
    <3> QED
      BY <1>2, <1>3, <3>1, AcRefineWaits
  <2> QED
    BY <2>1, <2>2, <2>3, <2>4
<1> HIDE DEF q
<1> QED
  BY <1>1, <1>4, CountRestartWaits
-----------------------------------------------------------------------------
(* The passes *)

\* A script that is sent was let pass.
Validated ==
  /\ \E j \in DOMAIN Jobs : job = Jobs[j]
  /\ phase = "compress" => job.script = <<>> \/ validate_script(job.script, Len(job.f.comps))

\* Of a progressive image each scan takes two passes, of which the first may be skipped.
PassOrder ==
  /\ {"type", "scan_number", "pass_number", "started", "at"} \subseteq DOMAIN pass
  /\ phase = "compress" /\ Progressive =>
       /\ pass.type \in {"main", "huff_opt", "output"}
       /\ pass.scan_number \in 0 .. NumScans - 1
       /\ pass.pass_number = 2 * pass.scan_number + IF pass.type = "output" THEN 1 ELSE 0

\* During a pass as many correction bits wait as leave room for a block's.
RoomLeft == Running /\ Progressive => Waits(entropy)

\* The inductive invariant.
CInv == Validated /\ PassOrder /\ RoomLeft

\* The scans that are sent lie in a block, also those of a reduced script.
LEMMA SentScript ==
  ASSUME Validated, phase = "compress", Progressive
  PROVE  Script \in Seq(Band) /\ NumScans = Len(Script) /\ NumScans \in Nat \ {0}
<1>1. job.script \in Seq(ScanType) /\ job.f.bs \in 1 .. 16
  BY JobsAssumption DEF Validated
<1>2. job.script # <<>>
  BY DEF Progressive, IsProgressive
<1>3. job.script \in Seq(Band) /\ job.script[1].Ss = 0
  BY <1>1, <1>2, ValidScript DEF Validated, Progressive
<1>4. ASSUME job.f.bs < DCTSIZE
      PROVE  lim_Se(job.f.bs) \in 0 .. 63
  <2>1. PICK n \in 1 .. 7 : n = job.f.bs
    BY <1>1, <1>4 DEF DCTSIZE
  <2>2. n * n - 1 \in 0 .. 63
    BY <2>1
  <2> QED
    BY <1>4, <2>1, <2>2 DEF lim_Se
<1>5. Script \in Seq(Band) /\ Script # <<>>
  <2>1. CASE job.f.bs < DCTSIZE
    <3>1. PICK lim \in 0 .. 63 : lim = lim_Se(job.f.bs)
      BY <1>4, <2>1
    <3>2. job.script[1].Ss <= lim
      <4>1. 0 <= lim
        BY <3>1
      <4> QED
        BY <1>3, <4>1, Zenon
    <3> QED
      BY <1>2, <1>3, <2>1, <3>1, <3>2, ReducedBands DEF Script
  <2>2. CASE ~(job.f.bs < DCTSIZE)
    BY <1>2, <1>3, <2>2 DEF Script
  <2> QED
    BY <2>1, <2>2
<1>6. NumScans = Len(Script)
  BY <1>2 DEF NumScans
<1>7. Len(Script) \in Nat \ {0}
  BY <1>5
<1> QED
  BY <1>5, <1>6, <1>7

\* The scan that is being sent is one of the script.
LEMMA SentScan ==
  ASSUME Validated, PassOrder, phase = "compress", Progressive
  PROVE  Scan \in Band
<1>1. PICK n \in 1 .. Len(Script) : n = pass.scan_number + 1
  <2>1. NumScans = Len(Script) /\ NumScans \in Nat /\ pass.scan_number \in 0 .. NumScans - 1
    BY SentScript DEF PassOrder
  <2> QED
    BY <2>1
<1>2. Script[n] \in Band
  BY SentScript
<1>3. Scan = Script[n]
  BY <1>1 DEF Scan, select_scan_parameters
<1> QED
  BY <1>2, <1>3

\* Before the first pass nothing waits.
LEMMA InitCInv == CompressorInit => CInv
<1> SUFFICES ASSUME CompressorInit PROVE CInv
  OBVIOUS
<1>1. Validated
  BY DEF CompressorInit, jinit_c_master_control, Validated
<1>2. PassOrder
  <2>1. pass = [type |-> "main", scan_number |-> 0, pass_number |-> 0, started |-> FALSE,
                at |-> ScanStart]
    BY DEF CompressorInit, jinit_c_master_control
  <2>2. phase = "compress" /\ Progressive => NumScans \in Nat \ {0}
    BY <1>1, SentScript
  <2> QED
    BY <2>1, <2>2 DEF PassOrder
<1>3. ~pass.started
  BY DEF CompressorInit, jinit_c_master_control
<1> QED
  BY <1>1, <1>2, <1>3 DEF CInv, RoomLeft, Running

\* What depends on the job alone stays.
LEMMA SameJob ==
  ASSUME job' = job
  PROVE  /\ Progressive' = Progressive /\ Script' = Script /\ NumScans' = NumScans
         /\ OptimizeCoding' = OptimizeCoding /\ TotalPasses' = TotalPasses
BY DEF Progressive, Script, NumScans, OptimizeCoding, TotalPasses

\* Where the compressor gives up nothing is left to be shown.
LEMMA GivenUp ==
  ASSUME CInv, job' = job, pass' = pass, phase' # "compress"
  PROVE  CInv'
BY SameJob DEF CInv, Validated, PassOrder, RoomLeft, Running

\* A pass starts with no bits waiting.
LEMMA PrepareCInv ==
  ASSUME CInv, prepare_for_pass
  PROVE  CInv'
<1>1. CASE phase' = "failed" /\ UNCHANGED <<compressor, file, params>>
  BY <1>1, GivenUp DEF compressor
<1>2. CASE phase' # "failed"
  <2> DEFINE skips == pass.type = "huff_opt" /\ SkipsGathering(Scan)
             type == IF skips THEN "output" ELSE pass.type
             gathers == OptimizeCoding /\ type # "output"
             derived == IF gathers THEN <<>>
                        ELSE [t \in TablesOf(job.f, Scan) |-> EncoderTable(tables[t])]
  <2>1. /\ phase = "compress" /\ phase' = phase /\ job' = job
        /\ pass' = [pass EXCEPT !.type = type, !.started = TRUE, !.at = ScanStart,
                                !.pass_number = IF skips THEN @ + 1 ELSE @]
        /\ entropy' = start_pass_huff(Scan, Interval, derived)
    BY <1>2 DEF prepare_for_pass
  <2> HIDE DEF derived
  <2>2. Validated'
    BY <2>1 DEF CInv, Validated
  <2>3. PassOrder'
    <3>0. PICK ps : ps = pass'
      OBVIOUS
    <3>1. DOMAIN pass' = DOMAIN pass
      BY <2>1
    <3>2. /\ pass'.type = type /\ pass'.scan_number = pass.scan_number
          /\ pass'.pass_number = IF skips THEN pass.pass_number + 1 ELSE pass.pass_number
      BY <2>1 DEF CInv, PassOrder
    <3> SUFFICES ASSUME Progressive
                 PROVE  /\ type \in {"main", "huff_opt", "output"}
                        /\ pass'.scan_number \in 0 .. NumScans - 1
                        /\ pass'.pass_number = 2 * pass'.scan_number
                                               + IF type = "output" THEN 1 ELSE 0
      BY <2>1, <3>1, <3>2, SameJob DEF CInv, PassOrder
    <3>3. /\ pass.type \in {"main", "huff_opt", "output"}
          /\ pass.scan_number \in 0 .. NumScans - 1
          /\ pass.pass_number = 2 * pass.scan_number + IF pass.type = "output" THEN 1 ELSE 0
      BY <2>1 DEF CInv, PassOrder
    <3>4. NumScans \in Nat
      BY <2>1, SentScript DEF CInv
    <3> HIDE DEF skips
    <3>5. skips => pass.type = "huff_opt"
      BY DEF skips
    <3> QED
      BY <3>2, <3>3, <3>4, <3>5
  <2>4. Waits(entropy')
    <3>1. "BE" \in DOMAIN entropy' /\ entropy'.BE = <<>>
      BY <2>1 DEF start_pass_huff
    <3>2. ~BufferLow(entropy')
      BY <3>1, BufferAssumption DEF BufferLow, DCTSIZE
    <3> QED
      BY <3>1, <3>2, EmptyIsSequence DEF Waits
  <2> QED
    BY <2>2, <2>3, <2>4 DEF CInv, RoomLeft
<1> QED
  BY <1>1, <1>2 DEF prepare_for_pass

\* An MCU that is encoded, or none, within a pass.
LEMMA WithinPass ==
  ASSUME CInv, job' = job, phase' = phase,
         pass' = pass \/ MoveOn,
         Running /\ Progressive => Waits(entropy')
  PROVE  CInv'
<1>1. /\ DOMAIN pass' = DOMAIN pass /\ pass'.type = pass.type /\ pass'.started = pass.started
      /\ pass'.scan_number = pass.scan_number /\ pass'.pass_number = pass.pass_number
  BY DEF MoveOn, CInv, PassOrder
<1>2. Validated'
  BY DEF CInv, Validated
<1>3. PassOrder'
  BY <1>1, SameJob DEF CInv, PassOrder
<1>4. RoomLeft'
  BY <1>1, SameJob DEF RoomLeft, Running
<1> QED
  BY <1>2, <1>3, <1>4 DEF CInv

\* An MCU leaves room for the next one.
LEMMA EncodedWaits ==
  ASSUME CInv, Running, Progressive
  PROVE  Waits(Encoded.e)
<1>1. Scan \in Band
  BY SentScan DEF CInv, Running
<1>2. Waits(entropy)
  BY DEF CInv, RoomLeft
<1>3. Encoded = encode_mcu_progressive(job.f, entropy, Scan, Interval, Blocks, MCU)
  BY DEF Encoded
<1> QED
  BY <1>1, <1>2, <1>3, ProgressiveWaits

\* An MCU that is counted.
LEMMA GatherCInv ==
  ASSUME CInv, GatherMCU
  PROVE  CInv'
<1>1. Running /\ entropy' = Encoded.e /\ MoveOn /\ job' = job /\ phase' = phase
  BY DEF GatherMCU
<1>2. Running /\ Progressive => Waits(entropy')
  BY <1>1, EncodedWaits
<1> QED
  BY <1>1, <1>2, WithinPass

\* An MCU that is written, waits for the destination, or has no code.
LEMMA OutputCInv ==
  ASSUME CInv, OutputMCU
  PROVE  CInv'
<1>1. CASE phase' = "failed" /\ UNCHANGED <<compressor, file, params>>
  BY <1>1, GivenUp DEF compressor
<1>2. CASE Suspend
  BY <1>2, WithinPass DEF Suspend, CInv, RoomLeft
<1>3. ASSUME NEW out, entropy' = [Encoded.e EXCEPT !.put = out], MoveOn,
             job' = job, phase' = phase
      PROVE  CInv'
  <2>1. Progressive => Waits(entropy')
    BY <1>3, EncodedWaits, ChangedWaits DEF OutputMCU
  <2> QED
    BY <1>3, <2>1, WithinPass
<1> QED
  BY <1>1, <1>2, <1>3 DEF OutputMCU

\* The end of a pass, and the next scan where there is one.
LEMMA FinishCInv ==
  ASSUME CInv, finish_pass_master
  PROVE  CInv'
<1>1. /\ phase = "compress" /\ job' = job
      /\ phase' = IF pass.pass_number + 1 = TotalPasses THEN "sent" ELSE phase
      /\ pass' = [pass EXCEPT
           !.type = IF Gathering \/ ~OptimizeCoding THEN "output" ELSE "huff_opt",
           !.scan_number = IF Gathering THEN @ ELSE @ + 1,
           !.pass_number = @ + 1, !.started = FALSE]
  BY DEF finish_pass_master, Running
<1>2. Validated'
  BY <1>1 DEF CInv, Validated
<1>3. /\ DOMAIN pass' = DOMAIN pass /\ pass'.started = FALSE
      /\ pass'.type = IF Gathering \/ ~OptimizeCoding THEN "output" ELSE "huff_opt"
      /\ pass'.scan_number = IF Gathering THEN pass.scan_number ELSE pass.scan_number + 1
      /\ pass'.pass_number = pass.pass_number + 1
  BY <1>1 DEF CInv, PassOrder
<1>4. PassOrder'
  <2> SUFFICES ASSUME Progressive, pass.pass_number + 1 # TotalPasses
               PROVE  /\ pass'.type \in {"main", "huff_opt", "output"}
                      /\ pass'.scan_number \in 0 .. NumScans - 1
                      /\ pass'.pass_number = 2 * pass'.scan_number
                                             + IF pass'.type = "output" THEN 1 ELSE 0
    BY <1>1, <1>3, SameJob DEF CInv, PassOrder
  <2>1. /\ pass.type \in {"main", "huff_opt", "output"}
        /\ pass.scan_number \in 0 .. NumScans - 1
        /\ pass.pass_number = 2 * pass.scan_number + IF pass.type = "output" THEN 1 ELSE 0
    BY <1>1 DEF CInv, PassOrder
  <2>2. NumScans \in Nat
    BY <1>1, SentScript DEF CInv
  <2>3. OptimizeCoding /\ TotalPasses = 2 * NumScans
    BY DEF OptimizeCoding, TotalPasses
  <2>4. Gathering <=> pass.type # "output"
    BY <2>3 DEF Gathering
  <2>5. CASE Gathering
    BY <1>3, <2>1, <2>2, <2>4, <2>5
  <2>6. CASE ~Gathering
    <3>1. pass.pass_number = 2 * pass.scan_number + 1
      BY <2>1, <2>4, <2>6
    <3>2. pass.scan_number + 1 # NumScans
      BY <2>1, <2>2, <2>3, <3>1
    <3>3. /\ pass'.type = "huff_opt" /\ pass'.scan_number = pass.scan_number + 1
          /\ pass'.pass_number = pass.pass_number + 1
      BY <1>3, <2>3, <2>6
    <3> QED
      BY <2>1, <2>2, <3>1, <3>2, <3>3
  <2> QED
    BY <2>5, <2>6
<1>5. RoomLeft'
  BY <1>3 DEF RoomLeft, Running
<1> QED
  BY <1>2, <1>4, <1>5 DEF CInv

\* Every step preserves the invariant, those after the compressor too.
LEMMA NextCInv ==
  ASSUME CInv, [CompressorNext \/ Afterwards]_<<phase, compressor, file, params>>
  PROVE  CInv'
<1>1. CASE prepare_for_pass
  BY <1>1, PrepareCInv
<1>2. CASE GatherMCU
  BY <1>2, GatherCInv
<1>3. CASE OutputMCU
  BY <1>3, OutputCInv
<1>4. CASE EmptyBuffer
  BY <1>4, WithinPass DEF EmptyBuffer, CInv, RoomLeft
<1>5. CASE finish_pass_master
  BY <1>5, FinishCInv
<1>6. CASE Afterwards
  BY <1>6, GivenUp DEF Afterwards, compressor
<1>7. CASE UNCHANGED <<phase, compressor, file, params>>
  BY <1>7, WithinPass DEF compressor, CInv, RoomLeft
<1> QED
  BY <1>1, <1>2, <1>3, <1>4, <1>5, <1>6, <1>7 DEF CompressorNext

\* The coefficients of a band are fewer than a block has.
LEMMA BandIsSmall ==
  ASSUME NEW s \in Band, s.Ss > 0, NEW B \in SUBSET (s.Ss .. s.Se)
  PROVE  Cardinality(B) \in 0 .. DCTSIZE * DCTSIZE - 1
<1>1. B \subseteq 1 .. 63
  <2>1. s.Ss \in Int /\ s.Se \in Int /\ s.Se < 64
    BY DEF Band, ScanType, DCTSIZE
  <2> QED
    BY <2>1
<1>2. IsFiniteSet(1 .. 63) /\ Cardinality(1 .. 63) = 63
  <2>1. 1 \in Int /\ 63 \in Int
    OBVIOUS
  <2>2. IsFiniteSet(1 .. 63) /\ Cardinality(1 .. 63) = IF 1 > 63 THEN 0 ELSE 63 - 1 + 1
    BY <2>1, FS_Interval, Zenon
  <2> QED
    BY <2>2
<1>3. IsFiniteSet(B) /\ Cardinality(B) <= 63
  <2>1. IsFiniteSet(B) /\ Cardinality(B) <= Cardinality(1 .. 63)
    BY <1>1, <1>2, FS_Subset, Zenon
  <2> QED
    BY <1>2, <2>1
<1>4. Cardinality(B) \in Nat
  BY <1>3, FS_CardinalityType
<1> QED
  BY <1>3, <1>4 DEF DCTSIZE

\* Whatever the image, the script, the restarts and the size of the buffer: the
\* correction bits of an MCU have room behind those that wait (encode_mcu_AC_refine
\* in jchuff.c, which forces a run out before the buffer can overflow).
THEOREM CorrectionBitsAlwaysFit == CompressorSpec => []CorrectionBitsHaveRoom
<1>1. CInv => CorrectionBitsHaveRoom
  <2> SUFFICES ASSUME CInv, Running, Progressive, Scan.Ss > 0
               PROVE  CorrectionBitsFit(entropy, Scan, MCU[1])
    BY DEF CorrectionBitsHaveRoom
  <2>1. Scan \in Band
    BY SentScan DEF CInv, Running
  <2> DEFINE b == PointTransform(MCU[1], Scan.Al)
             B == {k \in Scan.Ss .. Scan.Se : Abs(b[k]) > 1}
  <2>2. Cardinality(B) \in 0 .. DCTSIZE * DCTSIZE - 1
    BY <2>1, BandIsSmall
  <2>3. CorrectionBitsFit(entropy, Scan, MCU[1])
          <=> Len(entropy.BE) + Cardinality(B) <= MAX_CORR_BITS
    BY DEF CorrectionBitsFit
  <2> HIDE DEF B
  <2>4. Waits(entropy)
    BY DEF CInv, RoomLeft
  <2>5. Len(entropy.BE) \in Nat
    BY <2>4 DEF Waits, IsSequence
  <2>6. Len(entropy.BE) <= MAX_CORR_BITS - 63
    BY <2>4, <2>5, BufferAssumption DEF Waits, BufferLow, DCTSIZE
  <2>7. PICK c \in 0 .. 63 : c = Cardinality(B)
    BY <2>2 DEF DCTSIZE
  <2>8. PICK l \in Nat : l = Len(entropy.BE)
    BY <2>5
  <2>9. l + c <= MAX_CORR_BITS
    BY <2>6, <2>8, BufferAssumption
  <2> QED
    BY <2>3, <2>7, <2>8, <2>9, Zenon
<1>2. CompressorInit => CInv
  BY InitCInv
<1>3. CInv /\ [CompressorNext \/ Afterwards]_<<phase, compressor, file, params>> => CInv'
  BY NextCInv
<1> QED
  BY <1>1, <1>2, <1>3, PTL DEF CompressorSpec
=============================================================================
