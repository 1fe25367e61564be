----------------------------- MODULE HuffTables -----------------------------
(***************************************************************************)
(* The Huffman tables of libjpeg: the standard ones (jcparam.c), the best  *)
(* ones for given counts of the symbols (jchuff.c), and what the encoder   *)
(* and the decoder derive from a table before a scan. A table t is a       *)
(* JHUFF_TBL:                                                              *)
(*   t.bits[l]   how many codes have l bits, 1 <= l <= 16                  *)
(*   t.huffval   the symbols in the order of their codes                   *)
(* Counts are functions from the symbols that occurred to how often.       *)
(***************************************************************************)
EXTENDS Integers, FiniteSets, SequencesExt

MAX_CLEN == 32
Pseudo == 256                                \* the symbol that gets the code of all ones

\* The sequences Op(1), ... Op(n), one after the other.
FlatMap(Op(_), n) ==
  LET upTo[i \in 0 .. n] == IF i = 0 THEN <<>> ELSE upTo[i - 1] \o Op(i) IN upTo[n]

\* A set of natural numbers in order.
Ascending(S) ==
  IF S = {} THEN <<>>
  ELSE SelectSeq([i \in 1 .. Max(S) + 1 |-> i - 1], LAMBDA x : x \in S)

Magnitude(a) ==                              \* the bits of a number that is not negative
  IF a = 0 THEN 0 ELSE CHOOSE n \in 1 .. 20 : 2 ^ (n - 1) <= a /\ a < 2 ^ n
BitsOf(value, n) == [i \in 1 .. n |-> (value \div 2 ^ (n - i)) % 2]
ValueOf(bits) == FoldLeft(LAMBDA value, bit : 2 * value + bit, 0, bits)

(***************************************************************************)
(* jpeg_gen_optimal_table. A tree of symbols goes by the symbol whose      *)
(* count stands for it; of two trees with the same count the one with the  *)
(* larger symbol is taken.                                                 *)
(***************************************************************************)
Rarest(trees) ==
  CHOOSE t \in trees : \A u \in trees :
    t.freq < u.freq \/ (t.freq = u.freq /\ t.symbol >= u.symbol)

\* The two rarest trees become one, and their codes one bit longer.
Merged(c) ==
  LET c1 == Rarest(c.trees)
      c2 == Rarest(c.trees \ {c1})
      leaves == c1.leaves \cup c2.leaves
  IN [trees |-> (c.trees \ {c1, c2}) \cup
        {[symbol |-> c1.symbol, freq |-> c1.freq + c2.freq, leaves |-> leaves]},
      size |-> [s \in DOMAIN c.size |-> IF s \in leaves THEN c.size[s] + 1 ELSE c.size[s]]]
CodeSizes(count) ==
  LET after[n \in 0 .. Cardinality(DOMAIN count) - 1] ==
        IF n = 0
        THEN [trees |-> {[symbol |-> s, freq |-> count[s], leaves |-> {s}] : s \in DOMAIN count},
              size |-> [s \in DOMAIN count |-> 0]]
        ELSE Merged(after[n - 1])
  IN after[Cardinality(DOMAIN count) - 1].size

\* The codes of i bits are shortened two at a time, for every i beyond max.
Shortened(bits, i) ==
  LET j == Max({l \in 1 .. i - 2 : bits[l] > 0})
  IN [bits EXCEPT ![i] = @ - 2, ![i - 1] = @ + 1, ![j + 1] = @ + 2, ![j] = @ - 1]
NoneOf(bits, i) ==
  LET after[n \in 0 .. bits[i] \div 2] == IF n = 0 THEN bits ELSE Shortened(after[n - 1], i)
  IN after[bits[i] \div 2]
Limited(bits, max) ==
  LET after[n \in 0 .. MAX_CLEN - max] ==
        IF n = 0 THEN bits ELSE NoneOf(after[n - 1], MAX_CLEN + 1 - n)
  IN after[MAX_CLEN - max]

\* The room for the pseudo symbol is taken from the longest codes.
WithoutPseudo(bits, max) ==
  [bits EXCEPT ![Max({l \in 1 .. max : bits[l] > 0})] = @ - 1]

\* max is 16; a smaller one lets few symbols meet the limit.
OptimalTable(freq, max) ==
  LET count == [s \in DOMAIN freq \cup {Pseudo} |-> IF s = Pseudo THEN 1 ELSE freq[s]]
      size == CodeSizes(count)
      bits == [l \in 1 .. MAX_CLEN |-> Cardinality({s \in DOMAIN size : size[s] = l})]
      kept == WithoutPseudo(Limited(bits, max), max)
  IN [bits |-> [l \in 1 .. 16 |-> kept[l]],
      huffval |-> FlatMap(LAMBDA l :
                    Ascending({s \in DOMAIN freq : size[s] = l}), MAX_CLEN)]

(***************************************************************************)
(* What both sides derive: the sizes and the codes in order, and whether   *)
(* the counts are those of a code that leaves the code of all ones free.   *)
(***************************************************************************)
HuffSizes(t) == FlatMap(LAMBDA l : [i \in 1 .. t.bits[l] |-> l], 16)

HuffCodes(t) ==
  LET first[l \in 1 .. 16] ==               \* the first code of l bits
        IF l = 1 THEN 0 ELSE 2 * (first[l - 1] + t.bits[l - 1])
  IN FlatMap(LAMBDA l : [i \in 1 .. t.bits[l] |-> first[l] + i - 1], 16)

LegalCounts(t) ==
  LET sizes == HuffSizes(t)
      codes == HuffCodes(t)
  IN Len(sizes) <= 256 /\ \A p \in DOMAIN sizes : codes[p] + 1 < 2 ^ sizes[p]

\* The encoder's table gives each symbol its code and its size.
EncoderAccepts(t, isDC) ==
  /\ LegalCounts(t)
  /\ \A p \in DOMAIN t.huffval : t.huffval[p] <= IF isDC THEN 15 ELSE 255
  /\ Cardinality(Range(t.huffval)) = Len(t.huffval)
EncoderTable(t) ==
  LET sizes == HuffSizes(t)
      codes == HuffCodes(t)
  IN [s \in Range(t.huffval) |->
       LET p == CHOOSE p \in DOMAIN t.huffval : t.huffval[p] = s
       IN BitsOf(codes[p], sizes[p])]

\* The decoder's tells for each size the largest code and where its symbols start.
DecoderAccepts(t, isDC) ==
  /\ LegalCounts(t)
  /\ isDC => \A p \in DOMAIN t.huffval : t.huffval[p] <= 15
DecoderTable(t) ==
  LET sizes == HuffSizes(t)
      codes == HuffCodes(t)
      Of(l) == {p \in DOMAIN sizes : sizes[p] = l}
  IN [sizes |-> sizes, codes |-> codes, huffval |-> t.huffval,
      maxcode |-> [l \in 1 .. 17 |-> IF l = 17 THEN 2 ^ 20 - 1
                                     ELSE IF Of(l) = {} THEN -1 ELSE codes[Max(Of(l))]],
      valoffset |-> [l \in 1 .. 16 |-> IF Of(l) = {} THEN 0 ELSE Min(Of(l)) - codes[Min(Of(l))]]]

(***************************************************************************)
(* The tables of the JPEG standard, which are used where the caller does   *)
(* not ask for the best ones. Table 1 is for luminance, 2 for chrominance. *)
(***************************************************************************)
StdDC == <<
  [bits |-> <<0, 1, 5, 1, 1, 1, 1, 1, 1, 0, 0, 0, 0, 0, 0, 0>>, huffval |-> [p \in 1 .. 12 |-> p - 1]],
  [bits |-> <<0, 3, 1, 1, 1, 1, 1, 1, 1, 1, 1, 0, 0, 0, 0, 0>>, huffval |-> [p \in 1 .. 12 |-> p - 1]]>>

\* From some point on the symbols of all lengths left are in order.
InOrder(start, taken) ==
  start \o Ascending({16 * r + n : r \in 0 .. 15, n \in 1 .. 10} \ taken)
StdACStart == <<
  <<\h01, \h02, \h03, \h00, \h04, \h11, \h05, \h12, \h21, \h31, \h41, \h06, \h13, \h51, \h61, \h07,
    \h22, \h71, \h14, \h32, \h81, \h91, \ha1, \h08, \h23, \h42, \hb1, \hc1, \h15, \h52, \hd1, \hf0,
    \h24, \h33, \h62, \h72, \h82>>,
  <<\h00, \h01, \h02, \h03, \h11, \h04, \h05, \h21, \h31, \h06, \h12, \h41, \h51, \h07, \h61, \h71,
    \h13, \h22, \h32, \h81, \h08, \h14, \h42, \h91, \ha1, \hb1, \hc1, \h09, \h23, \h33, \h52, \hf0,
    \h15, \h62, \h72, \hd1, \h0a, \h16, \h24, \h34, \he1, \h25, \hf1>>>>
StdAC == <<
  [bits |-> <<0, 2, 1, 3, 3, 2, 4, 3, 5, 5, 4, 4, 0, 0, 1, 125>>,
   huffval |-> InOrder(StdACStart[1], Range(StdACStart[1]))],
  [bits |-> <<0, 2, 1, 2, 4, 4, 3, 4, 7, 5, 4, 4, 0, 1, 2, 119>>,
   huffval |-> InOrder(StdACStart[2], Range(StdACStart[2]))]>>
=============================================================================
