---------------------------- MODULE HuffDecoder ----------------------------
(***************************************************************************)
(* The Huffman decoder of libjpeg (jdhuff.c) and its restart markers       *)
(* (jdmarker.c). It decodes an MCU from the bytes that have arrived, or    *)
(* gives up until there are more. Its state d has                          *)
(*   pos                       how many bytes are consumed                 *)
(*   bits                      the bits taken from them and not used yet   *)
(*   unread                    a marker that was met, 0 if none            *)
(*   insufficient              the segment ended early, and was reported   *)
(*   discarded                 bytes were skipped, and not reported yet    *)
(*   restarts_to_go, next_restart_num, last_dc_val, EOBRUN                 *)
(*   warned                    the warnings given                          *)
(* While it works w has in addition                                        *)
(*   data   what has arrived            ok   that it did not run out       *)
(*   MCU    the blocks decoded          s    what was read last            *)
(*   k      the position reached        eob  the EOB symbol met, or -1     *)
(*   new    the coefficients of this MCU that were zero before             *)
(***************************************************************************)
EXTENDS HuffTables, ScanScript

MIN_GET_BITS == 25
HUFF_LOOKAHEAD == 8
RST0 == 208

\* The decoder without what it needs while it works.
Kept(w) ==
  [pos |-> w.pos, bits |-> w.bits, unread |-> w.unread, insufficient |-> w.insufficient,
   discarded |-> w.discarded, restarts_to_go |-> w.restarts_to_go,
   next_restart_num |-> w.next_restart_num, last_dc_val |-> w.last_dc_val,
   EOBRUN |-> w.EOBRUN, warned |-> w.warned]
Warn(w, what) == [w EXCEPT !.warned = @ \cup {what}]
Suspended(w) == [w EXCEPT !.ok = FALSE]

\* The place after pos of the first byte that is not 255; 0 if none has arrived.
AfterFF(w, pos) ==
  LET found == {j \in pos + 1 .. Len(w.data) : w.data[j] # 255}
  IN IF found = {} THEN 0 ELSE Min(found)

\* The byte before j, and what stood between it and the place of the reader.
RECURSIVE FillBytes(_)
Filled(w, j) ==
  IF j = 0 THEN Suspended(w)
  ELSE IF j = w.pos + 1 THEN FillBytes([w EXCEPT !.pos = j, !.bits = @ \o BitsOf(w.data[j], 8)])
  ELSE IF w.data[j] = 0 THEN FillBytes([w EXCEPT !.pos = j, !.bits = @ \o BitsOf(255, 8)])
  ELSE [w EXCEPT !.pos = j, !.unread = w.data[j]]
FillBytes(w) ==
  IF Len(w.bits) >= MIN_GET_BITS \/ w.unread # 0 THEN w ELSE Filled(w, AfterFF(w, w.pos))

\* Where the segment has fewer than nbits bits left, zeroes are made up.
MadeUp(w, nbits) ==
  IF w.ok /\ nbits > Len(w.bits)
  THEN [w EXCEPT !.warned = IF w.insufficient THEN @ ELSE @ \cup {"HIT_MARKER"},
                 !.insufficient = TRUE,
                 !.bits = @ \o [i \in 1 .. MIN_GET_BITS - Len(@) |-> 0]]
  ELSE w
jpeg_fill_bit_buffer(w, nbits) == MadeUp(FillBytes(w), nbits)

Taken(w, nbits) ==
  IF w.ok THEN [w EXCEPT !.s = ValueOf(SubSeq(w.bits, 1, nbits)),
                         !.bits = SubSeq(@, nbits + 1, Len(@))]
  ELSE w
Receive(w, nbits) ==
  Taken(IF Len(w.bits) < nbits THEN jpeg_fill_bit_buffer(w, nbits) ELSE w, nbits)
HUFF_EXTEND(x, s) == IF x < 2 ^ (s - 1) THEN x - (2 ^ s - 1) ELSE x

\* The value of a coefficient of so many bits.
Extended(w, size) == [w EXCEPT !.s = IF size = 0 THEN 0 ELSE HUFF_EXTEND(@, size)]
ReceiveValue(w, size) == Extended(Receive(w, size), size)

\* A code of up to 8 bits is looked up; a longer one, or one near the end of the
\* segment, is collected bit by bit.
LookedUp(w, t) ==
  {l \in 1 .. HUFF_LOOKAHEAD :
     LET p == ValueOf(SubSeq(w.bits, 1, l)) + t.valoffset[l]
     IN p \in DOMAIN t.sizes /\ t.sizes[p] = l}

RECURSIVE Longer(_, _, _)                  \* w.s holds l bits of the code
Longer(w, t, l) ==
  IF ~w.ok THEN w
  ELSE IF w.s > t.maxcode[l]
       THEN Longer([Receive(w, 1) EXCEPT !.s = 2 * w.s + @], t, l + 1)
       ELSE IF l > 16 THEN [Warn(w, "HUFF_BAD_CODE") EXCEPT !.s = 0]
            ELSE [w EXCEPT !.s = t.huffval[@ + t.valoffset[l]]]
jpeg_huff_decode(w, t, min_bits) == Longer(Receive(w, min_bits), t, min_bits)

DecodeSymbol(w, t) ==
  LET sizes == IF Len(w.bits) < HUFF_LOOKAHEAD THEN {} ELSE LookedUp(w, t)
  IN IF ~w.ok THEN w
     ELSE IF sizes = {}
     THEN jpeg_huff_decode(w, t, IF Len(w.bits) < HUFF_LOOKAHEAD THEN 1 ELSE HUFF_LOOKAHEAD + 1)
     ELSE LET l == Min(sizes)
          IN [w EXCEPT !.s = t.huffval[ValueOf(SubSeq(w.bits, 1, l)) + t.valoffset[l]],
                       !.bits = SubSeq(@, l + 1, Len(@))]
HUFF_DECODE(w, t) ==
  DecodeSymbol(IF Len(w.bits) < HUFF_LOOKAHEAD THEN jpeg_fill_bit_buffer(w, 0) ELSE w, t)

-----------------------------------------------------------------------------
(* Markers *)

\* The next marker, past whatever is not one; what is skipped stays skipped when
\* the data runs out before it.
next_marker(w) ==
  LET len == Len(w.data)
      codes == {j \in w.pos + 2 .. len : w.data[j] \notin {0, 255} /\ w.data[j - 1] = 255}
      skipped == {j \in w.pos + 1 .. len : w.data[j] # 255}
      j == IF codes # {} THEN Min(codes) ELSE 0
      first == IF skipped = {} THEN 0 ELSE Min(skipped)
  IN IF codes = {}
     THEN Suspended([w EXCEPT !.pos = IF skipped = {} THEN @ ELSE Max(skipped),
                              !.discarded = @ \/ skipped # {}])
     ELSE LET v == [w EXCEPT !.pos = j, !.unread = w.data[j], !.discarded = FALSE]
          IN IF w.discarded \/ first < j THEN Warn(v, "EXTRANEOUS_DATA") ELSE v

OneAhead(marker, desired) ==               \* a mutant: two lost segments are not made good
  marker = RST0 + ((desired + 1) % 8)
\* A marker that is one of the next two restarts, or none at all, is left where it
\* is, and the segment is taken to be empty; one of the last two is passed over.
Future(marker, desired) ==
  marker \in {RST0 + ((desired + 1) % 8), RST0 + ((desired + 2) % 8)}
Past(marker, desired) ==
  marker \in {RST0 + ((desired + 7) % 8), RST0 + ((desired + 6) % 8)}

RECURSIVE jpeg_resync_to_restart(_, _)
ResyncFrom(w, desired) == IF w.ok THEN jpeg_resync_to_restart(w, desired) ELSE w
jpeg_resync_to_restart(w, desired) ==
  IF w.unread < 192 \/ Past(w.unread, desired) THEN ResyncFrom(next_marker(w), desired)
  ELSE IF w.unread \notin RST0 .. RST0 + 7 \/ Future(w.unread, desired) THEN w
  ELSE [w EXCEPT !.unread = 0]

NextRestart(w) == IF w.ok THEN [w EXCEPT !.next_restart_num = (@ + 1) % 8] ELSE w
ExpectRestart(w) ==
  IF ~w.ok THEN w
  ELSE IF w.unread = RST0 + w.next_restart_num THEN NextRestart([w EXCEPT !.unread = 0])
  ELSE NextRestart(jpeg_resync_to_restart(Warn(w, "MUST_RESYNC"), w.next_restart_num))
read_restart_marker(w) == ExpectRestart(IF w.unread = 0 THEN next_marker(w) ELSE w)

NewSegment(w, interval) ==
  IF ~w.ok THEN w
  ELSE [w EXCEPT !.last_dc_val = [ci \in DOMAIN @ |-> 0], !.EOBRUN = 0,
                 !.restarts_to_go = interval, !.insufficient = @ /\ w.unread # 0]
process_restart(w, interval) ==
  NewSegment(read_restart_marker([w EXCEPT !.discarded = @ \/ Len(w.bits) >= 8, !.bits = <<>>]),
             interval)

-----------------------------------------------------------------------------
(* Sequential scans *)

\* Damaged data may lead past the end; the natural order then names the last place,
\* which is not in a block smaller than 8x8.
Place(w, i, k) == IF k \in DOMAIN w.MCU[i] THEN k ELSE DCTSIZE * DCTSIZE - 1
Put(w, i, k, value) ==
  LET place == Place(w, i, k)
  IN IF place \in DOMAIN w.MCU[i] THEN [w EXCEPT !.MCU[i][place] = value] ELSE w

\* The coefficients of a band b of block b.i; those from b.limit on are of no interest.
RECURSIVE AcCoefs(_, _, _)
AcValue(w, k, run, b) ==
  AcCoefs(IF w.ok /\ k < b.limit THEN Put(w, b.i, k + run, w.s * 2 ^ b.Al) ELSE w,
          k + run + 1, b)
AcSymbol(w, k, b) ==
  LET run == w.s \div 16
      size == w.s % 16
  IN IF ~w.ok THEN w
     ELSE IF size > 0 THEN AcValue(ReceiveValue(w, size), k, run, b)
     ELSE IF run = 15 THEN AcCoefs(w, k + 16, b)
     ELSE [w EXCEPT !.eob = run]
AcCoefs(w, k, b) ==
  IF ~w.ok \/ k > b.Se THEN w ELSE AcSymbol(HUFF_DECODE(w, b.t), k, b)

\* The DC difference: of a component that is not needed it is dropped.
PredictedDC(w, i, ci, needed, Al) ==
  IF ~w.ok \/ ~needed THEN w
  ELSE Put([w EXCEPT !.last_dc_val[ci] = @ + w.s], i, 0, (w.last_dc_val[ci] + w.s) * 2 ^ Al)
DcDifference(w) == IF w.ok THEN ReceiveValue(w, w.s) ELSE w
DcCoef(w, i, ci, needed, Al, t) ==
  PredictedDC(DcDifference(HUFF_DECODE(w, t)), i, ci, needed, Al)

RECURSIVE decode_mcu(_, _, _, _, _, _)
decode_mcu(f, w, i, blocks, limits, t) ==
  LET comp == f.comps[blocks[i].c]
  IN IF ~w.ok \/ i > Len(blocks) THEN w
     ELSE decode_mcu(f,
            AcCoefs(DcCoef(w, i, blocks[i].ci, limits[i] > 0, 0, t[<<"dc", comp.dc>>]), 1,
                    [i |-> i, limit |-> limits[i], Se |-> lim_Se(f.bs), Al |-> 0,
                     t |-> t[<<"ac", comp.ac>>]]),
            i + 1, blocks, limits, t)

\* The position in zigzag order of a coefficient of a block of n x n.
zigzag_order(n, row, col) ==
  Cardinality({p \in (0 .. n - 1) \X (0 .. n - 1) :
    \/ p[1] + p[2] < row + col
    \/ p[1] + p[2] = row + col /\ IF (row + col) % 2 = 0 THEN p[1] > row ELSE p[1] < row})

\* A component that is scaled down needs the coefficients of its first rows and columns.
coef_limit(f, c) ==
  LET n == IF f.bs < DCTSIZE THEN f.bs ELSE DCTSIZE
      Within(size) == IF size \in 1 .. n THEN size ELSE n
      comp == f.comps[c]
  IN IF comp.needed THEN 1 + zigzag_order(n, Within(comp.vsize) - 1, Within(comp.hsize) - 1)
     ELSE 0

-----------------------------------------------------------------------------
(* Progressive scans *)

RECURSIVE decode_mcu_DC_first(_, _, _, _, _, _)
decode_mcu_DC_first(f, w, i, blocks, Al, t) ==
  IF ~w.ok \/ i > Len(blocks) THEN w
  ELSE decode_mcu_DC_first(f, DcCoef(w, i, blocks[i].ci, TRUE, Al,
                                     t[<<"dc", f.comps[blocks[i].c].dc>>]),
                           i + 1, blocks, Al, t)

\* How many blocks end alike, from the bits that follow the symbol.
RunOfBlocks(w, n) == IF w.ok THEN [w EXCEPT !.EOBRUN = 2 ^ n + w.s] ELSE w
ReceiveRun(w, n) == RunOfBlocks(Receive(w, n), n)
OneLess(w) == [w EXCEPT !.EOBRUN = @ - 1]
AfterBand(w) == IF ~w.ok \/ w.eob < 1 THEN w ELSE OneLess(ReceiveRun(w, w.eob))
decode_mcu_AC_first(w, scan, t) ==
  IF w.EOBRUN > 0 THEN OneLess(w)
  ELSE AfterBand(AcCoefs([w EXCEPT !.eob = -1], scan.Ss,
                         [i |-> 1, limit |-> scan.Se + 1, Se |-> scan.Se, Al |-> scan.Al, t |-> t]))

HasBit(value, Al) == (value \div 2 ^ Al) % 2 = 1
RefinedDC(w, i, Al) ==
  LET dc == w.MCU[i][0]
  IN IF w.ok /\ w.s = 1 /\ ~HasBit(dc, Al) THEN Put(w, i, 0, dc + 2 ^ Al) ELSE w
RECURSIVE decode_mcu_DC_refine(_, _, _)
decode_mcu_DC_refine(w, i, Al) ==
  IF ~w.ok \/ i > Len(w.MCU) THEN w
  ELSE decode_mcu_DC_refine(RefinedDC(Receive(w, 1), i, Al), i + 1, Al)

\* A correction bit is added once: a block that was begun before may have it.
CorrectedBy(w, k, Al) ==
  LET coef == w.MCU[1][k]
  IN IF w.ok /\ w.s = 1 /\ ~HasBit(coef, Al)
     THEN Put(w, 1, k, IF coef > 0 THEN coef + 2 ^ Al ELSE coef - 2 ^ Al) ELSE w

\* Past r coefficients that stay zero, to the next zero one or to the end.
RECURSIVE Advance(_, _, _, _, _)
Advance(w, k, r, Se, Al) ==
  IF ~w.ok \/ k > Se THEN [w EXCEPT !.k = k]
  ELSE IF w.MCU[1][k] # 0 THEN Advance(CorrectedBy(Receive(w, 1), k, Al), k + 1, r, Se, Al)
  ELSE IF r = 0 THEN [w EXCEPT !.k = k]
  ELSE Advance(w, k + 1, r - 1, Se, Al)

\* A new coefficient has one bit, its sign.
RECURSIVE RefineBand(_, _, _, _)
NewCoef(w, value) ==
  IF w.ok /\ value # 0
  THEN [Put(w, 1, w.k, value) EXCEPT !.new = @ \cup {Place(w, 1, w.k)}] ELSE w
PlaceNew(w, value, scan, t) ==             \* the coefficient w.k, and those that follow
  RefineBand(NewCoef(w, value), w.k + 1, scan, t)
RefineZeroes(w, k, run, isNew, scan, t) ==
  PlaceNew(Advance(w, k, run, scan.Se, scan.Al),
           IF ~isNew THEN 0 ELSE IF w.s = 1 THEN 2 ^ scan.Al ELSE -(2 ^ scan.Al), scan, t)
RefineSymbol(w, k, scan, t) ==
  LET run == w.s \div 16
      size == w.s % 16
  IN IF ~w.ok THEN w
     ELSE IF size = 0 /\ run # 15 THEN [ReceiveRun(w, run) EXCEPT !.k = k]
     ELSE RefineZeroes(IF size = 0 THEN w
                       ELSE Receive(IF size = 1 THEN w ELSE Warn(w, "HUFF_BAD_CODE"), 1),
                       k, run, size > 0, scan, t)
RefineBand(w, k, scan, t) ==
  IF ~w.ok \/ k > scan.Se THEN [w EXCEPT !.k = k]
  ELSE RefineSymbol(HUFF_DECODE(w, t), k, scan, t)

not_undone(w) == w                         \* a mutant: they stay
\* Where the data runs out, the new coefficients are taken back.
Undone(w) ==
  IF w.ok THEN w
  ELSE [w EXCEPT !.MCU[1] = [k \in DOMAIN @ |-> IF k \in w.new THEN 0 ELSE @[k]]]

RestOfBlock(w, scan) ==
  IF w.ok /\ w.EOBRUN > 0
  THEN OneLess(Advance(w, w.k, DCTSIZE * DCTSIZE, scan.Se, scan.Al)) ELSE w
decode_mcu_AC_refine(w, scan, t) ==
  Undone(RestOfBlock(IF w.EOBRUN = 0 THEN RefineBand([w EXCEPT !.new = {}], scan.Ss, scan, t)
                     ELSE [w EXCEPT !.k = scan.Ss, !.new = {}], scan))

-----------------------------------------------------------------------------
(* An MCU, and the start of a scan *)

\* Where there is nothing to read, the blocks are left as they are.
DecodeBlocks(f, scan, w, blocks, t) ==
  LET ac == t[<<"ac", f.comps[scan.comps[1]].ac>>]
      Limits == [i \in DOMAIN blocks |-> coef_limit(f, blocks[i].c)]
      DC == scan.Ss = 0
      first == scan.Ah = 0
  IN IF w.insufficient /\ ~(DC /\ ~first) THEN w
     ELSE IF ~f.progressive THEN decode_mcu(f, w, 1, blocks, Limits, t)
     ELSE IF DC /\ first THEN decode_mcu_DC_first(f, w, 1, blocks, scan.Al, t)
     ELSE IF DC THEN decode_mcu_DC_refine(w, 1, scan.Al)
     ELSE IF first THEN decode_mcu_AC_first(w, scan, ac)
     ELSE decode_mcu_AC_refine(w, scan, ac)

\* Of an attempt that runs out of data only what the markers and the warnings tell
\* is kept, and the coefficients of whole images, which are written in place.
Attempted(before, after, interval) ==
  [ok |-> after.ok, MCU |-> after.MCU,
   d |-> IF after.ok
         THEN [Kept(after) EXCEPT !.restarts_to_go = IF interval = 0 THEN @ ELSE @ - 1]
         ELSE [Kept(before) EXCEPT !.unread = after.unread, !.warned = after.warned,
                                   !.insufficient = after.insufficient]]
AttemptMCU(f, scan, interval, w, t, blocks) ==
  Attempted(w, IF w.ok THEN DecodeBlocks(f, scan, w, blocks, t) ELSE w, interval)
DecodeMCU(f, scan, interval, d, t, blocks, MCU, data) ==
  LET w == d @@ [data |-> data, ok |-> TRUE, MCU |-> MCU, s |-> 0, k |-> 0, eob |-> -1,
                 new |-> {}]
  IN AttemptMCU(f, scan, interval,
                IF interval > 0 /\ d.restarts_to_go = 0 THEN process_restart(w, interval) ELSE w,
                t, blocks)

\* The parameters of a progressive scan, and the order of the scans.
LegalScan(f, scan) ==
  /\ IF scan.Ss = 0 THEN scan.Se = 0
     ELSE scan.Ss <= scan.Se /\ scan.Se <= lim_Se(f.bs) /\ Len(scan.comps) = 1
  /\ scan.Ah # 0 => scan.Al = scan.Ah - 1
  /\ scan.Al <= 13
BogusProgression(scan, coef_bits) ==
  \E c \in Range(scan.comps) :
    \/ scan.Ss > 0 /\ coef_bits[c][0] < 0
    \/ \E k \in scan.Ss .. scan.Se :
         scan.Ah # IF coef_bits[c][k] < 0 THEN 0 ELSE coef_bits[c][k]
NotSequential(f, scan) ==
  \/ scan.Ss # 0 \/ scan.Ah # 0 \/ scan.Al # 0
  \/ (f.is_baseline \/ scan.Se < DCTSIZE * DCTSIZE) /\ scan.Se # lim_Se(f.bs)

\* The tables that a scan needs.
TablesNeeded(f, scan) ==
  LET dc == {<<"dc", f.comps[c].dc>> : c \in Range(scan.comps)}
      ac == {<<"ac", f.comps[c].ac>> : c \in Range(scan.comps)}
  IN IF f.progressive
     THEN IF scan.Ss > 0 THEN ac ELSE IF scan.Ah = 0 THEN dc ELSE {}
     ELSE dc \cup (IF lim_Se(f.bs) > 0 THEN ac ELSE {})

start_pass_huff_decoder(d, scan, interval) ==
  [d EXCEPT !.bits = <<>>, !.insufficient = FALSE, !.restarts_to_go = interval,
            !.last_dc_val = [ci \in DOMAIN scan.comps |-> 0], !.EOBRUN = 0]
=============================================================================
