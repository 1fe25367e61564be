---------------------------- MODULE HuffEncoder ----------------------------
(***************************************************************************)
(* The Huffman encoder of libjpeg (jchuff.c). What it makes of an MCU is a *)
(* sequence of                                                             *)
(*   [kind |-> "dc" or "ac", tbl, sym]   a symbol of a table               *)
(*   [kind |-> "bits", bits]             bits as they are                  *)
(*   [kind |-> "restart", num]           a restart marker                  *)
(* which is counted where the statistics are gathered, and turned into     *)
(* bytes where the scan is output. The state e of the encoder is           *)
(*   derived              the codes of its tables, none where it counts    *)
(*   put                  the bits that do not fill a byte yet             *)
(*   last_dc_val[ci]      by component of the scan                         *)
(*   restarts_to_go, next_restart_num                                      *)
(*   EOBRUN, BE           blocks ended alike, and their correction bits    *)
(* Blocks are functions from the zigzag positions to the coefficients,     *)
(* which are in the range of their tables (JERR_BAD_DCT_COEF otherwise).   *)
(***************************************************************************)
EXTENDS HuffTables, ScanScript

CONSTANTS MAX_EOBRUN,        \* 0x7FFF: how many blocks may end alike
          MAX_CORR_BITS      \* 1000: the room for correction bits

ASSUME BufferAssumption ==
  /\ MAX_EOBRUN \in 1 .. 32767
  /\ MAX_CORR_BITS \in Nat /\ MAX_CORR_BITS >= DCTSIZE * DCTSIZE

Abs(x) == IF x < 0 THEN -x ELSE x

Dc(tbl, sym) == <<[kind |-> "dc", tbl |-> tbl, sym |-> sym]>>
Ac(tbl, sym) == <<[kind |-> "ac", tbl |-> tbl, sym |-> sym]>>
Bits(bits) == IF bits = <<>> THEN <<>> ELSE <<[kind |-> "bits", bits |-> bits]>>

\* A positive value goes as it is, a negative one as its predecessor.
ValueBits(v) ==
  LET n == Magnitude(Abs(v))
  IN BitsOf((IF v < 0 THEN v - 1 ELSE v) % 2 ^ n, n)

\* Where the coefficients of a band are not zero, and how many zeroes precede.
Nonzero(block, Ss, Se) == Ascending({k \in Ss .. Se : block[k] # 0})
ZeroesBefore(nz, i, Ss) == nz[i] - 1 - (IF i = 1 THEN Ss - 1 ELSE nz[i - 1])
ZRL(tbl, run) == FlatMap(LAMBDA i : Ac(tbl, 240), run \div 16)
RunAndSize(run, v) == 16 * (run % 16) + Magnitude(Abs(v))

AcBand(block, Ss, Se, tbl) ==
  LET nz == Nonzero(block, Ss, Se)
  IN FlatMap(LAMBDA i :
       LET run == ZeroesBefore(nz, i, Ss)
           v == block[nz[i]]
       IN ZRL(tbl, run) \o Ac(tbl, RunAndSize(run, v)) \o Bits(ValueBits(v)), Len(nz))
TrailingZeroes(block, Ss, Se) == Ss <= Se /\ block[Se] = 0

-----------------------------------------------------------------------------
(* Sequential scans *)

encode_one_block(block, last, dctbl, actbl) ==
  LET Se == DOMAIN block \ {0}
      end == Cardinality(Se)
      diff == block[0] - last
  IN Dc(dctbl, Magnitude(Abs(diff))) \o Bits(ValueBits(diff))
     \o AcBand(block, 1, end, actbl)
     \o (IF TrailingZeroes(block, 1, end) THEN Ac(actbl, 0) ELSE <<>>)

htest_without_ZRL(block, last, dctbl, actbl) ==    \* a mutant: long runs are not counted
  LET end == Cardinality(DOMAIN block) - 1
      nz == Nonzero(block, 1, end)
  IN Dc(dctbl, Magnitude(Abs(block[0] - last)))
     \o FlatMap(LAMBDA i :
          Ac(actbl, RunAndSize(ZeroesBefore(nz, i, 1), block[nz[i]])), Len(nz))
     \o (IF TrailingZeroes(block, 1, end) THEN Ac(actbl, 0) ELSE <<>>)
\* The symbols alone, counted by code of its own.
htest_one_block(block, last, dctbl, actbl) ==
  LET end == Cardinality(DOMAIN block) - 1
      nz == Nonzero(block, 1, end)
  IN Dc(dctbl, Magnitude(Abs(block[0] - last)))
     \o FlatMap(LAMBDA i :
          LET run == ZeroesBefore(nz, i, 1)
          IN ZRL(actbl, run) \o Ac(actbl, RunAndSize(run, block[nz[i]])), Len(nz))
     \o (IF TrailingZeroes(block, 1, end) THEN Ac(actbl, 0) ELSE <<>>)

RestartDue(e, interval) == interval > 0 /\ e.restarts_to_go = 0
NoPrediction(e) == [e EXCEPT !.last_dc_val = [ci \in DOMAIN @ |-> 0]]
CountRestart(e, interval) ==
  IF interval = 0 THEN e
  ELSE [e EXCEPT !.restarts_to_go = (IF @ = 0 THEN interval ELSE @) - 1,
                 !.next_restart_num = IF e.restarts_to_go = 0 THEN (@ + 1) % 8 ELSE @]

\* What the DC of block i of the MCU is predicted from, and is at the end.
PreviousDC(e, blocks, MCU, i, Al) ==
  LET before == {j \in 1 .. i - 1 : blocks[j].ci = blocks[i].ci}
  IN IF before = {} THEN e.last_dc_val[blocks[i].ci]
     ELSE MCU[Max(before)][0] \div 2 ^ Al
UpdatedDC(e, blocks, MCU, Al) ==
  [e EXCEPT !.last_dc_val = [ci \in DOMAIN @ |->
     MCU[Max({i \in DOMAIN blocks : blocks[i].ci = ci})][0] \div 2 ^ Al]]

encode_mcu_huff(f, e, interval, blocks, MCU) ==
  LET due == RestartDue(e, interval)
      s == IF due THEN NoPrediction(e) ELSE e
      ops == FlatMap(LAMBDA i :
               encode_one_block(MCU[i], PreviousDC(s, blocks, MCU, i, 0),
                                f.comps[blocks[i].c].dc, f.comps[blocks[i].c].ac), Len(blocks))
  IN [e |-> CountRestart(UpdatedDC(s, blocks, MCU, 0), interval),
      ops |-> (IF due THEN <<[kind |-> "restart", num |-> e.next_restart_num]>> ELSE <<>>) \o ops]

encode_mcu_gather(f, e, interval, blocks, MCU) ==
  LET s == IF RestartDue(e, interval) THEN NoPrediction(e) ELSE e
  IN [e |-> CountRestart(UpdatedDC(s, blocks, MCU, 0), interval),
      ops |-> FlatMap(LAMBDA i :
                htest_one_block(MCU[i], PreviousDC(s, blocks, MCU, i, 0),
                                f.comps[blocks[i].c].dc, f.comps[blocks[i].c].ac), Len(blocks))]

-----------------------------------------------------------------------------
(* Progressive scans *)

emit_eobrun(e, tbl) ==
  LET n == Magnitude(e.EOBRUN) - 1
  IN IF e.EOBRUN = 0 THEN <<>>
     ELSE Ac(tbl, 16 * n) \o Bits(BitsOf(e.EOBRUN % 2 ^ n, n)) \o Bits(e.BE)
NoEobrun(e) == [e EXCEPT !.EOBRUN = 0, !.BE = <<>>]

emit_restart_e(e, scan, tbl) ==
  [e |-> IF scan.Ss = 0 THEN NoPrediction(NoEobrun(e)) ELSE NoEobrun(e),
   ops |-> emit_eobrun(e, tbl) \o <<[kind |-> "restart", num |-> e.next_restart_num]>>]

encode_mcu_DC_first(f, e, scan, blocks, MCU) ==
  [e |-> UpdatedDC(e, blocks, MCU, scan.Al),
   ops |-> FlatMap(LAMBDA i :
     LET diff == (MCU[i][0] \div 2 ^ scan.Al) - PreviousDC(e, blocks, MCU, i, scan.Al)
     IN Dc(f.comps[blocks[i].c].dc, Magnitude(Abs(diff))) \o Bits(ValueBits(diff)), Len(blocks))]

\* The point transform of AC coefficients rounds towards 0.
PointTransform(block, Al) ==
  [k \in DOMAIN block |-> IF block[k] < 0 THEN -(Abs(block[k]) \div 2 ^ Al)
                          ELSE block[k] \div 2 ^ Al]

\* The end of the block joins the run; a run that is full is sent at once.
SendFullRun(e, ops, full, tbl) ==
  IF full THEN [e |-> NoEobrun(e), ops |-> ops \o emit_eobrun(e, tbl)] ELSE [e |-> e, ops |-> ops]
EndFirst(e, ops, ends, tbl) ==
  IF ends THEN SendFullRun([e EXCEPT !.EOBRUN = @ + 1], ops, e.EOBRUN + 1 = MAX_EOBRUN, tbl)
  ELSE [e |-> e, ops |-> ops]
encode_mcu_AC_first(e, scan, tbl, block) ==
  LET b == PointTransform(block, scan.Al)
      ended == Nonzero(b, scan.Ss, scan.Se) # <<>>
  IN EndFirst(IF ended THEN NoEobrun(e) ELSE e,
              (IF ended THEN emit_eobrun(e, tbl) ELSE <<>>) \o AcBand(b, scan.Ss, scan.Se, tbl),
              TrailingZeroes(b, scan.Ss, scan.Se), tbl)

encode_mcu_DC_refine(e, scan, blocks, MCU) ==
  [e |-> e, ops |-> FlatMap(LAMBDA i :
                      Bits(<<(MCU[i][0] \div 2 ^ scan.Al) % 2>>), Len(blocks))]

\* The refinement of AC coefficients, one after the other: w.r zeroes have passed since
\* the last new one, and w.BR holds the correction bits that came between.
PastZeroes(w, tbl) ==
  [w EXCEPT !.r = @ % 16, !.BR = <<>>, !.e = NoEobrun(@),
            !.ops = @ \o emit_eobrun(w.e, tbl) \o Ac(tbl, 240) \o Bits(w.BR) \o ZRL(tbl, w.r - 16)]
RefineValue(w, value, tbl) ==
  IF Abs(value) > 1 THEN [w EXCEPT !.BR = Append(@, Abs(value) % 2)]
  ELSE [w EXCEPT !.r = 0, !.BR = <<>>, !.e = NoEobrun(@),
                 !.ops = @ \o emit_eobrun(w.e, tbl) \o Ac(tbl, 16 * w.r + 1)
                         \o Bits(<<IF value < 0 THEN 0 ELSE 1>>) \o Bits(w.BR)]
RefineNext(w, k, value, EOB, tbl) ==
  IF w.r > 15 /\ value # 0 /\ k <= EOB THEN RefineValue(PastZeroes(w, tbl), value, tbl)
  ELSE IF value # 0 THEN RefineValue(w, value, tbl)
  ELSE [w EXCEPT !.r = @ + 1]
Refined(e, b, scan, EOB, tbl) ==
  LET upTo[k \in scan.Ss - 1 .. scan.Se] ==
        IF k < scan.Ss THEN [r |-> 0, BR |-> <<>>, e |-> e, ops |-> <<>>]
        ELSE RefineNext(upTo[k - 1], k, b[k], EOB, tbl)
  IN upTo[scan.Se]

NeverLow(e) == FALSE                       \* a mutant: the buffer may overflow
\* Runs are forced out before the correction bits of another block might not fit.
BufferLow(e) == Len(e.BE) > MAX_CORR_BITS - DCTSIZE * DCTSIZE + 1

EndRefined(w, ends, tbl) ==
  IF ~ends THEN [e |-> w.e, ops |-> w.ops]
  ELSE LET r == [w.e EXCEPT !.EOBRUN = @ + 1, !.BE = @ \o w.BR]
       IN SendFullRun(r, w.ops, r.EOBRUN = MAX_EOBRUN \/ BufferLow(r), tbl)
EndOfBand(w, tbl) == EndRefined(w, w.r > 0 \/ w.BR # <<>>, tbl)
encode_mcu_AC_refine(e, scan, tbl, block) ==
  LET b == PointTransform(block, scan.Al)
      new == {k \in scan.Ss .. scan.Se : Abs(b[k]) = 1}
  IN EndOfBand(Refined(e, b, scan, IF new = {} THEN 0 ELSE Max(new), tbl), tbl)

\* Whether the correction bits of the block still have room.
CorrectionBitsFit(e, scan, block) ==
  LET b == PointTransform(block, scan.Al)
  IN Len(e.BE) + Cardinality({k \in scan.Ss .. scan.Se : Abs(b[k]) > 1}) <= MAX_CORR_BITS

EncodeBlocks(f, e, scan, tbl, blocks, MCU) ==
  IF scan.Ss = 0
  THEN IF scan.Ah = 0 THEN encode_mcu_DC_first(f, e, scan, blocks, MCU)
       ELSE encode_mcu_DC_refine(e, scan, blocks, MCU)
  ELSE IF scan.Ah = 0 THEN encode_mcu_AC_first(e, scan, tbl, MCU[1])
       ELSE encode_mcu_AC_refine(e, scan, tbl, MCU[1])
Joined(s, r, interval) == [e |-> CountRestart(r.e, interval), ops |-> s.ops \o r.ops]
EncodeAfter(f, s, scan, interval, tbl, blocks, MCU) ==
  Joined(s, EncodeBlocks(f, s.e, scan, tbl, blocks, MCU), interval)
encode_mcu_progressive(f, e, scan, interval, blocks, MCU) ==
  LET tbl == f.comps[scan.comps[1]].ac
  IN EncodeAfter(f, IF RestartDue(e, interval) THEN emit_restart_e(e, scan, tbl)
                    ELSE [e |-> e, ops |-> <<>>], scan, interval, tbl, blocks, MCU)

-----------------------------------------------------------------------------
(* Start and end of a scan *)

start_pass_huff(scan, interval, derived) ==
  [derived |-> derived, put |-> <<>>, last_dc_val |-> [ci \in DOMAIN scan.comps |-> 0],
   restarts_to_go |-> interval, next_restart_num |-> 0, EOBRUN |-> 0, BE |-> <<>>]

\* Which tables a scan uses: none for the refinement of DC.
UsesDC(scan) == scan.Ss = 0 /\ scan.Ah = 0
UsesAC(scan) == scan.Se > 0
TablesOf(f, scan) ==
  (IF UsesDC(scan) THEN {<<"dc", f.comps[c].dc>> : c \in Range(scan.comps)} ELSE {})
  \cup (IF UsesAC(scan) THEN {<<"ac", f.comps[c].ac>> : c \in Range(scan.comps)} ELSE {})

\* The best tables for the symbols of a scan.
Counts(symbols, t) ==
  LET of == {i \in DOMAIN symbols : symbols[i].kind = t[1] /\ symbols[i].tbl = t[2]}
  IN [s \in {symbols[i].sym : i \in of} |-> Cardinality({i \in of : symbols[i].sym = s})]
finish_pass_gather(f, e, scan, gathered, tables, max) ==
  LET symbols == gathered \o SelectSeq(emit_eobrun(e, f.comps[scan.comps[1]].ac),
                                       LAMBDA o : o.kind # "bits")
  IN [t \in DOMAIN tables \cup TablesOf(f, scan) |->
       IF t \in TablesOf(f, scan) THEN OptimalTable(Counts(symbols, t), max) ELSE tables[t]]

-----------------------------------------------------------------------------
(* Bits to bytes *)

Missing(derived, o) ==
  o.kind \in {"dc", "ac"} /\ o.sym \notin DOMAIN derived[<<o.kind, o.tbl>>]
BitsOfOp(derived, o) ==
  IF o.kind = "bits" THEN o.bits ELSE derived[<<o.kind, o.tbl>>][o.sym]

\* A byte of all ones is followed by a zero, to be told from a marker.
StuffedByte(b) == IF b = 255 THEN <<255, 0>> ELSE <<b>>
emit_bits(bits) ==
  LET n == Len(bits) \div 8
  IN [bytes |-> FlatMap(LAMBDA i :
                  StuffedByte(ValueOf(SubSeq(bits, 8 * i - 7, 8 * i))), n),
      put |-> SubSeq(bits, 8 * n + 1, Len(bits))]
flush_bits(put) == emit_bits(put \o [i \in 1 .. 7 |-> 1]).bytes

\* What is output for the operations: the bytes, and the bits that remain.
Output(put, ops, derived) ==
  LET markers == {i \in DOMAIN ops : ops[i].kind = "restart"}
      Of(seq) == FlatMap(LAMBDA i : BitsOfOp(derived, seq[i]), Len(seq))
  IN IF markers = {} THEN emit_bits(put \o Of(ops))
     ELSE LET m == Max(markers)
              first == emit_bits(put \o Of(SubSeq(ops, 1, m - 1)))
              second == emit_bits(Of(SubSeq(ops, m + 1, Len(ops))))
          IN [bytes |-> first.bytes \o flush_bits(first.put)
                        \o <<255, 208 + ops[m].num>> \o second.bytes,
              put |-> second.put]
finish_pass_huff(f, e, scan, derived) ==
  LET last == Output(e.put, emit_eobrun(e, f.comps[scan.comps[1]].ac), derived)
  IN last.bytes \o flush_bits(last.put)
=============================================================================
