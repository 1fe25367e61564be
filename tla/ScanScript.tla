----------------------------- MODULE ScanScript -----------------------------
(***************************************************************************)
(* The scans of an image (jcmaster.c, jcparam.c) and the blocks that each  *)
(* MCU of a scan consists of (jccoefct.c, jdcoefct.c). A scan is           *)
(*   [comps, Ss, Se, Ah, Al]: the components it sends, the band of         *)
(* coefficients in zigzag order, and the bit positions before and after.   *)
(* A frame f has                                                           *)
(*   f.comps[c]        the sampling factors h, v and tables dc, ac of c    *)
(*   f.width, f.height in samples, and f.bs, the size of a block.          *)
(***************************************************************************)
EXTENDS Integers, FiniteSets, SequencesExt

DCTSIZE == 8
MAX_AH_AL == 10
MAX_COMPS_IN_SCAN == 4
C_MAX_BLOCKS_IN_MCU == 10

RoundUp(a, b) == (a + b - 1) \div b
Rest(a, b) == IF a % b = 0 THEN b ELSE a % b          \* how much of the last b is used
lim_Se(bs) == IF bs < DCTSIZE THEN bs * bs - 1 ELSE DCTSIZE * DCTSIZE - 1

-----------------------------------------------------------------------------
(* Scan scripts *)

IsProgressive(script) ==
  script # <<>> /\ (script[1].Ss # 0 \/ script[1].Se # DCTSIZE * DCTSIZE - 1)

\* The bit position that scans before the n-th have reached for k of component c.
LastBitpos(script, n, c, k) ==
  LET before == {i \in 1 .. n - 1 : c \in Range(script[i].comps)
                                    /\ script[i].Ss <= k /\ k <= script[i].Se}
  IN IF before = {} THEN -1 ELSE script[Max(before)].Al

InFrameOrder(scan, ncomps) ==
  /\ Len(scan.comps) \in 1 .. MAX_COMPS_IN_SCAN
  /\ Range(scan.comps) \subseteq 1 .. ncomps
  /\ \A i \in 2 .. Len(scan.comps) : scan.comps[i - 1] < scan.comps[i]

LegalProgression(script, n) ==
  LET s == script[n]
  IN /\ 0 <= s.Ss /\ s.Ss <= s.Se /\ s.Se < DCTSIZE * DCTSIZE
     /\ {s.Ah, s.Al} \subseteq 0 .. MAX_AH_AL
     /\ IF s.Ss = 0 THEN s.Se = 0 ELSE Len(s.comps) = 1
     /\ \A c \in Range(s.comps) :
          /\ s.Ss # 0 => LastBitpos(script, n, c, 0) >= 0
          /\ \A k \in s.Ss .. s.Se :
               LET last == LastBitpos(script, n, c, k)
               IN IF last < 0 THEN s.Ah = 0 ELSE s.Ah = last /\ s.Al = s.Ah - 1

validate_script(script, ncomps) ==
  LET scans == DOMAIN script
  IN /\ script # <<>>
     /\ \A n \in scans : InFrameOrder(script[n], ncomps)
     /\ IF IsProgressive(script)
        THEN /\ \A n \in scans : LegalProgression(script, n)
             /\ \A c \in 1 .. ncomps : LastBitpos(script, Len(script) + 1, c, 0) >= 0
        ELSE /\ \A n \in scans : /\ script[n].Ss = 0 /\ script[n].Se = DCTSIZE * DCTSIZE - 1
                                 /\ script[n].Ah = 0 /\ script[n].Al = 0
             /\ \A c \in 1 .. ncomps :
                  Cardinality({n \in scans : c \in Range(script[n].comps)}) = 1

\* Blocks smaller than 8x8 have fewer coefficients to send.
reduce_script(script, lim) ==
  LET upTo[n \in 0 .. Len(script)] ==
        IF n = 0 THEN <<>>
        ELSE IF script[n].Ss > lim THEN upTo[n - 1]
        ELSE Append(upTo[n - 1], [script[n] EXCEPT !.Se = IF @ > lim THEN lim ELSE @])
  IN upTo[Len(script)]

fill_a_scan(c, Ss, Se, Ah, Al) ==
  <<[comps |-> <<c>>, Ss |-> Ss, Se |-> Se, Ah |-> Ah, Al |-> Al]>>
fill_scans(n, Ss, Se, Ah, Al) ==
  [c \in 1 .. n |-> fill_a_scan(c, Ss, Se, Ah, Al)[1]]
fill_dc_scans(n, Ah, Al) ==
  IF n > MAX_COMPS_IN_SCAN THEN fill_scans(n, 0, 0, Ah, Al)
  ELSE <<[comps |-> [c \in 1 .. n |-> c], Ss |-> 0, Se |-> 0, Ah |-> Ah, Al |-> Al]>>

jpeg_simple_progression(n, isYCbCr) ==
  IF n = 3 /\ isYCbCr
  THEN fill_dc_scans(n, 0, 1) \o fill_a_scan(1, 1, 5, 0, 2)
       \o fill_a_scan(3, 1, 63, 0, 1) \o fill_a_scan(2, 1, 63, 0, 1)
       \o fill_a_scan(1, 6, 63, 0, 2) \o fill_a_scan(1, 1, 63, 2, 1)
       \o fill_dc_scans(n, 1, 0)
       \o fill_a_scan(3, 1, 63, 1, 0) \o fill_a_scan(2, 1, 63, 1, 0)
       \o fill_a_scan(1, 1, 63, 1, 0)
  ELSE fill_dc_scans(n, 0, 1)
       \o fill_scans(n, 1, 5, 0, 2) \o fill_scans(n, 6, 63, 0, 2)
       \o fill_scans(n, 1, 63, 2, 1)
       \o fill_dc_scans(n, 1, 0) \o fill_scans(n, 1, 63, 1, 0)

\* What the n-th scan sends: of a sequential image each scan sends everything.
select_scan_parameters(f, progressive, script, n) ==
  IF progressive THEN script[n]
  ELSE [comps |-> IF script = <<>> THEN [c \in DOMAIN f.comps |-> c] ELSE script[n].comps,
        Ss |-> 0, Se |-> f.bs * f.bs - 1, Ah |-> 0, Al |-> 0]

-----------------------------------------------------------------------------
(* MCUs *)

MaxH(f) == Max({f.comps[c].h : c \in DOMAIN f.comps})
MaxV(f) == Max({f.comps[c].v : c \in DOMAIN f.comps})
width_in_blocks(f, c) == RoundUp(f.width * f.comps[c].h, MaxH(f) * f.bs)
height_in_blocks(f, c) == RoundUp(f.height * f.comps[c].v, MaxV(f) * f.bs)
total_iMCU_rows(f) == RoundUp(f.height, MaxV(f) * f.bs)

\* The whole arrays are padded to full MCUs.
WholeImage(f, c) ==
  (0 .. total_iMCU_rows(f) * f.comps[c].v - 1)
    \X (0 .. RoundUp(width_in_blocks(f, c), f.comps[c].h) * f.comps[c].h - 1)
RealBlocks(f, c) == (0 .. height_in_blocks(f, c) - 1) \X (0 .. width_in_blocks(f, c) - 1)

Interleaved(scan) == Len(scan.comps) > 1
MCUs_per_row(f, scan) ==
  IF Interleaved(scan) THEN RoundUp(f.width, MaxH(f) * f.bs)
  ELSE width_in_blocks(f, scan.comps[1])
blocks_in_MCU(f, scan) ==
  IF Interleaved(scan)
  THEN FoldSeq(LAMBDA c, n : n + f.comps[c].h * f.comps[c].v, 0, scan.comps) ELSE 1

\* Where a scan is: the row of MCUs of the frame, the row of MCUs in it, the MCU.
MCU_rows_per_iMCU_row(f, scan, row) ==
  LET c == scan.comps[1]
  IN IF Interleaved(scan) THEN 1
     ELSE IF row < total_iMCU_rows(f) - 1 THEN f.comps[c].v
     ELSE Rest(height_in_blocks(f, c), f.comps[c].v)

ScanStart == [row |-> 0, vert |-> 0, ctr |-> 0]
AtEnd(f, p) == p.row = total_iMCU_rows(f)
NextMCU(f, scan, p) ==
  IF p.ctr + 1 < MCUs_per_row(f, scan) THEN [p EXCEPT !.ctr = @ + 1]
  ELSE IF p.vert + 1 < MCU_rows_per_iMCU_row(f, scan, p.row)
       THEN [p EXCEPT !.vert = @ + 1, !.ctr = 0]
       ELSE [row |-> p.row + 1, vert |-> 0, ctr |-> 0]

\* The blocks of the MCU at p: of which component (ci-th of the scan), and where.
BlocksOf(f, scan, p, ci) ==
  LET h == f.comps[scan.comps[ci]].h
      v == f.comps[scan.comps[ci]].v
  IN [i \in 1 .. h * v |->
       [ci |-> ci, c |-> scan.comps[ci],
        at |-> <<p.row * v + ((i - 1) \div h), p.ctr * h + ((i - 1) % h)>>]]
MCU_blocks(f, scan, p) ==
  IF Interleaved(scan)
  THEN FlattenSeq([ci \in DOMAIN scan.comps |-> BlocksOf(f, scan, p, ci)])
  ELSE <<[ci |-> 1, c |-> scan.comps[1],
          at |-> <<p.row * f.comps[scan.comps[1]].v + p.vert, p.ctr>>]>>

\* A block outside of the image has no AC coefficients, and the DC of the last
\* real block before it in its MCU.
MCU_buffer(f, image, scan, p) ==
  LET bs == MCU_blocks(f, scan, p)
      Real(b) == b.at \in RealBlocks(f, b.c)
      Block(i) ==
        IF Real(bs[i]) THEN image[bs[i].c][bs[i].at]
        ELSE LET j == Max({j \in 1 .. i : Real(bs[j])})
             IN [k \in 0 .. lim_Se(f.bs) |-> IF k = 0 THEN image[bs[j].c][bs[j].at][0] ELSE 0]
  IN [i \in DOMAIN bs |-> Block(i)]

\* A restart interval may be given in rows; it has 16 bits.
restart_interval(f, scan, interval, rows) ==
  IF rows = 0 THEN interval
  ELSE IF rows * MCUs_per_row(f, scan) > 65535 THEN 65535 ELSE rows * MCUs_per_row(f, scan)

per_scan_setup_OK(f, scan) ==
  Interleaved(scan) => blocks_in_MCU(f, scan) <= C_MAX_BLOCKS_IN_MCU
=============================================================================
