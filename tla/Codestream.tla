----------------------------- MODULE Codestream -----------------------------
(***************************************************************************)
(* A picture on its way from the compressor of libjpeg to its decompressor *)
(* (jdinput.c, jdmarker.c, jdcoefct.c, jdhuff.c). The file may arrive in   *)
(* pieces, and the decompressor then gives up what it was doing and does   *)
(* it again. On its way segments between restart markers may be lost, or   *)
(* the end of the file.                                                    *)
(***************************************************************************)
EXTENDS Compressor, HuffDecoder

VARIABLES avail,             \* how much of the file has arrived
          waiting,           \* the decompressor asked for more
          cut,               \* the end of the file is missing
          lost,              \* [scan, segments]: what was lost of which scan
          mode,              \* what the decompressor does
          d,                 \* its entropy decoder and marker reader
          frame, scan,       \* what SOF and SOS said
          inheaders, input_scan_number,
          interval, huff_tbls, derived, coef_bits,
          at,                \* the MCU it has reached
          image              \* the coefficients it has decoded

decompressor == <<d, frame, scan, inheaders, input_scan_number, interval, huff_tbls, derived,
                  coef_bits, at, image>>
vars == <<phase, compressor, file, params, avail, waiting, cut, lost, mode, decompressor>>

NothingLost == [scan |-> 0, segments |-> {}]
Init ==
  /\ CompressorInit
  /\ avail = 0 /\ waiting = TRUE /\ cut = FALSE /\ lost = NothingLost
  /\ mode = "markers"
  /\ d = [pos |-> 0, bits |-> <<>>, unread |-> 0, insufficient |-> FALSE, discarded |-> FALSE,
          restarts_to_go |-> 0, next_restart_num |-> 0, last_dc_val |-> <<>>, EOBRUN |-> 0,
          warned |-> {}]
  /\ frame = <<>> /\ scan = <<>> /\ inheaders = 1 /\ input_scan_number = 0
  /\ interval = 0 /\ huff_tbls = <<>> /\ derived = <<>> /\ coef_bits = <<>>
  /\ at = ScanStart /\ image = <<>>

Compress ==
  /\ CompressorNext
  /\ UNCHANGED <<avail, waiting, cut, lost, mode, decompressor>>

-----------------------------------------------------------------------------
(* On the way *)

MarkerAt(i) == file[i] = 255 /\ file[i + 1] \notin {0, 255}
RestartAt(i) == MarkerAt(i) /\ file[i + 1] \in RST0 .. RST0 + 7
Places == 1 .. Len(file) - 1
NextMarkerAfter(i) == Min({j \in Places : j > i /\ MarkerAt(j)})

\* Of the segment that begins with the restart marker at i: the scan and its number.
ScanOf(i) == Cardinality({j \in Places : j < i /\ MarkerAt(j) /\ file[j + 1] = SOS
                                         /\ params[file[j + 2] - 256].comps # <<>>})
NumberOf(i) == Cardinality({j \in Places : j <= i /\ RestartAt(j) /\ ScanOf(j) = ScanOf(i)})

Deliver ==
  /\ phase = "sent" /\ job.damage = "none"
  /\ phase' = "delivered"
  /\ UNCHANGED <<compressor, file, params, avail, waiting, cut, lost, mode, decompressor>>

LoseSegments ==
  /\ phase = "sent" /\ job.damage = "segments"
  /\ \E i \in {i \in Places : RestartAt(i)} :
     \E n \in 1 .. Cardinality({j \in Places : j >= i /\ RestartAt(j) /\ ScanOf(j) = ScanOf(i)}) :
       LET gone == {j \in Places : RestartAt(j) /\ ScanOf(j) = ScanOf(i)
                                   /\ NumberOf(j) \in NumberOf(i) .. NumberOf(i) + n - 1}
       IN /\ file' = SubSeq(file, 1, i - 1) \o SubSeq(file, NextMarkerAfter(Max(gone)), Len(file))
          /\ lost' = [scan |-> ScanOf(i), segments |-> {NumberOf(j) : j \in gone}]
  /\ phase' = "delivered"
  /\ UNCHANGED <<compressor, params, avail, waiting, cut, mode, decompressor>>

\* A byte of a segment is lost; a stuffed zero goes with the byte before it.
DataAt(i) ==
  /\ ScanOf(i) > 0 /\ file[i] < 256
  /\ ~MarkerAt(i) /\ ~MarkerAt(i - 1) /\ ~(file[i - 1] = 255 /\ file[i] = 0)
LoseByte ==
  /\ phase = "sent" /\ job.damage = "byte"
  /\ \E i \in {i \in Places : DataAt(i)} :
       /\ file' = SubSeq(file, 1, i - 1)
                  \o SubSeq(file, i + (IF file[i] = 255 THEN 2 ELSE 1), Len(file))
       /\ lost' = [scan |-> ScanOf(i), segments |-> {NumberOf(i)}]
  /\ phase' = "delivered"
  /\ UNCHANGED <<compressor, params, avail, waiting, cut, mode, decompressor>>

\* Headers are not cut.
CutShort ==
  /\ phase = "sent" /\ job.damage = "end"
  /\ \E i \in Places : /\ ScanOf(i - 2) > 0 /\ file[i] < 256 /\ file[i + 1] < 256
                       /\ file' = SubSeq(file, 1, i)
  /\ cut' = TRUE
  /\ phase' = "delivered"
  /\ UNCHANGED <<compressor, params, avail, waiting, lost, mode, decompressor>>

Arrive ==
  /\ phase = "delivered" /\ waiting /\ avail < Len(file)
  /\ \E n \in job.chunks : avail' = Min({avail + n, Len(file)})
  /\ waiting' = FALSE
  /\ UNCHANGED <<phase, compressor, file, params, cut, lost, mode, decompressor>>

\* Where the file ends early its reader makes up an EOI marker.
fill_input_buffer ==
  /\ phase = "delivered" /\ waiting /\ avail = Len(file) /\ cut
  /\ file' = file \o <<255, EOI>> /\ avail' = avail + 2
  /\ d' = Warn(d, "JPEG_EOF")
  /\ waiting' = FALSE
  /\ UNCHANGED <<phase, compressor, params, cut, lost, mode, frame, scan, inheaders,
                 input_scan_number, interval, huff_tbls, derived, coef_bits, at, image>>

-----------------------------------------------------------------------------
(* Markers *)

Reading(what) == phase = "delivered" /\ ~waiting /\ mode = what
Arrived == SubSeq(file, 1, avail)

\* The reader after it has looked for a marker, and the parameters if they are there.
FoundBy(w) == [d |-> Kept(w), ok |-> w.ok, code |-> w.unread]
Found ==
  LET w == d @@ [data |-> Arrived, ok |-> TRUE]
  IN FoundBy(IF d.unread = 0 THEN next_marker(w) ELSE w)
HasParam(code) == code \in {SOF0, SOF1, SOF2, DHT, SOS, DRI}
Param == params[file[Found.d.pos + 1] - 256]
ProcessedBy(found) ==
  [found.d EXCEPT !.unread = 0, !.pos = IF HasParam(found.code) THEN @ + 1 ELSE @]
Processed == ProcessedBy(Found)

AwaitMarker ==
  /\ Reading("markers")
  /\ ~Found.ok \/ (HasParam(Found.code) /\ Found.d.pos = avail)
  /\ d' = Found.d
  /\ waiting' = TRUE
  /\ UNCHANGED <<phase, compressor, file, params, avail, cut, lost, mode, frame, scan,
                 inheaders, input_scan_number, interval, huff_tbls, derived, coef_bits, at, image>>

ReadMarker(code) ==
  /\ Reading("markers") /\ Found.ok /\ Found.code = code
  /\ HasParam(code) => Found.d.pos < avail
  /\ UNCHANGED <<compressor, file, params, avail, waiting, cut, lost, derived, at>>

get_soi ==
  /\ ReadMarker(SOI)
  /\ d' = Processed
  /\ interval' = 0
  /\ UNCHANGED <<phase, mode, frame, scan, inheaders, input_scan_number, huff_tbls, coef_bits,
                 image>>

get_sof(code) ==
  /\ ReadMarker(code)
  /\ d' = Processed
  /\ frame' = [width |-> Param.width, height |-> Param.height, bs |-> 0,
               is_baseline |-> code = SOF0, progressive |-> code = SOF2,
               comps |-> [c \in DOMAIN Param.comps |->
                            Param.comps[c] @@ [dc |-> 1, ac |-> 1, needed |-> job.needed[c],
                                  hsize |-> job.sizes[c][1], vsize |-> job.sizes[c][2]]]]
  /\ coef_bits' = [c \in DOMAIN Param.comps |-> [k \in 0 .. DCTSIZE * DCTSIZE - 1 |-> -1]]
  /\ UNCHANGED <<phase, mode, scan, inheaders, input_scan_number, interval, huff_tbls, image>>

get_dht ==
  /\ ReadMarker(DHT)
  /\ d' = Processed
  /\ huff_tbls' = [t \in DOMAIN huff_tbls \cup {Param.table} |->
                     IF t = Param.table THEN Param.t ELSE huff_tbls[t]]
  /\ UNCHANGED <<phase, mode, frame, scan, inheaders, input_scan_number, interval, coef_bits,
                 image>>

get_dri ==
  /\ ReadMarker(DRI)
  /\ d' = Processed
  /\ interval' = Param
  /\ UNCHANGED <<phase, mode, frame, scan, inheaders, input_scan_number, huff_tbls, coef_bits,
                 image>>

\* The size of a block follows from the first scan header, which may be there for
\* nothing else.
BlockSize(f, s) ==
  IF f.is_baseline \/ (f.progressive /\ s.comps # <<>>) THEN DCTSIZE
  ELSE CHOOSE n \in 1 .. 16 : n * n - 1 = s.Se

WithTables(f, s) ==
  [f EXCEPT !.comps = [c \in DOMAIN @ |->
     IF c \in Range(s.comps)
     THEN LET ci == CHOOSE ci \in DOMAIN s.comps : s.comps[ci] = c
          IN [@[c] EXCEPT !.dc = s.dc[ci], !.ac = s.ac[ci]]
     ELSE @[c]]]
ZeroImage(f) ==
  [c \in DOMAIN f.comps |-> [b \in WholeImage(f, c) |-> [k \in 0 .. lim_Se(f.bs) |-> 0]]]
FrameAfter(s) ==
  IF inheaders = 1 THEN [WithTables(frame, s) EXCEPT !.bs = BlockSize(frame, s)]
  ELSE WithTables(frame, s)
get_sos ==
  LET unexpected == inheaders = 0 /\ ~frame.progressive /\ Len(scan.comps) = Len(frame.comps)
  IN /\ ReadMarker(SOS)
     /\ d' = [Processed EXCEPT !.next_restart_num = 0]
     /\ \E s \in {Param} :
          /\ scan' = s
          /\ frame' = FrameAfter(s)
          /\ inheaders' = IF s.comps # <<>> THEN 0 ELSE IF inheaders > 0 THEN 2 ELSE 0
          /\ input_scan_number' = IF s.comps # <<>> THEN input_scan_number + 1
                                  ELSE input_scan_number
          /\ mode' = IF s.comps # <<>> THEN "start" ELSE "markers"
     /\ image' = IF inheaders = 1 THEN ZeroImage(frame') ELSE image
     /\ phase' = IF unexpected THEN "failed" ELSE phase
     /\ UNCHANGED <<interval, huff_tbls, coef_bits>>

get_eoi ==
  /\ ReadMarker(EOI)
  /\ d' = Processed
  /\ phase' = "done" /\ mode' = "eoi"
  /\ UNCHANGED <<frame, scan, inheaders, input_scan_number, interval, huff_tbls, coef_bits, image>>

-----------------------------------------------------------------------------
(* Scans *)

start_input_pass ==
  /\ Reading("start")
  /\ LET tables_needed == TablesNeeded(frame, scan)
         bad == \/ frame.progressive /\ ~LegalScan(frame, scan)
                \/ \E t \in tables_needed :
                     t \notin DOMAIN huff_tbls \/ ~DecoderAccepts(huff_tbls[t], t[1] = "dc")
         warning == IF frame.progressive
                    THEN IF BogusProgression(scan, coef_bits) THEN {"BOGUS_PROGRESSION"} ELSE {}
                    ELSE IF NotSequential(frame, scan) THEN {"NOT_SEQUENTIAL"} ELSE {}
     IN /\ phase' = IF bad THEN "failed" ELSE phase
        /\ d' = [start_pass_huff_decoder(d, scan, interval) EXCEPT !.warned = @ \cup warning]
        /\ derived' = IF bad THEN <<>> ELSE [t \in tables_needed |-> DecoderTable(huff_tbls[t])]
        /\ coef_bits' = [c \in DOMAIN coef_bits |->
             IF frame.progressive /\ c \in Range(scan.comps)
             THEN [k \in DOMAIN coef_bits[c] |->
                     IF k \in scan.Ss .. scan.Se THEN scan.Al ELSE coef_bits[c][k]]
             ELSE coef_bits[c]]
  /\ at' = ScanStart
  /\ mode' = "scan"
  /\ UNCHANGED <<compressor, file, params, avail, waiting, cut, lost, frame, scan, inheaders,
                 input_scan_number, interval, huff_tbls, image>>

\* A single scan needs no whole image: its MCUs are cleared, decoded and passed on.
consume_data ==
  /\ Reading("scan") /\ ~AtEnd(frame, at)
  /\ LET blocks == MCU_blocks(frame, scan, at)
         Before(b) == IF job.multiscan THEN image[b.c][b.at]
                      ELSE [k \in 0 .. lim_Se(frame.bs) |-> 0]
     IN \E r \in {DecodeMCU(frame, scan, interval, d, derived, blocks,
                            [i \in DOMAIN blocks |-> Before(blocks[i])], Arrived)} :
          /\ d' = r.d
          /\ image' = IF r.ok \/ job.multiscan
                      THEN FoldSeq(LAMBDA i, im :
                                     [im EXCEPT ![blocks[i].c][blocks[i].at] = r.MCU[i]],
                                   image, [i \in DOMAIN blocks |-> i])
                      ELSE image
          /\ waiting' = ~r.ok
          /\ at' = IF r.ok THEN NextMCU(frame, scan, at) ELSE at
  /\ UNCHANGED <<phase, compressor, file, params, avail, cut, lost, mode, frame, scan, inheaders,
                 input_scan_number, interval, huff_tbls, derived, coef_bits>>

finish_input_pass ==
  /\ Reading("scan") /\ AtEnd(frame, at)
  /\ mode' = "markers"
  /\ UNCHANGED <<phase, compressor, file, params, avail, waiting, cut, lost, decompressor>>

Settled == phase \in {"refused", "failed", "done"} /\ UNCHANGED vars

Next == \/ Compress
        \/ Deliver \/ LoseSegments \/ LoseByte \/ CutShort \/ Arrive \/ fill_input_buffer
        \/ AwaitMarker \/ get_soi \/ get_dht \/ get_dri \/ get_sos \/ get_eoi
        \/ \E code \in {SOF0, SOF1, SOF2} : get_sof(code)
        \/ start_input_pass \/ consume_data \/ finish_input_pass
        \/ Settled

Spec == Init /\ [][Next]_vars

-----------------------------------------------------------------------------
(* Properties *)

\* The bit position the first n scans reach, and what they tell of a coefficient.
Reached(n, c, k) ==
  IF job.script = <<>> THEN (IF n > 0 THEN 0 ELSE -1) ELSE LastBitpos(Script, n + 1, c, k)
Told(n, c, b, k) ==
  LET a == Reached(n, c, k)
      x == job.image[c][b][k]
  IN IF a < 0 THEN 0
     ELSE IF k = 0 THEN (x \div 2 ^ a) * 2 ^ a
     ELSE PointTransform(job.image[c][b], a)[k] * 2 ^ a

\* The coefficients that the inverse DCT of a component reads.
Read(c) ==
  LET n == IF job.f.bs < DCTSIZE THEN job.f.bs ELSE DCTSIZE
  IN {zigzag_order(n, p[1], p[2]) : p \in (0 .. job.sizes[c][2] - 1) \X (0 .. job.sizes[c][1] - 1)}
Right(n, c, blocks) ==
  LET read == Read(c) IN \A b \in blocks : \A k \in read : image[c][b][k] = Told(n, c, b, k)
Wanted == {c \in DOMAIN job.f.comps : job.needed[c]}
BetweenScans == phase \in {"delivered", "done"} /\ mode \in {"markers", "eoi"} /\ inheaders = 0

\* Of an undamaged file the decompressor has after each scan exactly the coefficients
\* that the scans so far tell, in every block of the picture, however the file
\* arrived and however often it gave up in the middle of an MCU (jchuff.c, jdhuff.c).
RoundTrip ==
  BetweenScans /\ job.damage = "none"
    => \A c \in Wanted : Right(input_scan_number, c, RealBlocks(job.f, c))

\* A scan script that validate_script lets pass can be sent, unless it interleaves
\* components with more than ten blocks in an MCU, which per_scan_setup refuses when
\* the scan begins (jcmaster.c 638): the compressor never lacks a code or a table, and
\* the decompressor of what it wrote neither refuses it nor warns.
NothingAmiss ==
  /\ phase = "failed" => pass.scan_number < NumScans /\ ~per_scan_setup_OK(job.f, Scan)
  /\ job.damage = "none" => d.warned = {}

\* Where a byte was lost, or at most two segments in a row, every block outside of the
\* segments is right: the restart markers tell the decompressor where it is, and nothing
\* is carried across them (process_restart in jdhuff.c, jpeg_resync_to_restart in
\* jdmarker.c).
BlocksOfSegments(s) ==
  LET sc == select_scan_parameters(job.f, Progressive, Script, s.scan)
      r == restart_interval(job.f, sc, job.interval, job.rows)
      Number(p) ==
        LET perRow == MCUs_per_row(job.f, sc)
            rowsBefore == IF Interleaved(sc) THEN p.row
                          ELSE p.row * job.f.comps[sc.comps[1]].v + p.vert
        IN rowsBefore * perRow + p.ctr
      places == {p \in [row : 0 .. total_iMCU_rows(job.f) - 1, vert : 0 .. 3,
                        ctr : 0 .. MCUs_per_row(job.f, sc) - 1] :
                   p.vert < MCU_rows_per_iMCU_row(job.f, sc, p.row)}
  IN IF s.segments = {} THEN {}
     ELSE UNION {{<<b.c, b.at>> : b \in Range(MCU_blocks(job.f, sc, p))} :
                 p \in {p \in places : Number(p) \div r \in s.segments}}
DamageIsLocal ==
  phase = "done" /\ job.damage \in {"byte", "segments"} /\ Cardinality(lost.segments) <= 2
    => LET touched == BlocksOfSegments(lost)
       IN \A c \in Wanted :
            Right(NumScans, c, {b \in RealBlocks(job.f, c) : <<c, b>> \notin touched})
=============================================================================
