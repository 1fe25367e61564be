----------------------------- MODULE Compressor -----------------------------
(***************************************************************************)
(* The compressor of libjpeg from the coefficients on: its passes          *)
(* (jcmaster.c), the MCUs it encodes in each (jccoefct.c, jchuff.c) and    *)
(* the markers it writes (jcmarker.c). In a gathering pass the symbols of  *)
(* a scan are counted and nothing is written; the pass that follows writes *)
(* the scan with the best tables for it.                                   *)
(*                                                                         *)
(* A job is what an application asks for:                                  *)
(*   f, image            the frame, and the blocks of each component       *)
(*   script, optimize    the scans, and whether to gather                  *)
(*   interval, rows      restart interval in MCUs, or in rows of them      *)
(*   buffer              bytes that the destination takes before it asks   *)
(*                       to wait; 0: it never does                         *)
(*   longest             16, the longest code of a table                   *)
(* and on the side of the decompressor, see Codestream,                    *)
(*   multiscan           coefficients are kept for the whole image         *)
(*   needed, sizes       the components wanted, and their scaled sizes     *)
(*   damage              what may happen to the file                       *)
(*                                                                         *)
(* The file is a sequence of bytes. The parameters of a marker are one     *)
(* element after it, 256 + n, which stands for params[n].                  *)
(***************************************************************************)
EXTENDS HuffEncoder

CONSTANT Jobs                              \* a sequence of jobs

\* A scan of a script that an application can write (jpeg_scan_info).
ScanType == [comps : Seq(Nat), Ss : Int, Se : Int, Ah : Int, Al : Int]

ASSUME JobsAssumption ==
  \A j \in DOMAIN Jobs : Jobs[j].script \in Seq(ScanType) /\ Jobs[j].f.bs \in 1 .. 16

VARIABLES job,                             \* the one that is done
          phase,                           \* how far it is
          pass,                            \* the pass of the compressor
          entropy, gathered,               \* its entropy encoder, and the symbols so far
          tables, sent,                    \* the Huffman tables, and those written
          last_restart_interval,
          free,                            \* the room in the destination's buffer
          file, params

compressor == <<job, pass, entropy, gathered, tables, sent, last_restart_interval, free>>

SOF0 == 192
SOF1 == 193
SOF2 == 194
DHT == 196
SOI == 216
EOI == 217
SOS == 218
DRI == 221

Progressive == IsProgressive(job.script)
Script == IF job.f.bs < DCTSIZE THEN reduce_script(job.script, lim_Se(job.f.bs)) ELSE job.script
NumScans == IF job.script = <<>> THEN 1 ELSE Len(Script)
OptimizeCoding == job.optimize \/ Progressive \/ job.f.bs < DCTSIZE
TotalPasses == IF OptimizeCoding THEN 2 * NumScans ELSE NumScans

Scan == select_scan_parameters(job.f, Progressive, Script, pass.scan_number + 1)
Interval == restart_interval(job.f, Scan, job.interval, job.rows)
Gathering == OptimizeCoding /\ pass.type # "output"

-----------------------------------------------------------------------------
(* Markers *)

\* The file after the markers, each [code, param] or [code] alone.
Written(to, markers) ==
  FoldLeft(LAMBDA so, m :
             [file |-> so.file \o <<255, m.code, 256 + Len(so.params) + 1>>,
              params |-> Append(so.params, m.param)], to, markers)

write_frame_header ==
  LET baseline == /\ ~Progressive /\ job.f.bs = DCTSIZE
                  /\ \A comp \in Range(job.f.comps) : {comp.dc, comp.ac} \subseteq {1, 2}
      sof == [comps |-> [c \in DOMAIN job.f.comps |->
                           [h |-> job.f.comps[c].h, v |-> job.f.comps[c].v]],
              width |-> job.f.width, height |-> job.f.height]
      pseudo == [comps |-> <<>>, dc |-> <<>>, ac |-> <<>>,
                 Ss |-> 0, Se |-> job.f.bs * job.f.bs - 1, Ah |-> 0, Al |-> 0]
  IN <<[code |-> IF Progressive THEN SOF2 ELSE IF baseline THEN SOF0 ELSE SOF1, param |-> sof]>>
     \o (IF Progressive /\ job.f.bs # DCTSIZE THEN <<[code |-> SOS, param |-> pseudo]>> ELSE <<>>)

\* The tables that were not written yet, the restart interval if it is another one,
\* and the scan; a table that it does not use goes by the first number.
emit_sos ==
  [comps |-> Scan.comps, Ss |-> Scan.Ss, Se |-> Scan.Se, Ah |-> Scan.Ah, Al |-> Scan.Al,
   dc |-> [ci \in DOMAIN Scan.comps |-> IF UsesDC(Scan) THEN job.f.comps[Scan.comps[ci]].dc ELSE 1],
   ac |-> [ci \in DOMAIN Scan.comps |-> IF UsesAC(Scan) THEN job.f.comps[Scan.comps[ci]].ac ELSE 1]]
DriNeeded == Interval # last_restart_interval
write_scan_header ==
  LET unsent == SetToSeq(TablesOf(job.f, Scan) \ sent)
  IN [i \in DOMAIN unsent |->
        [code |-> DHT, param |-> [table |-> unsent[i], t |-> tables[unsent[i]]]]]
     \o (IF DriNeeded THEN <<[code |-> DRI, param |-> Interval]>> ELSE <<>>)
     \o <<[code |-> SOS, param |-> emit_sos]>>

-----------------------------------------------------------------------------
(* Passes *)

jinit_c_master_control ==
  /\ phase = IF job.script = <<>> \/ validate_script(job.script, Len(job.f.comps))
             THEN "compress" ELSE "refused"
  /\ pass = [type |-> "main", scan_number |-> 0, pass_number |-> 0, started |-> FALSE,
             at |-> ScanStart]
CompressorInit ==
  /\ \E j \in DOMAIN Jobs : job = Jobs[j]
  /\ jinit_c_master_control
  /\ entropy = <<>> /\ gathered = <<>>
  /\ tables = [t \in {"dc", "ac"} \X {1, 2} |-> IF t[1] = "dc" THEN StdDC[t[2]] ELSE StdAC[t[2]]]
  /\ sent = {}
  /\ last_restart_interval = 0
  /\ free = job.buffer
  /\ file = <<255, SOI>> /\ params = <<>>

\* The refinement of DC needs no table, and is not counted first.
SkipsGathering(scan) == scan.Ss = 0 /\ scan.Ah # 0
prepare_for_pass ==
  /\ phase = "compress" /\ ~pass.started
  /\ LET skips == pass.type = "huff_opt" /\ SkipsGathering(Scan)
         type == IF skips THEN "output" ELSE pass.type
         gathers == OptimizeCoding /\ type # "output"
         to == Written([file |-> file, params |-> params],
                       (IF pass.scan_number = 0 THEN write_frame_header ELSE <<>>)
                       \o write_scan_header)
         fails == \/ ~per_scan_setup_OK(job.f, Scan)
                  \/ ~gathers /\ \E t \in TablesOf(job.f, Scan) :
                                   ~EncoderAccepts(tables[t], t[1] = "dc")
     IN IF fails
        THEN phase' = "failed" /\ UNCHANGED <<compressor, file, params>>
        ELSE /\ pass' = [pass EXCEPT !.type = type, !.started = TRUE, !.at = ScanStart,
                                     !.pass_number = IF skips THEN @ + 1 ELSE @]
             /\ entropy' = start_pass_huff(Scan, Interval,
                  IF gathers THEN <<>>
                  ELSE [t \in TablesOf(job.f, Scan) |-> EncoderTable(tables[t])])
             /\ gathered' = <<>>
             /\ IF gathers THEN UNCHANGED <<file, params, sent, last_restart_interval>>
                ELSE /\ file' = to.file /\ params' = to.params
                     /\ sent' = sent \cup TablesOf(job.f, Scan)
                     /\ last_restart_interval' = Interval
             /\ UNCHANGED <<job, phase, tables, free>>

Blocks == MCU_blocks(job.f, Scan, pass.at)
MCU == MCU_buffer(job.f, job.image, Scan, pass.at)
Encoded ==
  IF Progressive THEN encode_mcu_progressive(job.f, entropy, Scan, Interval, Blocks, MCU)
  ELSE IF Gathering THEN encode_mcu_gather(job.f, entropy, Interval, Blocks, MCU)
  ELSE encode_mcu_huff(job.f, entropy, Interval, Blocks, MCU)
Symbols(ops) == SelectSeq(ops, LAMBDA o : o.kind \in {"dc", "ac"})

Running == phase = "compress" /\ pass.started
MoveOn == pass' = [pass EXCEPT !.at = NextMCU(job.f, Scan, @)]

GatherMCU ==
  /\ Running /\ Gathering /\ ~AtEnd(job.f, pass.at)
  /\ \E r \in {Encoded} : entropy' = r.e /\ gathered' = gathered \o Symbols(r.ops)
  /\ MoveOn
  /\ UNCHANGED <<job, phase, tables, sent, last_restart_interval, free, file, params>>

\* Where the buffer is full within an MCU, nothing of it has happened.
Suspend == free' = 0 /\ UNCHANGED <<job, phase, pass, entropy, gathered, tables, sent,
                                    last_restart_interval, file, params>>
OutputMCU ==
  /\ Running /\ ~Gathering /\ ~AtEnd(job.f, pass.at)
  /\ \E r \in {Encoded} :
       IF \E i \in DOMAIN r.ops : Missing(entropy.derived, r.ops[i])
       THEN phase' = "failed" /\ UNCHANGED <<compressor, file, params>>
       ELSE \E out \in {Output(entropy.put, r.ops, entropy.derived)} :
              IF job.buffer > 0 /\ Len(out.bytes) >= free THEN Suspend
              ELSE /\ file' = file \o out.bytes
                   /\ entropy' = [r.e EXCEPT !.put = out.put]
                   /\ free' = IF job.buffer > 0 THEN free - Len(out.bytes) ELSE free
                   /\ MoveOn
                   /\ UNCHANGED <<job, phase, gathered, tables, sent, last_restart_interval,
                                  params>>

\* The application takes what the buffer holds, when it is asked to wait and before
\* it finishes, which cannot wait.
EmptyBuffer ==
  /\ Running /\ free < job.buffer
  /\ free = 0 \/ AtEnd(job.f, pass.at)
  /\ free' = job.buffer
  /\ UNCHANGED <<job, phase, pass, entropy, gathered, tables, sent, last_restart_interval,
                 file, params>>

finish_pass_master ==
  /\ Running /\ AtEnd(job.f, pass.at) /\ free = job.buffer
  /\ LET last == pass.pass_number + 1 = TotalPasses
         bytes == IF Gathering THEN <<>>
                  ELSE finish_pass_huff(job.f, entropy, Scan, entropy.derived)
     IN /\ tables' = IF Gathering
                     THEN finish_pass_gather(job.f, entropy, Scan, gathered, tables, job.longest)
                     ELSE tables
        /\ sent' = IF Gathering THEN sent \ TablesOf(job.f, Scan) ELSE sent
        /\ file' = file \o bytes \o (IF last THEN <<255, EOI>> ELSE <<>>)
        /\ phase' = IF last THEN "sent" ELSE phase
        /\ pass' = [pass EXCEPT
             !.type = IF Gathering \/ ~OptimizeCoding THEN "output" ELSE "huff_opt",
             !.scan_number = IF Gathering THEN @ ELSE @ + 1,
             !.pass_number = @ + 1, !.started = FALSE]
  /\ UNCHANGED <<job, entropy, gathered, last_restart_interval, free, params>>

CompressorNext ==
  prepare_for_pass \/ GatherMCU \/ OutputMCU \/ EmptyBuffer \/ finish_pass_master

\* What follows, the way of the file and the decompressor, is no business of the compressor's.
Afterwards == phase # "compress" /\ phase' # "compress" /\ UNCHANGED compressor

\* The compressor by itself. Whatever the way of the file and the decompressor do, they
\* begin when its last pass has ended or an error has ended it, and leave it as it is
\* (jpeg_finish_compress, after which only the destination has the file).
CompressorSpec ==
  CompressorInit /\ [][CompressorNext \/ Afterwards]_<<phase, compressor, file, params>>

-----------------------------------------------------------------------------
(* Properties *)

\* The correction bits of an MCU always have room after those that still wait for the
\* end of their run (MAX_CORR_BITS in jchuff.c).
CorrectionBitsHaveRoom ==
  Running /\ ~AtEnd(job.f, pass.at) /\ Progressive /\ Scan.Ss > 0 /\ Scan.Ah > 0
    => CorrectionBitsFit(entropy, Scan, MCU[1])
=============================================================================
