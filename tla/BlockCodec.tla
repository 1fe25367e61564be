----------------------------- MODULE BlockCodec -----------------------------
(***************************************************************************)
(* One block of one component through the lossy half of libjpeg: the size  *)
(* of the DCT is chosen from the scale and the sampling factors, the block *)
(* is transformed in two passes (jfdctint.c) and quantized (jcdctmgr.c),   *)
(* then dequantized, transformed back in two passes (jidctint.c) and cut   *)
(* off to the range of a sample, and the result is compressed once more,   *)
(* as the server does when it dewraps a picture that the phone compressed. *)
(***************************************************************************)
EXTENDS Scaling, Sequences

CONSTANTS
  Scales,      \* the values of scale_num / scale_denom, as <<num, denom>>
  Factors,     \* the sampling factors
  Widths,      \* the widths of the pictures
  Pictures,    \* the samples in the corner of a picture, 16 x 16
  Quantval     \* the entries of the quantization table

ASSUME CodecAssumption ==
  /\ \A s \in Scales : s[1] \in Nat \ {0} /\ s[2] \in Nat \ {0}
  /\ Factors \subseteq 1 .. 4
  /\ Widths \subseteq Nat \ {0}
  /\ Quantval \in Nat \ {0}

F == INSTANCE Fdct
I == INSTANCE Idct

VARIABLES
  stage,       \* what is to be done next, or how it ended
  cinfo,       \* what the sizes are chosen from
  size,        \* DCT_h_scaled_size and DCT_v_scaled_size
  samples,     \* the block of samples
  work,        \* the workspace between two passes
  coef,        \* the quantized coefficients
  first,       \* those of the first generation
  clipped      \* whether the range limit has cut off a sample

vars == <<stage, cinfo, size, samples, work, coef, first, clipped>>

NoBlock == << >>

\* The two tables of functions by the size of the block.
ForwardDct == CHOOSE f \in F!ForwardDCT : f.w = size.w /\ f.h = size.h
InverseDct == CHOOSE f \in I!InverseDCT : f.w = size.w /\ f.h = size.h
Supported(s) ==
  /\ \E f \in F!ForwardDCT : f.w = s.w /\ f.h = s.h
  /\ \E f \in I!InverseDCT : f.w = s.w /\ f.h = s.h
-----------------------------------------------------------------------------
Configurations ==
  {[num |-> s[1], denom |-> s[2], block_size |-> DCTSIZE, fancy |-> fancy,
    h |-> h, v |-> v, hmax |-> hmax, vmax |-> vmax, width |-> width] :
     s \in Scales, fancy \in BOOLEAN, width \in Widths,
     h \in Factors, v \in Factors, hmax \in Factors, vmax \in Factors}

Init ==
  /\ stage = "SetUp"
  /\ cinfo \in {c \in Configurations : c.h <= c.hmax /\ c.v <= c.vmax}
  /\ size = [w |-> DCTSIZE, h |-> DCTSIZE]
  /\ samples = NoBlock /\ work = NoBlock /\ coef = NoBlock /\ first = NoBlock
  /\ clipped = FALSE

\* initial_setup(), jinit_downsampler() and start_pass_fdctmgr(), in this order.
SetUp ==
  LET min == EncoderSize(cinfo)
      s   == ScaledSize(min, cinfo)
  IN /\ stage = "SetUp"
     /\ size' = s
     /\ stage' = IF ~ Integral(Group(min, cinfo), cinfo)
                   THEN "JERR_FRACT_SAMPLE_NOTIMPL"
                 ELSE IF ~ Supported(s) THEN "JERR_BAD_DCTSIZE"
                 ELSE "Feed"
     /\ UNCHANGED <<cinfo, samples, work, coef, first, clipped>>

\* The first block of a picture. What the passes do not look at is forgotten, so
\* that configurations with blocks of the same size have the same states.
Feed(picture) ==
  /\ stage = "Feed"
  /\ samples' = [r \in 0 .. size.h - 1 |->
                   [i \in 0 .. size.w - 1 |-> picture[r][i]]]
  /\ cinfo' = NoBlock
  /\ stage' = "ForwardRows"
  /\ UNCHANGED <<size, work, coef, first, clipped>>

ForwardRows ==
  /\ stage = "ForwardRows"
  /\ work' = F!Rows(ForwardDct, samples)
  /\ stage' = "ForwardColumns"
  /\ UNCHANGED <<cinfo, size, samples, coef, first, clipped>>

ForwardColumns ==
  /\ stage = "ForwardColumns"
  /\ work' = F!Columns(ForwardDct, work)
  /\ stage' = "Quantize"
  /\ UNCHANGED <<cinfo, size, samples, coef, first, clipped>>

\* forward_DCT() divides by eight times the quantization value and rounds the
\* magnitude.
QuantizedDown(temp) ==                    \* a mutant: does not round to nearest
  temp \div (Quantval * 8)
Quantized(temp) ==
  LET qval == Quantval * 8
  IN IF temp < 0 THEN -((qval \div 2 - temp) \div qval)
                 ELSE (temp + qval \div 2) \div qval

Quantize ==
  /\ stage = "Quantize"
  /\ LET columns == F!Coefficients(ForwardDct, work)
     IN coef' = [v \in 0 .. DCTSIZE - 1 |-> [u \in 0 .. DCTSIZE - 1 |->
                   Quantized(columns[v][u])]]
  /\ first' = IF first = NoBlock THEN coef' ELSE first
  /\ stage' = IF first = NoBlock THEN "InverseColumns" ELSE "Done"
  /\ work' = NoBlock
  /\ UNCHANGED <<cinfo, size, samples, clipped>>

InverseColumns ==
  /\ stage = "InverseColumns"
  /\ work' = I!Columns(InverseDct, [v \in 0 .. DCTSIZE - 1 |->
                [u \in 0 .. DCTSIZE - 1 |-> coef[v][u] * Quantval]])
  /\ stage' = "InverseRows"
  /\ UNCHANGED <<cinfo, size, samples, coef, first, clipped>>

InverseRows ==
  /\ stage = "InverseRows"
  /\ work' = I!Rows(InverseDct, work)
  /\ stage' = "Limit"
  /\ UNCHANGED <<cinfo, size, samples, coef, first, clipped>>

\* The output of the second pass goes through the range limit table.
Limit ==
  /\ stage = "Limit"
  /\ samples' = I!Samples(InverseDct, work)
  /\ clipped' = \E r \in DOMAIN work : \E i \in DOMAIN work[r] :
                  samples'[r][i] # work[r][i] + CENTERJSAMPLE
  /\ stage' = "ForwardRows"
  /\ work' = NoBlock
  /\ UNCHANGED <<cinfo, size, coef, first>>

Transform ==
  ForwardRows \/ ForwardColumns \/ Quantize
    \/ InverseColumns \/ InverseRows \/ Limit

Next == SetUp \/ (\E picture \in Pictures : Feed(picture)) \/ Transform

Spec == Init /\ [][Next]_vars
-----------------------------------------------------------------------------
Entries(block) ==
  UNION {{block[r][i] : i \in DOMAIN block[r]} : r \in DOMAIN block}

\* The sizes whose forward DCT has lost a shift in its first pass.
Unshifted == {[w |-> 12, h |-> 12], [w |-> 12, h |-> 6],
              [w |-> 14, h |-> 14], [w |-> 14, h |-> 7]}

TypeOK ==
  /\ stage \in {"SetUp", "Feed", "ForwardRows", "ForwardColumns", "Quantize",
                "InverseColumns", "InverseRows", "Limit", "Done",
                "JERR_BAD_DCTSIZE", "JERR_FRACT_SAMPLE_NOTIMPL"}
  /\ size \in [w : 1 .. 16, h : 1 .. 16]
  /\ Entries(samples) \subseteq 0 .. MAXJSAMPLE
  /\ clipped \in BOOLEAN

\* Whatever the scale and the sampling factors, the size that is chosen for a
\* component is one for which there is a forward and an inverse DCT: the switch
\* of start_pass_fdctmgr() never reaches its default.
EverySizeIsSupported == stage # "JERR_BAD_DCTSIZE"

\* Enlarging the DCT never turns sampling factors that the resampling can handle
\* into ones that it cannot: when a component's factors divide the largest ones,
\* setting up does not fail.
RatiosStayIntegral ==
  stage = "JERR_FRACT_SAMPLE_NOTIMPL" =>
    cinfo.hmax % cinfo.h # 0 \/ cinfo.vmax % cinfo.v # 0

\* A picture that is compressed at some scale and decompressed at the inverse one
\* (the decoder then uses DCTs of the same size) loses no column and gains less
\* than what one sample of the file is worth, and the component's blocks hold all
\* of its samples without one block to spare.
NoColumnIsLost ==
  stage = "Feed" =>
    LET k       == EncoderSize(cinfo)
        inverse == [cinfo EXCEPT !.num = k, !.denom = cinfo.block_size]
        width   == output_width(inverse, jpeg_width(cinfo, cinfo.width))
        blocks  == width_in_blocks(cinfo, cinfo.width)
        columns == downsampled_width(cinfo, cinfo.width)
    IN /\ DecoderSize(inverse) = k
       /\ cinfo.width <= width
       /\ (width - cinfo.width - 1) * cinfo.block_size < k
       /\ columns \in (blocks - 1) * size.w + 1 .. blocks * size.w

\* The numbers between two passes, and the coefficients before quantization, fit
\* in 16 bits, as the MULTIPLY of the integer DCTs assumes for 8-bit samples. The
\* 2x4 inverse DCT alone keeps wider ones, which its second pass only adds.
WorkFitsSixteenBits ==
  \/ stage = "InverseRows" /\ size = [w |-> 2, h |-> 4]
  \/ \A x \in Entries(work) : -32768 <= x /\ x <= 32767

\* Compressing again what was decompressed changes nothing: the second generation
\* has the coefficients of the first, unless the range limit cut off a sample.
\* This holds for every size of block but those whose forward DCT is wrong.
GenerationsAgree ==
  stage = "Done" /\ ~ clipped /\ size \notin Unshifted => coef = first

\* The same of every size, as the comments over the functions promise ("Perform
\* the forward DCT on a 12x12 sample block", "... on a 14x14 sample block").
EveryGenerationAgrees == stage = "Done" /\ ~ clipped => coef = first
=============================================================================
