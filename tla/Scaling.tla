------------------------------ MODULE Scaling ------------------------------
(***************************************************************************)
(* How libjpeg chooses the size of a component's DCT from the scale that   *)
(* the caller asks for and from the sampling factors: chroma is scaled by  *)
(* the DCT itself where that is possible, the rest is left to the          *)
(* upsampling or the downsampling. c is what the choice looks at:          *)
(*   num, denom  the scale, block_size the size of the file's blocks       *)
(*   fancy       do_fancy_downsampling or do_fancy_upsampling              *)
(*   h, v        the sampling factors of the component, hmax and vmax the  *)
(*               largest ones of all components                            *)
(***************************************************************************)
EXTENDS DctBase, FiniteSetsExt

jdiv_round_up(a, b) == (a + b - 1) \div b

(* The scales are tried in order, the last one needs no condition.         *)
FirstOf(Provided(_)) ==
  Min({k \in 1 .. 15 : Provided(k)} \cup {16})

\* min_DCT_h_scaled_size and min_DCT_v_scaled_size of the encoder, and the
\* width in the file of a picture.
EncoderSize(c) ==
  FirstOf(LAMBDA k : c.num * k >= c.denom * c.block_size)
WidthDown(c, width) ==                       \* a mutant: the division rounds down
  (width * c.block_size) \div EncoderSize(c)
jpeg_width(c, width) ==
  jdiv_round_up(width * c.block_size, EncoderSize(c))

\* The same of the decoder, and the width of its output.
DecoderSize(c) ==
  FirstOf(LAMBDA k : c.num * c.block_size <= c.denom * k)
output_width(c, width) ==
  jdiv_round_up(width * DecoderSize(c), c.block_size)

\* The loop that doubles the size of the DCT as long as the sampling factors
\* allow it. MAX_SAMP_FACTOR is 4, so it ends after at most two rounds.
EnlargedOnce(min, fancy, factor, max) ==     \* a mutant: enlarges before it looks
  IF fancy /\ min <= DCTSIZE /\ max > factor THEN min * 2 ELSE min
Enlarged(min, fancy, factor, max) ==
  LET Doubles(ssize) ==
        /\ min * ssize <= IF fancy THEN DCTSIZE ELSE DCTSIZE \div 2
        /\ max % (factor * ssize * 2) = 0
  IN min * (CHOOSE ssize \in {1, 2, 4} :
              /\ ~ Doubles(ssize)
              /\ \A smaller \in {1, 2} : smaller < ssize => Doubles(smaller))

\* DCT ratios larger than 2 are not supported.
WidthLimited(size) ==                        \* a mutant: looks at the width only
  IF size.w > size.h * 2 THEN [size EXCEPT !.w = size.h * 2] ELSE size
Limited(size) ==
  IF size.w > size.h * 2 THEN [size EXCEPT !.w = size.h * 2]
  ELSE IF size.h > size.w * 2 THEN [size EXCEPT !.h = size.w * 2]
  ELSE size

\* DCT_h_scaled_size and DCT_v_scaled_size of a component.
ScaledSize(min, c) ==
  Limited([w |-> Enlarged(min, c.fancy, c.h, c.hmax),
           h |-> Enlarged(min, c.fancy, c.v, c.vmax)])

\* The samples that stand for hmax x vmax pixels; jinit_upsampler() and
\* jinit_downsampler() can only repeat or average a whole number of times.
Group(min, c) ==
  LET size == ScaledSize(min, c)
  IN [h |-> (c.h * size.w) \div min, v |-> (c.v * size.h) \div min]
Integral(group, c) == c.hmax % group.h = 0 /\ c.vmax % group.v = 0

\* The number of blocks and of samples in a row of the component.
width_in_blocks(c, width) ==
  jdiv_round_up(jpeg_width(c, width) * c.h, c.hmax * c.block_size)
downsampled_width(c, width) ==
  jdiv_round_up(jpeg_width(c, width) * c.h * ScaledSize(EncoderSize(c), c).w,
                c.hmax * c.block_size)
=============================================================================
