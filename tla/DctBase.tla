------------------------------ MODULE DctBase ------------------------------
(***************************************************************************)
(* What the forward and the inverse DCT of libjpeg share (jdct.h,          *)
(* jmorecfg.h).                                                            *)
(***************************************************************************)
EXTENDS Integers

DCTSIZE == 8
CENTERJSAMPLE == 128
MAXJSAMPLE == 255

\* DESCALE(), a fudge factor and RIGHT_SHIFT(): x / 2^s, to the nearest.
Descale(x, s) == IF s = 0 THEN x ELSE (x + 2 ^ (s - 1)) \div 2 ^ s
=============================================================================
