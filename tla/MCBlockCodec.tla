---------------------------- MODULE MCBlockCodec ----------------------------
(***************************************************************************)
(* All scales and sampling factors, and pictures that are flat, rise in    *)
(* one direction, are full of details, or are as hard as a picture can be. *)
(***************************************************************************)
EXTENDS BlockCodec

MCScales == {<<1, 1>>} \cup {<<DCTSIZE, k>> : k \in 1 .. 16}

Picture(Sample(_, _)) == [r \in 0 .. 15 |-> [i \in 0 .. 15 |-> Sample(r, i)]]

MCPictures ==
  {Picture(LAMBDA r, i : 200),
   Picture(LAMBDA r, i : 60 + 8 * i + r),
   Picture(LAMBDA r, i : 98 + ((r * 37 + i * 91 + r * i * 13) % 61)),
   Picture(LAMBDA r, i : IF (r + i) % 2 = 0 THEN 0 ELSE 255),
   Picture(LAMBDA r, i : IF i < 8 THEN 0 ELSE 255)}
=============================================================================
