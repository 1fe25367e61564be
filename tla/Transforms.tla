----------------------------- MODULE Transforms -----------------------------
(***************************************************************************)
(* The lossless transformations of jpegtran (transupp.c): rotating,        *)
(* mirroring and cropping a JPEG file by moving its blocks of DCT          *)
(* coefficients, without ever decoding them to samples.                    *)
(*                                                                         *)
(* An array of blocks is a function of the row and the column of a block,  *)
(* a block a function of the row and the column of a coefficient. The      *)
(* routines tell the rows and the columns of a block apart by their parity *)
(* only, so two of each stand for the eight of the code.                   *)
(*                                                                         *)
(* A routine gets the array src of one component and what it needs to know *)
(* of the place it writes to, the record g:                                *)
(*   rows, cols      the blocks it writes, padded as the code pads them    *)
(*   x, y            the crop offset, in blocks                            *)
(*   width, height   comp_width and comp_height: the blocks that belong to *)
(*                   whole iMCUs of the uncropped picture                  *)
(***************************************************************************)
EXTENDS Integers, Sequences

DCTSIZE == 2

(***************************************************************************)
(* What the inner loops do to the coefficients of a block.                 *)
(***************************************************************************)
Block(At(_, _)) == [i \in 0 .. DCTSIZE - 1 |-> [j \in 0 .. DCTSIZE - 1 |-> At(i, j)]]

OddColumnsNegated(b) == Block(LAMBDA i, j : IF j % 2 = 1 THEN -b[i][j] ELSE b[i][j])
OddRowsNegated(b)    == Block(LAMBDA i, j : IF i % 2 = 1 THEN -b[i][j] ELSE b[i][j])
Transposed(b)        == Block(LAMBDA i, j : b[j][i])

\* Memory that nothing has been written to, and whatever lies outside of an
\* array.
Garbage == Block(LAMBDA i, j : 0)
BlockAt(array, y, x) ==
  IF y \in DOMAIN array /\ x \in DOMAIN array[y] THEN array[y][x] ELSE Garbage

Written(g, BlockOf(_, _)) ==
  [y \in 0 .. g.rows - 1 |-> [x \in 0 .. g.cols - 1 |-> BlockOf(y + g.y, x + g.x)]]

(***************************************************************************)
(* The transform routines. y and x are the place in the uncropped          *)
(* destination; beyond the whole iMCUs a mirroring leaves blocks where     *)
(* they are.                                                               *)
(***************************************************************************)
do_crop(src, g) == Written(g, LAMBDA y, x : BlockAt(src, y, x))

do_flip_h(src, g) ==
  Written(g, LAMBDA y, x :
    IF x < g.width THEN OddColumnsNegated(BlockAt(src, y, g.width - x - 1))
    ELSE BlockAt(src, y, x))

\* In place: first the pairs of blocks are swapped, up to the middle, then
\* the blocks to keep are moved to the left, one after the other.
do_flip_h_no_crop(src, g) ==
  LET swapped == [y \in DOMAIN src |-> [x \in DOMAIN src[y] |->
                    IF x < g.width /\ y < g.rows
                    THEN OddColumnsNegated(BlockAt(src, y, g.width - x - 1))
                    ELSE src[y][x]]]
  IN [y \in DOMAIN src |-> [x \in DOMAIN src[y] |->
        IF x < g.cols /\ y < g.rows THEN BlockAt(swapped, y, x + g.x)
        ELSE swapped[y][x]]]

FlipVWholly(src, g) ==                      \* a mutant: forgets the bottom edge
  Written(g, LAMBDA y, x : OddRowsNegated(BlockAt(src, g.height - y - 1, x)))
do_flip_v(src, g) ==
  Written(g, LAMBDA y, x :
    IF y < g.height THEN OddRowsNegated(BlockAt(src, g.height - y - 1, x))
    ELSE BlockAt(src, y, x))

do_transpose(src, g) == Written(g, LAMBDA y, x : Transposed(BlockAt(src, x, y)))

do_rot_90(src, g) ==
  Written(g, LAMBDA y, x :
    IF x < g.width
    THEN OddColumnsNegated(Transposed(BlockAt(src, g.width - x - 1, y)))
    ELSE Transposed(BlockAt(src, x, y)))

do_rot_270(src, g) ==
  Written(g, LAMBDA y, x :
    IF y < g.height
    THEN OddRowsNegated(Transposed(BlockAt(src, x, g.height - y - 1)))
    ELSE Transposed(BlockAt(src, x, y)))

do_rot_180(src, g) ==
  Written(g, LAMBDA y, x :
    IF y < g.height
    THEN IF x < g.width
         THEN OddRowsNegated(OddColumnsNegated(
                BlockAt(src, g.height - y - 1, g.width - x - 1)))
         ELSE OddRowsNegated(BlockAt(src, g.height - y - 1, x))
    ELSE IF x < g.width
         THEN OddColumnsNegated(BlockAt(src, y, g.width - x - 1))
         ELSE BlockAt(src, y, x))

do_transverse(src, g) ==
  Written(g, LAMBDA y, x :
    IF y < g.height
    THEN IF x < g.width
         THEN OddRowsNegated(OddColumnsNegated(Transposed(
                BlockAt(src, g.width - x - 1, g.height - y - 1))))
         ELSE OddRowsNegated(Transposed(BlockAt(src, x, g.height - y - 1)))
    ELSE IF x < g.width
         THEN OddColumnsNegated(Transposed(BlockAt(src, g.width - x - 1, y)))
         ELSE Transposed(BlockAt(src, x, y)))

(***************************************************************************)
(* The crop specification, <width>[f]x<height>[f]{+-}<xoff>{+-}<yoff>,     *)
(* every element of it optional. A number is a token of its own, the       *)
(* letters and the signs are negative tokens.                              *)
(***************************************************************************)
F == -1
X == -2
Plus == -3
Minus == -4
End == -5

TokenAt(spec, p) == IF p <= Len(spec) THEN spec[p] ELSE End
IsNumber(token) == token >= 0

Unset(p) == [ok |-> TRUE, next |-> p, value |-> 0, set |-> "UNSET"]

\* jt_read_integer() and the letter after it.
Extent(spec, p) ==
  LET forced == TokenAt(spec, p + 1) = F
  IN [ok |-> IsNumber(TokenAt(spec, p)), value |-> TokenAt(spec, p),
      next |-> IF forced THEN p + 2 ELSE p + 1,
      set |-> IF forced THEN "FORCE" ELSE "POS"]

Offset(spec, p) ==
  IF TokenAt(spec, p) \notin {Plus, Minus} THEN Unset(p)
  ELSE [ok |-> IsNumber(TokenAt(spec, p + 1)), value |-> TokenAt(spec, p + 1),
        next |-> p + 2, set |-> IF TokenAt(spec, p) = Minus THEN "NEG" ELSE "POS"]

jtransform_parse_crop_spec(spec) ==
  LET w == IF IsNumber(TokenAt(spec, 1)) THEN Extent(spec, 1) ELSE Unset(1)
      h == IF TokenAt(spec, w.next) = X THEN Extent(spec, w.next + 1) ELSE Unset(w.next)
      x == Offset(spec, h.next)
      y == Offset(spec, x.next)
  IN [ok |-> w.ok /\ h.ok /\ x.ok /\ y.ok /\ TokenAt(spec, y.next) = End,
      w |-> w, h |-> h, x |-> x, y |-> y]

(***************************************************************************)
(* jtransform_request_workspace(): the size of the output and the memory   *)
(* the transformation needs. Both axes are treated alike: full is the size *)
(* of the uncropped output, imcu the size of an iMCU of it.                *)
(***************************************************************************)
Transposing == {"TRANSPOSE", "TRANSVERSE", "ROT_90", "ROT_270"}
MirrorsRight == {"FLIP_H", "TRANSVERSE", "ROT_90", "ROT_180"}
MirrorsBottom == {"FLIP_V", "TRANSVERSE", "ROT_180", "ROT_270"}

\* Sizes of the source are in the axes of the source.
jtransform_perfect_transform(width, height, mcu_width, mcu_height, transform) ==
  /\ transform \in {"FLIP_H", "ROT_270", "TRANSVERSE", "ROT_180"} => width % mcu_width = 0
  /\ transform \in {"FLIP_V", "ROT_90", "TRANSVERSE", "ROT_180"} => height % mcu_height = 0

CroppedShort(full, imcu, extent, offset) ==  \* a mutant: moves the lower right corner
  LET off   == IF offset.set = "UNSET" THEN 0 ELSE offset.value
      size  == IF extent.set = "UNSET" THEN full - off ELSE extent.value
      start == IF offset.set = "NEG" THEN full - size - off ELSE off
  IN [ok |-> off < full /\ size > 0 /\ size <= full /\ off <= full - size,
      start |-> start, wanted |-> size, size |-> size, offset |-> start \div imcu]
Cropped(full, imcu, extent, offset) ==
  LET off   == IF offset.set = "UNSET" THEN 0 ELSE offset.value
      size  == IF extent.set = "UNSET" THEN full - off ELSE extent.value
      start == IF offset.set = "NEG" THEN full - size - off ELSE off
  IN [ok |-> /\ off < full
             /\ size > 0 /\ size <= full
             /\ off <= full - size,
      start |-> start, wanted |-> size,
      size |-> IF extent.set = "FORCE" THEN size ELSE size + (start % imcu),
      offset |-> start \div imcu]

Uncropped(full) == [ok |-> TRUE, start |-> 0, wanted |-> full, size |-> full, offset |-> 0]

\* trim_right_edge() and trim_bottom_edge().
TrimmedAtOrigin(size, offset, full, imcu) == \* a mutant: forgets the crop offset
  LET whole == size \div imcu
  IN IF whole > 0 /\ whole = full \div imcu THEN whole * imcu ELSE size
Trimmed(size, offset, full, imcu) ==
  LET whole == size \div imcu
  IN IF whole > 0 /\ offset + whole = full \div imcu THEN whole * imcu ELSE size

\* jtransform_execute_transform() must test the same conditions.
NeedsWorkspace(transform, x, y) ==
  CASE transform = "NONE"   -> x # 0 \/ y # 0
    [] transform = "FLIP_H" -> y # 0
    [] OTHER -> TRUE
=============================================================================
