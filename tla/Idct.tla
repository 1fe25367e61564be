-------------------------------- MODULE Idct --------------------------------
(***************************************************************************)
(* The inverse DCT of libjpeg (jidctint.c), exactly: one kernel for every  *)
(* number of points, and for every block size the shifts of its pass over  *)
(* the columns and of its pass over the rows. The kernels are the forward  *)
(* ones turned round: the even coefficients give a half that is the same   *)
(* on both sides of the middle, the odd ones a half that changes its sign. *)
(* The temporaries have the names they have in the code, with a letter     *)
(* where the code assigns the same one again.                              *)
(***************************************************************************)
EXTENDS DctBase, Sequences

\* The sums on the one side of the middle and the differences on the other.
Mirrored(even, odd, s) ==
  LET n == Len(even) + Len(odd)
  IN [k \in 0 .. n - 1 |->
        Descale(IF k < Len(odd) THEN even[k + 1] + odd[k + 1]
                ELSE IF k < Len(even) THEN even[k + 1]
                ELSE even[n - k] - odd[n - k], s)]
-----------------------------------------------------------------------------
Idct1(x, s) == Mirrored(<<x[0]>>, << >>, s)

Idct2(x, s) == Mirrored(<<x[0]>>, <<x[1]>>, s)
Idct3(x, s) ==
  LET tmp0a == 8192 * x[0]
      tmp12 == 5793 * x[2]
      tmp10 == tmp0a + tmp12
      tmp0b == 10033 * x[1]
  IN Mirrored(<<tmp10, tmp0a - tmp12 - tmp12>>, <<tmp0b>>, s)

Idct4(x, s) ==
  LET tmp10 == 8192 * (x[0] + x[2])
      tmp12 == 8192 * (x[0] - x[2])
      z1 == 4433 * (x[1] + x[3])
      tmp0a == z1 + 6270 * x[1]
      tmp2a == z1 - 15137 * x[3]
  IN Mirrored(<<tmp10, tmp12>>, <<tmp0a, tmp2a>>, s)

Idct5(x, s) ==
  LET tmp12a == 8192 * x[0]
      z1 == 6476 * (x[2] + x[4])
      z2 == 2896 * (x[2] - x[4])
      z3 == tmp12a + z2
      tmp10 == z3 + z1
      tmp11 == z3 - z1
      z1a == 6810 * (x[1] + x[3])
      tmp0a == z1a + 4209 * x[1]
      tmp1a == z1a - 17828 * x[3]
  IN Mirrored(<<tmp10, tmp11, tmp12a - 4 * z2>>, <<tmp0a, tmp1a>>, s)

Idct6(x, s) ==
  LET tmp0a == 8192 * x[0]
      tmp10 == 5793 * x[4]
      tmp1 == tmp0a + tmp10
      tmp11 == tmp0a - tmp10 - tmp10
      tmp0b == 10033 * x[2]
      tmp10b == tmp1 + tmp0b
      tmp12 == tmp1 - tmp0b
      tmp1a == 2998 * (x[1] + x[5])
      tmp0c == tmp1a + 8192 * (x[1] + x[3])
      tmp2a == tmp1a + 8192 * (x[5] - x[3])
      tmp1b == 8192 * (x[1] - x[3] - x[5])
  IN Mirrored(<<tmp10b, tmp11, tmp12>>, <<tmp0c, tmp1b, tmp2a>>, s)

Idct7(x, s) ==
  LET tmp13a == 8192 * x[0]
      tmp10 == 7223 * (x[4] - x[6])
      tmp12 == 2578 * (x[2] - x[4])
      tmp11 == tmp10 + tmp12 + tmp13a - 15083 * x[4]
      tmp0 == x[2] + x[6]
      tmp0a == 10438 * tmp0 + tmp13a
      tmp10a == tmp10 + tmp0a - 637 * x[6]
      tmp12a == tmp12 + tmp0a - 20239 * x[2]
      tmp1 == 7663 * (x[1] + x[3])
      tmp2 == 1395 * (x[1] - x[3])
      tmp2a == -11295 * (x[3] + x[5])
      tmp1b == tmp1 + tmp2 + tmp2a
      z2c == 5027 * (x[1] + x[5])
      tmp0c == tmp1 - tmp2 + z2c
      tmp2b == tmp2a + z2c + 15326 * x[5]
  IN Mirrored(<<tmp10a, tmp11, tmp12a, tmp13a + 11585 * (x[4] - tmp0)>>,
              <<tmp0c, tmp1b, tmp2b>>, s)

Idct8(x, s) ==
  LET z1 == 4433 * (x[2] + x[6])
      tmp2 == z1 + 6270 * x[2]
      tmp3 == z1 - 15137 * x[6]
      tmp0 == 8192 * (x[0] + x[4])
      tmp1 == 8192 * (x[0] - x[4])
      tmp10 == tmp0 + tmp2
      tmp13 == tmp0 - tmp2
      tmp11 == tmp1 + tmp3
      tmp12 == tmp1 - tmp3
      z2b == x[7] + x[3]
      z3b == x[5] + x[1]
      z1a == 9633 * (z2b + z3b)
      z2d == z1a - 16069 * z2b
      z3d == z1a - 3196 * z3b
      z1b == -7373 * (x[7] + x[1])
      tmp0c == 2446 * x[7] + z1b + z2d
      tmp3c == 12299 * x[1] + z1b + z3d
      z1c == -20995 * (x[5] + x[3])
      tmp1c == 16819 * x[5] + z1c + z3d
      tmp2c == 25172 * x[3] + z1c + z2d
  IN Mirrored(<<tmp10, tmp11, tmp12, tmp13>>,
              <<tmp3c, tmp2c, tmp1c, tmp0c>>, s)

Idct9(x, s) ==
  LET tmp0a == 8192 * x[0]
      tmp3 == 5793 * x[6]
      tmp1 == tmp0a + tmp3
      tmp2 == tmp0a - tmp3 - tmp3
      tmp0b == 5793 * (x[2] - x[4])
      tmp11 == tmp2 + tmp0b
      tmp0c == 10887 * (x[2] + x[4])
      tmp2a == 8875 * x[2]
      tmp3a == 2012 * x[4]
      tmp10 == tmp1 + tmp0c - tmp3a
      tmp12 == tmp1 - tmp0c + tmp2a
      tmp13 == tmp1 - tmp2a + tmp3a
      z2b == -10033 * x[3]
      tmp2b == 7447 * (x[1] + x[5])
      tmp3b == 3962 * (x[1] + x[7])
      tmp0d == tmp2b + tmp3b - z2b
      tmp1a == 11409 * (x[5] - x[7])
      tmp2c == tmp2b + z2b - tmp1a
      tmp3c == tmp3b + z2b + tmp1a
      tmp1b == 10033 * (x[1] - x[5] - x[7])
  IN Mirrored(<<tmp10, tmp11, tmp12, tmp13, tmp2 - tmp0b - tmp0b>>,
              <<tmp0d, tmp1b, tmp2c, tmp3c>>, s)

Idct10(x, s) ==
  LET z3a == 8192 * x[0]
      z1 == 9373 * x[4]
      z2 == 3580 * x[4]
      tmp10 == z3a + z1
      tmp11 == z3a - z2
      tmp22 == z3a - 2 * (z1 - z2)
      z1a == 6810 * (x[2] + x[6])
      tmp12 == z1a + 4209 * x[2]
      tmp13 == z1a - 17828 * x[6]
      tmp20 == tmp10 + tmp12
      tmp24 == tmp10 - tmp12
      tmp21 == tmp11 + tmp13
      tmp23 == tmp11 - tmp13
      z3d == 8192 * x[5]
      tmp11a == x[3] + x[7]
      tmp13a == x[3] - x[7]
      tmp12a == 2531 * tmp13a
      z2c == 7791 * tmp11a
      z4b == z3d + tmp12a
      tmp10a == 11443 * x[1] + z2c + z4b
      tmp14 == 1812 * x[1] - z2c + z4b
      z2d == 4815 * tmp11a
      z4c == z3d - tmp12a - 4096 * tmp13a
      tmp12b == 8192 * (x[1] - tmp13a) - z3d
      tmp11b == 10323 * x[1] - z2d - z4c
      tmp13b == 5260 * x[1] - z2d + z4c
  IN Mirrored(<<tmp20, tmp21, tmp22, tmp23, tmp24>>,
              <<tmp10a, tmp11b, tmp12b, tmp13b, tmp14>>, s)

Idct11(x, s) ==
  LET tmp10a == 8192 * x[0]
      tmp20 == 20862 * (x[4] - x[6])
      tmp23 == 3529 * (x[4] - x[2])
      z4 == x[2] + x[6]
      z4a == z4 - x[4]
      tmp25 == tmp10a + 11116 * z4a
      tmp21 == tmp20 + tmp23 + tmp25 - 14924 * x[4]
      tmp20a == tmp20 + tmp25 + 17333 * x[6]
      tmp23a == tmp23 + tmp25 - 12399 * x[2]
      tmp24a == tmp25 - 9467 * z4
      tmp22 == tmp24a - 6461 * x[6]
      tmp24b == tmp24a + 15929 * x[4] - 11395 * x[2]
      tmp11 == x[1] + x[3]
      tmp14 == 3264 * (tmp11 + x[5] + x[7])
      tmp11a == 7274 * tmp11
      tmp12 == 5492 * (x[1] + x[5])
      tmp13 == tmp14 + 3000 * (x[1] + x[7])
      tmp10b == tmp11a + tmp12 + tmp13 - 7562 * x[1]
      z1b == tmp14 - 9527 * (x[3] + x[5])
      tmp12a == tmp12 + z1b - 9766 * x[5]
      z1c == -14731 * (x[3] + x[7])
      tmp11c == tmp11a + z1b + 16984 * x[3] + z1c
      tmp13a == tmp13 + z1c + 17223 * x[7]
      tmp14a == tmp14 + 8203 * x[5] - 12019 * x[3] - 13802 * x[7]
  IN Mirrored(<<tmp20a, tmp21, tmp22, tmp23a, tmp24b, tmp10a - 11585 * z4a>>,
              <<tmp10b, tmp11c, tmp12a, tmp13a, tmp14a>>, s)

Idct12(x, s) ==
  LET z3a == 8192 * x[0]
      z4a == 10033 * x[4]
      tmp10 == z3a + z4a
      tmp11 == z3a - z4a
      z4b == 11190 * x[2]
      z1a == 8192 * x[2]
      z2a == 8192 * x[6]
      tmp12 == z1a - z2a
      tmp21 == z3a + tmp12
      tmp24 == z3a - tmp12
      tmp12a == z4b + z2a
      tmp20 == tmp10 + tmp12a
      tmp25 == tmp10 - tmp12a
      tmp12b == z4b - z1a - z2a
      tmp22 == tmp11 + tmp12b
      tmp23 == tmp11 - tmp12b
      tmp11a == 10703 * x[3]
      tmp14 == -4433 * x[3]
      tmp10a == x[1] + x[5]
      tmp15 == 7053 * (tmp10a + x[7])
      tmp12c == tmp15 + 2139 * tmp10a
      tmp10b == tmp12c + tmp11a + 2295 * x[1]
      tmp13 == -8565 * (x[5] + x[7])
      tmp12d == tmp12c + tmp13 + tmp14 - 12112 * x[5]
      tmp13a == tmp13 + tmp15 - tmp11a + 12998 * x[7]
      tmp15a == tmp15 + tmp14 - 5540 * x[1] - 16244 * x[7]
      z1c == x[1] - x[7]
      z2c == x[3] - x[5]
      z3c == 4433 * (z1c + z2c)
      tmp11b == z3c + 6270 * z1c
      tmp14a == z3c - 15137 * z2c
  IN Mirrored(<<tmp20, tmp21, tmp22, tmp23, tmp24, tmp25>>,
              <<tmp10b, tmp11b, tmp12d, tmp13a, tmp14a, tmp15a>>, s)

Idct13(x, s) ==
  LET z1a == 8192 * x[0]
      tmp10 == x[4] + x[6]
      tmp11 == x[4] - x[6]
      tmp12 == 9465 * tmp10
      tmp13 == 793 * tmp11 + z1a
      tmp20 == 11249 * x[2] + tmp12 + tmp13
      tmp22 == 4108 * x[2] - tmp12 + tmp13
      tmp12a == 2592 * tmp10
      tmp13a == 3989 * tmp11 + z1a
      tmp21 == 8672 * x[2] - tmp12a + tmp13a
      tmp25 == tmp12a - 10258 * x[2] + tmp13a
      tmp12b == 3570 * tmp10
      tmp13b == 7678 * tmp11 - z1a
      tmp23 == (-1396 * x[2]) - tmp12b - tmp13b
      tmp24 == tmp12b - 6581 * x[2] - tmp13b
      tmp11a == 10832 * (x[1] + x[3])
      tmp12c == 9534 * (x[1] + x[5])
      tmp15 == x[1] + x[7]
      tmp13c == 7682 * tmp15
      tmp10a == tmp11a + tmp12c + tmp13c - 16549 * x[1]
      tmp14 == -2773 * (x[3] + x[5])
      tmp14a == -9534 * (x[3] + x[7])
      tmp11c == tmp11a + tmp14 + 6859 * x[3] + tmp14a
      tmp14b == -5384 * (x[5] + x[7])
      tmp12e == tmp12c + tmp14 - 12879 * x[5] + tmp14b
      tmp13e == tmp13c + tmp14a + 18068 * x[7] + tmp14b
      tmp15a == 2773 * tmp15
      z1c == 7682 * (x[5] - x[3])
      tmp14d == tmp15a + 2611 * x[1] - 3818 * x[3] + z1c
      tmp15b == tmp15a + z1c + 3150 * x[5] - 14273 * x[7]
  IN Mirrored(<<tmp20, tmp21, tmp22, tmp23, tmp24, tmp25,
                11585 * (tmp11 - x[2]) + z1a>>,
              <<tmp10a, tmp11c, tmp12e, tmp13e, tmp14d, tmp15b>>, s)

Idct14(x, s) ==
  LET z1a == 8192 * x[0]
      z2 == 10438 * x[4]
      z3 == 2578 * x[4]
      z4a == 7223 * x[4]
      tmp10 == z1a + z2
      tmp11 == z1a + z3
      tmp12 == z1a - z4a
      tmp23 == z1a - 2 * (z2 + z3 - z4a)
      z3a == 9058 * (x[2] + x[6])
      tmp13 == z3a + 2237 * x[2]
      tmp14 == z3a - 14084 * x[6]
      tmp15 == 5027 * x[2] - 11295 * x[6]
      tmp20 == tmp10 + tmp13
      tmp26 == tmp10 - tmp13
      tmp21 == tmp11 + tmp14
      tmp25 == tmp11 - tmp14
      tmp22 == tmp12 + tmp15
      tmp24 == tmp12 - tmp15
      z4c == 8192 * x[7]
      tmp14a == x[1] + x[5]
      tmp11a == 10935 * (x[1] + x[3])
      tmp12a == 9810 * tmp14a
      tmp10a == tmp11a + tmp12a + z4c - 9232 * x[1]
      tmp14b == 6164 * tmp14a
      z1d == x[1] - x[3]
      tmp15a == 3826 * z1d - z4c
      tmp16a == tmp14b - 8693 * x[1] + tmp15a
      tmp13a == (-1297 * (x[3] + x[5])) - z4c
      tmp11b == tmp11a + tmp13a - 3474 * x[3]
      tmp12b == tmp12a + tmp13a - 19447 * x[5]
      tmp13b == 11512 * (x[5] - x[3])
      tmp14c == tmp14b + tmp13b + z4c - 13850 * x[5]
      tmp15b == tmp15a + tmp13b + 5529 * x[3]
      tmp13c == 8192 * (z1d - x[5]) + z4c
  IN Mirrored(<<tmp20, tmp21, tmp22, tmp23, tmp24, tmp25, tmp26>>,
              <<tmp10a, tmp11b, tmp12b, tmp13c, tmp14c, tmp15b, tmp16a>>, s)

Idct15(x, s) ==
  LET z1a == 8192 * x[0]
      tmp10 == 3580 * x[6]
      tmp11 == 9373 * x[6]
      tmp12 == z1a - tmp10
      tmp13 == z1a + tmp11
      z1b == z1a - 2 * (tmp11 - tmp10)
      z4a == x[2] - x[4]
      z3a == x[4] + x[2]
      tmp10a == 10958 * z3a
      tmp11a == 374 * z4a
      z2a == 11795 * x[2]
      tmp20 == tmp13 + tmp10a + tmp11a
      tmp23 == tmp12 - tmp10a + tmp11a + z2a
      tmp10b == 4482 * z3a
      tmp11b == 3271 * z4a
      tmp25 == tmp13 - tmp10b - tmp11b
      tmp26 == tmp12 + tmp10b - tmp11b - z2a
      tmp10c == 6476 * z3a
      tmp11c == 2896 * z4a
      tmp21 == tmp12 + tmp10c + tmp11c
      tmp24 == tmp13 - tmp10c + tmp11c
      tmp11d == tmp11c + tmp11c
      tmp22 == z1b + tmp11d
      z3b == 10033 * x[5]
      tmp13a == x[3] - x[7]
      tmp15 == 6810 * (x[1] + tmp13a)
      tmp11e == tmp15 + 4209 * x[1]
      tmp14 == tmp15 - 17828 * tmp13a
      tmp13b == -6810 * x[3]
      tmp15a == -11018 * x[3]
      z2c == x[1] - x[7]
      tmp12a == z3b + 11522 * z2c
      tmp10d == tmp12a + 20131 * x[7] - tmp15a
      tmp16 == tmp12a - 9113 * x[1] + tmp13b
      tmp12b == 10033 * z2c - z3b
      z2d == 4712 * (x[1] + x[7])
      tmp13c == tmp13b + z2d + 3897 * x[1] - z3b
      tmp15b == tmp15a + z2d - 7121 * x[7] + z3b
  IN Mirrored(<<tmp20, tmp21, tmp22, tmp23, tmp24, tmp25, tmp26,
                z1b - tmp11d - tmp11d>>,
              <<tmp10d, tmp11e, tmp12b, tmp13c, tmp14, tmp15b, tmp16>>, s)

Idct16(x, s) ==
  LET tmp0a == 8192 * x[0]
      tmp1 == 10703 * x[4]
      tmp2 == 4433 * x[4]
      tmp10 == tmp0a + tmp1
      tmp11 == tmp0a - tmp1
      tmp12 == tmp0a + tmp2
      tmp13 == tmp0a - tmp2
      z3 == x[2] - x[6]
      z4 == 2260 * z3
      z3a == 11363 * z3
      tmp0b == z3a + 20995 * x[6]
      tmp1a == z4 + 7373 * x[2]
      tmp2a == z3a - 4926 * x[2]
      tmp3 == z4 - 4176 * x[6]
      tmp20 == tmp10 + tmp0b
      tmp27 == tmp10 - tmp0b
      tmp21 == tmp12 + tmp1a
      tmp26 == tmp12 - tmp1a
      tmp22 == tmp13 + tmp2a
      tmp25 == tmp13 - tmp2a
      tmp23 == tmp11 + tmp3
      tmp24 == tmp11 - tmp3
      tmp11a == x[1] + x[5]
      tmp1b == 11086 * (x[1] + x[3])
      tmp2b == 10217 * tmp11a
      tmp3a == 8956 * (x[1] + x[7])
      tmp10a == 7350 * (x[1] - x[7])
      tmp11b == 5461 * tmp11a
      tmp12a == 3363 * (x[1] - x[3])
      tmp0c == tmp1b + tmp2b + tmp3a - 18730 * x[1]
      tmp13a == tmp10a + tmp11b + tmp12a - 15038 * x[1]
      z1c == 1136 * (x[3] + x[5])
      z1d == 11529 * (x[5] - x[3])
      z2b == x[3] + x[7]
      z1e == -5461 * z2b
      tmp1d == tmp1b + z1c + 589 * x[3] + z1e
      z2c == -10217 * z2b
      tmp12c == tmp12a + z1d + 16154 * x[3] + z2c
      z2d == -11086 * (x[5] + x[7])
      tmp2d == tmp2b + z1c - 9222 * x[5] + z2d
      tmp3c == tmp3a + z1e + 8728 * x[7] + z2d
      z2e == 3363 * (x[7] - x[5])
      tmp10c == tmp10a + z2c + 25733 * x[7] + z2e
      tmp11d == tmp11b + z1d - 6278 * x[5] + z2e
  IN Mirrored(<<tmp20, tmp21, tmp22, tmp23, tmp24, tmp25, tmp26, tmp27>>,
              <<tmp0c, tmp1d, tmp2d, tmp3c, tmp10c, tmp11d, tmp12c,
                tmp13a>>, s)

Kernel(n, x, s) ==
  CASE n = 1 -> Idct1(x, s)
    [] n = 2 -> Idct2(x, s)
    [] n = 3 -> Idct3(x, s)
    [] n = 4 -> Idct4(x, s)
    [] n = 5 -> Idct5(x, s)
    [] n = 6 -> Idct6(x, s)
    [] n = 7 -> Idct7(x, s)
    [] n = 8 -> Idct8(x, s)
    [] n = 9 -> Idct9(x, s)
    [] n = 10 -> Idct10(x, s)
    [] n = 11 -> Idct11(x, s)
    [] n = 12 -> Idct12(x, s)
    [] n = 13 -> Idct13(x, s)
    [] n = 14 -> Idct14(x, s)
    [] n = 15 -> Idct15(x, s)
    [] n = 16 -> Idct16(x, s)
-----------------------------------------------------------------------------
\* One function of jidctint.c: the size of its output, and each pass's shift.
Function(w, h, s1, s2) == [w |-> w, h |-> h, s1 |-> s1, s2 |-> s2]

jpeg_idct_islow == Function(8, 8, 11, 18)
jpeg_idct_7x7 == Function(7, 7, 11, 18)
jpeg_idct_6x6 == Function(6, 6, 11, 18)
jpeg_idct_5x5 == Function(5, 5, 11, 18)
jpeg_idct_4x4 == Function(4, 4, 11, 18)
jpeg_idct_3x3 == Function(3, 3, 11, 18)
jpeg_idct_2x2 == Function(2, 2, 0, 3)
jpeg_idct_1x1 == Function(1, 1, 0, 3)
jpeg_idct_9x9 == Function(9, 9, 11, 18)
jpeg_idct_10x10 == Function(10, 10, 11, 18)
jpeg_idct_11x11 == Function(11, 11, 11, 18)
jpeg_idct_12x12 == Function(12, 12, 11, 18)
jpeg_idct_13x13 == Function(13, 13, 11, 18)
jpeg_idct_14x14 == Function(14, 14, 11, 18)
jpeg_idct_15x15 == Function(15, 15, 11, 18)
jpeg_idct_16x16 == Function(16, 16, 11, 18)
jpeg_idct_16x8 == Function(16, 8, 11, 18)
jpeg_idct_14x7 == Function(14, 7, 11, 18)
jpeg_idct_12x6 == Function(12, 6, 11, 18)
jpeg_idct_10x5 == Function(10, 5, 11, 18)
jpeg_idct_8x4 == Function(8, 4, 11, 18)
jpeg_idct_6x3 == Function(6, 3, 11, 18)
jpeg_idct_4x2 == Function(4, 2, 0, 16)
jpeg_idct_2x1 == Function(2, 1, 0, 3)
jpeg_idct_8x16 == Function(8, 16, 11, 18)
jpeg_idct_7x14 == Function(7, 14, 11, 18)
jpeg_idct_6x12 == Function(6, 12, 11, 18)
jpeg_idct_5x10 == Function(5, 10, 11, 18)
jpeg_idct_4x8 == Function(4, 8, 11, 18)
jpeg_idct_3x6 == Function(3, 6, 11, 18)
jpeg_idct_2x4 == Function(2, 4, 0, 16)
jpeg_idct_1x2 == Function(1, 2, 0, 3)

\* start_pass() of jddctmgr.c selects a function by the scaled size of a block.
InverseDCT == {jpeg_idct_islow, jpeg_idct_7x7, jpeg_idct_6x6, jpeg_idct_5x5,
               jpeg_idct_4x4, jpeg_idct_3x3, jpeg_idct_2x2, jpeg_idct_1x1,
               jpeg_idct_9x9, jpeg_idct_10x10, jpeg_idct_11x11,
               jpeg_idct_12x12, jpeg_idct_13x13, jpeg_idct_14x14,
               jpeg_idct_15x15, jpeg_idct_16x16, jpeg_idct_16x8,
               jpeg_idct_14x7, jpeg_idct_12x6, jpeg_idct_10x5, jpeg_idct_8x4,
               jpeg_idct_6x3, jpeg_idct_4x2, jpeg_idct_2x1, jpeg_idct_8x16,
               jpeg_idct_7x14, jpeg_idct_6x12, jpeg_idct_5x10, jpeg_idct_4x8,
               jpeg_idct_3x6, jpeg_idct_2x4, jpeg_idct_1x2}
-----------------------------------------------------------------------------
\* Pass 1: the columns of the dequantized coefficients that the size uses.
Columns(f, coef) ==
  [u \in 0 .. (IF f.w < DCTSIZE THEN f.w ELSE DCTSIZE) - 1 |->
     Kernel(f.h, [v \in 0 .. DCTSIZE - 1 |-> coef[v][u]], f.s1)]

\* Pass 2: the rows of that.
Rows(f, work) ==
  [r \in 0 .. f.h - 1 |->
     Kernel(f.w, [u \in DOMAIN work |-> work[u][r]], f.s2)]

\* The range limit table as the code enters it: the value modulo 1024, as a
\* signed number, is shifted to the middle of the samples and cut off.
RangeLimit(v) ==
  LET wrapped == ((v + 512) % 1024) - 512 + CENTERJSAMPLE
  IN IF wrapped < 0 THEN 0
     ELSE IF wrapped > MAXJSAMPLE THEN MAXJSAMPLE ELSE wrapped

Samples(f, rows) ==
  [r \in 0 .. f.h - 1 |-> [i \in 0 .. f.w - 1 |-> RangeLimit(rows[r][i])]]
=============================================================================
