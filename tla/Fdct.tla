-------------------------------- MODULE Fdct --------------------------------
(***************************************************************************)
(* The forward DCT of libjpeg (jfdctint.c), exactly: one kernel for every  *)
(* number of points, and for every block size the multipliers and shifts   *)
(* of its pass over the rows and of its pass over the columns. The kernels *)
(* work on integers: a multiplier is a cosine in units of 1 / 8192, and    *)
(* every result is rounded once. Kn holds the multipliers of the n-point   *)
(* kernel in the order of their first use, Kns the same with the scaling   *)
(* of the output that the code folds into them; where a multiplier is 1    *)
(* the code shifts. The temporaries have the names they have in the code,  *)
(* with a letter where the code assigns the same one again.                *)
(***************************************************************************)
EXTENDS DctBase, Sequences

Descaled(y, s) == [k \in 0 .. Len(y) - 1 |-> Descale(y[k + 1], s)]

\* What the even and what the odd part of an n-point kernel begin with.
Sums(x, n) ==
  [i \in 0 .. (n - 1) \div 2 |->
     IF 2 * i = n - 1 THEN x[i] ELSE x[i] + x[n - 1 - i]]
Differences(x, n) == [i \in 0 .. n \div 2 - 1 |-> x[i] - x[n - 1 - i]]
-----------------------------------------------------------------------------
Fdct1(x, c, s) == Descaled(<<c[1] * x[0]>>, s)

Fdct2(x, c, s) == Descaled(<<c[1] * (x[0] + x[1]), c[1] * (x[0] - x[1])>>, s)

K3 == <<8192, 5793, 10033>>
K3s == <<14564, 10298, 17837>>
Fdct3(x, c, s) ==
  LET p == Sums(x, 3)
      m == Differences(x, 3)
  IN Descaled(<<c[1] * (p[0] + p[1]), c[3] * m[0],
                c[2] * (p[0] - p[1] - p[1])>>, s)

K4 == <<4433, 6270, 15137>>
Fdct4(x, c, s) ==
  LET p == Sums(x, 4)
      m == Differences(x, 4)
      tmp0a == c[1] * (m[0] + m[1])
  IN Descaled(<<8192 * (p[0] + p[1]), tmp0a + c[2] * m[0],
                8192 * (p[0] - p[1]), tmp0a - c[3] * m[1]>>, s)

K5 == <<8192, 6476, 2896, 6810, 4209, 17828>>
K5s == <<10486, 8290, 3707, 8716, 5387, 22820>>
Fdct5(x, c, s) ==
  LET p == Sums(x, 5)
      m == Differences(x, 5)
      tmp10 == p[0] + p[1]
      tmp11a == c[2] * (p[0] - p[1])
      tmp10b == c[3] * (tmp10 - 4 * p[2])
      tmp10c == c[4] * (m[0] + m[1])
  IN Descaled(<<c[1] * (tmp10 + p[2]), tmp10c + c[5] * m[0],
                tmp11a + tmp10b, tmp10c - c[6] * m[1], tmp11a - tmp10b>>, s)

K6 == <<8192, 10033, 5793, 2998>>
K6s == <<14564, 17837, 10298, 5331>>
Fdct6(x, c, s) ==
  LET p == Sums(x, 6)
      m == Differences(x, 6)
      tmp10 == p[0] + p[2]
      tmp10a == c[4] * (m[0] + m[2])
  IN Descaled(<<c[1] * (tmp10 + p[1]), tmp10a + c[1] * (m[0] + m[1]),
                c[2] * (p[0] - p[2]), c[1] * (m[0] - m[1] - m[2]),
                c[3] * (tmp10 - p[1] - p[1]),
                tmp10a + c[1] * (m[2] - m[1])>>, s)

K7 == <<8192, 2896, 7542, 2578, 7223, 5793, 7663, 1395, 11295, 5027, 15326>>
K7s == <<10700, 3783, 9850, 3367, 9434, 7566, 10009, 1822, 14752, 6565,
         20017>>
Fdct7(x, c, s) ==
  LET p == Sums(x, 7)
      m == Differences(x, 7)
      z1 == p[0] + p[2]
      tmp3a == p[3] + p[3]
      z1c == c[2] * (z1 - tmp3a - tmp3a)
      z2 == c[3] * (p[0] - p[2])
      z3 == c[4] * (p[1] - p[2])
      z2a == c[5] * (p[0] - p[1])
      tmp1a == c[7] * (m[0] + m[1])
      tmp2a == c[8] * (m[0] - m[1])
      tmp2b == -c[9] * (m[1] + m[2])
      tmp3b == c[10] * (m[0] + m[2])
  IN Descaled(<<c[1] * (z1 + p[1] + p[3]), tmp1a - tmp2a + tmp3b,
                z1c + z2 + z3, tmp1a + tmp2a + tmp2b,
                z2a + z3 - c[6] * (p[1] - tmp3a),
                tmp2b + tmp3b + c[11] * m[2], z1c - z2 + z2a>>, s)

K8 == <<4433, 6270, 15137, 9633, 12299, 25172, 16819, 2446, 7373, 20995,
        3196, 16069>>
Fdct8(x, c, s) ==
  LET p == Sums(x, 8)
      m == Differences(x, 8)
      tmp10 == p[0] + p[3]
      tmp12 == p[0] - p[3]
      tmp11 == p[1] + p[2]
      tmp13 == p[1] - p[2]
      z1 == c[1] * (tmp12 + tmp13)
      tmp12a == m[0] + m[2]
      tmp13a == m[1] + m[3]
      z1a == c[4] * (tmp12a + tmp13a)
      tmp10b == -c[9] * (m[0] + m[3])
      tmp11b == -c[10] * (m[1] + m[2])
      tmp12c == z1a - c[11] * tmp12a
      tmp13c == z1a - c[12] * tmp13a
  IN Descaled(<<8192 * (tmp10 + tmp11), c[5] * m[0] + tmp10b + tmp12c,
                z1 + c[2] * tmp12, c[6] * m[1] + tmp11b + tmp13c,
                8192 * (tmp10 - tmp11), c[7] * m[2] + tmp11b + tmp12c,
                z1 - c[3] * tmp13, c[8] * m[3] + tmp10b + tmp13c>>, s)

K9 == <<8192, 5793, 10887, 8875, 2012, 10033, 7447, 3962, 11409>>
K9s == <<12945, 9154, 17203, 14024, 3179, 15855, 11768, 6262, 18029>>
Fdct9(x, c, s) ==
  LET p == Sums(x, 9)
      m == Differences(x, 9)
      z1 == p[0] + p[2] + p[3]
      z2 == p[1] + p[4]
      z1a == c[3] * (p[0] - p[2])
      z2a == c[2] * (p[1] - p[4] - p[4])
      tmp11a == c[6] * m[1]
      tmp0a == c[7] * (m[0] + m[2])
      tmp1a == c[8] * (m[0] + m[3])
      tmp2a == c[9] * (m[2] - m[3])
  IN Descaled(<<c[1] * (z1 + z2), tmp11a + tmp0a + tmp1a,
                c[4] * (p[2] - p[3]) + z1a + z2a,
                c[6] * (m[0] - m[2] - m[3]),
                c[5] * (p[3] - p[0]) + z1a - z2a,
                tmp0a - tmp11a - tmp2a, c[2] * (z1 - z2 - z2),
                tmp1a - tmp11a + tmp2a>>, s)

K10 == <<8192, 9373, 3580, 6810, 4209, 17828, 11443, 10323, 5260, 1812,
         7791, 4815, 2531, 4096>>
K10s == <<10486, 11997, 4582, 8716, 5387, 22820, 14647, 13213, 6732, 2320,
          9973, 6163, 3240, 5243>>
Fdct10(x, c, s) ==
  LET p == Sums(x, 10)
      m == Differences(x, 10)
      tmp10 == p[0] + p[4]
      tmp13 == p[0] - p[4]
      tmp11 == p[1] + p[3]
      tmp14 == p[1] - p[3]
      tmp12a == p[2] + p[2]
      tmp10a == c[4] * (tmp13 + tmp14)
      tmp10b == m[0] + m[4]
      tmp11a == m[1] - m[3]
      tmp2a == c[1] * m[2]
      tmp12b == c[11] * (m[0] - m[4]) - c[12] * (m[1] + m[3])
      tmp13a == c[13] * (tmp10b + tmp11a) + c[14] * tmp11a - tmp2a
  IN Descaled(<<c[1] * (tmp10 + tmp11 + p[2]),
                c[7] * m[0] + c[8] * m[1] + tmp2a + c[9] * m[3] + c[10] * m[4],
                tmp10a + c[5] * tmp13, tmp12b + tmp13a,
                c[2] * (tmp10 - tmp12a) - c[3] * (tmp11 - tmp12a),
                c[1] * (tmp10b - tmp11a - m[2]), tmp10a - c[6] * tmp14,
                tmp12b - tmp13a>>, s)

K11 == <<8192, 11116, 1649, 7587, 9746, 8342, 11395, 511, 4813, 13275, 6461,
         10538, 8756, 6263, 14090, 3264, 11467, 10456, 16294, 10695>>
K11s == <<8666, 11759, 1744, 8026, 10310, 8825, 12054, 540, 5091, 14043,
          6835, 11148, 9262, 6626, 14905, 3453, 12131, 11061, 17237, 11314>>
Fdct11(x, c, s) ==
  LET p == Sums(x, 11)
      m == Differences(x, 11)
      tmp5a == p[5] + p[5]
      tmp0a == p[0] - tmp5a
      tmp1a == p[1] - tmp5a
      tmp2a == p[2] - tmp5a
      tmp3a == p[3] - tmp5a
      tmp4a == p[4] - tmp5a
      z1 == c[2] * (tmp0a + tmp3a) + c[3] * (tmp2a + tmp4a)
      z2 == c[4] * (tmp1a - tmp3a)
      z3 == c[5] * (tmp0a - tmp1a)
      tmp1b == c[12] * (m[0] + m[1])
      tmp2b == c[13] * (m[0] + m[2])
      tmp3b == c[14] * (m[0] + m[3])
      tmp0b == tmp1b + tmp2b + tmp3b - c[15] * m[0] + c[16] * m[4]
      tmp4b == -c[14] * (m[1] + m[2])
      tmp5b == -c[17] * (m[1] + m[3])
      tmp1c == tmp1b + tmp4b + tmp5b + c[18] * m[1] - c[13] * m[4]
      tmp10a == c[16] * (m[2] + m[3])
      tmp2c == tmp2b + tmp4b + tmp10a - c[19] * m[2] + c[17] * m[4]
      tmp3c == tmp3b + tmp5b + tmp10a + c[20] * m[3] - c[12] * m[4]
  IN Descaled(<<c[1] * (p[0] + p[1] + p[2] + p[3] + p[4] + p[5]), tmp0b,
                z1 + z2 - c[6] * tmp3a - c[7] * tmp4a, tmp1c,
                z2 + z3 + c[8] * tmp1a - c[2] * tmp2a + c[9] * tmp4a,
                tmp2c, z1 + z3 - c[10] * tmp0a - c[11] * tmp2a, tmp3c>>, s)

\* The last multiplier is the one of tmp14 - tmp15, which the pass over the
\* rows adds without the shift by CONST_BITS.
K12 == <<8192, 10033, 11190, 4433, 6270, 15137, 9191, 7053, 4758, 1512,
         19165, 5946, 10703, 1>>
K12s == <<7282, 8918, 9947, 3941, 5573, 13455, 8170, 6269, 4229, 1344,
          17036, 5285, 9514, 7282>>
Fdct12(x, c, s) ==
  LET p == Sums(x, 12)
      m == Differences(x, 12)
      tmp10 == p[0] + p[5]
      tmp13 == p[0] - p[5]
      tmp14 == p[1] - p[4]
      tmp12 == p[2] + p[3]
      tmp15 == p[2] - p[3]
      tmp10a == c[4] * (m[1] + m[4])
      tmp14a == tmp10a + c[5] * m[1]
      tmp15a == tmp10a - c[6] * m[4]
      tmp12a == c[7] * (m[0] + m[2])
      tmp13a == c[8] * (m[0] + m[3])
      tmp10b == tmp12a + tmp13a + tmp14a - c[9] * m[0] + c[10] * m[5]
      tmp11a == -c[10] * (m[2] + m[3])
      tmp12b == tmp12a + tmp11a - tmp15a - c[11] * m[2] + c[8] * m[5]
      tmp13b == tmp13a + tmp11a - tmp14a + c[12] * m[3] - c[7] * m[5]
      tmp11b == tmp15a + c[13] * (m[0] - m[3]) - c[4] * (m[2] + m[5])
  IN Descaled(<<c[1] * (tmp10 + p[1] + p[4] + tmp12), tmp10b,
                c[14] * (tmp14 - tmp15) + c[3] * (tmp13 + tmp15), tmp11b,
                c[2] * (tmp10 - tmp12), tmp12b,
                c[1] * (tmp13 - tmp14 - tmp15), tmp13b>>, s)

K13 == <<8192, 11249, 8672, 4108, 1396, 6581, 10258, 9465, 3570, 2592, 793,
         7678, 3989, 10832, 9534, 7682, 2773, 16549, 2611, 6859, 19183,
         5384, 12879, 18515, 18068, 14273>>
K13s == <<6205, 8520, 6568, 3112, 1058, 4985, 7770, 7169, 2704, 1963, 601,
          5816, 3021, 8204, 7221, 5819, 2100, 12534, 1978, 5195, 14529,
          4078, 9754, 14023, 13685, 10811>>
Fdct13(x, c, s) ==
  LET p == Sums(x, 13)
      m == Differences(x, 13)
      tmp6a == p[6] + p[6]
      tmp0a == p[0] - tmp6a
      tmp1a == p[1] - tmp6a
      tmp2a == p[2] - tmp6a
      tmp3a == p[3] - tmp6a
      tmp4a == p[4] - tmp6a
      tmp5a == p[5] - tmp6a
      z1 == c[8] * (tmp0a - tmp2a) - c[9] * (tmp3a - tmp4a) - c[10] * (tmp1a
            - tmp5a)
      z2 == c[11] * (tmp0a + tmp2a) - c[12] * (tmp3a + tmp4a) + c[13] * (tmp1a
            + tmp5a)
      tmp1b == c[14] * (m[0] + m[1])
      tmp2b == c[15] * (m[0] + m[2])
      tmp3b == c[16] * (m[0] + m[3]) + c[17] * (m[4] + m[5])
      tmp0b == tmp1b + tmp2b + tmp3b - c[18] * m[0] + c[19] * m[4]
      tmp4b == c[16] * (m[4] - m[5]) - c[17] * (m[1] + m[2])
      tmp5b == -c[15] * (m[1] + m[3])
      tmp1c == tmp1b + tmp4b + tmp5b + c[20] * m[1] - c[21] * m[4]
      tmp6b == -c[22] * (m[2] + m[3])
      tmp2c == tmp2b + tmp4b + tmp6b - c[23] * m[2] + c[24] * m[5]
      tmp3c == tmp3b + tmp5b + tmp6b + c[25] * m[3] - c[26] * m[5]
  IN Descaled(<<c[1] * (p[0] + p[1] + p[2] + p[3] + p[4] + p[5] + p[6]),
                tmp0b,
                c[2] * tmp0a + c[3] * tmp1a + c[4] * tmp2a - c[5] * tmp3a
                  - c[6] * tmp4a - c[7] * tmp5a,
                tmp1c, z1 + z2, tmp2c, z1 - z2, tmp3c>>, s)

\* The last multiplier is the one of tmp6: in the pass over the rows 9232, less
\* the 1 of a tmp6 without the shift by CONST_BITS.
K14 == <<8192, 10438, 2578, 7223, 9058, 2237, 5027, 14084, 11295, 1297,
         11512, 9810, 6164, 19447, 9175, 10935, 3826, 3474, 25148, 9232,
         9231>>
K14s == <<5350, 6817, 1684, 4717, 5915, 1461, 3283, 9198, 7376, 847, 7518,
          6406, 4025, 12700, 5992, 7141, 2499, 2269, 16423, 6029, 679>>
Fdct14(x, c, s) ==
  LET p == Sums(x, 14)
      m == Differences(x, 14)
      tmp10 == p[0] + p[6]
      tmp14 == p[0] - p[6]
      tmp11 == p[1] + p[5]
      tmp15 == p[1] - p[5]
      tmp12 == p[2] + p[4]
      tmp16 == p[2] - p[4]
      tmp13a == p[3] + p[3]
      tmp10a == c[5] * (tmp14 + tmp15)
      tmp10b == m[1] + m[2]
      tmp11a == m[5] - m[4]
      tmp3a == c[1] * m[3]
      tmp10d == c[11] * tmp11a - tmp3a - c[10] * tmp10b
      tmp11c == c[12] * (m[0] + m[2]) + c[13] * (m[4] + m[6])
      tmp12a == c[16] * (m[0] + m[1]) + c[17] * (m[5] - m[6])
  IN Descaled(<<c[1] * (tmp10 + tmp11 + tmp12 + p[3]),
                tmp11c + tmp12a + tmp3a - c[20] * m[0] - c[21] * m[6],
                tmp10a + c[6] * tmp14 + c[7] * tmp16,
                tmp10d + tmp12a - c[18] * m[1] - c[19] * m[5],
                c[2] * (tmp10 - tmp13a) + c[3] * (tmp11 - tmp13a)
                  - c[4] * (tmp12 - tmp13a),
                tmp10d + tmp11c - c[14] * m[2] + c[15] * m[4],
                tmp10a - c[8] * tmp15 - c[9] * tmp16,
                c[1] * (m[0] - tmp10b + m[3] - tmp11a - m[6])>>, s)

K15 == <<8192, 9373, 3580, 12543, 18336, 6541, 748, 11332, 7752, 6476,
         10033, 11018, 6810, 11522, 4712, 3897, 4209, 13930, 2912, 17828,
         7121>>
K15s == <<9321, 10664, 4073, 14271, 20862, 7442, 852, 12893, 8820, 7369,
          11415, 12536, 7748, 13109, 5361, 4434, 4788, 15850, 3314, 20284,
          8102>>
Fdct15(x, c, s) ==
  LET p == Sums(x, 15)
      m == Differences(x, 15)
      z1 == p[0] + p[4] + p[5]
      z2 == p[1] + p[3] + p[6]
      z3 == p[2] + p[7]
      z3a == z3 + z3
      tmp2a == p[2] + ((p[1] + p[4])) \div 2 - p[7] - p[7]
      z3b == c[8] * (p[0] - p[3]) + c[9] * (p[6] - p[5]) + c[10] * (p[1]
             - p[4])
      tmp1a == c[12] * (m[0] - m[4] - m[5]) + c[13] * (m[1] - m[3] - m[6])
      tmp12a == c[11] * m[2]
      tmp4a == c[14] * (m[0] - m[6]) + c[12] * (m[1] + m[4]) + c[15] * (m[3]
               + m[5])
      tmp0a == c[16] * m[3] - c[17] * m[4] + c[18] * m[6] + tmp4a + tmp12a
      tmp3a == (-c[19] * m[0]) - c[20] * m[1] - c[21] * m[5] + tmp4a - tmp12a
  IN Descaled(<<c[1] * (z1 + z2 + z3), tmp0a,
                c[4] * (p[3] - tmp2a) - c[5] * (p[6] - tmp2a) + z3b,
                tmp1a,
                c[6] * (p[5] - tmp2a) - c[7] * (p[0] - tmp2a) + z3b,
                c[11] * (m[0] - m[2] - m[3] + m[5] + m[6]),
                c[2] * (z1 - z3a) - c[3] * (z2 - z3a), tmp3a>>, s)

K16 == <<10703, 4433, 2260, 11363, 11893, 17799, 1730, 8697, 11086, 3363,
         10217, 5461, 8956, 7350, 1136, 11529, 18730, 6387, 589, 13631,
         9222, 10055, 8728, 17760>>
Fdct16(x, c, s) ==
  LET p == Sums(x, 16)
      m == Differences(x, 16)
      tmp10 == p[0] + p[7]
      tmp14 == p[0] - p[7]
      tmp11 == p[1] + p[6]
      tmp15 == p[1] - p[6]
      tmp12 == p[2] + p[5]
      tmp16 == p[2] - p[5]
      tmp13 == p[3] + p[4]
      tmp17 == p[3] - p[4]
      tmp10a == c[3] * (tmp17 - tmp15) + c[4] * (tmp14 - tmp16)
      tmp11a == c[9] * (m[0] + m[1]) + c[10] * (m[6] - m[7])
      tmp12a == c[11] * (m[0] + m[2]) + c[12] * (m[5] + m[7])
      tmp13a == c[13] * (m[0] + m[3]) + c[14] * (m[4] - m[7])
      tmp14a == c[15] * (m[1] + m[2]) + c[16] * (m[6] - m[5])
      tmp15a == (-c[12] * (m[1] + m[3])) - c[11] * (m[4] + m[6])
      tmp16a == c[10] * (m[5] - m[4]) - c[9] * (m[2] + m[3])
      tmp10b == tmp11a + tmp12a + tmp13a - c[17] * m[0] + c[18] * m[7]
      tmp11b == tmp11a + tmp14a + tmp15a + c[19] * m[1] - c[20] * m[6]
      tmp12b == tmp12a + tmp14a + tmp16a - c[21] * m[2] + c[22] * m[5]
      tmp13b == tmp13a + tmp15a + tmp16a + c[23] * m[3] + c[24] * m[4]
  IN Descaled(<<8192 * (tmp10 + tmp11 + tmp12 + tmp13), tmp10b,
                tmp10a + c[5] * tmp15 + c[6] * tmp16, tmp11b,
                c[1] * (tmp10 - tmp13) + c[2] * (tmp11 - tmp12), tmp12b,
                tmp10a - c[7] * tmp14 - c[8] * tmp17, tmp13b>>, s)

Kernel(n, x, c, s) ==
  CASE n = 1 -> Fdct1(x, c, s)
    [] n = 2 -> Fdct2(x, c, s)
    [] n = 3 -> Fdct3(x, c, s)
    [] n = 4 -> Fdct4(x, c, s)
    [] n = 5 -> Fdct5(x, c, s)
    [] n = 6 -> Fdct6(x, c, s)
    [] n = 7 -> Fdct7(x, c, s)
    [] n = 8 -> Fdct8(x, c, s)
    [] n = 9 -> Fdct9(x, c, s)
    [] n = 10 -> Fdct10(x, c, s)
    [] n = 11 -> Fdct11(x, c, s)
    [] n = 12 -> Fdct12(x, c, s)
    [] n = 13 -> Fdct13(x, c, s)
    [] n = 14 -> Fdct14(x, c, s)
    [] n = 15 -> Fdct15(x, c, s)
    [] n = 16 -> Fdct16(x, c, s)
-----------------------------------------------------------------------------
\* One function of jfdctint.c: the size, and each pass's multipliers and shift.
Function(w, h, c1, s1, c2, s2) ==
  [w |-> w, h |-> h, c1 |-> c1, s1 |-> s1, c2 |-> c2, s2 |-> s2]

\* A mutant: the first pass is scaled down by PASS1_BITS only.
IslowDescaledLess == Function(8, 8, K8, 2, K8, 15)
jpeg_fdct_islow == Function(8, 8, K8, 11, K8, 15)
jpeg_fdct_7x7 == Function(7, 7, K7, 11, K7s, 15)
jpeg_fdct_6x6 == Function(6, 6, K6, 11, K6s, 15)
jpeg_fdct_5x5 == Function(5, 5, K5, 10, K5s, 15)
jpeg_fdct_4x4 == Function(4, 4, K4, 9, K4, 15)
jpeg_fdct_3x3 == Function(3, 3, K3, 9, K3s, 15)
jpeg_fdct_2x2 == Function(2, 2, <<1>>, 0, <<16>>, 0)
jpeg_fdct_1x1 == Function(1, 1, <<1>>, 0, <<64>>, 0)
jpeg_fdct_9x9 == Function(9, 9, K9, 12, K9s, 15)
jpeg_fdct_10x10 == Function(10, 10, K10, 12, K10s, 15)
jpeg_fdct_11x11 == Function(11, 11, K11, 12, K11s, 15)
jpeg_fdct_12x12 == Function(12, 12, K12, 13, K12s, 14)
jpeg_fdct_13x13 == Function(13, 13, K13, 13, K13s, 14)
jpeg_fdct_14x14 == Function(14, 14, K14, 13, K14s, 14)
jpeg_fdct_15x15 == Function(15, 15, K15, 13, K15s, 15)
jpeg_fdct_16x16 == Function(16, 16, K16, 11, K16, 17)
jpeg_fdct_16x8 == Function(16, 8, K16, 11, K8, 16)
jpeg_fdct_14x7 == Function(14, 7, K14, 11, K7s, 16)
jpeg_fdct_12x6 == Function(12, 6, K12, 11, K6s, 16)
jpeg_fdct_10x5 == Function(10, 5, K10, 11, K5s, 15)
jpeg_fdct_8x4 == Function(8, 4, K8, 10, K4, 15)
jpeg_fdct_6x3 == Function(6, 3, K6, 10, K3s, 15)
jpeg_fdct_4x2 == Function(4, 2, K4, 8, <<1>>, 2)
jpeg_fdct_2x1 == Function(2, 1, <<1>>, 0, <<32>>, 0)
jpeg_fdct_8x16 == Function(8, 16, K8, 11, K16, 16)
jpeg_fdct_7x14 == Function(7, 14, K7, 11, K14s, 15)
jpeg_fdct_6x12 == Function(6, 12, K6, 11, K12s, 15)
jpeg_fdct_5x10 == Function(5, 10, K5, 11, K10s, 15)
jpeg_fdct_4x8 == Function(4, 8, K4, 10, K8, 15)
jpeg_fdct_3x6 == Function(3, 6, K3, 10, K6s, 15)
jpeg_fdct_2x4 == Function(2, 4, <<8>>, 0, K4, 13)
jpeg_fdct_1x2 == Function(1, 2, <<1>>, 0, <<32>>, 0)

\* start_pass_fdctmgr() selects a function by the size of a component's blocks.
ForwardDCT == {jpeg_fdct_islow, jpeg_fdct_7x7, jpeg_fdct_6x6, jpeg_fdct_5x5,
               jpeg_fdct_4x4, jpeg_fdct_3x3, jpeg_fdct_2x2, jpeg_fdct_1x1,
               jpeg_fdct_9x9, jpeg_fdct_10x10, jpeg_fdct_11x11,
               jpeg_fdct_12x12, jpeg_fdct_13x13, jpeg_fdct_14x14,
               jpeg_fdct_15x15, jpeg_fdct_16x16, jpeg_fdct_16x8,
               jpeg_fdct_14x7, jpeg_fdct_12x6, jpeg_fdct_10x5, jpeg_fdct_8x4,
               jpeg_fdct_6x3, jpeg_fdct_4x2, jpeg_fdct_2x1, jpeg_fdct_8x16,
               jpeg_fdct_7x14, jpeg_fdct_6x12, jpeg_fdct_5x10, jpeg_fdct_4x8,
               jpeg_fdct_3x6, jpeg_fdct_2x4, jpeg_fdct_1x2}
-----------------------------------------------------------------------------
\* Pass 1: the rows of f.h x f.w samples; at most 8 coefficients are kept.
Rows(f, samples) ==
  [r \in 0 .. f.h - 1 |->
     Kernel(f.w, [i \in 0 .. f.w - 1 |-> samples[r][i] - CENTERJSAMPLE],
            f.c1, f.s1)]

\* Pass 2: the columns of that, and zeroes where the block has none.
Columns(f, work) ==
  [u \in 0 .. DCTSIZE - 1 |->
     IF u < f.w
     THEN Kernel(f.h, [r \in 0 .. f.h - 1 |-> work[r][u]], f.c2, f.s2)
     ELSE << >>]
Coefficients(f, columns) ==
  [v \in 0 .. DCTSIZE - 1 |-> [u \in 0 .. DCTSIZE - 1 |->
     IF u < f.w /\ v < f.h THEN columns[u][v] ELSE 0]]
=============================================================================
