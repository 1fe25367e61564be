------------------------------- MODULE Dewrap -------------------------------
(***************************************************************************)
(* The geometry of fisheye2plain (mapper/dewrap_algo.c): which pixel of    *)
(* the fisheye picture each pixel of the flat picture is copied from.      *)
(*                                                                         *)
(* The code computes in doubles what is stated here exactly, over the      *)
(* integers: f_U and f_D, which the code keeps equal, are F / 10 with F an *)
(* integer, because the least factor is 0.9 * R_eye.                       *)
(***************************************************************************)
EXTENDS Integers, FiniteSetsExt

Sqrt(n) == CHOOSE s \in 0 .. n : s * s <= n /\ n < (s + 1) * (s + 1)

\* x / y >= the square root of m, for x >= 0 and y > 0.
AtLeastSqrt(x, y, m) ==
  LET q == x \div y
      d == (m - q * q) * y - 2 * q * (x % y)
  IN q * q >= m \/ d <= 0 \/ (d <= y /\ (x % y) * (x % y) >= d * y)

\* The radius r of the flat picture reaches the radius a of the fisheye:
\* f * tan(2 * asin(a / (2 * f))) <= r, which is the same as
\* a <= 2 * f * sin(atan(r / f) / 2). Without sines, as the angle is below
\* 90 degrees: the tangent is a * sqrt(4ff - aa) / (2ff - aa).
Reaches(F, r, a) ==
  LET D == 2 * F * F - 100 * a * a IN
  a = 0 \/ (D > 0 /\ AtLeastSqrt(10 * r * D, 10 * F * a, 4 * F * F - 100 * a * a))

\* R_D(): the fisheye radius the flat radius r comes from, cut to an integer.
R_D(F, r) ==
  CHOOSE a \in 0 .. r : Reaches(F, r, a) /\ ~Reaches(F, r, a + 1)

\* R_U(): the flat radius the fisheye radius R is drawn at. It is never three
\* times as far as R, since F >= 9 * R; none of the cuts is of an integer.
R_U(F, R) == Max({0} \cup {r \in 1 .. 3 * R : ~Reaches(F, r, R)})

\* The distortion factor, ten times: never less than 0.9 * R.
Factor(R, f) == IF 10 * f < 9 * R THEN 9 * R ELSE 10 * f

\* Mutant: a square around the circle instead of one inside it.
FlatSizeAround(F, R) == 2 * R_U(F, R)

\* The side of the square whose corners are R_U(R) from its centre.
FlatSize(F, R) == (141421 * R_U(F, R)) \div 100000

\* DWPA_set_parameters(): the fisheye's centre and radius, the factor and the
\* size of the flat picture, for a picture of w x h and the parameters -x, -y,
\* -R and -inte.
Parameters(w, h, x, y, R, f) ==
  LET middle == x = 0 \/ y = 0
      eye    == IF R = 0 THEN h \div 2 ELSE R
      F      == Factor(eye, f)
      size   == FlatSize(F, eye)
  IN [W_D |-> w, H_D |-> h, R_eye |-> eye, F |-> F,
      C_Dx |-> IF middle THEN w \div 2 ELSE x,
      C_Dy |-> IF middle THEN h \div 2 ELSE y,
      H_U |-> size, C_U |-> size \div 2]

\* The centre is looked for before the radius is; outside of the picture it
\* ends the program.
CentreInPicture(p) == p.C_Dx \in 0 .. p.W_D - 1 /\ p.C_Dy \in 0 .. p.H_D - 1

\* r * u / sqrt(n), rounded down.
Project(r, u, n) ==
  LET s == Sqrt((r * u * r * u) \div n) IN
  IF u >= 0 THEN s ELSE IF s * s * n = r * u * r * u THEN -s ELSE -s - 1

Clamp(v, size) == IF v >= size THEN size - 1 ELSE IF v < 0 THEN 0 ELSE v

\* Mutant: the direction is taken from the corner of the flat picture.
P2FromCorner(p, x, y) ==
  LET n == x * x + y * y
      r == R_D(p.F, Sqrt(n))
  IN IF n = 0 THEN <<0, 0>>
     ELSE <<Clamp(Project(r, x - p.C_U, n) + p.C_Dx, p.W_D),
            Clamp(Project(r, y - p.C_U, n) + p.C_Dy, p.H_D)>>

\* P2(): the pixel of the fisheye that the pixel (x, y) of the flat picture is
\* copied from. At the centre it divides 0 by 0, and the NaN it converts to an
\* int becomes the least int (x86) or 0 (ARM): after the clamp, 0 for both.
P2(p, x, y) ==
  LET ux == x - p.C_U
      uy == y - p.C_U
      n  == ux * ux + uy * uy
      r  == R_D(p.F, Sqrt(n))
  IN IF n = 0 THEN <<0, 0>>
     ELSE <<Clamp(Project(r, ux, n) + p.C_Dx, p.W_D),
            Clamp(Project(r, uy, n) + p.C_Dy, p.H_D)>>

\* create_map(): a square of DWPA_get_img_size() pixels.
CreateMap(p) ==
  [at \in (0 .. p.H_U - 1) \X (0 .. p.H_U - 1) |-> P2(p, at[1], at[2])]
=============================================================================
