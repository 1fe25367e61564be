---------------------------- MODULE MCConverter -----------------------------
(***************************************************************************)
(* The converter for TLC: two runs that may share an output, with pictures *)
(* down to one pixel's height and command lines for every branch.          *)
(***************************************************************************)
EXTENDS Converter, TLC

Asked(i, o, r, a, b, f, h, l) ==
  [fin |-> i, fout |-> o, R |-> r, x |-> a, y |-> b, inte |-> f,
   help |-> h, log |-> l]

CONSTANTS Eye, Big, Flat, Gone, Junk, Out, Other

MCPictures == (Eye :> <<9, 7>>) @@ (Big :> <<25, 24>>) @@ (Flat :> <<5, 1>>) @@ (Gone :> Missing)
                @@ (Junk :> Damaged)

MCJobs ==
  (1 :> {Asked(Eye, Out, r, x, y, f, FALSE, TRUE) :
           r \in {0, 2, 4}, x \in {0, 3, 9}, y \in {0, 2}, f \in {0, 3, 5}}
        \cup {Asked(i, Other, 0, 0, 0, 0, i = Gone, FALSE) :
                i \in {Flat, Gone, Junk}}
        \cup {Asked(Big, Other, 0, x, 12, f, FALSE, FALSE) :
                x \in {0, 20}, f \in {0, 16}})
  @@ (2 :> {Asked(Eye, o, 0, 0, 0, 0, FALSE, o = Out) : o \in {Out, Other}})

\* In units of half a buffer: every length from less than a buffer to two and
\* a half, so that the runs' files differ in length and in their last buffer.
MCLength == [i \in Images |-> 1 + ((i[2].R_eye + i[2].F + i[2].C_Dx) % 5)]
=============================================================================
