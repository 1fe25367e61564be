---------------------------- MODULE MCCodestream ----------------------------
(* Small pictures for Codestream: every kind of scan and of damage. *)
EXTENDS Codestream

Comp(h, v, n) == [h |-> h, v |-> v, dc |-> n, ac |-> n]
Frame(comps, width, height, bs) == [comps |-> comps, width |-> width, height |-> height, bs |-> bs]

\* Blocks by a rule: F(c, row, col, k) is coefficient k.
Image(f, F(_, _, _, _)) ==
  [c \in DOMAIN f.comps |-> [b \in RealBlocks(f, c) |->
     [k \in 0 .. lim_Se(f.bs) |-> F(c, b[1], b[2], k)]]]

Mixed(c, row, col, k) ==
  LET x == 31 * k * k + 17 * c + 29 * row + 13 * col * col + 7 * k * (row + col)
  IN IF k = 0 THEN (x % 41) - 20
     ELSE IF x % 3 # 0 THEN 0 ELSE IF x % 2 = 0 THEN (x % 9) - 4 ELSE -(x % 5)
Sparse(c, row, col, k) ==                  \* long runs of zeroes, and large values
  IF k = 0 THEN 100 * (col - row) ELSE IF k \in {1, 40} THEN 1023 * (1 - 2 * col) ELSE 0
Dense(c, row, col, k) == IF (k + col) % 2 = 0 THEN 3 ELSE -2
Flat(c, row, col, k) == IF k = 0 THEN 3 * col ELSE 0

Job(f, F(_, _, _, _), script) ==
  [f |-> f, image |-> Image(f, F), script |-> script, optimize |-> FALSE,
   interval |-> 0, rows |-> 0, buffer |-> 0, longest |-> 16, multiscan |-> TRUE,
   needed |-> [c \in DOMAIN f.comps |-> TRUE], damage |-> "none", chunks |-> {1, 1000},
   sizes |-> [c \in DOMAIN f.comps |-> IF f.bs < 8 THEN <<f.bs, f.bs>> ELSE <<8, 8>>]]

S(comps, Ss, Se, Ah, Al) == [comps |-> comps, Ss |-> Ss, Se |-> Se, Ah |-> Ah, Al |-> Al]
Grey(width, height, bs) == Frame(<<Comp(1, 1, 1)>>, width, height, bs)
Colour(width, height, bs) ==
  Frame(<<Comp(2, 2, 1), Comp(1, 1, 2), Comp(1, 1, 2)>>, width, height, bs)

Progression == <<S(<<1>>, 0, 0, 0, 1), S(<<1>>, 1, 63, 0, 2), S(<<1>>, 1, 63, 2, 1),
                 S(<<1>>, 0, 0, 1, 0), S(<<1>>, 1, 63, 1, 0)>>

MCJobs == <<
  \* the standard tables, a destination that makes the compressor wait
  [Job(Grey(16, 8, 8), Sparse, <<>>) EXCEPT !.interval = 1, !.buffer = 16, !.multiscan = FALSE],
  \* components of different sizes, with MCUs that reach outside of the picture
  [Job(Colour(5, 6, 2), Mixed, <<>>) EXCEPT !.multiscan = FALSE],
  \* one component after the other, with restarts by rows
  [Job(Colour(10, 7, 3), Mixed, <<S(<<2, 3>>, 0, 63, 0, 0), S(<<1>>, 0, 63, 0, 0)>>)
     EXCEPT !.rows = 1],
  \* scaled down, with a component that is not wanted
  [Job(Frame(<<Comp(2, 1, 1), Comp(1, 1, 2), Comp(1, 1, 2)>>, 16, 8, 8), Mixed, <<>>) EXCEPT
     !.optimize = TRUE, !.needed = <<TRUE, FALSE, TRUE>>, !.chunks = {40},
     !.sizes = <<<<2, 1>>, <<1, 1>>, <<3, 3>>>>],
  \* long runs of zeroes, with tables of their own
  [Job(Grey(16, 8, 8), Sparse, <<>>) EXCEPT !.optimize = TRUE, !.chunks = {1, 1000}],
  [Job(Grey(16, 8, 8), Sparse, Progression) EXCEPT !.chunks = {1, 1000}],
  \* codes that are cut short
  [Job(Grey(24, 8, 8), Mixed, <<>>) EXCEPT !.optimize = TRUE, !.longest = 5],
  \* progressive
  [Job(Grey(16, 8, 8), Dense, Progression) EXCEPT !.chunks = {2, 1000}],
  Job(Grey(30, 5, 5), Mixed, Progression),
  [Job(Grey(30, 5, 5), Mixed, Progression) EXCEPT !.interval = 2],
  Job(Grey(12, 2, 2), Flat, Progression),
  [Job(Colour(3, 3, 2), Mixed, jpeg_simple_progression(3, TRUE)) EXCEPT !.chunks = {1000}],
  \* scripts that are refused
  Job(Grey(4, 2, 2), Mixed, <<S(<<1>>, 1, 63, 0, 0), S(<<1>>, 0, 0, 0, 0)>>),
  Job(Grey(4, 2, 2), Mixed, <<S(<<1>>, 0, 0, 0, 2), S(<<1>>, 0, 0, 1, 0)>>),
  \* a script that passes, whose second scan has twelve blocks in an MCU
  Job(Frame(<<Comp(1, 1, 1), Comp(4, 2, 2), Comp(2, 2, 2)>>, 8, 4, 2), Mixed,
      <<S(<<1>>, 0, 63, 0, 0), S(<<2, 3>>, 0, 63, 0, 0)>>),
  \* damage
  [Job(Grey(24, 2, 2), Mixed, <<>>) EXCEPT !.interval = 1, !.damage = "segments",
                                           !.chunks = {1000}],
  [Job(Grey(10, 2, 2), Mixed, Progression) EXCEPT !.interval = 1, !.damage = "segments",
                                                  !.chunks = {3, 1000}],
  [Job(Colour(6, 6, 2), Mixed, <<>>) EXCEPT !.interval = 2, !.damage = "segments"],
  [Job(Colour(10, 4, 2), Mixed, <<>>) EXCEPT !.interval = 1, !.damage = "byte",
                                             !.chunks = {1000}],
  [Job(Grey(10, 4, 2), Mixed, Progression) EXCEPT !.interval = 2, !.damage = "byte",
                                                  !.chunks = {1000}],
  [Job(Grey(8, 4, 2), Mixed, Progression) EXCEPT !.interval = 3, !.damage = "end",
                                                 !.chunks = {1000}],
  [Job(Grey(8, 4, 2), Mixed, <<>>) EXCEPT !.interval = 3, !.damage = "end", !.chunks = {1, 1000}]>>
=============================================================================
