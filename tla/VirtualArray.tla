---------------------------- MODULE VirtualArray ----------------------------
(***************************************************************************)
(* A virtual array of jmemmgr.c. The memory holds a window of its rows, a  *)
(* temporary file the rest; which rows the window holds follows the        *)
(* accesses. The arrays of samples and of coefficient blocks differ in     *)
(* nothing but the size of a row.                                          *)
(*                                                                         *)
(*   mem_buffer, cur_start_row, rows_in_mem   the window                   *)
(*   first_undef_row    the rows before it have been written to            *)
(*   dirty              the window may differ from the file                *)
(*   b_s_open, file     the backing store                                  *)
(***************************************************************************)
EXTENDS Integers

CONSTANTS Rows, MaxAccess, Values, Zero

ASSUME RowsAssumption == Rows \in Nat \ {0}
ASSUME MaxAccessAssumption == MaxAccess \in Nat \ {0}
ASSUME ZeroAssumption == Zero \in Values

VARIABLES pre_zero, mem_buffer, cur_start_row, rows_in_mem, first_undef_row, dirty,
          b_s_open, file, strip, seen, status

vars == <<pre_zero, mem_buffer, cur_start_row, rows_in_mem, first_undef_row, dirty,
          b_s_open, file, strip, seen, status>>

Minimum(a, b) == IF a <= b THEN a ELSE b
Maximum(a, b) == IF a >= b THEN a ELSE b

NoStrip == [first |-> 0, end |-> 0, writable |-> FALSE]

Unrealized ==
  /\ mem_buffer = [i \in 0 .. -1 |-> Zero] /\ rows_in_mem = 0
  /\ cur_start_row = 0 /\ first_undef_row = 0 /\ dirty = FALSE
  /\ b_s_open = FALSE /\ file = [r \in 0 .. Rows - 1 |-> Zero]
  /\ strip = NoStrip /\ seen = Zero /\ status = "none"
  /\ pre_zero \in BOOLEAN

\* realize_virt_arrays(): all rows in memory, or a number of strips of them and
\* a file. Neither the memory nor the file is cleared.
Realize(rows, with_file) ==
  /\ status = "none" /\ status' = "open"
  /\ IF with_file THEN rows < Rows /\ rows >= MaxAccess ELSE rows = Rows
  /\ rows_in_mem' = rows /\ b_s_open' = with_file
  /\ mem_buffer' \in [0 .. rows - 1 -> Values]
  /\ file' \in [0 .. Rows - 1 -> Values]
  /\ cur_start_row' = 0 /\ first_undef_row' = 0 /\ dirty' = FALSE
  /\ UNCHANGED <<pre_zero, strip, seen>>

(***************************************************************************)
(* access_virt_sarray() and access_virt_barray(). do_sarray_io() and       *)
(* do_barray_io() transfer the rows of the window that are defined.        *)
(***************************************************************************)
Outside(first, end) ==
  first < cur_start_row \/ end > cur_start_row + rows_in_mem

NewStart(first, end) ==
  IF first > cur_start_row THEN first ELSE Maximum(0, end - rows_in_mem)

NotFlushed == file                            \* a mutant: forgets the dirty rows
Flushed ==
  [r \in 0 .. Rows - 1 |->
    IF dirty /\ r >= cur_start_row /\ r < cur_start_row + rows_in_mem /\ r < first_undef_row
    THEN mem_buffer[r - cur_start_row] ELSE file[r]]

Loaded(stored, start) ==
  [i \in 0 .. rows_in_mem - 1 |->
    IF start + i < Minimum(first_undef_row, Rows) THEN stored[start + i] ELSE mem_buffer[i]]

\* The rows of the strip that are new are cleared in the buffer.
Cleared(buffer, start, first, end) ==
  [i \in 0 .. rows_in_mem - 1 |->
    IF pre_zero /\ start + i >= Maximum(first, first_undef_row) /\ start + i < end
    THEN Zero ELSE buffer[i]]

Fits(first, end) == end <= Rows /\ end - first <= MaxAccess
Undefined(first, end, writable) ==
  /\ first_undef_row < end
  /\ IF writable THEN first_undef_row < first ELSE ~ pre_zero

Access(first, end, writable) ==
  LET moves == Outside(first, end)
      start == IF moves THEN NewStart(first, end) ELSE cur_start_row
  IN /\ status = "open"
     /\ Fits(first, end)
     /\ moves => b_s_open
     /\ ~ Undefined(first, end, writable)
     /\ file' = IF moves THEN Flushed ELSE file
     /\ cur_start_row' = start
     /\ mem_buffer' = Cleared(IF moves THEN Loaded(Flushed, start) ELSE mem_buffer,
                              start, first, end)
     /\ first_undef_row' = IF writable THEN Maximum(first_undef_row, end) ELSE first_undef_row
     /\ dirty' = (writable \/ (dirty /\ ~ moves))
     /\ strip' = [first |-> first, end |-> end, writable |-> writable]
     /\ seen' = Zero
     /\ UNCHANGED <<pre_zero, rows_in_mem, b_s_open, status>>

\* JERR_BAD_VIRTUAL_ACCESS, or JERR_VIRTUAL_BUG for a window that should be moved
\* and has no file. What the window holds after it is of no use: the error ends
\* the work on this picture.
Refuse(first, end, writable) ==
  LET astray == Fits(first, end) /\ Outside(first, end) /\ ~ b_s_open
  IN /\ status = "open"
     /\ ~ Fits(first, end) \/ astray \/ Undefined(first, end, writable)
     /\ status' = IF astray THEN "bug" ELSE "refused"
     /\ UNCHANGED <<pre_zero, mem_buffer, cur_start_row, rows_in_mem, first_undef_row, dirty,
                    b_s_open, file, strip, seen>>

\* The temporary file cannot be created, read or written, or there is no memory.
Break ==
  /\ status \in {"none", "open"} /\ status' = "broken"
  /\ UNCHANGED <<pre_zero, mem_buffer, cur_start_row, rows_in_mem, first_undef_row, dirty,
                 b_s_open, file, strip, seen>>

\* The user reads and writes the rows of the strip through the pointers that
\* the access returned.
Load(r) ==
  /\ status = "open"
  /\ r \in strip.first .. strip.end - 1
  /\ seen' = mem_buffer[r - cur_start_row]
  /\ UNCHANGED <<pre_zero, mem_buffer, cur_start_row, rows_in_mem, first_undef_row, dirty,
                 b_s_open, file, strip, status>>
Store(r, v) ==
  /\ status = "open"
  /\ strip.writable /\ r \in strip.first .. strip.end - 1
  /\ mem_buffer' = [mem_buffer EXCEPT ![r - cur_start_row] = v]
  /\ UNCHANGED <<pre_zero, cur_start_row, rows_in_mem, first_undef_row, dirty,
                 b_s_open, file, strip, seen, status>>

\* free_pool() closes the file and gives the memory back.
Free ==
  /\ mem_buffer' = [i \in 0 .. -1 |-> Zero] /\ rows_in_mem' = 0
  /\ cur_start_row' = 0 /\ first_undef_row' = 0 /\ dirty' = FALSE
  /\ b_s_open' = FALSE /\ file' = [r \in 0 .. Rows - 1 |-> Zero]
  /\ strip' = NoStrip /\ seen' = Zero /\ status' = "none"
  /\ pre_zero' \in BOOLEAN

Use ==
  \/ \E first \in 0 .. Rows, num \in 1 .. Rows + MaxAccess, writable \in BOOLEAN :
       Access(first, first + num, writable) \/ Refuse(first, first + num, writable)
  \/ \E r \in 0 .. Rows - 1 : Load(r) \/ \E v \in Values : Store(r, v)

Next == \/ \E rows \in 0 .. Rows, with_file \in BOOLEAN : Realize(rows, with_file)
        \/ Break \/ Free \/ Use

Spec == Unrealized /\ [][Next]_vars

-----------------------------------------------------------------------------
TypeOK ==
  /\ pre_zero \in BOOLEAN
  /\ rows_in_mem \in 0 .. Rows
  /\ mem_buffer \in [0 .. rows_in_mem - 1 -> Values]
  /\ cur_start_row \in 0 .. Rows /\ first_undef_row \in 0 .. Rows
  /\ dirty \in BOOLEAN /\ b_s_open \in BOOLEAN
  /\ file \in [0 .. Rows - 1 -> Values]
  /\ strip \in [first : 0 .. Rows, end : 0 .. Rows, writable : BOOLEAN]
  /\ seen \in Values
  /\ status \in {"none", "open", "refused", "broken", "bug"}

\* The rows as the users of the array know them: in the window where it holds
\* them, otherwise in the file.
Row(r) ==
  IF r >= first_undef_row THEN Zero
  ELSE IF r >= cur_start_row /\ r < cur_start_row + rows_in_mem
  THEN mem_buffer[r - cur_start_row]
  ELSE file[r]

Array == INSTANCE PlainArray WITH
  contents <- [r \in 0 .. Rows - 1 |-> Row(r)], defined <- first_undef_row

\* The comment on virtual array management: the code makes a strip accessible
\* after reading or writing the backing file, and its users see an array that is
\* there as a whole. No access is refused that is legitimate, none finds the
\* window where it should not be.
PlainArraySpec == Array!Spec
=============================================================================
