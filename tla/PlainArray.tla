----------------------------- MODULE PlainArray -----------------------------
(***************************************************************************)
(* What the users of a virtual array of jmemmgr.c count on: an array of    *)
(* rows that is always there as a whole, of which a strip of up to         *)
(* MaxAccess rows is held at a time. A row belongs to the array from the   *)
(* first access that may write it; an array that is zeroed holds zeros     *)
(* where nothing was written, any other refuses to show such rows.         *)
(*                                                                         *)
(*   contents   the rows, defined   how many of them belong to the array   *)
(*   strip      the rows that are held, and whether they may be written    *)
(*   seen       what was read of the strip last                            *)
(*   status     "none" before the array is realized, then "open"; an       *)
(*              access that is refused, or a failure of memory or file,    *)
(*              ends the use of the array                                  *)
(***************************************************************************)
EXTENDS Integers

CONSTANTS Rows, MaxAccess, Values, Zero

VARIABLES pre_zero, contents, defined, strip, seen, status

NoStrip == [first |-> 0, end |-> 0, writable |-> FALSE]

Closed == /\ contents = [r \in 0 .. Rows - 1 |-> Zero]
          /\ defined = 0 /\ strip = NoStrip /\ seen = Zero /\ status = "none"
          /\ pre_zero \in BOOLEAN

Realize == /\ status = "none" /\ status' = "open"
           /\ UNCHANGED <<pre_zero, contents, defined, strip, seen>>

Legitimate(first, end, writable) ==
  /\ end <= Rows /\ end <= first + MaxAccess
  /\ writable => first <= defined
  /\ ~ writable /\ ~ pre_zero => end <= defined

\* Rows that are new to the array hold whatever the memory holds.
Access(first, end, writable) ==
  /\ status = "open"
  /\ Legitimate(first, end, writable)
  /\ defined' = IF writable /\ defined < end THEN end ELSE defined
  /\ IF pre_zero THEN contents' = contents
     ELSE /\ contents' \in [0 .. Rows - 1 -> Values]
          /\ \A r \in 0 .. Rows - 1 : r < defined \/ r >= defined' => contents'[r] = contents[r]
  /\ strip' = [first |-> first, end |-> end, writable |-> writable]
  /\ seen' = Zero
  /\ UNCHANGED <<pre_zero, status>>

Load(r) == /\ status = "open"
           /\ r \in strip.first .. strip.end - 1
           /\ seen' = contents[r]
           /\ UNCHANGED <<pre_zero, contents, defined, strip, status>>

Store(r, v) == /\ status = "open"
               /\ strip.writable /\ r \in strip.first .. strip.end - 1
               /\ contents' = [contents EXCEPT ![r] = v]
               /\ UNCHANGED <<pre_zero, defined, strip, seen, status>>

Refuse(first, end, writable) ==
  /\ status = "open"
  /\ ~ Legitimate(first, end, writable)
  /\ status' = "refused"
  /\ UNCHANGED <<pre_zero, contents, defined, strip, seen>>

Break == /\ status \in {"none", "open"} /\ status' = "broken"
         /\ UNCHANGED <<pre_zero, contents, defined, strip, seen>>

Free == /\ contents' = [r \in 0 .. Rows - 1 |-> Zero]
        /\ defined' = 0 /\ strip' = NoStrip /\ seen' = Zero /\ status' = "none"
        /\ pre_zero' \in BOOLEAN

Next ==
  \/ Realize \/ Break \/ Free
  \/ \E first \in 0 .. Rows, num \in 1 .. Rows + MaxAccess, writable \in BOOLEAN :
       \/ Access(first, first + num, writable) \/ Refuse(first, first + num, writable)
  \/ \E r \in 0 .. Rows - 1 : Load(r) \/ \E v \in Values : Store(r, v)

Spec == Closed /\ [][Next]_<<pre_zero, contents, defined, strip, seen, status>>
=============================================================================
