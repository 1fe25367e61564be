----------------------------- MODULE Conversion -----------------------------
(***************************************************************************)
(* What the upload script and the gallery count on when they run the       *)
(* converter (Web/public/api/uploadfiles.php 64-78): a picture appears     *)
(* incomplete and becomes complete; a new run may make it incomplete       *)
(* again; only when two runs wrote the same one at once may a complete     *)
(* picture be spoilt by the other run; and the progress log names only     *)
(* pictures that were complete at some time, or written by two at once.    *)
(***************************************************************************)
CONSTANTS
  Runs,     \* the runs of the converter, each of which writes one picture
  Outputs   \* names of converted pictures

VARIABLES
  begun,      \* the runs that have opened their picture
  picture,    \* "absent", "partial" or "whole", for each name
  completed,  \* the names that were whole at some time
  raced,      \* the names two runs wrote at once, at some time
  reported    \* the names in PROGRESS.txt

Init ==
  /\ begun = {}
  /\ picture = [o \in Outputs |-> "absent"]
  /\ completed = {}
  /\ raced = {}
  /\ reported = {}

\* A run opens the file and empties it, perhaps under another run's hands.
Create(o) ==
  /\ \E r \in Runs \ begun : begun' = begun \cup {r}
  /\ picture' = [picture EXCEPT ![o] = "partial"]
  /\ raced' \in {raced} \cup (IF picture[o] = "partial" THEN {raced \cup {o}}
                                                        ELSE {})
  /\ UNCHANGED <<completed, reported>>

Complete(o) ==
  /\ picture[o] = "partial"
  /\ picture' = [picture EXCEPT ![o] = "whole"]
  /\ completed' = completed \cup {o}
  /\ UNCHANGED <<begun, raced, reported>>

\* After a race the slower run goes on writing over a complete picture.
Spoil(o) ==
  /\ o \in raced /\ picture[o] = "whole"
  /\ picture' = [picture EXCEPT ![o] = "partial"]
  /\ UNCHANGED <<begun, completed, raced, reported>>

Report(o) ==
  /\ o \in completed \cup raced
  /\ reported' = reported \cup {o}
  /\ UNCHANGED <<begun, picture, completed, raced>>

Next == \E o \in Outputs : Create(o) \/ Complete(o) \/ Spoil(o) \/ Report(o)

Spec == Init /\ [][Next]_<<begun, picture, completed, raced, reported>>
=============================================================================
