---------------------------- MODULE UploadScript ----------------------------
(***************************************************************************)
(* Web/public/api/uploadfiles.php: the requests of one identifier key, each*)
(* run by a PHP worker of its own, against one file system and one clock.  *)
(* A request is split where another worker, or the clock, can get between  *)
(* two of its calls: the two reads of the date, each test for a directory  *)
(* and each mkdir, the move of the upload, the conversion command.         *)
(*                                                                         *)
(* Requests are numbered in the order the application sends them, which is *)
(* the order in which the pictures were taken; PictureOf lets a request    *)
(* carry a picture again, and a file is known by the picture it holds.     *)
(***************************************************************************)
EXTENDS Naturals, FiniteSets

CONSTANTS
  N,          \* number of requests
  PictureOf,  \* the picture, by order of capture, that a request carries
  HoursADay,  \* hours of a day of the model
  MaxClock,   \* bound on the clock, in hours since the model's first midnight
  Workers,    \* requests that may be in the script at a time
  Faults      \* requests whose move or conversion may fail by itself

Requests == 1 .. N

ASSUME RequestAssumption ==
  /\ N \in Nat
  /\ PictureOf \in [Requests -> Nat]
  /\ \A q, r \in Requests : q < r => PictureOf[q] <= PictureOf[r]
ASSUME ClockAssumption == HoursADay \in Nat \ {0} /\ MaxClock \in Nat
ASSUME ScriptAssumption == Workers \in Nat \ {0} /\ Faults \subseteq Requests

VARIABLES
  now,            \* the server's clock, in hours
  pc,             \* where each request is in the script
  day, hour,      \* date("Ymd") and date("H") as each request read them
  readAt,         \* the clock when a request read date("H")
  result,         \* resultCode and resultMessage of each request
  lostRace,       \* a directory a request was about to make was there already
  dayDirs,        \* incoming/<key>/<day>
  hourDirs,       \* incoming/<key>/<day>/<hour>
  convertedDirs,  \* incoming/<key>/<day>/<hour>/converted
  stored,         \* uploads in their hour's directory
  published,      \* files in an hour's converted directory
  whole           \* those of them that are completely written

requestVars == <<pc, day, hour, readAt, result, lostRace>>
dirVars     == <<dayDirs, hourDirs, convertedDirs>>
fileVars    == <<stored, published, whole>>
vars        == <<now, requestVars, dirVars, fileVars>>

DayOf(t)  == t \div HoursADay
HourOf(t) == t % HoursADay
Clock     == 0 .. MaxClock
Days      == {DayOf(t) : t \in Clock}
Hours     == {HourOf(t) : t \in Clock}
Slots     == Days \X Hours
Pictures  == {PictureOf[r] : r \in Requests}
Files     == Slots \X Pictures

Slot(r) == <<day[r], hour[r]>>
File(r) == <<Slot(r), PictureOf[r]>>

States == {"idle", "day", "hour", "base", "scan", "makeDay", "makeHour",
           "converted", "makeConverted", "move", "convert", "converting",
           "answer", "done"}
Results == {"none", "OK", "Failure", "no files!"}

TypeOK ==
  /\ now \in Clock
  /\ pc \in [Requests -> States]
  /\ day \in [Requests -> Days]
  /\ hour \in [Requests -> Hours]
  /\ readAt \in [Requests -> Clock]
  /\ result \in [Requests -> Results]
  /\ lostRace \in [Requests -> BOOLEAN]
  /\ dayDirs \subseteq Days
  /\ hourDirs \subseteq Slots
  /\ convertedDirs \subseteq Slots
  /\ stored \subseteq Files
  /\ published \subseteq Files
  /\ whole \subseteq published

Init ==
  /\ now = 0
  /\ pc = [r \in Requests |-> "idle"]
  /\ day = [r \in Requests |-> 0]
  /\ hour = [r \in Requests |-> 0]
  /\ readAt = [r \in Requests |-> 0]
  /\ result = [r \in Requests |-> "none"]
  /\ lostRace = [r \in Requests |-> FALSE]
  /\ dayDirs = {} /\ hourDirs = {} /\ convertedDirs = {}
  /\ stored = {} /\ published = {} /\ whole = {}
-----------------------------------------------------------------------------
Goto(r, from, to) == pc[r] = from /\ pc' = [pc EXCEPT ![r] = to]

\* The next hour begins.
Tick ==
  /\ now < MaxClock
  /\ now' = now + 1
  /\ UNCHANGED <<requestVars, dirVars, fileVars>>

\* A request reaches a free worker, after those sent before it; while they are
\* still in the script only if a client gave up on its answer and went on. PHP
\* hands over no file when the request is larger than it accepts.
Arrive(r) ==
  /\ \A q \in Requests : q < r => pc[q] # "idle"
  /\ Cardinality({q \in Requests : pc[q] \notin {"idle", "done"}}) < Workers
  /\ \/ Goto(r, "idle", "day") /\ UNCHANGED result
     \/ /\ r \in Faults
        /\ Goto(r, "idle", "answer")
        /\ result' = [result EXCEPT ![r] = "no files!"]
  /\ UNCHANGED <<now, day, hour, readAt, lostRace, dirVars, fileVars>>

\* date("Ymd").
ReadDay(r) ==
  /\ Goto(r, "day", "hour")
  /\ day' = [day EXCEPT ![r] = DayOf(now)]
  /\ UNCHANGED <<now, hour, readAt, result, lostRace, dirVars, fileVars>>

\* date("H"), a second look at the clock.
ReadHour(r) ==
  /\ Goto(r, "hour", "base")
  /\ hour' = [hour EXCEPT ![r] = HourOf(now)]
  /\ readAt' = [readAt EXCEPT ![r] = now]
  /\ UNCHANGED <<now, day, result, lostRace, dirVars, fileVars>>

\* file_exists() of the hour's directory.
CheckBase(r) ==
  /\ IF Slot(r) \in hourDirs THEN Goto(r, "base", "converted")
                             ELSE Goto(r, "base", "scan")
  /\ UNCHANGED <<now, day, hour, readAt, result, lostRace, dirVars, fileVars>>

\* The recursive mkdir() looks for the deepest directory that is there...
ScanPath(r) ==
  /\ IF day[r] \in dayDirs THEN Goto(r, "scan", "makeHour")
                           ELSE Goto(r, "scan", "makeDay")
  /\ UNCHANGED <<now, day, hour, readAt, result, lostRace, dirVars, fileVars>>

\* ... and makes those below it one by one, giving up at the first it cannot
\* make: if another request made the day's directory meanwhile, the hour's is
\* not made.
MakeDay(r) ==
  /\ IF day[r] \in dayDirs
     THEN /\ Goto(r, "makeDay", "converted")
          /\ lostRace' = [lostRace EXCEPT ![r] = TRUE]
     ELSE Goto(r, "makeDay", "makeHour") /\ UNCHANGED lostRace
  /\ dayDirs' = dayDirs \cup {day[r]}
  /\ UNCHANGED <<now, day, hour, readAt, result, hourDirs, convertedDirs,
                 fileVars>>

\* Mutant: the recursive mkdir() stops above the hour's directory.
MakeNoHour(r) ==
  /\ Goto(r, "makeHour", "converted")
  /\ UNCHANGED <<now, day, hour, readAt, result, lostRace, dirVars, fileVars>>

MakeHour(r) ==
  /\ Goto(r, "makeHour", "converted")
  /\ hourDirs' = hourDirs \cup {Slot(r)}
  /\ UNCHANGED <<now, day, hour, readAt, result, lostRace, dayDirs,
                 convertedDirs, fileVars>>

\* Mutant: the converted directory is taken for granted.
SkipConverted(r) ==
  /\ Goto(r, "converted", "move")
  /\ UNCHANGED <<now, day, hour, readAt, result, lostRace, dirVars, fileVars>>

\* file_exists() of the converted directory.
CheckConverted(r) ==
  /\ IF Slot(r) \in convertedDirs THEN Goto(r, "converted", "move")
                                  ELSE Goto(r, "converted", "makeConverted")
  /\ UNCHANGED <<now, day, hour, readAt, result, lostRace, dirVars, fileVars>>

\* mkdir() of the converted directory, which fails without its parent.
MakeConverted(r) ==
  /\ Goto(r, "makeConverted", "move")
  /\ convertedDirs' = convertedDirs \cup ({Slot(r)} \cap hourDirs)
  /\ UNCHANGED <<now, day, hour, readAt, result, lostRace, dayDirs, hourDirs,
                 fileVars>>

\* Mutant: the answer's code is set whatever move_uploaded_file() returned.
MoveUnchecked(r) ==
  /\ Goto(r, "move", "convert")
  /\ result' = [result EXCEPT ![r] = "OK"]
  /\ stored' = IF Slot(r) \in hourDirs THEN stored \cup {File(r)} ELSE stored
  /\ UNCHANGED <<now, day, hour, readAt, lostRace, dirVars, published, whole>>

\* move_uploaded_file(): the answer is decided here, before the conversion.
Move(r) ==
  /\ \/ /\ Slot(r) \in hourDirs
        /\ Goto(r, "move", "convert")
        /\ result' = [result EXCEPT ![r] = "OK"]
        /\ stored' = stored \cup {File(r)}
     \/ /\ r \in Faults \/ Slot(r) \notin hourDirs
        /\ Goto(r, "move", "answer")
        /\ result' = [result EXCEPT ![r] = "Failure"]
        /\ UNCHANGED stored
  /\ UNCHANGED <<now, day, hour, readAt, lostRace, dirVars, published, whole>>

\* shell_exec(): the command creates its output, or truncates the one there
\* is; without the converted directory it cannot.
BeginConversion(r) ==
  /\ IF Slot(r) \in convertedDirs
     THEN /\ Goto(r, "convert", "converting")
          /\ published' = published \cup {File(r)}
          /\ whole' = whole \ {File(r)}
     ELSE Goto(r, "convert", "answer") /\ UNCHANGED <<published, whole>>
  /\ UNCHANGED <<now, day, hour, readAt, result, lostRace, dirVars, stored>>

\* Another command is writing the same output.
Shared(r) == \E q \in Requests \ {r} : pc[q] = "converting" /\ File(q) = File(r)

\* The command ends: its output is complete unless another one truncated it
\* and still writes; or it fails, and what it wrote so far stays. The script
\* does not look at the difference.
EndConversion(r) ==
  /\ Goto(r, "converting", "answer")
  /\ \/ whole' = IF Shared(r) THEN whole ELSE whole \cup {File(r)}
     \/ r \in Faults /\ UNCHANGED whole
  /\ UNCHANGED <<now, day, hour, readAt, result, lostRace, dirVars, stored,
                 published>>

\* The log is appended to and the answer sent.
Answer(r) ==
  /\ Goto(r, "answer", "done")
  /\ UNCHANGED <<now, day, hour, readAt, result, lostRace, dirVars, fileVars>>
-----------------------------------------------------------------------------
Step(r) ==
  \/ ReadDay(r) \/ ReadHour(r)
  \/ CheckBase(r) \/ ScanPath(r) \/ MakeDay(r) \/ MakeHour(r)
  \/ CheckConverted(r) \/ MakeConverted(r)
  \/ Move(r) \/ BeginConversion(r) \/ EndConversion(r) \/ Answer(r)

Next == Tick \/ \E r \in Requests : Arrive(r) \/ Step(r)

Spec == Init /\ [][Next]_vars
-----------------------------------------------------------------------------
\* A request that was told "Success" has its picture in an existing directory,
\* whatever other requests did to the directories between its own tests and
\* its move (uploadfiles.php 47-62).
OkMeansStored ==
  \A r \in Requests :
    result[r] = "OK" => File(r) \in stored /\ Slot(r) \in hourDirs

\* Whatever the gallery may list is a conversion of an upload that was moved
\* to the same hour (uploadfiles.php 58-78).
PublishedWasStored == published \subseteq stored

\* Unless a call of its own fails, a picture is refused only after its request
\* lost a race for the day's directory to another one, so never when requests
\* do not overlap (uploadfiles.php 49-51).
RefusedOnlyByRace ==
  \A r \in Requests \ Faults :
    result[r] = "Failure" => lostRace[r] /\ \E q \in Requests : q # r /\ day[q] = day[r]

\* Once all requests are answered, an accepted picture is in the gallery,
\* complete, although several requests may have written it: unless a race was
\* lost, or another accepted request that carried it had its conversion fail
\* (uploadfiles.php 53-79).
SettledGalleryIsWhole ==
  (\A r \in Requests : pc[r] \in {"idle", "done"} /\ ~lostRace[r]) =>
    \A r \in Requests :
      result[r] = "OK" => \/ File(r) \in whole
                         \/ \E q \in Faults : result[q] = "OK" /\ File(q) = File(r)
=============================================================================
