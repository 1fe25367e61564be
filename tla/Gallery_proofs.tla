--------------------------- MODULE Gallery_proofs ---------------------------
(***************************************************************************)
(* Proofs about UploadScript and Gallery, which extends it: for every      *)
(* number of requests, overlapping or not, with and without faults, and    *)
(* for every length of a day.                                              *)
(***************************************************************************)
EXTENDS Gallery, SequenceTheorems, FiniteSetTheorems, WellFoundedInduction, TLAPS

\* Where a request has read both dates and passed the day's directory.
PastDay == {"makeHour", "converted", "makeConverted", "move", "convert",
            "converting", "answer", "done"}

\* Where it has passed the hour's directory and not yet moved its file.
PastHour == {"converted", "makeConverted", "move"}

\* The answer is decided by the move, not before.
Undecided(r) == pc[r] \notin {"convert", "converting", "answer", "done"}

\* A decided request, its file and its conversion belong together.
Decisions ==
  \A r \in Requests :
    /\ Undecided(r) => result[r] = "none"
    /\ pc[r] \in {"convert", "converting"} => result[r] = "OK"
    /\ pc[r] = "converting" => File(r) \in published

\* Somebody made each day's directory, and went on from there.
DaysHaveMakers ==
  \A d \in dayDirs : \E q \in Requests : pc[q] \in PastDay /\ day[q] = d

\* Who goes on without a directory for its hour lost a race, to somebody else.
Races ==
  \A r \in Requests :
    /\ pc[r] \in PastHour => Slot(r) \in hourDirs \/ lostRace[r]
    /\ lostRace[r] =>
         /\ pc[r] \in PastDay
         /\ \E q \in Requests : q # r /\ pc[q] \in PastDay /\ day[q] = day[r]
    /\ r \notin Faults /\ result[r] = "Failure" => lostRace[r]

Inv1 == TypeOK /\ Decisions /\ OkMeansStored /\ PublishedWasStored
Inv2 == DaysHaveMakers /\ Races

\* Before any request there is nothing to explain.
LEMMA InitInv == Init => Inv1 /\ Inv2
<1> SUFFICES ASSUME Init PROVE Inv1 /\ Inv2
  OBVIOUS
<1>1. 0 \in Clock /\ DayOf(0) = 0 /\ HourOf(0) = 0
  BY ClockAssumption DEF Clock, DayOf, HourOf
<1>2. 0 \in Days /\ 0 \in Hours
  BY <1>1 DEF Days, Hours
<1>3. TypeOK
  BY <1>1, <1>2 DEF Init, TypeOK, States, Results
<1>4. Inv1
  BY <1>3 DEF Init, Inv1, Decisions, Undecided, OkMeansStored, PublishedWasStored
<1> QED
  BY <1>4 DEF Init, Inv2, DaysHaveMakers, Races, PastHour

\* What every step of a request leaves alone: the other requests, and what is
\* on the disk.
OthersStay(r) ==
  \A q \in Requests \ {r} :
    /\ pc'[q] = pc[q] /\ day'[q] = day[q] /\ hour'[q] = hour[q]
    /\ result'[q] = result[q] /\ lostRace'[q] = lostRace[q]
DiskGrows ==
  /\ hourDirs \subseteq hourDirs' /\ stored \subseteq stored'
  /\ published \subseteq published'

\* What date() returns.
LEMMA ClockTypes ==
  ASSUME TypeOK
  PROVE  DayOf(now) \in Days /\ HourOf(now) \in Hours
  BY DEF TypeOK, Days, Hours

\* Where a request may put its file.
LEMMA FileTypes ==
  ASSUME TypeOK, NEW r \in Requests
  PROVE  Slot(r) \in Slots /\ File(r) \in Files
  BY DEF TypeOK, Slot, File, Slots, Files, Pictures

\* A step of a request is typed, and disturbs neither the others nor the disk.
LEMMA StepFrame ==
  ASSUME Inv1, NEW r \in Requests, Arrive(r) \/ Step(r)
  PROVE  TypeOK' /\ OthersStay(r) /\ DiskGrows
<1> USE DEF Inv1, dirVars, fileVars, OthersStay, DiskGrows, States
<1>1. CASE Arrive(r)
  BY <1>1 DEF Arrive, Goto, TypeOK, Results
<1>2. CASE ReadDay(r)
  BY <1>2, ClockTypes DEF ReadDay, Goto, TypeOK
<1>3. CASE ReadHour(r)
  BY <1>3, ClockTypes DEF ReadHour, Goto, TypeOK
<1>4. CASE CheckBase(r) \/ ScanPath(r) \/ CheckConverted(r) \/ Answer(r)
  BY <1>4 DEF CheckBase, ScanPath, CheckConverted, Answer, Goto, TypeOK
<1>5. CASE MakeDay(r)
  <2>1. dayDirs' \subseteq Days
    BY <1>5 DEF MakeDay, TypeOK
  <2>2. lostRace' \in [Requests -> BOOLEAN]
        /\ \A q \in Requests \ {r} : lostRace'[q] = lostRace[q]
    BY <1>5 DEF MakeDay, TypeOK
  <2>3. pc' \in [Requests -> States]
        /\ \A q \in Requests \ {r} : pc'[q] = pc[q]
    BY <1>5 DEF MakeDay, Goto, TypeOK
  <2>4. UNCHANGED <<now, day, hour, readAt, result, hourDirs, convertedDirs,
                    fileVars>>
    BY <1>5 DEF MakeDay
  <2> QED
    BY <2>1, <2>2, <2>3, <2>4 DEF TypeOK
<1>6. CASE MakeHour(r) \/ MakeConverted(r)
  BY <1>6, FileTypes DEF MakeHour, MakeConverted, Goto, TypeOK
<1>7. CASE Move(r)
  BY <1>7, FileTypes DEF Move, Goto, TypeOK, Results
<1>8. CASE BeginConversion(r)
  BY <1>8, FileTypes DEF BeginConversion, Goto, TypeOK
<1>9. CASE EndConversion(r)
  <2>1. File(r) \in published
    BY <1>9 DEF EndConversion, Goto, Decisions
  <2> QED
    BY <1>9, <2>1 DEF EndConversion, Goto, TypeOK
<1> QED
  BY <1>1, <1>2, <1>3, <1>4, <1>5, <1>6, <1>7, <1>8, <1>9 DEF Step

\* A step that leaves the others and the disk alone keeps Inv1 if it keeps it
\* for its own request.
LEMMA KeepInv1 ==
  ASSUME Inv1, NEW r \in Requests, TypeOK', OthersStay(r), DiskGrows,
         published' \subseteq stored',
         Undecided(r)' => result'[r] = "none",
         pc'[r] \in {"convert", "converting"} => result'[r] = "OK",
         pc'[r] = "converting" => File(r)' \in published',
         result'[r] = "OK" => File(r)' \in stored' /\ Slot(r)' \in hourDirs'
  PROVE  Inv1'
<1>1. ASSUME NEW q \in Requests, q # r
      PROVE  /\ pc'[q] = pc[q] /\ result'[q] = result[q]
             /\ Slot(q)' = Slot(q) /\ File(q)' = File(q)
  BY <1>1 DEF OthersStay, Slot, File
<1>2. Decisions'
  BY <1>1 DEF Inv1, Decisions, Undecided, DiskGrows
<1>3. OkMeansStored'
  BY <1>1 DEF Inv1, OkMeansStored, DiskGrows
<1> QED
  BY <1>2, <1>3 DEF Inv1, PublishedWasStored

\* Every step of a request keeps Inv1.
LEMMA StepInv1 ==
  ASSUME Inv1, NEW r \in Requests, Arrive(r) \/ Step(r) PROVE Inv1'
<1> USE DEF Undecided, dirVars, fileVars
<1>1. TypeOK' /\ OthersStay(r) /\ DiskGrows
  BY StepFrame
<1>2. TypeOK /\ Decisions /\ OkMeansStored /\ PublishedWasStored
  BY DEF Inv1
<1>3. CASE Arrive(r)
  <2>1. Slot(r)' = Slot(r) /\ File(r)' = File(r) /\ result[r] = "none"
    BY <1>2, <1>3 DEF Arrive, Goto, Slot, File, Decisions
  <2>2. pc'[r] \in {"day", "answer"} /\ result'[r] \in {"none", "no files!"}
        /\ (pc'[r] = "day" => result'[r] = "none")
    BY <1>2, <1>3, <2>1 DEF Arrive, Goto, TypeOK
  <2>3. published' \subseteq stored'
    BY <1>2, <1>3 DEF Arrive, PublishedWasStored
  <2> QED
    BY <1>1, <2>2, <2>3, KeepInv1
<1>4. CASE ReadDay(r) \/ ReadHour(r) \/ CheckBase(r) \/ ScanPath(r)
           \/ MakeDay(r) \/ MakeHour(r) \/ CheckConverted(r) \/ MakeConverted(r)
  <2>1. result[r] = "none" /\ result' = result
    BY <1>2, <1>4 DEF ReadDay, ReadHour, CheckBase, ScanPath, MakeDay, MakeHour,
                      CheckConverted, MakeConverted, Goto, Decisions
  <2>2. pc'[r] \in {"hour", "base", "scan", "makeDay", "makeHour", "converted",
                    "makeConverted", "move"}
    BY <1>2, <1>4 DEF ReadDay, ReadHour, CheckBase, ScanPath, MakeDay, MakeHour,
                      CheckConverted, MakeConverted, Goto, TypeOK
  <2>3. published' \subseteq stored'
    BY <1>2, <1>4 DEF ReadDay, ReadHour, CheckBase, ScanPath, MakeDay, MakeHour,
                      CheckConverted, MakeConverted, PublishedWasStored
  <2> QED
    BY <1>1, <2>1, <2>2, <2>3, KeepInv1
<1>5. CASE Move(r)
  <2>1. Slot(r)' = Slot(r) /\ File(r)' = File(r) /\ hourDirs' = hourDirs
    BY <1>5 DEF Move, Slot, File
  <2>2. published' \subseteq stored'
    BY <1>2, <1>5 DEF Move, PublishedWasStored
  <2>3. CASE pc'[r] = "convert"
    <3>1. result'[r] = "OK" /\ File(r) \in stored' /\ Slot(r) \in hourDirs
      BY <1>2, <1>5, <2>3 DEF Move, Goto, TypeOK
    <3> QED
      BY <1>1, <2>1, <2>2, <2>3, <3>1, KeepInv1
  <2>4. CASE pc'[r] = "answer"
    <3>1. result'[r] = "Failure"
      BY <1>2, <1>5, <2>4 DEF Move, Goto, TypeOK
    <3> QED
      BY <1>1, <2>2, <2>4, <3>1, KeepInv1
  <2> QED
    BY <1>2, <1>5, <2>3, <2>4 DEF Move, Goto, TypeOK
<1>6. CASE BeginConversion(r) \/ EndConversion(r) \/ Answer(r)
  <2>1. Slot(r)' = Slot(r) /\ File(r)' = File(r) /\ hourDirs' = hourDirs
        /\ stored' = stored /\ result' = result
    BY <1>6 DEF BeginConversion, EndConversion, Answer, Slot, File
  <2>2. pc'[r] \in {"converting", "answer", "done"}
    BY <1>2, <1>6 DEF BeginConversion, EndConversion, Answer, Goto, TypeOK
  <2>3. pc'[r] = "converting" =>
          result[r] = "OK" /\ File(r) \in published'
    BY <1>2, <1>6 DEF BeginConversion, EndConversion, Answer, Goto, TypeOK,
                      Decisions
  <2>4. BeginConversion(r) => File(r) \in stored
    BY <1>2 DEF BeginConversion, Goto, Decisions, OkMeansStored
  <2>5. published' \subseteq stored'
    BY <1>2, <1>6, <2>4 DEF BeginConversion, EndConversion, Answer,
                            PublishedWasStored
  <2>6. result'[r] = "OK" => File(r)' \in stored' /\ Slot(r)' \in hourDirs'
    BY <1>2, <2>1 DEF OkMeansStored
  <2> QED
    BY <1>1, <2>1, <2>2, <2>3, <2>5, <2>6, KeepInv1
<1> QED
  BY <1>3, <1>4, <1>5, <1>6 DEF Step

\* Inv1 is inductive.
LEMMA NextInv1 == Inv1 /\ [Next]_vars => Inv1'
<1> SUFFICES ASSUME Inv1, [Next]_vars PROVE Inv1'
  OBVIOUS
<1> USE DEF vars, requestVars, dirVars, fileVars
<1>1. ASSUME now' \in Clock, UNCHANGED <<requestVars, dirVars, fileVars>>
      PROVE  Inv1'
  BY <1>1 DEF Inv1, TypeOK, Decisions, Undecided, OkMeansStored,
              PublishedWasStored, Slot, File
<1>2. CASE Tick
  BY <1>1, <1>2, ClockAssumption DEF Tick, Clock, Inv1, TypeOK
<1>3. CASE UNCHANGED vars
  BY <1>1, <1>3 DEF Inv1, TypeOK
<1> QED
  BY <1>2, <1>3, StepInv1 DEF Next

\* A step that leaves the others alone keeps Inv2 if it keeps it for its own
\* request, and makes a day's directory only to go on.
LEMMA KeepInv2 ==
  ASSUME Inv1, Inv2, NEW r \in Requests, OthersStay(r), DiskGrows,
         pc[r] \in PastDay => pc'[r] \in PastDay /\ day'[r] = day[r],
         dayDirs' \subseteq dayDirs \cup (IF pc'[r] \in PastDay THEN {day'[r]}
                                                             ELSE {}),
         pc'[r] \in PastHour => Slot(r)' \in hourDirs' \/ lostRace'[r],
         lostRace'[r] =>
           /\ pc'[r] \in PastDay
           /\ \E q \in Requests : q # r /\ pc[q] \in PastDay /\ day[q] = day'[r],
         r \notin Faults /\ result'[r] = "Failure" => lostRace'[r]
  PROVE  Inv2'
<1>1. ASSUME NEW q \in Requests, q # r
      PROVE  /\ pc'[q] = pc[q] /\ day'[q] = day[q] /\ result'[q] = result[q]
             /\ lostRace'[q] = lostRace[q] /\ Slot(q)' = Slot(q)
  BY <1>1 DEF OthersStay, Slot
<1>2. ASSUME NEW q \in Requests, pc[q] \in PastDay
      PROVE  pc'[q] \in PastDay /\ day'[q] = day[q]
  BY <1>1, <1>2
<1>3. DaysHaveMakers'
  <2>1. ASSUME NEW d \in dayDirs'
        PROVE  \E q \in Requests : pc'[q] \in PastDay /\ day'[q] = d
    <3>1. CASE d \in dayDirs
      BY <1>2, <3>1 DEF Inv2, DaysHaveMakers
    <3>2. CASE d \notin dayDirs
      BY <3>2, <2>1
    <3> QED
      BY <3>1, <3>2
  <2> QED
    BY <2>1 DEF DaysHaveMakers
<1>4. ASSUME NEW s \in Requests
      PROVE  /\ pc'[s] \in PastHour => Slot(s)' \in hourDirs' \/ lostRace'[s]
             /\ s \notin Faults /\ result'[s] = "Failure" => lostRace'[s]
  <2>1. CASE s = r
    BY <2>1
  <2>2. CASE s # r
    BY <2>2, <1>1 DEF Inv2, Races, DiskGrows
  <2> QED
    BY <2>1, <2>2
<1>5. ASSUME NEW s \in Requests, lostRace'[s]
      PROVE  /\ pc'[s] \in PastDay
             /\ \E q \in Requests :
                  q # s /\ pc'[q] \in PastDay /\ day'[q] = day'[s]
  <2>1. CASE s = r
    BY <1>2, <1>5, <2>1
  <2>2. CASE s # r
    <3>1. pc'[s] \in PastDay /\ day'[s] = day[s] /\ lostRace[s]
      BY <1>1, <1>5, <2>2 DEF Inv2, Races
    <3> QED
      BY <1>2, <3>1 DEF Inv2, Races
  <2> QED
    BY <2>1, <2>2
<1>6. Races'
  BY <1>4, <1>5 DEF Races
<1> QED
  BY <1>3, <1>6 DEF Inv2

\* Every step of a request keeps Inv2.
LEMMA StepInv2 ==
  ASSUME Inv1, Inv2, NEW r \in Requests, Arrive(r) \/ Step(r) PROVE Inv2'
<1> USE DEF PastDay, PastHour, dirVars, fileVars
<1>1. OthersStay(r) /\ DiskGrows
  BY StepFrame
<1>2. TypeOK /\ Decisions /\ Races /\ DaysHaveMakers
  BY DEF Inv1, Inv2
<1>3. lostRace[r] =>
        /\ pc[r] \in PastDay
        /\ \E q \in Requests : q # r /\ pc[q] \in PastDay /\ day[q] = day[r]
  BY <1>2 DEF Races
<1>4. CASE Arrive(r) \/ ReadDay(r) \/ ReadHour(r) \/ CheckBase(r) \/ ScanPath(r)
  <2>1. pc[r] \in {"idle", "day", "hour", "base", "scan"} /\ dayDirs' = dayDirs
        /\ lostRace' = lostRace /\ hourDirs' = hourDirs
    BY <1>4 DEF Arrive, ReadDay, ReadHour, CheckBase, ScanPath, Goto
  <2>2. ~lostRace'[r]
    BY <1>3, <2>1
  <2>3. result'[r] # "Failure"
    BY <1>2, <1>4, <2>1 DEF Arrive, ReadDay, ReadHour, CheckBase, ScanPath,
                            Decisions, Undecided, TypeOK
  <2>4. pc'[r] \in PastHour => Slot(r)' \in hourDirs'
    BY <1>2, <1>4 DEF Arrive, ReadDay, ReadHour, CheckBase, ScanPath, Goto,
                      TypeOK, Slot
  <2> QED
    BY <1>1, <2>1, <2>2, <2>3, <2>4, KeepInv2
<1>5. CASE MakeDay(r)
  <2>1. day' = day /\ result[r] = "none" /\ result' = result
        /\ dayDirs' = dayDirs \cup {day[r]} /\ hourDirs' = hourDirs
    BY <1>2, <1>5 DEF MakeDay, Goto, Decisions, Undecided
  <2>2. CASE day[r] \in dayDirs
    <3>1. pc[r] = "makeDay" /\ pc'[r] = "converted" /\ lostRace'[r] = TRUE
      BY <1>2, <1>5, <2>2 DEF MakeDay, Goto, TypeOK
    <3>2. \E q \in Requests : q # r /\ pc[q] \in PastDay /\ day[q] = day'[r]
      BY <1>2, <2>1, <2>2, <3>1 DEF DaysHaveMakers
    <3> QED
      BY <1>1, <2>1, <3>1, <3>2, KeepInv2
  <2>3. CASE day[r] \notin dayDirs
    <3>1. pc[r] = "makeDay" /\ pc'[r] = "makeHour" /\ lostRace' = lostRace
      BY <1>2, <1>5, <2>3 DEF MakeDay, Goto, TypeOK
    <3> QED
      BY <1>1, <1>3, <2>1, <3>1, KeepInv2
  <2> QED
    BY <2>2, <2>3
<1>6. CASE MakeHour(r) \/ CheckConverted(r) \/ MakeConverted(r)
  <2>1. pc[r] \in PastDay /\ pc'[r] \in PastDay /\ day' = day
        /\ dayDirs' = dayDirs /\ lostRace' = lostRace
    BY <1>2, <1>6 DEF MakeHour, CheckConverted, MakeConverted, Goto, TypeOK
  <2>2. result'[r] # "Failure"
    BY <1>2, <1>6 DEF MakeHour, CheckConverted, MakeConverted, Goto, Decisions,
                      Undecided
  <2>3. Slot(r)' = Slot(r)
    BY <1>6 DEF MakeHour, CheckConverted, MakeConverted, Slot
  <2>4. Slot(r) \in hourDirs' \/ lostRace[r]
    BY <1>2, <1>6 DEF MakeHour, CheckConverted, MakeConverted, Goto, Races
  <2> QED
    BY <1>1, <1>3, <2>1, <2>2, <2>3, <2>4, KeepInv2
<1>7. CASE Move(r) \/ BeginConversion(r) \/ EndConversion(r) \/ Answer(r)
  <2>1. pc[r] \in PastDay /\ pc'[r] \in PastDay \ PastHour /\ day' = day
        /\ dayDirs' = dayDirs /\ lostRace' = lostRace
    BY <1>2, <1>7 DEF Move, BeginConversion, EndConversion, Answer, Goto, TypeOK
  <2>2. ASSUME r \notin Faults, result'[r] = "Failure" PROVE lostRace[r]
    <3>1. CASE Move(r)
      BY <1>2, <2>2, <3>1 DEF Move, Goto, TypeOK, Races
    <3>2. CASE ~Move(r)
      BY <1>2, <1>7, <2>2, <3>2 DEF BeginConversion, EndConversion, Answer, Races
    <3> QED
      BY <3>1, <3>2
  <2> QED
    BY <1>1, <1>3, <2>1, <2>2, KeepInv2
<1> QED
  BY <1>4, <1>5, <1>6, <1>7 DEF Step

\* Inv2 is inductive where Inv1 holds.
LEMMA NextInv2 == Inv1 /\ Inv2 /\ [Next]_vars => Inv2'
<1> SUFFICES ASSUME Inv1, Inv2, [Next]_vars PROVE Inv2'
  OBVIOUS
<1>1. ASSUME UNCHANGED <<requestVars, dirVars, fileVars>> PROVE Inv2'
  BY <1>1 DEF Inv2, DaysHaveMakers, Races, Slot, requestVars, dirVars, fileVars
<1>2. CASE Tick \/ UNCHANGED vars
  BY <1>1, <1>2 DEF Tick, vars
<1> QED
  BY <1>2, StepInv2 DEF Next
-----------------------------------------------------------------------------
\* Who has passed the converted directory and lost no race finds it.
ConvertedIsThere ==
  \A r \in Requests :
    ~lostRace[r] /\ pc[r] \in {"move", "convert"} => Slot(r) \in convertedDirs

\* A file that an accepted request has converted is whole, or somebody is
\* writing it, or a request whose conversion may fail has had it in its hands.
InGoodHands(f) ==
  \/ f \in whole
  \/ \E q \in Requests : pc[q] = "converting" /\ File(q) = f
  \/ \E q \in Faults : result[q] = "OK" /\ File(q) = f
ConvertedIsWhole ==
  \A r \in Requests :
    ~lostRace[r] /\ result[r] = "OK" /\ pc[r] \in {"answer", "done"} => InGoodHands(File(r))

Inv3 == ConvertedIsThere /\ ConvertedIsWhole

\* A file in good hands stays there while another request does a step.
LEMMA KeepGoodHands ==
  ASSUME Inv1, NEW r \in Requests, Arrive(r) \/ Step(r),
         NEW f, InGoodHands(f)
  PROVE  InGoodHands(f)'
<1> USE DEF dirVars, fileVars
<1>1. TypeOK /\ Decisions /\ OthersStay(r)
  BY StepFrame DEF Inv1
<1>2. ASSUME NEW q \in Requests, q # r
      PROVE  pc'[q] = pc[q] /\ result'[q] = result[q] /\ File(q)' = File(q)
  BY <1>1, <1>2 DEF OthersStay, File, Slot
<1>3. result[r] = "OK" => result'[r] = "OK" /\ File(r)' = File(r)
  <2>1. result[r] = "OK" => pc[r] \in {"convert", "converting", "answer", "done"}
    BY <1>1 DEF Decisions, Undecided
  <2>2. result[r] = "OK" => BeginConversion(r) \/ EndConversion(r) \/ Answer(r)
    BY <2>1 DEF Step, Arrive, ReadDay, ReadHour, CheckBase, ScanPath, MakeDay, MakeHour,
                CheckConverted, MakeConverted, Move, Goto
  <2> QED
    BY <2>2 DEF BeginConversion, EndConversion, Answer, File, Slot
<1>4. CASE \E q \in Faults : result[q] = "OK" /\ File(q) = f
  BY <1>2, <1>3, <1>4, ScriptAssumption DEF InGoodHands
<1>5. CASE BeginConversion(r) /\ Slot(r) \in convertedDirs
  <2>1. pc'[r] = "converting" /\ File(r)' = File(r) /\ whole' = whole \ {File(r)}
    BY <1>1, <1>5 DEF BeginConversion, Goto, TypeOK, File, Slot
  <2>2. CASE f = File(r)
    BY <2>1, <2>2 DEF InGoodHands
  <2>3. CASE f # File(r)
    BY <1>2, <1>4, <2>1, <2>3 DEF InGoodHands
  <2> QED
    BY <2>2, <2>3
<1>6. CASE EndConversion(r)
  <2>1. pc[r] = "converting" /\ result[r] = "OK" /\ whole \subseteq whole'
    BY <1>1, <1>6 DEF EndConversion, Goto, Decisions
  <2>2. CASE f \in whole
    BY <2>1, <2>2 DEF InGoodHands
  <2>3. CASE \E q \in Requests \ {r} : pc[q] = "converting" /\ File(q) = f
    BY <1>2, <2>3 DEF InGoodHands
  <2>4. CASE f = File(r) /\ ~ \E q \in Requests \ {r} : pc[q] = "converting" /\ File(q) = f
    <3>1. ~Shared(r)
      BY <2>4 DEF Shared
    <3>2. CASE whole' = whole \cup {File(r)}
      BY <2>4, <3>2 DEF InGoodHands
    <3>3. CASE r \in Faults
      BY <1>3, <2>1, <2>4, <3>3 DEF InGoodHands
    <3> QED
      BY <1>6, <3>1, <3>2, <3>3 DEF EndConversion
  <2> QED
    BY <1>4, <2>2, <2>3, <2>4 DEF InGoodHands
<1>7. CASE ~EndConversion(r) /\ ~(BeginConversion(r) /\ Slot(r) \in convertedDirs)
  <2>1. whole' = whole /\ pc[r] # "converting"
    BY <1>7 DEF Step, Arrive, ReadDay, ReadHour, CheckBase, ScanPath, MakeDay, MakeHour,
                CheckConverted, MakeConverted, Move, BeginConversion, Answer, Goto
  <2> QED
    BY <1>2, <1>4, <2>1 DEF InGoodHands
<1> QED
  BY <1>5, <1>6, <1>7

\* Every step of a request keeps Inv3.
LEMMA StepInv3 ==
  ASSUME Inv1, Inv2, Inv3, NEW r \in Requests, Arrive(r) \/ Step(r) PROVE Inv3'
<1> USE DEF dirVars, fileVars
<1>1. TypeOK /\ Decisions /\ Races /\ OthersStay(r)
  BY StepFrame DEF Inv1, Inv2
<1>2. ASSUME NEW q \in Requests, q # r
      PROVE  /\ pc'[q] = pc[q] /\ result'[q] = result[q] /\ lostRace'[q] = lostRace[q]
             /\ Slot(q)' = Slot(q) /\ File(q)' = File(q)
  BY <1>1, <1>2 DEF OthersStay, File, Slot
<1>3. convertedDirs \subseteq convertedDirs'
  BY DEF Step, Arrive, ReadDay, ReadHour, CheckBase, ScanPath, MakeDay, MakeHour,
         CheckConverted, MakeConverted, Move, BeginConversion, EndConversion, Answer
<1>4. ~lostRace'[r] /\ pc'[r] \in {"move", "convert"} => Slot(r)' \in convertedDirs'
  <2> SUFFICES ASSUME ~lostRace'[r], pc'[r] \in {"move", "convert"}
               PROVE  Slot(r)' \in convertedDirs'
    OBVIOUS
  <2>1. CheckConverted(r) \/ MakeConverted(r) \/ Move(r)
    BY <1>1 DEF Step, Arrive, ReadDay, ReadHour, CheckBase, ScanPath, MakeDay, MakeHour,
                BeginConversion, EndConversion, Answer, Goto, TypeOK
  <2>2. Slot(r)' = Slot(r) /\ ~lostRace[r]
    BY <2>1 DEF CheckConverted, MakeConverted, Move, Slot
  <2>3. CASE CheckConverted(r)
    BY <1>1, <2>2, <2>3 DEF CheckConverted, Goto, TypeOK
  <2>4. CASE MakeConverted(r)
    BY <1>1, <2>2, <2>4 DEF MakeConverted, Goto, Races, PastHour
  <2>5. CASE Move(r)
    BY <1>3, <2>2, <2>5 DEF Move, Goto, Inv3, ConvertedIsThere
  <2> QED
    BY <2>1, <2>3, <2>4, <2>5
<1>5. ConvertedIsThere'
  BY <1>2, <1>3, <1>4 DEF Inv3, ConvertedIsThere
<1>6. ~lostRace'[r] /\ result'[r] = "OK" /\ pc'[r] \in {"answer", "done"}
        => InGoodHands(File(r))'
  <2> SUFFICES ASSUME ~lostRace'[r], result'[r] = "OK", pc'[r] \in {"answer", "done"}
               PROVE  InGoodHands(File(r))'
    OBVIOUS
  <2>1. BeginConversion(r) \/ EndConversion(r) \/ Answer(r)
    BY <1>1 DEF Step, Arrive, ReadDay, ReadHour, CheckBase, ScanPath, MakeDay, MakeHour,
                CheckConverted, MakeConverted, Move, Goto, TypeOK
  <2>2. File(r)' = File(r) /\ ~lostRace[r] /\ result[r] = "OK"
    BY <2>1 DEF BeginConversion, EndConversion, Answer, File, Slot
  <2>3. InGoodHands(File(r))
    <3>1. CASE BeginConversion(r)
      BY <1>1, <2>2, <3>1 DEF BeginConversion, Goto, Inv3, ConvertedIsThere, TypeOK
    <3>2. CASE EndConversion(r)
      BY <3>2 DEF EndConversion, Goto, InGoodHands
    <3>3. CASE Answer(r)
      BY <2>2, <3>3 DEF Answer, Goto, Inv3, ConvertedIsWhole
    <3> QED
      BY <2>1, <3>1, <3>2, <3>3
  <2>4. PICK f : f = File(r)
    OBVIOUS
  <2>5. InGoodHands(f)'
    BY <2>3, <2>4, KeepGoodHands
  <2> QED
    BY <2>2, <2>4, <2>5 DEF InGoodHands
<1>7. ConvertedIsWhole'
  <2> SUFFICES ASSUME NEW s \in Requests, ~lostRace'[s], result'[s] = "OK",
                      pc'[s] \in {"answer", "done"}, s # r
               PROVE  InGoodHands(File(s))'
    BY <1>6 DEF ConvertedIsWhole
  <2>1. InGoodHands(File(s)) /\ File(s)' = File(s)
    BY <1>2 DEF Inv3, ConvertedIsWhole
  <2> QED
    BY <2>1, KeepGoodHands DEF InGoodHands
<1> QED
  BY <1>5, <1>7 DEF Inv3

\* Inv3 is inductive where Inv1 and Inv2 hold.
LEMMA NextInv3 == Inv1 /\ Inv2 /\ Inv3 /\ [Next]_vars => Inv3'
<1> SUFFICES ASSUME Inv1, Inv2, Inv3, [Next]_vars PROVE Inv3'
  OBVIOUS
<1>1. ASSUME UNCHANGED <<requestVars, dirVars, fileVars>> PROVE Inv3'
  BY <1>1 DEF Inv3, ConvertedIsThere, ConvertedIsWhole, InGoodHands, File, Slot,
              requestVars, dirVars, fileVars
<1>2. CASE Tick \/ UNCHANGED vars
  BY <1>1, <1>2 DEF Tick, vars
<1> QED
  BY <1>2, StepInv3 DEF Next
-----------------------------------------------------------------------------
\* The invariants hold of every behaviour of the script.
THEOREM Invariance == Spec => [](Inv1 /\ Inv2 /\ Inv3)
<1>1. Init => Inv3
  BY DEF Init, Inv3, ConvertedIsThere, ConvertedIsWhole
<1> QED
  BY <1>1, InitInv, NextInv1, NextInv2, NextInv3, PTL DEF Spec

\* Type correctness of the script's state.
THEOREM TypeCorrect == Spec => []TypeOK
<1>1. Inv1 => TypeOK
  BY DEF Inv1
<1> QED
  BY <1>1, Invariance, PTL

\* A request that was told "Success" has its picture stored, however requests
\* interleave (uploadfiles.php 47-62).
THEOREM SuccessIsStored == Spec => []OkMeansStored
<1>1. Inv1 => OkMeansStored
  BY DEF Inv1
<1> QED
  BY <1>1, Invariance, PTL

\* The gallery never shows what was not received (uploadfiles.php 58-78).
THEOREM GalleryShowsUploads == Spec => []PublishedWasStored
<1>1. Inv1 => PublishedWasStored
  BY DEF Inv1
<1> QED
  BY <1>1, Invariance, PTL

\* Only a lost race for the day's directory costs a request without faults its
\* picture (uploadfiles.php 49-51).
THEOREM RefusalsAreRaces == Spec => []RefusedOnlyByRace
<1>1. Inv2 => RefusedOnlyByRace
  BY DEF Inv2, Races, RefusedOnlyByRace
<1> QED
  BY <1>1, Invariance, PTL

\* Once everything is answered, and unless a race was lost, every accepted
\* picture is in the gallery, complete, but for those of which a conversion
\* failed (uploadfiles.php 53-79).
THEOREM SettledGallery == Spec => []SettledGalleryIsWhole
<1>1. Inv1 /\ Inv3 => SettledGalleryIsWhole
  <2> SUFFICES ASSUME Inv1, Inv3,
                      \A r \in Requests : pc[r] \in {"idle", "done"} /\ ~lostRace[r],
                      NEW r \in Requests, result[r] = "OK"
               PROVE  \/ File(r) \in whole
                      \/ \E q \in Faults : result[q] = "OK" /\ File(q) = File(r)
    BY DEF SettledGalleryIsWhole
  <2>1. pc[r] = "done"
    BY DEF Inv1, Decisions, Undecided
  <2> QED
    BY <2>1 DEF Inv3, ConvertedIsWhole, InGoodHands
<1> QED
  BY <1>1, Invariance, PTL
-----------------------------------------------------------------------------
(* The gallery. *)

\* A set of natural numbers has a least one.
LEMMA NatMin ==
  ASSUME NEW T \in SUBSET Nat, T # {}
  PROVE  Min(T) \in T /\ \A k \in T : Min(T) <= k
<1> DEFINE R == OpToRel(<, Nat)
<1>1. IsWellFoundedOn(R, Nat)
  BY NatLessThanWellFounded, Zenon
<1>2. \A x, y \in Nat : <<y, x>> \in R <=> y < x
  BY DEF OpToRel
<1> HIDE DEF R
<1>3. PICK m \in T : \A k \in T : ~ (<<k, m>> \in R)
  BY <1>1, WFMin
<1>4. \A k \in T : m <= k
  <2> TAKE k \in T
  <2>1. m \in Nat /\ k \in Nat /\ ~ (k < m)
    BY <1>2, <1>3
  <2> QED
    BY <2>1
<1> QED
  BY <1>4 DEF Min

\* What a request was told, and its file, stay.
LEMMA OkIsFinal ==
  ASSUME Inv1, NEW r \in Requests, Arrive(r) \/ Step(r),
         NEW q \in Requests, result[q] = "OK"
  PROVE  result'[q] = "OK" /\ File(q)' = File(q)
<1>1. Decisions /\ OthersStay(r)
  BY StepFrame DEF Inv1
<1>2. CASE q # r
  BY <1>1, <1>2 DEF OthersStay, File, Slot
<1>3. CASE q = r
  <2>1. pc[r] \in {"convert", "converting", "answer", "done"}
    BY <1>1, <1>3 DEF Decisions, Undecided
  <2>2. BeginConversion(r) \/ EndConversion(r) \/ Answer(r)
    BY <2>1 DEF Step, Arrive, ReadDay, ReadHour, CheckBase, ScanPath, MakeDay, MakeHour,
                CheckConverted, MakeConverted, Move, Goto
  <2> QED
    BY <1>3, <2>2 DEF BeginConversion, EndConversion, Answer, File, Slot
<1> QED
  BY <1>2, <1>3

\* A stored upload was accepted, and lies in a directory the gallery can find.
StoredWasAccepted ==
  \A f \in stored :
    f[1] \in hourDirs /\ \E r \in Requests : result[r] = "OK" /\ File(r) = f

LEMMA NextStored == Inv1 /\ StoredWasAccepted /\ [Next]_vars => StoredWasAccepted'
<1> SUFFICES ASSUME Inv1, StoredWasAccepted, [Next]_vars PROVE StoredWasAccepted'
  OBVIOUS
<1> USE DEF dirVars, fileVars
<1>1. CASE Tick \/ UNCHANGED vars
  BY <1>1 DEF StoredWasAccepted, Tick, vars, requestVars, File, Slot
<1>2. CASE \E r \in Requests : Arrive(r) \/ Step(r)
  <2>1. PICK r \in Requests : Arrive(r) \/ Step(r)
    BY <1>2
  <2>2. DiskGrows
    BY <2>1, StepFrame
  <2>3. ASSUME NEW f \in stored', f \in stored
        PROVE  f[1] \in hourDirs' /\ \E q \in Requests : result'[q] = "OK" /\ File(q)' = f
    <3>1. PICK q \in Requests : result[q] = "OK" /\ File(q) = f
      BY <2>3 DEF StoredWasAccepted
    <3>2. result'[q] = "OK" /\ File(q)' = f
      BY <2>1, <3>1, OkIsFinal
    <3> QED
      BY <2>2, <2>3, <3>2 DEF StoredWasAccepted, DiskGrows
  <2>4. ASSUME NEW f \in stored', f \notin stored
        PROVE  f[1] \in hourDirs' /\ \E q \in Requests : result'[q] = "OK" /\ File(q)' = f
    <3>1. Move(r) /\ f = File(r) /\ Slot(r) \in hourDirs
      BY <2>1, <2>4 DEF Step, Arrive, ReadDay, ReadHour, CheckBase, ScanPath, MakeDay,
                        MakeHour, CheckConverted, MakeConverted, Move, BeginConversion,
                        EndConversion, Answer
    <3>2. result'[r] = "OK" /\ File(r)' = f /\ f[1] \in hourDirs'
      BY <2>4, <3>1 DEF Move, File, Slot, Inv1, TypeOK
    <3> QED
      BY <3>2
  <2> QED
    BY <2>3, <2>4 DEF StoredWasAccepted
<1> QED
  BY <1>1, <1>2 DEF Next

\* Hours and days are numbers.
LEMMA HoursAreNumbers == Hours \subseteq Nat /\ Days \subseteq Nat
<1>1. \A t \in Clock : t \in Nat
  BY ClockAssumption DEF Clock
<1>2. \A t \in Nat : t % HoursADay \in Nat /\ t \div HoursADay \in Nat
  BY ClockAssumption
<1> QED
  BY <1>1, <1>2 DEF Hours, Days, HourOf, DayOf

\* The names of a directory form a sequence, for there are finitely many.
LEMMA SortedNames ==
  ASSUME Inv1, StoredWasAccepted, NEW slot, NEW files \in ConvertedFiles(slot)
  PROVE  /\ files \in Seq(Files)
         /\ DOMAIN files = 1 .. Len(files)
         /\ ToSet(files) = {f \in published : f[1] = slot}
         /\ \A i, j \in DOMAIN files : i < j => files[i][2] < files[j][2]
<1> DEFINE T == {f \in published : f[1] = slot}
           R == {r \in Requests : File(r) \in T}
           name == [r \in R |-> File(r)]
<1>1. IsFiniteSet(R)
  <2>1. IsFiniteSet(Requests)
    BY RequestAssumption, FS_Interval DEF Requests
  <2>2. R \subseteq Requests
    OBVIOUS
  <2> QED
    BY <2>1, <2>2, FS_Subset
<1>2. \A f \in T : \E r \in R : name[r] = f
  BY DEF StoredWasAccepted, Inv1, PublishedWasStored
<1>3. name \in Surjection(R, T)
  BY <1>2 DEF Surjection
<1>4. IsFiniteSet(T)
  BY <1>1, <1>3, FS_Surjection
<1>5. Cardinality(T) \in Nat
  BY <1>4, FS_CardinalityType
<1> HIDE DEF R, name
<1>6. T \subseteq Files
  BY DEF Inv1, TypeOK
<1>7. /\ files \in [1 .. Cardinality(T) -> T]
      /\ ToSet(files) = T
      /\ \A i, j \in DOMAIN files : i < j => files[i][2] < files[j][2]
  BY DEF ConvertedFiles, Sorted
<1> HIDE DEF T
<1>8. files \in Seq(T) /\ Len(files) = Cardinality(T)
  BY <1>5, <1>7
<1>9. files \in Seq(Files)
  BY <1>6, <1>8, SeqMonotonic
<1> QED
  BY <1>7, <1>8, <1>9 DEF T

\* What is listed is published, of the day asked for, and of an hour whose
\* directory has been read; it is in order. What was published when the
\* listing began is listed, or its hour is still to come.
Earlier(f, g) ==
  \/ f[1][2] < g[1][2]
  \/ f[1] = g[1] /\ f[2] < g[2]
IsListed(f) ==
  f \in published /\ f[1][1] = listedDay /\ \A h \in hoursLeft : f[1][2] < h
ListingInv ==
  /\ GalleryTypeOK
  /\ reader = "idle" => listing = <<>>
  /\ \A i \in DOMAIN listing : IsListed(listing[i])
  /\ \A i, j \in DOMAIN listing : i < j => Earlier(listing[i], listing[j])
  /\ \A f \in before :
       f \in published /\ f[1][1] = listedDay /\ (f[1][2] \in hoursLeft \/ f \in Listed)

\* Uploads that go on meanwhile do not disturb a listing.
LEMMA UploadKeepsListing ==
  ASSUME Inv1, ListingInv, Next, UNCHANGED galleryVars PROVE ListingInv'
<1>1. TypeOK'
  BY NextInv1 DEF Inv1
<1>2. published \subseteq published'
  <2>1. CASE Tick
    BY <2>1 DEF Tick, fileVars
  <2>2. CASE \E r \in Requests : Arrive(r) \/ Step(r)
    BY <2>2, StepFrame DEF DiskGrows
  <2> QED
    BY <2>1, <2>2 DEF Next
<1>3. GalleryTypeOK'
  BY <1>1 DEF ListingInv, GalleryTypeOK, galleryVars
<1>4. \A f : IsListed(f) => IsListed(f)'
  BY <1>2 DEF IsListed, galleryVars
<1> QED
  BY <1>2, <1>3, <1>4 DEF ListingInv, galleryVars, Listed, Earlier

\* A listing begins.
LEMMA ListDayKeepsListing ==
  ASSUME Inv1, StoredWasAccepted, ListingInv, NEW d \in Days, ListDay(d)
  PROVE  ListingInv'
<1> USE DEF Inv1, TypeOK
<1>1. GalleryTypeOK'
  BY EmptySeq DEF ListDay, GalleryTypeOK, ListingInv, vars, requestVars, dirVars,
                  fileVars, PublishedOn
<1>2. DOMAIN listing' = {}
  BY EmptySeq DEF ListDay
<1>3. ASSUME NEW f \in before' PROVE f \in published /\ f[1][1] = d /\ f[1][2] \in hoursLeft'
  <2>1. f \in published /\ f[1][1] = d
    BY <1>3 DEF ListDay, PublishedOn
  <2>2. f[1] \in hourDirs /\ f[1] \in Days \X Hours
    BY <2>1 DEF StoredWasAccepted, PublishedWasStored, Files, Slots
  <2>3. f[1] = <<d, f[1][2]>> /\ f[1][2] \in Hours
    BY <2>1, <2>2
  <2> QED
    BY <2>1, <2>2, <2>3 DEF ListDay
<1> QED
  BY <1>1, <1>2, <1>3 DEF ListDay, ListingInv, vars, fileVars

\* The directory of the next hour is read.
LEMMA ListHourKeepsListing ==
  ASSUME Inv1, StoredWasAccepted, ListingInv, ListHour PROVE ListingInv'
<1> DEFINE h == NextHour
           slot == <<listedDay, h>>
<1>1. PICK files \in ConvertedFiles(slot) : listing' = listing \o files
  BY DEF ListHour
<1>2. /\ files \in Seq(Files) /\ listing \in Seq(Files)
      /\ DOMAIN files = 1 .. Len(files) /\ DOMAIN listing = 1 .. Len(listing)
      /\ Len(files) \in Nat /\ Len(listing) \in Nat
      /\ ToSet(files) = {f \in published : f[1] = slot}
      /\ \A i, j \in DOMAIN files : i < j => files[i][2] < files[j][2]
  BY <1>1, SortedNames, LenProperties DEF ListingInv, GalleryTypeOK
<1>3. h \in hoursLeft /\ hoursLeft \subseteq Nat /\ \A k \in hoursLeft : h <= k
  BY NatMin, HoursAreNumbers DEF ListHour, NextHour, ListingInv, GalleryTypeOK
<1> HIDE DEF h, slot
<1>4. /\ listing' \in Seq(Files)
      /\ DOMAIN listing' = 1 .. Len(listing) + Len(files)
      /\ \A i \in 1 .. Len(listing) + Len(files) :
           listing'[i] = IF i <= Len(listing) THEN listing[i] ELSE files[i - Len(listing)]
  <2>1. /\ listing \o files \in Seq(Files)
        /\ Len(listing \o files) = Len(listing) + Len(files)
        /\ \A i \in 1 .. Len(listing) + Len(files) :
           (listing \o files)[i] = IF i <= Len(listing) THEN listing[i] ELSE files[i - Len(listing)]
    BY <1>2, ConcatProperties
  <2> QED
    BY <1>1, <2>1, LenProperties
<1>5. /\ UNCHANGED <<reader, listedDay, before, vars>>
      /\ reader = "scanning" /\ hoursLeft' = hoursLeft \ {h}
  BY DEF ListHour, h
<1>6. \A i \in DOMAIN files : files[i] \in published /\ files[i][1] = slot
  BY <1>2 DEF ToSet
<1>7. GalleryTypeOK'
  BY <1>4, <1>5 DEF ListingInv, GalleryTypeOK, TypeOK, vars, requestVars, dirVars, fileVars
<1>8. ASSUME NEW i \in DOMAIN listing' PROVE IsListed(listing[i])'
  <2>1. published' = published /\ listedDay' = listedDay
    BY <1>5 DEF vars, fileVars
  <2>2. CASE i <= Len(listing)
    <3>1. IsListed(listing[i]) /\ listing'[i] = listing[i]
      BY <1>2, <1>4, <2>2, <1>8 DEF ListingInv
    <3> QED
      BY <1>5, <2>1, <3>1 DEF IsListed
  <2>3. CASE i > Len(listing)
    <3>1. i - Len(listing) \in DOMAIN files /\ listing'[i] = files[i - Len(listing)]
      BY <1>2, <1>4, <1>8, <2>3
    <3>2. listing'[i] \in published /\ listing'[i][1] = slot
      BY <1>6, <3>1
    <3>3. listing'[i][1][1] = listedDay /\ listing'[i][1][2] = h
      BY <3>2 DEF slot
    <3>4. \A k \in hoursLeft \ {h} : h < k
      BY <1>3
    <3> QED
      BY <1>5, <2>1, <3>2, <3>3, <3>4 DEF IsListed
  <2> QED
    BY <1>2, <1>4, <2>2, <2>3
<1>9. ASSUME NEW i \in DOMAIN listing', NEW j \in DOMAIN listing', i < j
      PROVE  Earlier(listing'[i], listing'[j])
  <2>1. CASE j <= Len(listing)
    BY <1>2, <1>4, <1>9, <2>1 DEF ListingInv
  <2>2. CASE i > Len(listing)
    <3>1. /\ i - Len(listing) \in DOMAIN files /\ j - Len(listing) \in DOMAIN files
          /\ i - Len(listing) < j - Len(listing)
          /\ listing'[i] = files[i - Len(listing)]
          /\ listing'[j] = files[j - Len(listing)]
      BY <1>2, <1>4, <1>9, <2>2
    <3> QED
      BY <1>2, <1>6, <3>1 DEF Earlier
  <2>3. CASE i <= Len(listing) /\ j > Len(listing)
    <3>1. IsListed(listing[i]) /\ listing'[i] = listing[i]
      BY <1>2, <1>4, <2>3, <1>9 DEF ListingInv
    <3>2. j - Len(listing) \in DOMAIN files /\ listing'[j] = files[j - Len(listing)]
      BY <1>2, <1>4, <1>9, <2>3
    <3>3. listing'[j][1][2] = h
      BY <1>6, <3>2 DEF slot
    <3> QED
      BY <1>3, <3>1, <3>3 DEF IsListed, Earlier
  <2> QED
    BY <1>2, <1>4, <2>1, <2>2, <2>3
<1>10. Listed \cup ToSet(files) \subseteq Listed'
  <2>1. ASSUME NEW i \in DOMAIN listing PROVE listing[i] \in Listed'
    <3>1. i \in DOMAIN listing' /\ listing'[i] = listing[i]
      BY <1>2, <1>4, <2>1
    <3> QED
      BY <3>1 DEF Listed, ToSet
  <2>2. ASSUME NEW i \in DOMAIN files PROVE files[i] \in Listed'
    <3>1. i + Len(listing) \in DOMAIN listing' /\ listing'[i + Len(listing)] = files[i]
      BY <1>2, <1>4, <2>2
    <3> QED
      BY <3>1 DEF Listed, ToSet
  <2> QED
    BY <2>1, <2>2 DEF Listed, ToSet
<1>11. ASSUME NEW f \in before'
       PROVE  /\ f \in published' /\ f[1][1] = listedDay'
              /\ f[1][2] \in hoursLeft' \/ f \in Listed'
  <2>1. /\ f \in published /\ f[1][1] = listedDay
        /\ f[1][2] \in hoursLeft \/ f \in Listed
    BY <1>5, <1>11 DEF ListingInv
  <2>2. f[1][2] = h => f[1] = slot
    BY <2>1 DEF slot, Inv1, TypeOK, Files, Slots
  <2>3. f[1] = slot => f \in ToSet(files)
    BY <1>2, <2>1
  <2> QED
    BY <1>5, <1>10, <2>1, <2>2, <2>3 DEF vars, fileVars
<1> QED
  BY <1>5, <1>7, <1>8, <1>9, <1>11 DEF ListingInv, Earlier

\* The invariants hold of the gallery, whatever is uploaded while it lists.
THEOREM GalleryInvariance ==
  GallerySpec => [](Inv1 /\ Inv2 /\ Inv3 /\ StoredWasAccepted /\ ListingInv)
<1> DEFINE Inv == Inv1 /\ Inv2 /\ Inv3 /\ StoredWasAccepted /\ ListingInv
<1>1. GalleryInit => Inv
  <2> SUFFICES ASSUME GalleryInit PROVE Inv
    OBVIOUS
  <2>1. Inv1 /\ Inv2 /\ Inv3 /\ StoredWasAccepted
    BY InitInv DEF GalleryInit, Init, Inv3, ConvertedIsThere, ConvertedIsWhole,
                   StoredWasAccepted
  <2>2. 0 \in Clock /\ DayOf(0) = 0
    BY ClockAssumption DEF Clock, DayOf
  <2>3. 0 \in Days
    BY <2>2 DEF Days
  <2> QED
    BY <2>1, <2>3, EmptySeq DEF GalleryInit, ListingInv, GalleryTypeOK, Inv1
<1>2. Inv /\ [GalleryNext]_<<vars, galleryVars>> => Inv'
  <2> SUFFICES ASSUME Inv, [GalleryNext]_<<vars, galleryVars>> PROVE Inv'
    OBVIOUS
  <2>1. [Next]_vars
    BY DEF GalleryNext, ListDay, ListHour, AnswerListing
  <2>2. Inv1' /\ Inv2' /\ Inv3' /\ StoredWasAccepted'
    BY <2>1, NextInv1, NextInv2, NextInv3, NextStored
  <2>3. CASE Next /\ UNCHANGED galleryVars
    BY <2>2, <2>3, UploadKeepsListing
  <2>4. CASE \E d \in Days : ListDay(d)
    BY <2>2, <2>4, ListDayKeepsListing
  <2>5. CASE ListHour
    BY <2>2, <2>5, ListHourKeepsListing
  <2>6. CASE AnswerListing
    <3>1. 0 \in Clock /\ DayOf(0) = 0
      BY ClockAssumption DEF Clock, DayOf
    <3>2. 0 \in Days
      BY <3>1 DEF Days
    <3> QED
      BY <2>2, <2>6, <3>2, EmptySeq DEF AnswerListing, ListingInv, GalleryTypeOK, Inv1
  <2>7. CASE UNCHANGED <<vars, galleryVars>>
    BY <2>2, <2>7 DEF ListingInv, GalleryTypeOK, Listed, Inv1, IsListed, Earlier,
                      galleryVars, vars, fileVars
  <2> QED
    BY <2>3, <2>4, <2>5, <2>6, <2>7 DEF GalleryNext
<1> QED
  BY <1>1, <1>2, PTL DEF GallerySpec

\* Type correctness of the gallery's state.
THEOREM GalleryTypeCorrect == GallerySpec => []GalleryTypeOK
<1>1. ListingInv => GalleryTypeOK
  BY DEF ListingInv
<1> QED
  BY <1>1, GalleryInvariance, PTL

\* An answer misses nothing published before it was asked for, and lists
\* nothing that is not published, although it reads one directory after
\* another while uploads go on (files.php 17-36).
THEOREM ListingsAreCurrent == GallerySpec => ListingIsCurrent
<1>1. ListingInv => (AnswerListing => before \subseteq Listed /\ Listed \subseteq published)
  BY DEF ListingInv, AnswerListing, Listed, ToSet, IsListed
<1> QED
  BY <1>1, GalleryInvariance, PTL DEF ListingIsCurrent

\* Every listing is in the order of capture unless an accepted picture is
\* misfiled or requests overtook each other (files.php 17-36, uploadfiles.php
\* 47).
THEOREM ListingsAreChronological == GallerySpec => []ChronologicalUnlessMisfiled
<1>1. Inv1 /\ StoredWasAccepted /\ ListingInv => ChronologicalUnlessMisfiled
  <2> SUFFICES ASSUME Inv1, StoredWasAccepted, ListingInv,
                      \A r \in Accepted : ~Misfiled(r),
                      \A q, r \in Accepted : q < r => readAt[q] <= readAt[r],
                      NEW i \in DOMAIN listing, NEW j \in DOMAIN listing, i < j
               PROVE  listing[i][2] <= listing[j][2]
    BY DEF ChronologicalUnlessMisfiled, InOrder
  <2> DEFINE f == listing[i]
             g == listing[j]
  <2>1. f \in stored /\ g \in stored /\ f[1][1] = g[1][1] /\ Earlier(f, g)
    BY DEF ListingInv, IsListed, Inv1, PublishedWasStored
  <2>2. PICK q \in Accepted : File(q) = f
    BY <2>1 DEF StoredWasAccepted, Accepted
  <2>3. PICK r \in Accepted : File(r) = g
    BY <2>1 DEF StoredWasAccepted, Accepted
  <2> HIDE DEF f, g
  <2>4. /\ f[1][1] = day[q] /\ f[1][2] = hour[q] /\ f[2] = PictureOf[q]
        /\ g[1][1] = day[r] /\ g[1][2] = hour[r] /\ g[2] = PictureOf[r]
    BY <2>2, <2>3 DEF File, Slot
  <2>5. q \in Requests /\ r \in Requests
    BY DEF Accepted
  <2>6. PictureOf[q] \in Nat /\ PictureOf[r] \in Nat
    BY <2>5, RequestAssumption
  <2>7. CASE f[1] = g[1] /\ f[2] < g[2]
    BY <2>4, <2>6, <2>7 DEF f, g
  <2>8. CASE f[1][2] < g[1][2]
    <3>1. day[q] * HoursADay + hour[q] = readAt[q] /\ day[r] * HoursADay + hour[r] = readAt[r]
      BY DEF Misfiled
    <3>2. day[q] = day[r] /\ hour[q] < hour[r]
      BY <2>1, <2>4, <2>8
    <3>3. hour[q] \in Nat /\ hour[r] \in Nat /\ day[q] \in Nat
      BY <2>5, HoursAreNumbers DEF Inv1, TypeOK
    <3>4. readAt[q] < readAt[r] /\ readAt[q] \in Nat /\ readAt[r] \in Nat
      BY <3>1, <3>2, <3>3, ClockAssumption
    <3>5. q < r
      BY <2>5, <3>4, RequestAssumption DEF Requests
    <3> QED
      BY <2>4, <2>5, <3>5, RequestAssumption DEF f, g
  <2> QED
    BY <2>1, <2>7, <2>8 DEF Earlier
<1> QED
  BY <1>1, GalleryInvariance, PTL
=============================================================================
