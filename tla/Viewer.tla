------------------------------- MODULE Viewer -------------------------------
(***************************************************************************)
(* Web/client/gosky.js: the player of the web viewer, from the three       *)
(* requests that fetch the list of pictures to the buttons, the slider and *)
(* the interval timer that move through it. JavaScript runs one callback   *)
(* at a time, so each callback is one action.                              *)
(***************************************************************************)
EXTENDS Integers

CONSTANTS
  MaxFiles,   \* bound on the number of pictures of a day
  MaxIndex,   \* bound on the index before there are pictures to clamp it
  Starts      \* values of the page's ?start= parameter

ASSUME FilesAssumption == MaxFiles \in Nat \ {0}
ASSUME IndexAssumption == MaxIndex \in Nat /\ Starts \subseteq Int

VARIABLES
  loading,   \* the request of the chain that is to be answered next
  count,     \* _filesArray.length; 0 while _filesArray is null
  index,     \* _currentImageIndex
  playing,   \* _isPlaying; the interval timer is set
  shown,     \* the picture in the page, -1 for the placeholder
  slider,    \* the slider's value, -1 while there is no slider
  label      \* "Showing <label> of ..."

vars == <<loading, count, index, playing, shown, slider, label>>

TypeOK ==
  /\ loading \in {"keys", "directories", "files", "ended"}
  /\ count \in 0 .. MaxFiles
  /\ index \in Int
  /\ playing \in BOOLEAN
  /\ shown \in -1 .. count - 1
  /\ slider \in -1 .. count - 1
  /\ label \in 0 .. count

Init ==
  /\ loading = "keys"
  /\ count = 0 /\ index = 0
  /\ playing = FALSE
  /\ shown = -1 /\ slider = -1 /\ label = 0
-----------------------------------------------------------------------------
\* The index changeImageSrc() settles on among n pictures.
Clamp(i, n) == IF i < 0 THEN 0 ELSE IF i >= n THEN n - 1 ELSE i

\* The slider widget trims the value it is given to its own range.
SliderTrim(i, n) == IF i < 0 THEN 0 ELSE IF i > n - 1 THEN n - 1 ELSE i

\* Mutant: a tick moves on by two.
AdvanceTwice(k) == IF playing THEN k + 2 ELSE k

\* Mutant: the player does not move on.
NoAdvance(k) == k

\* While it plays, the index runs one ahead of the picture.
Advance(k) == IF playing THEN k + 1 ELSE k

\* Mutant: the player is not stopped at the last picture.
StopsNever(k, n) == FALSE

\* The picture after the last one is the end of the show.
StopsAt(k, n) == k = n

\* Mutant: the slider is left where it was.
SliderStays(i, n) == slider

\* The slider's value for an index that is not clamped yet.
SliderValue(i, n) == SliderTrim(i, n)

\* changeImageSrc() with n pictures and the index at i: without pictures an
\* alert, and the player stops.
ChangeImageSrc(i, n) ==
  IF n = 0
  THEN index' = i /\ playing' = FALSE /\ UNCHANGED <<shown, slider, label>>
  ELSE LET k    == Clamp(i, n)
           next == Advance(k)
       IN  /\ shown' = k
           /\ slider' = SliderValue(i, n)
           /\ playing' = (playing /\ ~StopsAt(next, n))
           /\ index' = IF StopsAt(next, n) THEN next - 1 ELSE next
           /\ label' = index' + 1
-----------------------------------------------------------------------------
\* keys.php is answered: without keys the chain ends; else ?start= replaces
\* the index, whatever was clicked meanwhile.
KeysAnswered ==
  /\ loading = "keys"
  /\ \/ loading' = "ended" /\ UNCHANGED index
     \/ loading' = "directories" /\ index' \in Starts \cup {index}
  /\ UNCHANGED <<count, playing, shown, slider, label>>

\* directories.php is answered, perhaps without a directory.
DirectoriesAnswered ==
  /\ loading = "directories"
  /\ loading' \in {"files", "ended"}
  /\ UNCHANGED <<count, index, playing, shown, slider, label>>

\* files.php is answered, perhaps without a picture.
FilesAnswered ==
  /\ loading = "files"
  /\ loading' = "ended"
  /\ \/ UNCHANGED <<count, index, playing, shown, slider, label>>
     \/ \E n \in 1 .. MaxFiles : count' = n /\ ChangeImageSrc(index, n)

Press(i) ==
  /\ i \in -MaxIndex .. MaxIndex
  /\ ChangeImageSrc(i, count)
  /\ UNCHANGED <<loading, count>>

\* "<<".
FirstButton == Press(0)

\* "-10", "<", ">" and "+10".
StepButton(d) == Press(index + d)

\* ">>" reads the length of the list, which throws while it is null.
LastButton == count > 0 /\ Press(count - 1)

\* The slider is released at v.
SlideStop(v) == slider >= 0 /\ v \in 0 .. count - 1 /\ Press(v)

\* "Play" and "Stop".
PlayButton ==
  /\ playing' = ~playing
  /\ UNCHANGED <<loading, count, index, shown, slider, label>>

\* The interval timer.
Tick == playing /\ ChangeImageSrc(index, count) /\ UNCHANGED <<loading, count>>

Steps == {-10, -1, 1, 10}

Next ==
  \/ KeysAnswered \/ DirectoriesAnswered \/ FilesAnswered
  \/ FirstButton \/ LastButton \/ PlayButton
  \/ \E d \in Steps : StepButton(d)
  \/ \E v \in 0 .. MaxFiles - 1 : SlideStop(v)
  \/ Tick

Spec == Init /\ [][Next]_vars

\* The browser fires an interval that stays set.
FairSpec == Spec /\ WF_vars(Tick)
-----------------------------------------------------------------------------
\* In every order of clicks, slides, ticks and answers the index stays within
\* one of the picture shown and inside the list, so that no callback asks the
\* list for a picture it does not have (gosky.js 150-198).
IndexNearImage ==
  count > 0 => index \in {shown, shown + 1} /\ index < count

\* The slider stands at the picture shown, although it is set before the index
\* is clamped and not set again (gosky.js 174-185).
SliderFollowsImage == slider = shown

\* The player skips no picture and stops by itself only at the last one
\* (gosky.js 179-195).
TickShowsNextImage ==
  [][Tick /\ count > 0 =>
       shown' \in {shown, shown + 1} /\ (~playing' => shown' = count - 1)]_vars

\* If nobody touches the controls any more, the player comes to its end
\* (gosky.js 131-195).
PlayEnds == <>[][Tick]_vars => <>[]~playing
=============================================================================
