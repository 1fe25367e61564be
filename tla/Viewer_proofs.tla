--------------------------- MODULE Viewer_proofs ---------------------------
(***************************************************************************)
(* Proofs about Viewer, for lists of every length and every ?start=.       *)
(***************************************************************************)
EXTENDS Viewer, TLAPS

\* The slider's range is that of the pictures, so it trims to what the script
\* clamps to.
LEMMA TrimIsClamp ==
  ASSUME NEW i \in Int, NEW n \in Nat \ {0}
  PROVE  SliderValue(i, n) = Clamp(i, n) /\ Clamp(i, n) \in 0 .. n - 1
  BY DEF SliderValue, SliderTrim, Clamp

\* The pictures, the index and the slider belong together; without pictures
\* nothing is shown.
IInv ==
  /\ TypeOK
  /\ IndexNearImage
  /\ SliderFollowsImage
  /\ IF count > 0 THEN shown >= 0 ELSE shown = -1 /\ label = 0
  /\ loading # "ended" => count = 0
  /\ count > 0 => loading = "ended"

\* changeImageSrc() re-establishes the invariant from any index.
LEMMA ChangeImageSrcInv ==
  ASSUME IInv, NEW i \in Int, NEW n \in 0 .. MaxFiles, count' = n,
         n = 0 => count = 0, ChangeImageSrc(i, n),
         loading' = "ended" \/ (n = 0 /\ loading' = loading)
  PROVE  IInv'
<1> USE FilesAssumption
<1>1. CASE n = 0
  <2>1. playing' \in BOOLEAN /\ index' \in Int
    BY <1>1 DEF ChangeImageSrc
  <2>2. UNCHANGED <<count, shown, slider, label>> /\ count = 0
    BY <1>1 DEF ChangeImageSrc
  <2>3. shown = -1 /\ slider = -1 /\ label = 0
    BY <2>2 DEF IInv, SliderFollowsImage
  <2>4. TypeOK'
    BY <2>1, <2>2 DEF IInv, TypeOK
  <2> QED
    BY <2>2, <2>3, <2>4 DEF IInv, IndexNearImage, SliderFollowsImage
<1>2. CASE n # 0
  <2> DEFINE k == Clamp(i, n)
             next == Advance(k)
  <2>1. k \in 0 .. n - 1 /\ SliderValue(i, n) = k
    BY <1>2, TrimIsClamp
  <2>2. next = k \/ next = k + 1
    BY <2>1 DEF Advance
  <2>3. /\ shown' = k
        /\ slider' = SliderValue(i, n)
        /\ playing' = (playing /\ ~StopsAt(next, n))
        /\ index' = IF StopsAt(next, n) THEN next - 1 ELSE next
        /\ label' = index' + 1
    BY <1>2 DEF ChangeImageSrc
  <2> HIDE DEF k, next
  <2>4. index' \in {k, k + 1} /\ index' < n
    BY <2>1, <2>2, <2>3 DEF StopsAt
  <2>5. playing' \in BOOLEAN
    BY <2>3
  <2>6. loading' = "ended"
    BY <1>2
  <2>7. TypeOK'
    BY <1>2, <2>1, <2>3, <2>4, <2>5, <2>6 DEF TypeOK
  <2> QED
    BY <1>2, <2>1, <2>3, <2>4, <2>6, <2>7
       DEF IInv, IndexNearImage, SliderFollowsImage
<1> QED
  BY <1>1, <1>2

\* A button or the slider, wherever it asks to go.
LEMMA PressInv == ASSUME IInv, NEW i, Press(i) PROVE IInv'
<1>1. i \in Int
  BY IndexAssumption DEF Press
<1>2. count' = count /\ count \in 0 .. MaxFiles /\ loading' = loading
  BY DEF Press, IInv, TypeOK
<1>3. loading' = "ended" \/ count = 0
  BY <1>2 DEF IInv, TypeOK
<1> QED
  BY <1>1, <1>2, <1>3, ChangeImageSrcInv DEF Press

\* The invariant is inductive.
LEMMA NextInv == IInv /\ [Next]_vars => IInv'
<1> SUFFICES ASSUME IInv, [Next]_vars PROVE IInv'
  OBVIOUS
<1>1. CASE KeysAnswered
  <2>1. index' \in Int
    BY <1>1, IndexAssumption DEF KeysAnswered, IInv, TypeOK
  <2>2. count = 0
    BY <1>1 DEF KeysAnswered, IInv
  <2> QED
    BY <1>1, <2>1, <2>2
       DEF KeysAnswered, IInv, TypeOK, IndexNearImage, SliderFollowsImage
<1>2. CASE DirectoriesAnswered
  BY <1>2 DEF DirectoriesAnswered, IInv, TypeOK, IndexNearImage,
              SliderFollowsImage
<1>3. CASE FilesAnswered
  <2>1. CASE UNCHANGED <<count, index, playing, shown, slider, label>>
    BY <1>3, <2>1 DEF FilesAnswered, IInv, TypeOK, IndexNearImage,
                      SliderFollowsImage
  <2>2. ASSUME NEW n \in 1 .. MaxFiles, count' = n, ChangeImageSrc(index, n)
        PROVE  IInv'
    <3>1. index \in Int /\ n \in 0 .. MaxFiles /\ n # 0 /\ loading' = "ended"
      BY <1>3, <2>2, FilesAssumption DEF FilesAnswered, IInv, TypeOK
    <3> QED
      BY <2>2, <3>1, ChangeImageSrcInv
  <2> QED
    BY <1>3, <2>1, <2>2 DEF FilesAnswered
<1>4. CASE FirstButton \/ LastButton
  BY <1>4, PressInv DEF FirstButton, LastButton
<1>5. CASE PlayButton
  BY <1>5 DEF PlayButton, IInv, TypeOK, IndexNearImage, SliderFollowsImage
<1>6. ASSUME NEW d \in Steps, StepButton(d) PROVE IInv'
  BY <1>6, PressInv DEF StepButton
<1>7. ASSUME NEW v \in 0 .. MaxFiles - 1, SlideStop(v) PROVE IInv'
  BY <1>7, PressInv DEF SlideStop
<1>8. CASE Tick
  <2>1. index \in Int /\ count' = count /\ count \in 0 .. MaxFiles
        /\ loading' = loading /\ ChangeImageSrc(index, count)
    BY <1>8 DEF Tick, IInv, TypeOK
  <2>2. loading' = "ended" \/ count = 0
    BY <2>1 DEF IInv, TypeOK
  <2> QED
    BY <2>1, <2>2, ChangeImageSrcInv
<1>9. CASE UNCHANGED vars
  BY <1>9 DEF vars, IInv, TypeOK, IndexNearImage, SliderFollowsImage
<1> QED
  BY <1>1, <1>2, <1>3, <1>4, <1>5, <1>6, <1>7, <1>8, <1>9 DEF Next
-----------------------------------------------------------------------------
\* The viewer's state is always well formed: what it shows is in the list.
THEOREM Invariance == Spec => []IInv
<1>1. Init => IInv
  <2>1. Init => TypeOK
    <3> SUFFICES ASSUME Init PROVE TypeOK
      OBVIOUS
    <3>1. playing \in BOOLEAN /\ loading = "keys"
      BY DEF Init
    <3>2. count = 0 /\ index = 0 /\ shown = -1 /\ slider = -1 /\ label = 0
      BY DEF Init
    <3> QED
      BY <3>1, <3>2, FilesAssumption DEF TypeOK
  <2> QED
    BY <2>1 DEF Init, IInv, IndexNearImage, SliderFollowsImage
<1> QED
  BY <1>1, NextInv, PTL DEF Spec

\* The index stays within one of the picture shown and inside the list
\* (gosky.js 150-198).
THEOREM IndexStaysNear == Spec => []IndexNearImage
<1>1. IInv => IndexNearImage
  BY DEF IInv
<1> QED
  BY <1>1, Invariance, PTL

\* The slider stands at the picture shown (gosky.js 174-185).
THEOREM SliderStaysAtImage == Spec => []SliderFollowsImage
<1>1. IInv => SliderFollowsImage
  BY DEF IInv
<1> QED
  BY <1>1, Invariance, PTL

\* The player skips no picture and stops by itself only at the last one
\* (gosky.js 179-195).
THEOREM PlayerSkipsNothing == Spec => TickShowsNextImage
<1>1. ASSUME IInv, Tick, count > 0
      PROVE  shown' \in {shown, shown + 1} /\ (~playing' => shown' = count - 1)
  <2>1. /\ count \in Nat \ {0} /\ index \in Int /\ shown \in Int
        /\ index \in {shown, shown + 1} /\ index < count /\ index >= 0
        /\ playing = TRUE
    BY <1>1, FilesAssumption DEF IInv, TypeOK, IndexNearImage, Tick
  <2>2. Clamp(index, count) = index
    BY <2>1 DEF Clamp
  <2>3. Advance(index) = index + 1
    BY <2>1 DEF Advance
  <2>4. shown' = index /\ playing' = (playing /\ ~StopsAt(index + 1, count))
    BY <1>1, <2>1, <2>2, <2>3 DEF Tick, ChangeImageSrc
  <2>5. ~playing' => index + 1 = count
    BY <2>1, <2>4 DEF StopsAt
  <2> QED
    BY <2>1, <2>4, <2>5
<1>2. IInv /\ [Next]_vars =>
        [Tick /\ count > 0 =>
           shown' \in {shown, shown + 1} /\ (~playing' => shown' = count - 1)]_vars
  BY <1>1
<1> QED
  BY <1>2, Invariance, PTL DEF Spec, TickShowsNextImage
=============================================================================
