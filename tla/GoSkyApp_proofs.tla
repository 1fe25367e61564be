-------------------------- MODULE GoSkyApp_proofs --------------------------
(***************************************************************************)
(* Proofs about GoSkyApp, for every set of URLs and sizes, every bound on  *)
(* the outbox, with and without camera faults, and about IdentityKey, for  *)
(* every set of keys, with and without faults of the file system.          *)
(***************************************************************************)
EXTENDS GoSkyApp, IdentityKey, TLAPS

\* The posts of the looper belong to a running activity in a session.
Posts ==
  /\ mainPosts <= 1 /\ checkerPosts <= 1
  /\ mainPosts > 0 => isTakingPictures
  /\ life # "running" => mainPosts = 0 /\ checkerPosts = 0

\* An activity gets ready, armed or started only with the camera open: what
\* sets _isAppReady opened it, and only the end of the activity releases it.
ArmedCamera ==
  life = "running" /\ (isAppReady \/ startStopEnabled \/ isTakingPictures)
    => hasCamera /\ cameraInstance = "open"

\* Who takes pictures, and whose picture is still to come, has a destination.
Destinations ==
  /\ isTakingPictures => uploadScriptUrl # NullUrl
  /\ inFlight # "none" /\ cameraInstance = "open" => uploadScriptUrl # NullUrl
  /\ UploadsHaveDestination

\* The static camera over the life of the process.
CameraLife ==
  /\ life = "off" => cameraInstance = "null" /\ inFlight = "none"
  /\ life = "destroyed" => cameraInstance = "released"
  /\ cameraInstance = "null" => inFlight = "none"
  /\ prefs.firstRun => life = "off"

IInv == TypeOK /\ Posts /\ ArmedCamera /\ Destinations /\ CameraLife

\* The end of the process re-establishes the invariant, whatever ended it.
LEMMA ProcessEndsInv ==
  ASSUME IInv, NEW cause \in {"none", "storage", "released", "noCamera"},
         ProcessEnds(cause),
         prefs' \in Preferences, prefs'.firstRun => prefs.firstRun
  PROVE  IInv'
<1> USE DEF IInv, ProcessEnds, deviceVars
<1>1. TypeOK'
  <2>1. outbox' \in Seq(Urls \cup {Blank, NullUrl})
    OBVIOUS
  <2>2. hasCamera' \in BOOLEAN /\ online' \in BOOLEAN /\ uncaught' = cause
    BY DEF TypeOK
  <2>3. inFlight' = "none" /\ life' = "off" /\ prefs' \in Preferences
    OBVIOUS
  <2> QED
    BY <2>1, <2>2, <2>3 DEF TypeOK
<1>2. Posts' /\ ArmedCamera'
  BY DEF Posts, ArmedCamera
<1>3. UploadsHaveDestination'
  BY DEF UploadsHaveDestination
<1>4. Destinations' /\ CameraLife'
  BY <1>3 DEF Destinations, CameraLife
<1> QED
  BY <1>1, <1>2, <1>4

\* A freshly installed app satisfies the invariant.
LEMMA InitInv == Init => IInv
<1> SUFFICES ASSUME Init PROVE IInv
  OBVIOUS
<1> USE UrlAssumption, SizeAssumption, BoundAssumption DEF Init
<1>1. TypeOK
  <2>1. prefs \in Preferences
    BY DEF Preferences
  <2>2. outbox \in Seq(Urls \cup {Blank, NullUrl})
    OBVIOUS
  <2> QED
    BY <2>1, <2>2 DEF TypeOK
<1>2. Posts /\ ArmedCamera /\ Destinations /\ CameraLife
  BY DEF Posts, ArmedCamera, Destinations, CameraLife, UploadsHaveDestination
<1> QED
  BY <1>1, <1>2 DEF IInv

\* A new activity starts disarmed; a released camera only finds it so.
LEMMA OnCreateInv == ASSUME IInv, OnCreate PROVE IInv'
<1> USE DEF OnCreate, deviceVars, IInv
<1>1. cameraInstance' \in {"null", "open", "released"}
  BY DEF TypeOK, GetInstance, OpenResults
<1>2. prefs' \in Preferences /\ ~prefs'.firstRun
  BY DEF TypeOK, Preferences
<1>3. TypeOK'
  <2>1. uploadScriptUrl' \in Urls \cup {Blank, NullUrl}
    OBVIOUS
  <2>2. mainPosts' \in Nat /\ checkerPosts' \in Nat
    BY DEF TypeOK, PostChecker
  <2>3. UNCHANGED <<deviceVars, parametersCached, cameraSize, inFlight, outbox>>
    OBVIOUS
  <2> QED
    BY <1>1, <1>2, <2>1, <2>2, <2>3 DEF TypeOK
<1>4. Posts' /\ ArmedCamera'
  BY DEF Posts, ArmedCamera, TypeOK, PostChecker
<1>5. CameraLife'
  <2>1. cameraInstance' = "null" => cameraInstance = "null"
    BY DEF GetInstance, TypeOK
  <2> QED
    BY <2>1, <1>2 DEF CameraLife
<1>6. Destinations'
  <2>1. inFlight' # "none" => cameraInstance' = "released"
    BY DEF CameraLife, GetInstance, TypeOK
  <2> QED
    BY <2>1 DEF Destinations, UploadsHaveDestination
<1> QED
  BY <1>3, <1>4, <1>5, <1>6

\* Destroying an activity releases the camera and unposts both Runnables.
LEMMA OnDestroyInv == ASSUME IInv, OnDestroy PROVE IInv'
<1>1. PICK h \in GetInstance :
        IF h = "null"
        THEN ProcessEnds("noCamera") /\ UNCHANGED prefs
        ELSE /\ cameraInstance' = "released"
             /\ HandlerRemoveCallbacks
             /\ life' = "destroyed"
             /\ inFlight' \in {inFlight, "none"}
             /\ UNCHANGED <<deviceVars, prefs, uncaught, activityVars,
                            configVars, outbox>>
  BY DEF OnDestroy
<1>2. CASE h = "null"
  BY <1>1, <1>2, ProcessEndsInv DEF IInv, TypeOK
<1>3. CASE h # "null"
  <2> USE <1>1, <1>3 DEF HandlerRemoveCallbacks, deviceVars, activityVars,
                         configVars, IInv
  <2>1. TypeOK'
    BY DEF TypeOK
  <2>2. Posts' /\ ArmedCamera' /\ CameraLife'
    BY DEF Posts, ArmedCamera, CameraLife, TypeOK, OnDestroy
  <2>3. Destinations'
    BY DEF Destinations, UploadsHaveDestination
  <2> QED
    BY <2>1, <2>2, <2>3
<1> QED
  BY <1>2, <1>3

\* A killed process leaves only the preferences.
LEMMA ProcessKilledInv == ASSUME IInv, ProcessKilled PROVE IInv'
  BY ProcessEndsInv DEF ProcessKilled, IInv, TypeOK

\* The network is no part of the invariant.
LEMMA NetworkChangesInv == ASSUME IInv, NetworkChanges PROVE IInv'
<1> USE DEF NetworkChanges, lifeVars, activityVars, handlerVars, configVars,
            cameraVars, IInv
<1>1. TypeOK'
  BY DEF TypeOK
<1>2. Posts' /\ ArmedCamera' /\ Destinations' /\ CameraLife'
  BY DEF Posts, ArmedCamera, Destinations, CameraLife, UploadsHaveDestination
<1> QED
  BY <1>1, <1>2

\* The settings screen may open the camera, never close it.
LEMMA ShowPreferencesInv == ASSUME IInv, ShowPreferences PROVE IInv'
<1> DEFINE stored == WithDefaultUrl(prefs)
<1>1. stored \in Preferences /\ stored.firstRun = prefs.firstRun
  BY UrlAssumption DEF WithDefaultUrl, IInv, TypeOK, Preferences
<1>2. \A p \in Edited(stored) :
        p \in Preferences /\ p.firstRun = stored.firstRun
  BY <1>1 DEF Edited, Preferences
<1> HIDE DEF stored
<1>3. PICK h \in (IF parametersCached THEN {"open"} ELSE GetInstance) :
        IF h = "open"
        THEN /\ prefs' \in Edited(stored)
             /\ cameraInstance' = IF parametersCached THEN cameraInstance ELSE h
             /\ parametersCached' = TRUE
             /\ UNCHANGED <<deviceVars, lifeVars, activityVars, handlerVars,
                            haveParametersBeenSet, cameraSize, inFlight, outbox>>
        ELSE /\ ProcessEnds(IF h = "null" THEN "noCamera" ELSE "released")
             /\ prefs' = stored
  BY DEF ShowPreferences, stored
<1>4. CASE h = "open"
  <2> USE <1>3, <1>4 DEF deviceVars, lifeVars, activityVars, handlerVars, IInv
  <2>1. prefs' \in Preferences /\ prefs'.firstRun = prefs.firstRun
    BY <1>1, <1>2
  <2>2. cameraInstance' = cameraInstance
        \/ (cameraInstance = "null" /\ cameraInstance' = "open")
    BY DEF GetInstance
  <2>3. life = "running"
    BY DEF ShowPreferences
  <2>4. TypeOK'
    BY <2>1, <2>2 DEF TypeOK
  <2>5. Posts' /\ ArmedCamera'
    BY <2>2 DEF Posts, ArmedCamera
  <2>6. CameraLife'
    BY <2>1, <2>2, <2>3 DEF CameraLife
  <2>7. Destinations'
    BY <2>2 DEF Destinations, CameraLife, UploadsHaveDestination
  <2> QED
    BY <2>4, <2>5, <2>6, <2>7
<1>5. CASE h # "open"
  BY <1>1, <1>3, <1>5, ProcessEndsInv
<1> QED
  BY <1>4, <1>5

\* Start is reached with the camera open and sets the destination.
LEMMA StartInv == ASSUME IInv, Start PROVE IInv'
<1> USE DEF Start, deviceVars, lifeVars, configVars, cameraVars, IInv
<1>1. uploadScriptUrl' \in Urls \cup {Blank} /\ uploadScriptUrl' # NullUrl
  BY UrlAssumption DEF SetParameters, ScriptUrl, TypeOK, Preferences
<1>2. mainPosts = 0 /\ mainPosts' = 1
  BY DEF Posts, TypeOK, HandlerPostDelayed
<1>3. TypeOK'
  <2>1. isTakingPictures' \in BOOLEAN /\ settingsEnabled' \in BOOLEAN
    OBVIOUS
  <2>2. UNCHANGED <<deviceVars, prefs, lifeVars, isAppReady, startStopEnabled,
                    storage, checkerPosts, cameraVars, outbox>>
    OBVIOUS
  <2> QED
    BY <1>1, <1>2, <2>1, <2>2 DEF TypeOK
<1>4. Posts' /\ ArmedCamera' /\ CameraLife'
  BY <1>2 DEF Posts, ArmedCamera, CameraLife
<1>5. Destinations'
  BY <1>1 DEF Destinations, UploadsHaveDestination
<1> QED
  BY <1>3, <1>4, <1>5

\* Stop unposts both Runnables.
LEMMA StopInv == ASSUME IInv, Stop PROVE IInv'
<1> USE DEF Stop, HandlerRemoveCallbacks, deviceVars, lifeVars, configVars,
            cameraVars, IInv
<1>1. TypeOK'
  <2>1. isTakingPictures' \in BOOLEAN /\ settingsEnabled' \in BOOLEAN
    OBVIOUS
  <2>2. mainPosts' \in Nat /\ checkerPosts' \in Nat
    OBVIOUS
  <2>3. UNCHANGED <<deviceVars, prefs, lifeVars, isAppReady, uploadScriptUrl,
                    startStopEnabled, storage, cameraVars, outbox>>
    OBVIOUS
  <2> QED
    BY <2>1, <2>2, <2>3 DEF TypeOK
<1>2. Posts' /\ ArmedCamera' /\ CameraLife' /\ Destinations'
  BY DEF Posts, ArmedCamera, CameraLife, Destinations, UploadsHaveDestination
<1> QED
  BY <1>1, <1>2

\* A surface callback that survives has the camera open.
LEMMA SurfaceCallbackInv == ASSUME IInv, SurfaceCallback PROVE IInv'
<1>1. PICK h \in GetInstance :
        IF h = "open"
        THEN /\ cameraInstance' = h
             /\ isAppReady' \in {TRUE} \cup (IF cameraFaults THEN {isAppReady}
                                                             ELSE {})
             /\ UNCHANGED <<deviceVars, prefs, lifeVars, isTakingPictures,
                            uploadScriptUrl, startStopEnabled, settingsEnabled,
                            storage, handlerVars, configVars, inFlight, outbox>>
        ELSE /\ ProcessEnds(IF h = "null" THEN "noCamera" ELSE "released")
             /\ UNCHANGED prefs
  BY DEF SurfaceCallback
<1>2. CASE h = "open"
  <2> USE <1>1, <1>2 DEF deviceVars, lifeVars, handlerVars, configVars, IInv
  <2>1. cameraInstance = "null" \/ cameraInstance = "open"
    BY DEF GetInstance
  <2>2. life = "running" /\ hasCamera
    BY DEF SurfaceCallback
  <2>3. isAppReady' \in BOOLEAN
    BY DEF TypeOK
  <2>4. TypeOK'
    BY <2>3 DEF TypeOK
  <2>5. Posts' /\ ArmedCamera' /\ CameraLife'
    BY <2>2 DEF Posts, ArmedCamera, CameraLife
  <2>6. Destinations'
    BY <2>1 DEF Destinations, CameraLife, UploadsHaveDestination
  <2> QED
    BY <2>4, <2>5, <2>6
<1>3. CASE h # "open"
  BY <1>1, <1>3, ProcessEndsInv DEF IInv, TypeOK
<1> QED
  BY <1>2, <1>3

\* The readiness check enables the button only after a surface callback.
LEMMA AppReadyCheckerInv == ASSUME IInv, AppReadyChecker PROVE IInv'
<1> USE DEF AppReadyChecker, deviceVars, lifeVars, configVars, cameraVars, IInv
<1>1. checkerPosts = 1 /\ checkerPosts' = 1 /\ life = "running"
  BY DEF Posts, TypeOK, PostChecker
<1>2. mainPosts' = mainPosts \/ mainPosts' = 0
  OBVIOUS
<1>3. startStopEnabled' \in BOOLEAN
      /\ (startStopEnabled' => startStopEnabled \/ isAppReady)
  BY DEF EnableStartStop, TypeOK
<1>4. TypeOK'
  BY <1>1, <1>2, <1>3 DEF TypeOK
<1>5. Posts' /\ ArmedCamera' /\ CameraLife' /\ Destinations'
  BY <1>1, <1>2, <1>3 DEF Posts, ArmedCamera, CameraLife, Destinations,
                          UploadsHaveDestination
<1> QED
  BY <1>4, <1>5

\* What the invariant says of a posted mainOperation: it runs for a session of
\* a live activity whose camera is open.
LEMMA MainOperationArmed ==
  ASSUME IInv, MainOperation
  PROVE  /\ life = "running" /\ isTakingPictures
         /\ hasCamera /\ cameraInstance = "open"
         /\ TakePicture("open") /\ mainPosts' = 1 /\ mainPosts = 1
         /\ UNCHANGED <<deviceVars, prefs, lifeVars, activityVars, checkerPosts,
                        outbox>>
<1>1. mainPosts = 1 /\ life = "running" /\ isTakingPictures
  BY DEF MainOperation, IInv, Posts, TypeOK
<1>2. hasCamera /\ cameraInstance = "open"
  BY <1>1 DEF IInv, ArmedCamera
<1>3. GetInstance = {"open"}
  BY <1>2 DEF GetInstance
<1>4. TakePicture("open") /\ mainPosts' = HandlerPostDelayed(0)
      /\ UNCHANGED <<deviceVars, prefs, lifeVars, activityVars, checkerPosts,
                     outbox>>
  BY <1>1, <1>2, <1>3 DEF MainOperation
<1> QED
  BY <1>1, <1>2, <1>4 DEF HandlerPostDelayed

\* A posted mainOperation puts itself back and may start a capture.
LEMMA MainOperationInv == ASSUME IInv, MainOperation PROVE IInv'
<1> USE MainOperationArmed
        DEF deviceVars, lifeVars, activityVars, IInv
<1>1. cameraInstance' = "open" /\ haveParametersBeenSet' \in BOOLEAN
      /\ parametersCached' \in BOOLEAN /\ cameraSize' \in Sizes \cup {NoSize}
  BY DEF TakePicture, SetCameraParameters, TypeOK, Preferences
<1>2. inFlight' \in {"none", "named", "unnamed"}
  BY DEF TakePicture, Shoot, TypeOK
<1>3. TypeOK'
  BY <1>1, <1>2 DEF TypeOK
<1>4. Posts' /\ ArmedCamera'
  BY <1>1 DEF Posts, ArmedCamera
<1>5. CameraLife' /\ Destinations'
  BY <1>1 DEF CameraLife, Destinations, UploadsHaveDestination
<1> QED
  BY <1>3, <1>4, <1>5

\* A picture that is queued has the destination of its activity.
LEMMA OnPictureTakenInv == ASSUME IInv, OnPictureTaken PROVE IInv'
<1>1. CASE inFlight = "unnamed" \/ cameraInstance = "released"
  BY <1>1, ProcessEndsInv DEF OnPictureTaken, IInv, TypeOK
<1>2. CASE ~(inFlight = "unnamed" \/ cameraInstance = "released")
  <2> USE <1>2 DEF OnPictureTaken, deviceVars, lifeVars, activityVars,
                   handlerVars, configVars, IInv
  <2>1. cameraInstance = "open" /\ uploadScriptUrl # NullUrl
    BY DEF TypeOK, CameraLife, Destinations
  <2>2. outbox' \in Seq(Urls \cup {Blank, NullUrl})
    BY DEF TypeOK
  <2>3. TypeOK'
    BY <2>2 DEF TypeOK
  <2>4. Posts' /\ ArmedCamera' /\ CameraLife'
    BY DEF Posts, ArmedCamera, CameraLife
  <2>5. UploadsHaveDestination'
    <3>1. outbox \in Seq(Urls \cup {Blank, NullUrl})
      BY DEF TypeOK
    <3>2. ASSUME NEW i \in DOMAIN outbox' PROVE outbox'[i] # NullUrl
      <4>1. outbox' = Append(outbox, uploadScriptUrl)
        OBVIOUS
      <4>2. i \in 1 .. Len(outbox) + 1
        BY <3>1, <4>1, <3>2
      <4>3. CASE i = Len(outbox) + 1
        BY <2>1, <3>1, <4>1, <4>3
      <4>4. CASE i \in 1 .. Len(outbox)
        <5>1. outbox'[i] = outbox[i] /\ i \in DOMAIN outbox
          BY <3>1, <4>1, <4>4
        <5> QED
          BY <5>1 DEF Destinations, UploadsHaveDestination
      <4> QED
        BY <3>1, <4>2, <4>3, <4>4
    <3> QED
      BY <3>2 DEF UploadsHaveDestination
  <2>6. Destinations'
    BY <2>1, <2>5 DEF Destinations
  <2> QED
    BY <2>3, <2>4, <2>6
<1> QED
  BY <1>1, <1>2

\* The end of an upload only shortens the queue.
LEMMA UploadEndsInv == ASSUME IInv, UploadEnds PROVE IInv'
<1> USE DEF UploadEnds, deviceVars, lifeVars, activityVars, handlerVars,
            configVars, cameraVars, IInv
<1>1. outbox \in Seq(Urls \cup {Blank, NullUrl}) /\ outbox # <<>>
  BY DEF TypeOK
<1>2. outbox' \in Seq(Urls \cup {Blank, NullUrl})
  BY <1>1
<1>3. TypeOK'
  BY <1>2 DEF TypeOK
<1>4. UploadsHaveDestination'
  <2>1. ASSUME NEW i \in DOMAIN outbox' PROVE outbox'[i] # NullUrl
    <3>1. i + 1 \in DOMAIN outbox /\ outbox'[i] = outbox[i + 1]
      BY <1>1, <2>1
    <3> QED
      BY <3>1 DEF Destinations, UploadsHaveDestination
  <2> QED
    BY <2>1 DEF UploadsHaveDestination
<1>5. Posts' /\ ArmedCamera' /\ CameraLife' /\ Destinations'
  BY <1>4 DEF Posts, ArmedCamera, CameraLife, Destinations
<1> QED
  BY <1>3, <1>5

\* The invariant is inductive.
LEMMA NextInv == IInv /\ [Next]_vars => IInv'
<1> SUFFICES ASSUME IInv, [Next]_vars PROVE IInv'
  OBVIOUS
<1>1. CASE Looper
  BY <1>1, SurfaceCallbackInv, AppReadyCheckerInv, MainOperationInv,
     OnPictureTakenInv DEF Looper
<1>2. CASE User
  BY <1>2, ShowPreferencesInv, StartInv, StopInv
     DEF User, SettingsButton, MenuSettings
<1>3. CASE System
  BY <1>3, OnCreateInv, OnDestroyInv, ProcessKilledInv, NetworkChangesInv,
     UploadEndsInv DEF System
<1>4. CASE UNCHANGED vars
  BY <1>4 DEF IInv, TypeOK, Posts, ArmedCamera, Destinations, CameraLife,
              UploadsHaveDestination, vars, deviceVars, lifeVars, activityVars,
              handlerVars, configVars, cameraVars
<1> QED
  BY <1>1, <1>2, <1>3, <1>4 DEF Next
-----------------------------------------------------------------------------
\* The inductive invariant holds of every behaviour of the application.
THEOREM Invariance == Spec => []IInv
  BY InitInv, NextInv, PTL DEF Spec

\* Type correctness of the application's state.
THEOREM TypeCorrect == Spec => []TypeOK
<1>1. IInv => TypeOK
  BY DEF IInv
<1> QED
  BY <1>1, Invariance, PTL

\* At most one chain of mainOperation posts, only in a session of a running
\* activity (MainActivity 329-346, 420-463).
THEOREM SingleTimer == Spec => []TimerDiscipline
<1>1. IInv => TimerDiscipline
  BY DEF IInv, Posts, TimerDiscipline
<1> QED
  BY <1>1, Invariance, PTL

\* An activity that inherits the released static camera is never armed
\* (CameraWrapper 107-135).
THEOREM ReleasedNeverArms == Spec => []ReleasedCameraNeverArms
<1>1. IInv => ReleasedCameraNeverArms
  BY DEF IInv, TypeOK, Posts, ArmedCamera, ReleasedCameraNeverArms
<1> QED
  BY <1>1, Invariance, PTL

\* No upload is queued without a destination (CameraWrapper 182-184).
THEOREM AllUploadsHaveDestination == Spec => []UploadsHaveDestination
<1>1. IInv => UploadsHaveDestination
  BY DEF IInv, Destinations
<1> QED
  BY <1>1, Invariance, PTL

\* The periodic capture never ends the process (MainActivity 420-427).
THEOREM TimerIsSafe == Spec => TimerNeverCrashes
<1>1. IInv /\ [Next]_vars => [MainOperation => life' = "running"]_vars
  BY MainOperationArmed DEF lifeVars
<1> QED
  BY <1>1, Invariance, PTL DEF Spec, TimerNeverCrashes

\* Only a failing readiness check takes the timer from a session that goes on
\* (MainActivity 429-454).
THEOREM TimerOnlyLostOffline == Spec => TimerLostOnlyOffline
<1>1. ASSUME IInv, Next, mainPosts > 0, mainPosts' = 0, isTakingPictures',
             life' = "running"
      PROVE  ~Ready
  <2>1. ASSUME NEW cause PROVE ~ProcessEnds(cause)
    BY <1>1 DEF ProcessEnds
  <2>2. life = "running" /\ mainPosts = 1
    BY <1>1 DEF IInv, Posts, TypeOK
  <2>3. CASE Looper
    <3>1. CASE SurfaceCallback
      BY <3>1, <2>1, <2>2, <1>1 DEF SurfaceCallback, handlerVars
    <3>2. CASE AppReadyChecker
      BY <3>2, <2>2, <1>1 DEF AppReadyChecker
    <3>3. CASE MainOperation
      BY <3>3, <1>1, MainOperationArmed
    <3>4. CASE OnPictureTaken
      BY <3>4, <2>1, <2>2, <1>1 DEF OnPictureTaken, handlerVars
    <3> QED
      BY <2>3, <3>1, <3>2, <3>3, <3>4 DEF Looper
  <2>4. CASE User
    <3>1. CASE ShowPreferences
      BY <3>1, <2>1, <2>2, <1>1 DEF ShowPreferences, handlerVars
    <3>2. CASE Start
      BY <3>2, <2>2, <1>1 DEF Start, HandlerPostDelayed
    <3>3. CASE Stop
      BY <3>3, <1>1 DEF Stop
    <3> QED
      BY <2>4, <3>1, <3>2, <3>3 DEF User, SettingsButton, MenuSettings
  <2>5. CASE System
    <3>1. ~OnCreate /\ ~ProcessKilled
      BY <2>1, <2>2 DEF OnCreate, ProcessKilled
    <3>2. ~OnDestroy
      BY <2>1, <1>1 DEF OnDestroy
    <3>3. UNCHANGED mainPosts
      BY <2>5, <3>1, <3>2 DEF System, NetworkChanges, UploadEnds, handlerVars
    <3> QED
      BY <3>3, <2>2, <1>1
  <2> QED
    BY <1>1, <2>3, <2>4, <2>5 DEF Next
<1>2. IInv /\ [Next]_vars =>
        [mainPosts > 0 /\ mainPosts' = 0 /\ isTakingPictures'
           /\ life' = "running" => ~Ready]_vars
  BY <1>1
<1> QED
  BY <1>2, Invariance, PTL DEF Spec, TimerLostOnlyOffline
-----------------------------------------------------------------------------
(***************************************************************************)
(* The identifier key, for every set of keys, whatever else the            *)
(* application does.                                                       *)
(***************************************************************************)

\* What stands for no key is none.
LEMMA NotKeys ==
  Short \notin Keys /\ NoFile \notin Keys /\ NoKey \notin Keys
  /\ Short # NoFile /\ Short # NoKey
  BY KeyAssumption

\* Where a key was made up because the file holds none, as far as is known.
Making == step \in {"create", "write"}

\* A key that is being made up is a whole one, and an intact file is given up
\* only after it could not be opened.
Replacement ==
  /\ Making => key \in Keys
  /\ step = "read" => file # NoFile
  /\ Making /\ file \in Keys => refused
  /\ step = "write" => file = Short

\* Without faults the file holds the first key from the moment it is shown.
FirstIsSaved ==
  ~faulty =>
    /\ ~refused
    /\ first # NoKey => file = first /\ first \in Keys
    /\ file \in Keys /\ first = NoKey => ~Making

KeyInv == KeyTypeOK /\ Replacement /\ FirstIsSaved /\ OneKeyForLife

\* A freshly installed application.
LEMMA KeyInitInv == KeyInit => KeyInv
BY NotKeys
   DEF KeyInit, KeyInv, KeyTypeOK, Making, Replacement, FirstIsSaved, OneKeyForLife

\* Every operation, refused or not, preserves the invariant.
LEMMA KeyNextInv == KeyInv /\ [KeyNext]_keyVars => KeyInv'
<1> SUFFICES ASSUME KeyInv, [KeyNext]_keyVars PROVE KeyInv'
  OBVIOUS
<1> USE NotKeys
    DEF KeyInv, KeyTypeOK, Making, Replacement, FirstIsSaved, OneKeyForLife
<1>1. CASE getIndentifierKey
  BY <1>1 DEF getIndentifierKey
<1>2. CASE OpenInput
  <2>1. CASE file # NoFile /\ step' = "read" /\ UNCHANGED <<key, refused>>
    BY <1>2, <2>1 DEF OpenInput
  <2>2. CASE file = NoFile /\ NewKey /\ UNCHANGED refused
    BY <1>2, <2>2 DEF OpenInput, NewKey
  <2>3. CASE faulty /\ NewKey /\ refused' = TRUE
    BY <1>2, <2>3 DEF OpenInput, NewKey
  <2> QED
    BY <1>2, <2>1, <2>2, <2>3 DEF OpenInput
<1>3. CASE ReadInput
  BY <1>3 DEF ReadInput, NewKey, Show
<1>4. CASE CreateOutput
  BY <1>4 DEF CreateOutput, Show
<1>5. CASE WriteOutput
  BY <1>5 DEF WriteOutput, Show
<1>6. CASE KeyProcessEnds
  BY <1>6 DEF KeyProcessEnds
<1>7. CASE UNCHANGED keyVars
  BY <1>7 DEF keyVars
<1> QED
  BY <1>1, <1>2, <1>3, <1>4, <1>5, <1>6, <1>7 DEF KeyNext

\* The invariant holds in every state the application can reach.
THEOREM KeyInvariance == KeySpec => []KeyInv
  BY KeyInitInv, KeyNextInv, PTL DEF KeySpec

\* The key and its file have their types.
THEOREM KeyTypeCorrect == KeySpec => []KeyTypeOK
<1>1. KeyInv => KeyTypeOK
  BY DEF KeyInv
<1> QED
  BY <1>1, KeyInvariance, PTL

\* Without faults all activities, over all processes, show one and the same
\* key, wherever a process ended (getIndentifierKey).
THEOREM KeyIsForLife == KeySpec => []OneKeyForLife
<1>1. KeyInv => OneKeyForLife
  BY DEF KeyInv
<1> QED
  BY <1>1, KeyInvariance, PTL

\* Whatever fails, an intact key file is given up only by an activity that
\* could not open it (getIndentifierKey).
THEOREM IntactKeyStays == KeySpec => IntactKeyIsKept
<1>1. KeyInv /\ [KeyNext]_keyVars => [(file \in Keys /\ file' # file) => refused]_keyVars
  <2> SUFFICES ASSUME KeyInv, KeyNext, file \in Keys, file' # file PROVE refused
    OBVIOUS
  <2>1. CreateOutput \/ WriteOutput
    BY DEF KeyNext, getIndentifierKey, OpenInput, ReadInput, KeyProcessEnds
  <2>2. file # Short
    BY NotKeys
  <2> QED
    BY <2>1, <2>2 DEF KeyInv, Replacement, Making, CreateOutput, WriteOutput
<1> QED
  BY <1>1, KeyInvariance, PTL DEF KeySpec, IntactKeyIsKept
=============================================================================
