------------------------------ MODULE GoSkyApp ------------------------------
(***************************************************************************)
(* The Android application: the MainActivity life cycle, the two Runnables *)
(* it keeps posted on the main looper (mainOperation takes the pictures,   *)
(* appReadyChecker watches the network and the upload URL), the static     *)
(* camera of CameraWrapper and the serial AsyncTask queue of uploads.      *)
(*                                                                         *)
(* Every callback of Android runs to its end on the main looper, so each   *)
(* is one action; what interleaves are the callbacks, the user, the        *)
(* network, the camera and the end of the process.                         *)
(***************************************************************************)
EXTENDS Integers, Sequences

CONSTANTS
  Urls,          \* upload URLs a user may type in the settings
  Blank,         \* a URL setting that is empty once trimmed
  Unset,         \* no URL was ever stored in the preferences
  NullUrl,       \* _uploadScriptUrl before the first setParameters()
  DefaultUrl,    \* android:defaultValue of the URL setting
  Sizes,         \* indices of the camera's picture sizes
  DefaultSize,   \* index 0, used when no size was ever stored
  NoSize,        \* picture size of a camera nobody configured
  MaxOutbox,     \* bound on the uploads that are waiting or running
  CameraFaults   \* what cameraFaults may be

ASSUME UrlAssumption ==
  /\ DefaultUrl \in Urls
  /\ {Blank, Unset, NullUrl} \cap Urls = {}
  /\ Blank # Unset /\ Blank # NullUrl /\ Unset # NullUrl
ASSUME SizeAssumption == DefaultSize \in Sizes /\ NoSize \notin Sizes
ASSUME BoundAssumption == MaxOutbox \in Nat \ {0} /\ CameraFaults \subseteq BOOLEAN

VARIABLES
  hasCamera,              \* the device's FEATURE_CAMERA; _camera # null
  cameraFaults,           \* the device's camera driver refuses calls
  online,                 \* the active network is connected
  prefs,                  \* the shared preferences, which survive the process
  life,                   \* no process, an activity, or a process without one
  uncaught,               \* the exception that ended the last process
  isTakingPictures,       \* _isTakingPictures
  isAppReady,             \* _isAppReady
  uploadScriptUrl,        \* _uploadScriptUrl
  startStopEnabled,       \* the Start/Stop button accepts clicks
  settingsEnabled,        \* the Settings button accepts clicks
  storage,                \* _storage # null
  mainPosts,              \* posts of mainOperation in the looper's queue
  checkerPosts,           \* posts of appReadyChecker in the looper's queue
  cameraInstance,         \* CameraWrapper._cameraInstance (static)
  haveParametersBeenSet,  \* CameraWrapper._haveParametersBeenSet
  parametersCached,       \* CameraWrapper._parameters # null (static)
  cameraSize,             \* the picture size set in the camera
  inFlight,               \* a capture whose onPictureTaken is still to come
  outbox                  \* upload tasks of the serial executor, oldest first

deviceVars   == <<hasCamera, cameraFaults, online>>
lifeVars     == <<life, uncaught>>
activityVars == <<isTakingPictures, isAppReady, uploadScriptUrl,
                  startStopEnabled, settingsEnabled, storage>>
handlerVars  == <<mainPosts, checkerPosts>>
configVars   == <<haveParametersBeenSet, parametersCached, cameraSize>>
cameraVars   == <<cameraInstance, configVars, inFlight>>
vars == <<deviceVars, prefs, lifeVars, activityVars, handlerVars, cameraVars,
          outbox>>

Preferences == [url : Urls \cup {Blank, Unset}, size : Sizes, firstRun : BOOLEAN]

TypeOK ==
  /\ hasCamera \in BOOLEAN
  /\ cameraFaults \in BOOLEAN
  /\ online \in BOOLEAN
  /\ prefs \in Preferences
  /\ life \in {"off", "running", "destroyed"}
  /\ uncaught \in {"none", "storage", "released", "noCamera"}
  /\ isTakingPictures \in BOOLEAN
  /\ isAppReady \in BOOLEAN
  /\ uploadScriptUrl \in Urls \cup {Blank, NullUrl}
  /\ startStopEnabled \in BOOLEAN
  /\ settingsEnabled \in BOOLEAN
  /\ storage \in BOOLEAN
  /\ mainPosts \in Nat
  /\ checkerPosts \in Nat
  /\ cameraInstance \in {"null", "open", "released"}
  /\ haveParametersBeenSet \in BOOLEAN
  /\ parametersCached \in BOOLEAN
  /\ cameraSize \in Sizes \cup {NoSize}
  /\ inFlight \in {"none", "named", "unnamed"}
  /\ outbox \in Seq(Urls \cup {Blank, NullUrl})
-----------------------------------------------------------------------------
\* A device on which the app was just installed.
Init ==
  /\ hasCamera \in BOOLEAN
  /\ cameraFaults \in CameraFaults
  /\ online \in BOOLEAN
  /\ prefs = [url |-> Unset, size |-> DefaultSize, firstRun |-> TRUE]
  /\ life = "off" /\ uncaught = "none"
  /\ isTakingPictures = FALSE /\ isAppReady = FALSE
  /\ uploadScriptUrl = NullUrl
  /\ startStopEnabled = FALSE /\ settingsEnabled = FALSE
  /\ storage = FALSE
  /\ mainPosts = 0 /\ checkerPosts = 0
  /\ cameraInstance = "null"
  /\ haveParametersBeenSet = FALSE /\ parametersCached = FALSE
  /\ cameraSize = NoSize
  /\ inFlight = "none"
  /\ outbox = <<>>

\* The process ends, killed or by an uncaught exception, and takes the looper's
\* posts, the camera and the waiting uploads with it: every static and field
\* is back at the value a new process starts from.
ProcessEnds(cause) ==
  /\ life' = "off" /\ uncaught' = cause
  /\ isTakingPictures' = FALSE /\ isAppReady' = FALSE
  /\ uploadScriptUrl' = NullUrl
  /\ startStopEnabled' = FALSE /\ settingsEnabled' = FALSE
  /\ storage' = FALSE
  /\ mainPosts' = 0 /\ checkerPosts' = 0
  /\ cameraInstance' = "null"
  /\ haveParametersBeenSet' = FALSE /\ parametersCached' = FALSE
  /\ cameraSize' = NoSize
  /\ inFlight' = "none"
  /\ outbox' = <<>>
  /\ UNCHANGED deviceVars

\* Camera.open(): no camera, no result; a camera another application holds
\* makes it throw, which getInstance() catches.
OpenResults ==
  IF ~hasCamera THEN {"null"}
  ELSE IF cameraFaults THEN {"open", "null"} ELSE {"open"}

\* What CameraWrapper.getInstance() may return. Nothing ever sets the static
\* back to null, so a released camera is returned for the rest of the process.
GetInstance ==
  IF cameraInstance = "null" THEN OpenResults ELSE {cameraInstance}

\* checkInternetConnection() and a URL setting that is not blank.
Ready == online /\ prefs.url \notin {Blank, Unset}

\* The script URL setParameters() builds: one per setting, and a URL without
\* a host for an empty one.
ScriptUrl(p) == IF p.url = Unset THEN Blank ELSE p.url

\* Mutant: toggleAction() starts a session without setParameters().
SetParametersForgotten == UNCHANGED uploadScriptUrl

SetParameters == uploadScriptUrl' = ScriptUrl(prefs)

\* Mutant: mainOperation is not posted again while a capture is in flight.
PostUnlessBusy(n) == IF inFlight = "none" THEN n + 1 ELSE n

\* Mutant: a session that starts, or goes on, posts nothing.
PostNothing(n) == n

\* handlerPostDelayed(): one more post than the n that are in the queue.
HandlerPostDelayed(n) == n + 1

\* Mutant: appReadyChecker gives up when it finds no network.
PostCheckerOnline(n) == IF online THEN n + 1 ELSE n

\* post() and postDelayed() of appReadyChecker, likewise.
PostChecker(n) == n + 1

\* Mutant: only one of the two Runnables is removed.
RemoveCheckerOnly == UNCHANGED mainPosts /\ checkerPosts' = 0

\* handlerRemoveCallbacks() takes both Runnables off the queue.
HandlerRemoveCallbacks == mainPosts' = 0 /\ checkerPosts' = 0
-----------------------------------------------------------------------------
(***************************************************************************)
(* Life cycle.                                                             *)
(***************************************************************************)

\* onCreate() and prepareApplication(). Only the first run looks for HDR, and
\* then only on a recent Android, which opens the camera. At the first run the
\* process is new, so that camera cannot be a released one.
OnCreate ==
  /\ life \in {"off", "destroyed"}
  /\ life' = "running" /\ uncaught' = "none"
  /\ isTakingPictures' = FALSE /\ isAppReady' = FALSE
  /\ uploadScriptUrl' = NullUrl
  /\ startStopEnabled' = FALSE /\ settingsEnabled' = TRUE
  /\ storage' \in BOOLEAN
  /\ checkerPosts' = PostChecker(checkerPosts)
  /\ haveParametersBeenSet' = FALSE
  /\ prefs' = [prefs EXCEPT !.firstRun = FALSE]
  /\ cameraInstance' \in IF prefs.firstRun /\ hasCamera
                         THEN GetInstance \cup {cameraInstance}
                         ELSE {cameraInstance}
  /\ UNCHANGED <<deviceVars, mainPosts, parametersCached, cameraSize,
                 inFlight, outbox>>

\* onDestroy(): the camera is released, opened first if need be. A capture
\* whose callback the driver has not posted yet is lost with it.
OnDestroy ==
  /\ life = "running"
  /\ \E h \in GetInstance :
       IF h = "null"
       THEN ProcessEnds("noCamera") /\ UNCHANGED prefs
       ELSE /\ cameraInstance' = "released"
            /\ HandlerRemoveCallbacks
            /\ life' = "destroyed"
            /\ inFlight' \in {inFlight, "none"}
            /\ UNCHANGED <<deviceVars, prefs, uncaught, activityVars,
                           configVars, outbox>>

\* The user answers "Yes" to the Exit dialog, or Android reclaims the process.
ProcessKilled ==
  /\ life # "off"
  /\ ProcessEnds("none")
  /\ UNCHANGED prefs

\* The network comes or goes; toggleWifi() and toggleData() only ask for it.
NetworkChanges ==
  /\ online' = ~online
  /\ UNCHANGED <<hasCamera, cameraFaults, prefs, lifeVars, activityVars, handlerVars,
                 cameraVars, outbox>>
-----------------------------------------------------------------------------
(***************************************************************************)
(* The user.                                                               *)
(***************************************************************************)

\* Opening the settings screen stores the default URL; nothing else has one.
WithDefaultUrl(p) == IF p.url = Unset THEN [p EXCEPT !.url = DefaultUrl] ELSE p

\* What the preferences may be after a visit that changes one setting or none.
Edited(p) ==
  {p} \cup {[p EXCEPT !.url = u] : u \in Urls \cup {Blank}}
      \cup {[p EXCEPT !.size = s] : s \in Sizes}

\* The settings screen asks the static camera for its picture sizes unless an
\* earlier visit or shot already did, then lets the user change a setting.
ShowPreferences ==
  /\ life = "running"
  /\ \E h \in IF parametersCached THEN {"open"} ELSE GetInstance :
       IF h = "open"
       THEN /\ prefs' \in Edited(WithDefaultUrl(prefs))
            /\ cameraInstance' = IF parametersCached THEN cameraInstance ELSE h
            /\ parametersCached' = TRUE
            /\ UNCHANGED <<deviceVars, lifeVars, activityVars, handlerVars,
                           haveParametersBeenSet, cameraSize, inFlight, outbox>>
       ELSE /\ ProcessEnds(IF h = "null" THEN "noCamera" ELSE "released")
            /\ prefs' = WithDefaultUrl(prefs)

\* The Settings button, which a session disables.
SettingsButton == settingsEnabled /\ ShowPreferences

\* The Settings entry of the options menu, which nothing disables.
MenuSettings == ShowPreferences

\* toggleAction() on "Start".
Start ==
  /\ life = "running" /\ startStopEnabled /\ ~isTakingPictures
  /\ isTakingPictures' = TRUE
  /\ SetParameters
  /\ mainPosts' = HandlerPostDelayed(mainPosts)
  /\ settingsEnabled' = FALSE
  /\ UNCHANGED <<deviceVars, prefs, lifeVars, isAppReady, startStopEnabled,
                 storage, checkerPosts, cameraVars, outbox>>

\* toggleAction() on "Stop".
Stop ==
  /\ life = "running" /\ startStopEnabled /\ isTakingPictures
  /\ isTakingPictures' = FALSE
  /\ HandlerRemoveCallbacks
  /\ settingsEnabled' = TRUE
  /\ UNCHANGED <<deviceVars, prefs, lifeVars, isAppReady, uploadScriptUrl,
                 startStopEnabled, storage, cameraVars, outbox>>
-----------------------------------------------------------------------------
(***************************************************************************)
(* The main looper.                                                        *)
(***************************************************************************)

\* surfaceCreated(), surfaceChanged() and surfaceDestroyed() all set the
\* preview display. They catch IOException only: a missing or a released
\* camera ends the process.
SurfaceCallback ==
  /\ life = "running" /\ hasCamera
  /\ \E h \in GetInstance :
       IF h = "open"
       THEN /\ cameraInstance' = h
            /\ isAppReady' \in {TRUE} \cup (IF cameraFaults THEN {isAppReady}
                                                            ELSE {})
            /\ UNCHANGED <<deviceVars, prefs, lifeVars, isTakingPictures,
                           uploadScriptUrl, startStopEnabled, settingsEnabled,
                           storage, handlerVars, configVars, inFlight, outbox>>
       ELSE /\ ProcessEnds(IF h = "null" THEN "noCamera" ELSE "released")
            /\ UNCHANGED prefs

\* Mutant: the button is enabled without looking at _isAppReady.
EnableAnyway == startStopEnabled' = TRUE

\* The button is enabled by a check that finds the preview set up; a check
\* that finds it is not leaves the button as it was.
EnableStartStop == startStopEnabled' = (startStopEnabled \/ isAppReady)

\* appReadyChecker.run(), which posts itself again in every case.
AppReadyChecker ==
  /\ checkerPosts > 0
  /\ checkerPosts' = PostChecker(checkerPosts - 1)
  /\ IF Ready
     THEN EnableStartStop /\ UNCHANGED mainPosts
     ELSE startStopEnabled' = FALSE /\ mainPosts' = 0
  /\ UNCHANGED <<deviceVars, prefs, lifeVars, isTakingPictures, isAppReady,
                 uploadScriptUrl, settingsEnabled, storage, cameraVars, outbox>>

\* setCameraParameters(), once per CameraWrapper: a refused setParameters() is
\* caught, and counts as set all the same.
SetCameraParameters ==
  /\ haveParametersBeenSet' = TRUE
  /\ parametersCached' = (parametersCached \/ ~haveParametersBeenSet)
  /\ cameraSize' \in
       IF haveParametersBeenSet THEN {cameraSize}
       ELSE {prefs.size} \cup (IF cameraFaults THEN {cameraSize} ELSE {})

\* startPreview() and takePicture(). The camera refuses a second capture while
\* one is in flight; what it throws is caught and the picture is skipped. The
\* callback names the file with the StorageWrapper of the capturing activity.
Shoot ==
  inFlight' \in
    IF inFlight # "none" THEN {inFlight}
    ELSE {IF storage THEN "named" ELSE "unnamed"}
           \cup (IF cameraFaults THEN {"none"} ELSE {})

\* CameraWrapper.takePicture() with h from getInstance(): no camera, or a
\* configured and then released one, only costs the picture.
TakePicture(h) ==
  /\ cameraInstance' = h
  /\ IF h = "open" THEN SetCameraParameters /\ Shoot
                   ELSE UNCHANGED <<configVars, inFlight>>

\* mainOperation.run() on a device without camera dereferences a null wrapper;
\* configuring a released camera throws outside of takePicture()'s try.
MainOperation ==
  /\ mainPosts > 0
  /\ \E h \in GetInstance :
       IF ~hasCamera \/ (h = "released" /\ ~haveParametersBeenSet)
       THEN /\ ProcessEnds(IF hasCamera THEN "released" ELSE "noCamera")
            /\ UNCHANGED prefs
       ELSE /\ TakePicture(h)
            /\ mainPosts' = HandlerPostDelayed(mainPosts - 1)
            /\ UNCHANGED <<deviceVars, prefs, lifeVars, activityVars,
                           checkerPosts, outbox>>

\* onPictureTaken(): the URL is read now, the file named now. Without storage
\* the name is asked of null; stopPreview() on a released camera throws.
OnPictureTaken ==
  /\ inFlight # "none"
  /\ IF inFlight = "unnamed" \/ cameraInstance = "released"
     THEN /\ ProcessEnds(IF inFlight = "unnamed" THEN "storage" ELSE "released")
          /\ UNCHANGED prefs
     ELSE /\ Len(outbox) < MaxOutbox
          /\ outbox' = Append(outbox, uploadScriptUrl)
          /\ inFlight' = "none"
          /\ UNCHANGED <<deviceVars, prefs, lifeVars, activityVars, handlerVars,
                         cameraInstance, configVars>>

\* The serial executor's running task ends: delivered, or failed with an
\* exception that is logged. Either way there is no retry.
UploadEnds ==
  /\ outbox # <<>>
  /\ outbox' = Tail(outbox)
  /\ UNCHANGED <<deviceVars, prefs, lifeVars, activityVars, handlerVars,
                 cameraVars>>
-----------------------------------------------------------------------------
Looper == SurfaceCallback \/ AppReadyChecker \/ MainOperation \/ OnPictureTaken
User == SettingsButton \/ MenuSettings \/ Start \/ Stop
System == OnCreate \/ OnDestroy \/ ProcessKilled \/ NetworkChanges \/ UploadEnds

Next == Looper \/ User \/ System

Spec == Init /\ [][Next]_vars

\* The main looper serves every callback that stays due. Nothing makes an
\* upload end (HttpURLConnection has no timeout) nor the user act.
LooperFairness ==
  /\ WF_vars(SurfaceCallback)
  /\ WF_vars(AppReadyChecker)
  /\ WF_vars(MainOperation)

FairSpec == Spec /\ LooperFairness
-----------------------------------------------------------------------------
(***************************************************************************)
(* Properties.                                                             *)
(***************************************************************************)

\* At most one chain of mainOperation posts is alive, and only while a running
\* activity is in a session: start, stop, an outage, a new activity and the
\* self-repost never leave a second chain or a stray one (MainActivity
\* 329-346, 420-463).
TimerDiscipline ==
  /\ mainPosts <= 1 /\ checkerPosts <= 1
  /\ mainPosts = 1 => isTakingPictures
  /\ life # "running" => mainPosts = 0 /\ checkerPosts = 0

\* The static camera is never nulled after onDestroy() released it. An
\* activity that inherits it in the same process never gets as far as an
\* enabled Start button or a posted mainOperation (CameraWrapper 107-135).
ReleasedCameraNeverArms ==
  cameraInstance = "released" =>
    mainPosts = 0 /\ (life = "running" => ~isAppReady /\ ~startStopEnabled)

\* No upload task is created without a destination, although the URL is read
\* when the picture arrives, by then perhaps after a Stop, an outage or a
\* change of activity (CameraWrapper 182-184).
UploadsHaveDestination == \A i \in DOMAIN outbox : outbox[i] # NullUrl

\* mainOperation itself never ends the process: neither the null wrapper of a
\* device without camera nor a released camera is reached by a posted
\* mainOperation (MainActivity 420-427, CameraWrapper 153-173).
TimerNeverCrashes == [][MainOperation => life' = "running"]_vars

\* A session loses its timer without the user only by a readiness check that
\* fails; no other callback takes the post away and forgets it.
TimerLostOnlyOffline ==
  [][mainPosts > 0 /\ mainPosts' = 0 /\ isTakingPictures' /\ life' = "running"
       => ~Ready]_vars

Taking == life = "running" /\ isTakingPictures

\* With a camera that works, and as long as no outage and no cleared URL ever
\* meets a session, a session takes a picture, again and again, until it ends
\* (MainActivity 420-427).
KeepsShooting ==
  [](~cameraFaults /\ (Taking => Ready)) => (Taking ~> (inFlight # "none" \/ ~Taking))

\* With the network up and a URL set for good, every activity of a device with
\* a working camera gets its Start button enabled: neither an earlier outage nor a Stop,
\* which unposts the readiness check, leaves it disabled (MainActivity 429-463).
BecomesReady ==
  (~cameraFaults /\ <>[]Ready) => ((life = "running" /\ hasCamera)
                  ~> (startStopEnabled \/ life # "running"))
-----------------------------------------------------------------------------
(***************************************************************************)
(* What the project's texts promise and the code does not do.              *)
(***************************************************************************)

\* "External storage is inavailable. Using internal storage." (strings.xml
\* 20): pictures taken without external storage do not end the process.
NoStorageCrash == uncaught # "storage"
=============================================================================
