------------------------------ MODULE Gallery ------------------------------
(***************************************************************************)
(* Web/public/api/files.php, which lists the pictures of a day to the web  *)
(* viewer, while uploadfiles.php stores and converts more of them. One     *)
(* reader asks again and again; it looks at one directory after another,   *)
(* and uploads go on in between.                                           *)
(***************************************************************************)
EXTENDS UploadScript, Sequences, FiniteSetsExt, SequencesExt

VARIABLES
  reader,     \* the state of the listing request
  listedDay,  \* the day it was asked for
  hoursLeft,  \* hours whose converted directory is still to be read
  listing,    \* what it answers, in order
  before      \* what was published of that day when it began

galleryVars == <<reader, listedDay, hoursLeft, listing, before>>

GalleryTypeOK ==
  /\ TypeOK
  /\ reader \in {"idle", "scanning"}
  /\ listedDay \in Days
  /\ hoursLeft \subseteq Hours
  /\ listing \in Seq(Files)
  /\ before \subseteq Files

GalleryInit ==
  /\ Init
  /\ reader = "idle"
  /\ listedDay = 0
  /\ hoursLeft = {}
  /\ listing = <<>>
  /\ before = {}

PublishedOn(d) == {f \in published : f[1][1] = d}

\* Mutant: the hours are read from the last to the first.
LastHour == Max(hoursLeft)

\* scandir() returns what is in a directory in the order of the names.
NextHour == Min(hoursLeft)
Sorted(files) ==
  {s \in [1 .. Cardinality(files) -> files] :
     ToSet(s) = files /\ \A i, j \in DOMAIN s : i < j => s[i][2] < s[j][2]}

\* Mutant: the uploads are listed instead of the conversions.
UploadedFiles(slot) == Sorted({f \in stored : f[1] = slot})

ConvertedFiles(slot) == Sorted({f \in published : f[1] = slot})

\* The viewer asks for a day that directories.php listed; the script reads
\* which hours it has.
ListDay(d) ==
  /\ reader = "idle" /\ d \in dayDirs
  /\ reader' = "scanning"
  /\ listedDay' = d
  /\ hoursLeft' = {h \in Hours : <<d, h>> \in hourDirs}
  /\ listing' = <<>>
  /\ before' = PublishedOn(d)
  /\ UNCHANGED vars

\* It reads the converted directory of one of these hours; an hour that has
\* none yet adds nothing.
ListHour ==
  /\ reader = "scanning" /\ hoursLeft # {}
  /\ \E files \in ConvertedFiles(<<listedDay, NextHour>>) : listing' = listing \o files
  /\ hoursLeft' = hoursLeft \ {NextHour}
  /\ UNCHANGED <<reader, listedDay, before, vars>>

\* It answers with what it found, and is over.
AnswerListing ==
  /\ reader = "scanning" /\ hoursLeft = {}
  /\ reader' = "idle" /\ listedDay' = 0 /\ listing' = <<>> /\ before' = {}
  /\ UNCHANGED <<hoursLeft, vars>>

GalleryNext ==
  \/ Next /\ UNCHANGED galleryVars
  \/ \E d \in Days : ListDay(d)
  \/ ListHour
  \/ AnswerListing

GallerySpec == GalleryInit /\ [][GalleryNext]_<<vars, galleryVars>>
-----------------------------------------------------------------------------
Listed == ToSet(listing)

\* Although it looks at the directories one after another, the answer misses
\* no picture published before it began and lists none that is not published
\* (files.php 17-36).
ListingIsCurrent ==
  [][AnswerListing => before \subseteq Listed /\ Listed \subseteq published]_galleryVars

Accepted == {r \in Requests : result[r] = "OK"}

\* A picture that is filed under an hour other than the one it came in.
Misfiled(r) == day[r] * HoursADay + hour[r] # readAt[r]

InOrder ==
  \A i, j \in DOMAIN listing : i < j => listing[i][2] <= listing[j][2]

\* When no request reads its two dates on both sides of a midnight, and no two
\* requests overtake each other into different hours, every listing is in the
\* order of capture, retries and uploads during the listing included (files.php
\* 17-36, uploadfiles.php 47).
ChronologicalUnlessMisfiled ==
  ( /\ \A r \in Accepted : ~Misfiled(r)
    /\ \A q, r \in Accepted : q < r => readAt[q] <= readAt[r] ) => InOrder
=============================================================================
