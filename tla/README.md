# GoSky in TLA+

GoSky takes a picture of the sky every few seconds with a phone, uploads it to a
web server, has it converted there, and shows the pictures of a day as a
timelapse in a browser. The converter is linked with its own copy of libjpeg 9,
which is by far the largest part of the repository's code. This directory holds
TLA+ models of the parts whose control or arithmetic is hard to test, the TLC
configurations that check them, and theorems about them that TLAPS proves.

| modules | what they model |
|---|---|
| `GoSkyApp` | the Android application: activity life cycle, timers, camera, upload queue |
| `IdentityKey` | `getIndentifierKey()` and its file, with process ends |
| `GoSkyApp_proofs` | six theorems about the application, three about the key |
| `UploadScript` | `uploadfiles.php`, a worker per request, on a shared file system |
| `Gallery`, `MCGallery` | `files.php` reading what `UploadScript` writes (extends it) |
| `Gallery_proofs` | ten theorems about the script and the gallery |
| `Viewer`, `Viewer_proofs`, `MCViewer` | `gosky.js`: the request chain, the player and its controls; three theorems |
| `Dewrap` | the geometry of the converter, exactly, over the integers |
| `Conversion` | the abstract converter the upload script and the gallery count on |
| `Converter`, `Converter_proofs`, `MCConverter` | `fisheye2plain`, several runs at once; that it implements `Conversion`, and two theorems about its geometry |
| `DctBase`, `Fdct`, `Idct`, `Scaling` | libjpeg: every integer DCT, and the choice of one |
| `BlockCodec`, `BlockCodec_proofs`, `MCBlockCodec` | libjpeg: a block compressed, decompressed and compressed again; four theorems about the sizes |
| `Transforms`, `Transcoder`, `MCTranscoder` | libjpeg: `jpegtran`, the lossless transformations |
| `Transcoder_proofs` | five theorems about them: samples, crop region, trimming, markers |
| `PlainArray` | the array the users of a virtual array count on |
| `VirtualArray` | libjpeg: a virtual array with a window |
| `Memory`, `MCMemory` | libjpeg: the memory manager (extends `VirtualArray`) |
| `Memory_proofs` | ten theorems about both, that an array implements `PlainArray` among them |
| `HuffTables`, `ScanScript`, `HuffEncoder`, `HuffDecoder` | libjpeg: Huffman tables, scans, both entropy coders |
| `Compressor`, `Codestream`, `MCCodestream` | libjpeg: the compressor's passes, the file on its way, the decompressor |
| `Compressor_proofs` | that the correction bits always have room |

## 1. Inventory

### Android application (`src/Droid/src/ee/tvp/gosky`)

**MainActivity.** State: `_isTakingPictures`, `_isAppReady`, `_uploadScriptUrl`,
`_camera`, `_storage`, the enabled state of two buttons, and what is posted on
the main looper. Operations: `onCreate`, `onDestroy`, `toggleAction` (Start and
Stop), the settings, and two Runnables that post themselves again,
`mainOperation` (takes a picture) and `appReadyChecker` (every second; looks at
the network and the URL, enables or disables Start, and takes `mainOperation`
off the queue when it does not like what it sees). Everything runs on the main
looper, so one callback is one step. Hard: the two Runnables, Start, Stop,
outages and new activities all add to and remove from one queue; fields are set
in one callback and used in a much later one. Correct means: one timer chain and
only in a session; the timer is not lost for any other reason than readiness;
nothing dereferenced in it is null.

**CameraWrapper.** State: a *static* camera that is opened on demand, released
by `onDestroy` and never set back to null; the parameters, set once per wrapper;
a capture in flight. Operations: the three surface callbacks, `takePicture`,
`onPictureTaken`. Interacts with the activity by `setAppReady`,
`getUploadScriptUrl` and `getStorage`. Hard: the camera outlives the activity
that released it; the picture arrives after a Stop, an outage, a new activity.

**Settings screen** (`Preferences`, `GoSkyPreferenceFragment`, the preference
XML). State: the shared preferences, which outlive the process. Reads the static
camera's sizes. A session disables its button but not its menu entry.

**Upload queue** (`AsyncUploadTask`, `UploadByteStream`). `AsyncTask` executes
serially; a task has the destination and name it was created with; failures are
logged and dropped; the connection has no timeout.

**Identifier key** (`getIndentifierKey`, `RandomString`). A 12-character key in
a file, regenerated when the file is missing or has the wrong length. Hard: the
file is truncated before it is written, the process may end in between, and each
operation fails its own way. Correct means: a phone keeps its key, since the
server files its pictures under it.

**StorageWrapper** names the pictures by the second. Its `createOutputImageFile`,
`AsyncSavePhotoTask` and `AsyncHttpPostTask` are reached only with
`SaveOnCard`, which is never set, or not at all. `Messenger`, `SysInfo`,
`XMLParser` are dialogs, logging and an unused parser. Not modelled.

### Server (`src/Web/public/api`, `src/Server`)

**Upload script** (`uploadfiles.php`). Keeps no state but the file system:
`incoming/<key>/<day>/<hour>/`, its `converted/` directory, and the clock it
reads twice. Each request is a PHP worker of its own, so two requests interleave
at every call. Hard: check-then-make of directories, a midnight between the two
reads, the answer decided before the conversion, repeated pictures. Correct
means: Success means stored, the gallery holds only stored pictures, a refusal
has a cause, and what was accepted ends up whole in the gallery.

**Gallery API** (`keys.php`, `directories.php`, `files.php`). Stateless readers
of those directories. Hard: a listing is not atomic. Correct means: complete
with respect to its beginning, no phantom, chronological.

**fisheye2plain** (C: `main`, `mapper`, `dewrap_algo`, image reader and writer,
log files) reads a JPEG, maps every pixel of a flat picture to a pixel of the
fisheye, and writes a JPEG. One process is sequential, but the upload script
runs one per request, and two may write the same file; any may be killed, or be
ended by libjpeg's `exit`. Hard: the integer edges of the geometry, partial
files, the progress log. Correct means: the file is absent, partial or whole as
the gallery expects, and the flat picture comes from the fisheye's circle, in
order. The bitmap code is not called.

**fisheye2pano** is a third-party ImageMagick script; the upload script runs
`convert` itself.

### libjpeg (`src/Server/jpeg-9`)

The library the converter is built with, and its own programs. Its parts:

**DCT and scaling** (`jfdctint.c`, `jidctint.c`, `jcdctmgr.c`, `jddctmgr.c`, the
dimensions in `jcmaster.c`, `jdmaster.c`, `jdinput.c`). No state beyond a block;
31 forward and 31 inverse transforms, from 1x1 to 16x16, whose fixed point is
placed by hand; the size is chosen from the scale and the sampling factors.
Correct means: there is a transform for every size that is chosen, and what one
direction does the other undoes.

**Entropy coding and the code stream** (`jchuff.c`, `jdhuff.c`, `jcmarker.c`,
`jdmarker.c`, `jdinput.c`, the coefficient controllers, `jcparam.c`'s scan
scripts, source and destination managers). State: the encoder's and decoder's bit
buffers, predictions, runs of ended blocks and their correction bits, restart
counters, tables, the position in the image. Hard: either side may be stopped in
the middle of an MCU and starts it again; statistics are gathered by one pass
and used by another; a progressive image is refined in place; lost data is
bridged by guessing from the restart markers. Correct means: the decompressor
has after each scan exactly what was sent, a file the library writes is one it
reads without complaint, and damage is local.

**Lossless transformation** (`transupp.c`, `jpegtran.c`, `jctrans.c`). State: the
two sets of coefficient arrays, the crop region, the parameters of the output.
Hard: what is decided when the workspace is requested must match what is done
three calls later; partial iMCUs at the edges. Correct means: every sample of the
output is the one the rotation and the crop put there.

**Memory manager** (`jmemmgr.c` over `jmemansi.c` or, in the default build,
`jmemnobs.c`). State: pools by lifetime, an account of what was allocated,
virtual arrays with windows and temporary files. Hard: any allocation may fail,
in the middle of a loop over arrays; windows move both ways. Correct means: the
account is true, objects do not overlap, and a virtual array is, to its users,
an array.

Colour conversion, resampling, colour maps, arithmetic coding and the readers
and writers of other file formats are left out (section 5).

### Web viewer (`src/Web/client/gosky.js`)

State: the list of pictures, `_currentImageIndex`, `_isPlaying` with its
interval timer, the picture, the slider and the label in the page. Operations:
three chained requests, seven buttons, the slider, the timer. One callback at a
time. Hard: the index runs one ahead of the picture while playing, and clamping,
the end of the list, a pause and every control have to agree on it.

### How they interact

The application posts pictures to the upload script over HTTP, one at a time,
in the order they were taken. The script starts the converter for every picture
and waits for it; what it counts on is `Conversion`. The converter decodes and
encodes its pictures with libjpeg, whose compressor and decompressor share no
state but the file between them, and both get their memory from the memory
manager. The script and the gallery API share the file system only. The viewer
asks the gallery API when the page is loaded.

## 2. Models

### GoSkyApp

The variables bear the names of the fields; `mainPosts` and `checkerPosts` count
the posts of the two Runnables in the looper's queue, `cameraInstance` is the
static camera (`null`, `open`, `released`), `inFlight` is a capture whose
callback is still to come and remembers whether its activity has a
`StorageWrapper`, `outbox` is the serial queue of uploads, each represented by
its URL. `life` is `off` (no process), `running`, or `destroyed` (the activity
is gone, the process with its statics is not). `ProcessEnds` puts everything but
the preferences and the device back, and records the exception. `cameraFaults`
says whether this device's camera may throw in a call.

| action | code |
|---|---|
| `OnCreate` | `onCreate`, `prepareApplication`, the first run's `hasHdr` |
| `OnDestroy`, `ProcessKilled` | `onDestroy`; the Exit dialog, or Android |
| `NetworkChanges` | the network itself; the toggles only ask for it |
| `SettingsButton`, `MenuSettings` | a visit to `GoSkyPreferenceFragment` |
| `Start`, `Stop` | the branches of `toggleAction` |
| `SurfaceCallback` | the three `SurfaceHolder` callbacks |
| `AppReadyChecker`, `MainOperation` | the two Runnables, self-posting included |
| `OnPictureTaken`, `UploadEnds` | the capture's callback; the end of an upload |

Abstractions, and what they assume: a visit to the settings is one step that
changes at most one setting (further changes are further visits). The session
may go on underneath it, since the settings screen leaves the activity alive.
URLs are told apart only as such; `ScriptUrl` maps a setting that was never
stored to the same host-less URL as an empty one, as `setParameters` does. A
picture's content, its name, the interval, the scene mode and the lens
conversion are left out. The camera accepts one capture at a time. `onDestroy`
comes after the last surface callback of its activity. `_camera` is non-null
exactly on a device with a camera (`hasCamera`). The first run of `onCreate`
opens the camera or not, depending on the Android version. The toasts, the Wi-Fi
and data buttons and `Messenger` are left out: nothing reads them.

### IdentityKey

One activity after the other asks for the key (`getIndentifierKey`). The other
actions are the operations on the file: `OpenInput` (`openFileInput`), `ReadInput` (the loop of `read`, `close`
and the test of the length), `CreateOutput` (`openFileOutput`, which truncates),
`WriteOutput` (`write` and `close`). Each may throw if the phone is `faulty`, and
`KeyProcessEnds` may come between any two. A file or key of the wrong length is
`Short`, whatever it holds. `first` (the first key shown) and `refused` (this
activity could not open a file that is there) are history variables. `GoSkyApp`
leaves the key out: nothing else depends on its value.

### UploadScript

A request is a number, in the order the application sends them; it carries the
picture `PictureOf[r]`, so two requests may carry the same one (a client that
did not get its answer). `pc` says where the worker is; a step is whatever
cannot be interrupted by another worker or the clock. `DayOf` and `HourOf` are
the two `date()` calls. `mkdir(..., true)` is three steps, the way PHP does it:
look for the deepest directory that exists (`ScanPath`), then make the day's and
the hour's, and give up at the first that cannot be made. `published` are the
files in a `converted` directory, `whole` those that are completely written.
`lostRace` is a history variable: the request found a directory it was about to
make. `readAt` is another: the clock at the second read.

Abstractions: one identifier key, whose directory is folded into the day's; the
appended log, the answer's XML and the request without an identifier key (whose
`$upload_base_path` is undefined) are left out. `Workers` is how many requests
are in the script at a time: the application sends one after the other, so more
than one means that a client gave up waiting. `Faults` are the requests of which
a move, a conversion or a too large upload may fail by itself.

### Gallery

`UploadScript` plus one reader, which makes any number of listings. `ListDay` is
the day's `scandir`, `ListHour` the `scandir` of one hour's `converted`
directory, `AnswerListing` the answer; the upload script's steps go on in
between. `Sorted` is the order of `scandir`: all sequences of the names in which
they increase, of which there is one. `before` is a history variable.

### Viewer

`ChangeImageSrc(i, n)` is the whole function, with the index the caller has
already set; `Clamp`, `Advance`, `StopsAt` and `SliderValue` are its parts. The
slider widget's trimming (`SliderTrim`) is jQuery UI's. `PlayButton` and `Tick`
are the interval timer. `MaxIndex` bounds how far a user who has no list yet can
move the index. A `?start=` that is not a number is left out.

### Dewrap, Converter, Conversion

`Dewrap` states the functions of `dewrap_algo.c` without sines and roots, over
the integers: `f_U` and `f_D` are `F / 10`, a comparison with a square root is a
comparison of squares, and every cut to an integer is where the code makes it.
`R_U`, `R_D`, `Parameters` and `CreateMap` follow the functions of these names.

In `Converter` a run is a process; each call of `main` that may end the program
or change a file is an action: `Main` (the command line and the logs), `OpenImg`,
`SetParameters` and `CentreOutOfRange`, `GenerateImage`, `OpenOutput` (which
empties the file), `StartCompress`, `WriteBuffer` for every buffer of
`OUTPUT_BUF_SIZE` and the rest, `CloseOutput`, `Report` (the progress log).
Those that can fail have a failing action, with the exit code the code gives
(`WriteFails` leaves any part of its buffer in the file), and `Killed` comes
anywhere. `completed` and `raced` are history variables.

The pictures to be read are sizes. What a run writes is an image, its input and
its parameters, with a `Length` of its own, and `content` says for each position
of a file whose image was written there last: `Put` writes at the run's own
position, over another run's bytes, and leaves those behind its end. A file is
`Whole` when it is one image from its first position to its last and nothing
else; what mixes two, or has another's tail, is not. Images of different
parameters count as different although their bytes may agree, and a picture that
is replaced under its name while runs read it is two `Inputs`.

`Conversion` says what the other side sees: a picture is absent, partial or
whole; a whole one becomes partial only when another run begins it (`begun`
counts each run once) or, by a slower run with another image, after two runs
wrote it at once (`Spoil`); and the log names only pictures that were
whole, or that two runs wrote at once. `Converter` implements it, with
`PictureOf` as the mapping. The upload script passes no parameters and derives
the output's name from the input's, so two of its runs for one output write the
same image unless the upload itself was replaced by another of its name.

### DctBase, Fdct, Idct, Scaling, BlockCodec

`Fdct` and `Idct` hold a kernel for every number of points from 1 to 16, with the
multipliers in units of 1/8192, and for every block size the multipliers and
shifts its two passes apply (`ForwardDCT`, `InverseDCT`): the code writes each of
the 62 functions out, the model puts them together from the kernels and the
placing of the binary point, which is where the functions differ. `Scaling` is
the choice of a size on both sides, with the loops that double a chroma
component's DCT, and the dimensions that follow.

`BlockCodec` takes one block along: `SetUp` chooses scale, factors and size,
`Feed` a corner of a picture, then both forward passes, `Quantize` (with one
quantization value for all positions), both inverse passes and `Limit`, and once
more. `work` is the workspace between two passes, `clipped` remembers whether
the range limit cut a sample off.

### Transforms, Transcoder

`Transforms` holds the `do_` routines of `transupp.c`, the crop specification's
parser and the arithmetic of cropping and trimming. A block has two rows and two
columns, as the routines distinguish no more than the parity of each; a block
that nothing was written to is `Garbage`. `Transcoder` makes the calls in the
order of `jpegtran`'s `main`: `ParseSwitches`, `ReadHeader`, `RequestWorkspace`,
`Adjust` (the parameters of the output), `WriteCoefficients` (those that are
written into the headers, with the errors a table used twice leads to),
`CopyMarkers`, `ExecuteTransform`. Every DC coefficient of the source is a number
of its own, so no two samples are alike.

### PlainArray, VirtualArray, Memory

`VirtualArray` is one virtual array of `jmemmgr.c`, of samples or of blocks,
which the code handles alike: `Access` moves the window (writes it back where it
is dirty and defined, chooses the new start, reads it), zeroes rows that are new,
or refuses; `Load` and `Store` are what a user does with the strip it got. The
memory and the file are not cleared when they are made. `PlainArray` is the same
for a user who knows nothing of windows.

`Memory` is the manager around it: `alloc_small` with its pools and the slop it
halves when `malloc` refuses, `alloc_large`, rows in chunks, requests for virtual
arrays, `realize_virt_arrays`, `free_pool`, `Abort` and `Destroy`. `Realized`
goes through the lists of both kinds (`RealizeOrders`) and gives each array its
file and its window (`RealizeArray`) until one fails; the sums over arrays and
over lists of pools are `Added`. `setup` is the build and its surroundings: how much `malloc` gives, the limit from the build or
from `JPEGMEM`, and whether temporary files can be made (`jmemansi.c`) or not
(`jmemnobs.c`, the one `Makefile` links). An error leaves the application nothing
but freeing. One array is watched, followed through `VirtualArray` with what it
holds; of the others only the control block is kept.

### HuffTables, ScanScript, HuffEncoder, HuffDecoder, Compressor, Codestream

A job is what an application asks for: a frame, its coefficients, scans, restart
interval, and what may happen to the file. `ScanScript` has the validation of
scripts and the geometry of MCUs, `HuffTables` the standard and the optimal
tables and what is derived from them, `HuffEncoder` and `HuffDecoder` the
routines for sequential scans, and for DC and AC scans of a progressive image,
first and refining.

The file is a sequence of bytes; the parameters of a marker segment are one
element after the marker. `Compressor` goes through its passes MCU by MCU
(`GatherMCU`, `OutputMCU`), with a destination that may make it wait, in which
case the MCU is encoded again (`Suspend`, `EmptyBuffer`). Then the file is
delivered, or loses restart segments, a byte, or its end (`LoseSegments`,
`LoseByte`, `CutShort`), and arrives in pieces (`Arrive`; `fill_input_buffer`
makes up an EOI at an early end). The decompressor reads markers, sets up a scan,
decodes an MCU or gives up in its middle and restores its state, with what it
put into the blocks taken back, and resynchronizes at restart markers.

Abstractions: application markers and the skipping of unknown ones, block
smoothing, and the choice of output scans by the application are left out.

## 3. Runs

Passing runs. Each property has a mutant of the code (an operator defined just
before the one it replaces) that violates it.

| run | bounds | what it shows |
|---|---|---|
| `App` | 2 URLs, 2 sizes, 2 uploads, with and without camera faults, `FairSpec` | `TimerDiscipline`, `ReleasedCameraNeverArms`, `UploadsHaveDestination`, `TimerNeverCrashes`, `TimerLostOnlyOffline`, `KeepsShooting`, `BecomesReady` |
| `IdentityKey` | 3 keys, with and without faults | `OneKeyForLife`, `IntactKeyIsKept` |
| `Gallery` | 3 requests on 2 workers, the third a repetition of the second, the first may fail; days of 2 hours, 4 hours, listings all the time | `OkMeansStored`, `RefusedOnlyByRace`, `SettledGalleryIsWhole`, `ChronologicalUnlessMisfiled`, `ListingIsCurrent` |
| `Viewer` | lists of 1 to 12 pictures, starts -1, 5, 20, `FairSpec` | `IndexNearImage`, `SliderFollowsImage`, `TickShowsNextImage`, `PlayEnds` |
| `Converter` | 2 runs, 2 outputs, pictures of 9x7, 25x24 and 5x1, a missing and a damaged one, files of 1 to 5 units, buffers of 2 | `SharedOutputIsWhole`, `SamplesInsideEye`, `RowsKeepOrder`, `ConversionSpec` |
| `BlockCodec` | scales 8/1 to 8/16 and 1/1, factors 1 to 4, widths 1, 8, 21, 5 pictures | `EverySizeIsSupported`, `RatiosStayIntegral`, `NoColumnIsLost`, `WorkFitsSixteenBits`, `GenerationsAgree` |
| `Transcoder` | pictures up to 9x7 in the usual samplings, 8 transformations, 8 crop specifications, every option | `EverySampleInPlace`, `NoStripIsLeft`, `CropShowsRegion`, `MarkersAreCoherent` |
| `Memory` | 1 object and 2 virtual arrays per life, arrays of 3 rows, heaps of 30 and 90 units, limits 0 and 40 | `BooksAreTrue`, `ObjectsApart`, `WindowsAreWhole`, `BuffersFitMemory`, `PlainArraySpec` |
| `Codestream` | 22 jobs of a few blocks: sequential, optimized, progressive, scaled, refused before or after the first scan, damaged | `RoundTrip`, `NothingAmiss`, `DamageIsLocal`, `CorrectionBitsHaveRoom` |

Runs that end in a violation, each a disagreement between a text of the
repository and the code:

| run | text | what the code does |
|---|---|---|
| `AppNoStorage` | `strings.xml` 20, "Using internal storage" | the first picture ends the process (`CameraWrapper` 183) |
| `BlockCodecSizes` | `jfdctint.c` 1418 and 1782, "Perform the forward DCT" on 12x12 and 14x14 blocks | a term of pass 1 lacks its shift by `CONST_BITS` in 12x12, 12x6, 14x14 and 14x7 (`jfdctint.c` 1472, 1874); `GenerationsAgree` leaves these four out |

**Why the bounds are enough.** *App*: two URLs tell a stored URL from the
default and from a stale one, two sizes a stale size from a current one; the
outbox only ever passes on what is put in, so two entries suffice. There is one
activity and one process, and lives repeat without a bound. *IdentityKey*: a
first key, a second one and one that is neither; lives repeat without a bound.
*Gallery*: a lost race takes two workers, a repetition that overlaps a conversion
two requests with one picture, and a third request keeps a bystander; days of two
hours have a first and a last hour, so a midnight lies inside the clock's range,
and disorder takes two pictures and two hours of a day. *Viewer*: twelve pictures
are more than the largest step, ten; an index beyond the list occurs in both
directions. *Converter*: a race takes two runs; the files are shorter than a
buffer, one or two whole ones, or end in a part of one, and the runs that share
an output have the same image, or two of the same or of different lengths; the
pictures have an odd and an even side, a height of one, and a
radius large enough for several pixels to fall on one. *BlockCodec*: all scales
the decoder knows, all factors libjpeg allows, widths of one sample, one block
and several blocks with a rest; the pictures include the largest contrast in each
direction. *Transcoder*: the pictures have one to five iMCUs in each direction,
the last whole or not, and one is smaller than an iMCU, which is all the code
distinguishes. *Memory*: a window
over three rows can be whole, a strip, or in between, and moves both ways; two
arrays compete for the room. The constraint `Followed` keeps what the watched
array holds out of the lives in which the other arrays matter; its behaviour for
any size is proved. *Codestream*: images of a few blocks have runs that
end in their middle, MCUs that reach over the edge, and several restart segments;
`longest` is 5 in a job so that codes are limited, `MAX_EOBRUN` 3 so that runs
reach it, `MAX_CORR_BITS` 70 so that the correction bits do.

**Deadlock** is checked in `App`, `IdentityKey`, `Gallery`, `Viewer` and
`Codestream`, not in `Converter`, `BlockCodec`, `Transcoder` and `Memory`, whose
programs end. **Bounds in guards**: `MaxOutbox` in `OnPictureTaken`, `MaxClock`
in `Tick` of `UploadScript`, `MaxIndex` in `Press`, `MaxObjects` and `MaxArrays`
in the requests of `Memory`.

**Fairness.** `LooperFairness`: the main looper serves a callback that stays due
(the surface callbacks, the two Runnables). Nothing makes the user act, the
network return, a picture arrive or an upload end, and none of these has
fairness. `WF_vars(Tick)`: the browser fires an interval that stays set.
`KeepsShooting` assumes that no outage meets a session, which is as much as the
code gives (a readiness check that fails ends the pictures of a session for good,
as `TimerLostOnlyOffline` allows), and a camera without faults; `BecomesReady` that
network and URL stay, and the same of the camera. A PHP worker and the converter
have no time limit in the code, so nothing is claimed of their coming to an end.

## 4. Proofs

All theorems are of the form `Spec => []Inv`, `Spec => [][A]_vars` or
`Spec => Abstract`, for every value of the constants under the named assumptions
of the modules.

**GoSkyApp_proofs.** The invariants the run checks are not inductive. `IInv`
adds what connects them. `ArmedCamera`: in a running activity that is ready, has
Start enabled or is in a session, the device has a camera and the static camera
is *open*; what sets `_isAppReady` opened it and only the end of the activity
releases it. `Destinations`: a session, or a picture still to come from an open
camera, implies that the URL was set. `CameraLife`: the static camera over the
life of the process. Each action has a lemma. From `IInv` follow `TypeCorrect`,
`SingleTimer`, `ReleasedNeverArms`, `AllUploadsHaveDestination`, and, as action
properties, `TimerIsSafe` (a posted `mainOperation` meets neither a null wrapper
nor a released camera) and `TimerOnlyLostOffline`.

The same module holds the theorems about the identifier key. `Replacement` says that a file an activity is about to
overwrite is not intact unless it could not be opened; `FirstIsSaved` that
without faults the file holds the first key from the moment it is shown. With
them, `KeyIsForLife` and `IntactKeyStays` are immediate.

**Gallery_proofs.** `Inv1` ties the answer to the place in the script: a
request that is past the move has an answer, OK exactly if it was stored, in an
hour's directory that exists (directories are only ever added).
`PublishedWasStored` needs that a request that converts has been stored. `Inv2`
is for `RefusedOnlyByRace`: a day's directory has a maker, a request that read
that day and is past its own attempt; a request past `mkdir` either has its
hour's directory or lost a race, for a lost race there is such a maker other
than itself, and a request that is not in `Faults` fails for no other reason.
`Inv3` is for `SettledGallery`: who has passed the `converted` directory and lost
no race finds it (`ConvertedIsThere`), and a file that an accepted request has
converted is whole, or somebody is writing it, or a request whose conversion may
fail has had it in its hands (`ConvertedIsWhole`).

`ListingInv` is for the reader. What is listed is published, of the day that was
asked for, of an hour before those that are left, and in the order of hours and
names; what was published before is listed or of an hour that is left. From it
follow `ListingsAreCurrent` and, with `StoredWasAccepted` (what is stored was
accepted, in a directory that the gallery can find), `ListingsAreChronological`.

**Viewer_proofs.** `IInv` is the type invariant, the distance of the index from
the picture, the slider, and that pictures are there exactly when one is shown
and only after the requests ended. `ChangeImageSrcInv` proves it once for the
function that every control and the timer call; `PlayerSkipsNothing` follows for
a tick.

**Converter_proofs.** `SharedOutputs` has two cases. Without a race it needs
`OneWriter`: a file holds exactly what one of the runs that opened it has
written. After races between runs with one image it needs `LastWriterIsThere`,
that the run that emptied the file last finds something at every position it has
written, and `Origin`, that whatever is in the file one of its runs wrote at its
own position: with one image for all there is nothing else it could be. Of runs
with different images after a race nothing is claimed, for the file may be a mix.
`ImplementsConversion` needs `Exclusive`: unless the file was raced for, a run
that is writing has it to itself and finds there exactly what it wrote, and one
that finished completed it; so only after a race can a write spoil a whole file.
Runs, command lines, pictures, lengths and the buffer's size are arbitrary.

The geometry has an invariant of its own: `Geometry` says that a run that maps
has the parameters of its command line, for a picture that was decoded and a
centre that was not refused (`Placed`). The rest is integer arithmetic, for
pictures of any size (`PictureAssumption`: a picture that can be decoded has a
width and a height). Roots are characterised once, as the largest number whose
square is not larger (`SqrtIs`); with that `R_U` and `R_D` are cuts of quotients
(`R_UIs`, `R_DIs`). A point of the flat picture that is further out is not
mapped further in (`ReachesFurther`, `R_DOrder`), and the corners of the flat
picture are no further out than the radius that the edge of the eye maps to,
since its side was computed with 1.41421, which is less than the root of two
(`CornerReach`). So a pixel's radius in the fisheye is at most the eye's
(`R_DInside`), its direction keeps it there (`ProjectOut`), and neither the
clamping nor the cuts take it out (`ClampOut`, `SampleOut`):
`FlatPictureInsideEye`. Along a row both the radius and the share of it that goes
to the side only grow away from the middle (`ShareOrder`, `ProjectOrder`), and
cuts and clamps keep an order: `FlatPictureRowOrder`.

**BlockCodec_proofs.** The sizes are settled when `SetUp` has chosen, and what
follows leaves them alone (`SizeInv`). The scales are tried in order, so the size
chosen is the first that will do; the lemmas say that one does (the last has no
condition), that doubling a component's transform stops at a size there is, that
what is left of the ratio is whole because each doubling took a factor two out of
it, and that the two roundings up, of the encoder and of the decoder, agree.
Widths, scales and bounds are arbitrary; the factors are 1 to 4, as libjpeg's.

**Memory_proofs.** `MemoryInv` has three parts. *Pools* (`PoolOK`): header, used
and left add up to what was obtained, and the objects lie one after the other in
what is used; it holds whichever slop was left after the halvings because a pool
is entered with what it got. *The account* (`StorageOK`): what `malloc` gave is
the manager's own block and the sum over the lists, so that freeing a list takes
out exactly what it brought in. *Windows* (`Whole`, `ArraysOK`). `AccOK` says what
`realize_virt_arrays` keeps from one array to the next, errors included. From the
invariant follow `BooksBalance`, `ObjectsLieApart` and `WindowsHold`.
`BuffersFit` compares sums: each window is at most the array's full height, and
at most `max_minheights` strips, and `max_minheights` strips of all arrays fit
unless it is one. All sizes are arbitrary but the alignment, a power of two up to
16, which the chunk size and the header are multiples of.

`IsPlainArray` rests on four facts about the window (`Inv`): it holds the
strip that was accessed last; without a file it holds every row; where it is not
dirty it agrees with the file on the rows that were written; rows of the strip
that were never written are zeros in it if they should be. `AccessRow` then says
what an access does to a row of the array as the mapping sees it, wherever the
row is. That the accesses never end in the code's impossible case
(`status = "bug"`) is part of `Inv`. `ManagesVirtualArray` shows that the manager
drives its watched array only the way `VirtualArray` allows (it needs the type of
a window and an array's file from `AccOK`), so `WatchedIsPlainArray` holds in the
manager too.

**Transcoder_proofs.** `jpegtran` decides early what it does late, so the
invariant (`IInv`) says what each step has fixed for those that follow:
`Requested` the number of components, the region and the workspace, `Adjusted`
the parameters of the output, `Copied` the markers, `Executed` the arrays.
Sizes, markers and crop specifications are arbitrary, sampling factors 1 to 4
(`SourcesAssumption`, `OptionsAssumption`). `CropsShowRegion` and `NoStrips` are
then arithmetic on one axis (`RegionHolds`, `OutputHolds`). `MarkersCohere` is an
induction over the list: `OfKind` distributes over concatenation and two
selections are one by both. `SamplesInPlace` is put together from
`SamplesMirrored` (negating the odd columns of a block mirrors its samples,
transposing it and its table transposes them), `MovedBlocks` and `FlippedBlocks`
(which block each routine writes where, the one that works in place included),
`PlaceKnown` (a sample of the output lies in a block that is written, and what it
is to show in the uncropped picture) and `SamplesInArrays` (the arrays of the
source have the blocks the in-place routine swaps). As in the model, two rows and
columns of a block stand for eight.

**Compressor_proofs.** `CorrectionBitsAlwaysFit` is about `CompressorSpec`: the
compressor alone, with whatever comes after it as `Afterwards`, a step that
leaves the compressor's state as it is. Every action of `Codestream` is one of
the compressor's or such a step: only `Compress` is enabled while `phase =
"compress"`, no other action goes back there, and all others leave `compressor`
alone. So every behaviour of the run is one of `CompressorSpec`; TLC, given
`CompressorSpec` as a property of the run, agrees. The invariant `CInv` has
three parts. `Validated`: a script that is sent was let pass, so that every band
lies in a block, also after `reduce_script` has cut it (`SentScript`).
`PassOrder`: the number of the pass tells the number of the scan, which stays
inside the script. `RoomLeft`: between two MCUs at most `MAX_CORR_BITS - 63`
bits wait, whichever of the four routines was called, through restarts and
suspensions. That a refining scan keeps it (`AcRefineWaits`) is an induction
over the band, as bits move from `BR` to the output with every new coefficient.
A band of AC coefficients has at most 63. Assumed are what the types of an
application's script and the scaling give (`JobsAssumption`) and that the buffer
has room for a block (`BufferAssumption`).

*Induction.* The sums, the order of realization, chunks of rows, the lists of
hours, the reduction of a script and the refinement of a band are recursive
functions. The induction theorems of the library cannot be
instantiated by the provers, so the induction is done over sets: `NatMin` (a set
of numbers has a least one, from `WellFoundedInduction`) gives `UpTo` (a set that
has 0 and with each number the next has all up to a bound), and the set in
question is that of the numbers for which the claim holds.

**Only model-checked**: what needs fairness (`KeepsShooting`, `BecomesReady`,
`PlayEnds`); the values in the DCTs (`WorkFitsSixteenBits`, `GenerationsAgree`),
which are ranges over hundreds of multipliers, for blocks that the pictures of
the run choose; and of `Codestream` what the decoder does with the file
(`RoundTrip`, `NothingAmiss`, `DamageIsLocal`): the decoder is written with
RECURSIVE operators, which the provers do not take, and that it undoes the
encoder is an induction over data.

## 5. Not modelled, and what is left

Of libjpeg: colour conversion, resampling, colour maps and their quantization
(arithmetic per pixel, in loops without control); arithmetic coding and block
smoothing (options no program of this repository asks for); the fast and the
floating-point DCTs, which the default build does not choose; the readers and
writers of BMP, GIF, PPM, Targa and RLE, and the command lines of the tools but
`jpegtran`; the memory modules for Mac and DOS. Application markers are treated
only where `jpegtran` copies them.

Of the converter: the bitmap code, which is not called, and the row pointer that
`image_saver.c` 73 keeps in an array of no elements, whose outcome depends on
the stack's layout. Of the application: `SaveOnCard` and `AsyncHttpPostTask`,
which nothing reaches, the dialogs and logs, and the chunk loop of
`UploadByteStream`. The build files, jQuery UI, the `fisheye2pano` script and the
one test of the repository, which drives the settings screen of a real device,
are left aside.

Still worth doing, in this order:

1. The application's outbox, the script and the gallery composed, with an
   abstract timelapse (pictures taken, a subset of them shown, in order) that the
   composition implements.
2. A refinement for `Transcoder`: an abstract picture that is turned and cropped
   as a whole, which the blocks that are moved implement.
