----------------------------- MODULE Converter ------------------------------
(***************************************************************************)
(* fisheye2plain: the program that the upload script starts for every      *)
(* fisheye picture, and which turns it into a flat one. Several run at the *)
(* same time, as uploads do, and two of them may write the same output.    *)
(* The picture is decoded and encoded by libjpeg; here only where a call   *)
(* of it may end the program matters. A run may be killed anywhere.        *)
(***************************************************************************)
EXTENDS Dewrap, Sequences

CONSTANTS
  Procs,     \* the runs of the program
  Inputs,    \* names of fisheye pictures
  Outputs,   \* names of flat pictures
  Jobs,      \* the command lines each run may be given
  Pictures,  \* what each input is: <<width, height>>, Missing or Damaged
  Missing, Damaged,
  Length,    \* how long the JPEG file of each flat picture is, in some unit
  OUTPUT_BUF_SIZE  \* how much of it is written at a time (jdatadst.c)

Job == [fin : Inputs, fout : Outputs, R : Nat, x : Nat, y : Nat, inte : Nat,
        help : BOOLEAN, log : BOOLEAN]

ASSUME JobAssumption == Jobs \in [Procs -> SUBSET Job]
ASSUME PictureAssumption ==
  \A i \in Inputs : Pictures[i] \in {Missing, Damaged} \/ Pictures[i] \in Nat \X Nat

Decodable == {j \in UNION {Jobs[p] : p \in Procs} :
                Pictures[j.fin] \notin {Missing, Damaged}}

\* The parameters for a command line whose picture was decoded.
ParametersFor(j) ==
  LET size == Pictures[j.fin] IN
  Parameters(size[1], size[2], j.x, j.y, j.R, j.inte)

\* The flat picture of a command line: one input with one set of parameters
\* always gives the same bytes; two that differ count as different bytes.
ImageOf == [j \in Decodable |-> <<j.fin, ParametersFor(j)>>]
Images == {ImageOf[j] : j \in Decodable}

ASSUME LengthAssumption == Length \in [Images -> Nat \ {0}]
ASSUME BufferAssumption == OUTPUT_BUF_SIZE \in Nat \ {0}

VARIABLES
  pc,        \* where each run is
  job,       \* its command line
  logOpen,   \* progress_log.isOpend
  param,     \* the static variables of dewrap_algo.c
  opened,    \* whether it has opened its output
  written,   \* how much it has written to it
  code,      \* what it exits with
  created,   \* the output files that exist
  content,   \* what each of them holds: whose image, at each position written
  completed, \* outputs that were whole at some time
  raced,     \* outputs that a run emptied while another was writing to them
  progress   \* the outputs named in PROGRESS.txt

fileVars == <<created, content, completed, raced>>
vars == <<pc, job, logOpen, param, opened, written, code, fileVars, progress>>

NoParam == [H_U |-> 0]

Places == {"main", "open", "parameters", "map", "save", "start", "write",
           "report", "exited"}

TypeOK ==
  /\ pc \in [Procs -> Places]
  /\ job \in [Procs -> Job]
  /\ logOpen \in [Procs -> BOOLEAN]
  /\ opened \in [Procs -> BOOLEAN]
  /\ written \in [Procs -> Nat]
  /\ code \in [Procs -> {"none", "0", "1", "killed"}]
  /\ created \subseteq Outputs
  /\ DOMAIN content = Outputs
  /\ \A o \in Outputs : /\ DOMAIN content[o] \subseteq Nat \ {0}
                        /\ \A k \in DOMAIN content[o] : content[o][k] \in Images
  /\ completed \subseteq Outputs
  /\ raced \subseteq Outputs
  /\ progress \subseteq Outputs

Init ==
  /\ pc = [p \in Procs |-> "main"]
  /\ job \in {j \in [Procs -> UNION {Jobs[p] : p \in Procs}] :
               \A p \in Procs : j[p] \in Jobs[p]}
  /\ logOpen = [p \in Procs |-> FALSE]
  /\ param = [p \in Procs |-> NoParam]
  /\ opened = [p \in Procs |-> FALSE]
  /\ written = [p \in Procs |-> 0]
  /\ code = [p \in Procs |-> "none"]
  /\ created = {}
  /\ content = [o \in Outputs |-> <<>>]
  /\ completed = {}
  /\ raced = {}
  /\ progress = {}
-----------------------------------------------------------------------------
Goto(p, from, to) ==
  /\ pc[p] = from
  /\ pc' = [pc EXCEPT ![p] = to]

\* exit(c), wherever the run is: stdio closes the files, which stay as they are.
Exit(p, from, c) ==
  /\ Goto(p, from, "exited")
  /\ code' = [code EXCEPT ![p] = c]
  /\ UNCHANGED <<job, logOpen, param, opened, written, fileVars, progress>>

\* -help prints the help and nothing else, whatever else was asked for.
Help(p) == job[p].help /\ Exit(p, "main", "0")

\* -log opens the log files; one that cannot be opened is done without.
Main(p) ==
  /\ ~job[p].help
  /\ Goto(p, "main", "open")
  /\ logOpen' \in {[logOpen EXCEPT ![p] = b] : b \in {job[p].log, FALSE}}
  /\ UNCHANGED <<job, param, opened, written, code, fileVars, progress>>

\* open_img() decodes the whole picture into memory...
OpenImg(p) ==
  /\ Pictures[job[p].fin] \notin {Missing, Damaged}
  /\ Goto(p, "open", "parameters")
  /\ UNCHANGED <<job, logOpen, param, opened, written, code, fileVars, progress>>

\* ... or ends the program: the file is missing, the memory does not suffice,
\* or libjpeg finds no picture in it (error_exit()).
OpenImgFails(p) == Exit(p, "open", "1")


SetParameters(p) ==
  /\ Goto(p, "parameters", "map")
  /\ CentreInPicture(ParametersFor(job[p]))
  /\ param' = [param EXCEPT ![p] = ParametersFor(job[p])]
  /\ UNCHANGED <<job, logOpen, opened, written, code, fileVars, progress>>

\* A centre outside of the picture ends the program, with exit(0).
CentreOutOfRange(p) ==
  /\ Exit(p, "parameters", "0")
  /\ ~CentreInPicture(ParametersFor(job[p]))

\* create_map(), create_img() and the copy from one to the other.
GenerateImage(p) ==
  /\ Goto(p, "map", "save")
  /\ UNCHANGED <<job, logOpen, param, opened, written, code, fileVars, progress>>

\* The memory does not suffice; never for the picture of a radius of 0, when
\* its size, a NaN as an int, is the least int and not 0.
GenerateImageFails(p) == Exit(p, "map", "1")

\* What a run writes, and whether it has some of it still to write.
Image(p) == ImageOf[job[p]]
Unfinished(p) == written[p] < Length[Image(p)]

\* Other runs that have some of their picture still to write to the same file.
Overlapping(p) ==
  {q \in Procs \ {p} : /\ job[q].fout = job[p].fout
                       /\ pc[q] \in {"start", "write"} /\ Unfinished(q)}

\* save_img(): fopen() empties a file that is there.
OpenOutput(p) ==
  /\ Goto(p, "save", "start")
  /\ opened' = [opened EXCEPT ![p] = TRUE]
  /\ created' = created \cup {job[p].fout}
  /\ content' = [content EXCEPT ![job[p].fout] = <<>>]
  /\ raced' = IF Overlapping(p) # {} THEN raced \cup {job[p].fout} ELSE raced
  /\ UNCHANGED <<job, logOpen, param, written, code, completed, progress>>

OpenOutputFails(p) == Exit(p, "save", "1")

\* jpeg_start_compress() refuses an empty picture, after the file was emptied.
StartCompress(p) ==
  /\ param[p].H_U > 0
  /\ Goto(p, "start", "write")
  /\ UNCHANGED <<job, logOpen, param, opened, written, code, fileVars, progress>>

EmptyImage(p) == param[p].H_U = 0 /\ Exit(p, "start", "1")

\* A file is whole when it is the JPEG file of some image: no byte of another,
\* none missing and none behind its end.
Jpeg(i) == [k \in 1 .. Length[i] |-> i]
IsWhole(file) == \E i \in Images : file = Jpeg(i)

\* fwrite() of n at a position of the output: over what other runs wrote there;
\* what they wrote elsewhere stays.
PutAt(p, at, n) ==
  LET o    == job[p].fout
      here == at + 1 .. at + n
  IN /\ written' = [written EXCEPT ![p] = written[p] + n]
     /\ content' = [content EXCEPT ![o] =
                      [k \in DOMAIN content[o] \cup here |->
                         IF k \in here THEN Image(p) ELSE content[o][k]]]
     /\ completed' = IF IsWhole(content'[o]) THEN completed \cup {o}
                                             ELSE completed
     /\ UNCHANGED <<job, logOpen, param, opened, created, raced, progress>>

\* The file position of a run is behind what it has written itself.
Put(p, n) == PutAt(p, written[p], n)

\* A full buffer, or what jpeg_finish_compress() finds in the last one.
InBuffer(p) ==
  IF Length[Image(p)] - written[p] < OUTPUT_BUF_SIZE
  THEN Length[Image(p)] - written[p] ELSE OUTPUT_BUF_SIZE

\* Mutant: the run goes on behind the end of the file, wherever others put it,
\* as it would in a file opened for appending.
WriteAtEnd(p) ==
  /\ pc[p] = "write" /\ Unfinished(p)
  /\ PutAt(p, Max(DOMAIN content[job[p].fout] \cup {0}), InBuffer(p))
  /\ UNCHANGED <<pc, code>>

\* The next fwrite(): a buffer of what is left.
WriteBuffer(p) ==
  /\ pc[p] = "write" /\ Unfinished(p)
  /\ Put(p, InBuffer(p))
  /\ UNCHANGED <<pc, code>>

\* A short fwrite() ends the program (error_exit()); what was written stays.
WriteFails(p) ==
  /\ pc[p] = "write" /\ Unfinished(p)
  /\ \E n \in 0 .. InBuffer(p) - 1 : Put(p, n)
  /\ pc' = [pc EXCEPT ![p] = "exited"]
  /\ code' = [code EXCEPT ![p] = "1"]

\* Mutant: the log is written before the last buffer is.
CloseOutputEarly(p) ==
  /\ Goto(p, "write", "report")
  /\ UNCHANGED <<job, logOpen, param, opened, written, code, fileVars, progress>>

\* jpeg_finish_compress() and fclose(), after the last buffer.
CloseOutput(p) ==
  /\ pc[p] = "write" /\ ~Unfinished(p)
  /\ Goto(p, "write", "report")
  /\ UNCHANGED <<job, logOpen, param, opened, written, code, fileVars, progress>>

\* The line in PROGRESS.txt and the end of main().
Report(p) ==
  /\ Goto(p, "report", "exited")
  /\ code' = [code EXCEPT ![p] = "0"]
  /\ progress' = IF logOpen[p] THEN progress \cup {job[p].fout} ELSE progress
  /\ logOpen' = [logOpen EXCEPT ![p] = FALSE]
  /\ UNCHANGED <<job, param, opened, written, fileVars>>

\* The process is killed: the server stops, or runs out of memory.
Killed(p) ==
  /\ pc[p] # "exited"
  /\ Exit(p, pc[p], "killed")
-----------------------------------------------------------------------------
Step(p) ==
  \/ Help(p) \/ Main(p)
  \/ OpenImg(p) \/ OpenImgFails(p)
  \/ SetParameters(p) \/ CentreOutOfRange(p)
  \/ GenerateImage(p) \/ GenerateImageFails(p)
  \/ OpenOutput(p) \/ OpenOutputFails(p)
  \/ StartCompress(p) \/ EmptyImage(p)
  \/ WriteBuffer(p) \/ WriteFails(p) \/ CloseOutput(p)
  \/ Report(p)

Next == \E p \in Procs : Step(p) \/ Killed(p)

Spec == Init /\ [][Next]_vars
-----------------------------------------------------------------------------
Whole(o) == IsWhole(content[o])

Writers(o) == {p \in Procs : opened[p] /\ job[p].fout = o}

\* When every run that opened an output has written all of its picture, the
\* file is one whole picture, if no run emptied it while another was writing,
\* or if they did but all write the same picture, however they overlapped and
\* whichever emptied the file last (image_saver.c 79-107: each run writes all
\* of its picture, at its own position).
SharedOutputIsWhole ==
  \A o \in Outputs :
    /\ Writers(o) # {} /\ \A p \in Writers(o) : ~Unfinished(p)
    /\ o \in raced => \A p, q \in Writers(o) : Image(p) = Image(q)
    => Whole(o)

\* What the upload script and the gallery count on: the file of a picture is
\* created, completed, perhaps begun again or, after a race of two runs for it,
\* written over by another picture, and PROGRESS.txt names only
\* pictures that were complete (main.c 81-96).
PictureOf == [o \in Outputs |-> IF o \notin created THEN "absent"
                                ELSE IF Whole(o) THEN "whole" ELSE "partial"]
Begun == {p \in Procs : opened[p]}
C == INSTANCE Conversion WITH Runs <- Procs, begun <- Begun,
                              picture <- PictureOf, reported <- progress
ConversionSpec == C!Spec

\* create_map() for every command line.
Maps == [q \in {ParametersFor(j) : j \in Decodable} |-> CreateMap(q)]

Centre(q) == <<q.C_U, q.C_U>>
Right(q, at) == IF <<at[1] + 1, at[2]>> = Centre(q) THEN <<at[1] + 2, at[2]>>
                                                    ELSE <<at[1] + 1, at[2]>>

\* How far out an offset lies, not counting that a negative one is cut down.
Outward(d) == IF d < 0 THEN -d - 1 ELSE d

InsideEye ==
  {q \in DOMAIN Maps : \A at \in DOMAIN Maps[q] \ {Centre(q)} :
     LET dx == Outward(Maps[q][at][1] - q.C_Dx)
         dy == Outward(Maps[q][at][2] - q.C_Dy)
     IN dx * dx + dy * dy <= q.R_eye * q.R_eye}

InRowOrder ==
  {q \in DOMAIN Maps : \A at \in DOMAIN Maps[q] \ {Centre(q)} :
     Right(q, at) \in DOMAIN Maps[q] => Maps[q][at][1] <= Maps[q][Right(q, at)][1]}

Mapping == {p \in Procs : pc[p] = "map"}

\* In every flat picture, the corners included, each pixel but the centre is
\* taken from within the fisheye's circle, to the pixel: the flat picture's
\* size fits the radius (dewrap_algo.c 62-92, 129-137).
SamplesInsideEye == \A p \in Mapping : param[p] \in InsideEye

\* The flat picture does not fold: along each of its rows, but for the centre,
\* the pixels come from left to right, although radius, direction and sum are
\* cut to integers one after the other (dewrap_algo.c 62-92).
RowsKeepOrder == \A p \in Mapping : param[p] \in InRowOrder
=============================================================================
