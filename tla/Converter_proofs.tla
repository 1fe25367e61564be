-------------------------- MODULE Converter_proofs --------------------------
(***************************************************************************)
(* Proofs about Converter, for any number of runs, command lines and any   *)
(* lengths of the files: an output that several runs share ends up as one  *)
(* whole picture unless runs with different ones raced for it, and a run   *)
(* does what Conversion promises. For any picture and any parameters, each *)
(* pixel of the flat picture comes from within the eye, and no row folds.  *)
(***************************************************************************)
EXTENDS Converter, WellFoundedInduction, TLAPS

\* A run that has opened its output and has some of it still to write.
Busy(p) == pc[p] \in {"start", "write"} /\ Unfinished(p)

\* A file that holds what a run has written and nothing else.
Prefix(p) == [k \in 1 .. written[p] |-> Image(p)]

\* The types of what the proofs need: the parameters are left out.
Types ==
  /\ pc \in [Procs -> Places]
  /\ \A p \in Procs : job[p] \in Jobs[p]
  /\ opened \in [Procs -> BOOLEAN]
  /\ written \in [Procs -> Nat]
  /\ created \subseteq Outputs
  /\ content = [o \in Outputs |-> content[o]]
  /\ \A o \in Outputs : content[o] = [k \in DOMAIN content[o] |-> content[o][k]]
  /\ completed \subseteq Outputs
  /\ raced \subseteq Outputs

Late == {"start", "write", "report", "exited"}
Decoded == {"parameters", "map", "save", "start", "write", "report"}

\* Only a run that opened its output writes to it; the file is there then.
Opening ==
  /\ \A p \in Procs :
       /\ pc[p] \in Decoded => job[p] \in Decodable
       /\ pc[p] \in {"start", "write", "report"} => opened[p]
       /\ pc[p] = "report" => ~Unfinished(p)
       /\ opened[p] => /\ job[p].fout \in created /\ pc[p] \in Late
                       /\ job[p] \in Decodable
                       /\ written[p] <= Length[Image(p)]
       /\ ~opened[p] => written[p] = 0
  /\ \A o \in Outputs : DOMAIN content[o] # {} => o \in created
  /\ \A o \in Outputs : Whole(o) => o \in completed

\* Whichever run emptied the file last, there is something at every position
\* it has written.
LastWriterIsThere ==
  \A o \in Outputs : Writers(o) # {} =>
    \E p \in Writers(o) : 1 .. written[p] \subseteq DOMAIN content[o]

\* What is in a file, one of its writers wrote there.
Origin ==
  \A o \in Outputs : \A k \in DOMAIN content[o] :
    \E p \in Writers(o) : k \in 1 .. written[p] /\ content[o][k] = Image(p)

\* Without a race, a file holds what one of its writers wrote and no more.
OneWriter ==
  \A o \in Outputs \ raced : Writers(o) # {} =>
    \E p \in Writers(o) : content[o] = Prefix(p)

\* Without a race, a busy run has the file to itself, and one that wrote all
\* of it completed the file.
Exclusive ==
  \A p \in Procs : opened[p] /\ job[p].fout \notin raced =>
    /\ Busy(p) => /\ content[job[p].fout] = Prefix(p)
                  /\ \A q \in Procs : Busy(q) /\ job[q].fout = job[p].fout => q = p
    /\ ~Unfinished(p) => job[p].fout \in completed

Inv == /\ Types /\ Opening /\ LastWriterIsThere /\ Origin /\ OneWriter
       /\ Exclusive

\* The file of a decodable command line has a length.
LEMMA ImageFacts ==
  ASSUME NEW j \in Decodable
  PROVE  ImageOf[j] \in Images /\ Length[ImageOf[j]] \in Nat \ {0}
BY LengthAssumption DEF Images

\* A job names one of the outputs.
LEMMA JobFacts ==
  ASSUME Types, NEW p \in Procs
  PROVE  job[p] \in Job /\ job[p].fout \in Outputs
<1>1. job[p] \in Job
  BY JobAssumption DEF Types
<1> QED
  BY <1>1 DEF Job

\* An empty file is not whole.
LEMMA EmptyNotWhole ==
  ASSUME NEW file, DOMAIN file = {}
  PROVE  ~IsWhole(file)
<1> SUFFICES ASSUME NEW i \in Images, file = Jpeg(i) PROVE FALSE
  BY DEF IsWhole
<1>1. Length[i] \in Nat \ {0} /\ DOMAIN file = 1 .. Length[i]
  BY LengthAssumption DEF Jpeg
<1> QED
  BY <1>1

\* The beginning of a file is whole exactly when it is all of it.
LEMMA PrefixWhole ==
  ASSUME NEW j \in Decodable, NEW n \in Nat, n <= Length[ImageOf[j]]
  PROVE  IsWhole([k \in 1 .. n |-> ImageOf[j]]) <=> ~(n < Length[ImageOf[j]])
<1> DEFINE i == ImageOf[j]
           file == [k \in 1 .. n |-> i]
<1>1. i \in Images /\ Length[i] \in Nat \ {0}
  BY ImageFacts
<1>2. ASSUME ~(n < Length[i]) PROVE IsWhole(file)
  <2>1. n = Length[i]
    BY <1>1, <1>2
  <2>2. file = Jpeg(i)
    BY <2>1 DEF Jpeg
  <2> QED
    BY <1>1, <2>2 DEF IsWhole
<1>3. ASSUME NEW x \in Images, file = Jpeg(x) PROVE ~(n < Length[i])
  <2>1. Length[x] \in Nat \ {0} /\ DOMAIN Jpeg(x) = 1 .. Length[x]
    BY LengthAssumption DEF Jpeg
  <2>2. DOMAIN file = 1 .. n
    OBVIOUS
  <2>3. 1 .. n = 1 .. Length[x]
    BY <1>3, <2>1, <2>2
  <2>4. 1 \in 1 .. Length[x] /\ Length[x] \in 1 .. Length[x]
    BY <2>1
  <2>5. Length[x] <= n
    BY <2>3, <2>4
  <2>6. file[1] = i /\ Jpeg(x)[1] = x
    BY <2>3, <2>4 DEF Jpeg
  <2> QED
    BY <1>1, <1>3, <2>1, <2>5, <2>6
<1> QED
  BY <1>2, <1>3 DEF IsWhole

\* No run has begun.
LEMMA InitInv == Init => Inv
<1> SUFFICES ASSUME Init PROVE Inv
  OBVIOUS
<1>1. \A o \in Outputs : content[o] = <<>> /\ DOMAIN content[o] = {}
  BY DEF Init
<1>2. Types
  BY DEF Init, Types, Places
<1>3. \A p \in Procs : pc[p] = "main" /\ opened[p] = FALSE /\ written[p] = 0
  BY DEF Init
<1>4. Opening
  BY <1>1, <1>3, EmptyNotWhole DEF Opening, Whole, Decoded
<1>5. LastWriterIsThere /\ Origin /\ OneWriter /\ Exclusive
  BY <1>1, <1>3 DEF LastWriterIsThere, Origin, OneWriter, Exclusive, Writers
<1> QED
  BY <1>2, <1>4, <1>5 DEF Inv

\* A step that neither opens nor writes an output.
Aside(p) ==
  /\ UNCHANGED <<job, opened, written, fileVars>>
  /\ \A q \in Procs \ {p} : pc'[q] = pc[q]
  /\ pc' \in [Procs -> Places]
  /\ pc'[p] \in Decoded => job[p] \in Decodable
  /\ pc'[p] \in {"start", "write"} => pc[p] \in {"start", "write"}
  /\ pc'[p] \in {"start", "write", "report"} => opened[p]
  /\ pc'[p] = "report" => ~Unfinished(p)
  /\ pc[p] \in Late => pc'[p] \in Late

\* A step that writes some of what is left of the run's picture.
Writing(p) ==
  /\ pc[p] = "write" /\ Unfinished(p)
  /\ \E n \in Nat : written[p] + n <= Length[Image(p)] /\ Put(p, n)
  /\ \A q \in Procs \ {p} : pc'[q] = pc[q]
  /\ pc' \in [Procs -> Places]
  /\ pc'[p] \in {"write", "exited"}

\* The steps of a run are its opening, its writing and steps aside.
LEMMA StepCases ==
  ASSUME Inv, NEW p \in Procs, Step(p) \/ Killed(p)
  PROVE  Aside(p) \/ OpenOutput(p) \/ Writing(p)
<1> USE DEF Inv, Types, Opening, Places, Late, Decoded
<1>1. ASSUME NEW from, NEW c, Exit(p, from, c)
      PROVE  Aside(p)
  BY <1>1 DEF Exit, Goto, Aside
<1>2. CASE Help(p) \/ OpenImgFails(p) \/ CentreOutOfRange(p)
           \/ GenerateImageFails(p) \/ OpenOutputFails(p) \/ EmptyImage(p)
           \/ Killed(p)
  BY <1>1, <1>2 DEF Help, OpenImgFails, CentreOutOfRange, GenerateImageFails,
                    OpenOutputFails, EmptyImage, Killed
<1>3. CASE Main(p)
  BY <1>3 DEF Main, Goto, Aside, fileVars
<1>4. CASE OpenImg(p)
  <2>1. job[p] \in Decodable
    BY <1>4 DEF OpenImg, Decodable
  <2> QED
    BY <1>4, <2>1 DEF OpenImg, Goto, Aside, fileVars
<1>5. CASE SetParameters(p)
  BY <1>5 DEF SetParameters, Goto, Aside, fileVars
<1>6. CASE GenerateImage(p)
  BY <1>6 DEF GenerateImage, Goto, Aside, fileVars
<1>7. CASE StartCompress(p)
  BY <1>7 DEF StartCompress, Goto, Aside, fileVars
<1>8. CASE CloseOutput(p)
  BY <1>8 DEF CloseOutput, Goto, Aside, fileVars
<1>9. CASE Report(p)
  BY <1>9 DEF Report, Goto, Aside, fileVars
<1>10. ASSUME pc[p] = "write", Unfinished(p)
       PROVE  /\ InBuffer(p) \in Nat
              /\ \A n \in 0 .. InBuffer(p) : n \in Nat /\ written[p] + n <= Length[Image(p)]
  <2>1. Length[Image(p)] \in Nat /\ written[p] \in Nat
    BY <1>10, ImageFacts DEF Image
  <2>2. written[p] < Length[Image(p)]
    BY <1>10 DEF Unfinished
  <2> QED
    BY <2>1, <2>2, BufferAssumption DEF InBuffer
<1>11. CASE WriteBuffer(p)
  BY <1>10, <1>11 DEF WriteBuffer, Writing
<1>12. CASE WriteFails(p)
  <2>1. PICK n \in 0 .. InBuffer(p) - 1 : Put(p, n)
    BY <1>12 DEF WriteFails
  <2>2. pc[p] = "write" /\ Unfinished(p) /\ pc' = [pc EXCEPT ![p] = "exited"]
    BY <1>12 DEF WriteFails
  <2>3. n \in Nat /\ written[p] + n <= Length[Image(p)]
    BY <1>10, <2>2
  <2> QED
    BY <2>1, <2>2, <2>3 DEF Writing
<1> QED
  BY <1>2, <1>3, <1>4, <1>5, <1>6, <1>7, <1>8, <1>9, <1>11, <1>12 DEF Step

\* A step aside changes nothing the invariant looks at.
LEMMA AsideKeeps ==
  ASSUME Inv, NEW p \in Procs, Aside(p)
  PROVE  Inv'
<1> USE DEF Inv, Aside, fileVars
<1>1. Types'
  BY DEF Types
<1>2. \A q \in Procs : /\ Unfinished(q)' <=> Unfinished(q)
                       /\ Image(q)' = Image(q) /\ Prefix(q)' = Prefix(q)
  BY DEF Unfinished, Image, Prefix
<1>3. Opening'
  <2>1. ASSUME NEW q \in Procs
        PROVE  /\ pc'[q] \in Decoded => job[q] \in Decodable
               /\ pc'[q] \in {"start", "write", "report"} => opened[q]
               /\ pc'[q] = "report" => ~Unfinished(q)
               /\ opened[q] => /\ job[q].fout \in created /\ pc'[q] \in Late
                               /\ job[q] \in Decodable
                               /\ written[q] <= Length[Image(q)]
               /\ ~opened[q] => written[q] = 0
    <3>1. CASE q # p
      BY <3>1 DEF Opening
    <3>2. CASE q = p
      BY <3>2 DEF Opening
    <3> QED
      BY <3>1, <3>2
  <2> QED
    BY <1>2, <2>1 DEF Opening, Whole
<1>4. LastWriterIsThere' /\ Origin' /\ OneWriter'
  BY <1>2 DEF LastWriterIsThere, Origin, OneWriter, Writers
<1>5. \A q \in Procs : Busy(q)' => Busy(q)
  BY <1>2 DEF Busy
<1>6. Exclusive'
  BY <1>2, <1>5 DEF Exclusive
<1> QED
  BY <1>1, <1>3, <1>4, <1>6

\* Opening an output makes the run the last writer of an empty file.
LEMMA OpenKeeps ==
  ASSUME Inv, NEW p \in Procs, OpenOutput(p)
  PROVE  Inv'
<1> DEFINE o == job[p].fout
<1> USE DEF Inv, OpenOutput, Goto, fileVars
<1>1. o \in Outputs
  BY JobFacts
<1>2. Types'
  <2>1. pc' \in [Procs -> Places]
    BY DEF Types, Places
  <2>2. content' = [x \in Outputs |-> content'[x]]
    BY DEF Types
  <2>3. \A x \in Outputs : content'[x] = IF x = o THEN <<>> ELSE content[x]
    BY DEF Types
  <2>4. \A x \in Outputs : content'[x] = [k \in DOMAIN content'[x] |-> content'[x][k]]
    <3> TAKE x \in Outputs
    <3>1. CASE x = o
      <4>1. content'[x] = <<>>
        BY <2>3, <3>1
      <4> QED
        BY <4>1
    <3>2. CASE x # o
      BY <2>3, <3>2 DEF Types
    <3> QED
      BY <3>1, <3>2
  <2> QED
    BY <1>1, <2>1, <2>2, <2>4 DEF Types
<1>3. /\ ~opened[p] /\ written[p] = 0 /\ opened'[p] /\ pc'[p] = "start"
      /\ job[p] \in Decodable
  BY DEF Opening, Types, Late, Decoded
<1>4. /\ DOMAIN content'[o] = {} /\ content'[o] = <<>>
      /\ \A x \in Outputs \ {o} : content'[x] = content[x]
  BY <1>1 DEF Types
<1>5. \A q \in Procs \ {p} : pc'[q] = pc[q] /\ opened'[q] = opened[q]
  BY DEF Types
<1>6. ~Whole(o)'
  BY <1>4, EmptyNotWhole DEF Whole
<1>7. \A q \in Procs : /\ Unfinished(q)' <=> Unfinished(q)
                       /\ Image(q)' = Image(q) /\ Prefix(q)' = Prefix(q)
  BY DEF Unfinished, Image, Prefix
<1>8. content'[o] = Prefix(p) /\ 1 .. written[p] = {} /\ Unfinished(p)
  <2>1. Length[Image(p)] \in Nat \ {0}
    BY <1>3, ImageFacts DEF Image
  <2>2. 1 .. written[p] = {}
    BY <1>3
  <2>3. Prefix(p) = <<>>
    BY <2>2 DEF Prefix
  <2> QED
    BY <1>3, <1>4, <2>1, <2>2, <2>3 DEF Unfinished
<1>9. Opening'
  <2>1. ASSUME NEW q \in Procs
        PROVE  /\ pc'[q] \in Decoded => job[q] \in Decodable
               /\ pc'[q] \in {"start", "write", "report"} => opened'[q]
               /\ pc'[q] = "report" => ~Unfinished(q)
               /\ opened'[q] => /\ job[q].fout \in created' /\ pc'[q] \in Late
                                /\ job[q] \in Decodable
                                /\ written[q] <= Length[Image(q)]
               /\ ~opened'[q] => written[q] = 0
    <3>1. CASE q = p
      <4>1. 0 <= Length[Image(p)]
        BY <1>3, ImageFacts DEF Image
      <4> QED
        BY <1>3, <3>1, <4>1 DEF Late
    <3>2. CASE q # p
      BY <1>5, <3>2 DEF Opening
    <3> QED
      BY <3>1, <3>2
  <2>2. \A x \in Outputs : DOMAIN content'[x] # {} => x \in created'
    BY <1>4 DEF Opening
  <2>3. \A x \in Outputs : Whole(x)' => x \in completed'
    BY <1>4, <1>6 DEF Opening, Whole
  <2> QED
    BY <1>7, <2>1, <2>2, <2>3 DEF Opening
<1>10. /\ p \in Writers(o)'
       /\ \A x \in Outputs \ {o} : Writers(x)' = Writers(x)
  BY <1>3, <1>5 DEF Writers
<1>11. LastWriterIsThere'
  <2> SUFFICES ASSUME NEW x \in Outputs, Writers(x)' # {}
               PROVE  \E q \in Writers(x)' : 1 .. written[q] \subseteq DOMAIN content'[x]
    BY DEF LastWriterIsThere
  <2>1. CASE x = o
    BY <1>8, <1>10, <2>1
  <2>2. CASE x # o
    BY <1>4, <1>10, <2>2 DEF LastWriterIsThere
  <2> QED
    BY <2>1, <2>2
<1>12. Origin'
  <2> SUFFICES ASSUME NEW x \in Outputs, NEW k \in DOMAIN content'[x]
               PROVE  \E q \in Writers(x)' : k \in 1 .. written[q] /\ content'[x][k] = Image(q)
    BY <1>7 DEF Origin, Writers
  <2>1. x # o /\ content'[x] = content[x] /\ Writers(x)' = Writers(x)
    BY <1>4, <1>10
  <2> QED
    BY <2>1 DEF Origin
<1>13. OneWriter'
  <2> SUFFICES ASSUME NEW x \in Outputs, x \notin raced', Writers(x)' # {}
               PROVE  \E q \in Writers(x)' : content'[x] = Prefix(q)
    BY <1>7 DEF OneWriter, Writers
  <2>1. CASE x = o
    BY <1>8, <1>10, <2>1
  <2>2. CASE x # o
    <3>1. x \notin raced
      OBVIOUS
    <3> QED
      BY <1>4, <1>10, <2>2, <3>1 DEF OneWriter
  <2> QED
    BY <2>1, <2>2
<1>14. Exclusive'
  <2> SUFFICES ASSUME NEW q \in Procs, opened'[q], job[q].fout \notin raced'
               PROVE  /\ Busy(q)' =>
                           /\ content'[job[q].fout] = Prefix(q)
                           /\ \A r \in Procs :
                                Busy(r)' /\ job[r].fout = job[q].fout => r = q
                      /\ ~Unfinished(q) => job[q].fout \in completed
    BY <1>7 DEF Exclusive
  <2>1. job[q].fout \notin raced /\ job[q].fout \in Outputs
    BY JobFacts
  <2>2. CASE job[q].fout # o
    <3>1. q # p
      BY <2>2
    <3>2. \A r \in Procs : job[r].fout = job[q].fout => (Busy(r)' <=> Busy(r))
      BY <1>5, <1>7, <2>2 DEF Busy
    <3>3. opened[q]
      BY <1>5, <3>1
    <3> QED
      BY <1>4, <2>1, <2>2, <3>2, <3>3 DEF Exclusive
  <2>3. CASE job[q].fout = o
    <3>1. Overlapping(p) = {}
      BY <2>3
    <3>2. \A r \in Procs : Busy(r)' /\ job[r].fout = o => r = p
      BY <1>5, <1>7, <3>1 DEF Overlapping, Busy
    <3>3. CASE q = p
      BY <1>8, <3>2, <3>3
    <3>4. CASE q # p
      <4>1. ~Busy(q)' /\ opened[q]
        BY <1>5, <2>3, <3>2, <3>4
      <4> QED
        BY <2>1, <4>1 DEF Exclusive
    <3> QED
      BY <3>3, <3>4
  <2> QED
    BY <2>2, <2>3
<1> QED
  BY <1>2, <1>9, <1>11, <1>12, <1>13, <1>14

\* What a write does to the file, and to the others.
LEMMA WriteFacts ==
  ASSUME Inv, NEW p \in Procs, Writing(p)
  PROVE  /\ job[p].fout \in Outputs /\ opened[p] /\ job[p] \in Decodable /\ Busy(p)
         /\ UNCHANGED <<job, opened, created, raced, progress>>
         /\ written' \in [Procs -> Nat]
         /\ written[p] <= written'[p] /\ written'[p] <= Length[Image(p)]
         /\ \A q \in Procs : Image(q)' = Image(q)
         /\ \A q \in Procs \ {p} : /\ written'[q] = written[q]
                                   /\ Unfinished(q)' <=> Unfinished(q)
                                   /\ Prefix(q)' = Prefix(q)
         /\ content' = [x \in Outputs |-> content'[x]]
         /\ \A x \in Outputs \ {job[p].fout} : content'[x] = content[x]
         /\ content'[job[p].fout] =
              [k \in DOMAIN content[job[p].fout] \cup (written[p] + 1 .. written'[p]) |->
                 IF k \in written[p] + 1 .. written'[p] THEN Image(p)
                                          ELSE content[job[p].fout][k]]
         /\ completed' = IF Whole(job[p].fout)' THEN completed \cup {job[p].fout}
                                                ELSE completed
<1> DEFINE o == job[p].fout
<1>1. o \in Outputs
  BY JobFacts DEF Inv
<1>2. opened[p] /\ job[p] \in Decodable /\ Busy(p)
  BY DEF Inv, Opening, Writing, Busy
<1>3. PICK n \in Nat : written[p] + n <= Length[Image(p)] /\ Put(p, n)
  BY DEF Writing
<1>4. /\ UNCHANGED <<job, opened, created, raced, progress>>
      /\ written' = [written EXCEPT ![p] = written[p] + n]
      /\ content' = [content EXCEPT ![o] =
                       [k \in DOMAIN content[o] \cup (written[p] + 1 .. written[p] + n) |->
                          IF k \in written[p] + 1 .. written[p] + n
                          THEN Image(p) ELSE content[o][k]]]
      /\ completed' = IF IsWhole(content'[o]) THEN completed \cup {o} ELSE completed
  BY <1>3 DEF Put, PutAt
<1>5. written \in [Procs -> Nat] /\ content = [x \in Outputs |-> content[x]]
  BY DEF Inv, Types
<1>6. /\ written' \in [Procs -> Nat] /\ written'[p] = written[p] + n
      /\ \A q \in Procs \ {p} : written'[q] = written[q]
  BY <1>4, <1>5
<1>7. written[p] \in Nat /\ written[p] <= written'[p]
  BY <1>5, <1>6
<1>8. /\ content' = [x \in Outputs |-> content'[x]]
      /\ \A x \in Outputs \ {o} : content'[x] = content[x]
      /\ content'[o] = [k \in DOMAIN content[o] \cup (written[p] + 1 .. written'[p]) |->
                          IF k \in written[p] + 1 .. written'[p]
                          THEN Image(p) ELSE content[o][k]]
  BY <1>1, <1>4, <1>5, <1>6
<1>9. Whole(o)' <=> IsWhole(content'[o])
  BY <1>4 DEF Whole
<1>10. \A q \in Procs : Image(q)' = Image(q)
  BY <1>4 DEF Image
<1>11. \A q \in Procs \ {p} : (Unfinished(q)' <=> Unfinished(q)) /\ Prefix(q)' = Prefix(q)
  BY <1>6, <1>10 DEF Unfinished, Prefix
<1> QED
  BY <1>1, <1>2, <1>3, <1>4, <1>6, <1>7, <1>8, <1>9, <1>10, <1>11

\* A run that had the file to itself still has it so after a write.
LEMMA WriteExtends ==
  ASSUME Inv, NEW p \in Procs, Writing(p), content[job[p].fout] = Prefix(p)
  PROVE  content'[job[p].fout] = Prefix(p)'
<1> DEFINE o == job[p].fout
           here == written[p] + 1 .. written'[p]
<1>1. written[p] \in Nat /\ written'[p] \in Nat /\ written[p] <= written'[p]
  <2>1. written \in [Procs -> Nat]
    BY DEF Inv, Types
  <2>2. written' \in [Procs -> Nat] /\ written[p] <= written'[p]
    BY WriteFacts
  <2> QED
    BY <2>1, <2>2
<1>2. (1 .. written[p]) \cup here = 1 .. written'[p]
  BY <1>1
<1>3. DOMAIN content[o] = 1 .. written[p] /\ \A k \in 1 .. written[p] : content[o][k] = Image(p)
  BY DEF Prefix
<1>4. content'[o] = [k \in DOMAIN content[o] \cup here |->
                       IF k \in here THEN Image(p) ELSE content[o][k]]
  BY WriteFacts
<1>5. content'[o] = [k \in 1 .. written'[p] |-> Image(p)]
  BY <1>2, <1>3, <1>4
<1>6. Image(p)' = Image(p)
  BY WriteFacts
<1> QED
  BY <1>5, <1>6 DEF Prefix

\* Writing more leaves what the last writer wrote, as far as it is not written
\* over by the same run or another.
LEMMA WriteKeeps ==
  ASSUME Inv, NEW p \in Procs, Writing(p)
  PROVE  Inv'
<1> DEFINE o == job[p].fout
           here == written[p] + 1 .. written'[p]
<1> USE DEF Inv
<1>1. o \in Outputs /\ opened[p] /\ job[p] \in Decodable /\ Busy(p)
  BY WriteFacts
<1>2. UNCHANGED <<job, opened, created, raced>>
  BY WriteFacts
<1>3. /\ written \in [Procs -> Nat] /\ written' \in [Procs -> Nat]
      /\ written[p] <= written'[p] /\ written'[p] <= Length[Image(p)]
  BY WriteFacts DEF Types
<1>4. /\ \A q \in Procs : Image(q)' = Image(q)
      /\ \A q \in Procs \ {p} : /\ written'[q] = written[q]
                                /\ Unfinished(q)' <=> Unfinished(q)
                                /\ Prefix(q)' = Prefix(q)
  BY WriteFacts
<1>5. /\ content' = [x \in Outputs |-> content'[x]]
      /\ \A x \in Outputs \ {o} : content'[x] = content[x]
      /\ content'[o] = [k \in DOMAIN content[o] \cup here |->
                          IF k \in here THEN Image(p) ELSE content[o][k]]
  BY WriteFacts
<1>6. completed' = IF Whole(o)' THEN completed \cup {o} ELSE completed
  BY WriteFacts
<1>7. completed \subseteq completed' /\ completed' \subseteq completed \cup {o}
  BY <1>6
<1>8. /\ \A q \in Procs \ {p} : pc'[q] = pc[q]
      /\ pc' \in [Procs -> Places] /\ pc'[p] \in {"write", "exited"} /\ pc[p] = "write"
  BY DEF Writing
<1>9. Types'
  BY <1>1, <1>2, <1>3, <1>5, <1>7, <1>8 DEF Types
<1>10. Opening'
  <2>1. ASSUME NEW q \in Procs
        PROVE  /\ pc'[q] \in Decoded => job[q] \in Decodable
               /\ pc'[q] \in {"start", "write", "report"} => opened[q]
               /\ pc'[q] = "report" => ~Unfinished(q)'
               /\ opened[q] => /\ job[q].fout \in created /\ pc'[q] \in Late
                               /\ job[q] \in Decodable
                               /\ written'[q] <= Length[Image(q)]
               /\ ~opened[q] => written'[q] = 0
    <3>1. CASE q = p
      BY <1>1, <1>3, <1>8, <3>1 DEF Opening, Late
    <3>2. CASE q # p
      BY <1>4, <1>8, <3>2 DEF Opening
    <3> QED
      BY <3>1, <3>2
  <2>2. \A x \in Outputs : DOMAIN content'[x] # {} => x \in created
    BY <1>1, <1>5 DEF Opening
  <2>3. \A x \in Outputs : Whole(x)' => x \in completed'
    <3> TAKE x \in Outputs
    <3>1. CASE x = o
      BY <1>2, <1>6, <3>1 DEF Whole
    <3>2. CASE x # o
      <4>1. content'[x] = content[x]
        BY <1>5, <3>2
      <4> QED
        BY <1>7, <4>1 DEF Opening, Whole
    <3> QED
      BY <3>1, <3>2
  <2> QED
    BY <1>2, <1>4, <2>1, <2>2, <2>3 DEF Opening
<1>11. \A x \in Outputs : Writers(x)' = Writers(x)
  BY <1>2 DEF Writers
<1>12. LastWriterIsThere'
  <2> SUFFICES ASSUME NEW x \in Outputs, Writers(x) # {}
               PROVE  \E q \in Writers(x) : 1 .. written'[q] \subseteq DOMAIN content'[x]
    BY <1>11 DEF LastWriterIsThere
  <2>1. PICK q \in Writers(x) : 1 .. written[q] \subseteq DOMAIN content[x]
    BY DEF LastWriterIsThere
  <2>2. DOMAIN content[x] \subseteq DOMAIN content'[x]
    BY <1>5
  <2>3. CASE q = p
    <3>1. x = o
      BY <2>3 DEF Writers
    <3>2. 1 .. written'[p] \subseteq (1 .. written[p]) \cup here
      BY <1>3
    <3>3. here \subseteq DOMAIN content'[o]
      BY <1>5
    <3> QED
      BY <2>1, <2>2, <2>3, <3>1, <3>2, <3>3
  <2>4. CASE q # p
    BY <1>4, <2>1, <2>2, <2>4 DEF Writers
  <2> QED
    BY <2>3, <2>4
<1>13. Origin'
  <2> SUFFICES ASSUME NEW x \in Outputs, NEW k \in DOMAIN content'[x]
               PROVE  \E q \in Writers(x) : k \in 1 .. written'[q] /\ content'[x][k] = Image(q)
    BY <1>4, <1>11 DEF Origin, Writers
  <2>1. CASE x = o /\ k \in here
    <3>1. p \in Writers(x) /\ k \in 1 .. written'[p]
      BY <1>1, <1>3, <2>1 DEF Writers
    <3>2. content'[x][k] = Image(p)
      BY <1>5, <2>1
    <3> QED
      BY <3>1, <3>2
  <2>2. CASE ~(x = o /\ k \in here)
    <3>1. k \in DOMAIN content[x] /\ content'[x][k] = content[x][k]
      BY <1>5, <2>2
    <3>2. PICK q \in Writers(x) : k \in 1 .. written[q] /\ content[x][k] = Image(q)
      BY <3>1 DEF Origin
    <3>3. q \in Procs /\ written[q] \in Nat /\ written'[q] \in Nat /\ written[q] <= written'[q]
      BY <1>3, <1>4 DEF Writers
    <3> QED
      BY <3>1, <3>2, <3>3
  <2> QED
    BY <2>1, <2>2
<1>14. o \notin raced => content[o] = Prefix(p) /\ content'[o] = Prefix(p)'
  BY <1>1, WriteExtends DEF Exclusive
<1>15. OneWriter'
  <2> SUFFICES ASSUME NEW x \in Outputs, x \notin raced, Writers(x) # {}
               PROVE  \E q \in Writers(x) : content'[x] = Prefix(q)'
    BY <1>2, <1>11 DEF OneWriter
  <2>1. CASE x = o
    BY <1>1, <1>14, <2>1 DEF Writers
  <2>2. CASE x # o
    <3>1. PICK q \in Writers(x) : content[x] = Prefix(q)
      BY DEF OneWriter
    <3>2. q \in Procs \ {p}
      BY <2>2 DEF Writers
    <3> QED
      BY <1>4, <1>5, <2>2, <3>1, <3>2
  <2> QED
    BY <2>1, <2>2
<1>16. Exclusive'
  <2> SUFFICES ASSUME NEW q \in Procs, opened[q], job[q].fout \notin raced
               PROVE  /\ Busy(q)' =>
                           /\ content'[job[q].fout] = Prefix(q)'
                           /\ \A r \in Procs :
                                Busy(r)' /\ job[r].fout = job[q].fout => r = q
                      /\ ~Unfinished(q)' => job[q].fout \in completed'
    BY <1>2 DEF Exclusive
  <2>1. \A r \in Procs : Busy(r)' => Busy(r)
    BY <1>1, <1>4, <1>8 DEF Busy
  <2>2. CASE q = p
    <3>1. content'[o] = Prefix(p)'
      BY <1>14, <2>2
    <3>2. ~Unfinished(p)' => Whole(o)'
      <4>1. /\ job'[p] \in Decodable /\ written'[p] \in Nat
            /\ written'[p] <= Length[ImageOf[job'[p]]]
        BY <1>1, <1>2, <1>3 DEF Image
      <4>2. IsWhole(Prefix(p)') <=> ~Unfinished(p)'
        BY <4>1, PrefixWhole DEF Prefix, Unfinished, Image
      <4> QED
        BY <1>2, <3>1, <4>2 DEF Whole
    <3>3. ~Unfinished(p)' => o \in completed'
      BY <1>6, <3>2
    <3> QED
      BY <1>1, <2>1, <2>2, <3>1, <3>3 DEF Exclusive
  <2>3. CASE q # p
    <3>1. Busy(q) => job[q].fout # o
      BY <1>1, <2>3 DEF Exclusive
    <3>2. job[q].fout \in Outputs
      BY JobFacts
    <3> QED
      BY <1>4, <1>5, <1>7, <2>1, <2>3, <3>1, <3>2 DEF Exclusive
  <2> QED
    BY <2>2, <2>3
<1> QED
  BY <1>9, <1>10, <1>12, <1>13, <1>15, <1>16

\* Every step keeps the invariant.
LEMMA NextInv == Inv /\ [Next]_vars => Inv'
<1> SUFFICES ASSUME Inv, [Next]_vars PROVE Inv'
  OBVIOUS
<1>1. CASE Next
  BY <1>1, StepCases, AsideKeeps, OpenKeeps, WriteKeeps DEF Next
<1>2. CASE UNCHANGED vars
  <2> USE <1>2 DEF Inv, vars, fileVars
  <2>1. \A q \in Procs : /\ Unfinished(q)' <=> Unfinished(q)
                         /\ Image(q)' = Image(q) /\ Prefix(q)' = Prefix(q)
    BY DEF Unfinished, Image, Prefix
  <2>2. Types' /\ Opening'
    BY <2>1 DEF Types, Opening, Whole
  <2>3. LastWriterIsThere' /\ Origin' /\ OneWriter'
    BY <2>1 DEF LastWriterIsThere, Origin, OneWriter, Writers
  <2>4. Exclusive'
    BY <2>1 DEF Exclusive, Busy
  <2> QED
    BY <2>2, <2>3, <2>4
<1> QED
  BY <1>1, <1>2

\* In every reachable state of every specification.
LEMMA Invariance == Spec => []Inv
  BY InitInv, NextInv, PTL DEF Spec

\* When all runs that opened an output have written all of their pictures, it
\* is one whole picture: always without a race of two runs for it, and after
\* races if all write the same picture (image_saver.c 79-107).
THEOREM SharedOutputs == Spec => []SharedOutputIsWhole
<1>1. Inv => SharedOutputIsWhole
  <2> SUFFICES ASSUME Inv, NEW o \in Outputs, Writers(o) # {},
                      \A p \in Writers(o) : ~Unfinished(p),
                      o \in raced => \A p, q \in Writers(o) : Image(p) = Image(q)
               PROVE  Whole(o)
    BY DEF SharedOutputIsWhole
  <2>1. \A p \in Writers(o) :
          /\ p \in Procs /\ job[p] \in Decodable /\ written[p] \in Nat
          /\ Image(p) \in Images /\ Length[Image(p)] \in Nat
          /\ written[p] = Length[Image(p)]
    <3> TAKE p \in Writers(o)
    <3>1. /\ p \in Procs /\ job[p] \in Decodable /\ written[p] \in Nat
          /\ written[p] <= Length[Image(p)]
      BY DEF Inv, Opening, Types, Writers
    <3>2. Image(p) \in Images /\ Length[Image(p)] \in Nat
      BY <3>1, ImageFacts DEF Image
    <3> QED
      BY <3>1, <3>2 DEF Unfinished
  <2>2. CASE o \notin raced
    <3>1. PICK p \in Writers(o) : content[o] = Prefix(p)
      BY <2>2 DEF Inv, OneWriter
    <3>2. IsWhole(Prefix(p))
      BY <2>1, PrefixWhole DEF Prefix, Image
    <3> QED
      BY <3>1, <3>2 DEF Whole
  <2>3. CASE o \in raced
    <3>1. PICK p \in Writers(o) : 1 .. written[p] \subseteq DOMAIN content[o]
      BY DEF Inv, LastWriterIsThere
    <3>2. \A k \in DOMAIN content[o] : k \in 1 .. written[p] /\ content[o][k] = Image(p)
      <4> TAKE k \in DOMAIN content[o]
      <4>1. PICK q \in Writers(o) : k \in 1 .. written[q] /\ content[o][k] = Image(q)
        BY DEF Inv, Origin
      <4>2. Image(q) = Image(p)
        BY <2>3
      <4> QED
        BY <2>1, <4>1, <4>2
    <3>3. DOMAIN content[o] = 1 .. Length[Image(p)]
      BY <2>1, <3>1, <3>2
    <3>4. content[o] = [k \in DOMAIN content[o] |-> content[o][k]]
      BY DEF Inv, Types
    <3>5. content[o] = Jpeg(Image(p))
      BY <3>2, <3>3, <3>4 DEF Jpeg
    <3> QED
      BY <2>1, <3>5 DEF Whole, IsWhole
  <2> QED
    BY <2>2, <2>3
<1> QED
  BY <1>1, Invariance, PTL

\* A step of the converter is a step of what the web application counts on, or
\* leaves it alone.
LEMMA StepRefines ==
  ASSUME Inv, Inv', NEW p \in Procs, Step(p) \/ Killed(p)
  PROVE  C!Next \/ UNCHANGED <<Begun, PictureOf, completed, raced, progress>>
<1> DEFINE o == job[p].fout
<1> USE DEF Inv
<1>1. o \in Outputs
  BY JobFacts
<1>2. CASE OpenOutput(p)
  <2> USE <1>2 DEF OpenOutput
  <2>1. PictureOf' = [PictureOf EXCEPT ![o] = "partial"]
    <3>1. ~Whole(o)' /\ o \in created'
      <4>1. content'[o] = <<>> /\ DOMAIN content'[o] = {}
        BY <1>1 DEF Types
      <4> QED
        BY <4>1, EmptyNotWhole DEF Whole
    <3>2. \A x \in Outputs \ {o} :
            (Whole(x)' <=> Whole(x)) /\ (x \in created' <=> x \in created)
      BY DEF Whole, Types
    <3> QED
      BY <3>1, <3>2 DEF PictureOf
  <2>2. raced' = raced \/ (raced' = raced \cup {o} /\ PictureOf[o] = "partial")
    <3>1. CASE Overlapping(p) # {} /\ o \notin raced
      <4>1. PICK q \in Procs : job[q].fout = o /\ Busy(q)
        BY <3>1 DEF Overlapping, Busy
      <4>2. /\ opened[q] /\ job[q] \in Decodable /\ o \in created
            /\ written[q] \in Nat /\ written[q] <= Length[Image(q)]
        BY <4>1 DEF Opening, Types, Busy
      <4>3. content[o] = Prefix(q) /\ Unfinished(q)
        BY <3>1, <4>1, <4>2 DEF Exclusive, Busy
      <4>4. ~Whole(o)
        BY <4>2, <4>3, PrefixWhole DEF Whole, Prefix, Unfinished, Image
      <4> QED
        BY <1>1, <3>1, <4>2, <4>4 DEF PictureOf
    <3> QED
      BY <3>1 DEF Types
  <2>3. UNCHANGED <<completed, progress>>
    OBVIOUS
  <2>4. p \in Procs \ Begun /\ Begun' = Begun \cup {p}
    BY DEF Begun, Opening, Types, Late, Goto
  <2> QED
    BY <1>1, <2>1, <2>2, <2>3, <2>4 DEF C!Next, C!Create
<1>3. CASE Writing(p)
  <2>1. /\ opened[p] /\ Busy(p) /\ job[p] \in Decodable
        /\ UNCHANGED <<job, created, raced, progress, Begun>>
        /\ \A x \in Outputs \ {o} : content'[x] = content[x]
        /\ completed' = IF Whole(o)' THEN completed \cup {o} ELSE completed
    BY <1>3, WriteFacts DEF Begun
  <2>2. o \in created /\ (Whole(o) => o \in completed)
    BY <1>1, <2>1 DEF Opening
  <2>3. \A x \in Outputs \ {o} : Whole(x)' <=> Whole(x)
    BY <2>1 DEF Whole
  <2>4. PictureOf' = [PictureOf EXCEPT ![o] = IF Whole(o)' THEN "whole" ELSE "partial"]
    BY <2>1, <2>2, <2>3 DEF PictureOf
  <2>5. PictureOf[o] = IF Whole(o) THEN "whole" ELSE "partial"
    BY <1>1, <2>2 DEF PictureOf
  <2>6. PictureOf = [x \in Outputs |-> PictureOf[x]]
    BY DEF PictureOf
  <2>7. CASE Whole(o)' <=> Whole(o)
    <3>1. PictureOf' = PictureOf
      BY <1>1, <2>7, <2>4, <2>5, <2>6
    <3>2. completed' = completed
      BY <2>1, <2>2, <2>7
    <3> QED
      BY <2>1, <3>1, <3>2
  <2>8. CASE Whole(o)' /\ ~Whole(o)
    <3>1. PictureOf' = [PictureOf EXCEPT ![o] = "whole"] /\ PictureOf[o] = "partial"
      BY <2>8, <2>4, <2>5
    <3>2. completed' = completed \cup {o}
      BY <2>1, <2>8
    <3> QED
      BY <1>1, <2>1, <3>1, <3>2 DEF C!Next, C!Complete
  <2>9. CASE ~Whole(o)' /\ Whole(o)
    <3>1. o \in raced
      <4>1. SUFFICES ASSUME o \notin raced PROVE FALSE
        OBVIOUS
      <4>2. content[o] = Prefix(p) /\ Unfinished(p)
        BY <2>1, <4>1 DEF Exclusive, Busy
      <4>3. written[p] \in Nat /\ written[p] <= Length[Image(p)]
        BY <2>1 DEF Types, Opening
      <4> QED
        BY <2>1, <2>9, <4>2, <4>3, PrefixWhole DEF Whole, Prefix, Unfinished, Image
    <3>2. PictureOf' = [PictureOf EXCEPT ![o] = "partial"] /\ PictureOf[o] = "whole"
      BY <2>9, <2>4, <2>5
    <3>3. completed' = completed
      BY <2>1, <2>9
    <3> QED
      BY <1>1, <2>1, <3>1, <3>2, <3>3 DEF C!Next, C!Spoil
  <2> QED
    BY <2>7, <2>8, <2>9
<1>4. CASE Aside(p)
  <2>1. UNCHANGED <<Begun, PictureOf, completed, raced>>
    BY <1>4 DEF Aside, fileVars, Begun, PictureOf, Whole
  <2>2. CASE Report(p)
    <3>1. o \in completed \cup raced
      <4>1. pc[p] = "report"
        BY <2>2 DEF Report, Goto
      <4> QED
        BY <4>1 DEF Opening, Exclusive
    <3>2. progress' = progress \/ progress' = progress \cup {o}
      BY <2>2 DEF Report
    <3> QED
      BY <1>1, <2>1, <3>1, <3>2 DEF C!Next, C!Report
  <2>3. CASE ~Report(p)
    <3>1. progress' = progress
      <4>1. CASE Killed(p)
        BY <4>1 DEF Killed, Exit
      <4>2. CASE Step(p)
        BY <2>3, <4>2 DEF Step, Help, Main, OpenImg, OpenImgFails, SetParameters,
             CentreOutOfRange, GenerateImage, GenerateImageFails, OpenOutput,
             OpenOutputFails, StartCompress, EmptyImage, WriteBuffer, WriteFails,
             Put, PutAt, CloseOutput, Exit
      <4> QED
        BY <4>1, <4>2
    <3> QED
      BY <2>1, <3>1
  <2> QED
    BY <2>2, <2>3
<1> QED
  BY <1>2, <1>3, <1>4, StepCases

\* The converter implements Conversion: the file of a picture is created,
\* completed, perhaps begun again, and spoilt only after two runs wrote it at
\* once; PROGRESS.txt names only pictures that were complete, or that two runs
\* wrote at once (main.c 81-96).
THEOREM ImplementsConversion == Spec => ConversionSpec
<1>1. Init => C!Init
  <2> SUFFICES ASSUME Init PROVE C!Init
    OBVIOUS
  <2>1. PictureOf = [o \in Outputs |-> "absent"]
    BY DEF Init, PictureOf
  <2>2. Begun = {}
    BY DEF Init, Begun
  <2> QED
    BY <2>1, <2>2 DEF Init, C!Init
<1>2. Inv /\ Inv' /\ [Next]_vars => [C!Next]_<<Begun, PictureOf, completed, raced, progress>>
  <2> SUFFICES ASSUME Inv, Inv', [Next]_vars
               PROVE  [C!Next]_<<Begun, PictureOf, completed, raced, progress>>
    OBVIOUS
  <2>1. CASE Next
    BY <2>1, StepRefines DEF Next
  <2>2. CASE UNCHANGED vars
    BY <2>2 DEF vars, fileVars, Begun, PictureOf, Whole
  <2> QED
    BY <2>1, <2>2
<1> QED
  BY <1>1, <1>2, Invariance, PTL DEF Spec, ConversionSpec, C!Spec
-----------------------------------------------------------------------------
\* A set of natural numbers that is not empty has a least member.
LEMMA NatLeast ==
  ASSUME NEW T \in SUBSET Nat, T # {}
  PROVE  \E m \in T : \A k \in T : m <= k
<1> DEFINE R == OpToRel(<, Nat)
<1>1. IsWellFoundedOn(R, Nat)
  BY NatLessThanWellFounded, Zenon
<1>2. \A x, y \in Nat : <<y, x>> \in R <=> y < x
  BY DEF OpToRel
<1> HIDE DEF R
<1>3. PICK m \in T : \A k \in T : ~ (<<k, m>> \in R)
  BY <1>1, WFMin
<1>4. \A k \in T : m <= k
  <2> TAKE k \in T
  <2>1. m \in Nat /\ k \in Nat /\ ~ (k < m)
    BY <1>2, <1>3
  <2> QED
    BY <2>1
<1> QED
  BY <1>4

\* Squares are ordered as the numbers are.
LEMMA SquareOrder ==
  ASSUME NEW a \in Nat, NEW b \in Nat
  PROVE  a * a <= b * b <=> a <= b
<1>1. ASSUME a <= b PROVE a * a <= b * b
  BY <1>1
<1>2. ASSUME a > b PROVE a * a > b * b
  BY <1>2
<1> QED
  BY <1>1, <1>2

\* The division that AtLeastSqrt() and Project() make.
LEMMA Division ==
  ASSUME NEW x \in Nat, NEW y \in Nat \ {0}
  PROVE  /\ x \div y \in Nat
         /\ x % y \in 0 .. y - 1
         /\ x = y * (x \div y) + (x % y)
OBVIOUS

\* There is a whole square root to choose.
LEMMA SqrtExists ==
  ASSUME NEW n \in Nat
  PROVE  \E s \in 0 .. n : s * s <= n /\ n < (s + 1) * (s + 1)
<1> DEFINE T == {s \in Nat : n < (s + 1) * (s + 1)}
<1>1. n \in T
  BY SMT
<1>2. PICK s \in T : \A k \in T : s <= k
  BY <1>1, NatLeast
<1>3. s \in Nat /\ n < (s + 1) * (s + 1) /\ s <= n
  BY <1>1, <1>2
<1>4. s * s <= n
  <2>1. CASE s = 0
    BY <2>1
  <2>2. CASE s > 0
    <3>1. s - 1 \in Nat /\ s - 1 \notin T
      BY <1>2, <1>3, <2>2
    <3> QED
      BY <1>3, <3>1
  <2> QED
    BY <1>3, <2>1, <2>2
<1> QED
  BY <1>3, <1>4

\* The whole square root.
LEMMA SqrtIs ==
  ASSUME NEW n \in Nat
  PROVE  /\ Sqrt(n) \in Nat
         /\ Sqrt(n) * Sqrt(n) <= n
         /\ n < (Sqrt(n) + 1) * (Sqrt(n) + 1)
<1>1. /\ Sqrt(n) \in 0 .. n
      /\ Sqrt(n) * Sqrt(n) <= n
      /\ n < (Sqrt(n) + 1) * (Sqrt(n) + 1)
  BY SqrtExists DEF Sqrt
<1> QED
  BY <1>1

\* It never falls as what it is taken of grows.
LEMMA SqrtOrder ==
  ASSUME NEW m \in Nat, NEW n \in Nat, m <= n
  PROVE  Sqrt(m) <= Sqrt(n)
<1>1. PICK s \in Nat : s = Sqrt(m) /\ s * s <= m
  BY SqrtIs
<1>2. PICK t \in Nat : t = Sqrt(n) /\ n < (t + 1) * (t + 1)
  BY SqrtIs
<1>3. s * s <= (t + 1) * (t + 1) /\ s * s # (t + 1) * (t + 1)
  BY <1>1, <1>2
<1>4. s <= t + 1 /\ s # t + 1
  <2>1. s <= t + 1
    BY <1>3, SquareOrder
  <2> QED
    BY <1>3, <2>1
<1> QED
  BY <1>1, <1>2, <1>4

\* AtLeastSqrt() decides on whole numbers what it says of real ones.
LEMMA AtLeastSqrtIs ==
  ASSUME NEW x \in Nat, NEW y \in Nat \ {0}, NEW m \in Int
  PROVE  AtLeastSqrt(x, y, m) <=> m * (y * y) <= x * x
<1>1. PICK q \in Nat : q = x \div y
  BY Division
<1>2. PICK t \in 0 .. y - 1 : t = x % y
  BY Division
<1>3. x = y * q + t
  BY <1>1, <1>2, Division
<1>4. PICK d \in Int : d = (m - q * q) * y - 2 * q * t
  OBVIOUS
<1>5. AtLeastSqrt(x, y, m) <=> (q * q >= m \/ d <= 0 \/ (d <= y /\ t * t >= d * y))
  BY <1>1, <1>2, <1>4 DEF AtLeastSqrt
<1>6. m * (y * y) <= x * x <=> d * y <= t * t
  <2>1. x * x = (q * q) * (y * y) + 2 * (q * t) * y + t * t
    BY <1>3
  <2>2. d * y = m * (y * y) - (q * q) * (y * y) - 2 * (q * t) * y
    BY <1>4
  <2>3. PICK A, B, M, E \in Int : A = m * (y * y) /\ B = (q * q) * (y * y)
                                  /\ M = (q * t) * y /\ E = t * t
    OBVIOUS
  <2>4. PICK X, Y \in Int : X = x * x /\ Y = d * y
    OBVIOUS
  <2> QED
    BY <2>1, <2>2, <2>3, <2>4
<1>7. q * q >= m => d <= 0
  BY <1>4
<1>8. d <= 0 => d * y <= t * t
  BY SMT
<1>9. d > y => ~ (d * y <= t * t)
  BY SMT
<1> QED
  BY <1>5, <1>6, <1>7, <1>8, <1>9

\* What Reaches() compares, without a division: with A = 100 * a * a and
\* G = F * F, both sides are squares.
Within(r, A, G) == G * (A * (4 * G - A)) <= (100 * (r * r)) * ((2 * G - A) * (2 * G - A))

LEMMA ReachesIs ==
  ASSUME NEW F \in Nat \ {0}, NEW r \in Nat, NEW a \in Nat \ {0}
  PROVE  Reaches(F, r, a) <=> /\ 100 * (a * a) < 2 * (F * F)
                              /\ Within(r, 100 * (a * a), F * F)
<1>1. PICK A \in Nat : A = 100 * (a * a)
  OBVIOUS
<1>2. PICK G \in Nat : G = F * F
  OBVIOUS
<1>3. PICK D \in Int : D = 2 * G - A
  OBVIOUS
<1>4. PICK m \in Int : m = 4 * G - A
  <2>1. 4 * G - A \in Int
    OBVIOUS
  <2> QED
    BY <2>1, Zenon
<1>5. Reaches(F, r, a) <=> D > 0 /\ AtLeastSqrt(10 * r * D, 10 * F * a, m)
  <2>1. 2 * F * F = 2 * G /\ 4 * F * F = 4 * G
    BY <1>2
  <2>2. 100 * a * a = A
    BY <1>1
  <2>3. D = 2 * F * F - 100 * a * a /\ m = 4 * F * F - 100 * a * a
    BY <1>3, <1>4, <2>1, <2>2
  <2> QED
    BY <2>3 DEF Reaches
<1>6. ASSUME D > 0
      PROVE  AtLeastSqrt(10 * r * D, 10 * F * a, m) <=> Within(r, A, G)
  <2>1. PICK x \in Nat : x = 10 * r * D
    BY <1>6
  <2>2. PICK y \in Nat \ {0} : y = 10 * F * a
    OBVIOUS
  <2>3. AtLeastSqrt(x, y, m) <=> m * (y * y) <= x * x
    BY AtLeastSqrtIs
  <2>4. x * x = 100 * ((r * r) * (D * D))
    BY <2>1
  <2>5. y * y = G * A
    <3>1. y * y = 100 * ((F * F) * (a * a))
      BY <2>2
    <3> QED
      BY <1>1, <1>2, <3>1
  <2>6. m * (y * y) = G * (A * m)
    BY <2>5
  <2>7. Within(r, A, G) <=> G * (A * m) <= 100 * ((r * r) * (D * D))
    <3>1. (100 * (r * r)) * (D * D) = 100 * ((r * r) * (D * D))
      OBVIOUS
    <3>2. Within(r, A, G) <=> G * (A * m) <= (100 * (r * r)) * (D * D)
      BY <1>3, <1>4, Zenon DEF Within
    <3> QED
      BY <3>1, <3>2, Zenon
  <2> QED
    BY <2>1, <2>2, <2>3, <2>4, <2>6, <2>7
<1> QED
  BY <1>1, <1>2, <1>3, <1>5, <1>6

\* A longer flat radius reaches what a shorter one does.
LEMMA ReachesFurther ==
  ASSUME NEW F \in Nat \ {0}, NEW r \in Nat, NEW s \in Nat, NEW a \in Nat,
         r <= s, Reaches(F, r, a)
  PROVE  Reaches(F, s, a)
<1>1. CASE a = 0
  BY <1>1 DEF Reaches
<1>2. CASE a # 0
  <2>1. PICK A \in Nat : A = 100 * (a * a)
    OBVIOUS
  <2>2. PICK G \in Nat : G = F * F
    OBVIOUS
  <2>3. A < 2 * G /\ Within(r, A, G)
    BY <1>2, <2>1, <2>2, ReachesIs
  <2>4. PICK D \in Nat : D = (2 * G - A) * (2 * G - A)
    BY <2>3
  <2>5. r * r <= s * s
    BY SquareOrder
  <2>6. (100 * (r * r)) * D <= (100 * (s * s)) * D
    BY <2>5
  <2>7. Within(s, A, G)
    BY <2>3, <2>4, <2>6 DEF Within
  <2> QED
    BY <1>2, <2>1, <2>2, <2>3, <2>7, ReachesIs
<1> QED
  BY <1>1, <1>2

\* What reaches a fisheye radius reaches every shorter one.
LEMMA ReachesShorter ==
  ASSUME NEW F \in Nat \ {0}, NEW r \in Nat, NEW a \in Nat, NEW b \in Nat,
         b <= a, Reaches(F, r, a)
  PROVE  Reaches(F, r, b)
<1>1. CASE b = 0
  BY <1>1 DEF Reaches
<1>2. CASE b # 0
  <2>1. PICK A \in Nat : A = 100 * (a * a)
    OBVIOUS
  <2>2. PICK B \in Nat : B = 100 * (b * b)
    OBVIOUS
  <2>3. PICK G \in Nat : G = F * F
    OBVIOUS
  <2>4. A < 2 * G /\ Within(r, A, G)
    BY <1>2, <2>1, <2>3, ReachesIs
  <2>5. B <= A
    BY <2>1, <2>2, SquareOrder
  <2>6. B * (4 * G - B) <= A * (4 * G - A)
    <3>1. A * (4 * G - A) - B * (4 * G - B) = (A - B) * (4 * G - A - B)
      OBVIOUS
    <3>2. (A - B) * (4 * G - A - B) >= 0
      BY <2>4, <2>5
    <3> QED
      BY <3>1, <3>2
  <2>7. (2 * G - A) * (2 * G - A) <= (2 * G - B) * (2 * G - B)
    BY <2>4, <2>5
  <2>8. PICK P, Q, V, W, K \in Nat :
          /\ P = A * (4 * G - A) /\ Q = B * (4 * G - B)
          /\ V = (2 * G - A) * (2 * G - A) /\ W = (2 * G - B) * (2 * G - B)
          /\ K = 100 * (r * r)
    BY <2>4, <2>5
  <2>9. G * Q <= G * P /\ K * V <= K * W
    BY <2>6, <2>7, <2>8
  <2>10. G * P <= K * V
    BY <2>4, <2>8 DEF Within
  <2>11. Within(r, B, G)
    BY <2>8, <2>9, <2>10 DEF Within
  <2>12. B < 2 * G
    BY <2>4, <2>5
  <2> QED
    BY <1>2, <2>2, <2>3, <2>11, <2>12, ReachesIs
<1> QED
  BY <1>1, <1>2

\* The mapping only ever moves pixels outward: no radius reaches a longer one.
LEMMA ReachesNotBeyond ==
  ASSUME NEW F \in Nat \ {0}, NEW r \in Nat
  PROVE  ~ Reaches(F, r, r + 1)
<1> SUFFICES ASSUME Reaches(F, r, r + 1) PROVE FALSE
  OBVIOUS
<1>1. PICK a \in Nat \ {0} : a = r + 1
  OBVIOUS
<1>2. PICK A \in Nat \ {0} : A = 100 * (a * a)
  BY SMT
<1>3. PICK G \in Nat : G = F * F
  OBVIOUS
<1>4. A < 2 * G /\ Within(r, A, G)
  BY <1>1, <1>2, <1>3, ReachesIs
<1>5. PICK D \in Nat : D = (2 * G - A) * (2 * G - A) /\ D > 0
  BY <1>4
<1>6. 100 * (r * r) < A
  BY <1>1, <1>2
<1>7. (100 * (r * r)) * D < A * D
  BY <1>5, <1>6
<1>8. D <= G * (4 * G - A)
  <2>1. D = 4 * (G * G) - 4 * (G * A) + A * A
    BY <1>5
  <2>2. G * (4 * G - A) = 4 * (G * G) - G * A
    OBVIOUS
  <2>3. A * A <= 2 * (G * A)
    BY <1>4
  <2>4. G * A >= 0
    OBVIOUS
  <2> QED
    BY <2>1, <2>2, <2>3, <2>4
<1>9. PICK E \in Int : E = G * (4 * G - A)
  OBVIOUS
<1>10. A * D <= A * E
  BY <1>8, <1>9
<1>11. A * E = G * (A * (4 * G - A))
  BY <1>9
<1> QED
  BY <1>4, <1>5, <1>7, <1>10, <1>11 DEF Within

\* R_D() finds a radius, and no further one is reached.
LEMMA R_DIs ==
  ASSUME NEW F \in Nat \ {0}, NEW r \in Nat
  PROVE  /\ R_D(F, r) \in Nat
         /\ Reaches(F, r, R_D(F, r))
         /\ ~ Reaches(F, r, R_D(F, r) + 1)
<1> DEFINE T == {a \in Nat : ~ Reaches(F, r, a + 1)}
<1>1. r \in T
  BY ReachesNotBeyond
<1>2. PICK a \in T : \A b \in T : a <= b
  BY <1>1, NatLeast
<1>3. a \in 0 .. r /\ ~ Reaches(F, r, a + 1)
  BY <1>1, <1>2
<1>4. Reaches(F, r, a)
  <2>1. CASE a = 0
    BY <2>1 DEF Reaches
  <2>2. CASE a # 0
    <3>1. a - 1 \in Nat /\ a - 1 \notin T
      BY <1>2, <1>3, <2>2
    <3>2. (a - 1) + 1 = a
      BY <1>3
    <3> QED
      BY <3>1, <3>2
  <2> QED
    BY <2>1, <2>2
<1> HIDE DEF T
<1>5. \E b \in 0 .. r : Reaches(F, r, b) /\ ~ Reaches(F, r, b + 1)
  BY <1>3, <1>4
<1>6. /\ R_D(F, r) \in 0 .. r
      /\ Reaches(F, r, R_D(F, r))
      /\ ~ Reaches(F, r, R_D(F, r) + 1)
  BY <1>5, Zenon DEF R_D
<1> QED
  BY <1>6

\* R_D() never falls as the flat radius grows.
LEMMA R_DOrder ==
  ASSUME NEW F \in Nat \ {0}, NEW r \in Nat, NEW s \in Nat, r <= s
  PROVE  R_D(F, r) <= R_D(F, s)
<1>1. PICK a \in Nat : a = R_D(F, r) /\ Reaches(F, r, a)
  BY R_DIs
<1>2. PICK b \in Nat : b = R_D(F, s) /\ ~ Reaches(F, s, b + 1)
  BY R_DIs
<1>3. Reaches(F, s, a)
  BY <1>1, ReachesFurther
<1>4. ~ (b + 1 <= a)
  BY <1>2, <1>3, ReachesShorter
<1> QED
  BY <1>1, <1>2, <1>4

\* R_U() is the last flat radius that does not reach R, or 0.
LEMMA R_UIs ==
  ASSUME NEW F \in Nat, NEW R \in Nat
  PROVE  /\ R_U(F, R) \in Nat
         /\ R_U(F, R) # 0 => R # 0 /\ ~ Reaches(F, R_U(F, R), R)
<1> DEFINE S == {0} \cup {r \in 1 .. 3 * R : ~ Reaches(F, r, R)}
<1> DEFINE T == {3 * R - x : x \in S}
<1>1. S \subseteq 0 .. 3 * R /\ 0 \in S
  OBVIOUS
<1>2. T \in SUBSET Nat /\ T # {}
  BY <1>1
<1>3. PICK m \in T : \A k \in T : m <= k
  BY <1>2, NatLeast
<1>4. PICK x \in S : m = 3 * R - x
  BY <1>3
<1>5. \A y \in S : x >= y
  <2> TAKE y \in S
  <2>1. 3 * R - y \in T
    OBVIOUS
  <2>2. m <= 3 * R - y
    BY <1>3, <2>1
  <2> QED
    BY <1>1, <1>4, <2>2
<1> HIDE DEF T
<1>6. Max(S) \in S
  <2> HIDE DEF S
  <2> QED
    BY <1>5, Zenon DEF Max
<1>7. R_U(F, R) = Max(S)
  BY DEF R_U
<1>8. R_U(F, R) \in S
  BY <1>6, <1>7
<1> QED
  BY <1>8

\* Within R_U() of the centre of the flat picture, R_D() stays within R.
LEMMA R_DInside ==
  ASSUME NEW F \in Nat \ {0}, NEW R \in Nat, NEW r \in Nat,
         r <= R_U(F, R), R_U(F, R) # 0
  PROVE  R_D(F, r) <= R
<1>1. PICK u \in Nat : u = R_U(F, R) /\ ~ Reaches(F, u, R)
  BY R_UIs
<1>2. PICK a \in Nat : a = R_D(F, r) /\ Reaches(F, r, a)
  BY R_DIs
<1>3. Reaches(F, u, a)
  BY <1>1, <1>2, ReachesFurther
<1>4. ~ (R <= a)
  BY <1>1, <1>3, ReachesShorter
<1> QED
  BY <1>2, <1>4

\* How far the flat picture reaches from its centre: its corners are no further
\* than R_U() from it.
LEMMA CornerReach ==
  ASSUME NEW U \in Nat, NEW H \in Nat, H = (141421 * U) \div 100000,
         NEW x \in 0 .. H - 1, NEW y \in 0 .. H - 1
  PROVE  LET ux == x - (H \div 2)
             uy == y - (H \div 2)
         IN ux * ux + uy * uy <= U * U
<1>1. PICK M \in Nat : M = H \div 2 /\ 2 * M <= H /\ H <= 2 * M + 1
  OBVIOUS
<1>2. PICK a \in Int : a = x - M
  BY SMT
<1>3. PICK b \in Int : b = y - M
  BY SMT
<1>4. a <= M /\ -M <= a /\ b <= M /\ -M <= b
  BY <1>1, <1>2, <1>3
<1>5. a * a <= M * M /\ b * b <= M * M
  <2>1. \A d \in Int : d <= M /\ -M <= d => d * d <= M * M
    <3> SUFFICES ASSUME NEW d \in Int, d <= M, -M <= d PROVE d * d <= M * M
      OBVIOUS
    <3>1. (M - d) * (M + d) >= 0
      OBVIOUS
    <3>2. (M - d) * (M + d) = M * M - d * d
      OBVIOUS
    <3> QED
      BY <3>1, <3>2
  <2> QED
    BY <1>4, <2>1
<1>6. 100000 * H <= 141421 * U
  OBVIOUS
<1>7. (100000 * H) * (100000 * H) <= (141421 * U) * (141421 * U)
  <2>1. PICK h \in Nat : h = 100000 * H
    OBVIOUS
  <2>2. PICK k \in Nat : k = 141421 * U
    OBVIOUS
  <2> QED
    BY <1>6, <2>1, <2>2, SquareOrder
<1>8. (100000 * H) * (100000 * H) = 10000000000 * (H * H)
  OBVIOUS
<1>9. (141421 * U) * (141421 * U) = 19999899241 * (U * U)
  OBVIOUS
<1>10. 4 * (M * M) <= H * H
  <2>1. (2 * M) * (2 * M) <= H * H
    BY <1>1, SquareOrder
  <2> QED
    BY <2>1
<1>11. a * a + b * b <= U * U
  <2>1. \A i \in Int : i * i \in Nat
    BY SMT
  <2>2. PICK P \in Nat : P = H * H
    BY <2>1
  <2>3. PICK Q \in Nat : Q = U * U
    BY <2>1
  <2>4. PICK V \in Nat : V = M * M
    BY <2>1
  <2>5. PICK X \in Nat : X = a * a
    BY <2>1
  <2>6. PICK Y \in Nat : Y = b * b
    BY <2>1
  <2> QED
    BY <1>5, <1>7, <1>8, <1>9, <1>10, <2>2, <2>3, <2>4, <2>5, <2>6
<1> QED
  BY <1>1, <1>2, <1>3, <1>11

\* Project() is r * u / sqrt(n) rounded down: it lies out no further.
LEMMA ProjectOut ==
  ASSUME NEW r \in Nat, NEW u \in Int, NEW n \in Nat \ {0}
  PROVE  /\ Project(r, u, n) \in Int
         /\ Outward(Project(r, u, n)) \in Nat
         /\ (Outward(Project(r, u, n)) * Outward(Project(r, u, n))) * n <= (r * r) * (u * u)
<1>1. PICK X \in Nat : X = r * u * r * u /\ X = (r * r) * (u * u)
  <2>1. u * u \in Nat /\ r * r \in Nat
    BY SMT
  <2>2. (r * r) * (u * u) \in Nat
    BY <2>1
  <2>3. r * u * r * u = (r * r) * (u * u)
    OBVIOUS
  <2> QED
    BY <2>2, <2>3
<1>2. PICK q \in Nat : q = X \div n /\ q * n <= X
  BY Division
<1>3. PICK s \in Nat : s = Sqrt(q) /\ s * s <= q
  BY SqrtIs
<1>4. (s * s) * n <= X
  <2>1. (s * s) * n <= q * n
    BY <1>3
  <2> QED
    BY <1>2, <2>1
<1>5. Project(r, u, n) = IF u >= 0 THEN s ELSE IF s * s * n = X THEN -s ELSE -s - 1
  BY <1>1, <1>2, <1>3 DEF Project
<1>6. PICK w \in Nat : w = Outward(Project(r, u, n)) /\ w <= s
  BY <1>5 DEF Outward
<1>7. (w * w) * n <= (s * s) * n
  <2>1. w * w <= s * s
    BY <1>6, SquareOrder
  <2> QED
    BY <2>1
<1>8. (w * w) * n <= X
  BY <1>4, <1>7
<1>9. Project(r, u, n) \in Int
  BY <1>5
<1> QED
  BY <1>1, <1>6, <1>8, <1>9, Zenon

\* Clamped to the picture the eye's centre is in, an offset is no longer.
LEMMA ClampOut ==
  ASSUME NEW v \in Int, NEW w \in Nat, NEW c \in 0 .. w - 1
  PROVE  /\ Clamp(v + c, w) \in Int
         /\ Outward(Clamp(v + c, w) - c) \in Nat
         /\ Outward(Clamp(v + c, w) - c) <= Outward(v)
BY DEF Clamp, Outward

\* Both coordinates of a pixel taken at radius r lie within r.
LEMMA SampleOut ==
  ASSUME NEW r \in Nat, NEW R \in Nat, r <= R,
         NEW a \in Int, NEW b \in Int, NEW n \in Nat \ {0}, n = a * a + b * b,
         NEW w \in Nat, NEW c \in 0 .. w - 1, NEW h \in Nat, NEW d \in 0 .. h - 1
  PROVE  LET dx == Outward(Clamp(Project(r, a, n) + c, w) - c)
             dy == Outward(Clamp(Project(r, b, n) + d, h) - d)
         IN dx * dx + dy * dy <= R * R
<1>1. PICK v \in Int : v = Project(r, a, n)
  BY ProjectOut
<1>2. PICK z \in Int : z = Project(r, b, n)
  BY ProjectOut
<1>3. PICK i \in Nat : i = Outward(v) /\ (i * i) * n <= (r * r) * (a * a)
  BY <1>1, ProjectOut
<1>4. PICK j \in Nat : j = Outward(z) /\ (j * j) * n <= (r * r) * (b * b)
  BY <1>2, ProjectOut
<1>5. PICK dx \in Nat : dx = Outward(Clamp(v + c, w) - c) /\ dx <= i
  BY <1>3, ClampOut
<1>6. PICK dy \in Nat : dy = Outward(Clamp(z + d, h) - d) /\ dy <= j
  BY <1>4, ClampOut
<1>7. dx * dx <= i * i /\ dy * dy <= j * j
  BY <1>5, <1>6, SquareOrder
<1>8. i * i + j * j <= r * r
  <2>1. PICK I, J, K \in Nat : I = i * i /\ J = j * j /\ K = r * r
    OBVIOUS
  <2>2. I * n + J * n <= K * n
    <3>1. K * (a * a) + K * (b * b) = K * n
      OBVIOUS
    <3>2. I * n <= K * (a * a) /\ J * n <= K * (b * b)
      BY <1>3, <1>4, <2>1
    <3> QED
      BY <3>1, <3>2
  <2>3. I * n + J * n = (I + J) * n
    OBVIOUS
  <2>4. ~ (I + J > K)
    <3> SUFFICES ASSUME I + J > K PROVE FALSE
      OBVIOUS
    <3>1. (I + J) * n > K * n
      OBVIOUS
    <3> QED
      BY <2>2, <2>3, <3>1
  <2> QED
    BY <2>1, <2>4
<1>9. r * r <= R * R
  BY SquareOrder
<1>10. dx * dx + dy * dy <= R * R
  <2>1. PICK I, J, K, L, M, N \in Nat : I = i * i /\ J = j * j /\ K = r * r
           /\ L = R * R /\ M = dx * dx /\ N = dy * dy
    OBVIOUS
  <2> QED
    BY <1>7, <1>8, <1>9, <2>1
<1> QED
  BY <1>1, <1>2, <1>5, <1>6, <1>10, Zenon

\* The further along a row, the more of the radius points along it: with the
\* square of the distance across in common, a * a / n grows with a * a.
LEMMA ShareOrder ==
  ASSUME NEW r \in Nat, NEW s \in Nat, r <= s,
         NEW A \in Nat, NEW B \in Nat, A <= B, NEW K \in Nat
  PROVE  ((r * r) * A) * (B + K) <= ((s * s) * B) * (A + K)
<1>1. PICK p \in Nat : p = r * r
  OBVIOUS
<1>2. PICK q \in Nat : q = s * s
  OBVIOUS
<1>3. p <= q
  BY <1>1, <1>2, SquareOrder
<1>4. A * (B + K) <= B * (A + K)
  <2>1. A * K <= B * K
    OBVIOUS
  <2>2. A * (B + K) = A * B + A * K /\ B * (A + K) = A * B + B * K
    OBVIOUS
  <2> QED
    BY <2>1, <2>2
<1>5. PICK M \in Nat : M = A * (B + K)
  OBVIOUS
<1>6. PICK D \in Nat : D = B * (A + K)
  OBVIOUS
<1>7. p * M <= q * D
  <2>1. p * M <= q * M
    BY <1>3
  <2>2. q * M <= q * D
    BY <1>4, <1>5, <1>6
  <2>3. p * M \in Int /\ q * M \in Int /\ q * D \in Int
    OBVIOUS
  <2> QED
    BY <2>1, <2>2, <2>3
<1>8. (p * A) * (B + K) = p * M /\ (q * B) * (A + K) = q * D
  BY <1>5, <1>6
<1> QED
  BY <1>1, <1>2, <1>7, <1>8

\* A product with a positive factor in common.
LEMMA Cancel ==
  ASSUME NEW a \in Int, NEW b \in Int, NEW k \in Nat \ {0}
  PROVE  /\ a * k <= b * k => a <= b
         /\ a * k < b * k => a < b
<1>1. a > b => a * k > b * k
  OBVIOUS
<1>2. a >= b => a * k >= b * k
  OBVIOUS
<1>3. PICK x \in Int : x = a * k
  OBVIOUS
<1>4. PICK y \in Int : y = b * k
  OBVIOUS
<1> QED
  BY <1>1, <1>2, <1>3, <1>4

\* The quotients under the root, in the order of what they are of.
LEMMA QuotientOrder ==
  ASSUME NEW X \in Nat, NEW Y \in Nat, NEW m \in Nat \ {0}, NEW n \in Nat \ {0},
         X * n <= Y * m
  PROVE  X \div m <= Y \div n
<1>1. PICK q \in Nat : q = X \div m /\ q * m <= X
  BY Division
<1>2. PICK p \in Nat : p = Y \div n /\ Y < (p + 1) * n
  BY Division
<1>3. (q * m) * n <= X * n
  BY <1>1
<1>4. Y * m < ((p + 1) * n) * m
  BY <1>2
<1>5. (q * n) * m < ((p + 1) * n) * m
  <2>1. (q * m) * n = (q * n) * m
    OBVIOUS
  <2>2. PICK x \in Int : x = X * n
    OBVIOUS
  <2>3. PICK y \in Int : y = Y * m
    OBVIOUS
  <2>4. PICK z \in Int : z = (q * n) * m
    OBVIOUS
  <2>5. PICK w \in Int : w = ((p + 1) * n) * m
    OBVIOUS
  <2> QED
    BY <1>3, <1>4, <2>1, <2>2, <2>3, <2>4, <2>5
<1>6. q * n < (p + 1) * n
  BY <1>5, Cancel
<1>7. q < p + 1
  BY <1>6, Cancel
<1> QED
  BY <1>1, <1>2, <1>7

\* What Project() divides by n under the root.
Squared(r, u) == (r * r) * (u * u)

\* Project() of an offset to the right: the root rounded down.
LEMMA ProjectUp ==
  ASSUME NEW r \in Nat, NEW u \in Int, NEW n \in Nat \ {0}, u >= 0
  PROVE  Project(r, u, n) = Sqrt(Squared(r, u) \div n)
<1>1. r * u * r * u = Squared(r, u)
  BY DEF Squared
<1> QED
  BY <1>1, Zenon DEF Project

\* Project() of an offset to the left: the negative of the root rounded up.
LEMMA ProjectDown ==
  ASSUME NEW r \in Nat, NEW u \in Int, NEW n \in Nat \ {0}, u < 0
  PROVE  \E w \in Nat : /\ Project(r, u, n) = -w
                        /\ Squared(r, u) <= (w * w) * n
                        /\ \A v \in Nat : Squared(r, u) <= (v * v) * n => w <= v
<1>0. PICK X \in Nat : X = Squared(r, u)
  <2>1. (r * r) * (u * u) \in Nat
    <3>1. u * u \in Nat /\ r * r \in Nat
      BY SMT
    <3> QED
      BY <3>1
  <2> QED
    BY <2>1 DEF Squared
<1>1. r * u * r * u = X
  <2>1. r * u * r * u = (r * r) * (u * u)
    OBVIOUS
  <2> QED
    BY <1>0, <2>1 DEF Squared
<1>2. PICK q \in Nat : q = X \div n /\ q * n <= X /\ X < (q + 1) * n
  BY Division
<1>3. PICK s \in Nat : s = Sqrt(q) /\ s * s <= q /\ q < (s + 1) * (s + 1)
  BY SqrtIs
<1>4. (s * s) * n <= X
  <2>1. (s * s) * n <= q * n
    BY <1>3
  <2> QED
    BY <1>2, <2>1
<1>5. X <= ((s + 1) * (s + 1)) * n
  <2>1. PICK t \in Nat : t = (s + 1) * (s + 1)
    OBVIOUS
  <2>2. (q + 1) * n <= t * n
    BY <1>3, <2>1
  <2>3. PICK y \in Int : y = t * n
    OBVIOUS
  <2>4. PICK z \in Int : z = (q + 1) * n
    OBVIOUS
  <2> QED
    BY <1>2, <2>1, <2>2, <2>3, <2>4
<1>6. Project(r, u, n) = IF s * s * n = X THEN -s ELSE -s - 1
  BY <1>1, <1>2, <1>3 DEF Project
<1>7. CASE s * s * n = X
  <2>1. \A v \in Nat : X <= (v * v) * n => s <= v
    <3> SUFFICES ASSUME NEW v \in Nat, X <= (v * v) * n PROVE s <= v
      OBVIOUS
    <3>1. (s * s) * n <= (v * v) * n
      BY <1>7
    <3>2. s * s <= v * v
      BY <3>1, Cancel
    <3> QED
      BY <3>2, SquareOrder
  <2>2. X <= (s * s) * n
    BY <1>7
  <2>3. Project(r, u, n) = -s
    BY <1>6, <1>7
  <2> QED
    BY <1>0, <2>1, <2>2, <2>3
<1>8. CASE s * s * n # X
  <2>1. PICK w \in Nat : w = s + 1
    OBVIOUS
  <2>2. \A v \in Nat : X <= (v * v) * n => w <= v
    <3> SUFFICES ASSUME NEW v \in Nat, X <= (v * v) * n PROVE w <= v
      OBVIOUS
    <3>1. (s * s) * n < X
      BY <1>4, <1>8
    <3>2. (s * s) * n < (v * v) * n
      <4>1. PICK x \in Int : x = (s * s) * n
        OBVIOUS
      <4>2. PICK y \in Int : y = (v * v) * n
        OBVIOUS
      <4> QED
        BY <3>1, <4>1, <4>2
    <3>3. s * s < v * v
      BY <3>2, Cancel
    <3>4. ~ (v <= s)
      <4>1. v <= s => v * v <= s * s
        BY SquareOrder
      <4> QED
        BY <3>3, <4>1
    <3> QED
      BY <2>1, <3>4
  <2>3. Project(r, u, n) = -w
    BY <1>6, <1>8, <2>1
  <2> QED
    BY <1>0, <1>5, <2>1, <2>2, <2>3
<1> QED
  BY <1>0, <1>7, <1>8

\* Along a row Project() never falls, with radii that grow outward.
LEMMA ProjectOrder ==
  ASSUME NEW a \in Int, NEW b \in Int, a < b, NEW K \in Nat,
         NEW m \in Nat \ {0}, m = a * a + K, NEW n \in Nat \ {0}, n = b * b + K,
         NEW r \in Nat, NEW s \in Nat,
         a * a <= b * b => r <= s, b * b <= a * a => s <= r
  PROVE  Project(r, a, m) <= Project(s, b, n)
<1>1. PICK A \in Nat : A = a * a
  BY SMT
<1>2. PICK B \in Nat : B = b * b
  BY SMT
<1>3. PICK X \in Nat : X = (r * r) * A
  OBVIOUS
<1>4. PICK Y \in Nat : Y = (s * s) * B
  OBVIOUS
<1>31. X = Squared(r, a)
  BY <1>1, <1>3 DEF Squared
<1>41. Y = Squared(s, b)
  BY <1>2, <1>4 DEF Squared
<1>5. CASE 0 <= a
  <2>1. A <= B
    BY <1>1, <1>2, <1>5, SquareOrder
  <2>2. X * n <= Y * m
    BY <1>1, <1>2, <1>3, <1>4, <2>1, ShareOrder
  <2>3. X \div m \in Nat /\ Y \div n \in Nat /\ X \div m <= Y \div n
    BY <2>2, QuotientOrder, Division
  <2>4. Sqrt(X \div m) <= Sqrt(Y \div n)
    BY <2>3, SqrtOrder
  <2>5. Project(r, a, m) = Sqrt(X \div m)
    <3>1. a >= 0
      BY <1>5
    <3> QED
      BY <1>31, <3>1, ProjectUp
  <2>6. Project(s, b, n) = Sqrt(Y \div n)
    <3>1. b >= 0
      BY <1>5
    <3> QED
      BY <1>41, <3>1, ProjectUp
  <2> QED
    BY <2>4, <2>5, <2>6
<1>6. CASE a < 0
  <2>1. PICK w \in Nat : /\ Project(r, a, m) = -w
                         /\ X <= (w * w) * m
    BY <1>31, <1>6, ProjectDown
  <2>2. CASE 0 <= b
    <3>1. Project(s, b, n) = Sqrt(Y \div n)
      <4>1. b >= 0
        BY <2>2
      <4> QED
        BY <1>41, <4>1, ProjectUp
    <3>2. Sqrt(Y \div n) \in Nat
      BY Division, SqrtIs
    <3> QED
      BY <2>1, <3>1, <3>2
  <2>3. CASE b < 0
    <3>1. PICK v \in Nat : /\ Project(s, b, n) = -v
                           /\ \A k \in Nat : Y <= (k * k) * n => v <= k
      BY <1>41, <2>3, ProjectDown
    <3>2. B <= A
      <4>1. PICK i \in Nat : i = -a
        BY <1>6
      <4>2. PICK j \in Nat : j = -b
        BY <2>3
      <4>3. j * j <= i * i
        BY <4>1, <4>2, SquareOrder
      <4> QED
        BY <1>1, <1>2, <4>1, <4>2, <4>3
    <3>3. Y * m <= X * n
      BY <1>1, <1>2, <1>3, <1>4, <3>2, ShareOrder
    <3>4. (X * n) <= ((w * w) * n) * m
      <4>1. X * n <= ((w * w) * m) * n
        BY <2>1
      <4>2. ((w * w) * m) * n = ((w * w) * n) * m
        OBVIOUS
      <4> QED
        BY <4>1, <4>2
    <3>5. Y * m <= ((w * w) * n) * m
      <4>1. PICK x \in Int : x = Y * m
        OBVIOUS
      <4>2. PICK y \in Int : y = X * n
        OBVIOUS
      <4>3. PICK z \in Int : z = ((w * w) * n) * m
        OBVIOUS
      <4> QED
        BY <3>3, <3>4, <4>1, <4>2, <4>3
    <3>6. Y <= (w * w) * n
      BY <3>5, Cancel
    <3>7. v <= w
      BY <3>1, <3>6
    <3> QED
      BY <2>1, <3>1, <3>7
  <2> QED
    BY <2>2, <2>3
<1> QED
  BY <1>5, <1>6
-----------------------------------------------------------------------------
\* A command line whose picture was decoded, with parameters that were not
\* refused.
Placed(j) == j \in Decodable /\ CentreInPicture(ParametersFor(j))

\* Where a run is tells what its parameters are.
Geometry ==
  /\ param = [p \in Procs |-> param[p]]
  /\ pc \in [Procs -> Places]
  /\ \A p \in Procs :
       /\ job[p] \in Jobs[p]
       /\ pc[p] = "parameters" => job[p] \in Decodable
       /\ pc[p] = "map" => Placed(job[p]) /\ param[p] = ParametersFor(job[p])

\* No run has parameters to begin with.
LEMMA InitGeometry == Init => Geometry
<1> SUFFICES ASSUME Init PROVE Geometry
  OBVIOUS
<1>1. \A p \in Procs : pc[p] = "main" /\ job[p] \in Jobs[p]
  BY DEF Init
<1>2. param = [p \in Procs |-> param[p]] /\ pc \in [Procs -> Places]
  BY DEF Init, Places
<1> QED
  BY <1>1, <1>2 DEF Geometry

\* A run reaches the map with the parameters of its command line.
LEMMA NextGeometry == Geometry /\ [Next]_vars => Geometry'
<1> SUFFICES ASSUME Geometry, [Next]_vars PROVE Geometry'
  OBVIOUS
<1> USE DEF Geometry
<1>1. ASSUME NEW p \in Procs, job' = job, param' = param,
             \A q \in Procs \ {p} : pc'[q] = pc[q], pc' \in [Procs -> Places],
             pc'[p] \notin {"parameters", "map"}
      PROVE  Geometry'
  BY <1>1
<1>2. ASSUME NEW p \in Procs, Step(p) \/ Killed(p) PROVE Geometry'
  <2>1. ASSUME NEW from, NEW c, Exit(p, from, c) PROVE Geometry'
    <3>1. /\ job' = job /\ param' = param /\ pc'[p] = "exited"
          /\ \A q \in Procs \ {p} : pc'[q] = pc[q]
          /\ pc' \in [Procs -> Places]
      BY <2>1 DEF Exit, Goto, Places
    <3> QED
      BY <1>1, <3>1
  <2>2. ASSUME NEW from, NEW to \in Places \ {"parameters", "map"}, Goto(p, from, to),
               job' = job, param' = param
        PROVE  Geometry'
    <3>1. /\ pc'[p] = to
          /\ \A q \in Procs \ {p} : pc'[q] = pc[q]
          /\ pc' \in [Procs -> Places]
      BY <2>2 DEF Goto
    <3> QED
      BY <1>1, <2>2, <3>1
  <2>3. CASE Help(p) \/ OpenImgFails(p) \/ CentreOutOfRange(p)
             \/ GenerateImageFails(p) \/ OpenOutputFails(p) \/ EmptyImage(p)
             \/ Killed(p)
    BY <2>1, <2>3 DEF Help, OpenImgFails, CentreOutOfRange, GenerateImageFails,
                      OpenOutputFails, EmptyImage, Killed
  <2>4. CASE Main(p)
    <3>1. "open" \in Places \ {"parameters", "map"}
      BY DEF Places
    <3>2. Goto(p, "main", "open") /\ job' = job /\ param' = param
      BY <2>4 DEF Main
    <3> QED
      BY <2>2, <3>1, <3>2, Zenon
  <2>5. CASE GenerateImage(p)
    <3>1. "save" \in Places \ {"parameters", "map"}
      BY DEF Places
    <3>2. Goto(p, "map", "save") /\ job' = job /\ param' = param
      BY <2>5 DEF GenerateImage
    <3> QED
      BY <2>2, <3>1, <3>2, Zenon
  <2>6. CASE OpenOutput(p)
    <3>1. "start" \in Places \ {"parameters", "map"}
      BY DEF Places
    <3>2. Goto(p, "save", "start") /\ job' = job /\ param' = param
      BY <2>6 DEF OpenOutput
    <3> QED
      BY <2>2, <3>1, <3>2, Zenon
  <2>7. CASE StartCompress(p)
    <3>1. "write" \in Places \ {"parameters", "map"}
      BY DEF Places
    <3>2. Goto(p, "start", "write") /\ job' = job /\ param' = param
      BY <2>7 DEF StartCompress
    <3> QED
      BY <2>2, <3>1, <3>2, Zenon
  <2>8. CASE CloseOutput(p)
    <3>1. "report" \in Places \ {"parameters", "map"}
      BY DEF Places
    <3>2. Goto(p, "write", "report") /\ job' = job /\ param' = param
      BY <2>8 DEF CloseOutput
    <3> QED
      BY <2>2, <3>1, <3>2, Zenon
  <2>9. CASE Report(p)
    <3>1. "exited" \in Places \ {"parameters", "map"}
      BY DEF Places
    <3>2. Goto(p, "report", "exited") /\ job' = job /\ param' = param
      BY <2>9 DEF Report
    <3> QED
      BY <2>2, <3>1, <3>2, Zenon
  <2>10. CASE WriteBuffer(p)
    BY <2>10 DEF WriteBuffer, Put, PutAt
  <2>11. CASE OpenImg(p)
    <3>1. job[p] \in Decodable
      BY <2>11 DEF OpenImg, Decodable
    <3>2. pc' = [pc EXCEPT ![p] = "parameters"] /\ job' = job /\ param' = param
      BY <2>11 DEF OpenImg, Goto
    <3> QED
      BY <3>1, <3>2 DEF Places
  <2>12. CASE SetParameters(p)
    <3>1. /\ pc[p] = "parameters" /\ pc' = [pc EXCEPT ![p] = "map"] /\ job' = job
          /\ CentreInPicture(ParametersFor(job[p]))
          /\ param' = [param EXCEPT ![p] = ParametersFor(job[p])]
      BY <2>12 DEF SetParameters, Goto
    <3>2. Placed(job[p])
      BY <3>1 DEF Placed
    <3> QED
      BY <3>1, <3>2 DEF Places
  <2>13. CASE WriteFails(p)
    <3>1. pc' = [pc EXCEPT ![p] = "exited"] /\ job' = job /\ param' = param
      BY <2>13 DEF WriteFails, Put, PutAt
    <3> QED
      BY <3>1 DEF Places
  <2> QED
    BY <1>2, <2>3, <2>4, <2>5, <2>6, <2>7, <2>8, <2>9, <2>10, <2>11, <2>12, <2>13 DEF Step
<1>3. CASE UNCHANGED vars
  BY <1>3 DEF vars
<1> QED
  BY <1>2, <1>3 DEF Next

\* What create_map() may count on of the parameters it is given.
Sound(q) ==
  /\ q.F \in Nat /\ q.R_eye \in Nat /\ (q.R_eye # 0 => q.F # 0)
  /\ q.H_U = FlatSize(q.F, q.R_eye) /\ q.C_U = q.H_U \div 2
  /\ q.W_D \in Nat /\ q.C_Dx \in 0 .. q.W_D - 1
  /\ q.H_D \in Nat /\ q.C_Dy \in 0 .. q.H_D - 1

\* DWPA_set_parameters() makes such parameters of every command line.
LEMMA PlacedSound ==
  ASSUME NEW j, Placed(j)
  PROVE  Sound(ParametersFor(j))
<1>1. j \in Job /\ Pictures[j.fin] \notin {Missing, Damaged}
  BY JobAssumption DEF Placed, Decodable
<1>2. Pictures[j.fin] \in Nat \X Nat
  BY <1>1, PictureAssumption DEF Job
<1>3. PICK w \in Nat, h \in Nat : Pictures[j.fin] = <<w, h>>
  BY <1>2
<1>4. j.R \in Nat /\ j.x \in Nat /\ j.y \in Nat /\ j.inte \in Nat
  BY <1>1 DEF Job
<1>5. PICK R \in Nat : R = j.R
  BY <1>4
<1>6. PICK x \in Nat : x = j.x
  BY <1>4
<1>7. PICK y \in Nat : y = j.y
  BY <1>4
<1>8. PICK f \in Nat : f = j.inte
  BY <1>4
<1>9. ParametersFor(j) = Parameters(w, h, x, y, R, f)
  BY <1>3, <1>5, <1>6, <1>7, <1>8 DEF ParametersFor
<1>10. PICK e \in Nat : e = IF R = 0 THEN h \div 2 ELSE R
  OBVIOUS
<1>11. PICK F \in Nat : F = Factor(e, f) /\ (e # 0 => F # 0)
  BY DEF Factor
<1>12. PICK q : q = Parameters(w, h, x, y, R, f)
  OBVIOUS
<1>13. /\ q.F = F /\ q.R_eye = e /\ q.W_D = w /\ q.H_D = h
       /\ q.H_U = FlatSize(F, e) /\ q.C_U = q.H_U \div 2
  BY <1>10, <1>11, <1>12 DEF Parameters
<1>14. q.C_Dx \in 0 .. q.W_D - 1 /\ q.C_Dy \in 0 .. q.H_D - 1
  BY <1>9, <1>12 DEF Placed, CentreInPicture
<1> QED
  BY <1>9, <1>11, <1>12, <1>13, <1>14 DEF Sound

\* The flat picture of sound parameters, when it is not empty.
LEMMA FlatPicture ==
  ASSUME NEW q, Sound(q), NEW at \in (0 .. q.H_U - 1) \X (0 .. q.H_U - 1)
  PROVE  /\ q.F \in Nat \ {0} /\ q.H_U \in Nat /\ q.C_U \in Nat
         /\ R_U(q.F, q.R_eye) \in Nat \ {0}
         /\ (at[1] - q.C_U) * (at[1] - q.C_U) + (at[2] - q.C_U) * (at[2] - q.C_U)
              <= R_U(q.F, q.R_eye) * R_U(q.F, q.R_eye)
<1>1. PICK U \in Nat : U = R_U(q.F, q.R_eye) /\ (U # 0 => q.R_eye # 0)
  BY R_UIs DEF Sound
<1>2. q.H_U = (141421 * U) \div 100000
  BY <1>1 DEF Sound, FlatSize
<1>3. PICK H \in Nat : H = q.H_U /\ H = (141421 * U) \div 100000
  BY <1>2
<1>4. PICK x \in 0 .. H - 1 : x = at[1]
  BY <1>3
<1>5. PICK y \in 0 .. H - 1 : y = at[2]
  BY <1>3
<1>6. U # 0
  BY <1>3, <1>4
<1>7. q.C_U = H \div 2 /\ q.C_U \in Nat
  BY <1>3 DEF Sound
<1>8. (x - (H \div 2)) * (x - (H \div 2)) + (y - (H \div 2)) * (y - (H \div 2)) <= U * U
  BY <1>3, CornerReach
<1> QED
  BY <1>1, <1>3, <1>4, <1>5, <1>6, <1>7, <1>8 DEF Sound

\* Every pixel but the centre comes from within the eye.
LEMMA PixelInsideEye ==
  ASSUME NEW q, Sound(q), NEW at \in (0 .. q.H_U - 1) \X (0 .. q.H_U - 1),
         at # Centre(q)
  PROVE  LET dx == Outward(P2(q, at[1], at[2])[1] - q.C_Dx)
             dy == Outward(P2(q, at[1], at[2])[2] - q.C_Dy)
         IN dx * dx + dy * dy <= q.R_eye * q.R_eye
<1>1. /\ q.F \in Nat \ {0} /\ q.H_U \in Nat /\ q.C_U \in Nat
      /\ R_U(q.F, q.R_eye) \in Nat \ {0}
      /\ (at[1] - q.C_U) * (at[1] - q.C_U) + (at[2] - q.C_U) * (at[2] - q.C_U)
           <= R_U(q.F, q.R_eye) * R_U(q.F, q.R_eye)
  BY FlatPicture
<1>2. PICK F \in Nat \ {0} : F = q.F
  BY <1>1
<1>3. PICK R \in Nat : R = q.R_eye
  BY DEF Sound
<1>4. PICK U \in Nat \ {0} : U = R_U(F, R)
  BY <1>1, <1>2, <1>3
<1>5. PICK a \in Int : a = at[1] - q.C_U
  BY <1>1
<1>6. PICK b \in Int : b = at[2] - q.C_U
  BY <1>1
<1>7. PICK n \in Nat \ {0} : n = a * a + b * b /\ n <= U * U
  <2>1. a # 0 \/ b # 0
    <3>1. PICK x \in 0 .. q.H_U - 1, y \in 0 .. q.H_U - 1 : at = <<x, y>>
      OBVIOUS
    <3>2. x # q.C_U \/ y # q.C_U
      BY <3>1 DEF Centre
    <3>3. a = x - q.C_U /\ b = y - q.C_U
      BY <1>5, <1>6, <3>1
    <3>4. PICK e \in Int : e = q.C_U
      BY <1>1
    <3>5. x \in Int /\ y \in Int
      BY <1>1
    <3> QED
      BY <3>2, <3>3, <3>4, <3>5
  <2>2. \A i \in Int : i * i \in Nat /\ (i # 0 => i * i # 0)
    <3> SUFFICES ASSUME NEW i \in Int PROVE i * i \in Nat /\ (i # 0 => i * i # 0)
      OBVIOUS
    <3>1. CASE i > 0
      BY <3>1
    <3>2. CASE i < 0
      BY <3>2
    <3>3. CASE i = 0
      BY <3>3
    <3> QED
      BY <3>1, <3>2, <3>3
  <2>3. PICK A \in Nat : A = a * a /\ (a # 0 => A # 0)
    BY <2>2
  <2>4. PICK B \in Nat : B = b * b /\ (b # 0 => B # 0)
    BY <2>2
  <2>5. a * a + b * b <= U * U
    BY <1>1, <1>2, <1>3, <1>4, <1>5, <1>6
  <2> QED
    BY <2>1, <2>3, <2>4, <2>5
<1>8. PICK s \in Nat : s = Sqrt(n) /\ s <= U
  <2>1. PICK s \in Nat : s = Sqrt(n) /\ s * s <= n
    BY SqrtIs
  <2>2. s * s <= U * U
    BY <1>7, <2>1
  <2> QED
    BY <2>1, <2>2, SquareOrder
<1>9. PICK r \in Nat : r = R_D(F, s) /\ r <= R
  <2>1. R_D(F, s) \in Nat
    BY R_DIs
  <2>2. R_D(F, s) <= R
    BY <1>4, <1>8, R_DInside
  <2> QED
    BY <2>1, <2>2
<1>10. PICK w \in Nat : w = q.W_D
  BY DEF Sound
<1>20. PICK c \in 0 .. w - 1 : c = q.C_Dx
  BY <1>10 DEF Sound
<1>11. PICK h \in Nat : h = q.H_D
  BY DEF Sound
<1>21. PICK d \in 0 .. h - 1 : d = q.C_Dy
  BY <1>11 DEF Sound
<1>12. P2(q, at[1], at[2]) = <<Clamp(Project(r, a, n) + c, w), Clamp(Project(r, b, n) + d, h)>>
  BY <1>2, <1>5, <1>6, <1>7, <1>8, <1>9, <1>10, <1>11, <1>20, <1>21 DEF P2
<1>13. LET dx == Outward(Clamp(Project(r, a, n) + c, w) - c)
           dy == Outward(Clamp(Project(r, b, n) + d, h) - d)
       IN dx * dx + dy * dy <= R * R
  BY <1>7, <1>9, SampleOut
<1> QED
  BY <1>3, <1>10, <1>11, <1>12, <1>13, <1>20, <1>21

\* A pixel and the next one of its row come from left to right.
LEMMA PixelsInOrder ==
  ASSUME NEW q, Sound(q), NEW x \in 0 .. q.H_U - 1, NEW z \in 0 .. q.H_U - 1,
         NEW y \in 0 .. q.H_U - 1, x < z,
         <<x, y>> # Centre(q), <<z, y>> # Centre(q)
  PROVE  P2(q, x, y)[1] <= P2(q, z, y)[1]
<1>1. <<x, y>> \in (0 .. q.H_U - 1) \X (0 .. q.H_U - 1)
  BY Zenon
<1>2. q.F \in Nat \ {0} /\ q.H_U \in Nat /\ q.C_U \in Nat
  BY <1>1, FlatPicture
<1>3. PICK F \in Nat \ {0} : F = q.F
  BY <1>2
<1>4. PICK a \in Int : a = x - q.C_U
  BY <1>2
<1>5. PICK b \in Int : b = z - q.C_U
  BY <1>2
<1>6. PICK k \in Int : k = y - q.C_U
  BY <1>2
<1>7. a < b
  BY <1>2, <1>4, <1>5
<1>8. \A i \in Int : i * i \in Nat /\ (i # 0 => i * i # 0)
  <2> SUFFICES ASSUME NEW i \in Int PROVE i * i \in Nat /\ (i # 0 => i * i # 0)
    OBVIOUS
  <2>1. CASE i > 0
    BY <2>1
  <2>2. CASE i < 0
    BY <2>2
  <2>3. CASE i = 0
    BY <2>3
  <2> QED
    BY <2>1, <2>2, <2>3
<1>9. PICK K \in Nat : K = k * k /\ (k # 0 => K # 0)
  BY <1>8
<1>10. PICK m \in Nat \ {0} : m = a * a + K
  <2>1. a # 0 \/ k # 0
    BY <1>2, <1>4, <1>6 DEF Centre
  <2>2. PICK A \in Nat : A = a * a /\ (a # 0 => A # 0)
    BY <1>8
  <2> QED
    BY <1>9, <2>1, <2>2
<1>11. PICK n \in Nat \ {0} : n = b * b + K
  <2>1. b # 0 \/ k # 0
    BY <1>2, <1>5, <1>6 DEF Centre
  <2>2. PICK B \in Nat : B = b * b /\ (b # 0 => B # 0)
    BY <1>8
  <2> QED
    BY <1>9, <2>1, <2>2
<1>12. PICK s \in Nat : s = Sqrt(m)
  BY SqrtIs
<1>13. PICK t \in Nat : t = Sqrt(n)
  BY SqrtIs
<1>14. PICK r \in Nat : r = R_D(F, s)
  BY R_DIs
<1>15. PICK v \in Nat : v = R_D(F, t)
  BY R_DIs
<1>16. ASSUME a * a <= b * b PROVE r <= v
  <2>1. m <= n
    BY <1>8, <1>10, <1>11, <1>16
  <2>2. s <= t
    BY <1>12, <1>13, <2>1, SqrtOrder
  <2> QED
    BY <1>14, <1>15, <2>2, R_DOrder
<1>17. ASSUME b * b <= a * a PROVE v <= r
  <2>1. n <= m
    BY <1>8, <1>10, <1>11, <1>17
  <2>2. t <= s
    BY <1>12, <1>13, <2>1, SqrtOrder
  <2> QED
    BY <1>14, <1>15, <2>2, R_DOrder
<1>18. Project(r, a, m) <= Project(v, b, n)
  BY <1>7, <1>10, <1>11, <1>16, <1>17, ProjectOrder
<1>19. PICK i \in Int : i = Project(r, a, m)
  BY ProjectOut
<1>20. PICK j \in Int : j = Project(v, b, n)
  BY ProjectOut
<1>21. PICK w \in Nat : w = q.W_D
  BY DEF Sound
<1>25. PICK c \in 0 .. w - 1 : c = q.C_Dx
  BY <1>21 DEF Sound
<1>22. P2(q, x, y)[1] = Clamp(i + c, w)
  BY <1>3, <1>4, <1>6, <1>9, <1>10, <1>12, <1>14, <1>19, <1>21, <1>25 DEF P2
<1>23. P2(q, z, y)[1] = Clamp(j + c, w)
  BY <1>3, <1>5, <1>6, <1>9, <1>11, <1>13, <1>15, <1>20, <1>21, <1>25 DEF P2
<1>24. Clamp(i + c, w) <= Clamp(j + c, w)
  BY <1>18, <1>19, <1>20 DEF Clamp
<1> QED
  BY <1>22, <1>23, <1>24

\* The map of sound parameters is one of the maps the properties speak of.
LEMMA MapOf ==
  ASSUME NEW j, Placed(j)
  PROVE  /\ ParametersFor(j) \in DOMAIN Maps
         /\ Maps[ParametersFor(j)] = CreateMap(ParametersFor(j))
BY DEF Placed, Maps

\* In a flat picture of any size, from any command line, each pixel but the
\* centre is taken from within the eye (dewrap_algo.c 62-92, 129-137).
THEOREM FlatPictureInsideEye == Spec => []SamplesInsideEye
<1>1. Spec => []Geometry
  BY InitGeometry, NextGeometry, PTL DEF Spec
<1>2. Geometry => SamplesInsideEye
  <2> SUFFICES ASSUME Geometry, NEW p \in Mapping
               PROVE  param[p] \in InsideEye
    BY DEF SamplesInsideEye
  <2>1. PICK j : Placed(j) /\ param[p] = ParametersFor(j)
    BY DEF Geometry, Mapping
  <2>2. PICK q : q = ParametersFor(j)
    OBVIOUS
  <2>3. Sound(q) /\ q \in DOMAIN Maps /\ Maps[q] = CreateMap(q)
    BY <2>1, <2>2, PlacedSound, MapOf
  <2>4. ASSUME NEW at \in DOMAIN Maps[q] \ {Centre(q)}
        PROVE  LET dx == Outward(Maps[q][at][1] - q.C_Dx)
                   dy == Outward(Maps[q][at][2] - q.C_Dy)
               IN dx * dx + dy * dy <= q.R_eye * q.R_eye
    <3>1. at \in (0 .. q.H_U - 1) \X (0 .. q.H_U - 1) /\ at # Centre(q)
      BY <2>3, <2>4, Zenon DEF CreateMap
    <3>2. Maps[q][at] = P2(q, at[1], at[2])
      BY <2>3, <3>1, Zenon DEF CreateMap
    <3> HIDE DEF Maps
    <3> QED
      BY <2>3, <3>1, <3>2, PixelInsideEye, Zenon
  <2>5. q \in InsideEye
    BY <2>3, <2>4, Zenon DEF InsideEye
  <2> QED
    BY <2>1, <2>2, <2>5
<1> QED
  BY <1>1, <1>2, PTL

\* No row of a flat picture folds back: its pixels come from left to right,
\* whatever the cuts to integers (dewrap_algo.c 62-92).
THEOREM FlatPictureRowOrder == Spec => []RowsKeepOrder
<1>1. Spec => []Geometry
  BY InitGeometry, NextGeometry, PTL DEF Spec
<1>2. Geometry => RowsKeepOrder
  <2> SUFFICES ASSUME Geometry, NEW p \in Mapping
               PROVE  param[p] \in InRowOrder
    BY DEF RowsKeepOrder
  <2>1. PICK j : Placed(j) /\ param[p] = ParametersFor(j)
    BY DEF Geometry, Mapping
  <2>2. PICK q : q = ParametersFor(j)
    OBVIOUS
  <2>3. Sound(q) /\ q \in DOMAIN Maps /\ Maps[q] = CreateMap(q)
    BY <2>1, <2>2, PlacedSound, MapOf
  <2>4. DOMAIN Maps[q] = (0 .. q.H_U - 1) \X (0 .. q.H_U - 1)
    BY <2>3, Zenon DEF CreateMap
  <2>5. \A at \in (0 .. q.H_U - 1) \X (0 .. q.H_U - 1) : Maps[q][at] = P2(q, at[1], at[2])
    BY <2>3, Zenon DEF CreateMap
  <2>6. ASSUME NEW at \in DOMAIN Maps[q] \ {Centre(q)}, Right(q, at) \in DOMAIN Maps[q]
        PROVE  Maps[q][at][1] <= Maps[q][Right(q, at)][1]
    <3>1. PICK x \in 0 .. q.H_U - 1, y \in 0 .. q.H_U - 1 : at = <<x, y>>
      BY <2>4
    <3>2. PICK z \in 0 .. q.H_U - 1 : /\ Right(q, at) = <<z, y>> /\ x < z
                                      /\ <<z, y>> # Centre(q)
      <4>1. CASE <<x + 1, y>> = Centre(q)
        <5>1. Right(q, at) = <<x + 2, y>>
          BY <3>1, <4>1 DEF Right
        <5>2. x + 2 \in 0 .. q.H_U - 1
          BY <2>4, <2>6, <5>1
        <5>3. <<x + 2, y>> # Centre(q)
          BY <4>1 DEF Centre
        <5> QED
          BY <5>1, <5>2, <5>3
      <4>2. CASE <<x + 1, y>> # Centre(q)
        <5>1. Right(q, at) = <<x + 1, y>>
          BY <3>1, <4>2 DEF Right
        <5>2. x + 1 \in 0 .. q.H_U - 1
          BY <2>4, <2>6, <5>1
        <5> QED
          BY <4>2, <5>1, <5>2
      <4> QED
        BY <4>1, <4>2
    <3>3. <<x, y>> # Centre(q)
      BY <2>6, <3>1
    <3>4. P2(q, x, y)[1] <= P2(q, z, y)[1]
      BY <2>3, <3>2, <3>3, PixelsInOrder
    <3>5. Maps[q][<<x, y>>] = P2(q, x, y)
      BY <2>5
    <3>6. Maps[q][<<z, y>>] = P2(q, z, y)
      BY <2>5
    <3> QED
      BY <3>1, <3>2, <3>4, <3>5, <3>6
  <2>7. q \in InRowOrder
    BY <2>3, <2>6, Zenon DEF InRowOrder
  <2> QED
    BY <2>1, <2>2, <2>7
<1> QED
  BY <1>1, <1>2, PTL
=============================================================================
