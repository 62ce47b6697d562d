-------------------------- MODULE Documents_proofs --------------------------
(***************************************************************************)
(* The document cache, proved for any documents, runs and faults.  What a  *)
(* call knows about the files of its document is an invariant because      *)
(* nobody else has them open: a step touches the files of one document     *)
(* (StepFrame), and calls that write have different ones (Exclusive).      *)
(***************************************************************************)
EXTENDS Documents, TLAPS

Answered == {"failed", "absent", "part", "whole", "none"}

Label == {"lookup", "ask", "open", "absent", "fill", "rename", "json", "meta", "load", "mark", "done"}

GivenOK ==
  /\ job \in Jobs /\ release \in job.releases /\ served \in {{}, release}
  /\ state \in [Run -> {"idle", "on", "ended", "killed"}]
FilesOK ==
  /\ disk \in [Path -> {None} \cup [file : File, is : Content]]
  /\ fd \in [job.calls -> {None} \cup File]
CallsOK ==
  /\ pc \in [job.calls -> Label] /\ at \in [job.calls -> Doc]
  /\ out \in [job.calls -> {None} \cup Answered]
  /\ \A c \in job.calls :
       /\ \/ at[c] = c.doc
          \/ at[c] = Core /\ c.doc \in Schema
          \/ at[c] \in Discovery /\ c.doc = ApiV1
       /\ out[c] # None <=> pc[c] = "done"
TypeOK == GivenOK /\ FilesOK /\ CallsOK

-----------------------------------------------------------------------------
(* Where a file was made, and which file a call has open.                  *)
Origin(p) ==
  IF p[2] = "" /\ p[1] \in Chart THEN {Temp(x) : x \in {y \in Call : y.doc = p[1]}}
  ELSE IF p[2] = "" /\ p[1] \in Kube THEN {<<p[1], ".tmp">>}
  ELSE {p}

Writes(c) ==
  IF pc[c] = "meta" THEN <<at[c], ".json">>
  ELSE IF at[c] \in Chart THEN Temp(c)
  ELSE IF at[c] \in Kube THEN <<at[c], ".tmp">>
  ELSE IF at[c] \in Contract THEN <<at[c], ".yaml">>
  ELSE Slot(at[c])

FileInv ==
  /\ \A p \in Path : disk[p] # None => disk[p].file[2] \in Origin(p)
  /\ \A c \in job.calls : pc[c] \in {"fill", "meta"} => fd[c] # None /\ fd[c][2] = Writes(c)

(* A call that is in the middle of writing finds the file it opened.       *)
Holds(c) == disk[Writes(c)] # None /\ disk[Writes(c)].file = fd[c]

-----------------------------------------------------------------------------
ChartDoc(d) ==
  /\ Is(Slot(d)) \in {None, "whole"}
  /\ disk[<<d, ".json">>] # None => disk[Slot(d)] # None

ChartCall(c) ==
  /\ out[c] \in {None, "failed", "absent", "whole"}
  /\ pc[c] = "fill" => Holds(c)
  /\ pc[c] = "rename" => Is(Temp(c)) = "whole"
  /\ pc[c] \in {"json", "meta", "load"} \/ out[c] = "whole" => disk[Slot(at[c])] # None

ChartInv ==
  /\ \A d \in Chart : ChartDoc(d)
  /\ \A c \in job.calls : at[c] \in Chart => ChartCall(c)

-----------------------------------------------------------------------------
(* Runs of one process after the other.                                    *)
SerialInv ==
  /\ ~job.together => \A q, r \in Run : q < r /\ state[r] # "idle" => state[q] \in {"ended", "killed"}
  /\ \A c \in job.calls :
       /\ state[c.run] = "idle" => pc[c] = "lookup" /\ at[c] = c.doc
       /\ state[c.run] = "ended" => pc[c] = "done"

Going(c) == state[c.run] = "on" /\ pc[c] # "done"

(* What the remote said a moment ago it still says.                        *)
ServedCall(c) ==
  Going(c) =>
    /\ pc[c] \in {"open", "fill", "rename"} => at[c] \in served
    /\ pc[c] = "absent" => at[c] \notin served

PinnedChartCall(c) ==
  LET json == <<at[c], ".json">> IN
  /\ out[c] = "whole" => Is(json) = "whole"
  /\ Going(c) =>
       /\ pc[c] = "load" => Is(json) = "whole"
       /\ pc[c] \in {"ask", "open", "absent", "fill", "rename", "json", "meta"} => Is(json) # "whole"
       /\ pc[c] = "meta" => Holds(c)

ContractDoc(d) == Is(<<d, ".json">>) = "whole" => Is(<<d, ".yaml">>) = "whole"
ContractCall(c) ==
  LET json == <<at[c], ".json">>
      yaml == <<at[c], ".yaml">>
  IN
  /\ out[c] \in {None, "failed", "absent", "whole"}
  /\ out[c] = "whole" => Is(json) = "whole"
  /\ Going(c) =>
       /\ pc[c] \in {"ask", "open", "absent", "fill", "json", "meta"} => Is(json) \notin {"whole", "none"}
       /\ pc[c] \in {"json", "meta"} /\ at[c] \in served => Is(yaml) = "whole"
       /\ pc[c] \in {"fill", "meta"} => Holds(c)

KubeDoc(d) ==
  /\ Is(Slot(d)) \in {None, "whole"}
  /\ disk[Slot(d)] # None => d \in served
  /\ d \in Schema /\ disk[<<d, ".absent">>] # None => d # Core /\ d \notin served /\ served = release
KubeCall(c) ==
  /\ out[c] \in {None, "failed", "absent", "whole"}
  /\ c.doc \in Schema =>
       /\ out[c] = "whole" => disk[Slot(c.doc)] # None
       /\ out[c] = "absent" => /\ c.doc # Core /\ c.doc \notin served /\ served = release
                               /\ job.full \/ disk[<<c.doc, ".absent">>] # None
  /\ c.doc = ApiV1 =>
       /\ at[c] # ApiV1 => disk[Slot(ApiV1)] # None
       /\ out[c] = "whole" => at[c] # ApiV1 /\ disk[Slot(at[c])] # None
  /\ Going(c) =>
       /\ at[c] = Core /\ c.doc # Core => c.doc \notin served
       /\ pc[c] = "mark" /\ at[c] \in Schema => at[c] = c.doc /\ at[c] # Core /\ at[c] \notin served /\ served = release
       /\ pc[c] = "fill" => Holds(c)
       /\ pc[c] = "rename" => Is(<<at[c], ".tmp">>) = "whole"

PinnedInv ==
  /\ \A d \in Contract \cap Pinned : ContractDoc(d)
  /\ \A d \in Kube : KubeDoc(d)
  /\ \A c \in job.calls :
       /\ ServedCall(c)
       /\ at[c] \in Chart \cap Pinned /\ ~job.together => PinnedChartCall(c)
       /\ at[c] \in Contract \cap Pinned => ContractCall(c)
       /\ at[c] \in Kube => KubeCall(c)

(* A call that comes after one that fetched.                               *)
Fetched(b) == out[b] = "whole" \/ (out[b] = "absent" /\ b.doc \in Schema /\ ~job.full)
Finds(c) ==
  IF c.doc \in Discovery
  THEN /\ at[c] = ApiV1 => pc[c] = "lookup"
       /\ at[c] = AggV2 => pc[c] = "lookup" \/ disk[Slot(AggBeta)] # None
       /\ at[c] = AggBeta => pc[c] = "lookup" /\ disk[Slot(AggBeta)] # None
  ELSE at[c] = c.doc /\ pc[c] \in {"lookup", "load"}
StaysInv ==
  \A b, c \in job.calls :
    /\ b.doc = c.doc /\ b.doc \in Pinned \ Image /\ b.run < c.run /\ ~job.together
    /\ Fetched(b)
    => out[c] = out[b] \/ (out[c] = None /\ Finds(c))

-----------------------------------------------------------------------------
(* Constants.                                                              *)
LEMMA CallIs ==
  ASSUME TypeOK, NEW c \in job.calls
  PROVE  /\ c \in Call /\ c.run \in Run /\ c.doc \in Doc
         /\ c.doc \in Discovery => c.doc = ApiV1
         /\ Temp(c) \in Path
<1>1. job \in Jobs
  BY DEF TypeOK, GivenOK
<1>2. c \in Call
  BY <1>1 DEF Call
<1> QED BY <1>1, <1>2, DocumentsAssumption DEF Path

LEMMA PathsAre ==
  /\ \A d \in Chart : {Slot(d), <<d, ".json">>} \subseteq Path
  /\ \A d \in Kube : {Slot(d), <<d, ".tmp">>, <<d, ".absent">>} \subseteq Path
  /\ \A d \in Contract : {<<d, ".yaml">>, <<d, ".json">>} \subseteq Path
  /\ \A d \in Image : Slot(d) \in Path
<1>1. \A d \in Chart, x \in {"", ".json"} : <<d, x>> \in Path
  BY DEF Path
<1>2. \A d \in Kube, x \in {"", ".tmp", ".absent"} : <<d, x>> \in Path
  BY DEF Path
<1>3. \A d \in Contract, x \in {".yaml", ".json"} : <<d, x>> \in Path
  BY DEF Path
<1>4. \A d \in Image, x \in {""} : <<d, x>> \in Path
  BY DEF Path
<1> QED BY <1>1, <1>2, <1>3, <1>4 DEF Slot

LEMMA NothingIsNone ==
  /\ \A r \in [file : File, is : Content] : r # None /\ r.is # None /\ r.is \in Content /\ r.file \in File
  /\ \A f \in File : f # None
  /\ \A a \in Answered : a # None
BY NoneAssumption DEF Answered, Content

LEMMA ContentIs ==
  ASSUME TypeOK, NEW p \in Path
  PROVE  /\ disk[p] # None => disk[p] \in [file : File, is : Content] /\ Is(p) = disk[p].is /\ Is(p) \in Content
         /\ disk[p] = None <=> Is(p) = None
BY NothingIsNone DEF TypeOK, FilesOK, Is

-----------------------------------------------------------------------------
(* Types.                                                                  *)
LEMMA GotoType ==
  ASSUME TypeOK, NEW c \in job.calls, NEW l \in Label \ {"done"}, pc[c] # "done", Goto(c, l), job' = job
  PROVE  CallsOK'
BY DEF TypeOK, CallsOK, Goto

LEMMA TurnType ==
  ASSUME TypeOK, NEW c \in job.calls, NEW l \in Label \ {"done"}, NEW d \in Doc, pc[c] # "done", Turn(c, d, l), job' = job,
         d = c.doc \/ (d = Core /\ c.doc \in Schema) \/ (d \in Discovery /\ c.doc = ApiV1)
  PROVE  CallsOK'
BY DEF TypeOK, CallsOK, Turn

LEMMA ReturnType ==
  ASSUME TypeOK, NEW c \in job.calls, NEW a \in Answered, Return(c, a), job' = job
  PROVE  CallsOK'
BY NothingIsNone DEF TypeOK, CallsOK, Return, Label

LEMMA AnswerType ==
  ASSUME TypeOK, NEW c \in job.calls, NEW a \in Answered, pc[c] # "done", Answer(c, a), job' = job
  PROVE  CallsOK'
<1>1. c.doc \in Doc /\ at[c] \in Doc /\ AggV2 \in Doc /\ AggBeta \in Doc /\ (c.doc \in Discovery => c.doc = ApiV1)
  BY CallIs DEF TypeOK, CallsOK, Doc, Kube, Discovery
<1>2. at[c] = Core /\ c.doc # Core => c.doc \in Schema
  BY DocumentsAssumption DEF TypeOK, CallsOK, Discovery
<1>3. at[c] \in {ApiV1, AggV2} => c.doc = ApiV1
  BY CallIs, DocumentsAssumption DEF TypeOK, CallsOK, Discovery
<1>4. CASE Turn(c, c.doc, "mark")
  BY <1>1, <1>4, TurnType DEF Label
<1>5. CASE at[c] = ApiV1 /\ Turn(c, AggV2, "lookup")
  BY <1>1, <1>3, <1>5, TurnType DEF Label, Discovery
<1>6. CASE at[c] = AggV2 /\ Turn(c, AggBeta, "lookup")
  BY <1>1, <1>3, <1>6, TurnType DEF Label, Discovery
<1>7. CASE \E b \in Answered : Return(c, b)
  BY <1>7, ReturnType
<1> QED BY <1>4, <1>5, <1>6, <1>7 DEF Answer, Answered

LEMMA TruncateType ==
  ASSUME TypeOK, NEW c \in job.calls, NEW p \in Path, Truncate(c, p), job' = job
  PROVE  FilesOK'
<1> DEFINE file == IF disk[p] = None THEN <<c, p>> ELSE disk[p].file
<1>1. file \in File
  BY CallIs DEF TypeOK, FilesOK, File
<1>2. [file |-> file, is |-> "part"] \in [file : File, is : Content]
  BY <1>1 DEF Content
<1>3. disk' = [disk EXCEPT ![p] = [file |-> file, is |-> "part"]] /\ fd' = [fd EXCEPT ![c] = file]
  BY DEF Truncate
<1> HIDE DEF file
<1> QED BY <1>1, <1>2, <1>3 DEF TypeOK, FilesOK

LEMMA WriteType ==
  ASSUME TypeOK, NEW c \in job.calls, NEW w \in Content, Write(c, w), job' = job
  PROVE  FilesOK'
<1>1. \A p \in Path : disk'[p] \in {None} \cup [file : File, is : Content]
  <2> SUFFICES ASSUME NEW p \in Path PROVE disk'[p] \in {None} \cup [file : File, is : Content]
    OBVIOUS
  <2>1. disk[p] \in {None} \cup [file : File, is : Content]
    BY DEF TypeOK, FilesOK
  <2>2. disk'[p] = IF disk[p] # None /\ disk[p].file = fd[c] THEN [disk[p] EXCEPT !.is = w] ELSE disk[p]
    BY DEF Write
  <2> QED BY <2>1, <2>2
<1>2. disk' = [p \in Path |-> disk'[p]]
  BY DEF Write
<1>3. fd' \in [job.calls -> {None} \cup File]
  BY DEF Write, TypeOK, FilesOK
<1> QED BY <1>1, <1>2, <1>3 DEF FilesOK

LEMMA WriteFailsType ==
  ASSUME TypeOK, NEW c \in job.calls, WriteFails(c), job' = job,
         disk' = disk \/ \E p \in Path : disk' = [disk EXCEPT ![p] = None]
  PROVE  FilesOK'
BY DEF WriteFails, TypeOK, FilesOK

LEMMA RenameType ==
  ASSUME TypeOK, NEW c \in job.calls, NEW p \in Path, Slot(at[c]) \in Path, Rename(c, p), job' = job
  PROVE  FilesOK'
BY DEF Rename, TypeOK, FilesOK

LEMMA MarkType ==
  ASSUME TypeOK, NEW c \in job.calls, NEW p \in Path, job' = job,
         disk' = [disk EXCEPT ![p] = [file |-> <<c, p>>, is |-> "whole"]], fd' = fd
  PROVE  FilesOK'
<1>1. [file |-> <<c, p>>, is |-> "whole"] \in [file : File, is : Content]
  BY CallIs DEF File, Content
<1> QED BY <1>1 DEF TypeOK, FilesOK

LEMMA NoFileType ==
  ASSUME TypeOK, job' = job, disk' = disk, fd' = fd
  PROVE  FilesOK'
BY DEF TypeOK, FilesOK

(* What is read of a file is an answer when there is one.                  *)
LEMMA IsAnswers ==
  ASSUME TypeOK, NEW p \in Path, Is(p) # None
  PROVE  Is(p) \in Answered
BY ContentIs DEF Content, Answered

LEMMA MissType ==
  ASSUME TypeOK, NEW c \in job.calls, On(c, "lookup"), Miss(c), job' = job
  PROVE  CallsOK' /\ FilesOK'
BY AnswerType, GotoType, NoFileType DEF Miss, On, Label, Answered

LEMMA AskType ==
  ASSUME TypeOK, NEW c \in job.calls, Ask(c), job' = job
  PROVE  CallsOK' /\ FilesOK'
BY AnswerType, GotoType, NoFileType DEF Ask, On, Label, Answered

LEMMA HitType ==
  ASSUME TypeOK, NEW c \in job.calls, NEW a \in Answered, pc[c] # "done", Hit(c, a), job' = job
  PROVE  CallsOK' /\ FilesOK'
BY AnswerType, NoFileType DEF Hit

LEMMA HttpChartType ==
  ASSUME TypeOK, NEW c \in job.calls, HttpChart(c), job' = job, pc[c] = "load" => disk[Slot(at[c])] # None
  PROVE  CallsOK' /\ FilesOK'
<1>1. /\ at[c] \in Chart /\ Slot(at[c]) \in Path /\ Temp(c) \in Path /\ <<at[c], ".json">> \in Path
  BY CallIs, PathsAre DEF HttpChart
<1>2. CASE On(c, "lookup") /\ ChartHit(c) /\ Goto(c, "load") /\ UNCHANGED <<disk, fd>>
  BY <1>2, GotoType, NoFileType DEF On, Label
<1>3. CASE On(c, "lookup") /\ ~ChartHit(c) /\ Miss(c)
  BY <1>3, MissType
<1>4. CASE Ask(c)
  BY <1>4, AskType
<1>5. CASE On(c, "absent") /\ Return(c, "absent") /\ UNCHANGED <<disk, fd>>
  BY <1>5, ReturnType, NoFileType DEF Answered
<1>6. CASE On(c, "open") /\ Truncate(c, Temp(c)) /\ Goto(c, "fill")
  BY <1>1, <1>6, TruncateType, GotoType DEF On, Label
<1>7. CASE On(c, "fill") /\ Write(c, "whole") /\ Goto(c, "rename")
  BY <1>7, WriteType, GotoType DEF On, Label, Content
<1>8. CASE /\ On(c, "fill") /\ WriteFails(c) /\ Return(c, "failed")
           /\ disk' = [disk EXCEPT ![Temp(c)] = None]
  BY <1>1, <1>8, WriteFailsType, ReturnType DEF Answered
<1>9. CASE On(c, "rename") /\ Rename(c, Temp(c)) /\ Goto(c, "json")
  BY <1>1, <1>9, RenameType, GotoType DEF On, Label
<1>10. CASE On(c, "json") /\ Truncate(c, <<at[c], ".json">>) /\ Goto(c, "meta")
  BY <1>1, <1>10, TruncateType, GotoType DEF On, Label
<1>11. CASE On(c, "meta") /\ Write(c, "whole") /\ Goto(c, "load")
  BY <1>11, WriteType, GotoType DEF On, Label, Content
<1>12. CASE On(c, "meta") /\ WriteFails(c) /\ Return(c, "failed") /\ UNCHANGED disk
  BY <1>12, WriteFailsType, ReturnType DEF Answered
<1>13. CASE On(c, "load") /\ Return(c, Is(Slot(at[c]))) /\ UNCHANGED <<disk, fd>>
  BY <1>1, <1>13, ContentIs, IsAnswers, ReturnType, NoFileType DEF On
<1> QED BY <1>2, <1>3, <1>4, <1>5, <1>6, <1>7, <1>8, <1>9, <1>10, <1>11, <1>12, <1>13 DEF HttpChart

LEMMA KubeFileType ==
  ASSUME TypeOK, NEW c \in job.calls, KubeFile(c), job' = job
  PROVE  CallsOK' /\ FilesOK'
<1> DEFINE tmp == <<at[c], ".tmp">>
<1>1. /\ at[c] \in Kube /\ Slot(at[c]) \in Path /\ tmp \in Path /\ <<at[c], ".absent">> \in Path
  BY PathsAre DEF KubeFile
<1> HIDE DEF tmp
<1>2. CASE On(c, "lookup") /\ KubeHit(c) /\ Hit(c, IF Is(Slot(at[c])) # None THEN Is(Slot(at[c])) ELSE "absent")
  BY <1>1, <1>2, IsAnswers, HitType DEF On, Answered
<1>3. CASE On(c, "lookup") /\ ~KubeHit(c) /\ Miss(c)
  BY <1>3, MissType
<1>4. CASE Ask(c)
  BY <1>4, AskType
<1>5. CASE On(c, "absent") /\ NotFound(c) /\ UNCHANGED <<disk, fd>>
  <2>1. CASE Answer(c, "failed")
    BY <1>5, <2>1, AnswerType, NoFileType DEF On, Answered
  <2>2. CASE at[c] \in Schema /\ Turn(c, Core, "lookup")
    <3>1. c.doc \in Schema /\ Core \in Doc
      BY <2>2, CallIs, DocumentsAssumption DEF TypeOK, CallsOK, Doc, Kube
    <3> QED BY <1>5, <2>2, <3>1, TurnType, NoFileType DEF On, Label
  <2>3. CASE Goto(c, "mark")
    BY <1>5, <2>3, GotoType, NoFileType DEF On, Label
  <2> QED BY <1>5, <2>1, <2>2, <2>3 DEF NotFound
<1>6. CASE Mark(c)
  <2>1. CallsOK'
    BY <1>6, AnswerType DEF Mark, On, Answered
  <2>2. FilesOK'
    BY <1>1, <1>6, MarkType, NoFileType DEF Mark
  <2> QED BY <2>1, <2>2
<1>7. CASE On(c, "open") /\ Truncate(c, tmp) /\ Goto(c, "fill")
  BY <1>1, <1>7, TruncateType, GotoType DEF On, Label
<1>8. CASE On(c, "fill") /\ Write(c, "whole") /\ Goto(c, "rename")
  BY <1>8, WriteType, GotoType DEF On, Label, Content
<1>9. CASE On(c, "fill") /\ WriteFails(c) /\ Answer(c, "failed") /\ UNCHANGED disk
  BY <1>9, WriteFailsType, AnswerType DEF On, Answered
<1>10. CASE On(c, "rename") /\ disk[tmp] = None /\ Hit(c, "failed")
  BY <1>10, HitType DEF On, Answered
<1>11. CASE On(c, "rename") /\ disk[tmp] # None /\ Rename(c, tmp) /\ Answer(c, "whole")
  BY <1>1, <1>11, RenameType, AnswerType DEF On, Answered
<1> QED BY <1>2, <1>3, <1>4, <1>5, <1>6, <1>7, <1>8, <1>9, <1>10, <1>11 DEF KubeFile, tmp

LEMMA ImageContractType ==
  ASSUME TypeOK, NEW c \in job.calls, ImageContract(c), job' = job
  PROVE  CallsOK' /\ FilesOK'
<1>1. /\ at[c] \in Contract /\ <<at[c], ".yaml">> \in Path /\ <<at[c], ".json">> \in Path
  BY PathsAre DEF ImageContract
<1> DEFINE found == at[c] \in served
<1> HIDE DEF found
<1>2. CASE /\ On(c, "lookup") /\ ContractHit(c)
           /\ Hit(c, IF Is(<<at[c], ".json">>) = "none" THEN "absent" ELSE Is(<<at[c], ".yaml">>))
  BY <1>1, <1>2, IsAnswers, HitType DEF On, Answered, ContractHit
<1>3. CASE On(c, "lookup") /\ ~ContractHit(c) /\ Miss(c)
  BY <1>3, MissType
<1>4. CASE Ask(c)
  BY <1>4, AskType
<1>5. CASE On(c, "absent") /\ Goto(c, "json") /\ UNCHANGED <<disk, fd>>
  BY <1>5, GotoType, NoFileType DEF On, Label
<1>6. CASE On(c, "open") /\ Truncate(c, <<at[c], ".yaml">>) /\ Goto(c, "fill")
  BY <1>1, <1>6, TruncateType, GotoType DEF On, Label
<1>7. CASE On(c, "fill") /\ Write(c, "whole") /\ Goto(c, "json")
  BY <1>7, WriteType, GotoType DEF On, Label, Content
<1>8. CASE On(c, "json") /\ Truncate(c, <<at[c], ".json">>) /\ Goto(c, "meta")
  BY <1>1, <1>8, TruncateType, GotoType DEF On, Label
<1>9. CASE /\ On(c, "meta")
           /\ Write(c, IF found THEN "whole" ELSE "none") /\ Return(c, IF found THEN "whole" ELSE "absent")
  BY <1>9, WriteType, ReturnType DEF On, Content, Answered
<1>10. CASE WriteFails(c) /\ Return(c, "failed") /\ UNCHANGED disk
  BY <1>10, WriteFailsType, ReturnType DEF Answered
<1> QED BY <1>2, <1>3, <1>4, <1>5, <1>6, <1>7, <1>8, <1>9, <1>10 DEF ImageContract, found

LEMMA ImageAnswerType ==
  ASSUME TypeOK, NEW c \in job.calls, ImageAnswer(c), job' = job
  PROVE  CallsOK' /\ FilesOK'
<1>1. at[c] \in Image /\ Slot(at[c]) \in Path
  BY PathsAre DEF ImageAnswer
<1>2. CASE On(c, "lookup") /\ Hit(c, "whole")
  BY <1>2, HitType DEF On, Answered
<1>3. CASE On(c, "lookup") /\ Miss(c)
  BY <1>3, MissType
<1>4. CASE Ask(c)
  BY <1>4, AskType
<1>5. CASE On(c, "absent") /\ Return(c, "absent") /\ UNCHANGED <<disk, fd>>
  BY <1>5, ReturnType, NoFileType DEF Answered
<1>6. CASE On(c, "open") /\ Truncate(c, Slot(at[c])) /\ Goto(c, "fill")
  BY <1>1, <1>6, TruncateType, GotoType DEF On, Label
<1>7. CASE On(c, "fill") /\ Write(c, "whole") /\ Return(c, "whole")
  BY <1>7, WriteType, ReturnType DEF Answered, Content
<1>8. CASE On(c, "fill") /\ WriteFails(c) /\ Return(c, "whole") /\ UNCHANGED disk
  BY <1>8, WriteFailsType, ReturnType DEF Answered
<1> QED BY <1>2, <1>3, <1>4, <1>5, <1>6, <1>7, <1>8 DEF ImageAnswer

LEMMA StepType ==
  ASSUME TypeOK, NEW c \in job.calls, Step(c), at[c] \in Chart /\ pc[c] = "load" => disk[Slot(at[c])] # None
  PROVE  TypeOK'
<1>1. job' = job /\ release' = release /\ served' = served /\ state' = state
  BY DEF Step, remote
<1>2. CallsOK' /\ FilesOK'
  <2>1. CASE HttpChart(c)
    BY <1>1, <2>1, HttpChartType DEF HttpChart
  <2> QED BY <1>1, <2>1, KubeFileType, ImageContractType, ImageAnswerType DEF Step
<1> QED BY <1>1, <1>2 DEF TypeOK, GivenOK

-----------------------------------------------------------------------------
(* What the operations on files do, path by path.                          *)
LEMMA PairsAre == ASSUME NEW p \in Path PROVE p = <<p[1], p[2]>>
<1>1. ASSUME NEW S, NEW T, p \in S \X T PROVE p = <<p[1], p[2]>>
  BY <1>1
<1>2. CASE \E c \in Call : p = Temp(c)
  BY <1>2 DEF Temp
<1> QED BY <1>1, <1>2 DEF Path

LEMMA TruncateEffect ==
  ASSUME TypeOK, NEW c \in job.calls, NEW p \in Path, Truncate(c, p)
  PROVE  /\ \A q \in Path \ {p} : disk'[q] = disk[q]
         /\ disk'[p] # None /\ disk'[p].is = "part" /\ disk'[p].file = fd'[c] /\ fd'[c] # None
         /\ fd'[c] = IF disk[p] = None THEN <<c, p>> ELSE disk[p].file
         /\ \A x \in job.calls \ {c} : fd'[x] = fd[x]
<1> DEFINE file == IF disk[p] = None THEN <<c, p>> ELSE disk[p].file
<1>1. file \in File
  BY CallIs DEF TypeOK, FilesOK, File
<1>2. [file |-> file, is |-> "part"] \in [file : File, is : Content]
  BY <1>1 DEF Content
<1>3. disk' = [disk EXCEPT ![p] = [file |-> file, is |-> "part"]] /\ fd' = [fd EXCEPT ![c] = file]
  BY DEF Truncate
<1>4. disk'[p] = [file |-> file, is |-> "part"] /\ fd'[c] = file
  BY <1>3 DEF TypeOK, FilesOK
<1>5. \A q \in Path \ {p} : disk'[q] = disk[q]
  BY <1>3 DEF TypeOK, FilesOK
<1>6. \A x \in job.calls \ {c} : fd'[x] = fd[x]
  BY <1>3 DEF TypeOK, FilesOK
<1> HIDE DEF file
<1>7. disk'[p] # None /\ fd'[c] # None
  BY <1>1, <1>2, <1>4, NothingIsNone
<1>8. disk'[p].is = "part" /\ disk'[p].file = fd'[c]
  BY <1>4
<1> QED BY <1>4, <1>5, <1>6, <1>7, <1>8 DEF file

LEMMA TruncateKeeps ==
  ASSUME TypeOK, NEW c \in job.calls, NEW p \in Path, Truncate(c, p), NEW q \in Path, q # p
  PROVE  disk'[q] = disk[q]
BY TruncateEffect

LEMMA TruncateHolds ==
  ASSUME TypeOK, NEW c \in job.calls, NEW p \in Path, Truncate(c, p)
  PROVE  disk'[p] # None /\ disk'[p].file = fd'[c]
BY TruncateEffect

LEMMA WriteEffect ==
  ASSUME TypeOK, NEW c \in job.calls, NEW w \in Content, Write(c, w)
  PROVE  /\ \A q \in Path : disk'[q] = None <=> disk[q] = None
         /\ \A q \in Path : disk[q] # None =>
              /\ disk'[q].file = disk[q].file
              /\ disk'[q].is = IF disk[q].file = fd[c] THEN w ELSE disk[q].is
              /\ disk[q].file # fd[c] => disk'[q] = disk[q]
         /\ \A x \in job.calls \ {c} : fd'[x] = fd[x]
<1>1. ASSUME NEW q \in Path
      PROVE  disk'[q] = IF disk[q] # None /\ disk[q].file = fd[c] THEN [disk[q] EXCEPT !.is = w] ELSE disk[q]
  BY DEF Write
<1>2. ASSUME NEW q \in Path, disk[q] # None, disk[q].file = fd[c]
      PROVE  disk'[q] # None /\ disk'[q].file = disk[q].file /\ disk'[q].is = w
  <2>1. disk[q] \in [file : File, is : Content]
    BY <1>2, ContentIs
  <2>2. disk'[q] = [disk[q] EXCEPT !.is = w]
    BY <1>1, <1>2
  <2>3. disk'[q] = [file |-> disk[q].file, is |-> w]
    BY <2>1, <2>2
  <2>4. disk'[q] # None
    BY <2>1, <2>3, NothingIsNone
  <2> QED BY <2>3, <2>4
<1>3. ASSUME NEW q \in Path, disk[q] = None \/ disk[q].file # fd[c]
      PROVE  disk'[q] = disk[q]
  BY <1>1, <1>3
<1>4. \A x \in job.calls \ {c} : fd'[x] = fd[x]
  BY DEF Write, TypeOK, FilesOK
<1> QED BY <1>2, <1>3, <1>4

LEMMA WriteFailsEffect ==
  ASSUME TypeOK, NEW c \in job.calls, WriteFails(c)
  PROVE  \A x \in job.calls \ {c} : fd'[x] = fd[x]
BY DEF WriteFails, TypeOK, FilesOK

LEMMA RenameEffect ==
  ASSUME TypeOK, NEW c \in job.calls, NEW p \in Path, Slot(at[c]) \in Path, p # Slot(at[c]), Rename(c, p)
  PROVE  /\ disk[p] # None /\ disk'[Slot(at[c])] = disk[p] /\ disk'[p] = None /\ fd' = fd
         /\ \A q \in Path \ {p, Slot(at[c])} : disk'[q] = disk[q]
BY DEF Rename, TypeOK, FilesOK

(* Moving on concerns nobody else.                                         *)
Alone(c) == \A x \in job.calls \ {c} : pc'[x] = pc[x] /\ at'[x] = at[x] /\ out'[x] = out[x]

LEMMA GotoEffect ==
  ASSUME TypeOK, NEW c \in job.calls, NEW l, Goto(c, l)
  PROVE  Alone(c) /\ pc'[c] = l /\ at'[c] = at[c] /\ out'[c] = out[c]
BY DEF Goto, Alone, TypeOK, CallsOK

LEMMA ReturnEffect ==
  ASSUME TypeOK, NEW c \in job.calls, NEW a, Return(c, a)
  PROVE  Alone(c) /\ pc'[c] = "done" /\ at'[c] = at[c] /\ out'[c] = a
BY DEF Return, Alone, TypeOK, CallsOK

LEMMA TurnEffect ==
  ASSUME TypeOK, NEW c \in job.calls, NEW d, NEW l, Turn(c, d, l)
  PROVE  Alone(c) /\ pc'[c] = l /\ at'[c] = d /\ out'[c] = out[c]
BY DEF Turn, Alone, TypeOK, CallsOK

(* Only kubeFile turns to another document.                                *)
LEMMA AnswerEffect ==
  ASSUME TypeOK, NEW c \in job.calls, NEW a, Answer(c, a)
  PROVE  /\ Alone(c)
         /\ \/ /\ at[c] = Core /\ c.doc # Core /\ c.doc \in Schema /\ a \notin {"failed", "absent"}
               /\ pc'[c] = "mark" /\ at'[c] = c.doc /\ out'[c] = out[c]
            \/ /\ at[c] = ApiV1 /\ a \notin {"failed", "absent"}
               /\ pc'[c] = "lookup" /\ at'[c] = AggV2 /\ out'[c] = out[c]
            \/ /\ at[c] = AggV2 /\ a \in {"failed", "absent"}
               /\ pc'[c] = "lookup" /\ at'[c] = AggBeta /\ out'[c] = out[c]
            \/ /\ at[c] = Core /\ c.doc # Core => a \in {"failed", "absent"}
               /\ at[c] = ApiV1 => a \in {"failed", "absent"}
               /\ at[c] = AggV2 => a \notin {"failed", "absent"}
               /\ pc'[c] = "done" /\ at'[c] = at[c]
               /\ out'[c] = IF at[c] \in Discovery /\ a \in {"failed", "absent"} THEN "failed" ELSE a
<1>1. at[c] = Core /\ c.doc # Core => c.doc \in Schema
  BY DocumentsAssumption DEF TypeOK, CallsOK, Discovery
<1>2. CASE at[c] = Core /\ c.doc # Core /\ a \notin {"failed", "absent"} /\ Turn(c, c.doc, "mark")
  BY <1>1, <1>2, TurnEffect
<1>3. CASE at[c] = ApiV1 /\ a \notin {"failed", "absent"} /\ Turn(c, AggV2, "lookup")
  BY <1>3, TurnEffect
<1>4. CASE at[c] = AggV2 /\ a \in {"failed", "absent"} /\ Turn(c, AggBeta, "lookup")
  BY <1>4, TurnEffect
<1>5. CASE /\ at[c] = Core /\ c.doc # Core => a \in {"failed", "absent"}
           /\ at[c] = ApiV1 => a \in {"failed", "absent"}
           /\ at[c] = AggV2 => a \notin {"failed", "absent"}
           /\ Return(c, IF at[c] \in Discovery /\ a \in {"failed", "absent"} THEN "failed" ELSE a)
  BY <1>5, ReturnEffect
<1> QED BY <1>2, <1>3, <1>4, <1>5 DEF Answer

LEMMA SingleAnswer ==
  ASSUME TypeOK, NEW c \in job.calls, at[c] \in Chart \cup Contract \cup Image, NEW a, Answer(c, a)
  PROVE  Alone(c) /\ pc'[c] = "done" /\ at'[c] = at[c] /\ out'[c] = a
<1>1. at[c] \notin Discovery /\ at[c] # Core /\ at[c] # ApiV1 /\ at[c] # AggV2
  BY DocumentsAssumption DEF Kube, Discovery
<1> QED BY <1>1, AnswerEffect

-----------------------------------------------------------------------------
(* A step touches the files of the document it is about, and its own.      *)
Touches(c) == {Temp(c)} \cup {<<at[c], x>> : x \in {"", ".tmp", ".json", ".yaml", ".absent"}}

LEMMA Apartness ==
  ASSUME TypeOK, NEW c \in job.calls
  PROVE  /\ at[c] \in Chart \cup Contract \cup Image => at[c] = c.doc
         /\ at[c] \in Chart => at[c] \notin Kube \cup Contract \cup Image
         /\ at[c] \in Kube => at[c] \notin Chart \cup Contract \cup Image
         /\ at[c] \in Contract => at[c] \notin Chart \cup Kube \cup Image
         /\ at[c] \in Image => at[c] \notin Chart \cup Kube \cup Contract
BY DocumentsAssumption DEF TypeOK, CallsOK, Kube, Discovery

LEMMA WriteTouches ==
  ASSUME TypeOK, FileInv, NEW c \in job.calls, pc[c] \in {"fill", "meta"},
         NEW p \in Path, disk[p] # None, disk[p].file = fd[c]
  PROVE  p \in Touches(c)
<1>1. Writes(c) \in Origin(p) /\ Writes(c) \in Touches(c) /\ p = <<p[1], p[2]>>
  BY PairsAre DEF FileInv, Writes, Touches, Slot
<1>2. CASE p[2] = "" /\ p[1] \in Chart
  <2>1. PICK x \in Call : x.doc = p[1] /\ Writes(c) = Temp(x)
    BY <1>1, <1>2 DEF Origin
  <2>2. Writes(c) = Temp(c) /\ at[c] \in Chart
    BY <2>1 DEF Writes, Temp, Slot
  <2>3. x = c
    BY <2>1, <2>2 DEF Temp
  <2> QED BY <1>1, <1>2, <2>1, <2>2, <2>3, Apartness DEF Touches
<1>3. CASE p[2] = "" /\ p[1] \in Kube /\ p[1] \notin Chart
  <2>1. Writes(c) = <<p[1], ".tmp">>
    BY <1>1, <1>3 DEF Origin
  <2>2. at[c] = p[1]
    BY <2>1 DEF Writes, Temp, Slot
  <2> QED BY <1>1, <1>3, <2>2 DEF Touches
<1>4. CASE p = Writes(c)
  BY <1>1, <1>4
<1> QED BY <1>1, <1>2, <1>3, <1>4 DEF Origin

Frames(c) ==
  /\ \A x \in job.calls \ {c} : fd'[x] = fd[x]
  /\ \A p \in Path \ Touches(c) : disk'[p] = disk[p]

LEMMA NoFileFrame == ASSUME NEW c, disk' = disk, fd' = fd PROVE Frames(c)
BY DEF Frames

LEMMA TruncateFrame ==
  ASSUME TypeOK, NEW c \in job.calls, NEW p \in Path \cap Touches(c), Truncate(c, p)
  PROVE  Frames(c)
<1>1. \A q \in Path \ {p} : disk'[q] = disk[q]
  BY TruncateEffect
<1>2. \A x \in job.calls \ {c} : fd'[x] = fd[x]
  BY TruncateEffect
<1> QED BY <1>1, <1>2 DEF Frames

LEMMA WriteFrame ==
  ASSUME TypeOK, FileInv, NEW c \in job.calls, pc[c] \in {"fill", "meta"}, NEW w \in Content, Write(c, w)
  PROVE  Frames(c)
<1>1. ASSUME NEW p \in Path \ Touches(c) PROVE disk'[p] = disk[p]
  <2>1. CASE disk[p] # None
    BY <2>1, WriteTouches, WriteEffect
  <2>2. CASE disk[p] = None
    BY <2>2, WriteEffect
  <2> QED BY <2>1, <2>2
<1> QED BY <1>1, WriteEffect DEF Frames

LEMMA WriteFailsFrame ==
  ASSUME TypeOK, NEW c \in job.calls, WriteFails(c),
         disk' = disk \/ disk' = [disk EXCEPT ![Temp(c)] = None]
  PROVE  Frames(c)
BY WriteFailsEffect DEF Frames, Touches, TypeOK, FilesOK

LEMMA RenameFrame ==
  ASSUME TypeOK, NEW c \in job.calls, NEW p \in Path \cap Touches(c), Slot(at[c]) \in Path, p # Slot(at[c]), Rename(c, p)
  PROVE  Frames(c)
BY RenameEffect DEF Frames, Touches, Slot

LEMMA MissFrame ==
  ASSUME TypeOK, NEW c \in job.calls, Miss(c)
  PROVE  Frames(c) /\ Alone(c)
BY NoFileFrame, GotoEffect, AnswerEffect DEF Miss

LEMMA AskFrame ==
  ASSUME TypeOK, NEW c \in job.calls, Ask(c)
  PROVE  Frames(c) /\ Alone(c)
BY NoFileFrame, GotoEffect, AnswerEffect DEF Ask

LEMMA HttpChartFrame ==
  ASSUME TypeOK, FileInv, NEW c \in job.calls, HttpChart(c)
  PROVE  Frames(c) /\ Alone(c)
<1>1. /\ at[c] \in Chart /\ Slot(at[c]) \in Path /\ Temp(c) \in Path \cap Touches(c) /\ Temp(c) # Slot(at[c])
      /\ <<at[c], ".json">> \in Path \cap Touches(c)
  BY CallIs, PathsAre DEF HttpChart, Touches, Temp, Slot
<1>2. CASE Goto(c, "load") /\ UNCHANGED <<disk, fd>>
  BY <1>2, NoFileFrame, GotoEffect
<1>3. CASE Miss(c)
  BY <1>3, MissFrame
<1>4. CASE Ask(c)
  BY <1>4, AskFrame
<1>5. CASE \E a : Return(c, a) /\ UNCHANGED <<disk, fd>>
  BY <1>5, NoFileFrame, ReturnEffect
<1>6. CASE Truncate(c, Temp(c)) /\ Goto(c, "fill")
  BY <1>1, <1>6, TruncateFrame, GotoEffect
<1>7. CASE \E l \in {"rename", "load"} : On(c, IF l = "rename" THEN "fill" ELSE "meta") /\ Write(c, "whole") /\ Goto(c, l)
  <2>1. PICK l \in {"rename", "load"} : pc[c] \in {"fill", "meta"} /\ Write(c, "whole") /\ Goto(c, l)
    BY <1>7 DEF On
  <2> QED BY <2>1, WriteFrame, GotoEffect DEF Content
<1>8. CASE WriteFails(c) /\ Return(c, "failed") /\ (disk' = disk \/ disk' = [disk EXCEPT ![Temp(c)] = None])
  BY <1>8, WriteFailsFrame, ReturnEffect
<1>9. CASE Rename(c, Temp(c)) /\ Goto(c, "json")
  BY <1>1, <1>9, RenameFrame, GotoEffect
<1>10. CASE Truncate(c, <<at[c], ".json">>) /\ Goto(c, "meta")
  BY <1>1, <1>10, TruncateFrame, GotoEffect
<1> QED BY <1>2, <1>3, <1>4, <1>5, <1>6, <1>7, <1>8, <1>9, <1>10 DEF HttpChart

LEMMA KubeFileFrame ==
  ASSUME TypeOK, FileInv, NEW c \in job.calls, KubeFile(c)
  PROVE  Frames(c) /\ Alone(c)
<1> DEFINE tmp == <<at[c], ".tmp">>
           absent == <<at[c], ".absent">>
<1>1. /\ at[c] \in Kube /\ Slot(at[c]) \in Path /\ tmp \in Path \cap Touches(c) /\ tmp # Slot(at[c])
      /\ absent \in Path \cap Touches(c)
  BY PathsAre DEF KubeFile, Touches, Slot
<1> HIDE DEF tmp
<1>2. CASE \E a : Answer(c, a) /\ UNCHANGED <<disk, fd>>
  BY <1>2, NoFileFrame, AnswerEffect
<1>3. CASE Miss(c)
  BY <1>3, MissFrame
<1>4. CASE Ask(c)
  BY <1>4, AskFrame
<1>5. CASE NotFound(c) /\ UNCHANGED <<disk, fd>>
  BY <1>5, NoFileFrame, AnswerEffect, GotoEffect, TurnEffect DEF NotFound
<1>6. CASE Mark(c)
  <2>1. Alone(c)
    BY <1>6, AnswerEffect DEF Mark
  <2>2. fd' = fd /\ (disk' = disk \/ disk' = [disk EXCEPT ![absent] = [file |-> <<c, absent>>, is |-> "whole"]])
    BY <1>6 DEF Mark
  <2>3. \A p \in Path \ {absent} : disk'[p] = disk[p]
    BY <2>2 DEF TypeOK, FilesOK
  <2> HIDE DEF absent
  <2> QED BY <1>1, <2>1, <2>2, <2>3 DEF Frames
<1>7. CASE Truncate(c, tmp) /\ Goto(c, "fill")
  BY <1>1, <1>7, TruncateFrame, GotoEffect
<1>8. CASE On(c, "fill") /\ Write(c, "whole") /\ Goto(c, "rename")
  BY <1>8, WriteFrame, GotoEffect DEF On, Content
<1>9. CASE WriteFails(c) /\ Answer(c, "failed") /\ UNCHANGED disk
  BY <1>9, WriteFailsFrame, AnswerEffect
<1>10. CASE Rename(c, tmp) /\ Answer(c, "whole")
  BY <1>1, <1>10, RenameFrame, AnswerEffect
<1> QED BY <1>2, <1>3, <1>4, <1>5, <1>6, <1>7, <1>8, <1>9, <1>10 DEF KubeFile, Hit, tmp

LEMMA ImageContractFrame ==
  ASSUME TypeOK, FileInv, NEW c \in job.calls, ImageContract(c)
  PROVE  Frames(c) /\ Alone(c)
<1> DEFINE found == at[c] \in served
           now == IF found THEN "whole" ELSE "none"
<1>1. <<at[c], ".yaml">> \in Path \cap Touches(c) /\ <<at[c], ".json">> \in Path \cap Touches(c) /\ now \in Content
  BY PathsAre DEF ImageContract, Touches, Content
<1>2. CASE \E a : Answer(c, a) /\ UNCHANGED <<disk, fd>>
  BY <1>2, NoFileFrame, AnswerEffect
<1>3. CASE Miss(c)
  BY <1>3, MissFrame
<1>4. CASE Ask(c)
  BY <1>4, AskFrame
<1>5. CASE Goto(c, "json") /\ UNCHANGED <<disk, fd>>
  BY <1>5, NoFileFrame, GotoEffect
<1>6. CASE Truncate(c, <<at[c], ".yaml">>) /\ Goto(c, "fill")
  BY <1>1, <1>6, TruncateFrame, GotoEffect
<1>7. CASE On(c, "fill") /\ Write(c, "whole") /\ Goto(c, "json")
  BY <1>7, WriteFrame, GotoEffect DEF On, Content
<1>8. CASE Truncate(c, <<at[c], ".json">>) /\ Goto(c, "meta")
  BY <1>1, <1>8, TruncateFrame, GotoEffect
<1>9. CASE On(c, "meta") /\ Write(c, now) /\ Return(c, IF found THEN "whole" ELSE "absent")
  <2> HIDE DEF now
  <2>1. Frames(c)
    BY <1>1, <1>9, WriteFrame DEF On
  <2>2. \E a : Return(c, a)
    BY <1>9
  <2> QED BY <2>1, <2>2, ReturnEffect
<1>10. CASE WriteFails(c) /\ Return(c, "failed") /\ UNCHANGED disk
  BY <1>10, WriteFailsFrame, ReturnEffect
<1> QED BY <1>2, <1>3, <1>4, <1>5, <1>6, <1>7, <1>8, <1>9, <1>10 DEF ImageContract, Hit

LEMMA ImageAnswerFrame ==
  ASSUME TypeOK, FileInv, NEW c \in job.calls, ImageAnswer(c)
  PROVE  Frames(c) /\ Alone(c)
<1>1. Slot(at[c]) \in Path \cap Touches(c)
  BY PathsAre DEF ImageAnswer, Touches, Slot
<1>2. CASE \E a : Answer(c, a) /\ UNCHANGED <<disk, fd>>
  BY <1>2, NoFileFrame, AnswerEffect
<1>3. CASE Miss(c)
  BY <1>3, MissFrame
<1>4. CASE Ask(c)
  BY <1>4, AskFrame
<1>5. CASE Return(c, "absent") /\ UNCHANGED <<disk, fd>>
  BY <1>5, NoFileFrame, ReturnEffect
<1>6. CASE Truncate(c, Slot(at[c])) /\ Goto(c, "fill")
  BY <1>1, <1>6, TruncateFrame, GotoEffect
<1>7. CASE On(c, "fill") /\ Write(c, "whole") /\ Return(c, "whole")
  BY <1>7, WriteFrame, ReturnEffect DEF On, Content
<1>8. CASE WriteFails(c) /\ Return(c, "whole") /\ UNCHANGED disk
  BY <1>8, WriteFailsFrame, ReturnEffect
<1> QED BY <1>2, <1>3, <1>4, <1>5, <1>6, <1>7, <1>8 DEF ImageAnswer, Hit

LEMMA StepFrame ==
  ASSUME TypeOK, FileInv, NEW c \in job.calls, Step(c)
  PROVE  Frames(c) /\ Alone(c) /\ UNCHANGED <<job, mode, release, served, state>>
BY HttpChartFrame, KubeFileFrame, ImageContractFrame, ImageAnswerFrame DEF Step, remote

-----------------------------------------------------------------------------
(* Where files come from.                                                  *)
Origins == \A p \in Path : disk[p] # None => disk[p].file[2] \in Origin(p)
Opened(c) == pc[c] \in {"fill", "meta"} => fd[c] # None /\ fd[c][2] = Writes(c)

LEMMA OriginsAre ==
  /\ \A d \in Chart : Origin(<<d, ".json">>) = {<<d, ".json">>} /\ Origin(Slot(d)) = {Temp(x) : x \in {y \in Call : y.doc = d}}
  /\ \A d \in Kube : /\ Origin(<<d, ".tmp">>) = {<<d, ".tmp">>} /\ Origin(Slot(d)) = {<<d, ".tmp">>}
                     /\ Origin(<<d, ".absent">>) = {<<d, ".absent">>}
  /\ \A d \in Contract : Origin(<<d, ".yaml">>) = {<<d, ".yaml">>} /\ Origin(<<d, ".json">>) = {<<d, ".json">>}
  /\ \A d \in Image : Origin(Slot(d)) = {Slot(d)}
  /\ \A c \in Call : Origin(Temp(c)) = {Temp(c)}
<1>1. \A d \in Kube : d \notin Chart
  BY DocumentsAssumption
<1>2. \A d \in Image : d \notin Chart /\ d \notin Kube
  BY DocumentsAssumption
<1>3. ASSUME NEW d \in Chart PROVE Origin(Slot(d)) = {Temp(x) : x \in {y \in Call : y.doc = d}}
  BY DEF Origin, Slot
<1>4. \A d \in Kube : Origin(Slot(d)) = {<<d, ".tmp">>}
  BY <1>1 DEF Origin, Slot
<1>5. \A d \in Image : Origin(Slot(d)) = {Slot(d)}
  BY <1>2 DEF Origin, Slot
<1>6. ASSUME NEW d, NEW s \in {".json", ".tmp", ".absent", ".yaml", "fetch-"} PROVE Origin(<<d, s>>) = {<<d, s>>}
  BY DEF Origin
<1> QED BY <1>3, <1>4, <1>5, <1>6 DEF Temp

LEMMA TruncateOrigins ==
  ASSUME TypeOK, Origins, NEW c \in job.calls, NEW p \in Path, Origin(p) = {p}, Truncate(c, p)
  PROVE  Origins' /\ fd'[c] # None /\ fd'[c][2] = p
<1>1. fd'[c][2] = p
  <2>1. fd'[c] = IF disk[p] = None THEN <<c, p>> ELSE disk[p].file
    BY TruncateEffect
  <2>2. CASE disk[p] = None
    BY <2>1, <2>2
  <2>3. CASE disk[p] # None
    BY <2>1, <2>3 DEF Origins
  <2> QED BY <2>2, <2>3
<1>2. disk'[p].file[2] \in Origin(p)
  BY <1>1, TruncateEffect
<1>3. \A q \in Path \ {p} : disk'[q] = disk[q]
  BY TruncateEffect
<1>4. fd'[c] # None
  BY TruncateEffect
<1> QED BY <1>1, <1>2, <1>3, <1>4 DEF Origins

LEMMA WriteOrigins ==
  ASSUME TypeOK, Origins, NEW c \in job.calls, NEW w \in Content, Write(c, w)
  PROVE  Origins'
BY WriteEffect DEF Origins

LEMMA RenameOrigins ==
  ASSUME TypeOK, Origins, NEW c \in job.calls, NEW p \in Path, Slot(at[c]) \in Path, p # Slot(at[c]), Rename(c, p),
         Origin(p) = {p}, p \in Origin(Slot(at[c]))
  PROVE  Origins'
<1>1. disk'[Slot(at[c])].file[2] \in Origin(Slot(at[c])) /\ disk'[p] = None
  BY RenameEffect DEF Origins
<1>2. \A q \in Path \ {p, Slot(at[c])} : disk'[q] = disk[q]
  BY RenameEffect
<1> QED BY <1>1, <1>2 DEF Origins

LEMMA NoFileOrigins ==
  ASSUME TypeOK, Origins, disk' = disk \/ \E p \in Path : disk' = [disk EXCEPT ![p] = None]
  PROVE  Origins'
BY DEF Origins, TypeOK, FilesOK

LEMMA MissLabel ==
  ASSUME TypeOK, NEW c \in job.calls, Miss(c)
  PROVE  pc'[c] \notin {"fill", "meta"} /\ disk' = disk
BY GotoEffect, AnswerEffect DEF Miss

LEMMA AskLabel ==
  ASSUME TypeOK, NEW c \in job.calls, Ask(c)
  PROVE  pc'[c] \notin {"fill", "meta"} /\ disk' = disk
BY GotoEffect, AnswerEffect DEF Ask

LEMMA HttpChartOrigins ==
  ASSUME TypeOK, Origins, NEW c \in job.calls, HttpChart(c)
  PROVE  Origins' /\ Opened(c)'
<1> DEFINE json == <<at[c], ".json">>
<1>1. /\ at[c] \in Chart /\ at[c] = c.doc /\ c \in Call
      /\ Slot(at[c]) \in Path /\ Temp(c) \in Path /\ Temp(c) # Slot(at[c]) /\ json \in Path
  BY CallIs, PathsAre, Apartness DEF HttpChart, Temp, Slot
<1>2. Origin(Temp(c)) = {Temp(c)} /\ Origin(json) = {json} /\ Temp(c) \in Origin(Slot(at[c]))
  BY <1>1, OriginsAre
<1> HIDE DEF json
<1>3. CASE disk' = disk /\ pc'[c] \notin {"fill", "meta"}
  BY <1>3, NoFileOrigins DEF Opened
<1>4. CASE Truncate(c, Temp(c)) /\ Goto(c, "fill")
  BY <1>1, <1>2, <1>4, TruncateOrigins, GotoEffect DEF Opened, Writes
<1>5. CASE \E l \in {"rename", "load"} : Write(c, "whole") /\ Goto(c, l)
  BY <1>5, WriteOrigins, GotoEffect DEF Opened, Content
<1>6. CASE Return(c, "failed") /\ (disk' = disk \/ disk' = [disk EXCEPT ![Temp(c)] = None])
  BY <1>1, <1>6, NoFileOrigins, ReturnEffect DEF Opened
<1>7. CASE Rename(c, Temp(c)) /\ Goto(c, "json")
  BY <1>1, <1>2, <1>7, RenameOrigins, GotoEffect DEF Opened
<1>8. CASE Truncate(c, json) /\ Goto(c, "meta")
  BY <1>1, <1>2, <1>8, TruncateOrigins, GotoEffect DEF Opened, Writes, json
<1> QED
  BY <1>3, <1>4, <1>5, <1>6, <1>7, <1>8, GotoEffect, ReturnEffect, MissLabel, AskLabel DEF HttpChart, json

LEMMA KubeFileOrigins ==
  ASSUME TypeOK, Origins, NEW c \in job.calls, KubeFile(c)
  PROVE  Origins' /\ Opened(c)'
<1> DEFINE tmp == <<at[c], ".tmp">>
           absent == <<at[c], ".absent">>
<1>1. /\ at[c] \in Kube /\ at[c] \notin Chart
      /\ Slot(at[c]) \in Path /\ tmp \in Path /\ tmp # Slot(at[c]) /\ absent \in Path
  BY PathsAre, Apartness DEF KubeFile, Slot
<1>2. Origin(tmp) = {tmp} /\ Origin(absent) = {absent} /\ tmp \in Origin(Slot(at[c]))
  BY <1>1, OriginsAre
<1>3. \A a : Answer(c, a) => pc'[c] \notin {"fill", "meta"}
  BY AnswerEffect
<1> HIDE DEF tmp
<1>4. CASE disk' = disk /\ pc'[c] \notin {"fill", "meta"}
  BY <1>4, NoFileOrigins DEF Opened
<1>5. CASE Mark(c) /\ disk' # disk
  <2>1. disk' = [disk EXCEPT ![absent] = [file |-> <<c, absent>>, is |-> "whole"]]
    BY <1>5 DEF Mark
  <2> HIDE DEF absent
  <2>2. disk'[absent].file[2] \in Origin(absent) /\ \A p \in Path \ {absent} : disk'[p] = disk[p]
    BY <1>1, <1>2, <2>1 DEF TypeOK, FilesOK
  <2> QED BY <1>3, <1>5, <2>2 DEF Mark, Origins, Opened
<1>6. CASE Truncate(c, tmp) /\ Goto(c, "fill")
  BY <1>1, <1>2, <1>6, TruncateOrigins, GotoEffect DEF Opened, Writes, tmp
<1>7. CASE Write(c, "whole") /\ Goto(c, "rename")
  BY <1>7, WriteOrigins, GotoEffect DEF Opened, Content
<1>8. CASE Rename(c, tmp) /\ Answer(c, "whole")
  BY <1>1, <1>2, <1>3, <1>8, RenameOrigins DEF Opened
<1>9. NotFound(c) => pc'[c] \notin {"fill", "meta"}
  BY <1>3, GotoEffect, TurnEffect DEF NotFound
<1>10. CASE Mark(c) /\ disk' = disk
  BY <1>3, <1>4, <1>10 DEF Mark
<1> QED
  BY <1>3, <1>4, <1>5, <1>6, <1>7, <1>8, <1>9, <1>10, MissLabel, AskLabel DEF KubeFile, Hit, tmp

LEMMA ImageContractOrigins ==
  ASSUME TypeOK, Origins, NEW c \in job.calls, ImageContract(c)
  PROVE  Origins' /\ Opened(c)'
<1> DEFINE found == at[c] \in served
           now == IF found THEN "whole" ELSE "none"
           json == <<at[c], ".json">>
           yaml == <<at[c], ".yaml">>
<1>1. /\ at[c] \in Contract /\ at[c] \notin Chart /\ at[c] \notin Kube
      /\ yaml \in Path /\ json \in Path /\ now \in Content
  BY PathsAre, Apartness DEF ImageContract, Content
<1>2. Origin(json) = {json} /\ Origin(yaml) = {yaml}
  BY <1>1, OriginsAre
<1>3. \A a : Answer(c, a) \/ Return(c, a) => pc'[c] \notin {"fill", "meta"}
  BY AnswerEffect, ReturnEffect
<1> HIDE DEF json, yaml
<1>4. CASE disk' = disk /\ pc'[c] \notin {"fill", "meta"}
  BY <1>4, NoFileOrigins DEF Opened
<1>5. CASE Truncate(c, yaml) /\ Goto(c, "fill")
  BY <1>1, <1>2, <1>5, TruncateOrigins, GotoEffect DEF Opened, Writes, yaml
<1>6. CASE Write(c, "whole") /\ Goto(c, "json")
  BY <1>6, WriteOrigins, GotoEffect DEF Opened, Content
<1>7. CASE Truncate(c, json) /\ Goto(c, "meta")
  BY <1>1, <1>2, <1>7, TruncateOrigins, GotoEffect DEF Opened, Writes, json
<1>8. CASE Write(c, now) /\ Return(c, IF found THEN "whole" ELSE "absent")
  <2> HIDE DEF now
  <2> QED BY <1>1, <1>3, <1>8, WriteOrigins DEF Opened
<1> QED
  BY <1>3, <1>4, <1>5, <1>6, <1>7, <1>8, GotoEffect, MissLabel, AskLabel DEF ImageContract, Hit, json, yaml

LEMMA ImageAnswerOrigins ==
  ASSUME TypeOK, Origins, NEW c \in job.calls, ImageAnswer(c)
  PROVE  Origins' /\ Opened(c)'
<1>1. /\ at[c] \in Image /\ at[c] \notin Chart /\ at[c] \notin Kube /\ at[c] \notin Contract
      /\ Slot(at[c]) \in Path /\ Origin(Slot(at[c])) = {Slot(at[c])}
  BY PathsAre, Apartness, OriginsAre DEF ImageAnswer
<1>3. \A a : Answer(c, a) \/ Return(c, a) => pc'[c] \notin {"fill", "meta"}
  BY AnswerEffect, ReturnEffect
<1>4. CASE disk' = disk /\ pc'[c] \notin {"fill", "meta"}
  BY <1>4, NoFileOrigins DEF Opened
<1>5. CASE Truncate(c, Slot(at[c])) /\ Goto(c, "fill")
  BY <1>1, <1>5, TruncateOrigins, GotoEffect DEF Opened, Writes
<1>6. CASE Write(c, "whole") /\ Return(c, "whole")
  BY <1>3, <1>6, WriteOrigins DEF Opened, Content
<1> QED
  BY <1>3, <1>4, <1>5, <1>6, MissLabel, AskLabel DEF ImageAnswer, Hit

LEMMA StepFiles ==
  ASSUME TypeOK, FileInv, NEW c \in job.calls, Step(c)
  PROVE  FileInv'
<1>1. Origins' /\ Opened(c)'
  BY HttpChartOrigins, KubeFileOrigins, ImageContractOrigins, ImageAnswerOrigins DEF Step, FileInv, Origins
<1>2. ASSUME NEW x \in job.calls \ {c} PROVE Opened(x)'
  BY StepFrame DEF FileInv, Opened, Writes, Frames, Alone
<1>3. job' = job
  BY StepFrame
<1> QED BY <1>1, <1>2, <1>3 DEF FileInv, Origins, Opened

-----------------------------------------------------------------------------
(* What a document holds after an operation on its files.                  *)
LEMMA WriteIs ==
  ASSUME TypeOK, NEW c \in job.calls, NEW w \in Content, Write(c, w)
  PROVE  \A q \in Path : Is(q)' = IF disk[q] # None /\ disk[q].file = fd[c] THEN w ELSE Is(q)
<1> SUFFICES ASSUME NEW q \in Path PROVE Is(q)' = IF disk[q] # None /\ disk[q].file = fd[c] THEN w ELSE Is(q)
  OBVIOUS
<1>1. disk'[q] = None <=> disk[q] = None
  BY WriteEffect
<1>2. CASE disk[q] = None
  BY <1>1, <1>2 DEF Is
<1>3. CASE disk[q] # None
  BY <1>1, <1>3, WriteEffect DEF Is
<1> QED BY <1>2, <1>3

LEMMA SameIs == ASSUME NEW p, disk'[p] = disk[p] PROVE Is(p)' = Is(p)
BY DEF Is

LEMMA MissGoes ==
  ASSUME TypeOK, NEW c \in job.calls, at[c] \in Chart \cup Contract \cup Image, Miss(c)
  PROVE  /\ disk' = disk /\ fd' = fd /\ at'[c] = at[c]
         /\ (pc'[c] = "done" /\ out'[c] = "failed") \/ (pc'[c] = "ask" /\ out'[c] = out[c])
BY GotoEffect, SingleAnswer DEF Miss

LEMMA AskGoes ==
  ASSUME TypeOK, NEW c \in job.calls, at[c] \in Chart \cup Contract \cup Image, Ask(c)
  PROVE  /\ disk' = disk /\ fd' = fd /\ at'[c] = at[c] /\ pc[c] = "ask"
         /\ \/ pc'[c] = "done" /\ out'[c] = "failed"
            \/ pc'[c] = "open" /\ at[c] \in served /\ out'[c] = out[c]
            \/ pc'[c] = "absent" /\ at[c] \notin served /\ out'[c] = out[c]
BY GotoEffect, SingleAnswer DEF Ask, On

-----------------------------------------------------------------------------
(* Charts.                                                                 *)
LEMMA ChartLabel ==
  ASSUME TypeOK, NEW c \in job.calls, pc[c] # "done"
  PROVE  out[c] = None
BY DEF TypeOK, CallsOK

LEMMA HttpChartOwn ==
  ASSUME TypeOK, FileInv, NEW c \in job.calls, HttpChart(c), NEW d \in Chart, at[c] = d, ChartDoc(d), ChartCall(c)
  PROVE  ChartDoc(d)' /\ ChartCall(c)' /\ (disk[Slot(d)] # None => disk'[Slot(d)] # None) /\ at'[c] = d
<1> DEFINE json == <<d, ".json">>
<1>1. /\ Slot(d) \in Path /\ Temp(c) \in Path /\ json \in Path
      /\ Temp(c) # Slot(d) /\ json # Slot(d) /\ Temp(c) # json
  BY CallIs, PathsAre DEF Temp, Slot
<1>2. None \notin Content /\ None \notin {"failed", "absent"}
  BY NoneAssumption
<1>a. /\ Is(Slot(d)) = None <=> disk[Slot(d)] = None
      /\ pc[c] # "done" => out[c] = None
  BY <1>1, ContentIs, ChartLabel
<1> HIDE DEF json
<1>3. CASE On(c, "lookup") /\ ChartHit(c) /\ Goto(c, "load") /\ UNCHANGED <<disk, fd>>
  <2>1. pc'[c] = "load" /\ at'[c] = d /\ out'[c] = None /\ disk' = disk
    BY <1>3, <1>a, GotoEffect DEF On
  <2>2. disk[Slot(d)] # None
    BY <1>3, <1>a DEF ChartHit
  <2> QED BY <2>1, <2>2, <1>2 DEF ChartDoc, ChartCall, Is, Content
<1>4. CASE On(c, "lookup") /\ ~ChartHit(c) /\ Miss(c)
  BY <1>2, <1>4, <1>a, MissGoes DEF ChartDoc, ChartCall, Is, Content, On
<1>5. CASE Ask(c)
  BY <1>2, <1>5, <1>a, AskGoes DEF ChartDoc, ChartCall, Is, Content
<1>6. CASE On(c, "absent") /\ Return(c, "absent") /\ UNCHANGED <<disk, fd>>
  BY <1>2, <1>6, ReturnEffect DEF ChartDoc, ChartCall, Is, Content
<1>7. CASE On(c, "open") /\ Truncate(c, Temp(c)) /\ Goto(c, "fill")
  <2>1. pc'[c] = "fill" /\ at'[c] = d /\ out'[c] = None
    BY <1>7, <1>a, GotoEffect DEF On
  <2>2. disk'[Temp(c)] # None /\ disk'[Temp(c)].file = fd'[c] /\ disk'[Slot(d)] = disk[Slot(d)] /\ disk'[json] = disk[json]
    BY <1>1, <1>7, TruncateKeeps, TruncateHolds
  <2>3. Writes(c)' = Temp(c) /\ Is(Slot(d))' = Is(Slot(d))
    BY <2>1, <2>2, SameIs DEF Writes
  <2>4. ChartDoc(d)'
    BY <2>2, <2>3 DEF ChartDoc, json
  <2>5. ChartCall(c)'
    BY <2>1, <2>2, <2>3, <1>2 DEF ChartCall, Holds, Content
  <2> QED BY <2>1, <2>2, <2>4, <2>5
<1>8. CASE On(c, "fill") /\ Write(c, "whole") /\ Goto(c, "rename")
  <2>1. pc'[c] = "rename" /\ at'[c] = d /\ out'[c] = None
    BY <1>8, <1>a, GotoEffect DEF On
  <2>2. disk[Temp(c)] # None /\ disk[Temp(c)].file = fd[c]
    BY <1>8 DEF ChartCall, Holds, Writes, On
  <2>3. Is(Temp(c))' = "whole" /\ Is(Slot(d))' \in {"whole", Is(Slot(d))}
    BY <1>1, <1>8, <2>2, WriteIs DEF Content
  <2>4. (disk'[Slot(d)] = None <=> disk[Slot(d)] = None) /\ (disk'[json] = None <=> disk[json] = None)
    BY <1>1, <1>8, WriteEffect DEF Content
  <2> QED BY <2>1, <2>3, <2>4, <1>2 DEF ChartDoc, ChartCall, json, Content
<1>9. CASE /\ On(c, "fill") /\ WriteFails(c) /\ Return(c, "failed")
           /\ disk' = [disk EXCEPT ![Temp(c)] = None]
  <2>1. pc'[c] = "done" /\ at'[c] = d /\ out'[c] = "failed"
    BY <1>9, ReturnEffect
  <2>2. disk'[Slot(d)] = disk[Slot(d)] /\ disk'[json] = disk[json]
    BY <1>1, <1>9 DEF TypeOK, FilesOK
  <2> QED BY <2>1, <2>2, <1>2 DEF ChartDoc, ChartCall, Is, json, Content
<1>10. CASE On(c, "rename") /\ Rename(c, Temp(c)) /\ Goto(c, "json")
  <2>1. pc'[c] = "json" /\ at'[c] = d /\ out'[c] = None
    BY <1>10, <1>a, GotoEffect DEF On
  <2>2. disk'[Slot(d)] = disk[Temp(c)] /\ disk[Temp(c)] # None
    BY <1>1, <1>10, RenameEffect
  <2>3. Is(Temp(c)) = "whole"
    BY <1>10 DEF ChartCall, On
  <2>4. disk'[Slot(d)] # None /\ Is(Slot(d))' = "whole"
    BY <2>2, <2>3 DEF Is
  <2> QED BY <2>1, <2>4, <1>2 DEF ChartDoc, ChartCall, Content
<1>11. CASE On(c, "json") /\ Truncate(c, <<at[c], ".json">>) /\ Goto(c, "meta")
  <2>1. pc'[c] = "meta" /\ at'[c] = d /\ out'[c] = None
    BY <1>11, <1>a, GotoEffect DEF On
  <2>2. disk'[Slot(d)] = disk[Slot(d)] /\ disk[Slot(d)] # None
    <3>1. disk[Slot(d)] # None /\ Truncate(c, json)
      BY <1>11 DEF ChartCall, json, On
    <3> QED BY <1>1, <3>1, TruncateKeeps
  <2> QED BY <2>1, <2>2, <1>2 DEF ChartDoc, ChartCall, Is, json, Content
<1>12. CASE On(c, "meta") /\ Write(c, "whole") /\ Goto(c, "load")
  <2>1. pc'[c] = "load" /\ at'[c] = d /\ out'[c] = None
    BY <1>12, <1>a, GotoEffect DEF On
  <2>2. disk[Slot(d)] # None
    BY <1>12 DEF ChartCall, On
  <2>3. Is(Slot(d))' \in {"whole", Is(Slot(d))} /\ disk'[Slot(d)] # None
    BY <1>1, <1>12, <2>2, WriteIs, WriteEffect DEF Content
  <2> QED BY <2>1, <2>2, <2>3, <1>2 DEF ChartDoc, ChartCall, json, Content
<1>13. CASE On(c, "meta") /\ WriteFails(c) /\ Return(c, "failed") /\ UNCHANGED disk
  BY <1>2, <1>13, ReturnEffect DEF ChartDoc, ChartCall, Is, Content
<1>14. CASE On(c, "load") /\ Return(c, Is(Slot(at[c]))) /\ UNCHANGED <<disk, fd>>
  <2>1. disk[Slot(d)] # None /\ Is(Slot(d)) = "whole"
    BY <1>14, <1>a DEF ChartCall, ChartDoc, On
  <2>2. pc'[c] = "done" /\ at'[c] = d /\ out'[c] = "whole" /\ disk' = disk
    BY <1>14, <2>1, ReturnEffect
  <2> QED BY <2>1, <2>2, <1>2 DEF ChartDoc, ChartCall, Is, Content
<1> QED
  BY <1>3, <1>4, <1>5, <1>6, <1>7, <1>8, <1>9, <1>10, <1>11, <1>12, <1>13, <1>14 DEF HttpChart

(* Steps about other documents leave charts alone.                         *)
LEMMA OtherFiles ==
  ASSUME TypeOK, FileInv, NEW c \in job.calls, Step(c)
  PROVE  /\ \A d \in Doc, x \in {"", ".tmp", ".json", ".yaml", ".absent"} :
              d # at[c] /\ <<d, x>> \in Path => disk'[<<d, x>>] = disk[<<d, x>>]
         /\ \A x \in job.calls \ {c} : disk'[Temp(x)] = disk[Temp(x)]
<1>1. ASSUME NEW d \in Doc, NEW x \in {"", ".tmp", ".json", ".yaml", ".absent"}, d # at[c], <<d, x>> \in Path
      PROVE  disk'[<<d, x>>] = disk[<<d, x>>]
  <2>1. <<d, x>> \notin Touches(c)
    BY <1>1 DEF Touches, Temp
  <2> QED BY <1>1, <2>1, StepFrame DEF Frames
<1>2. ASSUME NEW x \in job.calls \ {c} PROVE disk'[Temp(x)] = disk[Temp(x)]
  <2>1. Temp(x) \notin Touches(c) /\ Temp(x) \in Path
    BY CallIs DEF Touches, Temp
  <2> QED BY <2>1, StepFrame DEF Frames
<1> QED BY <1>1, <1>2

LEMMA StepCharts ==
  ASSUME TypeOK, FileInv, ChartInv, NEW c \in job.calls, Step(c)
  PROVE  ChartInv'
<1>1. /\ job' = job /\ Alone(c) /\ Frames(c)
  BY StepFrame
<1>2. ASSUME NEW d \in Chart, d # at[c]
      PROVE  ChartDoc(d)' /\ disk'[Slot(d)] = disk[Slot(d)]
  <2>1. disk'[Slot(d)] = disk[Slot(d)] /\ disk'[<<d, ".json">>] = disk[<<d, ".json">>]
    BY <1>2, OtherFiles, PathsAre DEF Slot, Doc
  <2> QED BY <1>2, <2>1 DEF ChartInv, ChartDoc, Is
<1>3. ASSUME at[c] \in Chart
      PROVE  ChartDoc(at[c])' /\ ChartCall(c)' /\ (disk[Slot(at[c])] # None => disk'[Slot(at[c])] # None) /\ at'[c] = at[c]
  <2>1. HttpChart(c)
    BY <1>3, Apartness DEF Step, KubeFile, ImageContract, ImageAnswer
  <2>2. PICK d \in Chart : d = at[c]
    BY <1>3
  <2>3. ChartDoc(d)' /\ ChartCall(c)' /\ (disk[Slot(d)] # None => disk'[Slot(d)] # None) /\ at'[c] = d
    BY <2>1, <2>2, <1>3, HttpChartOwn DEF ChartInv
  <2> QED BY <2>2, <2>3
<1>4. ASSUME NEW d \in Chart PROVE disk[Slot(d)] # None => disk'[Slot(d)] # None
  BY <1>2, <1>3
<1>5. ASSUME NEW d \in Chart PROVE ChartDoc(d)'
  <2>1. CASE d # at[c]
    BY <1>2, <2>1
  <2>2. CASE d = at[c]
    <3>1. at[c] \in Chart /\ at'[c] = at[c]
      BY <2>2, <1>3
    <3> QED BY <2>2, <3>1, <1>3
  <2> QED BY <2>1, <2>2
<1>6. ASSUME NEW x \in job.calls, at'[x] \in Chart, x # c PROVE ChartCall(x)'
  <2>1. pc'[x] = pc[x] /\ at'[x] = at[x] /\ out'[x] = out[x] /\ fd'[x] = fd[x] /\ disk'[Temp(x)] = disk[Temp(x)]
    BY <1>1, <1>6, OtherFiles DEF Alone, Frames
  <2>2. ChartCall(x) /\ at[x] \in Chart
    BY <1>6, <2>1 DEF ChartInv
  <2>3. (disk[Slot(at[x])] # None => disk'[Slot(at'[x])] # None)
    BY <1>4, <2>1, <2>2
  <2>4. pc[x] = "fill" => Writes(x) = Temp(x) /\ Writes(x)' = Temp(x)
    BY <2>1, <2>2 DEF Writes
  <2> QED BY <2>1, <2>2, <2>3, <2>4 DEF ChartCall, Holds, Is
<1>7. ASSUME at'[c] \in Chart PROVE ChartCall(c)'
  <2>1. CASE at[c] \in Chart
    BY <2>1, <1>3
  <2>2. CASE at[c] \notin Chart
    <3>1. CallsOK' /\ c.doc = at'[c] /\ at'[c] \notin Kube
      <4>1. TypeOK'
        BY <2>2, StepType
      <4>2. CallsOK'
        BY <4>1 DEF TypeOK
      <4> QED BY <4>2, <1>1, <1>7, DocumentsAssumption DEF CallsOK, Kube, Discovery
    <3>2. at[c] = c.doc \/ c.doc \in Kube
      BY DocumentsAssumption DEF TypeOK, CallsOK, Kube, Discovery
    <3> QED BY <2>2, <3>1, <3>2, <1>7
  <2> QED BY <2>1, <2>2
<1> QED BY <1>1, <1>5, <1>6, <1>7 DEF ChartInv

CoreInv == TypeOK /\ FileInv /\ ChartInv

LEMMA InitCore == Init => CoreInv
<1> SUFFICES ASSUME Init PROVE CoreInv
  OBVIOUS
<1>1. \A c \in job.calls : c.doc \in Doc
  BY DocumentsAssumption DEF Init
<1>2. TypeOK
  BY <1>1 DEF Init, TypeOK, GivenOK, FilesOK, CallsOK, Label
<1>3. \A p \in Path : disk[p] = None
  BY DEF Init
<1>4. \A c \in job.calls : pc[c] = "lookup" /\ out[c] = None
  BY DEF Init
<1>5. FileInv
  BY <1>3, <1>4 DEF FileInv
<1>6. ChartInv
  <2>1. \A d \in Chart : Slot(d) \in Path /\ <<d, ".json">> \in Path
    BY PathsAre
  <2>2. \A a \in Answered : a # None
    BY NothingIsNone
  <2> QED BY <1>3, <1>4, <2>1, <2>2 DEF ChartInv, ChartDoc, ChartCall, Is, Answered
<1> QED BY <1>2, <1>5, <1>6 DEF CoreInv

LEMMA RunsKeepCore ==
  ASSUME CoreInv, UNCHANGED <<job, release, disk, pc, at, fd, out>>, GivenOK'
  PROVE  CoreInv'
<1>1. TypeOK'
  BY DEF CoreInv, TypeOK, FilesOK, CallsOK
<1>2. FileInv'
  BY DEF CoreInv, FileInv, Writes
<1>3. ChartInv'
  BY DEF CoreInv, ChartInv, ChartDoc, ChartCall, Holds, Writes, Is
<1> QED BY <1>1, <1>2, <1>3 DEF CoreInv

LEMMA NextCore ==
  ASSUME CoreInv, [Next]_vars
  PROVE  CoreInv'
<1>1. ASSUME NEW c \in job.calls, Step(c) PROVE CoreInv'
  BY <1>1, StepType, StepFiles, StepCharts DEF CoreInv, ChartInv, ChartCall
<1>2. ASSUME NEW r \in Run, Start(r) PROVE CoreInv'
  <2>1. GivenOK'
    BY <1>2 DEF Start, CoreInv, TypeOK, GivenOK
  <2> QED BY <1>2, <2>1, RunsKeepCore DEF Start
<1>3. ASSUME NEW r \in Run, Finish(r) PROVE CoreInv'
  <2>1. GivenOK'
    BY <1>3 DEF Finish, CoreInv, TypeOK, GivenOK
  <2> QED BY <1>3, <2>1, RunsKeepCore DEF Finish
<1>4. CASE Publish
  <2>1. GivenOK'
    BY <1>4 DEF Publish, CoreInv, TypeOK, GivenOK
  <2> QED BY <1>4, <2>1, RunsKeepCore DEF Publish
<1>5. CASE UNCHANGED vars
  <2>1. GivenOK'
    BY <1>5 DEF vars, CoreInv, TypeOK, GivenOK
  <2> QED BY <1>5, <2>1, RunsKeepCore DEF vars
<1> QED BY <1>1, <1>2, <1>3, <1>4, <1>5 DEF Next

(* Who has what open, for any documents, runs and faults.                  *)
THEOREM FilesAreKept == Spec => []CoreInv
<1> QED BY InitCore, NextCore, PTL DEF Spec

(* A chart is loaded whole whatever other processes do in the same cache   *)
(* directory and whenever they are killed: what they write is their own    *)
(* file until it has the name, and the name is never taken away.           *)
THEOREM ChartsCorrect == Spec => []ChartsAreWhole
<1>1. CoreInv => ChartsAreWhole
  <2> SUFFICES ASSUME CoreInv, NEW c \in job.calls, c.doc \in Chart PROVE out[c] # "part"
    BY DEF ChartsAreWhole
  <2>1. at[c] = c.doc
    BY DocumentsAssumption DEF CoreInv, TypeOK, CallsOK, Kube, Discovery
  <2>2. out[c] \in {None, "failed", "absent", "whole"}
    BY <2>1 DEF CoreInv, ChartInv, ChartCall
  <2> QED BY <2>2, NoneAssumption DEF Content
<1> QED BY <1>1, FilesAreKept, PTL

-----------------------------------------------------------------------------
(* Runs.                                                                   *)
LEMMA StepIsOn ==
  ASSUME NEW c, Step(c)
  PROVE  state[c.run] = "on" /\ pc[c] # "done" /\ Going(c)
BY DEF Step, HttpChart, KubeFile, ImageContract, ImageAnswer, Ask, Mark, On, Going

LEMMA InitSerial == Init => SerialInv
<1>1. ASSUME Init PROVE \A c \in job.calls : c.run \in Run
  BY <1>1, DocumentsAssumption DEF Init
<1> QED BY <1>1 DEF Init, SerialInv

LEMMA StepSerial ==
  ASSUME CoreInv, SerialInv, NEW c \in job.calls, Step(c)
  PROVE  SerialInv'
<1>1. Alone(c) /\ job' = job /\ state' = state /\ state[c.run] = "on"
  BY StepFrame, StepIsOn DEF CoreInv
<1> QED BY <1>1 DEF SerialInv, Alone

LEMMA StartIs ==
  ASSUME TypeOK, NEW r \in Run, Start(r)
  PROVE  /\ state'[r] = "on" /\ state[r] = "idle" /\ \A q \in Run \ {r} : state'[q] = state[q]
         /\ UNCHANGED <<job, mode, release, served, disk, pc, at, fd, out>>
BY DEF Start, TypeOK, GivenOK

LEMMA FinishIs ==
  ASSUME TypeOK, NEW r \in Run, Finish(r)
  PROVE  /\ state[r] = "on" /\ state'[r] \in {"ended", "killed"} /\ \A q \in Run \ {r} : state'[q] = state[q]
         /\ state'[r] = "ended" => \A c \in job.calls : c.run = r => pc[c] = "done"
         /\ UNCHANGED <<job, mode, release, served, disk, pc, at, fd, out>>
BY DEF Finish, TypeOK, GivenOK

LEMMA RunsSerial ==
  ASSUME CoreInv, SerialInv, (\E r \in Run : Start(r) \/ Finish(r)) \/ Publish \/ UNCHANGED vars
  PROVE  SerialInv'
<1>1. \A c \in job.calls : c.run \in Run
  BY CallIs DEF CoreInv
<1>2. ASSUME NEW r \in Run, Start(r) PROVE SerialInv'
  <2>1. /\ state'[r] = "on" /\ \A q \in Run \ {r} : state'[q] = state[q]
        /\ UNCHANGED <<job, pc, at>> /\ state[r] = "idle"
    BY <1>2, StartIs DEF CoreInv
  <2>2. ASSUME ~job.together, NEW q \in Run, q < r PROVE state'[q] \in {"ended", "killed"}
    <3>1. state[q] \notin {"idle", "on"} /\ q # r
      BY <1>2, <2>1, <2>2 DEF Start, SerialInv
    <3>2. state[q] \in {"idle", "on", "ended", "killed"}
      BY DEF CoreInv, TypeOK, GivenOK
    <3> QED BY <2>1, <3>1, <3>2
  <2> QED BY <1>1, <2>1, <2>2 DEF SerialInv
<1>3. ASSUME NEW r \in Run, Finish(r) PROVE SerialInv'
  <2>1. /\ state'[r] \in {"ended", "killed"} /\ \A q \in Run \ {r} : state'[q] = state[q]
        /\ UNCHANGED <<job, pc, at>> /\ state[r] = "on"
        /\ state'[r] = "ended" => \A c \in job.calls : c.run = r => pc[c] = "done"
    BY <1>3, FinishIs DEF CoreInv
  <2> QED BY <1>1, <2>1 DEF SerialInv
<1>4. CASE Publish
  BY <1>4 DEF Publish, SerialInv
<1>5. CASE UNCHANGED vars
  BY <1>5 DEF vars, SerialInv
<1> QED BY <1>2, <1>3, <1>4, <1>5

(* Of the calls that are going on, each writes documents of its own.       *)
LEMMA Exclusive ==
  ASSUME CoreInv, SerialInv, Apart, NEW b \in job.calls, NEW c \in job.calls, Going(b), Going(c),
         at[b] = at[c], at[c] \in Pinned, at[b] \in Opens(b, release), at[c] \in Opens(c, release),
         at[c] \in Chart => ~job.together
  PROVE  b = c
<1>1. job \in Jobs /\ release \in job.releases /\ b.run \in Run /\ c.run \in Run /\ c.doc \in Doc
  BY CallIs DEF CoreInv, TypeOK, GivenOK
<1>2. ~job.together
  <2>1. CASE at[c] \in Chart
    BY <2>1
  <2>2. CASE at[c] \notin Chart
    BY <1>1, <2>2, DocumentsAssumption DEF Apart, CoreInv, TypeOK, CallsOK, Discovery, Kube
  <2> QED BY <2>1, <2>2
<1>3. b.run = c.run
  <2>1. ~(b.run < c.run) /\ ~(c.run < b.run)
    BY <1>1, <1>2 DEF SerialInv, Going
  <2>2. b.run \in Nat /\ c.run \in Nat
    BY <1>1, DocumentsAssumption
  <2> QED BY <2>1, <2>2
<1>4. b # c => Opens(b, release) \cap Opens(c, release) \cap Pinned = {}
  BY <1>1, <1>2, <1>3 DEF Apart
<1> QED BY <1>4

-----------------------------------------------------------------------------
(* What the remote has, asked and remembered.                              *)
LEMMA FoundIsOpen ==
  ASSUME CoreInv, NEW c \in job.calls, at[c] \in served, at[c] \in Kube => KubeCall(c), Going(c)
  PROVE  at[c] \in Opens(c, release)
<1>1. served = release
  BY DEF CoreInv, TypeOK, GivenOK
<1>2. CASE at[c] = c.doc
  BY <1>2 DEF Opens
<1>3. CASE at[c] = Core /\ c.doc # Core /\ c.doc \in Schema
  <2>1. c.doc \notin release
    BY <1>1, <1>3, DocumentsAssumption DEF KubeCall, Kube
  <2> QED BY <1>3, <2>1 DEF Opens
<1>4. CASE at[c] \in Discovery /\ c.doc = ApiV1
  BY <1>4 DEF Opens, Discovery
<1> QED BY <1>2, <1>3, <1>4 DEF CoreInv, TypeOK, CallsOK

LEMMA KubeFileAsks ==
  ASSUME TypeOK, NEW c \in job.calls, KubeFile(c), UNCHANGED <<served, state>>, ServedCall(c), Going(c)
  PROVE  ServedCall(c)'
<1>1. \A a : Answer(c, a) => pc'[c] \in {"mark", "lookup", "done"}
  BY AnswerEffect
<1>2. CASE pc'[c] \in {"mark", "lookup", "done", "ask"}
  BY <1>2 DEF ServedCall
<1>3. CASE Goto(c, IF at[c] \in served THEN "open" ELSE "absent")
  BY <1>3, GotoEffect DEF ServedCall
<1>4. CASE On(c, "open") /\ Goto(c, "fill")
  BY <1>4, GotoEffect DEF ServedCall, On
<1>5. CASE On(c, "fill") /\ Goto(c, "rename")
  BY <1>5, GotoEffect DEF ServedCall, On
<1> QED
  BY <1>1, <1>2, <1>3, <1>4, <1>5, GotoEffect, TurnEffect DEF KubeFile, Miss, Ask, Mark, NotFound, Hit

LEMMA OthersAsk ==
  ASSUME TypeOK, NEW c \in job.calls, HttpChart(c) \/ ImageContract(c) \/ ImageAnswer(c),
         UNCHANGED <<served, state>>, ServedCall(c), Going(c)
  PROVE  ServedCall(c)'
<1>1. at[c] \in Chart \cup Contract \cup Image
  BY DEF HttpChart, ImageContract, ImageAnswer
<1>2. \A a : Answer(c, a) \/ Return(c, a) => pc'[c] = "done"
  BY <1>1, SingleAnswer, ReturnEffect
<1>3. CASE pc'[c] \in {"lookup", "done", "ask", "json", "meta", "load"}
  BY <1>3 DEF ServedCall
<1>4. CASE Goto(c, IF at[c] \in served THEN "open" ELSE "absent")
  BY <1>4, GotoEffect DEF ServedCall
<1>5. CASE On(c, "open") /\ Goto(c, "fill")
  BY <1>5, GotoEffect DEF ServedCall, On
<1>6. CASE On(c, "fill") /\ Goto(c, "rename")
  BY <1>6, GotoEffect DEF ServedCall, On
<1> QED
  BY <1>2, <1>3, <1>4, <1>5, <1>6, GotoEffect DEF HttpChart, ImageContract, ImageAnswer, Miss, Ask, Hit

LEMMA StepServed ==
  ASSUME CoreInv, \A x \in job.calls : ServedCall(x), NEW c \in job.calls, Step(c)
  PROVE  \A x \in job'.calls : ServedCall(x)'
<1>1. Alone(c) /\ UNCHANGED <<job, served, state>> /\ Going(c)
  BY StepFrame, StepIsOn DEF CoreInv
<1>2. ServedCall(c)'
  BY <1>1, KubeFileAsks, OthersAsk DEF CoreInv, Step
<1>3. ASSUME NEW x \in job.calls \ {c} PROVE ServedCall(x)'
  BY <1>1 DEF ServedCall, Going, Alone
<1> QED BY <1>1, <1>2, <1>3

-----------------------------------------------------------------------------
(* Charts that never change.                                               *)
LEMMA WriteElsewhere ==
  ASSUME TypeOK, FileInv, NEW c \in job.calls, pc[c] \in {"fill", "meta"}, NEW w \in Content, Write(c, w),
         NEW p \in Path, Origin(p) = {p}, p # Writes(c)
  PROVE  Is(p)' = Is(p) /\ disk'[p] = disk[p]
<1>1. disk[p] # None => disk[p].file # fd[c]
  BY DEF FileInv
<1>2. disk'[p] = disk[p]
  BY <1>1, WriteEffect
<1> QED BY <1>2, SameIs

LEMMA HeldIsWritten ==
  ASSUME TypeOK, NEW c \in job.calls, NEW w \in Content, Write(c, w), Holds(c), NEW p \in Path, p = Writes(c)
  PROVE  Is(p)' = w
BY WriteIs DEF Holds

LEMMA TruncateIs ==
  ASSUME TypeOK, NEW c \in job.calls, NEW p \in Path, Truncate(c, p)
  PROVE  Is(p)' = "part" /\ disk'[p] # None /\ disk'[p].file = fd'[c] /\ \A q \in Path \ {p} : Is(q)' = Is(q)
BY TruncateEffect DEF Is

LEMMA PinnedChartOwn ==
  ASSUME CoreInv, NEW c \in job.calls, HttpChart(c), Going(c), state' = state,
         NEW d \in Chart \cap Pinned, at[c] = d, PinnedChartCall(c)
  PROVE  PinnedChartCall(c)' /\ at'[c] = d /\ (Is(<<d, ".json">>) = "whole" => Is(<<d, ".json">>)' = "whole")
<1> DEFINE json == <<d, ".json">>
<1>1. /\ Slot(d) \in Path /\ Temp(c) \in Path /\ json \in Path
      /\ Temp(c) # Slot(d) /\ json # Slot(d) /\ Temp(c) # json /\ Origin(json) = {json}
  BY CallIs, PathsAre, OriginsAre DEF Temp, Slot, CoreInv
<1>2. c.doc = d /\ TypeOK /\ FileInv /\ ChartCall(c) /\ ChartDoc(d) /\ out[c] = None
  BY Apartness, ChartLabel DEF CoreInv, ChartInv, Going
<1>3. "whole" # None /\ "failed" # None /\ "absent" # None
  BY NothingIsNone DEF Answered
<1>4. Is(json) = IF disk[json] = None THEN None ELSE disk[json].is
  BY DEF Is
<1>5. /\ pc[c] = "load" => Is(json) = "whole"
      /\ pc[c] \in {"ask", "open", "absent", "fill", "rename", "json", "meta"} => Is(json) # "whole"
      /\ pc[c] = "meta" => Holds(c)
  BY DEF PinnedChartCall, json
<1> SUFFICES /\ at'[c] = d
             /\ out'[c] = "whole" => Is(json)' = "whole"
             /\ pc'[c] = "load" => Is(json)' = "whole"
             /\ pc'[c] \in {"ask", "open", "absent", "fill", "rename", "json", "meta"} => Is(json)' # "whole"
             /\ pc'[c] = "meta" => Holds(c)'
             /\ Is(json) = "whole" => Is(json)' = "whole"
  BY DEF PinnedChartCall, Going
<1> HIDE DEF json
<1>6. CASE On(c, "lookup") /\ ChartHit(c) /\ Goto(c, "load") /\ UNCHANGED <<disk, fd>>
  BY <1>2, <1>3, <1>6, GotoEffect, SameIs DEF ChartHit, json, On
<1>7. CASE On(c, "lookup") /\ ~ChartHit(c) /\ Miss(c)
  <2>1. Is(json) # "whole"
    <3>1. Is(json) = "whole" => disk[json] # None /\ Is(Slot(d)) # None
      BY <1>1, <1>2, <1>3, <1>4, ContentIs DEF ChartDoc, json
    <3> QED BY <1>2, <1>7, <3>1 DEF ChartHit, Stays, json
  <2>2. /\ disk' = disk /\ at'[c] = d
        /\ (pc'[c] = "done" /\ out'[c] = "failed") \/ (pc'[c] = "ask" /\ out'[c] = None)
    <3>1. Miss(c) /\ at[c] \in Chart \cup Contract \cup Image
      BY <1>7
    <3> QED BY <1>2, <3>1, MissGoes
  <2> QED BY <2>1, <2>2, <1>3, SameIs
<1>8. CASE Ask(c)
  <2>1. /\ disk' = disk /\ at'[c] = d /\ pc[c] = "ask"
        /\ (pc'[c] = "done" /\ out'[c] = "failed") \/ (pc'[c] \in {"open", "absent"} /\ out'[c] = None)
    BY <1>2, <1>8, AskGoes
  <2> QED BY <2>1, <1>3, <1>5, SameIs
<1>9. CASE On(c, "absent") /\ Return(c, "absent") /\ UNCHANGED <<disk, fd>>
  BY <1>2, <1>9, ReturnEffect, SameIs
<1>10. CASE On(c, "open") /\ Truncate(c, Temp(c)) /\ Goto(c, "fill")
  BY <1>1, <1>2, <1>3, <1>5, <1>10, TruncateIs, GotoEffect DEF On
<1>11. CASE On(c, "fill") /\ Write(c, "whole") /\ Goto(c, "rename")
  <2>1. Is(json)' = Is(json)
    BY <1>1, <1>2, <1>11, WriteElsewhere DEF Writes, On, Content
  <2> QED BY <1>2, <1>3, <1>5, <1>11, <2>1, GotoEffect DEF On
<1>12. CASE /\ On(c, "fill") /\ WriteFails(c) /\ Return(c, "failed")
            /\ disk' = [disk EXCEPT ![Temp(c)] = None]
  <2>1. disk'[json] = disk[json]
    BY <1>1, <1>2, <1>12 DEF TypeOK, FilesOK
  <2> QED BY <1>2, <1>12, <2>1, ReturnEffect, SameIs
<1>13. CASE On(c, "rename") /\ Rename(c, Temp(c)) /\ Goto(c, "json")
  <2>1. disk'[json] = disk[json]
    BY <1>1, <1>2, <1>13, RenameEffect
  <2> QED BY <1>2, <1>3, <1>5, <1>13, <2>1, GotoEffect, SameIs DEF On
<1>14. CASE On(c, "json") /\ Truncate(c, json) /\ Goto(c, "meta")
  <2>1. Is(json)' = "part" /\ disk'[json] # None /\ disk'[json].file = fd'[c]
    BY <1>1, <1>2, <1>14, TruncateIs
  <2>2. pc'[c] = "meta" /\ at'[c] = d /\ out'[c] = None
    BY <1>2, <1>14, GotoEffect
  <2>3. Writes(c)' = json
    BY <2>2 DEF Writes, json
  <2> QED BY <1>3, <1>5, <1>14, <2>1, <2>2, <2>3 DEF Holds, On
<1>15. CASE On(c, "meta") /\ Write(c, "whole") /\ Goto(c, "load")
  <2>1. Is(json)' = "whole"
    BY <1>1, <1>2, <1>5, <1>15, HeldIsWritten DEF Writes, On, json, Content
  <2> QED BY <1>2, <1>3, <1>15, <2>1, GotoEffect
<1>16. CASE On(c, "meta") /\ WriteFails(c) /\ Return(c, "failed") /\ UNCHANGED disk
  BY <1>2, <1>16, ReturnEffect, SameIs
<1>17. CASE On(c, "load") /\ Return(c, Is(Slot(at[c]))) /\ UNCHANGED <<disk, fd>>
  BY <1>2, <1>5, <1>17, ReturnEffect, SameIs DEF On
<1> QED
  BY <1>6, <1>7, <1>8, <1>9, <1>10, <1>11, <1>12, <1>13, <1>14, <1>15, <1>16, <1>17 DEF HttpChart, json

-----------------------------------------------------------------------------
(* Contracts of images named by digest.                                    *)
LEMMA ContractOwn ==
  ASSUME CoreInv, NEW c \in job.calls, ImageContract(c), Going(c), UNCHANGED <<served, state>>,
         NEW d \in Contract \cap Pinned, at[c] = d, ServedCall(c), ContractCall(c), ContractDoc(d)
  PROVE  /\ ContractCall(c)' /\ ContractDoc(d)' /\ at'[c] = d
         /\ Is(<<d, ".json">>) = "whole" => Is(<<d, ".json">>)' = "whole"
<1> DEFINE json == <<d, ".json">>
           yaml == <<d, ".yaml">>
           found == d \in served
           now == IF found THEN "whole" ELSE "none"
<1>1. /\ json \in Path /\ yaml \in Path /\ json # yaml /\ Origin(json) = {json} /\ Origin(yaml) = {yaml}
      /\ d \notin Chart /\ d \notin Kube
  BY PathsAre, OriginsAre, Apartness DEF CoreInv
<1>2. c.doc = d /\ TypeOK /\ FileInv /\ out[c] = None /\ Stays(c)
  BY Apartness, ChartLabel DEF CoreInv, Going, Stays
<1>3. "whole" # None /\ "failed" # None /\ "absent" # None /\ "none" # None /\ "part" # None
  BY NothingIsNone DEF Answered
<1>4. /\ pc[c] \in {"ask", "open", "absent", "fill", "json", "meta"} => Is(json) \notin {"whole", "none"}
      /\ pc[c] \in {"json", "meta"} /\ found => Is(yaml) = "whole"
      /\ pc[c] \in {"fill", "meta"} => Holds(c)
  BY DEF ContractCall, json, yaml
<1>5. (Is(json) = "whole" => Is(yaml) = "whole") /\ (pc[c] = "absent" => ~found)
  BY DEF ContractDoc, ServedCall, json, yaml
<1> SUFFICES /\ at'[c] = d
             /\ out'[c] \in {None, "failed", "absent", "whole"}
             /\ out'[c] = "whole" => Is(json)' = "whole"
             /\ pc'[c] \in {"ask", "open", "absent", "fill", "json", "meta"} => Is(json)' \notin {"whole", "none"}
             /\ pc'[c] \in {"json", "meta"} /\ found => Is(yaml)' = "whole"
             /\ pc'[c] \in {"fill", "meta"} => Holds(c)'
             /\ Is(json)' = "whole" => Is(yaml)' = "whole"
             /\ Is(json) = "whole" => Is(json)' = "whole"
  BY DEF ContractCall, ContractDoc, Going
<1> HIDE DEF json, yaml, found
<1>6. CASE /\ On(c, "lookup") /\ ContractHit(c)
           /\ Hit(c, IF Is(<<at[c], ".json">>) = "none" THEN "absent" ELSE Is(<<at[c], ".yaml">>))
  <2>1. PICK a \in {"absent", "whole"} : Answer(c, a) /\ (a = "whole" => Is(json) = "whole")
    BY <1>3, <1>5, <1>6 DEF ContractHit, Hit, json, yaml
  <2>2. pc'[c] = "done" /\ at'[c] = d /\ out'[c] = a /\ disk' = disk
    BY <1>2, <1>6, <2>1, SingleAnswer DEF Hit
  <2> QED BY <1>5, <2>1, <2>2, SameIs
<1>7. CASE On(c, "lookup") /\ ~ContractHit(c) /\ Miss(c)
  <2>1. Is(json) \notin {"whole", "none"}
    BY <1>2, <1>3, <1>5, <1>7 DEF ContractHit, json, yaml
  <2>2. /\ disk' = disk /\ at'[c] = d
        /\ (pc'[c] = "done" /\ out'[c] = "failed") \/ (pc'[c] = "ask" /\ out'[c] = None)
    <3>1. Miss(c) /\ at[c] \in Chart \cup Contract \cup Image
      BY <1>7
    <3> QED BY <1>2, <3>1, MissGoes
  <2> QED BY <2>1, <2>2, <1>3, SameIs
<1>8. CASE Ask(c)
  <2>1. /\ disk' = disk /\ at'[c] = d /\ pc[c] = "ask"
        /\ (pc'[c] = "done" /\ out'[c] = "failed") \/ (pc'[c] \in {"open", "absent"} /\ out'[c] = None)
    BY <1>2, <1>8, AskGoes
  <2> QED BY <2>1, <1>3, <1>4, <1>5, SameIs
<1>9. CASE On(c, "absent") /\ Goto(c, "json") /\ UNCHANGED <<disk, fd>>
  <2>1. pc'[c] = "json" /\ at'[c] = d /\ out'[c] = None /\ disk' = disk /\ pc[c] = "absent"
    BY <1>2, <1>9, GotoEffect DEF On
  <2>2. Is(json)' = Is(json) /\ Is(yaml)' = Is(yaml)
    BY <2>1, SameIs
  <2> QED BY <2>1, <2>2, <1>3, <1>4, <1>5
<1>10. CASE On(c, "open") /\ Truncate(c, yaml) /\ Goto(c, "fill")
  <2>1. /\ Is(yaml)' = "part" /\ disk'[yaml] # None /\ disk'[yaml].file = fd'[c] /\ Is(json)' = Is(json)
    BY <1>1, <1>2, <1>10, TruncateIs
  <2>2. pc'[c] = "fill" /\ at'[c] = d /\ out'[c] = None
    BY <1>2, <1>10, GotoEffect
  <2>3. Writes(c)' = yaml
    BY <1>1, <2>2 DEF Writes, yaml
  <2> QED BY <1>3, <1>4, <1>10, <2>1, <2>2, <2>3 DEF Holds, On
<1>11. CASE On(c, "fill") /\ Write(c, "whole") /\ Goto(c, "json")
  <2>1. Writes(c) = yaml
    BY <1>1, <1>11 DEF Writes, On, yaml
  <2>2. Is(json)' = Is(json)
    BY <1>1, <1>2, <1>11, <2>1, WriteElsewhere DEF On, Content
  <2>3. Is(yaml)' = "whole"
    BY <1>1, <1>2, <1>4, <1>11, <2>1, HeldIsWritten DEF On, Content
  <2> QED BY <1>2, <1>3, <1>4, <1>11, <2>2, <2>3, GotoEffect DEF On
<1>12. CASE On(c, "json") /\ Truncate(c, json) /\ Goto(c, "meta")
  <2>1. Is(json)' = "part" /\ disk'[json] # None /\ disk'[json].file = fd'[c] /\ Is(yaml)' = Is(yaml)
    BY <1>1, <1>2, <1>12, TruncateIs
  <2>2. pc'[c] = "meta" /\ at'[c] = d /\ out'[c] = None
    BY <1>2, <1>12, GotoEffect
  <2>3. Writes(c)' = json
    BY <2>2 DEF Writes, json
  <2> QED BY <1>3, <1>4, <1>12, <2>1, <2>2, <2>3 DEF Holds, On
<1>13. CASE On(c, "meta") /\ Write(c, now) /\ Return(c, IF found THEN "whole" ELSE "absent")
  <2>1. now \in Content /\ (found => now = "whole") /\ (~found => now = "none")
    BY DEF Content
  <2>2. Writes(c) = json /\ pc[c] = "meta"
    BY <1>13 DEF Writes, On, json
  <2>3. PICK a \in {"absent", "whole"} : Return(c, a) /\ (a = "whole" <=> found)
    BY <1>13
  <2> HIDE DEF now
  <2>4. Is(json)' = now
    BY <1>1, <1>2, <1>4, <1>13, <2>1, <2>2, HeldIsWritten
  <2>5. Is(yaml)' = Is(yaml)
    BY <1>1, <1>2, <1>13, <2>1, <2>2, WriteElsewhere
  <2>6. pc'[c] = "done" /\ at'[c] = d /\ out'[c] = a
    BY <1>2, <2>3, ReturnEffect
  <2> QED BY <1>3, <1>4, <2>1, <2>2, <2>3, <2>4, <2>5, <2>6
<1>14. CASE WriteFails(c) /\ Return(c, "failed") /\ UNCHANGED disk
  <2>1. pc'[c] = "done" /\ at'[c] = d /\ out'[c] = "failed" /\ disk' = disk
    BY <1>2, <1>14, ReturnEffect
  <2> QED BY <1>5, <2>1, SameIs
<1> QED
  BY <1>6, <1>7, <1>8, <1>9, <1>10, <1>11, <1>12, <1>13, <1>14 DEF ImageContract, json, yaml, found

-----------------------------------------------------------------------------
(* Documents of a release.  What is there stays.                           *)
KubeKept ==
  \A d \in Kube : /\ disk[Slot(d)] # None => disk'[Slot(d)] # None
                  /\ disk[<<d, ".absent">>] # None => disk'[<<d, ".absent">>] # None

LEMMA KubeFileKeeps ==
  ASSUME CoreInv, NEW c \in job.calls, Step(c)
  PROVE  KubeKept
<1> USE DEF CoreInv
<1> SUFFICES ASSUME NEW d \in Kube, NEW x \in {"", ".absent"}, disk[<<d, x>>] # None PROVE disk'[<<d, x>>] # None
  BY DEF KubeKept, Slot
<1>1. <<d, x>> \in Path /\ d \in Doc
  BY PathsAre DEF Slot, Doc
<1>2. CASE d # at[c]
  BY <1>1, <1>2, OtherFiles
<1>3. CASE d = at[c]
  <2>1. KubeFile(c) /\ at[c] \in Kube
    BY <1>3, Apartness DEF Step, HttpChart, ImageContract, ImageAnswer
  <2>2. <<at[c], ".tmp">> \in Path /\ Slot(at[c]) \in Path /\ <<at[c], ".absent">> \in Path /\ <<d, x>> # <<at[c], ".tmp">>
    BY <2>1, PathsAre
  <2>3. CASE disk' = disk
    BY <2>3
  <2>4. CASE Mark(c) /\ disk' # disk
    <3>1. disk' = [disk EXCEPT ![<<at[c], ".absent">>] = [file |-> <<c, <<at[c], ".absent">>>>, is |-> "whole"]]
      BY <2>4 DEF Mark
    <3>2. [file |-> <<c, <<at[c], ".absent">>>>, is |-> "whole"] # None
      BY <2>2, CallIs, NothingIsNone DEF File, Content
    <3>3. disk \in [Path -> {None} \cup [file : File, is : Content]]
      BY DEF TypeOK, FilesOK
    <3> QED BY <1>1, <3>1, <3>2, <3>3
  <2>5. CASE Truncate(c, <<at[c], ".tmp">>)
    BY <1>1, <2>2, <2>5, TruncateEffect
  <2>6. CASE Write(c, "whole")
    BY <1>1, <2>6, WriteEffect DEF Content
  <2>7. CASE Rename(c, <<at[c], ".tmp">>)
    <3>1. <<at[c], ".tmp">> # Slot(at[c])
      BY DEF Slot
    <3> QED BY <1>1, <2>2, <2>7, <3>1, RenameEffect
  <2> QED
    BY <2>1, <2>3, <2>4, <2>5, <2>6, <2>7 DEF KubeFile, Hit, Miss, Ask
<1> QED BY <1>2, <1>3

LEMMA KubeAnswer ==
  ASSUME CoreInv, KubeKept, NEW c \in job.calls, KubeCall(c), Going(c), UNCHANGED <<job, state, served, release>>,
         NEW e \in Kube, at[c] = e, NEW a \in {"failed", "absent", "whole"}, Answer(c, a),
         a = "whole" => disk'[Slot(e)] # None /\ e \in served,
         a = "absent" /\ e \in Schema => /\ job.full \/ disk'[<<e, ".absent">>] # None
                                        /\ e # Core /\ e \notin served /\ served = release
  PROVE  KubeCall(c)'
<1>1. "whole" # None /\ "failed" # None /\ "absent" # None /\ Core \in Kube /\ ApiV1 \in Kube /\ AggV2 # ApiV1
      /\ AggBeta # ApiV1 /\ Core \notin Discovery /\ ApiV1 \notin Schema
  BY NothingIsNone, DocumentsAssumption DEF Answered, Kube, Discovery
<1>2. TypeOK /\ out[c] = None /\ c.doc \in Doc
  BY ChartLabel, CallIs DEF CoreInv, Going
<1>3. \/ e = c.doc
      \/ e = Core /\ c.doc \in Schema
      \/ e \in Discovery /\ c.doc = ApiV1
  BY <1>2 DEF TypeOK, CallsOK
<1>4. /\ e = Core /\ c.doc # Core => c.doc \notin served
      /\ c.doc = ApiV1 /\ e # ApiV1 => disk'[Slot(ApiV1)] # None
  BY <1>1 DEF KubeCall, KubeKept
<1>5. CASE /\ e = Core /\ c.doc # Core /\ c.doc \in Schema /\ a = "whole"
           /\ pc'[c] = "mark" /\ at'[c] = c.doc /\ out'[c] = None
  <2>1. served = release
    BY <1>2, <1>5 DEF TypeOK, GivenOK
  <2> QED BY <1>1, <1>4, <1>5, <2>1 DEF KubeCall, Going
<1>6. CASE /\ e = ApiV1 /\ a = "whole" /\ pc'[c] = "lookup" /\ at'[c] = AggV2 /\ out'[c] = None
  <2>1. c.doc = ApiV1
    BY <1>1, <1>2, <1>3, <1>6, DocumentsAssumption DEF Discovery
  <2> QED BY <1>1, <1>6, <2>1, DocumentsAssumption DEF KubeCall, Going, Discovery
<1>7. CASE /\ e = AggV2 /\ pc'[c] = "lookup" /\ at'[c] = AggBeta /\ out'[c] = None
  <2>1. c.doc = ApiV1
    BY <1>1, <1>2, <1>3, <1>7, CallIs, DocumentsAssumption DEF Discovery
  <2> QED BY <1>1, <1>4, <1>7, <2>1, DocumentsAssumption DEF KubeCall, Going, Discovery
<1>8. CASE /\ e = Core /\ c.doc # Core => a \in {"failed", "absent"}
           /\ e = ApiV1 => a \in {"failed", "absent"}
           /\ pc'[c] = "done" /\ at'[c] = e
           /\ out'[c] = IF e \in Discovery /\ a \in {"failed", "absent"} THEN "failed" ELSE a
  <2>1. c.doc \in Schema => (out'[c] = "whole" => disk'[Slot(c.doc)] # None)
                            /\ (out'[c] = "absent" =>
                                  /\ job.full \/ disk'[<<c.doc, ".absent">>] # None
                                  /\ c.doc # Core /\ c.doc \notin served /\ served = release)
    <3>1. ASSUME c.doc \in Schema, out'[c] \in {"whole", "absent"} PROVE e = c.doc /\ a = out'[c]
      BY <1>1, <1>3, <1>8, <3>1 DEF Kube
    <3> QED BY <3>1
  <2>2. c.doc = ApiV1 => (out'[c] = "whole" => e # ApiV1 /\ disk'[Slot(e)] # None)
    BY <1>1, <1>8
  <2> QED BY <1>1, <1>4, <1>8, <2>1, <2>2 DEF KubeCall, Going
<1> QED BY <1>2, <1>5, <1>6, <1>7, <1>8, AnswerEffect

LEMMA KubeGoto ==
  ASSUME CoreInv, KubeKept, NEW c \in job.calls, KubeCall(c), Going(c), UNCHANGED <<job, state, served, release>>,
         NEW e \in Kube, at[c] = e, NEW l \in Label \ {"done"}, Goto(c, l),
         l = "mark" => e \notin Schema,
         l = "fill" => Holds(c)',
         l = "rename" => Is(<<e, ".tmp">>)' = "whole"
  PROVE  KubeCall(c)'
<1>1. TypeOK /\ out[c] = None /\ Core \in Kube /\ ApiV1 \in Kube
  BY ChartLabel, DocumentsAssumption DEF CoreInv, Going, Kube, Discovery
<1>2. pc'[c] = l /\ at'[c] = e /\ out'[c] = None
  BY <1>1, GotoEffect
<1>3. "whole" # None /\ "failed" # None /\ "absent" # None
  BY NothingIsNone DEF Answered
<1> QED BY <1>1, <1>2, <1>3 DEF KubeCall, KubeKept, Going

LEMMA KubeOwnCall ==
  ASSUME CoreInv, KubeKept, NEW c \in job.calls, KubeFile(c), KubeCall(c), Going(c), ServedCall(c),
         UNCHANGED <<job, state, served, release>>, NEW e \in Kube, at[c] = e, KubeDoc(e)
  PROVE  KubeCall(c)'
<1> DEFINE tmp == <<e, ".tmp">>
           absent == <<e, ".absent">>
<1>1. /\ TypeOK /\ FileInv /\ Core \in Kube /\ e \notin Chart
      /\ Slot(e) \in Path /\ tmp \in Path /\ absent \in Path /\ tmp # Slot(e) /\ tmp # absent
      /\ Is(Slot(e)) = None <=> disk[Slot(e)] = None
      /\ Is(absent) = None <=> disk[absent] = None
  BY PathsAre, ContentIs, Apartness, DocumentsAssumption DEF CoreInv, Kube, Slot
<1>2. \A a \in {"failed", "absent", "whole"} :
        /\ Answer(c, a)
        /\ a = "whole" => disk'[Slot(e)] # None /\ e \in served
        /\ a = "absent" /\ e \in Schema => /\ job.full \/ disk'[absent] # None
                                          /\ e # Core /\ e \notin served /\ served = release
        => KubeCall(c)'
  BY KubeAnswer
<1>3. \A l \in Label \ {"done"} :
        /\ Goto(c, l)
        /\ l = "mark" => e \notin Schema
        /\ l = "fill" => Holds(c)'
        /\ l = "rename" => Is(tmp)' = "whole"
        => KubeCall(c)'
  BY KubeGoto
<1>4. /\ Is(Slot(e)) \in {None, "whole"}
      /\ disk[Slot(e)] # None => e \in served
      /\ e \in Schema /\ disk[absent] # None => e # Core /\ e \notin served /\ served = release
  BY DEF KubeDoc
<1>5. /\ pc[c] \in {"open", "fill", "rename"} => e \in served
      /\ pc[c] = "absent" => e \notin served
      /\ pc[c] = "mark" /\ e \in Schema => e # Core /\ e \notin served /\ served = release
      /\ pc[c] = "fill" => Holds(c)
      /\ pc[c] = "rename" => Is(tmp) = "whole"
  BY DEF ServedCall, KubeCall
<1> HIDE DEF tmp, absent
<1>6. CASE On(c, "lookup") /\ KubeHit(c) /\ Hit(c, IF Is(Slot(at[c])) # None THEN Is(Slot(at[c])) ELSE "absent")
  <2>1. CASE Is(Slot(e)) # None
    BY <1>1, <1>2, <1>4, <1>6, <2>1 DEF Hit
  <2>2. CASE Is(Slot(e)) = None
    BY <1>1, <1>2, <1>4, <1>6, <2>2 DEF Hit, KubeHit, absent
  <2> QED BY <2>1, <2>2
<1>7. CASE On(c, "lookup") /\ Miss(c)
  BY <1>2, <1>3, <1>7 DEF Miss, Label
<1>8. CASE Ask(c)
  BY <1>2, <1>3, <1>8 DEF Ask, Label
<1>9. CASE On(c, "absent") /\ NotFound(c) /\ UNCHANGED <<disk, fd>>
  <2>1. CASE Answer(c, "failed")
    BY <1>2, <2>1
  <2>2. CASE e \notin Schema /\ Goto(c, "mark")
    BY <1>3, <2>2 DEF Label
  <2>3. CASE e \in Schema /\ e # Core /\ Turn(c, Core, "lookup")
    <3>1. c.doc = e /\ out[c] = None
      BY <1>1, <2>3, ChartLabel, DocumentsAssumption DEF TypeOK, CallsOK, Discovery, Going
    <3>2. pc'[c] = "lookup" /\ at'[c] = Core /\ out'[c] = None
      BY <1>1, <2>3, <3>1, TurnEffect
    <3>3. e \notin served /\ c.doc # ApiV1
      BY <1>5, <1>9, <2>3, <3>1, DocumentsAssumption DEF On, Discovery
    <3>4. "whole" # None /\ "failed" # None /\ "absent" # None
      BY NothingIsNone DEF Answered
    <3> QED BY <2>3, <3>1, <3>2, <3>3, <3>4, DocumentsAssumption DEF KubeCall, Going, Discovery
  <2> QED BY <1>9, <2>1, <2>2, <2>3 DEF NotFound
<1>10. CASE Mark(c)
  <2>1. job.full \/ disk' = [disk EXCEPT ![absent] = [file |-> <<c, absent>>, is |-> "whole"]]
    BY <1>10 DEF Mark, absent
  <2>2. [file |-> <<c, absent>>, is |-> "whole"] # None
    BY <1>1, CallIs, NothingIsNone DEF File, Content
  <2>3. job.full \/ disk'[absent] # None
    BY <1>1, <2>1, <2>2 DEF TypeOK, FilesOK
  <2> QED BY <1>2, <1>5, <1>10, <2>3 DEF Mark, On
<1>11. CASE On(c, "open") /\ Truncate(c, tmp) /\ Goto(c, "fill")
  <2>1. disk'[tmp] # None /\ disk'[tmp].file = fd'[c]
    BY <1>1, <1>11, TruncateIs
  <2>2. Writes(c)' = tmp
    BY <1>1, <1>11, GotoEffect DEF Writes, tmp
  <2> QED BY <1>3, <1>11, <2>1, <2>2 DEF Holds, Label
<1>12. CASE On(c, "fill") /\ Write(c, "whole") /\ Goto(c, "rename")
  <2>1. Writes(c) = tmp
    BY <1>1, <1>12 DEF Writes, On, tmp
  <2>2. Is(tmp)' = "whole"
    BY <1>1, <1>5, <1>12, <2>1, HeldIsWritten DEF On, Content
  <2> QED BY <1>3, <1>12, <2>2 DEF Label
<1>13. CASE Answer(c, "failed")
  BY <1>2, <1>13
<1>14. CASE On(c, "rename") /\ Rename(c, tmp) /\ Answer(c, "whole")
  <2>1. disk'[Slot(e)] # None
    BY <1>1, <1>14, RenameEffect
  <2> QED BY <1>2, <1>5, <1>14, <2>1 DEF On
<1> QED
  BY <1>6, <1>7, <1>8, <1>9, <1>10, <1>11, <1>12, <1>13, <1>14 DEF KubeFile, Hit, tmp

LEMMA KubeOwnDoc ==
  ASSUME CoreInv, NEW c \in job.calls, KubeFile(c), KubeCall(c), Going(c), ServedCall(c),
         UNCHANGED <<job, state, served, release>>, NEW e \in Kube, at[c] = e, KubeDoc(e)
  PROVE  KubeDoc(e)'
<1> DEFINE tmp == <<e, ".tmp">>
           absent == <<e, ".absent">>
<1>1. /\ TypeOK /\ FileInv
      /\ Slot(e) \in Path /\ tmp \in Path /\ absent \in Path /\ tmp # Slot(e) /\ tmp # absent /\ absent # Slot(e)
  BY PathsAre DEF CoreInv, Slot
<1>2. /\ Is(Slot(e)) \in {None, "whole"}
      /\ disk[Slot(e)] # None => e \in served
      /\ e \in Schema /\ disk[absent] # None => e # Core /\ e \notin served /\ served = release
  BY DEF KubeDoc
<1>3. /\ pc[c] = "rename" => e \in served /\ Is(tmp) = "whole"
      /\ pc[c] = "mark" /\ e \in Schema => e # Core /\ e \notin served /\ served = release
  BY DEF ServedCall, KubeCall
<1> SUFFICES /\ Is(Slot(e))' \in {None, "whole"}
             /\ disk'[Slot(e)] # None => e \in served
             /\ e \in Schema /\ disk'[absent] # None => e # Core /\ e \notin served /\ served = release
  BY DEF KubeDoc
<1> HIDE DEF tmp, absent
<1>4. CASE disk'[Slot(e)] = disk[Slot(e)] /\ disk'[absent] = disk[absent]
  BY <1>2, <1>4, SameIs
<1>5. CASE Mark(c)
  <2>1. disk' = disk \/ disk' = [disk EXCEPT ![absent] = [file |-> <<c, absent>>, is |-> "whole"]]
    BY <1>5 DEF Mark, absent
  <2>2. disk'[Slot(e)] = disk[Slot(e)]
    BY <1>1, <2>1 DEF TypeOK, FilesOK
  <2> QED BY <1>2, <1>3, <1>5, <2>2, SameIs DEF Mark, On
<1>6. CASE Truncate(c, tmp)
  <2>1. disk'[Slot(e)] = disk[Slot(e)] /\ disk'[absent] = disk[absent]
    BY <1>1, <1>6, TruncateKeeps
  <2> QED BY <1>4, <2>1
<1>7. CASE On(c, "fill") /\ Write(c, "whole")
  <2>1. Is(Slot(e))' \in {"whole", Is(Slot(e))} /\ (disk'[Slot(e)] = None <=> disk[Slot(e)] = None)
        /\ (disk'[absent] = None <=> disk[absent] = None)
    BY <1>1, <1>7, WriteIs, WriteEffect DEF Content
  <2> QED BY <1>2, <2>1
<1>8. CASE On(c, "rename") /\ Rename(c, tmp)
  <2>1. disk[tmp] # None /\ disk'[Slot(e)] = disk[tmp] /\ disk'[absent] = disk[absent]
    BY <1>1, <1>8, RenameEffect
  <2>2. Is(Slot(e))' = Is(tmp)
    BY <2>1 DEF Is
  <2> QED BY <1>2, <1>3, <1>8, <2>1, <2>2 DEF On
<1> QED
  BY <1>4, <1>5, <1>6, <1>7, <1>8 DEF KubeFile, Hit, Miss, Ask, tmp

-----------------------------------------------------------------------------
(* Every step keeps what is known of documents that never change.          *)
LEMMA KindStays ==
  ASSUME TypeOK, TypeOK', job' = job, NEW c \in job.calls, NEW S \in {Chart, Contract}
  PROVE  at'[c] \in S => at[c] = at'[c]
<1>1. c.doc \in Kube \/ (at[c] = c.doc /\ at'[c] = c.doc)
  BY DocumentsAssumption DEF TypeOK, CallsOK, Kube, Discovery
<1>2. c.doc \in Kube => at'[c] \in Kube
  BY DocumentsAssumption DEF TypeOK, CallsOK, Kube, Discovery
<1> QED BY <1>1, <1>2, DocumentsAssumption

LEMMA KubeStays ==
  ASSUME TypeOK, TypeOK', job' = job, NEW c \in job.calls
  PROVE  at'[c] \in Kube <=> at[c] \in Kube
<1>1. c.doc \in Kube \/ (at[c] = c.doc /\ at'[c] = c.doc)
  BY DocumentsAssumption DEF TypeOK, CallsOK, Kube, Discovery
<1>2. c.doc \in Kube => at'[c] \in Kube /\ at[c] \in Kube
  BY DocumentsAssumption DEF TypeOK, CallsOK, Kube, Discovery
<1> QED BY <1>1, <1>2

LEMMA StepPinnedCharts ==
  ASSUME CoreInv, CoreInv', SerialInv, PinnedInv, Apart, NEW c \in job.calls, Step(c),
         NEW x \in job.calls, at'[x] \in Chart \cap Pinned, ~job.together
  PROVE  PinnedChartCall(x)'
<1> DEFINE json == <<at[x], ".json">>
<1>1. Alone(c) /\ Frames(c) /\ UNCHANGED <<job, state, served, release>> /\ Going(c)
  BY StepFrame, StepIsOn DEF CoreInv
<1>2. at'[x] = at[x] /\ at[x] \in Chart \cap Pinned /\ json \in Path /\ PinnedChartCall(x) /\ at[x] \in Doc
  <2>1. at'[x] = at[x] /\ at[x] \in Chart \cap Pinned
    BY <1>1, KindStays DEF CoreInv
  <2> QED BY <2>1, PathsAre DEF PinnedInv, Doc
<1>3. CASE at[x] # at[c]
  <2>1. disk'[json] = disk[json]
    BY <1>2, <1>3, OtherFiles DEF CoreInv
  <2>2. x # c /\ fd'[x] = fd[x] /\ pc'[x] = pc[x] /\ out'[x] = out[x]
    BY <1>1, <1>3 DEF Frames, Alone
  <2>3. pc[x] = "meta" => Writes(x) = json /\ Writes(x)' = json
    BY <1>2, <2>2 DEF Writes
  <2> QED BY <1>1, <1>2, <2>1, <2>2, <2>3 DEF PinnedChartCall, Holds, Going, Is
<1>4. CASE at[x] = at[c]
  <2>1. HttpChart(c) /\ PinnedChartCall(c)
    BY <1>2, <1>4, Apartness DEF Step, KubeFile, ImageContract, ImageAnswer, PinnedInv, CoreInv
  <2>2. PinnedChartCall(c)' /\ (Is(json) = "whole" => Is(json)' = "whole")
    <3>1. PICK d \in Chart \cap Pinned : d = at[c]
      BY <1>2, <1>4
    <3>2. PinnedChartCall(c)' /\ (Is(<<d, ".json">>) = "whole" => Is(<<d, ".json">>)' = "whole")
      BY <1>1, <2>1, <3>1, PinnedChartOwn
    <3>3. json = <<d, ".json">> /\ json' = json
      BY <1>2, <1>4, <3>1
    <3> QED BY <3>2, <3>3 DEF Is
  <2>3. CASE x = c
    BY <2>2, <2>3
  <2>4. CASE x # c
    <3>1. pc'[x] = pc[x] /\ out'[x] = out[x]
      BY <1>1, <2>4 DEF Alone
    <3>2. ~Going(x)
      <4>1. at[x] = x.doc /\ at[c] = c.doc
        BY <1>2, <1>4, Apartness DEF CoreInv
      <4>2. at[x] \in Opens(x, release) /\ at[c] \in Opens(c, release)
        BY <4>1 DEF Opens
      <4> QED BY <1>1, <1>2, <1>4, <2>4, <4>2, Exclusive
    <3> QED BY <1>1, <1>2, <2>2, <3>1, <3>2 DEF PinnedChartCall, Going, Is
  <2> QED BY <2>3, <2>4
<1> QED BY <1>3, <1>4

LEMMA StepContracts ==
  ASSUME CoreInv, CoreInv', SerialInv, PinnedInv, Apart, NEW c \in job.calls, Step(c),
         NEW d \in Contract \cap Pinned
  PROVE  ContractDoc(d)' /\ \A x \in job.calls : at'[x] = d => ContractCall(x)'
<1> DEFINE json == <<d, ".json">>
           yaml == <<d, ".yaml">>
<1>1. Alone(c) /\ Frames(c) /\ UNCHANGED <<job, state, served, release>> /\ Going(c)
  BY StepFrame, StepIsOn DEF CoreInv
<1>2. json \in Path /\ yaml \in Path /\ d \notin Chart /\ d \notin Kube /\ ContractDoc(d) /\ d \in Doc
  BY PathsAre, DocumentsAssumption DEF PinnedInv, Doc
<1>3. ASSUME NEW x \in job.calls, at'[x] = d PROVE at[x] = d /\ ContractCall(x)
  <2>1. at[x] = d
    BY <1>1, <1>3, KindStays DEF CoreInv
  <2> QED BY <2>1 DEF PinnedInv
<1>4. CASE d # at[c]
  <2>1. disk'[json] = disk[json] /\ disk'[yaml] = disk[yaml]
    BY <1>2, <1>4, OtherFiles DEF CoreInv
  <2>2. ASSUME NEW x \in job.calls, at'[x] = d PROVE ContractCall(x)'
    <3>1. x # c /\ at[x] = d /\ ContractCall(x)
      BY <1>3, <1>4, <2>2
    <3>2. fd'[x] = fd[x] /\ pc'[x] = pc[x] /\ out'[x] = out[x]
      BY <1>1, <3>1 DEF Frames, Alone
    <3>3. pc[x] \in {"fill", "meta"} => Writes(x) \in {json, yaml} /\ Writes(x)' = Writes(x)
      BY <1>2, <2>2, <3>1, <3>2 DEF Writes
    <3> QED BY <1>1, <2>1, <2>2, <3>1, <3>2, <3>3 DEF ContractCall, Holds, Going, Is
  <2> QED BY <1>2, <2>1, <2>2 DEF ContractDoc, Is
<1>5. CASE d = at[c]
  <2>1. ImageContract(c) /\ ContractCall(c) /\ ServedCall(c)
    BY <1>5, Apartness DEF Step, HttpChart, KubeFile, ImageAnswer, PinnedInv, CoreInv
  <2>2. ContractCall(c)' /\ ContractDoc(d)' /\ (Is(json) = "whole" => Is(json)' = "whole")
    BY <1>1, <1>2, <1>5, <2>1, ContractOwn
  <2>3. ASSUME NEW x \in job.calls, at'[x] = d, x # c PROVE ContractCall(x)'
    <3>1. pc'[x] = pc[x] /\ out'[x] = out[x] /\ at[x] = d /\ ContractCall(x)
      BY <1>1, <1>3, <2>3 DEF Alone
    <3>2. ~Going(x)
      <4>1. at[x] = x.doc /\ at[c] = c.doc
        BY <1>5, <3>1, Apartness DEF CoreInv
      <4>2. at[x] \in Opens(x, release) /\ at[c] \in Opens(c, release)
        BY <4>1 DEF Opens
      <4> QED BY <1>1, <1>2, <1>5, <2>3, <3>1, <4>2, Exclusive
    <3> QED BY <1>1, <2>2, <2>3, <3>1, <3>2 DEF ContractCall, Going, Is
  <2> QED BY <2>2, <2>3
<1> QED BY <1>4, <1>5

LEMMA StepKube ==
  ASSUME CoreInv, CoreInv', SerialInv, PinnedInv, Apart, NEW c \in job.calls, Step(c)
  PROVE  /\ \A d \in Kube : KubeDoc(d)'
         /\ \A x \in job.calls : at'[x] \in Kube => KubeCall(x)'
<1>1. Alone(c) /\ Frames(c) /\ UNCHANGED <<job, state, served, release>> /\ Going(c) /\ KubeKept /\ ServedCall(c)
  BY StepFrame, StepIsOn, KubeFileKeeps DEF CoreInv, PinnedInv
<1>2. ASSUME at[c] \in Kube PROVE KubeFile(c) /\ KubeCall(c)
  BY <1>2, Apartness DEF Step, HttpChart, ImageContract, ImageAnswer, PinnedInv, CoreInv
<1>3. ASSUME NEW d \in Kube PROVE KubeDoc(d)'
  <2>1. KubeDoc(d) /\ d \in Doc /\ Slot(d) \in Path /\ <<d, ".absent">> \in Path
    BY PathsAre DEF PinnedInv, Doc
  <2>2. CASE d # at[c]
    <3>1. disk'[Slot(d)] = disk[Slot(d)] /\ disk'[<<d, ".absent">>] = disk[<<d, ".absent">>]
      BY <2>1, <2>2, OtherFiles DEF CoreInv, Slot
    <3> QED BY <1>1, <2>1, <3>1 DEF KubeDoc, Is
  <2>3. CASE d = at[c]
    BY <1>1, <1>2, <2>1, <2>3, KubeOwnDoc
  <2> QED BY <2>2, <2>3
<1>4. ASSUME NEW x \in job.calls, at'[x] \in Kube PROVE KubeCall(x)'
  <2>1. at[x] \in Kube /\ KubeCall(x) /\ ServedCall(x)
    BY <1>1, <1>4, KubeStays DEF CoreInv, PinnedInv
  <2>2. CASE x = c
    BY <1>1, <1>2, <2>1, <2>2, KubeOwnCall DEF PinnedInv
  <2>3. CASE x # c
    <3>1. pc'[x] = pc[x] /\ out'[x] = out[x] /\ at'[x] = at[x] /\ fd'[x] = fd[x]
      BY <1>1, <2>3 DEF Alone, Frames
    <3>2. Core \in Kube /\ ApiV1 \in Kube
      BY DocumentsAssumption DEF Kube, Discovery
    <3>3. ASSUME Going(x), pc[x] \in {"fill", "rename"}
          PROVE  disk'[<<at[x], ".tmp">>] = disk[<<at[x], ".tmp">>]
      <4>1. at[x] # at[c]
        <5> SUFFICES ASSUME at[x] = at[c] PROVE FALSE
          OBVIOUS
        <5>1. at[x] \in served /\ at[x] \in Pinned /\ at[x] \notin Chart
          BY <2>1, <3>3, DocumentsAssumption DEF ServedCall
        <5>2. at[x] \in Opens(x, release) /\ at[c] \in Opens(c, release)
          BY <1>1, <1>2, <2>1, <3>3, <5>1, FoundIsOpen
        <5> QED BY <1>1, <2>3, <3>3, <5>1, <5>2, Exclusive
      <4> QED BY <2>1, <4>1, PathsAre, OtherFiles DEF CoreInv, Doc
    <3>4. pc[x] = "fill" => Writes(x) = <<at[x], ".tmp">> /\ Writes(x)' = <<at[x], ".tmp">>
      BY <2>1, <3>1, DocumentsAssumption DEF Writes
    <3>5. /\ out'[x] \in {None, "failed", "absent", "whole"}
          /\ x.doc \in Schema =>
               /\ out'[x] = "whole" => disk'[Slot(x.doc)] # None
               /\ out'[x] = "absent" => /\ x.doc # Core /\ x.doc \notin served /\ served = release
                                        /\ job.full \/ disk'[<<x.doc, ".absent">>] # None
          /\ x.doc = ApiV1 =>
               /\ at'[x] # ApiV1 => disk'[Slot(ApiV1)] # None
               /\ out'[x] = "whole" => at'[x] # ApiV1 /\ disk'[Slot(at'[x])] # None
      BY <1>1, <2>1, <3>1, <3>2 DEF KubeCall, KubeKept, Kube
    <3>6. Going(x)' =>
            /\ at'[x] = Core /\ x.doc # Core => x.doc \notin served
            /\ pc'[x] = "mark" /\ at'[x] \in Schema =>
                 at'[x] = x.doc /\ at'[x] # Core /\ at'[x] \notin served /\ served = release
            /\ pc'[x] = "fill" => Holds(x)'
            /\ pc'[x] = "rename" => Is(<<at[x], ".tmp">>)' = "whole"
      <4>1. Going(x)' <=> Going(x)
        BY <1>1, <3>1 DEF Going
      <4>2. Going(x) /\ pc[x] = "fill" => Holds(x)'
        BY <2>1, <3>1, <3>3, <3>4 DEF KubeCall, Holds
      <4>3. Going(x) /\ pc[x] = "rename" => Is(<<at[x], ".tmp">>)' = "whole"
        BY <2>1, <3>1, <3>3, SameIs DEF KubeCall
      <4> QED BY <2>1, <3>1, <4>1, <4>2, <4>3 DEF KubeCall
    <3> QED BY <1>1, <3>1, <3>5, <3>6 DEF KubeCall
  <2> QED BY <2>2, <2>3
<1> QED BY <1>3, <1>4

LEMMA StepPinned ==
  ASSUME CoreInv, CoreInv', SerialInv, PinnedInv, Apart, NEW c \in job.calls, Step(c)
  PROVE  PinnedInv'
<1>1. job' = job
  BY StepFrame DEF CoreInv
<1>2. \A d \in Contract \cap Pinned : ContractDoc(d)'
  BY StepContracts
<1>3. \A d \in Kube : KubeDoc(d)'
  BY StepKube
<1>4. ASSUME NEW x \in job.calls
      PROVE  /\ ServedCall(x)'
             /\ at'[x] \in Chart \cap Pinned /\ ~job.together => PinnedChartCall(x)'
             /\ at'[x] \in Contract \cap Pinned => ContractCall(x)'
             /\ at'[x] \in Kube => KubeCall(x)'
  <2>1. ServedCall(x)'
    BY <1>1, StepServed DEF PinnedInv
  <2> QED BY <2>1, StepPinnedCharts, StepContracts, StepKube
<1> QED BY <1>1, <1>2, <1>3, <1>4 DEF PinnedInv

LEMMA InitPinned == Init => PinnedInv
<1> SUFFICES ASSUME Init PROVE PinnedInv
  OBVIOUS
<1>1. CoreInv /\ \A p \in Path : disk[p] = None
  BY InitCore DEF Init
<1>2. \A c \in job.calls : pc[c] = "lookup" /\ out[c] = None /\ at[c] = c.doc
  BY DEF Init
<1>3. \A a \in Answered : a # None
  BY NothingIsNone
<1>4. \A d \in Contract : Is(<<d, ".json">>) = None
  BY <1>1, PathsAre DEF Is
<1>5. \A d \in Kube : disk[Slot(d)] = None /\ disk[<<d, ".absent">>] = None /\ Is(Slot(d)) = None
  BY <1>1, PathsAre DEF Is
<1>6. ASSUME NEW c \in job.calls PROVE ServedCall(c) /\ PinnedChartCall(c) /\ ContractCall(c) /\ KubeCall(c)
  BY <1>2, <1>3 DEF ServedCall, PinnedChartCall, ContractCall, KubeCall, Answered
<1>7. \A d \in Contract : ContractDoc(d)
  BY <1>3, <1>4 DEF ContractDoc, Answered
<1> QED BY <1>5, <1>6, <1>7 DEF PinnedInv, KubeDoc

(* Between steps of calls nothing is read or written: runs come and go,    *)
(* and what is published is there before the next one looks.               *)
LEMMA RunsKeepPinned ==
  ASSUME CoreInv, PinnedInv, UNCHANGED <<job, release, disk, pc, at, fd, out>>, GivenOK',
         \A c \in job.calls : Going(c)' => Going(c) \/ (pc[c] = "lookup" /\ at[c] = c.doc),
         served' = served \/ (served = {} /\ served # release /\ \A c \in job.calls : ~Going(c)')
  PROVE  PinnedInv'
<1>1. \A d \in Contract \cap Pinned : ContractDoc(d)'
  BY DEF PinnedInv, ContractDoc, Is
<1>2. ASSUME NEW d \in Kube PROVE KubeDoc(d)'
  BY DEF PinnedInv, KubeDoc, Is
<1>3. ASSUME NEW c \in job.calls
      PROVE  /\ ServedCall(c)'
             /\ at[c] \in Chart \cap Pinned /\ ~job.together => PinnedChartCall(c)'
             /\ at[c] \in Contract \cap Pinned => ContractCall(c)'
             /\ at[c] \in Kube => KubeCall(c)'
  <2>1. CASE Going(c)' /\ Going(c) /\ served' = served
    BY <2>1 DEF PinnedInv, ServedCall, PinnedChartCall, ContractCall, KubeCall, Holds, Writes, Is
  <2>2. CASE ~Going(c)' \/ (pc[c] = "lookup" /\ at[c] = c.doc)
    BY <2>2 DEF PinnedInv, ServedCall, PinnedChartCall, ContractCall, KubeCall, Is
  <2> QED BY <2>1, <2>2
<1> QED BY <1>1, <1>2, <1>3 DEF PinnedInv

LEMMA RunsPinned ==
  ASSUME CoreInv, SerialInv, PinnedInv, (\E r \in Run : Start(r) \/ Finish(r)) \/ Publish \/ UNCHANGED vars
  PROVE  PinnedInv'
<1>1. \A c \in job.calls : c.run \in Run
  BY CallIs DEF CoreInv
<1>2. CoreInv'
  BY NextCore DEF Next
<1>3. GivenOK'
  BY <1>2 DEF CoreInv, TypeOK
<1>4. ASSUME NEW r \in Run, Start(r) PROVE PinnedInv'
  <2>1. /\ state'[r] = "on" /\ state[r] = "idle" /\ \A q \in Run \ {r} : state'[q] = state[q]
        /\ UNCHANGED <<job, release, served, disk, pc, at, fd, out>>
    BY <1>4, StartIs DEF CoreInv
  <2>2. ASSUME NEW c \in job.calls, Going(c)' PROVE Going(c) \/ (pc[c] = "lookup" /\ at[c] = c.doc)
    BY <1>1, <2>1, <2>2 DEF Going, SerialInv
  <2> QED BY <1>3, <2>1, <2>2, RunsKeepPinned
<1>5. ASSUME NEW r \in Run, Finish(r) PROVE PinnedInv'
  <2>1. /\ state'[r] \in {"ended", "killed"} /\ \A q \in Run \ {r} : state'[q] = state[q]
        /\ UNCHANGED <<job, release, served, disk, pc, at, fd, out>>
    BY <1>5, FinishIs DEF CoreInv
  <2>2. ASSUME NEW c \in job.calls, Going(c)' PROVE Going(c)
    BY <1>1, <2>1, <2>2 DEF Going
  <2> QED BY <1>3, <2>1, <2>2, RunsKeepPinned
<1>6. CASE Publish
  <2>1. served = {} /\ served # release /\ UNCHANGED <<job, release, state, disk, pc, at, fd, out>>
    BY <1>6 DEF Publish, CoreInv, TypeOK, GivenOK
  <2>2. \A c \in job.calls : ~Going(c)'
    BY <1>1, <1>6, <2>1 DEF Publish, Going
  <2> QED BY <1>3, <2>1, <2>2, RunsKeepPinned
<1>7. CASE UNCHANGED vars
  BY <1>3, <1>7, RunsKeepPinned DEF vars, Going
<1> QED BY <1>4, <1>5, <1>6, <1>7

CacheInv == CoreInv /\ SerialInv /\ PinnedInv

LEMMA NextCache == ASSUME Apart, CacheInv, [Next]_vars PROVE CacheInv'
<1>1. CoreInv'
  BY NextCore DEF CacheInv
<1>2. CASE \E c \in job.calls : Step(c)
  BY <1>1, <1>2, StepSerial, StepPinned DEF CacheInv
<1>3. CASE (\E r \in Run : Start(r) \/ Finish(r)) \/ Publish \/ UNCHANGED vars
  BY <1>1, <1>3, RunsSerial, RunsPinned DEF CacheInv
<1> QED BY <1>2, <1>3 DEF Next

-----------------------------------------------------------------------------
(* A later run finds what an earlier one fetched.                          *)
LEMMA LaterChart ==
  ASSUME CacheInv, NEW b \in job.calls, NEW c \in job.calls, b.doc = c.doc, b.doc \in Chart \cap Pinned, ~job.together,
         Fetched(b), Step(c), Finds(c)
  PROVE  out'[c] = out[b] \/ (out'[c] = out[c] /\ Finds(c)')
<1> DEFINE d == c.doc
<1>1. /\ at[b] = d /\ at[c] = d /\ TypeOK /\ d \in Chart /\ d \notin Discovery /\ d \notin Schema
      /\ pc[c] \in {"lookup", "load"}
  BY DocumentsAssumption DEF CacheInv, CoreInv, TypeOK, CallsOK, Finds, Kube, Discovery
<1>2. out[b] = "whole"
  BY <1>1 DEF Fetched
<1>3. Is(<<d, ".json">>) = "whole" /\ disk[Slot(d)] # None /\ Is(Slot(d)) = "whole"
  <2>1. PinnedChartCall(b) /\ ChartCall(b) /\ ChartDoc(d)
    BY <1>1 DEF CacheInv, PinnedInv, CoreInv, ChartInv
  <2>2. disk[Slot(d)] # None
    BY <1>1, <1>2, <2>1 DEF ChartCall
  <2> QED BY <1>1, <1>2, <2>1, <2>2, ContentIs, PathsAre DEF PinnedChartCall, ChartDoc
<1>4. ChartHit(c)
  BY <1>1, <1>3, NothingIsNone DEF ChartHit, Stays, Answered
<1>5. HttpChart(c)
  BY <1>1, Apartness DEF Step, KubeFile, ImageContract, ImageAnswer
<1>6. CASE On(c, "lookup") /\ Goto(c, "load")
  BY <1>1, <1>6, GotoEffect DEF Finds
<1>7. CASE On(c, "load") /\ Return(c, Is(Slot(at[c])))
  BY <1>1, <1>2, <1>3, <1>7, ReturnEffect
<1> QED BY <1>1, <1>4, <1>5, <1>6, <1>7 DEF HttpChart, Ask, On

LEMMA LaterContract ==
  ASSUME CacheInv, NEW b \in job.calls, NEW c \in job.calls, b.doc = c.doc, b.doc \in Contract \cap Pinned,
         Fetched(b), Step(c), Finds(c)
  PROVE  out'[c] = out[b]
<1> DEFINE d == c.doc
<1>1. /\ at[b] = d /\ at[c] = d /\ TypeOK /\ d \in Contract /\ d \notin Discovery /\ d \notin Schema
      /\ pc[c] \in {"lookup", "load"}
  BY DocumentsAssumption DEF CacheInv, CoreInv, TypeOK, CallsOK, Finds, Kube, Discovery
<1>2. out[b] = "whole"
  BY <1>1 DEF Fetched
<1>3. Is(<<d, ".json">>) = "whole" /\ Is(<<d, ".yaml">>) = "whole"
  BY <1>1, <1>2 DEF CacheInv, PinnedInv, ContractCall, ContractDoc
<1>4. ContractHit(c)
  BY <1>1, <1>3, NothingIsNone DEF ContractHit, Stays, Answered
<1>5. ImageContract(c)
  BY <1>1, Apartness DEF Step, KubeFile, HttpChart, ImageAnswer
<1>6. CASE Hit(c, IF Is(<<at[c], ".json">>) = "none" THEN "absent" ELSE Is(<<at[c], ".yaml">>))
  <2>1. Answer(c, "whole")
    BY <1>1, <1>3, <1>6 DEF Hit
  <2> QED BY <1>1, <1>2, <2>1, SingleAnswer
<1> QED BY <1>1, <1>4, <1>5, <1>6 DEF ImageContract, Ask, On

LEMMA LaterSchema ==
  ASSUME CacheInv, NEW b \in job.calls, NEW c \in job.calls, b.doc = c.doc, b.doc \in Schema,
         Fetched(b), Step(c), Finds(c)
  PROVE  out'[c] = out[b]
<1> DEFINE d == c.doc
<1>1. /\ at[c] = d /\ TypeOK /\ d \in Kube /\ d \in Schema /\ d \notin Discovery /\ pc[c] \in {"lookup", "load"}
      /\ at[b] \in Kube /\ d # ApiV1 /\ d # AggV2
  BY DocumentsAssumption DEF CacheInv, CoreInv, TypeOK, CallsOK, Finds, Kube, Discovery
<1>2. KubeCall(b) /\ KubeDoc(d)
  BY <1>1 DEF CacheInv, PinnedInv
<1>3. Slot(d) \in Path /\ <<d, ".absent">> \in Path
  BY <1>1, PathsAre
<1>4. \/ out[b] = "whole" /\ Is(Slot(d)) = "whole"
      \/ out[b] = "absent" /\ Is(Slot(d)) = None /\ Is(<<d, ".absent">>) # None /\ d # Core
  BY <1>1, <1>2, <1>3, ContentIs DEF Fetched, KubeCall, KubeDoc
<1>5. KubeFile(c)
  BY <1>1, Apartness DEF Step, ImageContract, HttpChart, ImageAnswer
<1>6. "whole" # None /\ KubeHit(c)
  BY <1>1, <1>4, NothingIsNone DEF KubeHit, Answered
<1>7. CASE Hit(c, IF Is(Slot(at[c])) # None THEN Is(Slot(at[c])) ELSE "absent")
  <2>1. Answer(c, out[b])
    BY <1>1, <1>4, <1>6, <1>7 DEF Hit
  <2> QED BY <1>1, <1>4, <2>1, AnswerEffect
<1> QED BY <1>1, <1>5, <1>6, <1>7 DEF KubeFile, Ask, Mark, On

LEMMA LaterDiscovery ==
  ASSUME CacheInv, NEW b \in job.calls, NEW c \in job.calls, b.doc = c.doc, b.doc \in Discovery, Fetched(b), Step(c), Finds(c),
         out[c] = None
  PROVE  out'[c] = out[b] \/ (out'[c] = None /\ Finds(c)')
<1>1. /\ TypeOK /\ c.doc = ApiV1 /\ c.doc \in Discovery /\ c.doc \notin Schema
      /\ {ApiV1, AggV2, AggBeta} \subseteq Kube /\ ApiV1 # AggV2 /\ ApiV1 # AggBeta /\ AggV2 # AggBeta /\ Core \notin Discovery
  BY CallIs, DocumentsAssumption DEF CacheInv, CoreInv, Kube, Discovery
<1>2. at[b] \in Discovery /\ at[c] \in Discovery /\ at[c] \in Kube
  BY <1>1 DEF TypeOK, CallsOK, Kube, Discovery
<1>3. out[b] = "whole" /\ KubeCall(b)
  BY <1>1, <1>2 DEF Fetched, CacheInv, PinnedInv, Kube
<1>4. /\ Is(Slot(ApiV1)) = "whole"
      /\ at[b] \in {AggV2, AggBeta} /\ Is(Slot(at[b])) = "whole"
  <2>1. at[b] # ApiV1 /\ disk[Slot(ApiV1)] # None /\ disk[Slot(at[b])] # None /\ at[b] \in {AggV2, AggBeta}
    BY <1>1, <1>2, <1>3 DEF KubeCall, Discovery
  <2>2. Slot(ApiV1) \in Path /\ Slot(at[b]) \in Path /\ KubeDoc(ApiV1) /\ KubeDoc(at[b])
    BY <1>1, <2>1, PathsAre DEF CacheInv, PinnedInv
  <2> QED BY <1>1, <2>1, <2>2, ContentIs DEF KubeDoc
<1>5. KubeFile(c) /\ KubeKept
  BY <1>2, Apartness, KubeFileKeeps, <1>1 DEF Step, ImageContract, HttpChart, ImageAnswer, CacheInv
<1>6. "whole" # None /\ "failed" # None /\ Slot(AggBeta) \in Path /\ Slot(AggV2) \in Path
  BY <1>1, PathsAre, NothingIsNone DEF Answered
<1>7. ASSUME disk[Slot(AggBeta)] # None PROVE disk'[Slot(AggBeta)] # None
  BY <1>1, <1>5, <1>7 DEF KubeKept
<1>8. ASSUME NEW e \in {AggV2, AggBeta}, at[b] = e PROVE disk[Slot(e)] # None
  BY <1>4, <1>6, <1>8 DEF Is
<1>9. CASE at[c] = ApiV1
  <2>1. pc[c] = "lookup" /\ KubeHit(c)
    BY <1>1, <1>4, <1>6, <1>9 DEF Finds, KubeHit
  <2>2. Answer(c, "whole")
    BY <1>4, <1>5, <1>6, <1>9, <2>1 DEF KubeFile, Ask, Mark, On, Hit
  <2> QED BY <1>1, <1>9, <2>2, AnswerEffect DEF Finds
<1>10. CASE at[c] = AggBeta
  <2>1. pc[c] = "lookup" /\ disk[Slot(AggBeta)] # None
    BY <1>1, <1>10 DEF Finds
  <2>2. Is(Slot(AggBeta)) = "whole"
    BY <1>1, <1>6, <2>1, ContentIs DEF CacheInv, PinnedInv, KubeDoc
  <2>3. Answer(c, "whole")
    BY <1>5, <1>6, <1>10, <2>1, <2>2 DEF KubeFile, Ask, Mark, On, Hit, KubeHit
  <2> QED BY <1>1, <1>3, <1>10, <2>3, AnswerEffect
<1>11. CASE at[c] = AggV2
  <2>1. pc[c] = "lookup" \/ disk[Slot(AggBeta)] # None
    BY <1>1, <1>11 DEF Finds
  <2>2. CASE Is(Slot(AggV2)) = "whole" /\ pc[c] = "lookup"
    <3>1. Answer(c, "whole")
      BY <1>5, <1>6, <1>11, <2>2 DEF KubeFile, Ask, Mark, On, Hit, KubeHit
    <3> QED BY <1>1, <1>3, <1>11, <3>1, AnswerEffect
  <2>3. CASE disk[Slot(AggBeta)] # None
    <3>1. disk'[Slot(AggBeta)] # None
      BY <1>7, <2>3
    <3>2. ASSUME NEW a \in {"failed", "absent", "whole"}, Answer(c, a)
          PROVE  out'[c] = out[b] \/ (out'[c] = None /\ Finds(c)')
      BY <1>1, <1>3, <1>11, <3>1, <3>2, AnswerEffect DEF Finds
    <3>3. ASSUME NEW l, Goto(c, l)
          PROVE  out'[c] = None /\ Finds(c)'
      BY <1>1, <1>11, <3>1, <3>3, GotoEffect DEF Finds
    <3>4. Is(Slot(AggV2)) \in {None, "whole"}
      BY <1>1 DEF CacheInv, PinnedInv, KubeDoc
    <3>5. AggV2 # Core /\ AggV2 \notin Schema
      BY <1>1, DocumentsAssumption DEF Discovery
    <3> QED BY <1>5, <1>11, <3>2, <3>3, <3>4, <3>5 DEF KubeFile, Miss, Ask, Mark, Hit, NotFound
  <2> QED BY <1>4, <1>6, <1>8, <2>1, <2>2, <2>3
<1> QED BY <1>2, <1>9, <1>10, <1>11 DEF Discovery

LEMMA StepStays ==
  ASSUME CacheInv, CacheInv', StaysInv, NEW c \in job.calls, Step(c)
  PROVE  StaysInv'
<1>1. /\ Alone(c) /\ UNCHANGED <<job, state>> /\ state[c.run] = "on" /\ pc[c] # "done" /\ KubeKept
      /\ AggBeta \in Kube /\ c.run \in Run
  BY StepFrame, StepIsOn, KubeFileKeeps, CallIs DEF CacheInv, CoreInv, Kube, Discovery
<1>2. disk[Slot(AggBeta)] # None => disk'[Slot(AggBeta)] # None
  BY <1>1 DEF KubeKept
<1> SUFFICES ASSUME NEW a \in job.calls, NEW b \in job.calls,
                    a.doc = b.doc, a.doc \in Pinned \ Image, a.run < b.run, ~job.together, Fetched(a)'
             PROVE  out'[b] = out[a]' \/ (out'[b] = None /\ Finds(b)')
  BY <1>1 DEF StaysInv
<1>3. a.run \in Run /\ b.run \in Run /\ b.doc \in Doc /\ a.run # b.run
  <2>1. a.run \in Run /\ b.run \in Run /\ b.doc \in Doc
    BY CallIs DEF CacheInv, CoreInv
  <2>2. a.run \in Nat /\ b.run \in Nat
    BY <2>1, DocumentsAssumption
  <2> QED BY <2>1, <2>2
<1>4. CASE a = c
  <2>1. state[b.run] = "idle"
    <3>1. state[b.run] # "idle" => state[a.run] \in {"ended", "killed"}
      BY <1>3 DEF CacheInv, SerialInv
    <3> QED BY <1>1, <1>4, <3>1
  <2>2. pc[b] = "lookup" /\ at[b] = b.doc /\ b # c
    BY <1>3, <1>4, <2>1 DEF CacheInv, SerialInv
  <2>3. pc'[b] = "lookup" /\ at'[b] = b.doc /\ out'[b] = out[b] /\ out[b] = None
    BY <1>1, <2>2 DEF Alone, CacheInv, CoreInv, TypeOK, CallsOK
  <2>4. b.doc \in Discovery => b.doc = ApiV1
    BY CallIs DEF CacheInv, CoreInv
  <2> QED BY <2>3, <2>4, DocumentsAssumption DEF Finds
<1>5. CASE b = c
  <2>1. a # c /\ out'[a] = out[a] /\ Fetched(a)
    BY <1>1, <1>3, <1>5 DEF Alone, Fetched
  <2>2. out[c] = None /\ Finds(c)
    <3>1. out[c] = None
      BY <1>1, ChartLabel DEF CacheInv, CoreInv
    <3>2. out[a] # None
      <4>1. "whole" # None /\ "absent" # None
        BY NothingIsNone DEF Answered
      <4> QED BY <2>1, <4>1 DEF Fetched
    <3> QED BY <1>5, <2>1, <3>1, <3>2 DEF StaysInv
  <2>3. CASE b.doc \in Chart
    BY <1>5, <2>1, <2>2, <2>3, LaterChart
  <2>4. CASE b.doc \in Contract
    BY <1>5, <2>1, <2>2, <2>4, LaterContract
  <2>5. CASE b.doc \in Schema
    BY <1>5, <2>1, <2>2, <2>5, LaterSchema
  <2>6. CASE b.doc \in Discovery
    BY <1>5, <2>1, <2>2, <2>6, LaterDiscovery
  <2> QED BY <1>3, <2>3, <2>4, <2>5, <2>6 DEF Doc, Kube
<1>6. CASE a # c /\ b # c
  <2>1. Fetched(a) /\ out'[a] = out[a] /\ out'[b] = out[b] /\ pc'[b] = pc[b] /\ at'[b] = at[b]
    BY <1>1, <1>6 DEF Alone, Fetched
  <2> QED BY <1>2, <2>1 DEF StaysInv, Finds
<1> QED BY <1>4, <1>5, <1>6

LEMMA InitCache == Init => CacheInv /\ StaysInv
<1>1. ASSUME Init PROVE StaysInv
  <2>1. "whole" # None /\ "absent" # None
    BY NothingIsNone DEF Answered
  <2> QED BY <1>1, <2>1 DEF Init, StaysInv, Fetched
<1> QED BY <1>1, InitCore, InitSerial, InitPinned DEF CacheInv

LEMMA NextStays ==
  ASSUME Apart, CacheInv, StaysInv, [Next]_vars
  PROVE  CacheInv' /\ StaysInv'
<1>1. CacheInv'
  BY NextCache
<1>2. CASE \E c \in job.calls : Step(c)
  BY <1>1, <1>2, StepStays
<1>3. CASE (\E r \in Run : Start(r) \/ Finish(r)) \/ Publish \/ UNCHANGED vars
  <2>1. UNCHANGED <<job, disk, pc, at, out>>
    BY <1>3 DEF Start, Finish, Publish, vars
  <2> QED BY <1>1, <2>1 DEF StaysInv, Fetched, Finds
<1> QED BY <1>2, <1>3 DEF Next

(* What is known of every document that never changes, if the calls of a   *)
(* run are apart.                                                          *)
THEOREM CacheIsKept == ASSUME Apart PROVE Spec => [](CacheInv /\ StaysInv)
<1>1. CacheInv /\ StaysInv /\ [Next]_vars => CacheInv' /\ StaysInv'
  BY NextStays
<1>2. Init => CacheInv /\ StaysInv
  BY InitCache
<1> QED BY <1>1, <1>2, PTL DEF Spec

(* The contract of an image named by digest is whole or not there: the     *)
(* json that says it is there is written when the yaml has been.           *)
THEOREM ContractsCorrect == ASSUME Apart PROVE Spec => []ContractsAreWhole
<1>1. CacheInv => ContractsAreWhole
  <2> SUFFICES ASSUME CacheInv, NEW c \in job.calls, c.doc \in Contract \cap Pinned PROVE out[c] # "part"
    BY DEF ContractsAreWhole
  <2>1. at[c] = c.doc
    BY DocumentsAssumption DEF CacheInv, CoreInv, TypeOK, CallsOK, Kube, Discovery
  <2>2. out[c] \in {None, "failed", "absent", "whole"}
    BY <2>1 DEF CacheInv, PinnedInv, ContractCall
  <2> QED BY <2>2, NoneAssumption DEF Content
<1> QED BY <1>1, CacheIsKept, PTL

(* A tree with schemas has those the release publishes, each whole, and    *)
(* lacks the others: a mark of absence is only made when the core document *)
(* of the release has been seen.                                           *)
THEOREM SchemasCorrect == ASSUME Apart PROVE Spec => []SchemasAreTheReleases
<1>1. CacheInv => SchemasAreTheReleases
  <2> SUFFICES ASSUME CacheInv, NEW r \in Run, Schemas(r) # None, NEW s \in Schemas(r)
               PROVE  s[2] = IF s[1] \in served THEN "whole" ELSE "absent"
    BY DEF SchemasAreTheReleases
  <2> DEFINE cs == {c \in job.calls : c.run = r /\ c.doc \in Schema}
  <2>1. state[r] = "ended" /\ (\A c \in cs : out[c] # "failed") /\ Schemas(r) = {<<c.doc, out[c]>> : c \in cs}
    BY DEF Schemas
  <2>2. PICK c \in cs : s = <<c.doc, out[c]>>
    BY <2>1
  <2>3. pc[c] = "done" /\ out[c] # None /\ c.doc \in Schema /\ out[c] # "failed"
    BY <2>1, <2>2 DEF CacheInv, SerialInv, CoreInv, TypeOK, CallsOK
  <2>4. at[c] \in Kube /\ c.doc \in Kube
    BY <2>3, DocumentsAssumption DEF CacheInv, CoreInv, TypeOK, CallsOK, Kube, Discovery
  <2>5. KubeCall(c) /\ KubeDoc(c.doc)
    BY <2>4 DEF CacheInv, PinnedInv
  <2> QED BY <2>2, <2>3, <2>5 DEF KubeCall, KubeDoc
<1> QED BY <1>1, CacheIsKept, PTL

(* What a run fetched of what never changes every later one finds, offline *)
(* or not, whatever was killed in between and could not be written; and    *)
(* that a release has no such document, where the disk does not run full.  *)
THEOREM FetchedStays == ASSUME Apart PROVE Spec => []WhatWasFetchedStays
<1>1. StaysInv => WhatWasFetchedStays
  BY DEF StaysInv, WhatWasFetchedStays, Fetched
<1> QED BY <1>1, CacheIsKept, PTL
=============================================================================
