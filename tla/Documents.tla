----------------------------- MODULE Documents -----------------------------
(***************************************************************************)
(* The single documents that pkg/source keeps in the cache directory, as   *)
(* files: packaged charts of HTTP repositories (httpChart), OpenAPI and    *)
(* discovery documents of a Kubernetes release (kubeFile), contracts       *)
(* attached to images (imageContract) and what registries said about       *)
(* images (image); and what pkg/render makes of the answers.               *)
(*                                                                         *)
(* A path has a file or none.  A file is what is open and what is in it:   *)
(* writing goes to the file that was opened, whatever name it has by then. *)
(***************************************************************************)
EXTENDS Naturals, FiniteSets

CONSTANTS
  Chart, Schema, Contract, Image,   \* documents
  Core,                             \* api__v1_openapi.json \in Schema
  ApiV1, AggV2, AggBeta,            \* of KubeAPIVersions
  Pinned,          \* documents that never change
  Run,             \* 1 .. n
  Jobs,            \* what all runs ask for: [calls, releases, modes, together, full]
  Faults,          \* subset of {"kill", "refuse"}
  None

Discovery == {ApiV1, AggV2, AggBeta}
Kube      == Schema \cup Discovery
Doc       == Chart \cup Kube \cup Contract \cup Image
Call      == UNION {j.calls : j \in Jobs}     \* [run, doc, id]

(* Each kind has a directory of its own; who asks for the APIs of a        *)
(* release starts with the core group.                                     *)
ASSUME DocumentsAssumption ==
  /\ Core \in Schema /\ Kube \subseteq Pinned /\ Run \subseteq Nat
  /\ Chart \cap (Kube \cup Contract \cup Image) = {} /\ Kube \cap (Contract \cup Image) = {}
  /\ Contract \cap Image = {} /\ Schema \cap Discovery = {}
  /\ ApiV1 \notin {AggV2, AggBeta} /\ AggV2 # AggBeta
  /\ \A j \in Jobs :
       /\ \A c \in j.calls : c.run \in Run /\ c.doc \in Doc /\ (c.doc \in Discovery => c.doc = ApiV1)
       /\ j.modes \subseteq {"online", "refresh", "offline"}
       /\ j.full \in BOOLEAN     \* the disk may be full at any write

Slot(d)     == <<d, "">>
FaultTemp(c) == <<c.doc, ".tmp">>   \* one name for all
Temp(c)     == <<c, "fetch-">>      \* os.CreateTemp: one for each call
Path        ==
  (Chart \X {"", ".json"}) \cup (Kube \X {"", ".tmp", ".absent"}) \cup (Contract \X {".yaml", ".json"})
  \cup (Image \X {""}) \cup {Temp(c) : c \in Call}

Content == {"part", "whole", "none"}
File    == Call \X Path     \* who made it, and where
ASSUME NoneAssumption ==
  None \notin Content \cup {"failed", "absent"} \cup File \cup [file : File, is : Content]

VARIABLES
  job, mode,
  release, served,  \* what is published one day; what remotes have now
  state,            \* run -> idle, on, ended or killed
  disk,             \* path -> None or [file, is]: part, whole, or none (no contract)
  pc, at, fd, out   \* of a call: at is the document it is about just now

vars   == <<job, mode, release, served, state, disk, pc, at, fd, out>>
remote == <<job, mode, release, served, state>>

Init ==
  /\ job \in Jobs /\ mode \in [Run -> job.modes]
  /\ release \in job.releases /\ served \in {{}, release}
  /\ state = [r \in Run |-> "idle"]
  /\ disk = [p \in Path |-> None]
  /\ pc  = [c \in job.calls |-> "lookup"]
  /\ at  = [c \in job.calls |-> c.doc]
  /\ fd  = [c \in job.calls |-> None]
  /\ out = [c \in job.calls |-> None]

-----------------------------------------------------------------------------
On(c, l)   == state[c.run] = "on" /\ pc[c] = l
Goto(c, l) == pc' = [pc EXCEPT ![c] = l] /\ UNCHANGED <<at, out>>
Is(p)      == IF disk[p] = None THEN None ELSE disk[p].is

Return(c, a) ==
  /\ pc' = [pc EXCEPT ![c] = "done"] /\ out' = [out EXCEPT ![c] = a] /\ UNCHANGED at
Turn(c, d, l) ==
  /\ pc' = [pc EXCEPT ![c] = l] /\ at' = [at EXCEPT ![c] = d] /\ UNCHANGED out

(* An answer about at[c] is the caller's, unless kubeFile had asked for    *)
(* the core document to make sense of a 404, or KubeAPIVersions goes on to *)
(* the groups, of which it takes the first of two documents that is there. *)
Answer(c, a) ==
  LET bad == a \in {"failed", "absent"} IN
  IF at[c] = Core /\ c.doc # Core /\ ~bad THEN Turn(c, c.doc, "mark")
  ELSE IF at[c] = ApiV1 /\ ~bad THEN Turn(c, AggV2, "lookup")
  ELSE IF at[c] = AggV2 /\ bad THEN Turn(c, AggBeta, "lookup")
  ELSE Return(c, IF at[c] \in Discovery /\ bad THEN "failed" ELSE a)

(* Steps that the handlers share.                                          *)
Hit(c, a)  == Answer(c, a) /\ UNCHANGED <<disk, fd>>
Miss(c)    ==
  /\ IF mode[c.run] = "offline" THEN Answer(c, "failed") ELSE Goto(c, "ask")
  /\ UNCHANGED <<disk, fd>>
Ask(c) ==        \* the host is down, refuses, or answers
  /\ On(c, "ask") /\ UNCHANGED <<disk, fd>>
  /\ \/ "refuse" \in Faults /\ Answer(c, "failed")
     \/ Goto(c, IF at[c] \in served THEN "open" ELSE "absent")

Truncate(c, p) ==
  LET file == IF disk[p] = None THEN <<c, p>> ELSE disk[p].file IN
  /\ disk' = [disk EXCEPT ![p] = [file |-> file, is |-> "part"]]
  /\ fd' = [fd EXCEPT ![c] = file]
Write(c, what) ==
  /\ disk' = [p \in Path |-> IF disk[p] # None /\ disk[p].file = fd[c] THEN [disk[p] EXCEPT !.is = what]
                                                                      ELSE disk[p]]
  /\ fd' = [fd EXCEPT ![c] = None]
WriteFails(c) == job.full /\ fd' = [fd EXCEPT ![c] = None]
Rename(c, p) ==
  disk[p] # None /\ disk' = [disk EXCEPT ![Slot(at[c])] = disk[p], ![p] = None] /\ UNCHANGED fd

Stays(c) == c.doc \in Pinned \/ mode[c.run] # "refresh"

-----------------------------------------------------------------------------
(* httpChart, and the Helm loader that opens what it names.                *)
ChartHit(c) == Stays(c) /\ Is(<<at[c], ".json">>) = "whole" /\ Is(Slot(at[c])) # None

HttpChart(c) ==
  /\ at[c] \in Chart
  /\ \/ On(c, "lookup") /\ ChartHit(c) /\ Goto(c, "load") /\ UNCHANGED <<disk, fd>>
     \/ On(c, "lookup") /\ ~ChartHit(c) /\ Miss(c)
     \/ Ask(c)
     \/ On(c, "absent") /\ Return(c, "absent") /\ UNCHANGED <<disk, fd>>
     \/ On(c, "open") /\ Truncate(c, Temp(c)) /\ Goto(c, "fill")
     \/ On(c, "fill") /\ Write(c, "whole") /\ Goto(c, "rename")
     \/ /\ On(c, "fill") /\ WriteFails(c) /\ Return(c, "failed")
        /\ disk' = [disk EXCEPT ![Temp(c)] = None]
     \/ On(c, "rename") /\ Rename(c, Temp(c)) /\ Goto(c, "json")
     \/ On(c, "json") /\ Truncate(c, <<at[c], ".json">>) /\ Goto(c, "meta")
     \/ On(c, "meta") /\ Write(c, "whole") /\ Goto(c, "load")
     \/ On(c, "meta") /\ WriteFails(c) /\ Return(c, "failed") /\ UNCHANGED disk
     \/ On(c, "load") /\ Return(c, Is(Slot(at[c]))) /\ UNCHANGED <<disk, fd>>

(* kubeFile.  A 404 means something only if the release has a core         *)
(* document; discovery documents are taken to be absent at once.  Whether  *)
(* the mark of an absent document could be written is not looked at.       *)
KubeHit(c)  == Is(Slot(at[c])) # None \/ Is(<<at[c], ".absent">>) # None
FaultNotFound(c) ==
  IF at[c] = Core THEN Answer(c, "failed") ELSE Goto(c, "mark")
NotFound(c) ==
  IF at[c] = Core THEN Answer(c, "failed")
  ELSE IF at[c] \in Schema THEN Turn(c, Core, "lookup") ELSE Goto(c, "mark")
FaultMark(c) == On(c, "mark") /\ Hit(c, "absent")
Mark(c) ==
  /\ On(c, "mark") /\ Answer(c, "absent") /\ UNCHANGED fd
  /\ \/ LET p == <<at[c], ".absent">> IN disk' = [disk EXCEPT ![p] = [file |-> <<c, p>>, is |-> "whole"]]
     \/ job.full /\ UNCHANGED disk

KubeFile(c) ==
  LET tmp == <<at[c], ".tmp">> IN
  /\ at[c] \in Kube
  /\ \/ On(c, "lookup") /\ KubeHit(c) /\ Hit(c, IF Is(Slot(at[c])) # None THEN Is(Slot(at[c])) ELSE "absent")
     \/ On(c, "lookup") /\ ~KubeHit(c) /\ Miss(c)
     \/ Ask(c)
     \/ On(c, "absent") /\ NotFound(c) /\ UNCHANGED <<disk, fd>>
     \/ Mark(c)
     \/ On(c, "open") /\ Truncate(c, tmp) /\ Goto(c, "fill")
     \/ On(c, "fill") /\ Write(c, "whole") /\ Goto(c, "rename")
     \/ On(c, "fill") /\ WriteFails(c) /\ Answer(c, "failed") /\ UNCHANGED disk
     \/ /\ On(c, "rename")
        /\ IF disk[tmp] = None THEN Hit(c, "failed") ELSE Rename(c, tmp) /\ Answer(c, "whole")

(* imageContract: the contract, then the meta file that says there is one. *)
FaultContractHit(c) == Stays(c) /\ Is(<<at[c], ".yaml">>) # None
ContractHit(c) ==
  /\ Stays(c)
  /\ \/ Is(<<at[c], ".json">>) = "none"
     \/ Is(<<at[c], ".json">>) = "whole" /\ Is(<<at[c], ".yaml">>) # None

ImageContract(c) ==
  LET found == at[c] \in served IN
  /\ at[c] \in Contract
  /\ \/ /\ On(c, "lookup") /\ ContractHit(c)
        /\ Hit(c, IF Is(<<at[c], ".json">>) = "none" THEN "absent" ELSE Is(<<at[c], ".yaml">>))
     \/ On(c, "lookup") /\ ~ContractHit(c) /\ Miss(c)
     \/ Ask(c)
     \/ On(c, "absent") /\ Goto(c, "json") /\ UNCHANGED <<disk, fd>>
     \/ On(c, "open") /\ Truncate(c, <<at[c], ".yaml">>) /\ Goto(c, "fill")
     \/ On(c, "fill") /\ Write(c, "whole") /\ Goto(c, "json")
     \/ On(c, "json") /\ Truncate(c, <<at[c], ".json">>) /\ Goto(c, "meta")
     \/ /\ On(c, "meta")
        /\ Write(c, IF found THEN "whole" ELSE "none") /\ Return(c, IF found THEN "whole" ELSE "absent")
     \/ pc[c] \in {"fill", "meta"} /\ On(c, pc[c]) /\ WriteFails(c) /\ Return(c, "failed") /\ UNCHANGED disk

(* image: what is missing is asked for again; failing to remember is no    *)
(* failure.                                                                *)
ImageAnswer(c) ==
  LET hit == Stays(c) /\ Is(Slot(at[c])) = "whole" IN
  /\ at[c] \in Image
  /\ \/ On(c, "lookup") /\ hit /\ Hit(c, "whole")
     \/ On(c, "lookup") /\ ~hit /\ Miss(c)
     \/ Ask(c)
     \/ On(c, "absent") /\ Return(c, "absent") /\ UNCHANGED <<disk, fd>>
     \/ On(c, "open") /\ Truncate(c, Slot(at[c])) /\ Goto(c, "fill")
     \/ On(c, "fill") /\ Write(c, "whole") /\ Return(c, "whole")
     \/ On(c, "fill") /\ WriteFails(c) /\ Return(c, "whole") /\ UNCHANGED disk

Step(c) ==
  /\ HttpChart(c) \/ KubeFile(c) \/ ImageContract(c) \/ ImageAnswer(c)
  /\ UNCHANGED remote

-----------------------------------------------------------------------------
Start(r) ==
  /\ state[r] = "idle" /\ \E c \in job.calls : c.run = r
  /\ \A q \in Run : q < r => state[q] \notin (IF job.together THEN {"idle"} ELSE {"idle", "on"})
  /\ state' = [state EXCEPT ![r] = "on"]
  /\ UNCHANGED <<job, mode, release, served, disk, pc, at, fd, out>>

Finish(r) ==
  /\ state[r] = "on"
  /\ state' = [state EXCEPT ![r] = IF \A c \in job.calls : c.run = r => pc[c] = "done" THEN "ended" ELSE "killed"]
  /\ state'[r] = "killed" => "kill" \in Faults
  /\ UNCHANGED <<job, mode, release, served, disk, pc, at, fd, out>>

Publish ==   \* not while somebody looks
  /\ served # release /\ served' = release /\ "on" \notin {state[r] : r \in Run}
  /\ UNCHANGED <<job, mode, release, state, disk, pc, at, fd, out>>

Next == (\E c \in job.calls : Step(c)) \/ (\E r \in Run : Start(r) \/ Finish(r)) \/ Publish

Spec == Init /\ [][Next]_vars
-----------------------------------------------------------------------------
(* Documents that a call may fetch.  Two calls of a run have none of those *)
(* that never change in common, and processes that share a cache directory *)
(* at the same time ask for charts only: what happens otherwise is         *)
(* UnservedIsNotFound.                                                     *)
Opens(c, rel) ==
  {c.doc} \cup (IF c.doc \in Schema \ rel THEN {Core} ELSE {})
          \cup (IF c.doc \in Discovery THEN Discovery ELSE {})
Apart ==
  \A j \in Jobs : \A c, d \in j.calls, rel \in j.releases :
    /\ j.together => c.doc \in Chart
    /\ ~j.together /\ c.run = d.run /\ c # d => Opens(c, rel) \cap Opens(d, rel) \cap Pinned = {}

(* What loadKubeSchemas gives a tree: all schemas, or none.                *)
Schemas(r) ==
  LET cs == {c \in job.calls : c.run = r /\ c.doc \in Schema} IN
  IF state[r] # "ended" \/ \E c \in cs : out[c] = "failed" THEN None
  ELSE {<<c.doc, out[c]>> : c \in cs}

(* A chart is loaded whole, also when other processes fetch it into the    *)
(* same cache directory and some are killed.                               *)
ChartsAreWhole == \A c \in job.calls : c.doc \in Chart => out[c] # "part"

(* The contract of an image named by digest is never taken to be what a    *)
(* run that was killed, or could not write, had written of it.             *)
ContractsAreWhole == \A c \in job.calls : c.doc \in Contract \cap Pinned => out[c] # "part"

(* A tree with schemas has every one of them as the release publishes it,  *)
(* and lacks those it does not serve: whatever failed, was killed, or was  *)
(* asked for before the release was there.                                 *)
SchemasAreTheReleases ==
  \A r \in Run : Schemas(r) # None =>
    \A s \in Schemas(r) : s[2] = IF s[1] \in served THEN "whole" ELSE "absent"

(* A document that never changes, once fetched, is there for every later   *)
(* run, offline ones included, and whether or not the disk runs full; so   *)
(* is, where it does not, that a release has no such document.             *)
WhatWasFetchedStays ==
  \A b, c \in job.calls :
    /\ b.doc = c.doc /\ b.doc \in Pinned \ Image /\ b.run < c.run /\ ~job.together
    /\ out[b] = "whole" \/ (out[b] = "absent" /\ b.doc \in Schema /\ ~job.full)
    => out[c] \in {None, out[b]}

(* "A release that does not serve the group and version gives ErrNotFound" *)
(* (pkg/source/openapi.go:53).                                             *)
UnservedIsNotFound ==
  \A c \in job.calls :
    On(c, "done") /\ c.doc \in Schema \ served /\ served # {} => out[c] = "absent"
=============================================================================
