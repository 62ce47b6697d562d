-------------------------- MODULE Bootstrap_proofs --------------------------
(***************************************************************************)
(* What lint.Run may say of a repository, proved of every repository and   *)
(* of every bootstrap of it.  The argument runs over sets of events: the   *)
(* events that have happened are closed under hard predecessors, and the   *)
(* ones that have not, when nothing can go on, are closed under none.      *)
(***************************************************************************)
EXTENDS Bootstrap, TLAPS

-----------------------------------------------------------------------------
(* The edges, one target at a time.                                        *)
LEMMA EventsAreDistinct ==
  \A c, d \in Comp : /\ Start(c) # Ready(d)
                     /\ Start(c) = Start(d) => c = d
                     /\ Ready(c) = Ready(d) => c = d
                     /\ Start(c) \in Event /\ Ready(c) \in Event
  BY DEF Start, Ready, Event

LEMMA HappenedIs ==
  ASSUME NEW c \in Comp, applied \in SUBSET Comp, ready \in SUBSET Comp
  PROVE  /\ Start(c) \in Happened <=> c \in applied
         /\ Ready(c) \in Happened <=> c \in ready
         /\ Happened \subseteq Event
  BY EventsAreDistinct DEF Happened

LEMMA DeclaredIntoStart ==
  ASSUME NEW r \in Repo, NEW c \in Comp, NEW a, <<a, Start(c)>> \in Declared(r)
  PROVE  \/ r.parent[c] \in Comp /\ a = Start(r.parent[c])
         \/ \E d \in Comp : d \in r.dependsOn[c] /\ a = Ready(d)
  BY EventsAreDistinct DEF Declared, Children, Dependencies

LEMMA DeclaredIntoReady ==
  ASSUME NEW r \in Repo, NEW c \in Comp, NEW a, <<a, Ready(c)>> \in Declared(r)
  PROVE  \/ a = Start(c)
         \/ \E k \in Comp : r.parent[k] = c /\ c \in r.wait /\ a = Ready(k)
  BY EventsAreDistinct DEF Declared, Children, Dependencies

LEMMA DeclaredHas ==
  ASSUME NEW r \in Repo, NEW c \in Comp
  PROVE  /\ <<Start(c), Ready(c)>> \in Declared(r)
         /\ r.parent[c] \in Comp => <<Start(r.parent[c]), Start(c)>> \in Declared(r)
         /\ r.parent[c] \in Comp /\ r.parent[c] \in r.wait =>
              <<Ready(c), Ready(r.parent[c])>> \in Declared(r)
         /\ \A d \in Comp : d \in r.dependsOn[c] => <<Ready(d), Start(c)>> \in Declared(r)
  <1>1. r.parent[c] \in Comp => c \in Children(r)
    BY DEF Children
  <1>2. \A d \in Comp : d \in r.dependsOn[c] => <<Ready(d), Start(c)>> \in Declared(r)
    <2> SUFFICES ASSUME NEW d \in Comp, d \in r.dependsOn[c]
                 PROVE  <<Ready(d), Start(c)>> \in Declared(r)
      OBVIOUS
    <2> DEFINE cd == <<c, d>>
    <2>1. cd \in Dependencies(r)
      BY DEF Dependencies
    <2>2. <<Ready(cd[2]), Start(cd[1])>> \in Declared(r)
      BY <2>1 DEF Declared
    <2> QED BY <2>2
  <1>3. <<Start(c), Ready(c)>> \in Declared(r)
    BY DEF Declared
  <1>4. r.parent[c] \in Comp => <<Start(r.parent[c]), Start(c)>> \in Declared(r)
    BY <1>1 DEF Declared
  <1>5. r.parent[c] \in Comp /\ r.parent[c] \in r.wait =>
          <<Ready(c), Ready(r.parent[c])>> \in Declared(r)
    BY <1>1 DEF Declared
  <1> QED BY <1>2, <1>3, <1>4, <1>5

LEMMA DeclaredAreEvents ==
  ASSUME NEW r \in Repo, NEW ab \in Declared(r)
  PROVE  ab[1] \in Event /\ ab[2] \in Event /\ ab = <<ab[1], ab[2]>>
  BY EventsAreDistinct DEF Declared, Children, Dependencies

LEMMA NeedTypes ==
  ASSUME NEW r \in Repo, NEW n \in r.needs
  PROVE  /\ n.kind \in Kind /\ n.consumer \in Comp /\ n.provs \in SUBSET Comp
         /\ n.first \in n.provs \/ (n.provs = {} /\ n.first = NoComp)
         /\ n.kind = "source" => n.consumer \notin n.provs
  <1>1. n \in Need BY DEF Repo, RepoType
  <1> QED BY <1>1 DEF Need, Repo

LEMMA RepoTypes ==
  ASSUME NEW r \in Repo
  PROVE  /\ r.parent \in [Comp -> Comp \cup {NoComp}]
         /\ r.helm \in SUBSET Comp /\ r.wait \in SUBSET Comp /\ r.health \in SUBSET Comp
         /\ r.checks \in SUBSET (Comp \X Comp)
         /\ r.dependsOn \in [Comp -> SUBSET (Comp \cup {Absent})]
         /\ \A pc \in r.checks : r.parent[pc[2]] = pc[1]
  BY DEF Repo, RepoType

LEMMA KeptTypes ==
  ASSUME NEW r \in Repo, NEW n \in Kept(r)
  PROVE  /\ n \in r.needs /\ n.kind \in Kind /\ n.consumer \in Comp
         /\ n.provs \in SUBSET Comp /\ n.first \in n.provs /\ n.first \in Comp
         /\ n.consumer \notin n.provs
  <1>1. n \in r.needs /\ n.provs # {} /\ ~Dropped(r, n) BY DEF Kept
  <1>2. Within(r, n.consumer, n.consumer) BY DEF Within
  <1>3. n.consumer \notin n.provs BY <1>1, <1>2 DEF Dropped
  <1> QED BY <1>1, <1>3, NeedTypes

-----------------------------------------------------------------------------
(* Causality: what happens, happens after its hard predecessors.           *)
LEMMA HardIntoStart ==
  ASSUME repo \in Repo, applied \in SUBSET Comp, ready \in SUBSET Comp,
         NEW c \in Comp, Attempted(c), Accepted(c),
         NEW a, <<a, Start(c)>> \in Hard(repo)
  PROVE  a \in Happened
  <1>1. CASE <<a, Start(c)>> \in Declared(repo)
    BY <1>1, DeclaredIntoStart, HappenedIs DEF Attempted
  <1>2. CASE \E n \in HardNeeds(repo) : <<a, Start(c)>> = <<NeedFrom(n), NeedTo(repo, n)>>
    <2>1. PICK n \in HardNeeds(repo) : a = NeedFrom(n) /\ Start(c) = NeedTo(repo, n)
      BY <1>2
    <2>2. n \in Kept(repo) /\ n.provs = {n.first} /\ n.kind \in {"namespace", "source", "runtime"}
      BY DEF HardNeeds
    <2>3. n \in repo.needs /\ n.consumer \in Comp /\ n.first \in Comp /\ n.consumer \notin n.provs
      BY <2>2, KeptTypes
    <2>4. n.consumer = c /\ BlocksApply(n)
      BY <2>1, <2>2, <2>3, EventsAreDistinct DEF NeedTo, BlocksApply
    <2>5. n.first \in applied
      BY <2>2, <2>3, <2>4 DEF Accepted, Met
    <2>6. a = Start(n.first)
      BY <2>1, <2>2 DEF NeedFrom
    <2> QED BY <2>3, <2>5, <2>6, HappenedIs
  <1> QED BY <1>1, <1>2 DEF Hard

LEMMA HardIntoReady ==
  ASSUME repo \in Repo, applied \in SUBSET Comp, ready \in SUBSET Comp,
         NEW c \in applied, Healthy(c),
         NEW a, <<a, Ready(c)>> \in Hard(repo)
  PROVE  a \in Happened
  <1>1. CASE <<a, Ready(c)>> \in Declared(repo)
    BY <1>1, DeclaredIntoReady, HappenedIs DEF Healthy
  <1>2. CASE \E n \in HardNeeds(repo) : <<a, Ready(c)>> = <<NeedFrom(n), NeedTo(repo, n)>>
    <2>1. PICK n \in HardNeeds(repo) : a = NeedFrom(n) /\ Ready(c) = NeedTo(repo, n)
      BY <1>2
    <2>2. /\ n \in Kept(repo) /\ n.provs = {n.first} /\ n.kind \in {"namespace", "source", "runtime"}
          /\ n.kind = "runtime" => BlocksOnHealth(repo, n.consumer)
      BY DEF HardNeeds
    <2>3. n \in repo.needs /\ n.consumer \in Comp /\ n.first \in Comp /\ n.consumer \notin n.provs
      BY <2>2, KeptTypes
    <2>4. n.consumer = c /\ BlocksReady(n)
      BY <2>1, <2>2, <2>3, EventsAreDistinct DEF NeedTo, BlocksReady
    <2>5. n.first \in applied
      BY <2>2, <2>3, <2>4 DEF Healthy, Met
    <2>6. a = Start(n.first)
      BY <2>1, <2>2 DEF NeedFrom
    <2> QED BY <2>3, <2>5, <2>6, HappenedIs
  <1> QED BY <1>1, <1>2 DEF Hard

LEMMA HardAreEvents ==
  ASSUME NEW r \in Repo, NEW ab \in Hard(r)
  PROVE  \E a, b \in Event : ab = <<a, b>>
  <1>1. CASE ab \in Declared(r)
    BY <1>1, DeclaredAreEvents
  <1>2. CASE \E n \in HardNeeds(r) : ab = <<NeedFrom(n), NeedTo(r, n)>>
    <2>1. PICK n \in HardNeeds(r) : ab = <<NeedFrom(n), NeedTo(r, n)>> BY <1>2
    <2>2. n.consumer \in Comp /\ n.first \in Comp BY KeptTypes DEF HardNeeds
    <2> QED BY <2>1, <2>2, EventsAreDistinct DEF NeedFrom, NeedTo
  <1> QED BY <1>1, <1>2 DEF Hard

-----------------------------------------------------------------------------
(* What holds of the cluster in every state.                               *)
Causal ==
  /\ repo \in Repo /\ findings = Findings(repo)
  /\ applied \in SUBSET Comp /\ established \in SUBSET applied
  /\ ready \in SUBSET applied /\ failed \in SUBSET Comp
  /\ \A c \in applied : repo.parent[c] \in Comp => repo.parent[c] \in applied
  /\ \A c \in ready : InstallsLate(c) => c \in established
  /\ \A ab \in Hard(repo) : ab[2] \in Happened => ab[1] \in Happened

LEMMA CausalInit == Init => Causal
  BY ReposAssumption DEF Init, Causal, Happened

LEMMA HappenedApply ==
  ASSUME NEW c \in Comp, Apply(c)
  PROVE  Happened' = Happened \cup {Start(c)}
  BY DEF Apply, Happened, Start, Ready

LEMMA HappenedReady ==
  ASSUME NEW c \in Comp, BecomeReady(c)
  PROVE  Happened' = Happened \cup {Ready(c)}
  BY DEF BecomeReady, Happened, Start, Ready

LEMMA CausalStep == Causal /\ [Next]_vars => Causal'
  <1> SUFFICES ASSUME Causal, [Next]_vars PROVE Causal'
    OBVIOUS
  <1> USE DEF Causal
  <1>1. ASSUME NEW c \in Comp, Apply(c) PROVE Causal'
    <2>1. /\ repo' = repo /\ findings' = findings /\ established' = established
          /\ ready' = ready /\ failed' = failed /\ applied' = applied \cup {c}
      BY <1>1 DEF Apply
    <2>2. \A d \in applied' : repo'.parent[d] \in Comp => repo'.parent[d] \in applied'
      BY <1>1, <2>1 DEF Apply, Attempted
    <2>3. \A d \in ready' : InstallsLate(d)' => d \in established'
      BY <2>1 DEF InstallsLate
    <2>4. \A ab \in Hard(repo) : ab[2] \in Happened' => ab[1] \in Happened'
      <3> SUFFICES ASSUME NEW ab \in Hard(repo), ab[2] \in Happened' PROVE ab[1] \in Happened'
        OBVIOUS
      <3>1. ab[2] \in Happened \/ ab[2] = Start(c) BY <1>1, HappenedApply
      <3>2. PICK a, b \in Event : ab = <<a, b>> BY HardAreEvents
      <3>3. b = Start(c) => a \in Happened BY <1>1, <3>2, HardIntoStart DEF Apply
      <3> QED BY <1>1, <3>1, <3>2, <3>3, HappenedApply
    <2> QED BY <1>1, <2>1, <2>2, <2>3, <2>4 DEF Hard
  <1>2. ASSUME NEW c \in Comp, FailApply(c) PROVE Causal'
    BY <1>2 DEF FailApply, Happened, InstallsLate, Hard
  <1>3. ASSUME NEW c \in Comp, Establish(c) PROVE Causal'
    BY <1>3 DEF Establish, Happened, InstallsLate, Hard
  <1>4. ASSUME NEW c \in Comp, BecomeReady(c) PROVE Causal'
    <2>1. /\ repo' = repo /\ findings' = findings /\ established' = established
          /\ ready' = ready \cup {c} /\ failed' = failed /\ applied' = applied /\ c \in applied
      BY <1>4 DEF BecomeReady
    <2>3. \A d \in ready' : InstallsLate(d)' => d \in established'
      BY <1>4, <2>1 DEF InstallsLate, BecomeReady
    <2>4. \A ab \in Hard(repo) : ab[2] \in Happened' => ab[1] \in Happened'
      <3> SUFFICES ASSUME NEW ab \in Hard(repo), ab[2] \in Happened' PROVE ab[1] \in Happened'
        OBVIOUS
      <3>1. ab[2] \in Happened \/ ab[2] = Ready(c) BY <1>4, HappenedReady
      <3>2. PICK a, b \in Event : ab = <<a, b>> BY HardAreEvents
      <3>3. b = Ready(c) => a \in Happened BY <1>4, <3>2, HardIntoReady DEF BecomeReady
      <3> QED BY <1>4, <3>1, <3>2, <3>3, HappenedReady
    <2> QED BY <2>1, <2>3, <2>4 DEF Hard
  <1>5. CASE UNCHANGED vars
    BY <1>5 DEF vars, Happened, InstallsLate, Hard
  <1> QED BY <1>1, <1>2, <1>3, <1>4, <1>5 DEF Next

LEMMA Causality == Spec => []Causal
  BY CausalInit, CausalStep, PTL DEF Spec

(* Type correctness of the bootstrap machine.                              *)
THEOREM TypeCorrect == Spec => []TypeOK
  <1>1. \A r : Dangling(r) \in BOOLEAN /\ Unresolved(r) \in BOOLEAN
    BY DEF Dangling, Unresolved
  <1>2. \A r : Deadlocked(r) \in BOOLEAN /\ Unordered(r) \in BOOLEAN
    BY DEF Deadlocked, Cyclic, Unordered
  <1>3. \A r : Findings(r) \in [{"dangling", "unresolved", "deadlocked", "unordered"} -> BOOLEAN]
    BY <1>1, <1>2 DEF Findings
  <1>4. Causal => TypeOK
    BY <1>3 DEF Causal, TypeOK
  <1> QED BY <1>4, Causality, PTL

(* In every bootstrap of every repository, the tail of a declared edge     *)
(* happens before its head.                                                *)
THEOREM DeclaredEdgesCorrect == Spec => []DeclaredEdgesHold
  <1>1. Causal => DeclaredEdgesHold
    BY DEF Causal, DeclaredEdgesHold, Hard
  <1> QED BY <1>1, Causality, PTL

-----------------------------------------------------------------------------
(* A cycle of hard edges: none of its events can be the first to happen.   *)
LEMMA DeadlockStep == Causal /\ CycleIsDeadlock /\ [Next]_vars => CycleIsDeadlock'
  <1> SUFFICES ASSUME Causal, CycleIsDeadlock, [Next]_vars PROVE CycleIsDeadlock'
    OBVIOUS
  <1>0. repo' = repo
    BY DEF Next, Apply, FailApply, Establish, BecomeReady, vars
  <1>1. SUFFICES ASSUME NEW S \in SUBSET Event, S # {}, Blocked(Hard(repo), S)
                 PROVE  S \cap Happened' = {}
    BY <1>0 DEF CycleIsDeadlock
  <1>2. S \cap Happened = {}
    BY <1>1 DEF CycleIsDeadlock
  <1>3. ASSUME NEW e \in S, \A a : <<a, e>> \in Hard(repo) => a \in Happened PROVE FALSE
    BY <1>1, <1>2, <1>3 DEF Blocked
  <1>4. ASSUME NEW c \in Comp, Apply(c) PROVE S \cap Happened' = {}
    <2>1. \A a : <<a, Start(c)>> \in Hard(repo) => a \in Happened
      BY <1>4, HardIntoStart DEF Apply, Causal
    <2> QED BY <1>2, <1>3, <1>4, <2>1, HappenedApply
  <1>5. ASSUME NEW c \in Comp, BecomeReady(c) PROVE S \cap Happened' = {}
    <2>1. \A a : <<a, Ready(c)>> \in Hard(repo) => a \in Happened
      BY <1>5, HardIntoReady DEF BecomeReady, Causal
    <2> QED BY <1>2, <1>3, <1>5, <2>1, HappenedReady
  <1>6. ASSUME applied' = applied, ready' = ready PROVE S \cap Happened' = {}
    BY <1>2, <1>6 DEF Happened
  <1> QED BY <1>4, <1>5, <1>6 DEF Next, FailApply, Establish, vars

(* FL-G002 is no false alarm: the events of a cycle of hard edges never    *)
(* happen, in any bootstrap of any repository.                             *)
THEOREM DeadlockCorrect == Spec => []CycleIsDeadlock
  <1>1. Init => CycleIsDeadlock
    BY DEF Init, CycleIsDeadlock, Happened
  <1>2. Causal /\ CycleIsDeadlock /\ [Next]_vars => CycleIsDeadlock'
    BY DeadlockStep
  <1> QED BY <1>1, <1>2, Causality, PTL DEF Spec

-----------------------------------------------------------------------------
(* The other half: when nothing can go on, what has not happened is a set  *)
(* of events none of which can be first.                                   *)
LEMMA FullHas ==
  ASSUME NEW r \in Repo
  PROVE  /\ Declared(r) \subseteq Full(r)
         /\ \A n \in Kept(r) : Matters(r, n) => <<NeedFrom(n), NeedTo(r, n)>> \in Full(r)
  BY DEF Full

(* No declared path leads from what has not happened to an event whose     *)
(* declared predecessors have: what is outside Happened is closed under    *)
(* successors.                                                             *)
LEMMA HappenedBlocksReach ==
  ASSUME Causal, NEW e \in Event, \A x : <<x, e>> \in Declared(repo) => x \in Happened,
         NEW a \in Event \ Happened, a # e
  PROVE  ~Reachable(Declared(repo), a, e)
  <1> DEFINE H == Happened \cup {e}
             S == Event \ H
  <1>r. repo \in Repo
    BY DEF Causal
  <1>1. ASSUME NEW ab \in Declared(repo), ab[2] \in H PROVE ab[1] \in H
    <2>1. CASE ab[2] = e
      BY <1>r, <2>1, DeclaredAreEvents
    <2>2. CASE ab[2] \in Happened
      BY <2>2 DEF Causal, Hard
    <2> QED BY <1>1, <2>1, <2>2
  <1>2. Closed(Declared(repo), S)
    BY <1>r, <1>1, DeclaredAreEvents DEF Closed
  <1>3. ASSUME NEW x \in Event, <<a, x>> \in Declared(repo) PROVE x \in S
    <2> DEFINE ab == <<a, x>>
    <2>1. ab \in Declared(repo) /\ ab[1] = a /\ ab[2] = x
      BY <1>3
    <2>2. ab[1] \notin H
      BY <2>1
    <2>3. ab[2] \notin H
      BY <1>1, <2>1, <2>2
    <2> QED BY <2>1, <2>3
  <1>4. S \in SUBSET Event /\ e \notin S
    OBVIOUS
  <1> HIDE DEF S
  <1> QED BY <1>2, <1>3, <1>4 DEF Reachable

(* A component that may be applied, and one whose children are ready if it *)
(* waits for them, have only declared predecessors that have happened.     *)
LEMMA AttemptedIsNext ==
  ASSUME Causal, NEW c \in Comp, Attempted(c), NEW x, <<x, Start(c)>> \in Declared(repo)
  PROVE  x \in Happened
  <1>1. repo \in Repo /\ applied \in SUBSET Comp /\ ready \in SUBSET Comp
    BY DEF Causal
  <1> QED BY <1>1, DeclaredIntoStart, HappenedIs DEF Attempted

LEMMA WaitedIsNext ==
  ASSUME Causal, NEW c \in applied, NEW x, <<x, Ready(c)>> \in Declared(repo),
         \A k \in Comp : c \in repo.wait /\ repo.parent[k] = c => k \in ready
  PROVE  x \in Happened
  <1>1. repo \in Repo /\ applied \in SUBSET Comp /\ ready \in SUBSET Comp /\ c \in Comp
    BY DEF Causal
  <1> QED BY <1>1, DeclaredIntoReady, HappenedIs

(* An unmet import that Flux would have met by construction is one of a    *)
(* component whose parent is not there yet.                                *)
LEMMA UnmetIsLeft ==
  ASSUME Causal, NEW n \in repo.needs, ~Met(n), n.provs # {}, n.kind # "lateCRD",
         repo.parent[n.consumer] \in Comp => repo.parent[n.consumer] \in applied
  PROVE  ~Dropped(repo, n) /\ n.provs \cap applied = {}
  <1>1. n.consumer \in Comp /\ n.provs \in SUBSET Comp
    BY NeedTypes DEF Causal
  <1>2. n.consumer \notin n.provs /\ n.provs \cap applied = {}
    BY DEF Met
  <1>3. SUFFICES ASSUME NEW p \in n.provs, Within(repo, n.consumer, p) PROVE FALSE
    BY <1>2 DEF Dropped
  <1> DEFINE S == applied \cup {n.consumer}
  <1>4. S \in SUBSET Comp /\ \A x \in S : repo.parent[x] \in Comp => repo.parent[x] \in S
    BY <1>1 DEF Causal
  <1>5. p \in S
    BY <1>3, <1>4 DEF Within
  <1> QED BY <1>2, <1>5

(* If its source is repeated, declared edges order it, from an event that  *)
(* has not happened.                                                       *)
LEMMA RepeatedIsOrdered ==
  ASSUME Causal, SourcesSeen(repo), NEW n \in repo.repeated, ~Met(n), ~Dropped(repo, n),
         n.provs # {}
  PROVE  /\ n.kind = "source" /\ n.consumer \in Comp /\ NeedFrom(n) \in Event \ Happened
         /\ NeedFrom(n) # NeedTo(repo, n)
         /\ Reachable(Declared(repo), NeedFrom(n), NeedTo(repo, n))
  <1>1. repo \in Repo /\ n \in repo.needs /\ n.kind = "source"
    BY DEF Causal, Repo, SameSource
  <1>2. n.consumer \in Comp /\ n.first \in n.provs /\ n.first \in Comp /\ n.consumer \notin n.provs
    BY <1>1, NeedTypes
  <1>3. NeedFrom(n) = Start(n.first) /\ n.first \notin applied
    BY <1>1, <1>2 DEF Met, NeedFrom
  <1>4. NeedFrom(n) \in Event \ Happened
    BY <1>2, <1>3, HappenedIs, EventsAreDistinct DEF Causal
  <1>5. NeedFrom(n) # NeedTo(repo, n)
    BY <1>1, <1>2, <1>3, EventsAreDistinct DEF NeedTo
  <1>6. Reachable(Declared(repo), NeedFrom(n), NeedTo(repo, n))
    BY DEF SourcesSeen
  <1> QED BY <1>1, <1>2, <1>4, <1>5, <1>6

(* An import that is kept is an edge from an event that has not happened.  *)
LEMMA UnmetIsBlocked ==
  ASSUME Causal, NEW n \in Kept(repo), ~Met(n), Matters(repo, n),
         n.kind = "lateCRD" => InstallsLate(n.first)
  PROVE  <<NeedFrom(n), NeedTo(repo, n)>> \in Full(repo) /\ NeedFrom(n) \in Event \ Happened
  <1>1. n.first \in n.provs /\ n.first \in Comp
    BY KeptTypes DEF Causal
  <1>2. n.kind \notin {"crd", "lateCRD"} => n.first \notin applied
    BY <1>1 DEF Met
  <1>3. n.kind = "crd" => n.first \notin ready
    BY <1>1 DEF Met, Causal
  <1>4. n.kind = "lateCRD" => n.first \notin ready
    BY <1>1 DEF Met, Causal
  <1>5. NeedFrom(n) \in Event \ Happened
    BY <1>1, <1>2, <1>3, <1>4, HappenedIs, EventsAreDistinct DEF NeedFrom, Causal
  <1> QED BY <1>5, FullHas DEF Causal

LEMMA StuckIsBlocked ==
  ASSUME Causal, ~Dangling(repo), ~Unresolved(repo),
         HealthChecksWait(repo), LateNeedsKept(repo), SourcesSeen(repo), ~Progress
  PROVE  Blocked(Full(repo), Event \ Happened)
  <1> DEFINE U == Event \ Happened
  <1>r. repo \in Repo /\ applied \in SUBSET Comp /\ ready \in SUBSET Comp
    BY DEF Causal
  <1>f. Declared(repo) \subseteq Full(repo)
    BY <1>r, FullHas
  <1>t. /\ repo.parent \in [Comp -> Comp \cup {NoComp}]
        /\ repo.dependsOn \in [Comp -> SUBSET (Comp \cup {Absent})]
    BY <1>r, RepoTypes
  <1>l. \A n \in Kept(repo) : n.kind = "lateCRD" => InstallsLate(n.first)
    BY <1>r, KeptTypes DEF InstallsLate
  <1>1. ASSUME NEW c \in Comp, c \notin applied
        PROVE  \E a \in U : <<a, Start(c)>> \in Full(repo)
    <2>1. CASE repo.parent[c] \in Comp /\ repo.parent[c] \notin applied
      BY <2>1, <1>r, <1>f, DeclaredHas, HappenedIs, EventsAreDistinct
    <2>2. CASE ~(repo.dependsOn[c] \subseteq ready)
      <3>1. PICK d \in Comp : d \in repo.dependsOn[c] /\ d \notin ready
        BY <2>2, <1>t DEF Dangling
      <3> QED BY <3>1, <1>r, <1>f, DeclaredHas, HappenedIs, EventsAreDistinct
    <2>3. CASE Attempted(c)
      <3>1. ~Accepted(c)
        BY <2>3 DEF Progress
      <3>2. PICK n \in repo.needs : n.consumer = c /\ BlocksApply(n) /\ ~Met(n)
        BY <3>1 DEF Accepted
      <3>3. n.provs # {}
        BY <3>2 DEF Dangling, BlocksApply
      <3>4. ~Dropped(repo, n)
        <4>1. CASE n.kind = "lateCRD"
          BY <4>1 DEF LateNeedsKept
        <4>2. CASE n.kind # "lateCRD"
          BY <3>2, <3>3, <2>3, <4>2, UnmetIsLeft DEF Attempted
        <4> QED BY <4>1, <4>2
      <3>5. Matters(repo, n) /\ NeedTo(repo, n) = Start(c)
        BY <3>2 DEF Matters, NeedTo, BlocksApply
      <3>6. n \notin repo.repeated
        <4> SUFFICES ASSUME n \in repo.repeated PROVE FALSE
          OBVIOUS
        <4>1. NeedFrom(n) \in Event \ Happened /\ NeedFrom(n) # Start(c)
              /\ Reachable(Declared(repo), NeedFrom(n), Start(c))
          BY <3>2, <3>3, <3>4, <3>5, RepeatedIsOrdered
        <4> QED BY <4>1, <2>3, AttemptedIsNext, HappenedBlocksReach, EventsAreDistinct
      <3>7. n \in Kept(repo)
        BY <3>3, <3>4, <3>6 DEF Kept
      <3> QED BY <3>2, <3>5, <3>7, <1>l, UnmetIsBlocked
    <2> QED BY <1>1, <2>1, <2>2, <2>3 DEF Attempted
  <1>2. ASSUME NEW c \in Comp, c \notin ready
        PROVE  \E a \in U : <<a, Ready(c)>> \in Full(repo)
    <2>1. CASE c \notin applied
      BY <2>1, <1>r, <1>f, DeclaredHas, HappenedIs, EventsAreDistinct
    <2>2. CASE c \in applied
      <3>1. ~Healthy(c)
        BY <2>2, <1>2 DEF Progress
      <3>2. CASE \E k \in Comp : c \in repo.wait /\ repo.parent[k] = c /\ k \notin ready
        BY <3>2, <1>r, <1>f, DeclaredHas, HappenedIs, EventsAreDistinct
      <3>3. CASE \E k \in Comp : <<c, k>> \in repo.checks /\ k \notin ready
        <4>1. PICK k \in Comp : <<c, k>> \in repo.checks /\ k \notin ready
          BY <3>3
        <4> DEFINE pc == <<c, k>>
        <4>2. pc \in repo.checks /\ pc[1] = c /\ pc[2] = k
          BY <4>1
        <4>3. repo.parent[pc[2]] = pc[1] /\ pc[1] \in repo.wait
          BY <4>2, <1>r, RepoTypes DEF HealthChecksWait
        <4>4. repo.parent[k] = c /\ c \in repo.wait
          BY <4>2, <4>3
        <4> QED BY <4>1, <4>4, <3>2
      <3>4. CASE \E n \in repo.needs : n.consumer = c /\ BlocksReady(n) /\ ~Met(n)
        <4>1. PICK n \in repo.needs : n.consumer = c /\ BlocksReady(n) /\ ~Met(n)
          BY <3>4
        <4>2. n.provs # {} /\ n.kind # "lateCRD"
          BY <4>1 DEF Dangling, Unresolved, BlocksReady
        <4>3. ~Dropped(repo, n)
          BY <4>1, <4>2, <2>2, UnmetIsLeft DEF Causal
        <4>4. Matters(repo, n) /\ NeedTo(repo, n) = Ready(c)
          BY <4>1 DEF Matters, NeedTo, BlocksReady
        <4>5. CASE n \notin repo.repeated
          <5>1. n \in Kept(repo)
            BY <4>2, <4>3, <4>5 DEF Kept
          <5> QED BY <4>1, <4>2, <4>4, <5>1, UnmetIsBlocked
        <4>6. CASE n \in repo.repeated
          <5>1. NeedFrom(n) \in Event \ Happened /\ NeedFrom(n) # Ready(c)
                /\ Reachable(Declared(repo), NeedFrom(n), Ready(c))
            BY <4>1, <4>2, <4>3, <4>4, <4>6, RepeatedIsOrdered
          <5>2. ~\A x : <<x, Ready(c)>> \in Declared(repo) => x \in Happened
            BY <5>1, HappenedBlocksReach, EventsAreDistinct
          <5>3. \E k \in Comp : c \in repo.wait /\ repo.parent[k] = c /\ k \notin ready
            BY <5>2, <2>2, WaitedIsNext
          <5> QED BY <5>3, <3>2
        <4> QED BY <4>5, <4>6
      <3> QED BY <3>1, <3>2, <3>3, <3>4 DEF Healthy
    <2> QED BY <2>1, <2>2
  <1>3. \A e \in U : \E c \in Comp : (e = Start(c) /\ c \notin applied) \/ (e = Ready(c) /\ c \notin ready)
    <2> SUFFICES ASSUME NEW e \in U
                 PROVE  \E c \in Comp : (e = Start(c) /\ c \notin applied) \/ (e = Ready(c) /\ c \notin ready)
      OBVIOUS
    <2>1. PICK c \in Comp : e = Start(c) \/ e = Ready(c)
      BY DEF Event, Start, Ready
    <2> QED BY <2>1, <1>r, HappenedIs
  <1> QED BY <1>1, <1>2, <1>3 DEF Blocked

(* The bootstrap theorem: a repository without a missing reference and     *)
(* without a cycle never comes to a state, short of convergence, in which  *)
(* no controller can go on, for every repository whose healthChecks on     *)
(* children come with wait, whose run-time CRDs are not needed below their *)
(* provider, and whose sources, where two siblings are built from one, are *)
(* ordered before the one that index.go passes over.                       *)
THEOREM NeverStuckCorrect == Spec => []NeverStuck
  <1>1. Causal => NeverStuck
    <2> SUFFICES ASSUME Causal, Clean, HealthChecksWait(repo), LateNeedsKept(repo),
                        SourcesSeen(repo), ~Converged, ~Progress
                 PROVE  FALSE
      BY DEF NeverStuck
    <2>1. ~Dangling(repo) /\ ~Unresolved(repo) /\ ~Cyclic(Full(repo))
      BY DEF Clean, Causal, Findings, Deadlocked
    <2>2. Blocked(Full(repo), Event \ Happened)
      BY <2>1, StuckIsBlocked
    <2>3. PICK c \in Comp : c \notin ready
      BY DEF Converged, Causal
    <2>4. Ready(c) \in Event \ Happened
      BY <2>3, HappenedIs, EventsAreDistinct DEF Causal
    <2> QED BY <2>1, <2>2, <2>4 DEF Cyclic
  <1> QED BY <1>1, Causality, PTL

-----------------------------------------------------------------------------
(* Reachability, as the least set closed under the edges.                  *)
LEMMA ReachesBackIsCyclic ==
  ASSUME NEW E, NEW a \in Event, NEW b \in Event, Reachable(E, a, b), <<b, a>> \in E,
         \A ab \in E : ab[2] \in Event /\ ab = <<ab[1], ab[2]>>
  PROVE  Cyclic(E)
  <1> DEFINE R == {x \in Event : Reachable(E, a, x)}
             B == R \cup {a}
  <1>1. ASSUME NEW x \in R PROVE \E y \in B : <<y, x>> \in E
    <2> SUFFICES ASSUME \A y \in B : <<y, x>> \notin E PROVE FALSE
      OBVIOUS
    <2> DEFINE S == R \ {x}
    <2>1. S \in SUBSET Event /\ x \notin S /\ Reachable(E, a, x)
      OBVIOUS
    <2>2. ASSUME NEW y \in Event, <<a, y>> \in E PROVE y \in S
      BY <2>2 DEF Reachable
    <2>3. ASSUME NEW ab \in E, ab[1] \in S PROVE ab[2] \in S
      <3>1. ab[1] \in R /\ Reachable(E, a, ab[1])
        BY <2>3
      <3>2. ab[2] # x
        BY <3>1
      <3>3. ab[2] \in Event /\ Reachable(E, a, ab[2])
        BY <3>1 DEF Reachable, Closed
      <3> QED BY <3>2, <3>3
    <2>4. Closed(E, S)
      BY <2>3 DEF Closed
    <2> HIDE DEF S
    <2> QED BY <2>1, <2>2, <2>4 DEF Reachable
  <1>2. b \in B /\ <<b, a>> \in E
    OBVIOUS
  <1>3. Blocked(E, B)
    BY <1>1, <1>2 DEF Blocked
  <1> QED BY <1>3 DEF Cyclic

LEMMA FullAreEvents ==
  ASSUME NEW r \in Repo, NEW ab \in Full(r)
  PROVE  ab[2] \in Event /\ ab = <<ab[1], ab[2]>>
  <1>1. CASE ab \in Declared(r)
    BY <1>1, DeclaredAreEvents
  <1>2. CASE \E n \in Kept(r) : ab = <<NeedFrom(n), NeedTo(r, n)>>
    <2>1. PICK n \in Kept(r) : ab = <<NeedFrom(n), NeedTo(r, n)>> BY <1>2
    <2>2. n.consumer \in Comp BY KeptTypes
    <2> QED BY <2>1, <2>2, EventsAreDistinct DEF NeedTo
  <1> QED BY <1>1, <1>2 DEF Full

(* Where FL-T006 is silent, whatever may be applied is accepted.           *)
LEMMA OrderedIsAccepted ==
  ASSUME Causal, NEW c \in Comp, Attempted(c), ~Dangling(repo), ~Cyclic(Full(repo)),
         ~Unordered(repo), LateNeedsKept(repo), SourcesSeen(repo)
  PROVE  Accepted(c)
  <1>r. repo \in Repo
    BY DEF Causal
  <1>1. SUFFICES ASSUME NEW n \in repo.needs, n.consumer = c, BlocksApply(n), ~Met(n) PROVE FALSE
    BY DEF Accepted
  <1>2. n.provs # {}
    BY <1>1 DEF Dangling, BlocksApply
  <1>n. ~Dropped(repo, n)
    <2>1. CASE n.kind = "lateCRD"
      BY <2>1 DEF LateNeedsKept
    <2>2. CASE n.kind # "lateCRD"
      BY <1>1, <1>2, <2>2, UnmetIsLeft DEF Attempted
    <2> QED BY <2>1, <2>2
  <1>4. Matters(repo, n) /\ n.kind # "runtime" /\ NeedTo(repo, n) = Start(c)
    BY <1>1 DEF Matters, NeedTo, BlocksApply
  <1>o. \A a \in Event \ Happened : a # Start(c) => ~Reachable(Declared(repo), a, Start(c))
    BY AttemptedIsNext, HappenedBlocksReach, EventsAreDistinct
  <1>3. n \in Kept(repo)
    <2>1. n \notin repo.repeated
      BY <1>1, <1>2, <1>n, <1>4, <1>o, RepeatedIsOrdered
    <2> QED BY <1>2, <1>n, <2>1 DEF Kept
  <1>5. n.first \in Comp /\ n.first \in n.provs /\ n.consumer \notin n.provs
    BY <1>3, <1>r, KeptTypes
  <1>6. n.kind = "lateCRD" => InstallsLate(n.first)
    BY <1>1, <1>5 DEF InstallsLate
  <1>7. <<NeedFrom(n), Start(c)>> \in Full(repo) /\ NeedFrom(n) \in Event \ Happened
    BY <1>1, <1>3, <1>4, <1>6, UnmetIsBlocked
  <1>8. NeedFrom(n) # Start(c)
    BY <1>1, <1>5, EventsAreDistinct DEF NeedFrom
  <1>9. ~Reachable(Declared(repo), NeedFrom(n), Start(c))
    BY <1>7, <1>8, <1>o
  <1>10. Reachable(Declared(repo), Start(c), NeedFrom(n))
    BY <1>3, <1>4, <1>9 DEF Unordered
  <1>11. Reachable(Full(repo), Start(c), NeedFrom(n))
    BY <1>10, <1>r, FullHas DEF Reachable, Closed
  <1>12. Cyclic(Full(repo))
    BY <1>7, <1>11, <1>r, FullAreEvents, EventsAreDistinct, ReachesBackIsCyclic
  <1> QED BY <1>12

(* FL-T006 reports every import left to retries: where it is silent, no    *)
(* bootstrap has an apply rejected, under the same two conditions on       *)
(* run-time CRDs and on sources.                                           *)
THEOREM NoFailedApplyCorrect == Spec => []NoFailedApply
  <1>1. Init => NoFailedApply
    BY DEF Init, NoFailedApply
  <1>2. Causal /\ NoFailedApply /\ [Next]_vars => NoFailedApply'
    <2> SUFFICES ASSUME Causal, NoFailedApply, [Next]_vars, Clean', ~(findings.unordered)',
                        LateNeedsKept(repo)', SourcesSeen(repo)'
                 PROVE  failed' = {}
      BY DEF NoFailedApply
    <2>1. repo' = repo /\ findings' = findings
      BY DEF Next, Apply, FailApply, Establish, BecomeReady, vars
    <2>2. ~Dangling(repo) /\ ~Cyclic(Full(repo)) /\ ~Unordered(repo) /\ failed = {}
          /\ LateNeedsKept(repo) /\ SourcesSeen(repo)
      BY <2>1 DEF Clean, Causal, Findings, Deadlocked, NoFailedApply, LateNeedsKept, SourcesSeen
    <2>3. ASSUME NEW c \in Comp, FailApply(c) PROVE FALSE
      BY <2>2, <2>3, OrderedIsAccepted DEF FailApply
    <2> QED BY <2>2, <2>3 DEF Next, Apply, Establish, BecomeReady, vars
  <1> QED BY <1>1, <1>2, Causality, PTL DEF Spec
=============================================================================
