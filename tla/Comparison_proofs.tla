-------------------------- MODULE Comparison_proofs --------------------------
(***************************************************************************)
(* What check --base promises.  First the command, for any entrypoints and *)
(* any outcome of their renders: the invariant says what a goroutine has   *)
(* established when it is at each of its steps; when all are done that is  *)
(* the exit status.  Then what the comparison says of the merge, for any   *)
(* two trees of components and every order in which they can reconcile the *)
(* head: SpecsFirst, where it is assumed, rules some orders out.           *)
(***************************************************************************)
EXTENDS Check, Transition, TLAPS

Bad(e) == world[e].brokenHead \/ (opts.base = "given" /\ world[e].base = "broken")

(* What a result says is new, and everything it says.                      *)
NewOf(rs) == {r.finding : r \in {q \in rs : ~q.existing}}
AllOf(rs) == {r.finding : r \in rs}

AtHead(e) == Run(world[e].head, state)

Accepted ==
  /\ opts.args # {} /\ opts.base # "unknown"
  /\ state # NoState => Cardinality(opts.args) = 1

GivenInv ==
  /\ opts.args \subseteq Entrypoint /\ opts.base \in {"no", "given", "unknown"}
  /\ \A e \in Entrypoint : world[e].brokenHead \in BOOLEAN /\ world[e].base \in {"missing", "broken", "fine"}
  /\ state # NoState => \E c \in Cases : state = c.state

MainInv ==
  /\ main \in {"start", "wait", "returned"}
  /\ main # "returned" => exit = -1
  /\ main = "start" => pc = [e \in Entrypoint |-> "head"] /\ errs = {} /\ base = "none"
  /\ main = "wait" => Accepted /\ base = IF opts.base = "given" THEN "there" ELSE "none"
  /\ errs \subseteq opts.args

(* The goroutine of e, as long as the command waits for it; what it left,  *)
(* for good.                                                               *)
Started(e)  == e \notin errs
Rendered(e) ==
  /\ e \notin errs /\ ~world[e].brokenHead /\ opts.base = "given"
  /\ results[e] = Marked(AtHead(e), FALSE)
Linted(e)   == Rendered(e) /\ world[e].base = "fine" /\ atBase[e] = world[e].before
Ended(e) ==
  /\ e \in errs <=> Bad(e)
  /\ e \notin errs => NewOf(results[e]) = Introduced(e) /\ AtHead(e) \subseteq AllOf(results[e])

GoroutineInv(e) ==
  /\ pc[e] \in {"head", "base", "compare", "done"}
  /\ pc[e] = "head" => Started(e)
  /\ pc[e] = "base" => Rendered(e)
  /\ pc[e] = "compare" => Linted(e)
  /\ pc[e] = "done" => Ended(e)

(* In the trees at hand a parent waits for nothing that waits for it.      *)
GroundedCases == \A c \in Cases : c.state # NoState => Grounded(c.state.tree)

IInv ==
  /\ GivenInv /\ MainInv
  /\ pc \in [Entrypoint -> {"head", "base", "compare", "done"}]
  /\ DOMAIN results = Entrypoint /\ DOMAIN atBase = Entrypoint
  /\ \A e \in opts.args : GoroutineInv(e)
  /\ ExitTellsTheTruth /\ BaseOutlivesItsReaders

-----------------------------------------------------------------------------
(* The parts of the invariant that a step of one goroutine leaves alone.   *)
LEMMA IntroducedStays ==
  ASSUME NEW d, world' = world, opts' = opts, state' = state
  PROVE  Introduced(d)' = Introduced(d) /\ AtHead(d)' = AtHead(d) /\ Bad(d)' = Bad(d)
BY DEF Introduced, AtHead, Bad, Run

LEMMA GoroutineStays ==
  ASSUME NEW d, GoroutineInv(d), world' = world, opts' = opts, state' = state,
         pc'[d] = pc[d], results'[d] = results[d], atBase'[d] = atBase[d], d \in errs' <=> d \in errs
  PROVE  GoroutineInv(d)'
<1>1. Introduced(d)' = Introduced(d) /\ AtHead(d)' = AtHead(d) /\ Bad(d)' = Bad(d)
  BY IntroducedStays
<1>2. Started(d)' = Started(d) /\ Rendered(d)' = Rendered(d) /\ Linted(d)' = Linted(d)
  BY <1>1 DEF Started, Rendered, Linted, Marked
<1>3. NewOf(results[d])' = NewOf(results[d]) /\ AllOf(results[d])' = AllOf(results[d])
  BY DEF NewOf, AllOf
<1>4. Ended(d)' = Ended(d)
  BY <1>1, <1>3 DEF Ended
<1> QED BY <1>2, <1>4 DEF GoroutineInv

(* A list without marks says all that it has is new; what was added        *)
(* without a mark is new too.                                              *)
LEMMA NewOfMarked ==
  ASSUME NEW fs
  PROVE  NewOf(Marked(fs, FALSE)) = fs /\ AllOf(Marked(fs, FALSE)) = fs
<1> DEFINE M == Marked(fs, FALSE)
<1>1. ASSUME NEW q \in M PROVE q.finding \in fs /\ q.existing = FALSE
  <2>1. PICK f \in fs : q = [finding |-> f, existing |-> FALSE]
    BY <1>1 DEF Marked
  <2> QED BY <2>1
<1>2. ASSUME NEW f \in fs PROVE \E q \in M : q.finding = f /\ q.existing = FALSE
  <2>1. [finding |-> f, existing |-> FALSE] \in M
    BY <1>2 DEF Marked
  <2> QED BY <2>1
<1> HIDE DEF M
<1>3. {q \in M : ~q.existing} = M
  BY <1>1
<1>4. {q.finding : q \in M} = fs
  BY <1>1, <1>2
<1>5. NewOf(M) = fs /\ AllOf(M) = fs
  BY <1>3, <1>4 DEF NewOf, AllOf
<1> QED BY <1>5 DEF M

Compared(fs, ts, known) ==
  {[finding |-> r.finding, existing |-> Fingerprint(r.finding) \in known] : r \in Marked(fs, FALSE)}
    \cup Marked(ts, FALSE)

LEMMA NewOfCompared ==
  ASSUME NEW fs, NEW ts, NEW known
  PROVE  /\ NewOf(Compared(fs, ts, known)) = {f \in fs : Fingerprint(f) \notin known} \cup ts
         /\ fs \subseteq AllOf(Compared(fs, ts, known))
<1> DEFINE rs == Compared(fs, ts, known)
<1>1. ASSUME NEW q \in rs
      PROVE  \/ q.finding \in fs /\ q.existing = (Fingerprint(q.finding) \in known)
             \/ q.finding \in ts /\ q.existing = FALSE
  <2>1. CASE q \in Marked(ts, FALSE)
    <3>1. PICK f \in ts : q = [finding |-> f, existing |-> FALSE]
      BY <2>1 DEF Marked
    <3> QED BY <3>1
  <2>2. CASE q \notin Marked(ts, FALSE)
    <3>1. PICK r \in Marked(fs, FALSE) : q = [finding |-> r.finding, existing |-> Fingerprint(r.finding) \in known]
      BY <1>1, <2>2 DEF Compared
    <3>2. PICK f \in fs : r = [finding |-> f, existing |-> FALSE]
      BY DEF Marked
    <3> QED BY <3>1, <3>2
  <2> QED BY <2>1, <2>2
<1>2. ASSUME NEW f \in fs
      PROVE  \E q \in rs : q.finding = f /\ q.existing = (Fingerprint(f) \in known)
  <2> DEFINE r == [finding |-> f, existing |-> FALSE]
  <2>1. r \in Marked(fs, FALSE) /\ r.finding = f
    BY <1>2 DEF Marked
  <2> HIDE DEF r
  <2> DEFINE q == [finding |-> r.finding, existing |-> Fingerprint(r.finding) \in known]
  <2>2. q \in rs
    BY <2>1 DEF Compared
  <2>3. q.finding = f /\ q.existing = (Fingerprint(f) \in known)
    BY <2>1
  <2> QED BY <2>2, <2>3
<1>3. ASSUME NEW f \in ts PROVE \E q \in rs : q.finding = f /\ q.existing = FALSE
  <2> DEFINE q == [finding |-> f, existing |-> FALSE]
  <2>1. q \in rs /\ q.finding = f /\ q.existing = FALSE
    BY <1>3 DEF Marked, Compared
  <2> QED BY <2>1
<1> HIDE DEF rs
<1>4. NewOf(rs) \subseteq {f \in fs : Fingerprint(f) \notin known} \cup ts
  <2> SUFFICES ASSUME NEW q \in rs, ~q.existing
               PROVE  q.finding \in {f \in fs : Fingerprint(f) \notin known} \cup ts
    BY DEF NewOf
  <2> QED BY <1>1
<1>5. {f \in fs : Fingerprint(f) \notin known} \cup ts \subseteq NewOf(rs)
  BY <1>2, <1>3 DEF NewOf
<1>6. fs \subseteq AllOf(rs)
  BY <1>2 DEF AllOf
<1> QED BY <1>4, <1>5, <1>6 DEF rs

-----------------------------------------------------------------------------
LEMMA InitIInv == CheckInit => IInv
<1> SUFFICES ASSUME CheckInit PROVE IInv
  OBVIOUS
<1>1. PICK c \in Cases : world = c.world /\ opts = c.opts /\ state = c.state
  BY DEF CheckInit
<1>2. GivenInv
  BY <1>1, CasesAssumption DEF GivenInv
<1>3. MainInv
  BY DEF CheckInit, MainInv
<1>4. \A e \in opts.args : GoroutineInv(e)
  BY <1>2 DEF GivenInv, CheckInit, GoroutineInv, Started
<1>5. ExitTellsTheTruth /\ BaseOutlivesItsReaders
  BY DEF CheckInit, ExitTellsTheTruth, BaseOutlivesItsReaders
<1> QED BY <1>2, <1>3, <1>4, <1>5 DEF IInv, CheckInit

(* The command refuses or begins: no goroutine has moved.                  *)
LEMMA StartKeeps == IInv /\ Start => IInv'
<1> SUFFICES ASSUME IInv, Start PROVE IInv'
  OBVIOUS
<1>1. world' = world /\ opts' = opts /\ state' = state /\ pc' = pc /\ results' = results
      /\ errs' = errs /\ atBase' = atBase /\ main = "start" /\ base = "none" /\ exit = -1
  BY DEF Start, given, IInv, MainInv
<1>2. GivenInv'
  BY <1>1 DEF IInv, GivenInv
<1>3. \A e \in opts'.args : GoroutineInv(e)'
  BY <1>1, GoroutineStays DEF IInv
<1>4. \/ main' = "returned" /\ exit' = 2 /\ base' = "none" /\ Unanswered
      \/ main' = "wait" /\ exit' = -1 /\ Accepted /\ base' = IF opts.base = "given" THEN "there" ELSE "none"
  BY <1>1 DEF Start, Return, Unanswered, Accepted
<1>5. MainInv'
  BY <1>1, <1>4 DEF IInv, MainInv, Accepted
<1>6. Unanswered' = Unanswered
  BY <1>1 DEF Unanswered
<1>7. ExitTellsTheTruth'
  BY <1>4, <1>6 DEF ExitTellsTheTruth
<1>8. BaseOutlivesItsReaders'
  BY <1>4 DEF BaseOutlivesItsReaders
<1> QED BY <1>1, <1>2, <1>3, <1>5, <1>7, <1>8 DEF IInv

(* What is left to show of a step of one goroutine.                        *)
Steps(e) ==
  /\ main = "wait" /\ e \in opts.args
  /\ UNCHANGED <<given, main, base, exit>>
  /\ errs' \subseteq opts.args /\ errs' \ {e} = errs \ {e}
  /\ \E l \in {"base", "compare", "done"} : pc' = [pc EXCEPT ![e] = l]
  /\ DOMAIN results' = Entrypoint /\ DOMAIN atBase' = Entrypoint
  /\ \A d \in Entrypoint \ {e} : results'[d] = results[d] /\ atBase'[d] = atBase[d]

LEMMA StepKeeps ==
  ASSUME IInv, NEW e \in Entrypoint, Steps(e), GoroutineInv(e)'
  PROVE  IInv'
<1>1. world' = world /\ opts' = opts /\ state' = state /\ main' = main /\ base' = base /\ exit' = exit
      /\ main = "wait" /\ exit = -1
  BY DEF Steps, given, IInv, MainInv
<1>2. GivenInv'
  BY <1>1 DEF IInv, GivenInv
<1>3. MainInv'
  BY <1>1 DEF IInv, MainInv, Accepted, Steps
<1>4. pc' \in [Entrypoint -> {"head", "base", "compare", "done"}]
  BY DEF IInv, Steps
<1>5. ASSUME NEW d \in opts'.args PROVE GoroutineInv(d)'
  <2>1. d \in Entrypoint /\ d \in opts.args /\ GoroutineInv(d)
    BY <1>1, <1>5 DEF IInv, GivenInv
  <2>2. CASE d = e
    BY <2>2
  <2>3. CASE d # e
    <3>1. pc'[d] = pc[d]
      BY <2>1, <2>3 DEF IInv, Steps
    <3>2. results'[d] = results[d] /\ atBase'[d] = atBase[d] /\ (d \in errs' <=> d \in errs)
      BY <2>1, <2>3 DEF Steps
    <3> QED BY <1>1, <2>1, <3>1, <3>2, GoroutineStays
  <2> QED BY <2>2, <2>3
<1>6. ExitTellsTheTruth'
  BY <1>1 DEF ExitTellsTheTruth
<1>7. BaseOutlivesItsReaders'
  BY <1>1 DEF BaseOutlivesItsReaders, IInv, MainInv
<1> QED BY <1>2, <1>3, <1>4, <1>5, <1>6, <1>7 DEF IInv, Steps

LEMMA HeadKeeps == ASSUME IInv, NEW e \in Entrypoint, Head(e) PROVE IInv'
<1>1. world' = world /\ opts' = opts /\ state' = state /\ main = "wait" /\ e \in opts.args
      /\ atBase' = atBase /\ pc[e] = "head" /\ base = IF opts.base = "given" THEN "there" ELSE "none"
  BY DEF Head, Goroutine, given, IInv, MainInv
<1>2. e \notin errs
  BY <1>1 DEF IInv, GoroutineInv, Started
<1>3. Introduced(e)' = Introduced(e) /\ AtHead(e)' = AtHead(e) /\ Bad(e)' = Bad(e)
  BY <1>1, IntroducedStays
<1>4. CASE world[e].brokenHead /\ errs' = errs \cup {e} /\ pc' = [pc EXCEPT ![e] = "done"] /\ results' = results
  <2>1. pc'[e] = "done" /\ e \in errs' /\ Bad(e)'
    BY <1>3, <1>4 DEF IInv, Bad
  <2>2. Ended(e)'
    BY <2>1 DEF Ended
  <2>3. GoroutineInv(e)'
    BY <2>1, <2>2 DEF GoroutineInv
  <2>4. Steps(e)
    BY <1>1, <1>4 DEF Steps, Head, IInv, MainInv
  <2> QED BY <2>3, <2>4, StepKeeps
<1>5. CASE /\ ~world[e].brokenHead /\ errs' = errs
           /\ results' = [results EXCEPT ![e] = Marked(AtHead(e), FALSE)]
           /\ pc' = [pc EXCEPT ![e] = IF base = "there" THEN "base" ELSE "done"]
  <2>1. results'[e] = Marked(AtHead(e), FALSE) /\ e \notin errs'
    BY <1>2, <1>5 DEF IInv
  <2>2. ASSUME opts.base = "given" PROVE GoroutineInv(e)'
    <3>1. pc'[e] = "base" /\ Rendered(e)'
      BY <1>1, <1>3, <1>5, <2>1, <2>2 DEF IInv, Rendered, Marked
    <3> QED BY <3>1 DEF GoroutineInv
  <2>3. ASSUME opts.base # "given" PROVE GoroutineInv(e)'
    <3>1. pc'[e] = "done" /\ ~Bad(e)' /\ Introduced(e) = AtHead(e)
      BY <1>1, <1>3, <1>5, <2>3 DEF IInv, Bad, Introduced, AtHead
    <3>2. NewOf(results'[e]) = AtHead(e) /\ AllOf(results'[e]) = AtHead(e)
      BY <2>1, NewOfMarked
    <3>3. NewOf(results[e])' = NewOf(results'[e]) /\ AllOf(results[e])' = AllOf(results'[e])
      BY DEF NewOf, AllOf
    <3>4. Ended(e)'
      BY <1>3, <2>1, <3>1, <3>2, <3>3 DEF Ended
    <3> QED BY <3>1, <3>4 DEF GoroutineInv
  <2>4. GoroutineInv(e)'
    BY <2>2, <2>3
  <2>5. Steps(e)
    BY <1>1, <1>5 DEF Steps, Head, IInv, MainInv
  <2> QED BY <2>4, <2>5, StepKeeps
<1> QED BY <1>4, <1>5 DEF Head, AtHead

LEMMA BaseKeeps == ASSUME IInv, NEW e \in Entrypoint, Base(e) PROVE IInv'
<1>1. world' = world /\ opts' = opts /\ state' = state /\ main = "wait" /\ e \in opts.args
      /\ results' = results /\ pc[e] = "base"
  BY DEF Base, Goroutine, given
<1>2. Rendered(e)
  BY <1>1 DEF IInv, GoroutineInv
<1>3. Introduced(e)' = Introduced(e) /\ AtHead(e)' = AtHead(e) /\ Bad(e)' = Bad(e)
  BY <1>1, IntroducedStays
<1>4. CASE world[e].base = "missing" /\ pc' = [pc EXCEPT ![e] = "done"] /\ errs' = errs /\ atBase' = atBase
  <2>1. pc'[e] = "done" /\ e \notin errs' /\ ~Bad(e) /\ Introduced(e) = AtHead(e)
    BY <1>2, <1>4 DEF IInv, Rendered, Bad, Introduced, AtHead
  <2>2. NewOf(results[e]) = AtHead(e) /\ AllOf(results[e]) = AtHead(e)
    BY <1>2, NewOfMarked DEF Rendered
  <2>3. NewOf(results[e])' = NewOf(results[e]) /\ AllOf(results[e])' = AllOf(results[e])
    BY <1>1 DEF NewOf, AllOf
  <2>4. Ended(e)'
    BY <1>3, <2>1, <2>2, <2>3 DEF Ended
  <2>5. GoroutineInv(e)'
    BY <2>1, <2>4 DEF GoroutineInv
  <2>6. Steps(e)
    BY <1>1, <1>4 DEF Steps, Base, IInv, MainInv
  <2> QED BY <2>5, <2>6, StepKeeps
<1>5. CASE world[e].base = "broken" /\ errs' = errs \cup {e} /\ pc' = [pc EXCEPT ![e] = "done"] /\ atBase' = atBase
  <2>1. pc'[e] = "done" /\ e \in errs' /\ Bad(e)'
    BY <1>2, <1>3, <1>5 DEF IInv, Bad, Rendered
  <2>2. Ended(e)'
    BY <2>1 DEF Ended
  <2>3. GoroutineInv(e)'
    BY <2>1, <2>2 DEF GoroutineInv
  <2>4. Steps(e)
    BY <1>1, <1>5 DEF Steps, Base, IInv, MainInv
  <2> QED BY <2>3, <2>4, StepKeeps
<1>6. CASE /\ world[e].base = "fine" /\ errs' = errs /\ pc' = [pc EXCEPT ![e] = "compare"]
           /\ atBase' = [atBase EXCEPT ![e] = Run(world[e].before, NoState)]
  <2>1. atBase'[e] = world[e].before /\ pc'[e] = "compare"
    BY <1>6 DEF IInv, Run
  <2>2. Rendered(e)'
    BY <1>1, <1>2, <1>3, <1>6 DEF Rendered, Marked
  <2>3. Linted(e)'
    BY <1>1, <1>6, <2>1, <2>2 DEF Linted
  <2>4. GoroutineInv(e)'
    BY <2>1, <2>3 DEF GoroutineInv
  <2>5. Steps(e)
    BY <1>1, <1>6 DEF Steps, Base, IInv, MainInv
  <2> QED BY <2>4, <2>5, StepKeeps
<1> QED BY <1>4, <1>5, <1>6 DEF Base

LEMMA CompareKeeps == ASSUME IInv, NEW e \in Entrypoint, Compare(e) PROVE IInv'
<1> DEFINE known == {Fingerprint(f) : f \in atBase[e]}
<1>1. world' = world /\ opts' = opts /\ state' = state /\ main = "wait" /\ e \in opts.args
      /\ errs' = errs /\ atBase' = atBase /\ pc[e] = "compare" /\ pc' = [pc EXCEPT ![e] = "done"]
  BY DEF Compare, Goroutine, given
<1>2. Linted(e)
  BY <1>1 DEF IInv, GoroutineInv
<1>3. Introduced(e)' = Introduced(e) /\ AtHead(e)' = AtHead(e) /\ Bad(e)' = Bad(e)
  BY <1>1, IntroducedStays
<1>4. pc'[e] = "done" /\ e \notin errs' /\ ~Bad(e)
  BY <1>1, <1>2 DEF IInv, Linted, Rendered, Bad
<1>5. results'[e] = {[finding |-> r.finding, existing |-> Fingerprint(r.finding) \in known] : r \in results[e]}
                      \cup Marked(world[e].transition, FALSE)
  BY DEF Compare, IInv
<1>6. results[e] = Marked(AtHead(e), FALSE)
  BY <1>2 DEF Linted, Rendered
<1>7. /\ NewOf(results'[e]) = {f \in AtHead(e) : Fingerprint(f) \notin known} \cup world[e].transition
      /\ AtHead(e) \subseteq AllOf(results'[e])
  <2>1. results'[e] = Compared(AtHead(e), world[e].transition, known)
    BY <1>5, <1>6 DEF Compared
  <2> HIDE DEF known
  <2> QED BY <2>1, NewOfCompared
<1>8. Introduced(e) = {f \in AtHead(e) : Fingerprint(f) \notin known} \cup world[e].transition
  BY <1>2 DEF Introduced, AtHead, Linted, Rendered
<1>9. NewOf(results[e])' = NewOf(results'[e]) /\ AllOf(results[e])' = AllOf(results'[e])
  BY DEF NewOf, AllOf
<1>10. Ended(e)'
  <2> HIDE DEF known
  <2> QED BY <1>3, <1>4, <1>7, <1>8, <1>9 DEF Ended
<1>11. GoroutineInv(e)'
  BY <1>4, <1>10 DEF GoroutineInv
<1>12. Steps(e)
  BY <1>1 DEF Steps, Compare, IInv, MainInv
<1> QED BY <1>11, <1>12, StepKeeps

(* When every goroutine is done, what the command looks at says what the   *)
(* entrypoints are.                                                        *)
LEMMA DoneSaysAll ==
  ASSUME IInv, main = "wait", \A e \in opts.args : pc[e] = "done"
  PROVE  /\ Unanswered <=> errs # {} \/ ~opts.writes
         /\ ~Unanswered => (Failing <=> Alarming # {})
<1>1. Accepted /\ errs \subseteq opts.args
  BY DEF IInv, MainInv
<1>2. \A e \in opts.args : Ended(e)
  BY DEF IInv, GoroutineInv
<1>3. (\E e \in opts.args : Bad(e)) <=> errs # {}
  BY <1>1, <1>2 DEF Ended
<1>4. Unanswered <=> errs # {} \/ ~opts.writes
  BY <1>1, <1>3 DEF Unanswered, Accepted, Bad
<1>5. ASSUME ~Unanswered PROVE Failing <=> Alarming # {}
  <2>1. \A e \in opts.args : NewOf(results[e]) = Introduced(e)
    BY <1>2, <1>4, <1>5 DEF Ended
  <2>2. New = UNION {NewOf(results[e]) : e \in opts.args}
    BY DEF New, NewOf
  <2>3. New = UNION {Introduced(e) : e \in opts.args}
    BY <2>1, <2>2
  <2> QED BY <2>3 DEF Failing, Alarming
<1> QED BY <1>4, <1>5

LEMMA ReportKeeps == IInv /\ Report => IInv'
<1> SUFFICES ASSUME IInv, Report PROVE IInv'
  OBVIOUS
<1>1. world' = world /\ opts' = opts /\ state' = state /\ pc' = pc /\ results' = results
      /\ errs' = errs /\ atBase' = atBase /\ main = "wait" /\ main' = "returned"
      /\ \A e \in opts.args : pc[e] = "done"
  BY DEF Report, Return, given
<1>2. GivenInv'
  BY <1>1 DEF IInv, GivenInv
<1>3. \A e \in opts'.args : GoroutineInv(e)'
  BY <1>1, GoroutineStays DEF IInv
<1>4. MainInv'
  BY <1>1 DEF IInv, MainInv
<1>5. /\ Unanswered <=> errs # {} \/ ~opts.writes
      /\ ~Unanswered => (Failing <=> Alarming # {})
  BY <1>1, DoneSaysAll
<1>6. exit' = IF Unanswered THEN 2 ELSE IF Alarming # {} THEN 1 ELSE 0
  BY <1>5 DEF Report, Return
<1>7. Unanswered' = Unanswered /\ Alarming' = Alarming
  BY <1>1 DEF Unanswered, Alarming, Introduced, Run
<1>8. ExitTellsTheTruth'
  BY <1>6, <1>7 DEF ExitTellsTheTruth
<1>9. BaseOutlivesItsReaders'
  BY <1>1 DEF BaseOutlivesItsReaders
<1> QED BY <1>1, <1>2, <1>3, <1>4, <1>8, <1>9 DEF IInv

LEMMA StutterKeeps == IInv /\ UNCHANGED checkVars => IInv'
<1> SUFFICES ASSUME IInv, UNCHANGED checkVars PROVE IInv'
  OBVIOUS
<1>1. world' = world /\ opts' = opts /\ state' = state /\ pc' = pc /\ results' = results
      /\ errs' = errs /\ atBase' = atBase /\ main' = main /\ base' = base /\ exit' = exit
  BY DEF checkVars, given
<1>2. \A e \in opts'.args : GoroutineInv(e)'
  BY <1>1, GoroutineStays DEF IInv
<1>3. Unanswered' = Unanswered /\ Alarming' = Alarming
  BY <1>1 DEF Unanswered, Alarming, Introduced, Run
<1>4. ExitTellsTheTruth' /\ BaseOutlivesItsReaders'
  BY <1>1, <1>3 DEF IInv, ExitTellsTheTruth, BaseOutlivesItsReaders
<1>5. GivenInv' /\ MainInv'
  BY <1>1 DEF IInv, GivenInv, MainInv, Accepted
<1> QED BY <1>1, <1>2, <1>4, <1>5 DEF IInv

(* What each goroutine has established where it is, in every run.          *)
THEOREM Invariant == CheckSpec => []IInv
<1>1. IInv /\ [CheckNext]_checkVars => IInv'
  BY StartKeeps, ReportKeeps, HeadKeeps, BaseKeeps, CompareKeeps, StutterKeeps DEF CheckNext
<1> QED BY InitIInv, <1>1, PTL DEF CheckSpec

(* Whatever the entrypoints and their findings: status 0 only for a run    *)
(* that was answered and introduces nothing at the threshold, 1 only for   *)
(* one that was answered and does, 2 otherwise (main.go, runCheck).        *)
THEOREM ExitCorrect == CheckSpec => []ExitTellsTheTruth
<1>1. IInv => ExitTellsTheTruth
  BY DEF IInv
<1> QED BY Invariant, <1>1, PTL

(* The deferred cleanup never takes the base checkout away from a          *)
(* goroutine that still has to read it.                                    *)
THEOREM BaseCorrect == CheckSpec => []BaseOutlivesItsReaders
<1>1. IInv => BaseOutlivesItsReaders
  BY DEF IInv
<1> QED BY Invariant, <1>1, PTL

-----------------------------------------------------------------------------
(* The findings only grow, and with them what they predict.                *)
LEMMA PredictedGrows ==
  ASSUME NEW fs, NEW gs, fs \subseteq gs
  PROVE  Predicted(fs) \subseteq Predicted(gs)
BY DEF Predicted

(* Take the failures that are not accounted for.  One of them is excused   *)
(* by none of the others, so by none at all: it is unpredicted, and then   *)
(* reported.                                                               *)
LEMMA AllAccounted ==
  ASSUME NEW t, NEW st, NEW fs, NEW gs, Grounded(t),
         fs \subseteq gs, ClusterRules(t, st, fs) \subseteq gs
  PROVE  Accounted(t, st, gs) = Failed(t, st)
<1> DEFINE own == {c \in Failed(t, st) : c \in t.opaque \cup Predicted(gs) \cup
                     {f.component : f \in {g \in gs : g.rule = "FL-O001"}}}
<1>1. SUFFICES ASSUME NEW S \in SUBSET Failed(t, st), own \subseteq S,
                      \A x \in Failed(t, st) : Cause(t, st, x) \cap S # {} => x \in S
               PROVE  Failed(t, st) \subseteq S
  BY DEF Accounted
<1> DEFINE X == Failed(t, st) \ S
<1>2. SUFFICES ASSUME X # {} PROVE FALSE
  OBVIOUS
<1>3. X \in (SUBSET t.comps) \ {{}}
  BY <1>2 DEF Failed
<1>4. PICK x \in X : (t.dependsOn[x] \cup t.children[x]) \cap X = {}
  <2> HIDE DEF X
  <2> QED BY <1>3 DEF Grounded
<1>5. Cause(t, st, x) = {}
  <2>1. Cause(t, st, x) \cap S = {}
    BY <1>1, <1>4
  <2>2. Cause(t, st, x) \cap X = {}
    BY <1>4 DEF Cause
  <2>3. Cause(t, st, x) \subseteq Failed(t, st)
    BY DEF Cause
  <2> QED BY <2>1, <2>2, <2>3
<1>6. x \notin own
  BY <1>1, <1>4
<1>7. x \in Failed(t, st) \ (t.opaque \cup Predicted(fs))
  BY <1>4, <1>6, PredictedGrows
<1>8. x \in Unpredicted(t, st, fs)
  BY <1>5, <1>7 DEF Unpredicted
<1> DEFINE g == [rule |-> "FL-O001", kind |-> "compared", severity |-> "error", component |-> x, mentions |-> {}]
<1>9. g \in gs /\ g.rule = "FL-O001" /\ g.component = x
  <2>1. g \in Reported("FL-O001", "error", Unpredicted(t, st, fs))
    BY <1>8 DEF Reported
  <2>2. g \in ClusterRules(t, st, fs)
    BY <2>1 DEF ClusterRules
  <2> QED BY <2>2
<1> QED BY <1>4, <1>6, <1>9

(* With --cluster-state and a tree in which no wait leads back to where it *)
(* began, no failure of the cluster is passed over (observe.go,            *)
(* clusterRules).                                                          *)
THEOREM AccountedCorrect == ASSUME GroundedCases PROVE CheckSpec => []EveryFailureIsAccountedFor
<1>1. ASSUME IInv, state # NoState, NEW e \in opts.args, pc[e] = "done", e \notin errs
      PROVE  Accounted(state.tree, state.st, {r.finding : r \in results[e]}) = Failed(state.tree, state.st)
  <2> DEFINE fs == world[e].head
  <2> DEFINE gs == AllOf(results[e])
  <2>1. AtHead(e) \subseteq gs
    BY <1>1 DEF IInv, GoroutineInv, Ended
  <2>2. fs \subseteq gs /\ ClusterRules(state.tree, state.st, fs) \subseteq gs
    BY <1>1, <2>1 DEF AtHead, Run
  <2>3. Grounded(state.tree)
    BY <1>1 DEF IInv, GivenInv, GroundedCases
  <2>4. Accounted(state.tree, state.st, gs) = Failed(state.tree, state.st)
    <3> HIDE DEF fs, gs
    <3> QED BY <2>2, <2>3, AllAccounted
  <2> QED BY <2>4 DEF AllOf
<1>2. IInv => EveryFailureIsAccountedFor
  BY <1>1 DEF EveryFailureIsAccountedFor
<1> QED BY Invariant, <1>2, PTL

-----------------------------------------------------------------------------
(* Commits, and what fluxlint makes of them.                               *)
LEMMA MergeIs ==
  ASSUME merge \in Merges
  PROVE  /\ merge.base \in Commits /\ merge.head \in Commits /\ merge.base.opaque = {}
         /\ \A t \in {merge.base, merge.head} :
              /\ \A c, d \in t.comps : t.owns[c] \cap t.owns[d] # {} => c = d
              /\ \A c \in t.comps : t.owns[c] \cap Comp \subseteq t.comps \ {Root, c}
              /\ \A c \in t.comps \ {Root} : Parent(t, c) # None
BY MergesAssumption

LEMMA ParentIs ==
  ASSUME NEW t, t.comps \subseteq Comp, \A c, d \in t.comps : t.owns[c] \cap t.owns[d] # {} => c = d, NEW o
  PROVE  /\ Parent(t, o) \in Comp \cup {None}
         /\ \A c \in Comp : Parent(t, o) = c <=> c \in t.comps /\ o \in t.owns[c]
<1>1. None \notin Comp
  BY ComponentsAreObjects
<1>2. CASE \E p \in t.comps : o \in t.owns[p]
  <2>1. Parent(t, o) \in t.comps /\ o \in t.owns[Parent(t, o)]
    BY <1>2 DEF Parent
  <2> QED BY <2>1
<1>3. CASE ~\E p \in t.comps : o \in t.owns[p]
  BY <1>1, <1>3 DEF Parent
<1> QED BY <1>2, <1>3

LEMMA TreeIs ==
  ASSUME NEW t \in Commits
  PROVE  /\ Tree(t).comps = {c \in t.comps : \A o \in t.opaque : c = o \/ c \notin Below(t, o)}
         /\ Tree(t).comps \subseteq t.comps
         /\ \A c \in Comp : Tree(t).owns[c] = IF c \in t.opaque THEN {} ELSE t.owns[c]
         /\ Tree(t).dependsOn = t.dependsOn /\ Tree(t).source = t.source /\ Tree(t).reads = t.reads
BY DEF Tree, Commits

LEMMA BelowIs ==
  ASSUME NEW t, NEW c \in Comp
  PROVE  /\ c \in Below(t, c)
         /\ \A d \in Below(t, c) : t.owns[d] \cap Comp \subseteq Below(t, c)
<1>1. ASSUME NEW d \in Below(t, c), NEW e \in t.owns[d] \cap Comp
      PROVE  e \in Below(t, c)
  BY <1>1 DEF Below
<1> QED BY <1>1 DEF Below

LEMMA BeforeIs ==
  ASSUME merge \in Merges, NEW o \in Object
  PROVE  /\ Before[o] \in Comp \cup {None} /\ Before[o] = Parent(merge.base, o)
         /\ \A c \in Comp : Before[o] = c <=> Has(merge.base, c) /\ o \in merge.base.owns[c]
<1> DEFINE b == merge.base
<1>1. b \in Commits /\ b.comps \subseteq Comp /\ b.opaque = {}
  BY MergeIs DEF Commits
<1>2. /\ Tree(b).comps = b.comps
      /\ \A c \in Comp : Tree(b).owns[c] = b.owns[c]
  <2> HIDE DEF b
  <2>1. Tree(b).comps = {c \in b.comps : \A p \in b.opaque : c = p \/ c \notin Below(b, p)}
    BY <1>1, TreeIs
  <2>2. \A c \in Comp : Tree(b).owns[c] = IF c \in b.opaque THEN {} ELSE b.owns[c]
    BY <1>1, TreeIs
  <2> QED BY <1>1, <2>1, <2>2
<1>3. \A c, d \in b.comps : b.owns[c] \cap b.owns[d] # {} => c = d
  BY MergeIs
<1>4. Before[o] = Parent(Tree(b), o)
  BY DEF Before, Ownership
<1>5. /\ Parent(Tree(b), o) \in Comp \cup {None}
      /\ \A c \in Comp : Parent(Tree(b), o) = c <=> c \in b.comps /\ o \in b.owns[c]
  <2>1. \A c, d \in Tree(b).comps : Tree(b).owns[c] \cap Tree(b).owns[d] # {} => c = d
    BY <1>1, <1>2, <1>3
  <2>2. \A c \in Comp : c \in Tree(b).comps /\ o \in Tree(b).owns[c] <=> c \in b.comps /\ o \in b.owns[c]
    BY <1>2
  <2> QED BY <1>1, <1>2, <2>1, <2>2, ParentIs
<1>6. /\ Parent(b, o) \in Comp \cup {None}
      /\ \A c \in Comp : Parent(b, o) = c <=> c \in b.comps /\ o \in b.owns[c]
  BY <1>1, <1>3, ParentIs
<1> QED BY <1>4, <1>5, <1>6 DEF Has

LEMMA AfterIs ==
  ASSUME merge \in Merges, NEW o \in Object
  PROVE  /\ After[o] \in Comp \cup {None}
         /\ \A c \in Comp : After[o] = c <=> /\ Has(Tree(merge.head), c) /\ c \notin merge.head.opaque
                                             /\ o \in merge.head.owns[c]
<1> DEFINE h == merge.head
<1>1. h \in Commits /\ h.comps \subseteq Comp
  BY MergeIs DEF Commits
<1>2. /\ Tree(h).comps \subseteq h.comps
      /\ \A c \in Comp : Tree(h).owns[c] = IF c \in h.opaque THEN {} ELSE h.owns[c]
  BY <1>1, TreeIs
<1>3. \A c, d \in Tree(h).comps : Tree(h).owns[c] \cap Tree(h).owns[d] # {} => c = d
  BY <1>1, <1>2, MergeIs
<1>4. /\ Parent(Tree(h), o) \in Comp \cup {None}
      /\ \A c \in Comp : Parent(Tree(h), o) = c <=> c \in Tree(h).comps /\ o \in Tree(h).owns[c]
  BY <1>1, <1>2, <1>3, ParentIs
<1>5. After[o] = Parent(Tree(h), o)
  BY DEF After, Ownership
<1> QED BY <1>2, <1>4, <1>5 DEF Has

(* Nothing hidden: the tree has all components, and what could not be      *)
(* rendered owns none.                                                     *)
LEMMA NothingHidden ==
  ASSUME NothingHangsHidden, merge \in Merges, NEW c \in Comp
  PROVE  /\ Has(Tree(merge.head), c) <=> Has(merge.head, c)
         /\ Has(merge.head, c) /\ c \in merge.head.opaque => merge.head.owns[c] \cap Comp = {}
         /\ c \in Unrendered <=> Has(merge.head, c) /\ c \in merge.head.opaque
<1> DEFINE h == merge.head
<1>1. h \in Commits
  BY MergeIs
<1>2. \A d \in Comp : Has(Tree(h), d) <=> Has(h, d)
  BY <1>1, TreeIs DEF NothingHangsHidden, Has
<1>3. ASSUME Has(h, c), c \in h.opaque, NEW d \in h.owns[c] \cap Comp
      PROVE  FALSE
  <2>1. d \in h.comps /\ d # c
    BY <1>3, MergeIs DEF Has
  <2>2. d \in Below(h, c)
    BY BelowIs
  <2> QED BY <1>1, <1>2, <1>3, <2>1, <2>2, TreeIs DEF Has
<1> QED BY <1>2, <1>3 DEF Unrendered, Has

-----------------------------------------------------------------------------
(* What is announced.                                                      *)
Owns(t, c, o) == Has(t, c) /\ o \in t.owns[c]

(* What a component of the base applied that is announced, is announced.   *)
LEMMA AnnouncedBelow ==
  ASSUME merge \in Merges, NEW d \in Comp, Announced(d), NEW o \in Object, o \in merge.base.owns[d]
  PROVE  Announced(o)
<1>1. CASE d \in D001 \cup Moved
  <2>1. d \in Below(merge.base, d)
    BY BelowIs
  <2> QED BY <1>1, <2>1 DEF Announced
<1>2. CASE \E e \in Comp \cap (D001 \cup Moved) : \E c \in Below(merge.base, e) : d \in merge.base.owns[c]
  <2>1. PICK e \in Comp \cap (D001 \cup Moved) : \E c \in Below(merge.base, e) : d \in merge.base.owns[c]
    BY <1>2
  <2>2. d \in Below(merge.base, e)
    BY <2>1, BelowIs
  <2> QED BY <2>1, <2>2 DEF Announced
<1> QED BY <1>1, <1>2 DEF Announced

(* What leaves a component of the base is announced if another one has it, *)
(* or if it is removed and pruned.                                         *)
LEMMA LeavingIs ==
  ASSUME merge \in Merges, NEW c \in Comp, NEW o \in Object, Owns(merge.base, c, o), After[o] # c,
         After[o] # None \/ (c \notin Unrendered /\ Prunes(c))
  PROVE  Announced(o)
<1>1. Before[o] = c /\ c # None
  BY BeforeIs, ComponentsAreObjects DEF Owns
<1>2. CASE After[o] # None
  BY <1>1, <1>2 DEF Moved, Announced
<1>3. CASE After[o] = None
  BY <1>1, <1>3 DEF Removed, D001, Announced
<1> QED BY <1>2, <1>3

-----------------------------------------------------------------------------
(* The inductive invariant: what an inventory holds, and why a component   *)
(* is being deleted.  It is announced; or it is new; or it left a          *)
(* component that could not be rendered, and is no more.                   *)
Doomed(d) ==
  \/ Announced(d)
  \/ Before[d] = None
  \/ Before[d] \in Unrendered /\ merge.head.prune[Before[d]] /\ ~Has(merge.head, d)

TypeInv ==
  /\ merge \in Merges
  /\ live \in [Object -> {"no", "base", "head"}]
  /\ inv \in [Comp -> SUBSET Object]
  /\ dying \subseteq Comp \ {Root}
  /\ applied \subseteq {c \in Comp : Has(merge.head, c)}
InventoryInv ==
  \A c \in Comp :
    \/ inv[c] = {}
    \/ c \notin applied /\ Has(merge.base, c) /\ inv[c] = merge.base.owns[c]
    \/ c \in applied /\ inv[c] = merge.head.owns[c]
DyingInv ==
  \A d \in dying : Doomed(d)
LossInv == TypeInv /\ InventoryInv /\ DyingInv

(* What Reconcile(c) collects.                                             *)
LEMMA CollectedIs ==
  ASSUME SpecsFirst \/ PruneIsKept, NothingHangsHidden, TypeInv, InventoryInv, NEW c \in Comp, Reconcile(c),
         PruneInEffect(c), NEW o \in inv[c] \ merge.head.owns[c]
  PROVE  /\ Announced(o) \/ c \in Unrendered
         /\ o \in Object /\ Before[o] = c /\ (o \in Comp => o # Root /\ Doomed(o))
<1>1. Has(merge.head, c) /\ merge.head.prune[c] /\ merge \in Merges
  <2>1. CASE SpecsFirst
    BY <2>1 DEF Reconcile, TypeInv
  <2>2. CASE PruneIsKept
    <3>1. Has(merge.base, c)
      BY DEF InventoryInv, TypeInv
    <3>2. merge.base.prune[c] \/ merge.head.prune[c]
      BY DEF PruneInEffect
    <3> QED BY <2>2, <3>1, <3>2 DEF PruneIsKept, Reconcile, TypeInv
  <2> QED BY <2>1, <2>2
<1>2. Owns(merge.base, c, o) /\ o \in Object
  BY DEF InventoryInv, TypeInv, Owns
<1>3. Before[o] = c /\ After[o] # c
  BY <1>1, <1>2, BeforeIs, AfterIs, ComponentsAreObjects DEF Owns
<1>4. Prunes(c)
  <2>1. Has(Tree(merge.head), c)
    BY <1>1, NothingHidden
  <2> QED BY <1>1, <2>1 DEF Prunes, Pruner
<1>5. Announced(o) \/ (c \in Unrendered /\ After[o] = None)
  BY <1>1, <1>2, <1>3, <1>4, LeavingIs
<1>6. ASSUME o \in Comp
      PROVE  o # Root /\ Doomed(o)
  <2>1. o # Root
    BY <1>1, <1>2, <1>6, MergeIs DEF Owns, Has
  <2>2. ASSUME After[o] = None, Has(merge.head, o)
        PROVE  FALSE
    <3>1. Parent(merge.head, o) # None
      BY <1>1, <2>1, <2>2, MergeIs DEF Has
    <3>2. PICK p \in merge.head.comps : o \in merge.head.owns[p]
      BY <3>1 DEF Parent
    <3>3. p \in Comp /\ Has(merge.head, p)
      BY <1>1, <3>2, MergeIs DEF Commits, Has
    <3>4. p \notin merge.head.opaque /\ Has(Tree(merge.head), p)
      BY <1>1, <1>6, <3>2, <3>3, NothingHidden
    <3> QED BY <1>1, <1>2, <2>2, <3>2, <3>3, <3>4, AfterIs, ComponentsAreObjects
  <2> QED BY <1>1, <1>3, <1>5, <2>1, <2>2 DEF Doomed
<1> QED BY <1>2, <1>3, <1>5, <1>6

(* What Finalize(d) collects.                                              *)
LEMMA FinalizedIs ==
  ASSUME NothingHangsHidden, LossInv, NEW d \in dying, NEW o \in inv[d]
  PROVE  /\ o \in Object
         /\ \/ Announced(o) \/ Before[o] = None
            \/ o \notin Comp /\ (Before[o] \in Unrendered \/ TakenOver(o))
         /\ o \in Comp => o # Root /\ Doomed(o)
<1> USE DEF LossInv
<1>1. d \in Comp /\ d # Root /\ merge \in Merges /\ o \in Object /\ Doomed(d)
  BY DEF TypeInv, DyingInv
<1>2. CASE d \notin applied
  <2>1. Owns(merge.base, d, o) /\ Has(merge.base, d)
    BY <1>1, <1>2 DEF InventoryInv, Owns
  <2>2. Before[o] = d /\ (o \in Comp => o # Root)
    BY <1>1, <2>1, BeforeIs, MergeIs DEF Owns, Has
  <2>3. Before[d] # None /\ d \in Object
    BY <1>1, <2>1, BeforeIs, MergeIs, ComponentsAreObjects DEF Has
  <2>4. CASE Announced(d)
    BY <1>1, <2>1, <2>2, <2>4, AnnouncedBelow DEF Owns, Doomed
  <2>5. CASE Before[d] \in Unrendered /\ merge.head.prune[Before[d]] /\ ~Has(merge.head, d)
    <3>1. ~Has(Tree(merge.head), d) /\ d \notin Unrendered
      BY <1>1, <2>5, NothingHidden
    <3>2. Before[d] \in Comp /\ Before[d] = Parent(merge.base, d) /\ Has(Tree(merge.head), Before[d])
      BY <1>1, <2>3, <2>5, BeforeIs, NothingHidden DEF Unrendered, Has
    <3>3. Prunes(d)
      BY <2>3, <2>5, <3>1, <3>2 DEF Prunes, Pruner
    <3>4. After[o] # d
      BY <1>1, <3>1, AfterIs
    <3> QED BY <1>1, <2>1, <2>2, <3>1, <3>3, <3>4, LeavingIs DEF Doomed
  <2> QED BY <1>1, <2>3, <2>4, <2>5 DEF Doomed
<1>3. CASE d \in applied
  <2>1. Has(merge.head, d) /\ o \in merge.head.owns[d]
    BY <1>3 DEF InventoryInv, TypeInv
  <2>2. o \in Comp => o # Root
    BY <1>1, <2>1, MergeIs DEF Has
  <2>3. CASE d \notin merge.head.opaque
    <3>1. After[o] = d /\ d # None
      BY <1>1, <2>1, <2>3, AfterIs, NothingHidden, ComponentsAreObjects
    <3>2. CASE Before[o] = None
      BY <1>1, <2>2, <3>2 DEF Doomed
    <3>3. CASE Before[o] = d
      <4>1. Has(merge.base, d) /\ o \in merge.base.owns[d]
        BY <1>1, <3>3, BeforeIs
      <4>2. Before[d] # None
        BY <1>1, <4>1, BeforeIs, MergeIs, ComponentsAreObjects DEF Has
      <4>3. Announced(d)
        BY <1>1, <2>1, <4>2 DEF Doomed
      <4> QED BY <1>1, <2>2, <4>1, <4>3, AnnouncedBelow DEF Doomed
    <3>4. CASE Before[o] \notin {None, d}
      BY <1>1, <2>2, <3>1, <3>4 DEF Moved, Announced, Doomed
    <3> QED BY <3>2, <3>3, <3>4
  <2>4. CASE d \in merge.head.opaque
    <3>1. o \notin Comp /\ d \in Unrendered
      BY <1>1, <2>1, <2>4, NothingHidden
    <3>2. After[o] = None
      <4>1. ASSUME NEW a \in Comp, After[o] = a PROVE FALSE
        <5>1. Has(merge.head, a) /\ a \notin merge.head.opaque /\ o \in merge.head.owns[a]
          BY <1>1, <4>1, AfterIs, NothingHidden
        <5> QED BY <1>1, <2>1, <2>4, <5>1, MergeIs DEF Has
      <4> QED BY <1>1, <4>1, AfterIs
    <3>3. CASE Before[o] \in {None} \cup Unrendered
      BY <1>1, <3>1, <3>3
    <3>4. CASE Before[o] \notin {None} \cup Unrendered
      BY <1>1, <2>1, <3>1, <3>2, <3>4 DEF Removed, D004, TakenOver, Announced
    <3> QED BY <3>3, <3>4
  <2> QED BY <2>3, <2>4
<1> QED BY <1>2, <1>3

-----------------------------------------------------------------------------
(* The invariant is one.                                                   *)
LEMMA SameMerge ==
  ASSUME merge' = merge
  PROVE  \A o : /\ Doomed(o)' <=> Doomed(o)
                /\ Announced(o)' <=> Announced(o)
<1>1. Before' = Before /\ After' = After /\ Unrendered' = Unrendered
  BY DEF Before, After, Unrendered
<1>2. \A c : Prunes(c)' <=> Prunes(c)
  BY DEF Prunes, Pruner
<1>3. D001' = D001 /\ Moved' = Moved
  BY <1>1, <1>2 DEF D001, Removed, Moved
<1> QED BY <1>1, <1>3 DEF Doomed, Announced

LEMMA LossInit == Init => LossInv
<1> SUFFICES ASSUME Init PROVE LossInv
  OBVIOUS
<1>1. merge.base \in Commits /\ merge \in Merges
  BY MergeIs DEF Init
<1>2. \A c \in Comp : inv[c] = IF Has(merge.base, c) THEN merge.base.owns[c] ELSE {}
  BY DEF Init
<1>3. inv \in [Comp -> SUBSET Object]
  BY <1>1 DEF Init, Commits
<1>4. live \in [Object -> {"no", "base", "head"}]
  BY DEF Init
<1> QED BY <1>1, <1>2, <1>3, <1>4 DEF Init, LossInv, TypeInv, InventoryInv, DyingInv

LEMMA ReconcileKeeps ==
  ASSUME SpecsFirst \/ PruneIsKept, NothingHangsHidden, LossInv, NEW c \in Comp, Reconcile(c)
  PROVE  LossInv'
<1> USE DEF LossInv
<1> DEFINE new  == merge.head.owns[c]
           gone == IF PruneInEffect(c) THEN inv[c] \ new ELSE {}
<1>1. merge \in Merges /\ merge' = merge /\ Has(merge.head, c) /\ new \in SUBSET Object
  BY MergeIs DEF Reconcile, TypeInv, Commits
<1>2. /\ inv' = [inv EXCEPT ![c] = new] /\ applied' = applied \cup {c}
      /\ live' = [o \in Object |-> IF o \in new THEN "head" ELSE IF o \in gone \ Comp THEN "no" ELSE live[o]]
      /\ dying' = dying \cup {d \in gone \cap Comp : live[d] # "no"}
  BY DEF Reconcile
<1>3. \A d \in gone \cap Comp : d # Root /\ Doomed(d)
  BY CollectedIs
<1> HIDE DEF gone, new
<1>4. TypeInv'
  <2>1. live' \in [Object -> {"no", "base", "head"}]
    BY <1>2 DEF TypeInv
  <2>2. inv' \in [Comp -> SUBSET Object]
    BY <1>1, <1>2 DEF TypeInv
  <2>3. dying' \subseteq Comp \ {Root}
    BY <1>2, <1>3 DEF TypeInv
  <2>4. applied' \subseteq {d \in Comp : Has(merge.head, d)}
    BY <1>1, <1>2 DEF TypeInv
  <2> QED BY <1>1, <2>1, <2>2, <2>3, <2>4 DEF TypeInv
<1>5. InventoryInv'
  <2>1. \A d \in Comp \ {c} : inv'[d] = inv[d] /\ (d \in applied' <=> d \in applied)
    BY <1>2 DEF TypeInv
  <2>2. inv'[c] = merge.head.owns[c] /\ c \in applied'
    BY <1>2 DEF TypeInv, new
  <2> QED BY <1>1, <2>1, <2>2 DEF InventoryInv
<1>6. DyingInv'
  BY <1>1, <1>2, <1>3, SameMerge DEF DyingInv
<1> QED BY <1>4, <1>5, <1>6

LEMMA FinalizeKeeps ==
  ASSUME NothingHangsHidden, LossInv, NEW d \in Comp, Finalize(d)
  PROVE  LossInv'
<1> USE DEF LossInv
<1> DEFINE gone == IF PruneInEffect(d) THEN inv[d] ELSE {}
<1>1. /\ d \in dying /\ merge' = merge /\ applied' = applied /\ inv' = [inv EXCEPT ![d] = {}]
      /\ live' = [o \in Object |-> IF o = d \/ o \in gone \ Comp THEN "no" ELSE live[o]]
      /\ dying' = (dying \ {d}) \cup {e \in gone \cap Comp : live[e] # "no"}
  BY DEF Finalize
<1>2. \A e \in gone \cap Comp : e # Root /\ Doomed(e)
  BY <1>1, FinalizedIs
<1> HIDE DEF gone
<1>3. TypeInv'
  BY <1>1, <1>2 DEF TypeInv
<1>4. InventoryInv'
  <2>1. \A c \in Comp : inv'[c] = {} \/ inv'[c] = inv[c]
    BY <1>1 DEF TypeInv
  <2> QED BY <1>1, <2>1 DEF InventoryInv
<1>5. DyingInv'
  BY <1>1, <1>2, SameMerge DEF DyingInv
<1> QED BY <1>3, <1>4, <1>5

(* Inventories hold what the base or the head gives a component, and what  *)
(* is being deleted has a reason that was, or could not be, reported.      *)
THEOREM LossIsAccounted ==
  ASSUME SpecsFirst \/ PruneIsKept, NothingHangsHidden
  PROVE  Spec => []LossInv
<1>1. LossInv /\ [Next]_vars => LossInv'
  <2> SUFFICES ASSUME LossInv, [Next]_vars PROVE LossInv'
    OBVIOUS
  <2>1. CASE UNCHANGED vars
    BY <2>1, SameMerge DEF vars, LossInv, TypeInv, InventoryInv, DyingInv
  <2> QED BY <2>1, ReconcileKeeps, FinalizeKeeps DEF Next
<1> QED BY <1>1, LossInit, PTL DEF Spec

(* Flux deletes nothing of the base that was not announced: by FL-D001 or  *)
(* FL-D003 for the object, or for a component that it hangs under; as far  *)
(* as the components could be rendered.  In every order if no commit turns *)
(* off a prune setting, and else in every order in which a component has   *)
(* its new one when it reconciles.                                         *)
THEOREM LossIsAnnounced ==
  ASSUME SpecsFirst \/ PruneIsKept, NothingHangsHidden
  PROVE  Spec => NothingIsLostSilently
<1> DEFINE Lost(o) == /\ live[o] # "no" /\ live'[o] = "no"
                      /\ Before[o] \notin {None} \cup Unrendered /\ ~TakenOver(o)
<1>1. ASSUME LossInv, Next, NEW o \in Object, Lost(o)
      PROVE  Announced(o)
  <2>1. CASE \E c \in Comp : Reconcile(c)
    <3>1. PICK c \in Comp : Reconcile(c)
      BY <2>1
    <3>2. PruneInEffect(c) /\ o \in inv[c] \ merge.head.owns[c]
      BY <1>1, <3>1 DEF Reconcile
    <3> QED BY <1>1, <3>1, <3>2, CollectedIs DEF LossInv
  <2>2. CASE \E d \in Comp : Finalize(d)
    <3>1. PICK d \in Comp : Finalize(d)
      BY <2>2
    <3>2. d \in dying /\ (o = d \/ o \in inv[d])
      BY <1>1, <3>1 DEF Finalize
    <3>3. o = d => Doomed(o)
      BY <1>1, <3>2 DEF LossInv, DyingInv
    <3> QED BY <1>1, <3>2, <3>3, FinalizedIs DEF Doomed
  <2> QED BY <1>1, <2>1, <2>2 DEF Next
<1>2. LossInv /\ [Next]_vars =>
        [\A o \in Object :
           live[o] # "no" /\ live'[o] = "no" /\ Before[o] \notin {None} \cup Unrendered /\ ~TakenOver(o)
             => Announced(o)]_vars
  BY <1>1
<1> QED BY <1>2, LossIsAccounted, PTL DEF Spec, NothingIsLostSilently

-----------------------------------------------------------------------------
(* Stale reads.  A component that has applied the head waited for those of *)
(* its source that it depends on; and what it applies is never again what  *)
(* the base said.                                                          *)
AppliedInv ==
  /\ merge \in Merges /\ applied \subseteq Comp /\ stale \subseteq Comp \X Object
  /\ \A c \in applied : /\ Within(merge.head).dependsOn[c] \subseteq applied
                        /\ \A o \in merge.head.owns[c] : live[o] # "base"

LEMMA WithinIs ==
  ASSUME merge \in Merges, NEW c \in Comp
  PROVE  Within(merge.head).dependsOn[c]
           = {d \in merge.head.dependsOn[c] : merge.head.source[d] = merge.head.source[c]}
<1>1. merge.head \in Commits
  BY MergeIs
<1> QED BY <1>1 DEF Commits, Within

LEMMA ReconcileReads ==
  ASSUME ChainsStay, AppliedInv, StaleReadsAreReported, NEW c \in Comp, Reconcile(c)
  PROVE  AppliedInv' /\ StaleReadsAreReported'
<1> DEFINE h == merge.head
           ds == Within(h).dependsOn[c]
<1>1. /\ merge \in Merges /\ merge' = merge /\ applied' = applied \cup {c} /\ ~Waits(c) /\ Has(h, c)
      /\ h \in Commits
  BY MergeIs DEF Reconcile, AppliedInv
<1>2. Within(h).dependsOn[c] \subseteq applied
  BY <1>1, WithinIs DEF Waits
<1>3. \A o \in Object : live'[o] = "base" => live[o] = "base" /\ o \notin h.owns[c]
  BY DEF Reconcile
<1>4. /\ stale \subseteq stale'
      /\ \A r \in stale' \ stale : /\ r \in Comp \X Object /\ r[1] = c /\ c \notin applied
                                   /\ r[2] \in h.reads[c] /\ live[r[2]] = "base"
  <2>1. h.reads[c] \subseteq Object
    BY <1>1 DEF Commits
  <2> QED BY <2>1 DEF Reconcile
<1>5. AppliedInv'
  <2>1. \A d \in applied' : h.owns[d] \subseteq Object
    BY <1>1 DEF AppliedInv, Commits
  <2> QED BY <1>1, <1>2, <1>3, <1>4, <2>1 DEF AppliedInv
<1>6. ASSUME NEW o \in Object, o \in h.reads[c], live[o] = "base",
             Has(Tree(h), c), After[o] \notin {None, c}, h.source[After[o]] = h.source[c]
      PROVE  <<c, o>> \in T010(Tree(h))
  <2>1. After[o] \in Comp /\ o \in h.owns[After[o]]
    BY <1>1, <1>6, AfterIs
  <2>2. After[o] \notin applied
    BY <1>6, <2>1 DEF AppliedInv
  <2>3. After[o] \notin DependsOn(h, c)
    <3>1. DependsOn(Within(h), c) \subseteq applied
      BY <1>2 DEF AppliedInv, DependsOn
    <3> QED BY <1>1, <1>6, <2>2, <3>1 DEF ChainsStay
  <2>4. DependsOn(Tree(h), c) = DependsOn(h, c) /\ Tree(h).reads = h.reads /\ Tree(h).source = h.source
    BY <1>1, TreeIs DEF DependsOn
  <2> QED BY <1>6, <2>3, <2>4 DEF T010, After
<1>7. StaleReadsAreReported'
  <2>1. After' = After
    BY <1>1 DEF After
  <2> QED BY <1>1, <1>4, <1>6, <2>1 DEF StaleReadsAreReported
<1> QED BY <1>5, <1>7

(* A component that substituted from a ConfigMap of the base, although     *)
(* another one of its source applies a new one, was reported by FL-T010:   *)
(* for every tree, and every order in which the components reconcile.      *)
THEOREM StaleReadsForetold ==
  ASSUME ChainsStay
  PROVE  Spec => []StaleReadsAreReported
<1>1. Init => AppliedInv /\ StaleReadsAreReported
  BY DEF Init, AppliedInv, StaleReadsAreReported
<1>2. AppliedInv /\ StaleReadsAreReported /\ [Next]_vars => AppliedInv' /\ StaleReadsAreReported'
  <2> SUFFICES ASSUME AppliedInv, StaleReadsAreReported, [Next]_vars
               PROVE  AppliedInv' /\ StaleReadsAreReported'
    OBVIOUS
  <2>1. ASSUME NEW d \in Comp, Finalize(d) PROVE AppliedInv' /\ StaleReadsAreReported'
    <3>1. merge' = merge /\ applied' = applied /\ stale' = stale
      BY <2>1 DEF Finalize
    <3>2. \A o \in Object : live'[o] = "base" => live[o] = "base"
      BY <2>1 DEF Finalize
    <3>3. \A c \in applied : merge.head.owns[c] \subseteq Object
      BY MergeIs DEF AppliedInv, Commits
    <3> QED BY <3>1, <3>2, <3>3 DEF AppliedInv, StaleReadsAreReported, After
  <2>2. CASE UNCHANGED vars
    BY <2>2 DEF vars, AppliedInv, StaleReadsAreReported, After
  <2> QED BY <2>1, <2>2, ReconcileReads DEF Next
<1> QED BY <1>1, <1>2, PTL DEF Spec
=============================================================================
