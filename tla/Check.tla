------------------------------- MODULE Check --------------------------------
(***************************************************************************)
(* The check command: one goroutine per entrypoint renders and lints the   *)
(* head, then the base that was checked out beside it, and compares the    *)
(* two; the command waits for all of them, reports and exits.              *)
(*                                                                         *)
(* What rendering and the rules come to for a commit is given (world); a   *)
(* finding is known by its fingerprint, which leaves the severity out.     *)
(***************************************************************************)
EXTENDS Integers, FiniteSets, ClusterState

CONSTANTS
  Entrypoint,
  Cases,       \* [world, opts, state]: what can come of the entrypoints at the
               \* two commits, the command line [args, base, failOn, writes],
               \* and the cluster state [tree, st]
  NoState      \* without --cluster-state

ASSUME CasesAssumption ==
  \A c \in Cases :
    /\ c.opts.args \subseteq Entrypoint /\ c.opts.base \in {"no", "given", "unknown"}
    /\ \A e \in Entrypoint : c.world[e].brokenHead \in BOOLEAN /\ c.world[e].base \in {"missing", "broken", "fine"}

Fingerprint(f) == [rule |-> f.rule, component |-> f.component]

VARIABLES
  world,       \* what is at the two commits, for each entrypoint
  opts, state, \* the command line; --cluster-state
  main,        \* where the command is
  pc,          \* where each goroutine is
  results,     \* the findings of each entrypoint, with their Existing mark
  errs,        \* entrypoints with an error
  base,        \* the base checkout: "none", "there", "removed"
  atBase,      \* the findings of the base
  exit         \* exit status, or -1

given == <<world, opts, state>>
checkVars == <<given, main, pc, results, errs, base, atBase, exit>>

CheckInit ==
  /\ \E c \in Cases : world = c.world /\ opts = c.opts /\ state = c.state
  /\ main = "start" /\ pc = [e \in Entrypoint |-> "head"]
  /\ results = [e \in Entrypoint |-> {}] /\ errs = {}
  /\ base = "none" /\ atBase = [e \in Entrypoint |-> {}] /\ exit = -1

FaultReturn(n) ==   \* exits at once on an error
  /\ exit' = n /\ main' = "returned"
  /\ base' = IF base = "there" /\ n # 2 THEN "removed" ELSE base
Return(n) ==   \* runs what was deferred
  /\ exit' = n /\ main' = "returned"
  /\ base' = IF base = "there" THEN "removed" ELSE base

(* No entrypoint is an error; --cluster-state is refused with several      *)
(* entrypoints; checkoutBase cleans up behind itself when git archive or   *)
(* the extraction fails.                                                   *)
Start ==
  /\ main = "start"
  /\ \/ /\ opts.args = {} \/ (state # NoState /\ Cardinality(opts.args) # 1)
        /\ Return(2)
     \/ /\ opts.args # {} /\ (state # NoState => Cardinality(opts.args) = 1)
        /\ \/ opts.base = "unknown" /\ Return(2)
           \/ /\ opts.base # "unknown" /\ main' = "wait"
              /\ base' = IF opts.base = "given" THEN "there" ELSE base
              /\ UNCHANGED exit
  /\ UNCHANGED <<given, pc, results, errs, atBase>>

-----------------------------------------------------------------------------
(* The goroutine of an entrypoint.                                         *)
Run(fs, st) ==   \* the rules, and last of all the comparison with a cluster
  fs \cup (IF st = NoState THEN {} ELSE ClusterRules(st.tree, st.st, fs))

Marked(fs, mark) == {[finding |-> f, existing |-> mark] : f \in fs}

Goroutine(e, from) == main = "wait" /\ e \in opts.args /\ pc[e] = from

Head(e) ==
  /\ Goroutine(e, "head")
  /\ \/ /\ world[e].brokenHead
        /\ errs' = errs \cup {e} /\ pc' = [pc EXCEPT ![e] = "done"]
        /\ UNCHANGED results
     \/ /\ ~world[e].brokenHead
        /\ results' = [results EXCEPT ![e] = Marked(Run(world[e].head, state), FALSE)]
        /\ pc' = [pc EXCEPT ![e] = IF base = "there" THEN "base" ELSE "done"]
        /\ UNCHANGED errs
  /\ UNCHANGED <<given, main, base, atBase, exit>>

(* An entrypoint that the base does not have is new.  The cluster ran the  *)
(* head, so the base is run without its state.                             *)
FaultBase(e) ==      \* shares the configuration, and with it the cluster state
  /\ Goroutine(e, "base")
  /\ \/ /\ world[e].base = "missing" /\ pc' = [pc EXCEPT ![e] = "done"]
        /\ UNCHANGED <<errs, atBase>>
     \/ /\ world[e].base = "broken"
        /\ errs' = errs \cup {e} /\ pc' = [pc EXCEPT ![e] = "done"]
        /\ UNCHANGED atBase
     \/ /\ world[e].base = "fine"
        /\ atBase' = [atBase EXCEPT ![e] = Run(world[e].before, state)]
        /\ pc' = [pc EXCEPT ![e] = "compare"]
        /\ UNCHANGED errs
  /\ UNCHANGED <<given, main, results, base, exit>>

Base(e) ==
  /\ Goroutine(e, "base")
  /\ \/ /\ world[e].base = "missing" /\ pc' = [pc EXCEPT ![e] = "done"]
        /\ UNCHANGED <<errs, atBase>>
     \/ /\ world[e].base = "broken"
        /\ errs' = errs \cup {e} /\ pc' = [pc EXCEPT ![e] = "done"]
        /\ UNCHANGED atBase
     \/ /\ world[e].base = "fine"
        /\ atBase' = [atBase EXCEPT ![e] = Run(world[e].before, NoState)]
        /\ pc' = [pc EXCEPT ![e] = "compare"]
        /\ UNCHANGED errs
  /\ UNCHANGED <<given, main, results, base, exit>>

(* Findings of the head that the base has too are marked; what the         *)
(* transition itself does is added.                                        *)
Compare(e) ==
  /\ Goroutine(e, "compare")
  /\ LET known == {Fingerprint(f) : f \in atBase[e]} IN
     results' = [results EXCEPT ![e] =
       {[finding |-> r.finding, existing |-> Fingerprint(r.finding) \in known] : r \in @}
         \cup Marked(world[e].transition, FALSE)]
  /\ pc' = [pc EXCEPT ![e] = "done"]
  /\ UNCHANGED <<given, main, errs, base, atBase, exit>>

-----------------------------------------------------------------------------
New == {r.finding : r \in {q \in UNION {results[e] : e \in opts.args} : ~q.existing}}

Failing ==
  \/ \E f \in New : f.severity = "error"
  \/ /\ opts.failOn = "warning"
     /\ \E f \in New : f.severity = "warning"

FaultReport ==    \* looks at the errors as they come in
  /\ main = "wait" /\ (errs # {} \/ \A e \in opts.args : pc[e] = "done")
  /\ Return(IF errs # {} \/ ~opts.writes THEN 2 ELSE IF Failing THEN 1 ELSE 0)
  /\ UNCHANGED <<given, pc, results, errs, atBase>>

(* A result is not read when any entrypoint had an error.  The report is   *)
(* written before the status is known; opts.writes says whether the output *)
(* file opens, the format is known and the report can be written.          *)
Report ==
  /\ main = "wait" /\ \A e \in opts.args : pc[e] = "done"
  /\ Return(IF errs # {} \/ ~opts.writes THEN 2 ELSE IF Failing THEN 1 ELSE 0)
  /\ UNCHANGED <<given, pc, results, errs, atBase>>

CheckNext == Start \/ Report \/ \E e \in Entrypoint : Head(e) \/ Base(e) \/ Compare(e)

CheckSpec == CheckInit /\ [][CheckNext]_checkVars

(* Go runs every goroutine, and git, the renders and the rules return.     *)
FairCheckSpec == CheckSpec /\ WF_checkVars(CheckNext)

-----------------------------------------------------------------------------
(* What the command line asks of the repository, without goroutines.       *)
Introduced(e) ==
  LET fs == Run(world[e].head, state)
      old == {Fingerprint(f) : f \in world[e].before}
  IN  IF opts.base # "given" \/ world[e].base = "missing" THEN fs
      ELSE {f \in fs : Fingerprint(f) \notin old} \cup world[e].transition

Unanswered ==
  \/ opts.base = "unknown" \/ ~opts.writes
  \/ opts.args = {} \/ (state # NoState /\ Cardinality(opts.args) # 1)
  \/ \E e \in opts.args :
       world[e].brokenHead \/ (opts.base = "given" /\ world[e].base = "broken")

Alarming ==
  {f \in UNION {Introduced(e) : e \in opts.args} :
     f.severity = "error" \/ (f.severity = "warning" /\ opts.failOn = "warning")}

(* Status 0 is never given for a run that failed somewhere, nor for one    *)
(* that introduces a finding at the threshold in any entrypoint; status 1  *)
(* only when there is such a finding and every entrypoint was analysed;    *)
(* a failure the cluster had and nobody predicted is never old.            *)
ExitTellsTheTruth ==
  exit # -1 => exit = IF Unanswered THEN 2 ELSE IF Alarming # {} THEN 1 ELSE 0

(* No goroutine is left when the base checkout is removed, on any path.    *)
BaseOutlivesItsReaders ==
  base = "removed" => \A e \in opts.args : pc[e] = "done"

(* The command returns, and leaves no checkout behind.                     *)
CleansUp == <>(main = "returned" /\ base # "there")

(* With --cluster-state, every component that failed in the cluster is     *)
(* predicted, reported, not rendered, or repeats one that is.              *)
EveryFailureIsAccountedFor ==
  state # NoState /\ main = "returned" =>
    \A e \in opts.args :
      pc[e] = "done" /\ e \notin errs =>
        Accounted(state.tree, state.st, {r.finding : r \in results[e]}) = Failed(state.tree, state.st)
=============================================================================
