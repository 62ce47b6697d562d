------------------------------ MODULE Resolver ------------------------------
(***************************************************************************)
(* pkg/source: the Resolver of every run and the cache on disk that runs   *)
(* share.  Calls are goroutines (one per component of a level, for every   *)
(* entrypoint, head and base).  Within a run, the first call with a key    *)
(* does the work and the others wait for it (Resolve); the work consults   *)
(* the cache slot, the list of dead hosts and the network, and replaces    *)
(* the slot in steps that can fail or be cut short (git, oci).             *)
(*                                                                         *)
(* A slot stands for what it is named after (URL and ref); its revisions   *)
(* are numbered, and the remote's current one is head.  Keys are what the  *)
(* calls of one run are deduplicated by.  A call belongs to one run.       *)
(***************************************************************************)
EXTENDS Integers, FiniteSets

CONSTANTS
  Call, Run, Key, Slot, Host,
  RunOf,      \* [Call -> Run]
  KeyOf,      \* [Call -> Key], the key Resolve computes
  SlotOf,     \* [Key -> Slot], the directory git and oci compute
  HostOf,     \* [Slot -> Host \cup {NoHost}]: git never looks at dead hosts
  NoHost,
  Floating,   \* the slots whose ref can move
  Modes,      \* the modes runs may be started in
  Faults,     \* the steps of replacing a slot that the file system may refuse
  None,       \* nothing there: no tree, no meta file, no result yet
  Partial,    \* a tree of which RemoveAll has deleted a part
  Torn,       \* a meta file that was truncated and not written yet
  NotCached, Unreachable, NotFound, Failed,   \* the errors of Resolve
  MaxPush,    \* how often remote refs move
  MaxCrash    \* how many runs are killed

ASSUME ResolverAssumption ==
  /\ RunOf \in [Call -> Run] /\ KeyOf \in [Call -> Key]
  /\ SlotOf \in [Key -> Slot] /\ HostOf \in [Slot -> Host \cup {NoHost}]
  /\ Floating \subseteq Slot /\ Modes \subseteq {"missing", "offline", "refresh"}
  /\ Faults \subseteq {"remove", "rename", "open", "write"}
  /\ MaxPush \in Nat /\ MaxCrash \in Nat

Rev    == 0 .. MaxPush
Error  == {NotCached, Unreachable, NotFound, Failed}
Answer == Rev \cup Error

ASSUME ValuesApart ==
  /\ {None, Partial, Torn} \cap Answer = {} /\ Error \cap Rev = {}
  /\ Unreachable \notin {NotCached, NotFound, Failed}
  /\ Partial # None /\ Torn # None /\ NoHost \notin Host

VARIABLES
  head,    \* [Slot -> Rev]: where the remote ref points
  tree,    \* [Slot -> Rev, None or Partial]: the directory
  meta,    \* [Slot -> Rev, None or Torn]: the .json file next to it
  failures,   \* the pairs of a slot and a step of replacing it that has failed
  state,   \* [Run -> "new", "running", "over"]
  mode,    \* [Run -> Modes]
  once,    \* [Run \X Key -> "absent", "running", "done"]: Resolver.once
  res,     \* [Run \X Key -> Answer or None]: call.res and call.err
  down,    \* Resolver.down, for every run
  pc, got, out, seen,   \* per call: its step, what it fetched, returned, read
  dialled, \* the calls that went to the network
  pushes, crashes

disk     == <<tree, meta, failures>>
resolver == <<once, res, down>>
env      == <<head, state, mode, pushes, crashes>>
vars     == <<env, disk, resolver, pc, got, out, seen, dialled>>

run(c)  == RunOf[c]
entry(c) == <<RunOf[c], KeyOf[c]>>
slot(c) == SlotOf[KeyOf[c]]
host(c) == HostOf[slot(c)]

Init ==
  /\ head = [s \in Slot |-> 0]
  /\ tree \in [Slot -> {None, 0}]
  /\ meta = tree
  /\ failures = {}
  /\ state = [r \in Run |-> "new"]
  /\ mode \in [Run -> Modes]
  /\ once = [e \in Run \X Key |-> "absent"]
  /\ res = [e \in Run \X Key |-> None]
  /\ down = {}
  /\ pc = [c \in Call |-> "new"] /\ got = [c \in Call |-> None]
  /\ out = [c \in Call |-> None] /\ seen = [c \in Call |-> None]
  /\ dialled = {}
  /\ pushes = 0 /\ crashes = 0

-----------------------------------------------------------------------------
(* How a call ends: the owner stores the answer and closes call.done.      *)
Publish(c, a) ==
  /\ once' = [once EXCEPT ![entry(c)] = "done"]
  /\ res' = [res EXCEPT ![entry(c)] = a]
  /\ out' = [out EXCEPT ![c] = a]
  /\ pc' = [pc EXCEPT ![c] = "returned"]

At(c, step)   == state[run(c)] = "running" /\ pc[c] = step
Goto(c, step) == pc' = [pc EXCEPT ![c] = step]

(* Faults, as in Schedule.                                                 *)
FaultBegin(c) ==      \* looks up and inserts under separate locks
  /\ At(c, "new")
  /\ IF once[entry(c)] # "done"
     THEN once' = [once EXCEPT ![entry(c)] = "running"] /\ Goto(c, "lookup")
     ELSE Goto(c, "wait") /\ UNCHANGED once
  /\ UNCHANGED <<env, disk, res, down, got, out, seen, dialled>>

FaultPatience(c) ==   \* waits for whoever left the slot half-written
  /\ At(c, "lookup")
  /\ tree[slot(c)] # None => meta[slot(c)] \in Rev
  /\ IF tree[slot(c)] # None
     THEN Publish(c, meta[slot(c)])
     ELSE Goto(c, "ask") /\ UNCHANGED <<once, res, out>>
  /\ UNCHANGED <<env, disk, down, got, seen, dialled>>

FaultFetch(c) ==      \* writes the meta file before the tree is replaced
  /\ At(c, "dial")
  /\ got' = [got EXCEPT ![c] = head[slot(c)]]
  /\ meta' = [meta EXCEPT ![slot(c)] = head[slot(c)]]
  /\ dialled' = dialled \cup {c}
  /\ Goto(c, "remove")
  /\ UNCHANGED <<env, tree, failures, resolver, out, seen>>

FaultRefuseMarks(c) ==   \* any error counts as a dead host
  /\ At(c, "dial")
  /\ \E a \in {NotFound, Failed} : Publish(c, a)
  /\ dialled' = dialled \cup {c}
  /\ down' = down \cup {<<run(c), host(c)>>}
  /\ UNCHANGED <<env, disk, got, seen>>

FaultRefuse(c) ==     \* an error returns without closing call.done
  /\ At(c, "dial")
  /\ \E a \in {NotFound, Failed} : out' = [out EXCEPT ![c] = a]
  /\ Goto(c, "returned")
  /\ dialled' = dialled \cup {c}
  /\ UNCHANGED <<env, disk, resolver, got, seen>>

FaultJoin(c) ==       \* does not wait for call.done
  /\ At(c, "wait")
  /\ out' = [out EXCEPT ![c] = res[entry(c)]]
  /\ Goto(c, "returned")
  /\ UNCHANGED <<env, disk, resolver, got, seen, dialled>>

FaultRename(c) ==     \* the meta file, and the answer, are what head is now
  /\ At(c, "rename")
  /\ tree' = [tree EXCEPT ![slot(c)] = got[c]]
  /\ got' = [got EXCEPT ![c] = head[slot(c)]]
  /\ Goto(c, "truncate")
  /\ UNCHANGED <<env, meta, failures, resolver, out, seen, dialled>>

-----------------------------------------------------------------------------
(* Resolve, under the mutex: the first call with a key owns it.            *)
Begin(c) ==
  /\ At(c, "new")
  /\ IF once[entry(c)] = "absent"
     THEN once' = [once EXCEPT ![entry(c)] = "running"] /\ Goto(c, "lookup")
     ELSE Goto(c, "wait") /\ UNCHANGED once
  /\ UNCHANGED <<env, disk, res, down, got, out, seen, dialled>>

(* <-c.done: whatever the owner found.                                     *)
Join(c) ==
  /\ At(c, "wait") /\ once[entry(c)] = "done"
  /\ out' = [out EXCEPT ![c] = res[entry(c)]]
  /\ Goto(c, "returned")
  /\ UNCHANGED <<env, disk, resolver, got, seen, dialled>>

(* readMeta and dirExists.  A hit is final unless a floating ref is to be  *)
(* refreshed; a miss is final offline.                                     *)
Hit(c) ==
  /\ meta[slot(c)] \in Rev /\ tree[slot(c)] # None
  /\ slot(c) \in Floating => mode[run(c)] # "refresh"

Lookup(c) ==
  /\ At(c, "lookup")
  /\ \/ /\ Hit(c)
        /\ Publish(c, meta[slot(c)])
        /\ UNCHANGED <<env, disk, down, got, seen, dialled>>
     \/ /\ ~Hit(c) /\ mode[run(c)] = "offline"
        /\ Publish(c, NotCached)
        /\ UNCHANGED <<env, disk, down, got, seen, dialled>>
     \/ /\ ~Hit(c) /\ mode[run(c)] # "offline"
        /\ Goto(c, "ask")
        /\ UNCHANGED <<env, disk, resolver, got, out, seen, dialled>>

(* hostDown: a host that could not be reached is not tried again.          *)
Ask(c) ==
  /\ At(c, "ask")
  /\ IF <<run(c), host(c)>> \in down
     THEN Publish(c, Unreachable) /\ UNCHANGED down
     ELSE Goto(c, "dial") /\ UNCHANGED <<resolver, out>>
  /\ UNCHANGED <<env, disk, got, seen, dialled>>

(* What the network may answer: no connection, a refusal (or the timeout   *)
(* of the call), or the content.                                           *)
NoConnection(c) ==
  /\ At(c, "dial")
  /\ dialled' = dialled \cup {c}
  /\ \/ /\ host(c) # NoHost
        /\ Goto(c, "mark")
        /\ UNCHANGED <<resolver, out>>
     \/ /\ host(c) = NoHost
        /\ Publish(c, Failed) /\ UNCHANGED down
  /\ UNCHANGED <<env, disk, got, seen>>

(* markDown takes the mutex on its own, after the call has failed.         *)
Mark(c) ==
  /\ At(c, "mark")
  /\ down' = down \cup {<<run(c), host(c)>>}
  /\ Publish(c, Failed)
  /\ UNCHANGED <<env, disk, got, seen, dialled>>

Refuse(c) ==
  /\ At(c, "dial")
  /\ \E a \in {NotFound, Failed} : Publish(c, a)
  /\ dialled' = dialled \cup {c}
  /\ UNCHANGED <<env, disk, down, got, seen>>

Fetch(c) ==
  /\ At(c, "dial")
  /\ got' = [got EXCEPT ![c] = head[slot(c)]]
  /\ dialled' = dialled \cup {c}
  /\ Goto(c, "remove")
  /\ UNCHANGED <<env, disk, resolver, out, seen>>

(* A step of replacing the slot that the file system refuses.              *)
Fails(c, step) ==
  /\ step \in Faults
  /\ failures' = failures \cup {<<slot(c), step>>}

(* os.RemoveAll(slot) deletes file by file, so it has a middle, and it may *)
(* give up at any file: nobody looks at its error.                         *)
Remove(c) ==
  /\ At(c, "remove")
  /\ \/ /\ tree[slot(c)] \in Rev
        /\ tree' = [tree EXCEPT ![slot(c)] = Partial]
        /\ UNCHANGED <<pc, failures>>
     \/ /\ tree[slot(c)] \notin Rev
        /\ tree' = [tree EXCEPT ![slot(c)] = None] /\ Goto(c, "rename")
        /\ UNCHANGED failures
     \/ /\ tree[slot(c)] # None /\ Fails(c, "remove")
        /\ Goto(c, "rename") /\ UNCHANGED tree
  /\ UNCHANGED <<env, meta, resolver, got, out, seen, dialled>>

(* os.Rename(tmp, slot) fails over a directory; as there is one then, that *)
(* is no error.  It is one where nothing is in the way.                    *)
Rename(c) ==
  /\ At(c, "rename")
  /\ \/ /\ tree' = IF tree[slot(c)] = None THEN [tree EXCEPT ![slot(c)] = got[c]] ELSE tree
        /\ Goto(c, "truncate")
        /\ UNCHANGED <<once, res, out, failures>>
     \/ /\ tree[slot(c)] = None /\ Fails(c, "rename")
        /\ Publish(c, Failed) /\ UNCHANGED tree
  /\ UNCHANGED <<env, meta, down, got, seen, dialled>>

(* os.WriteFile(metaPath) opens and truncates, then writes.                *)
Truncate(c) ==
  /\ At(c, "truncate")
  /\ \/ /\ meta' = [meta EXCEPT ![slot(c)] = Torn]
        /\ Goto(c, "write")
        /\ UNCHANGED <<once, res, out, failures>>
     \/ /\ Fails(c, "open")
        /\ Publish(c, Failed) /\ UNCHANGED meta
  /\ UNCHANGED <<env, tree, down, got, seen, dialled>>

WriteMeta(c) ==
  /\ At(c, "write")
  /\ \/ /\ meta' = [meta EXCEPT ![slot(c)] = got[c]]
        /\ Publish(c, got[c]) /\ UNCHANGED failures
     \/ /\ Fails(c, "write")
        /\ Publish(c, Failed) /\ UNCHANGED meta
  /\ UNCHANGED <<env, tree, down, got, seen, dialled>>

(* The renderer builds from the directory it was given.                    *)
Use(c) ==
  /\ At(c, "returned") /\ out[c] \in Rev
  /\ seen' = [seen EXCEPT ![c] = tree[slot(c)]]
  /\ Goto(c, "used")
  /\ UNCHANGED <<env, disk, resolver, got, out, dialled>>

-----------------------------------------------------------------------------
(* Outside: runs follow one another, remote refs move, a run is killed.    *)
StartRun(r) ==
  /\ state[r] = "new" /\ \A q \in Run : state[q] # "running"
  /\ state' = [state EXCEPT ![r] = "running"]
  /\ UNCHANGED <<head, mode, pushes, crashes, disk, resolver, pc, got, out, seen, dialled>>

Finished(c) == pc[c] = "used" \/ (pc[c] = "returned" /\ out[c] \in Error)

EndRun(r) ==
  /\ state[r] = "running" /\ \A c \in Call : run(c) = r => Finished(c)
  /\ state' = [state EXCEPT ![r] = "over"]
  /\ UNCHANGED <<head, mode, pushes, crashes, disk, resolver, pc, got, out, seen, dialled>>

Crash(r) ==
  /\ state[r] = "running" /\ crashes < MaxCrash
  /\ state' = [state EXCEPT ![r] = "over"]
  /\ crashes' = crashes + 1
  /\ UNCHANGED <<head, mode, pushes, disk, resolver, pc, got, out, seen, dialled>>

Push(s) ==
  /\ s \in Floating /\ pushes < MaxPush
  /\ head' = [head EXCEPT ![s] = pushes + 1]
  /\ pushes' = pushes + 1
  /\ UNCHANGED <<state, mode, crashes, disk, resolver, pc, got, out, seen, dialled>>

Step(c) ==
  \/ Begin(c) \/ Join(c) \/ Lookup(c) \/ Ask(c)
  \/ NoConnection(c) \/ Mark(c) \/ Refuse(c) \/ Fetch(c)
  \/ Remove(c) \/ Rename(c) \/ Truncate(c) \/ WriteMeta(c) \/ Use(c)

Next ==
  \/ \E c \in Call : Step(c)
  \/ \E r \in Run : StartRun(r) \/ EndRun(r) \/ Crash(r)
  \/ \E s \in Slot : Push(s)

Spec == Init /\ [][Next]_vars

(* Goroutines are scheduled, every fetch is bounded by opts.Timeout, and a *)
(* run that can start does.                                                *)
FairSpec ==
  /\ Spec
  /\ \A c \in Call : WF_vars(Step(c))
  /\ \A r \in Run : WF_vars(StartRun(r)) /\ WF_vars(EndRun(r))

-----------------------------------------------------------------------------
TypeOK ==
  /\ head \in [Slot -> Rev]
  /\ tree \in [Slot -> Rev \cup {None, Partial}]
  /\ meta \in [Slot -> Rev \cup {None, Torn}]
  /\ failures \in SUBSET (Slot \X Faults)
  /\ state \in [Run -> {"new", "running", "over"}]
  /\ mode \in [Run -> Modes]
  /\ once \in [Run \X Key -> {"absent", "running", "done"}]
  /\ res \in [Run \X Key -> Answer \cup {None}]
  /\ down \in SUBSET (Run \X Host)
  /\ pc \in [Call -> {"new", "wait", "lookup", "ask", "dial", "mark", "remove",
                      "rename", "truncate", "write", "returned", "used"}]
  /\ got \in [Call -> Rev \cup {None}]
  /\ out \in [Call -> Answer \cup {None}]
  /\ \A c \in Call : out[c] # None <=> pc[c] \in {"returned", "used"}
  /\ seen \in [Call -> Rev \cup {None, Partial}]
  /\ dialled \in SUBSET Call
  /\ pushes \in 0 .. MaxPush /\ crashes \in 0 .. MaxCrash

(* Each distinct source is resolved once per Resolver: no two calls of one *)
(* run fetch into the same slot.  Holds where keys tell apart exactly what *)
(* slots do.                                                               *)
ResolvedOnce ==
  \A c, d \in dialled : run(c) = run(d) /\ slot(c) = slot(d) => c = d

(* Within a run all calls for a slot agree, even while the remote moves:   *)
(* head and base, and two entrypoints, are compared on the same content.   *)
CallsAgree ==
  \A c, d \in Call :
    run(c) = run(d) /\ slot(c) = slot(d) /\ out[c] # None /\ out[d] # None => out[c] = out[d]

(* No failure has left a slot's tree and meta file at odds: a tree that    *)
(* could not be removed stays where the new one should be, and a meta file *)
(* that could not be opened still names what a moving ref was before.      *)
Sound(s) ==
  /\ <<s, "remove">> \notin failures
  /\ s \in Floating => <<s, "open">> \notin failures

(* What a caller finds in the directory is the whole of the revision that  *)
(* the report will name, whatever other step of replacing the slot failed. *)
ServesWhatItSays ==
  \A c \in Call : pc[c] = "used" /\ Sound(slot(c)) => seen[c] = out[c]

(* An answer "unreachable" goes back to a call of this run that did find   *)
(* this host unreachable.                                                  *)
DeadHostWasTried ==
  \A c \in Call : out[c] = Unreachable =>
    \E d \in dialled : run(d) = run(c) /\ host(d) = host(c) /\ out[d] = Failed

(* Every call of every run returns, unless the run is killed.              *)
EveryCallReturns ==
  \A c \in Call : <>(pc[c] \in {"returned", "used"} \/ crashes > 0)

(* A run that is killed does not keep a later one from ending.             *)
EveryRunEnds == \A r \in Run : <>(state[r] = "over")

(* Resolve implements the shared answer, key by key.                       *)
AbsKeyOf == [c \in Call |-> entry(c)]
answer   == [e \in Run \X Key |-> IF once[e] = "done" THEN res[e] ELSE None]
Shared   == INSTANCE SharedAnswer WITH
              Key <- Run \X Key, KeyOf <- AbsKeyOf, answer <- answer, returned <- out
SharedAnswerSpec == Shared!Spec
=============================================================================
