--------------------------- MODULE Resolver_proofs ---------------------------
(***************************************************************************)
(* What the resolver promises, proved for any number of calls, runs, keys  *)
(* and slots, whatever the remote does, whichever runs are killed and      *)
(* whichever steps of replacing a slot the file system refuses.            *)
(*                                                                         *)
(* The argument: at most one call owns an entry of Resolver.once, it is    *)
(* the only one that fetches for it, and an answer, once stored, stays.    *)
(* So a slot that no other key leads to is changed by one call at a time,  *)
(* and kills and failures leave it in one of the states the next hit test  *)
(* was meant for (unless its ref floats and a run was killed, or a failure *)
(* has left tree and meta file at odds: Sound).                            *)
(***************************************************************************)
EXTENDS Resolver, TLAPS

(* A call that owns its entry; that has content in hand; that has been to  *)
(* the network.                                                            *)
Owning  == {"lookup", "ask", "dial", "mark", "remove", "rename", "truncate", "write"}
Holding == {"remove", "rename", "truncate", "write"}
Dialled == Holding \cup {"mark", "returned", "used"}
Steps   == Owning \cup {"new", "wait", "returned", "used"}

calls == <<once, res, pc, got, out, dialled>>

CallInv ==
  /\ once \in [Run \X Key -> {"absent", "running", "done"}]
  /\ res \in [Run \X Key -> Answer \cup {None}]
  /\ pc \in [Call -> Steps]
  /\ got \in [Call -> Rev \cup {None}]
  /\ out \in [Call -> Answer \cup {None}]
  /\ dialled \in SUBSET Call
  /\ \A c \in Call : out[c] # None <=> pc[c] \in {"returned", "used"}
  /\ \A c \in Call : pc[c] \in Holding => got[c] \in Rev
  /\ \A c \in Call : pc[c] = "mark" => host(c) \in Host /\ c \in dialled
  /\ \A c \in Call : pc[c] \in Owning => once[entry(c)] = "running"
  /\ \A c, d \in Call : pc[c] \in Owning /\ pc[d] \in Owning /\ entry(c) = entry(d) => c = d
  /\ \A e \in Run \X Key : once[e] = "done" <=> res[e] # None
  /\ \A c \in Call : out[c] # None => out[c] = res[entry(c)]
  /\ \A c \in dialled : pc[c] \in Dialled
  /\ \A c, d \in dialled : entry(c) = entry(d) => c = d

DiskInv ==
  /\ head \in [Slot -> Rev]
  /\ tree \in [Slot -> Rev \cup {None, Partial}]
  /\ meta \in [Slot -> Rev \cup {None, Torn}]
  /\ failures \in SUBSET (Slot \X Faults)
  /\ state \in [Run -> {"new", "running", "over"}]
  /\ mode \in [Run -> Modes]
  /\ down \in SUBSET (Run \X Host)
  /\ seen \in [Call -> Rev \cup {None, Partial}]
  /\ pushes \in 0 .. MaxPush /\ crashes \in 0 .. MaxCrash

LEMMA Entries ==
  \A c \in Call : /\ run(c) \in Run /\ KeyOf[c] \in Key /\ slot(c) \in Slot
                  /\ entry(c) \in Run \X Key /\ host(c) \in Host \cup {NoHost}
  BY ResolverAssumption DEF run, slot, entry, host

LEMMA NoneIsNoAnswer == None \notin Answer /\ Rev \subseteq Answer /\ Error \subseteq Answer
  BY ValuesApart DEF Answer

LEMMA ErrorsAre == {NotCached, Unreachable, NotFound, Failed} = Error /\ Error \subseteq Answer
  BY DEF Error, Answer

-----------------------------------------------------------------------------
(* The calls.  What an owner does is either to store an answer or to go on *)
(* to its next step; a call that does not own its entry waits for it.      *)
LEMMA CallInit == Init => CallInv
  BY Entries, NoneIsNoAnswer DEF Init, CallInv, Owning, Holding, Steps

LEMMA PublishKeeps ==
  ASSUME CallInv, NEW c \in Call, pc[c] \in Owning, NEW a \in Answer, Publish(c, a),
         dialled' = dialled \/ dialled' = dialled \cup {c},
         got' = got
  PROVE  CallInv'
  <1> USE Entries, NoneIsNoAnswer DEF Publish, CallInv
  <1>1. /\ once' = [once EXCEPT ![entry(c)] = "done"] /\ res' = [res EXCEPT ![entry(c)] = a]
        /\ out' = [out EXCEPT ![c] = a] /\ pc' = [pc EXCEPT ![c] = "returned"]
        /\ entry(c) \in Run \X Key /\ a # None
    OBVIOUS
  <1>2. /\ once' \in [Run \X Key -> {"absent", "running", "done"}]
        /\ res' \in [Run \X Key -> Answer \cup {None}]
        /\ out' \in [Call -> Answer \cup {None}]
        /\ pc' \in [Call -> Steps]
        /\ dialled' \in SUBSET Call
    BY <1>1 DEF Steps
  <1>3. \A d \in Call : d # c => out'[d] = out[d] /\ pc'[d] = pc[d]
    BY <1>1
  <1>4. out'[c] = a /\ pc'[c] = "returned"
    BY <1>1
  <1>5. \A d \in Call : /\ out'[d] # None <=> pc'[d] \in {"returned", "used"}
                        /\ pc'[d] \in Holding => got'[d] \in Rev
                        /\ pc'[d] = "mark" => host(d) \in Host /\ d \in dialled'
    BY <1>1, <1>3, <1>4 DEF Holding
  <1>6. \A d \in Call : pc'[d] \in Owning => d # c /\ pc[d] \in Owning
    BY <1>3, <1>4 DEF Owning
  <1>7. \A d \in Call : pc'[d] \in Owning => entry(d) # entry(c) /\ once'[entry(d)] = "running"
    BY <1>1, <1>6
  <1>8. \A e \in Run \X Key : once'[e] = "done" <=> res'[e] # None
    BY <1>1
  <1>9. \A d \in Call : out'[d] # None => out'[d] = res'[entry(d)]
    <2> SUFFICES ASSUME NEW d \in Call, out'[d] # None, d # c PROVE out'[d] = res'[entry(d)]
      BY <1>1, <1>4
    <2>1. out[d] = res[entry(d)] /\ res[entry(d)] # None
      BY <1>3
    <2>2. entry(d) # entry(c)
      BY <2>1
    <2> QED BY <1>1, <1>3, <2>1, <2>2
  <1>10. \A d \in dialled' : pc'[d] \in Dialled
    BY <1>3, <1>4 DEF Dialled
  <1>11. \A d \in dialled : entry(d) = entry(c) => d = c
    <2> SUFFICES ASSUME NEW d \in dialled, entry(d) = entry(c), d # c PROVE FALSE
      OBVIOUS
    <2>1. pc[d] \notin Owning
      OBVIOUS
    <2>2. pc[d] \in {"returned", "used"}
      BY <2>1 DEF Dialled, Holding, Owning
    <2>3. res[entry(d)] # None /\ once[entry(c)] = "running"
      BY <2>2
    <2> QED BY <2>3
  <1>12. \A d, f \in dialled' : entry(d) = entry(f) => d = f
    BY <1>11
  <1>13. entry(c)' = entry(c) /\ \A d \in Call : entry(d)' = entry(d) /\ host(d)' = host(d)
    BY DEF entry, host, run, slot
  <1> QED BY <1>2, <1>5, <1>6, <1>7, <1>8, <1>9, <1>10, <1>12 DEF entry, host, run, slot

LEMMA AdvanceKeeps ==
  ASSUME CallInv, NEW c \in Call, pc[c] \in Owning, NEW step \in Owning, Goto(c, step),
         UNCHANGED <<once, res, out>>,
         got' = got \/ \E h \in Rev : got' = [got EXCEPT ![c] = h],
         step \in Holding => got'[c] \in Rev,
         dialled' = dialled \/ dialled' = dialled \cup {c},
         c \in dialled' => step \in Dialled,
         step = "mark" => host(c) \in Host /\ c \in dialled'
  PROVE  CallInv'
  <1> USE Entries, NoneIsNoAnswer DEF Goto, CallInv
  <1>1. /\ pc' = [pc EXCEPT ![c] = step]
        /\ once' = once /\ res' = res /\ out' = out
    OBVIOUS
  <1>2. \A d \in Call : d # c => pc'[d] = pc[d] /\ got'[d] = got[d]
    BY <1>1
  <1>3. pc'[c] = step /\ pc[c] \notin {"returned", "used"} /\ step \notin {"returned", "used"}
    BY <1>1 DEF Owning
  <1>4. pc' \in [Call -> Steps] /\ got' \in [Call -> Rev \cup {None}] /\ dialled' \in SUBSET Call
    <2>1. pc' \in [Call -> Steps]
      BY <1>1 DEF Steps
    <2>2. got' \in [Call -> Rev \cup {None}]
      <3>1. CASE got' = got
        BY <3>1
      <3>2. ASSUME NEW h \in Rev, got' = [got EXCEPT ![c] = h] PROVE got' \in [Call -> Rev \cup {None}]
        BY <3>2
      <3> QED BY <3>1, <3>2
    <2> QED BY <2>1, <2>2
  <1>5. \A d \in Call : /\ out'[d] # None <=> pc'[d] \in {"returned", "used"}
                        /\ pc'[d] \in Holding => got'[d] \in Rev
                        /\ pc'[d] = "mark" => host(d) \in Host /\ d \in dialled'
    BY <1>1, <1>2, <1>3
  <1>6. \A d \in Call : pc'[d] \in Owning <=> pc[d] \in Owning
    BY <1>2, <1>3
  <1>7. \A d \in dialled' : pc'[d] \in Dialled
    BY <1>2, <1>3
  <1>8. \A d \in dialled : entry(d) = entry(c) => d = c
    <2> SUFFICES ASSUME NEW d \in dialled, entry(d) = entry(c), d # c PROVE FALSE
      OBVIOUS
    <2>1. pc[d] \in {"returned", "used"}
      BY DEF Dialled, Holding, Owning
    <2> QED BY <2>1
  <1>9. \A d, f \in dialled' : entry(d) = entry(f) => d = f
    BY <1>8
  <1> QED BY <1>1, <1>4, <1>5, <1>6, <1>7, <1>9 DEF entry, host, run, slot

(* One call moves.                                                         *)
LEMMA CallStep ==
  ASSUME CallInv, DiskInv, NEW c \in Call, Step(c)
  PROVE  CallInv'
  <1> USE Entries, NoneIsNoAnswer, ErrorsAre
  <1>1. CASE Begin(c)
    <2> USE DEF Begin, At, Goto, CallInv
    <2>0. \A d \in Call : entry(d)' = entry(d) /\ host(d)' = host(d)
      BY DEF entry, host, run, slot
    <2>1. /\ res' = res /\ got' = got /\ out' = out /\ dialled' = dialled /\ pc[c] = "new"
          /\ \A d \in Call : d # c => pc'[d] = pc[d]
      BY <1>1
    <2>2. CASE once[entry(c)] = "absent"
      <3>1. once' = [once EXCEPT ![entry(c)] = "running"] /\ pc' = [pc EXCEPT ![c] = "lookup"]
        BY <1>1, <2>2
      <3>2. \A d \in Call : pc[d] \in Owning => entry(d) # entry(c)
        BY <2>2
      <3>3. pc' \in [Call -> Steps] /\ once' \in [Run \X Key -> {"absent", "running", "done"}]
        BY <3>1 DEF Steps, Owning
      <3>4. \A d \in Call : pc'[d] \in Owning =>
              once'[entry(d)] = "running" /\ (d = c \/ (pc[d] \in Owning /\ entry(d) # entry(c)))
        BY <3>1, <3>2
      <3>5. \A e \in Run \X Key : once'[e] = "done" <=> res'[e] # None
        BY <2>1, <2>2, <3>1
      <3>6. pc'[c] = "lookup"
        BY <3>1
      <3>7. c \notin dialled /\ out[c] = None
        BY <2>1 DEF Dialled, Holding
      <3>8. \A d \in Call : /\ out'[d] # None <=> pc'[d] \in {"returned", "used"}
                            /\ pc'[d] \in Holding => got'[d] \in Rev
                            /\ pc'[d] = "mark" => host(d) \in Host /\ d \in dialled'
        BY <2>1, <3>6, <3>7 DEF Holding
      <3>9. \A d, f \in Call : pc'[d] \in Owning /\ pc'[f] \in Owning /\ entry(d) = entry(f) => d = f
        BY <3>4
      <3>10. \A d \in dialled' : pc'[d] \in Dialled
        BY <2>1, <3>7
      <3> QED BY <2>0, <2>1, <3>3, <3>4, <3>5, <3>8, <3>9, <3>10
    <2>3. CASE once[entry(c)] # "absent"
      <3>1. once' = once /\ pc' = [pc EXCEPT ![c] = "wait"]
        BY <1>1, <2>3
      <3>2. pc' \in [Call -> Steps] /\ pc'[c] = "wait"
        BY <3>1 DEF Steps
      <3>3. c \notin dialled /\ out[c] = None
        BY <2>1 DEF Dialled, Holding
      <3>4. \A d \in Call : pc'[d] \in Owning => d # c /\ pc[d] \in Owning
        BY <2>1, <3>2 DEF Owning
      <3>5. \A d \in Call : /\ out'[d] # None <=> pc'[d] \in {"returned", "used"}
                            /\ pc'[d] \in Holding => got'[d] \in Rev
                            /\ pc'[d] = "mark" => host(d) \in Host /\ d \in dialled'
        BY <2>1, <3>2, <3>3 DEF Holding
      <3>6. \A d \in dialled' : pc'[d] \in Dialled
        BY <2>1, <3>3
      <3> QED BY <2>0, <2>1, <3>1, <3>2, <3>4, <3>5, <3>6
    <2> QED BY <2>2, <2>3
  <1>2. CASE Join(c)
    <2>1. /\ once' = once /\ res' = res /\ got' = got /\ dialled' = dialled /\ pc[c] = "wait"
          /\ out' = [out EXCEPT ![c] = res[entry(c)]] /\ pc' = [pc EXCEPT ![c] = "returned"]
          /\ once[entry(c)] = "done"
      BY <1>2 DEF Join, At, Goto, resolver
    <2> USE DEF CallInv
    <2>2. res[entry(c)] # None /\ res[entry(c)] \in Answer \cup {None}
      BY <2>1
    <2>3. \A d \in Call : d # c => pc'[d] = pc[d] /\ out'[d] = out[d]
      BY <2>1
    <2>4. pc'[c] = "returned" /\ out'[c] = res[entry(c)]
      BY <2>1
    <2>5. pc' \in [Call -> Steps] /\ out' \in [Call -> Answer \cup {None}]
      BY <2>1, <2>2 DEF Steps
    <2>6. \A d \in Call : pc'[d] \in Owning => d # c /\ pc[d] \in Owning
      BY <2>3, <2>4 DEF Owning
    <2>7. \A d \in Call : /\ out'[d] # None <=> pc'[d] \in {"returned", "used"}
                          /\ pc'[d] \in Holding => got'[d] \in Rev
                          /\ pc'[d] = "mark" => host(d) \in Host /\ d \in dialled'
      BY <2>1, <2>2, <2>3, <2>4 DEF Holding
    <2>8. \A d \in Call : out'[d] # None => out'[d] = res'[entry(d)]
      BY <2>1, <2>3, <2>4
    <2>9. \A d \in dialled' : pc'[d] \in Dialled
      BY <2>1, <2>3, <2>4 DEF Dialled
    <2> QED BY <2>1, <2>5, <2>6, <2>7, <2>8, <2>9 DEF entry, host, run, slot
  <1>3. CASE Lookup(c)
    <2>1. pc[c] \in Owning
      BY <1>3 DEF Lookup, At, Owning
    <2>2. ASSUME Hit(c), Publish(c, meta[slot(c)]), dialled' = dialled, got' = got PROVE CallInv'
      BY <2>1, <2>2, PublishKeeps DEF Hit
    <2>3. ASSUME Publish(c, NotCached), dialled' = dialled, got' = got PROVE CallInv'
      BY <2>1, <2>3, PublishKeeps
    <2>4. ASSUME Goto(c, "ask"), UNCHANGED <<resolver, got, out, dialled>> PROVE CallInv'
      BY <1>3, <2>1, <2>4, AdvanceKeeps DEF resolver, Owning, Holding, Dialled, CallInv, Lookup, At
    <2> QED BY <1>3, <2>2, <2>3, <2>4 DEF Lookup
  <1>4. CASE Ask(c)
    <2>1. pc[c] \in Owning /\ c \notin dialled
      BY <1>4 DEF Ask, At, Owning, CallInv, Dialled, Holding
    <2>2. ASSUME Publish(c, Unreachable), dialled' = dialled, got' = got PROVE CallInv'
      BY <2>1, <2>2, PublishKeeps
    <2>3. ASSUME Goto(c, "dial"), UNCHANGED <<resolver, got, out, dialled>> PROVE CallInv'
      BY <2>1, <2>3, AdvanceKeeps DEF resolver, Owning, Holding
    <2> QED BY <1>4, <2>2, <2>3 DEF Ask
  <1>5. CASE NoConnection(c)
    <2>1. pc[c] \in Owning /\ dialled' = dialled \cup {c} /\ got' = got
      BY <1>5 DEF NoConnection, At, Owning
    <2>2. ASSUME Publish(c, Failed) PROVE CallInv'
      BY <2>1, <2>2, PublishKeeps
    <2>3. ASSUME host(c) # NoHost, Goto(c, "mark"), UNCHANGED <<resolver, out>> PROVE CallInv'
      BY <2>1, <2>3, AdvanceKeeps DEF resolver, Owning, Holding, Dialled
    <2> QED BY <1>5, <2>2, <2>3 DEF NoConnection
  <1>6. CASE Mark(c)
    BY <1>6, PublishKeeps DEF Mark, At, Owning
  <1>7. CASE Refuse(c)
    BY <1>7, PublishKeeps DEF Refuse, At, Owning
  <1>8. CASE Fetch(c)
    <2>1. /\ pc[c] \in Owning /\ dialled' = dialled \cup {c} /\ head[slot(c)] \in Rev
          /\ got' = [got EXCEPT ![c] = head[slot(c)]] /\ Goto(c, "remove")
          /\ UNCHANGED <<once, res, out>>
      BY <1>8 DEF Fetch, At, Owning, resolver, DiskInv
    <2>2. got'[c] \in Rev
      BY <2>1 DEF CallInv
    <2> QED BY <2>1, <2>2, AdvanceKeeps DEF Owning, Holding, Dialled
  <1>9. CASE Remove(c)
    <2>1. UNCHANGED <<once, res, out, got, dialled>> /\ pc[c] = "remove"
      BY <1>9 DEF Remove, At, resolver
    <2>2. CASE pc' = pc
      BY <2>1, <2>2 DEF CallInv, entry, host, run, slot
    <2>3. CASE Goto(c, "rename")
      BY <2>1, <2>3, AdvanceKeeps DEF Owning, Holding, Dialled, CallInv
    <2> QED BY <1>9, <2>2, <2>3 DEF Remove
  <1>10. CASE Rename(c)
    <2>1. got' = got /\ dialled' = dialled /\ pc[c] = "rename" /\ pc[c] \in Owning
      BY <1>10 DEF Rename, At, Owning
    <2>2. ASSUME Publish(c, Failed) PROVE CallInv'
      BY <2>1, <2>2, PublishKeeps
    <2>3. ASSUME Goto(c, "truncate"), UNCHANGED <<once, res, out>> PROVE CallInv'
      BY <2>1, <2>3, AdvanceKeeps DEF Owning, Holding, Dialled, CallInv
    <2> QED BY <1>10, <2>2, <2>3 DEF Rename
  <1>11. CASE Truncate(c)
    <2>1. got' = got /\ dialled' = dialled /\ pc[c] = "truncate" /\ pc[c] \in Owning
      BY <1>11 DEF Truncate, At, Owning
    <2>2. ASSUME Publish(c, Failed) PROVE CallInv'
      BY <2>1, <2>2, PublishKeeps
    <2>3. ASSUME Goto(c, "write"), UNCHANGED <<once, res, out>> PROVE CallInv'
      BY <2>1, <2>3, AdvanceKeeps DEF Owning, Holding, Dialled, CallInv
    <2> QED BY <1>11, <2>2, <2>3 DEF Truncate
  <1>12. CASE WriteMeta(c)
    <2>1. got[c] \in Answer /\ pc[c] \in Owning /\ got' = got /\ dialled' = dialled
      BY <1>12 DEF WriteMeta, At, CallInv, Holding, Owning
    <2>2. ASSUME NEW a \in Answer, Publish(c, a) PROVE CallInv'
      BY <2>1, <2>2, PublishKeeps
    <2> QED BY <1>12, <2>1, <2>2 DEF WriteMeta
  <1>13. CASE Use(c)
    <2>1. /\ UNCHANGED <<once, res, out, got, dialled>> /\ pc[c] = "returned"
          /\ pc' = [pc EXCEPT ![c] = "used"]
      BY <1>13 DEF Use, At, Goto, resolver
    <2> QED BY <2>1 DEF CallInv, Holding, Owning, Dialled, Steps, entry, host, run, slot
  <1> QED BY <1>1, <1>2, <1>3, <1>4, <1>5, <1>6, <1>7, <1>8, <1>9, <1>10, <1>11, <1>12, <1>13
          DEF Step

(* The environment leaves the calls alone.                                 *)
LEMMA CallFrame == CallInv /\ UNCHANGED calls => CallInv'
  BY DEF CallInv, calls, entry, host, run, slot

LEMMA DiskInit == Init => DiskInv
  BY ResolverAssumption DEF Init, DiskInv, Rev

LEMMA DiskStep == CallInv /\ DiskInv /\ [Next]_vars => DiskInv'
  <1> SUFFICES ASSUME CallInv, DiskInv, [Next]_vars PROVE DiskInv'
    OBVIOUS
  <1> USE Entries, ResolverAssumption DEF DiskInv, disk, env
  <1>1. ASSUME NEW c \in Call, Begin(c) \/ Join(c) \/ Lookup(c) \/ Ask(c)
                               \/ NoConnection(c) \/ Refuse(c) \/ Fetch(c)
        PROVE  DiskInv'
    BY <1>1 DEF Begin, Join, Lookup, Ask, NoConnection, Refuse, Fetch, resolver
  <1>2. ASSUME NEW c \in Call, Mark(c) PROVE DiskInv'
    BY <1>2 DEF Mark, At, CallInv
  <1>3. ASSUME NEW c \in Call, Remove(c) PROVE DiskInv'
    <2>1. UNCHANGED <<env, meta, resolver, seen>>
          /\ (tree' = tree \/ \E t \in {Partial, None} : tree' = [tree EXCEPT ![slot(c)] = t])
      BY <1>3 DEF Remove
    <2>2. failures' \in SUBSET (Slot \X Faults)
      BY <1>3 DEF Remove, Fails
    <2>3. tree' \in [Slot -> Rev \cup {None, Partial}]
      BY <2>1
    <2> QED BY <2>1, <2>2, <2>3 DEF resolver
  <1>4. ASSUME NEW c \in Call, Rename(c) PROVE DiskInv'
    <2>1. UNCHANGED <<env, meta, down, seen>>
      BY <1>4 DEF Rename
    <2>2. failures' \in SUBSET (Slot \X Faults)
      BY <1>4 DEF Rename, Fails
    <2>3. tree' \in [Slot -> Rev \cup {None, Partial}]
      <3>1. got[c] \in Rev
        BY <1>4 DEF Rename, At, CallInv, Holding
      <3>2. tree' = tree \/ tree' = [tree EXCEPT ![slot(c)] = got[c]]
        BY <1>4 DEF Rename
      <3> QED BY <3>1, <3>2
    <2> QED BY <2>1, <2>2, <2>3
  <1>5. ASSUME NEW c \in Call, Truncate(c) PROVE DiskInv'
    <2>1. UNCHANGED <<env, tree, down, seen>>
      BY <1>5 DEF Truncate
    <2>2. failures' \in SUBSET (Slot \X Faults)
      BY <1>5 DEF Truncate, Fails
    <2>3. meta' \in [Slot -> Rev \cup {None, Torn}]
      BY <1>5 DEF Truncate
    <2> QED BY <2>1, <2>2, <2>3
  <1>6. ASSUME NEW c \in Call, WriteMeta(c) PROVE DiskInv'
    <2>1. UNCHANGED <<env, tree, down, seen>>
      BY <1>6 DEF WriteMeta
    <2>2. failures' \in SUBSET (Slot \X Faults)
      BY <1>6 DEF WriteMeta, Fails
    <2>3. meta' \in [Slot -> Rev \cup {None, Torn}]
      BY <1>6 DEF WriteMeta, At, CallInv, Holding
    <2> QED BY <2>1, <2>2, <2>3
  <1>7. ASSUME NEW c \in Call, Use(c) PROVE DiskInv'
    BY <1>7 DEF Use, resolver
  <1>8. ASSUME NEW r \in Run, StartRun(r) \/ EndRun(r) \/ Crash(r) PROVE DiskInv'
    <2>1. UNCHANGED <<head, mode, pushes, tree, meta, failures, down, seen>>
      BY <1>8 DEF StartRun, EndRun, Crash, resolver
    <2>2. state' \in [Run -> {"new", "running", "over"}] /\ crashes' \in 0 .. MaxCrash
      BY <1>8 DEF StartRun, EndRun, Crash
    <2> QED BY <2>1, <2>2
  <1>9. ASSUME NEW s \in Slot, Push(s) PROVE DiskInv'
    BY <1>9 DEF Push, Rev, resolver
  <1>10. CASE UNCHANGED vars
    BY <1>10 DEF vars, resolver
  <1> QED BY <1>1, <1>2, <1>3, <1>4, <1>5, <1>6, <1>7, <1>8, <1>9, <1>10 DEF Next, Step

LEMMA Invariance == Spec => [](CallInv /\ DiskInv)
  <1>1. CallInv /\ DiskInv /\ [Next]_vars => CallInv'
    <2> SUFFICES ASSUME CallInv, DiskInv, [Next]_vars PROVE CallInv'
      OBVIOUS
    <2>1. ASSUME NEW r \in Run, StartRun(r) \/ EndRun(r) \/ Crash(r) PROVE UNCHANGED calls
      BY <2>1 DEF StartRun, EndRun, Crash, calls, resolver
    <2>2. ASSUME NEW s \in Slot, Push(s) PROVE UNCHANGED calls
      BY <2>2 DEF Push, calls, resolver
    <2>3. CASE UNCHANGED vars
      BY <2>3, CallFrame DEF vars, calls, resolver
    <2> QED BY <2>1, <2>2, <2>3, CallStep, CallFrame DEF Next
  <1> QED BY <1>1, CallInit, DiskInit, DiskStep, PTL DEF Spec

(* The types of the resolver and of the cache.                             *)
THEOREM TypeCorrect == Spec => []TypeOK
  <1>1. CallInv /\ DiskInv => TypeOK
    BY DEF CallInv, DiskInv, TypeOK, Steps, Owning
  <1> QED BY <1>1, Invariance, PTL

-----------------------------------------------------------------------------
(* Keys that tell apart whatever slots tell apart.                         *)
KeysAreSlots == \A k, l \in Key : SlotOf[k] = SlotOf[l] => k = l

LEMMA SameSlot ==
  ASSUME KeysAreSlots, NEW c \in Call, NEW d \in Call, run(c) = run(d), slot(c) = slot(d)
  PROVE  entry(c) = entry(d)
  BY Entries DEF KeysAreSlots, entry, run, slot

(* No two calls of one run fetch the same source.                          *)
THEOREM ResolvedOnceCorrect == KeysAreSlots => (Spec => []ResolvedOnce)
  <1> SUFFICES ASSUME KeysAreSlots PROVE Spec => []ResolvedOnce
    OBVIOUS
  <1>1. CallInv => ResolvedOnce
    BY SameSlot DEF CallInv, ResolvedOnce
  <1> QED BY <1>1, Invariance, PTL

(* All calls of one run for one slot return the same answer.               *)
THEOREM CallsAgreeCorrect == KeysAreSlots => (Spec => []CallsAgree)
  <1> SUFFICES ASSUME KeysAreSlots PROVE Spec => []CallsAgree
    OBVIOUS
  <1>1. CallInv => CallsAgree
    BY SameSlot DEF CallInv, CallsAgree
  <1> QED BY <1>1, Invariance, PTL

-----------------------------------------------------------------------------
(* What a step may do to the answers: an owner stores one, a call that     *)
(* waited takes it over, or nothing.                                       *)
Stores(c, a) == pc[c] \in Owning /\ Publish(c, a)
Answers      == <<res, out>>

LEMMA StepAnswers ==
  ASSUME CallInv, DiskInv, NEW c \in Call, Step(c)
  PROVE  \/ \E a \in Answer : Stores(c, a)
         \/ Join(c)
         \/ UNCHANGED Answers /\ \A e \in Run \X Key : once'[e] = "done" <=> once[e] = "done"
  <1> USE NoneIsNoAnswer, ErrorsAre, Entries DEF Stores, Answers, At, resolver
  <1>1. CASE Begin(c)
    BY <1>1 DEF Begin, CallInv
  <1>2. CASE Lookup(c)
    BY <1>2 DEF Lookup, Hit, Owning
  <1>3. CASE Ask(c) \/ NoConnection(c) \/ Mark(c) \/ Refuse(c)
    BY <1>3 DEF Ask, NoConnection, Mark, Refuse, Owning
  <1>4. CASE Rename(c) \/ Truncate(c) \/ WriteMeta(c)
    BY <1>4 DEF Rename, Truncate, WriteMeta, Owning, CallInv, Holding
  <1>5. CASE Fetch(c) \/ Remove(c) \/ Use(c)
    BY <1>5 DEF Fetch, Remove, Use
  <1> QED BY <1>1, <1>2, <1>3, <1>4, <1>5 DEF Step

LEMMA NextAnswers ==
  ASSUME CallInv, DiskInv, [Next]_vars
  PROVE  \/ \E c \in Call : \E a \in Answer : Stores(c, a)
         \/ \E c \in Call : Join(c)
         \/ UNCHANGED Answers /\ \A e \in Run \X Key : once'[e] = "done" <=> once[e] = "done"
  <1>1. CASE \E c \in Call : Step(c)
    BY <1>1, StepAnswers
  <1>2. CASE \E r \in Run : StartRun(r) \/ EndRun(r) \/ Crash(r)
    BY <1>2 DEF StartRun, EndRun, Crash, resolver, Answers
  <1>3. CASE \E s \in Slot : Push(s)
    BY <1>3 DEF Push, resolver, Answers
  <1>4. CASE UNCHANGED vars
    BY <1>4 DEF vars, resolver, Answers
  <1> QED BY <1>1, <1>2, <1>3, <1>4 DEF Next

LEMMA OwnersAreBusy ==
  ASSUME CallInv, NEW c \in Call, pc[c] \in Owning
  PROVE  once[entry(c)] = "running" /\ out[c] = None
  <1>1. pc[c] \notin {"returned", "used"}
    BY DEF Owning
  <1> QED BY <1>1 DEF CallInv

LEMMA WaitersAreIdle ==
  ASSUME CallInv, NEW c \in Call, pc[c] = "wait", once[entry(c)] = "done"
  PROVE  out[c] = None /\ res[entry(c)] # None
  <1>1. pc[c] \notin {"returned", "used"}
    OBVIOUS
  <1> QED BY <1>1, Entries DEF CallInv

(* The resolver implements the shared answer: storing an answer decides    *)
(* it, waiting for it returns it, and everything else leaves it alone.     *)
THEOREM SharedAnswerCorrect == Spec => SharedAnswerSpec
  <1>1. Init => Shared!Init
    BY DEF Init, Shared!Init, answer
  <1>2. ASSUME CallInv, DiskInv, [Next]_vars PROVE [Shared!Next]_<<answer, out>>
    <2> USE Entries, NoneIsNoAnswer
    <2>1. \A c \in Call : AbsKeyOf[c] = entry(c)
      BY DEF AbsKeyOf
    <2>2. ASSUME NEW c \in Call, NEW a \in Answer, Stores(c, a) PROVE Shared!Decide(c, a)
      <3>1. once[entry(c)] = "running" /\ out[c] = None
        BY <1>2, <2>2, OwnersAreBusy DEF Stores
      <3>2. answer[entry(c)] = None
        BY <3>1 DEF answer
      <3>3. /\ once' = [once EXCEPT ![entry(c)] = "done"] /\ res' = [res EXCEPT ![entry(c)] = a]
            /\ out' = [out EXCEPT ![c] = a]
        BY <2>2 DEF Stores, Publish
      <3>4. answer' = [answer EXCEPT ![entry(c)] = a]
        <4>1. once \in [Run \X Key -> {"absent", "running", "done"}] /\ res \in [Run \X Key -> Answer \cup {None}]
          BY <1>2 DEF CallInv
        <4> QED BY <3>3, <4>1 DEF answer
      <3> QED BY <2>1, <3>1, <3>2, <3>3, <3>4 DEF Shared!Decide
    <2>3. ASSUME NEW c \in Call, Join(c) PROVE Shared!Return(c)
      <3>1. /\ pc[c] = "wait" /\ once[entry(c)] = "done" /\ UNCHANGED <<once, res>>
            /\ out' = [out EXCEPT ![c] = res[entry(c)]]
        BY <2>3 DEF Join, At, resolver
      <3>2. out[c] = None /\ res[entry(c)] # None
        BY <1>2, <3>1, WaitersAreIdle
      <3>3. answer[entry(c)] = res[entry(c)] /\ answer' = answer
        BY <3>1 DEF answer
      <3> QED BY <2>1, <3>1, <3>2, <3>3 DEF Shared!Return
    <2>4. CASE UNCHANGED Answers /\ \A e \in Run \X Key : once'[e] = "done" <=> once[e] = "done"
      BY <2>4 DEF answer, Answers
    <2> QED BY <1>2, <2>2, <2>3, <2>4, NextAnswers DEF Shared!Next
  <1> QED BY <1>1, <1>2, Invariance, PTL DEF Spec, SharedAnswerSpec, Shared!Spec

-----------------------------------------------------------------------------
(* Dead hosts.                                                             *)
Tried(r, h) == \E d \in dialled : run(d) = r /\ host(d) = h /\ out[d] = Failed
DownInv ==
  /\ \A r \in Run, h \in Host : <<r, h>> \in down => Tried(r, h)
  /\ \A c \in Call : res[entry(c)] = Unreachable => Tried(run(c), host(c))

LEMMA DialledStays ==
  ASSUME CallInv, DiskInv, [Next]_vars
  PROVE  dialled \subseteq dialled' /\ \A d \in Call : out[d] # None => out'[d] = out[d]
  <1>1. \A d \in Call : out[d] # None => out'[d] = out[d]
    BY NextAnswers DEF Stores, Answers, Publish, Join, At, CallInv, Owning
  <1>2. dialled \subseteq dialled'
    <2>1. ASSUME NEW c \in Call, Step(c) PROVE dialled \subseteq dialled'
      BY <2>1 DEF Step, Begin, Join, Lookup, Ask, NoConnection, Mark, Refuse, Fetch, Remove, Rename,
                  Truncate, WriteMeta, Use
    <2> QED BY <2>1 DEF Next, StartRun, EndRun, Crash, Push, vars
  <1> QED BY <1>1, <1>2

LEMMA TriedStays ==
  ASSUME CallInv, DiskInv, [Next]_vars, NEW r, NEW h, Tried(r, h)
  PROVE  Tried(r, h)'
  <1>1. PICK d \in dialled : run(d) = r /\ host(d) = h /\ out[d] = Failed
    BY DEF Tried
  <1>2. d \in Call /\ out[d] # None
    BY <1>1, NoneIsNoAnswer, ErrorsAre DEF CallInv
  <1> QED BY <1>1, <1>2, DialledStays DEF Tried, run, host, slot

LEMMA StoreUnreachable ==
  ASSUME CallInv, DiskInv, DownInv, NEW c \in Call, Step(c), Stores(c, Unreachable)
  PROVE  Tried(run(c), host(c))
  <1>1. pc'[c] = "returned" /\ out'[c] = Unreachable
    BY DEF Stores, Publish, CallInv
  <1>2. Unreachable \notin Rev \cup {NotCached, NotFound, Failed}
    BY ValuesApart DEF Error
  <1>3. Ask(c)
    <2>1. pc[c] \in Owning /\ Unreachable \in Answer
      BY ErrorsAre DEF Stores
    <2>2. out' = [out EXCEPT ![c] = Unreachable] /\ out'[c] # out[c]
      BY <1>1, OwnersAreBusy, NoneIsNoAnswer, <2>1 DEF Stores, Publish
    <2>3. ~Begin(c) /\ ~Join(c) /\ ~Fetch(c) /\ ~Remove(c) /\ ~Use(c)
      BY <2>1, <2>2 DEF Begin, Join, Fetch, Remove, Use, At, Owning, resolver
    <2>4. ~Lookup(c)
      BY <1>1, <1>2 DEF Lookup, Hit, Publish, Goto, CallInv, resolver
    <2>5. ~NoConnection(c) /\ ~Mark(c) /\ ~Refuse(c)
      BY <1>1, <1>2 DEF NoConnection, Mark, Refuse, Publish, Goto, CallInv, resolver
    <2>6. ~Rename(c) /\ ~Truncate(c) /\ ~WriteMeta(c)
      BY <1>1, <1>2, <2>2 DEF Rename, Truncate, WriteMeta, At, Publish, CallInv, Holding
    <2> QED BY <2>3, <2>4, <2>5, <2>6 DEF Step
  <1>4. <<run(c), host(c)>> \in down
    BY <1>1, <1>3 DEF Ask, Goto, CallInv
  <1>5. host(c) \in Host
    BY <1>4 DEF DiskInv
  <1> QED BY <1>4, <1>5, Entries DEF DownInv

LEMMA DownStep == CallInv /\ DiskInv /\ DownInv /\ [Next]_vars => DownInv'
  <1> SUFFICES ASSUME CallInv, DiskInv, DownInv, [Next]_vars PROVE DownInv'
    OBVIOUS
  <1>1. \A r \in Run, h \in Host : <<r, h>> \in down' => Tried(r, h)'
    <2> SUFFICES ASSUME NEW r \in Run, NEW h \in Host, <<r, h>> \in down' PROVE Tried(r, h)'
      OBVIOUS
    <2>1. CASE <<r, h>> \in down
      BY <2>1, TriedStays DEF DownInv
    <2>2. CASE <<r, h>> \notin down
      <3>1. PICK c \in Call : Mark(c) /\ <<r, h>> = <<run(c), host(c)>>
        BY <2>2 DEF Next, Step, Begin, Join, Lookup, Ask, NoConnection, Mark, Refuse, Fetch, Remove,
                    Rename, Truncate, WriteMeta, Use, StartRun, EndRun, Crash, Push, vars, resolver
      <3>2. c \in dialled' /\ out'[c] = Failed
        BY <3>1 DEF Mark, At, Publish, CallInv
      <3> QED BY <3>1, <3>2 DEF Tried, run, host, slot
    <2> QED BY <2>1, <2>2
  <1>2. \A d \in Call : res'[entry(d)] = Unreachable => Tried(run(d), host(d))'
    <2> SUFFICES ASSUME NEW d \in Call, res'[entry(d)] = Unreachable
                 PROVE  Tried(run(d), host(d))
      BY TriedStays DEF run, host, slot, Tried
    <2>1. CASE res'[entry(d)] = res[entry(d)]
      BY <2>1 DEF DownInv
    <2>2. CASE res'[entry(d)] # res[entry(d)]
      <3>1. PICK c \in Call : Step(c)
        BY <2>2 DEF Next, StartRun, EndRun, Crash, Push, vars, resolver
      <3>2. PICK a \in Answer : Stores(c, a)
        BY <2>2, <3>1, StepAnswers DEF Answers, Join, resolver
      <3>3. entry(d) = entry(c) /\ a = Unreachable
        BY <2>2, <3>2, Entries DEF Stores, Publish, CallInv
      <3>4. Tried(run(c), host(c))
        BY <3>1, <3>2, <3>3, StoreUnreachable
      <3> QED BY <3>3, <3>4 DEF entry, run, host, slot
    <2> QED BY <2>1, <2>2
  <1> QED BY <1>1, <1>2 DEF DownInv, entry, run, host, slot

(* Only a call of the same run that failed to connect silences a host.     *)
THEOREM DeadHostCorrect == Spec => []DeadHostWasTried
  <1>1. Init => DownInv
    BY Entries, NoneIsNoAnswer, ErrorsAre DEF Init, DownInv
  <1>2. CallInv /\ DownInv => DeadHostWasTried
    <2> SUFFICES ASSUME CallInv, DownInv, NEW c \in Call, out[c] = Unreachable
                 PROVE  Tried(run(c), host(c))
      BY DEF DeadHostWasTried, Tried
    <2>1. res[entry(c)] = Unreachable
      BY NoneIsNoAnswer, ErrorsAre DEF CallInv
    <2> QED BY <2>1 DEF DownInv
  <1> QED BY <1>1, <1>2, DownStep, Invariance, PTL DEF Spec

-----------------------------------------------------------------------------
(* What callers read.  A slot can be trusted if no failure has left it at  *)
(* odds, and if its ref is pinned or no run was killed.  Unless a call is replacing a floating ref, a trusted   *)
(* slot whose meta file is whole holds the tree it names; of a pinned ref  *)
(* at every point a run can be killed at, since no slot that can be served *)
(* is replaced.  Only the owner of its entry, in the only run there is,    *)
(* changes a slot.                                                         *)
Live(c) == state[run(c)] = "running"

Fetching == {"ask", "dial", "mark"} \cup Holding

Trusted(s)  == Sound(s) /\ (s \notin Floating \/ crashes = 0)
Replaced(s) == s \in Floating /\ \E c \in Call : Live(c) /\ slot(c) = s /\ pc[c] \in Holding
Agrees(s)   == meta[s] \in Rev => tree[s] = meta[s] \/ (s \in Floating /\ tree[s] = None)

Owned(c) ==
  /\ pc[c] \in Fetching /\ slot(c) \notin Floating => meta[slot(c)] \notin Rev
  /\ pc[c] = "rename" => tree[slot(c)] = None
  /\ pc[c] \in {"truncate", "write"} => tree[slot(c)] = got[c]
  /\ pc[c] = "write" => meta[slot(c)] \notin Rev
  /\ res[entry(c)] \in Rev => tree[slot(c)] = res[entry(c)]

RunInv ==
  /\ \A q, r \in Run : state[q] = "running" /\ state[r] = "running" => q = r
  /\ \A c \in Call : state[run(c)] = "new" => pc[c] = "new" /\ res[entry(c)] = None

SlotInv ==
  /\ RunInv
  /\ \A s \in Slot : Trusted(s) => Replaced(s) \/ Agrees(s)
  /\ \A c \in Call : Live(c) /\ Trusted(slot(c)) => Owned(c)
  /\ \A c \in Call : pc[c] = "used" /\ Trusted(slot(c)) => seen[c] = out[c]

LEMMA RevValues == None \notin Rev /\ Partial \notin Rev /\ Torn \notin Rev /\ Error \cap Rev = {}
  BY ValuesApart, ResolverAssumption DEF Rev, Answer

LEMMA SlotInit == Init => SlotInv
  BY Entries, RevValues DEF Init, SlotInv, Agrees, RunInv, Live, Owned, Fetching, Holding

(* Nobody else has business with the slot of an owner.                     *)
LEMMA Alone ==
  ASSUME KeysAreSlots, CallInv, RunInv, NEW c \in Call, NEW d \in Call, d # c,
         pc[c] \in Owning, Live(c), Live(d), slot(c) = slot(d)
  PROVE  entry(c) = entry(d) /\ pc[d] \notin Owning
  <1>1. run(c) = run(d)
    BY Entries DEF RunInv, Live
  <1>2. entry(c) = entry(d)
    BY <1>1, SameSlot
  <1> QED BY <1>2 DEF CallInv

LEMMA NotReplaced ==
  ASSUME KeysAreSlots, CallInv, RunInv, NEW c \in Call, pc[c] \in Owning \ Holding, Live(c)
  PROVE  ~Replaced(slot(c))
  <1>1. ASSUME NEW d \in Call, Live(d), slot(d) = slot(c), pc[d] \in Holding PROVE FALSE
    BY <1>1, Alone DEF Owning, Holding
  <1> QED BY <1>1 DEF Replaced

(* What the step of an owner leaves alone.                                 *)
Aside(c) ==
  /\ UNCHANGED <<state, crashes, seen>>
  /\ \A d \in Call : d # c => pc'[d] = pc[d] /\ got'[d] = got[d]
  /\ \A s \in Slot : s # slot(c) => tree'[s] = tree[s] /\ meta'[s] = meta[s]
  /\ \A e \in Run \X Key : e # entry(c) => res'[e] = res[e]
  /\ pc'[c] # "used"

(* A slot that is distrusted stays so.                                     *)
LEMMA TrustedBefore ==
  ASSUME DiskInv, [Next]_vars, NEW s, Trusted(s)'
  PROVE  Trusted(s)
  <1>1. crashes' = crashes \/ crashes' = crashes + 1
    BY DEF Next, Step, Begin, Join, Lookup, Ask, NoConnection, Mark, Refuse, Fetch, Remove, Rename, Truncate,
           WriteMeta, Use, StartRun, EndRun, Crash, Push, vars, env
  <1>2. failures \subseteq failures'
    BY DEF Next, Step, Begin, Join, Lookup, Ask, NoConnection, Mark, Refuse, Fetch, Remove, Rename, Truncate,
           WriteMeta, Use, StartRun, EndRun, Crash, Push, vars, disk, Fails
  <1> QED BY <1>1, <1>2, ResolverAssumption DEF Trusted, Sound, DiskInv

LEMMA OwnerMoves ==
  ASSUME KeysAreSlots, CallInv, SlotInv, NEW c \in Call, pc[c] \in Owning, Live(c),
         Aside(c), Trusted(slot(c))' => Owned(c)', \A s : Trusted(s)' => Trusted(s)
  PROVE  /\ \A d \in Call : Live(d)' /\ Trusted(slot(d))' => Owned(d)'
         /\ RunInv'
  <1> USE DEF Aside
  <1>1. ASSUME NEW d \in Call, Live(d)', Trusted(slot(d))', d # c PROVE Owned(d)'
    <2>1. Live(d) /\ Owned(d) /\ pc'[d] = pc[d] /\ got'[d] = got[d]
      BY <1>1 DEF SlotInv, Live, run, slot
    <2>2. CASE slot(d) = slot(c)
      <3>1. entry(d) = entry(c) /\ pc'[d] \notin Owning
        BY <1>1, <2>1, <2>2, Alone DEF SlotInv
      <3>2. pc'[d] \notin Fetching /\ Owned(c)'
        BY <1>1, <2>2, <3>1 DEF Fetching, Holding, Owning, slot
      <3> QED BY <2>2, <3>1, <3>2 DEF Owned, Fetching, Holding, entry, slot
    <2>3. CASE slot(d) # slot(c)
      <3>1. entry(d) # entry(c) /\ entry(d) \in Run \X Key /\ slot(d) \in Slot
        BY <2>3, Entries DEF entry, slot
      <3>2. res'[entry(d)] = res[entry(d)] /\ tree'[slot(d)] = tree[slot(d)] /\ meta'[slot(d)] = meta[slot(d)]
        BY <2>3, <3>1
      <3> QED BY <2>1, <3>2 DEF Owned, entry, slot
    <2> QED BY <2>2, <2>3
  <1>2. RunInv'
    <2>1. ASSUME NEW d \in Call, state[run(d)] = "new" PROVE pc'[d] = "new" /\ res'[entry(d)] = None
      <3>1. run(d) # run(c) /\ d # c
        BY <2>1 DEF Live
      <3>2. entry(d) # entry(c) /\ entry(d) \in Run \X Key
        BY <3>1, Entries DEF entry, run
      <3> QED BY <2>1, <3>1, <3>2 DEF SlotInv, RunInv
    <2> QED BY <2>1 DEF SlotInv, RunInv, run, entry
  <1> QED BY <1>1, <1>2

(* What was read stays right.                                              *)
LEMMA UsedStays ==
  ASSUME CallInv, DiskInv, SlotInv, [Next]_vars, seen' = seen,
         \A d \in Call : pc'[d] = "used" => pc[d] = "used"
  PROVE  \A d \in Call : pc'[d] = "used" /\ Trusted(slot(d))' => seen'[d] = out'[d]
  <1> SUFFICES ASSUME NEW d \in Call, pc'[d] = "used", Trusted(slot(d))' PROVE seen'[d] = out'[d]
    OBVIOUS
  <1>1. pc[d] = "used" /\ out[d] # None
    BY DEF CallInv
  <1>2. Trusted(slot(d))
    BY TrustedBefore DEF slot
  <1> QED BY <1>1, <1>2, DialledStays DEF SlotInv

(* The owner of an entry moves, and leaves its slot as Owned wants it.     *)
LEMMA OwnerStep ==
  ASSUME KeysAreSlots, CallInv, DiskInv, SlotInv, NEW c \in Call, Step(c), pc[c] \in Owning
  PROVE  /\ Live(c) /\ Aside(c)
         /\ Trusted(slot(c))' => Owned(c)' /\ (Replaced(slot(c)) \/ Agrees(slot(c)))'
  <1> DEFINE Good == Trusted(slot(c))' => Owned(c)' /\ (Replaced(slot(c)) \/ Agrees(slot(c)))'
  <1>0. /\ Live(c) /\ slot(c) \in Slot /\ entry(c) \in Run \X Key
        /\ Trusted(slot(c)) => Owned(c)
        /\ Trusted(slot(c))' => Trusted(slot(c))
        /\ res[entry(c)] = None /\ entry(c)' = entry(c) /\ slot(c)' = slot(c) /\ run(c)' = run(c)
    <2>1. Live(c)
      BY DEF Step, At, Live, Begin, Join, Lookup, Ask, NoConnection, Mark, Refuse, Fetch, Remove,
             Rename, Truncate, WriteMeta, Use
    <2>2. res[entry(c)] = None
      BY Entries, OwnersAreBusy DEF CallInv
    <2>3. Trusted(slot(c))' => Trusted(slot(c))
      BY TrustedBefore DEF Next, slot
    <2> QED BY <2>1, <2>2, <2>3, Entries DEF SlotInv, entry, slot, run
  <1>1. ~Begin(c) /\ ~Join(c) /\ ~Use(c)
    BY DEF Begin, Join, Use, At, Owning
  <1>2. pc[c] \notin Holding /\ Trusted(slot(c)) => Agrees(slot(c))
    BY <1>0, NotReplaced DEF SlotInv
  <1>3. ASSUME Live(c)', slot(c) \in Floating, pc'[c] \in Holding PROVE Replaced(slot(c))'
    BY <1>0, <1>3 DEF Replaced
  <1> USE <1>0, RevValues DEF At, Goto
  <1>4. CASE Lookup(c) /\ Publish(c, meta[slot(c)]) /\ Hit(c)
    <2>1. UNCHANGED <<env, disk, got, seen>> /\ pc[c] = "lookup"
      BY <1>4 DEF Lookup
    <2>2. Trusted(slot(c)) => tree[slot(c)] = meta[slot(c)]
      BY <1>2, <1>4, <2>1 DEF Hit, Agrees, Holding
    <2>3. Aside(c)
      BY <2>1, <1>4 DEF Aside, Publish, CallInv, env, disk
    <2>4. pc'[c] = "returned" /\ res'[entry(c)] = meta[slot(c)]
      BY <1>4 DEF Publish, CallInv
    <2>5. Good
      BY <2>1, <2>2, <2>4 DEF Owned, Agrees, Fetching, Holding, env, disk
    <2> QED BY <2>3, <2>5
  <1>5. CASE Lookup(c) /\ ~Hit(c)
    <2>1. UNCHANGED <<env, disk, got, seen>> /\ pc[c] = "lookup"
      BY <1>5 DEF Lookup
    <2>2. Trusted(slot(c)) => Agrees(slot(c))
      BY <1>2, <2>1 DEF Holding
    <2>3. CASE Publish(c, NotCached)
      <3>1. Aside(c)
        BY <2>1, <2>3 DEF Aside, Publish, CallInv, env, disk
      <3>2. pc'[c] = "returned" /\ res'[entry(c)] \notin Rev
        BY <2>3 DEF Publish, CallInv, Error
      <3>3. Good
        BY <2>1, <2>2, <3>2 DEF Owned, Agrees, Fetching, Holding, env, disk
      <3> QED BY <3>1, <3>3
    <2>4. CASE Goto(c, "ask") /\ UNCHANGED resolver
      <3>1. Trusted(slot(c)) /\ slot(c) \notin Floating => meta[slot(c)] \notin Rev
        BY <1>5, <2>2 DEF Hit, Agrees
      <3>2. Aside(c)
        BY <2>1, <2>4 DEF Aside, CallInv, env, disk, resolver
      <3>3. pc'[c] = "ask" /\ res' = res
        BY <2>4 DEF CallInv, resolver
      <3>4. Good
        BY <2>1, <2>2, <3>1, <3>3 DEF Owned, Agrees, Fetching, Holding, env, disk
      <3> QED BY <3>2, <3>4
    <2> QED BY <1>5, <2>3, <2>4 DEF Lookup
  <1>6. CASE Ask(c) \/ NoConnection(c) \/ Mark(c) \/ Refuse(c)
    <2>1. UNCHANGED <<env, disk, got, seen>> /\ pc[c] \in {"ask", "dial", "mark"}
      BY <1>6 DEF Ask, NoConnection, Mark, Refuse
    <2>2. Trusted(slot(c)) => Agrees(slot(c))
      BY <1>2, <2>1 DEF Holding
    <2>3. ASSUME NEW a \in Error, Publish(c, a) PROVE Aside(c) /\ Good
      <3>1. Aside(c)
        BY <2>1, <2>3 DEF Aside, Publish, CallInv, env, disk
      <3>2. pc'[c] = "returned" /\ res'[entry(c)] \notin Rev
        BY <2>3 DEF Publish, CallInv
      <3>3. Good
        BY <2>1, <2>2, <3>2 DEF Owned, Agrees, Fetching, Holding, env, disk
      <3> QED BY <3>1, <3>3
    <2>4. ASSUME NEW step \in {"dial", "mark"}, Goto(c, step), UNCHANGED resolver PROVE Aside(c) /\ Good
      <3>1. Aside(c)
        BY <2>1, <2>4 DEF Aside, CallInv, env, disk, resolver
      <3>2. pc'[c] \in {"dial", "mark"} /\ res' = res
        BY <2>4 DEF CallInv, resolver
      <3>3. Good
        BY <2>1, <2>2, <3>2 DEF Owned, Agrees, Fetching, Holding, env, disk
      <3> QED BY <3>1, <3>3
    <2> QED BY <1>6, <2>3, <2>4, ErrorsAre DEF Ask, NoConnection, Mark, Refuse
  <1>7. CASE Fetch(c)
    <2>1. UNCHANGED <<env, disk, resolver, seen>> /\ pc[c] = "dial" /\ pc'[c] = "remove"
      BY <1>7 DEF Fetch, CallInv
    <2>2. Aside(c)
      BY <1>7, <2>1 DEF Aside, Fetch, CallInv, env, disk, resolver
    <2>3. Trusted(slot(c)) => Agrees(slot(c))
      BY <1>2, <2>1 DEF Holding
    <2>4. Good
      BY <2>1, <2>3 DEF Owned, Agrees, Fetching, Holding, env, disk, resolver
    <2> QED BY <2>2, <2>4
  <1>8. CASE Remove(c)
    <2>1. UNCHANGED <<env, meta, resolver, got, seen>> /\ pc[c] = "remove"
      BY <1>8 DEF Remove
    <2>2. Aside(c)
      BY <1>8, <2>1 DEF Aside, Remove, CallInv, DiskInv, env, resolver
    <2>3. \/ pc'[c] = "remove" /\ tree'[slot(c)] = Partial
          \/ pc'[c] = "rename" /\ tree'[slot(c)] = None
          \/ <<slot(c), "remove">> \in failures'
      BY <1>8 DEF Remove, Fails, CallInv, DiskInv
    <2>4. CASE pc'[c] \in {"remove", "rename"} /\ tree'[slot(c)] \in {None, Partial}
                /\ (pc'[c] = "rename" => tree'[slot(c)] = None)
      <3>1. Live(c)' /\ pc'[c] \in Holding
        BY <2>1, <2>4 DEF Live, Holding, env
      <3> QED BY <1>3, <2>1, <2>2, <2>4, <3>1 DEF Owned, Agrees, Fetching, Holding, env, resolver
    <2>5. CASE <<slot(c), "remove">> \in failures'
      BY <2>2, <2>5 DEF Trusted, Sound
    <2> QED BY <2>3, <2>4, <2>5
  <1>9. ASSUME Publish(c, Failed), UNCHANGED <<env, tree, meta, got, seen>>, pc[c] \in {"rename", "truncate", "write"},
               pc[c] = "truncate" => <<slot(c), "open">> \in failures'
        PROVE  Aside(c) /\ Good
    <2>1. Aside(c)
      BY <1>9 DEF Aside, Publish, CallInv, env
    <2>2. pc'[c] = "returned" /\ res'[entry(c)] \notin Rev
      BY <1>9, ErrorsAre DEF Publish, CallInv
    <2>3. Trusted(slot(c))' => (slot(c) \in Floating => pc[c] # "truncate")
      BY <1>9 DEF Trusted, Sound
    <2>4. Trusted(slot(c))' => Agrees(slot(c))'
      BY <1>9, <2>3 DEF Owned, Agrees, Fetching, Holding
    <2> QED BY <2>1, <2>2, <2>4 DEF Owned, Fetching, Holding
  <1>10. CASE Rename(c) \/ Truncate(c) \/ WriteMeta(c)
    <2>1. UNCHANGED <<env, got, seen>> /\ pc[c] \in {"rename", "truncate", "write"}
      BY <1>10 DEF Rename, Truncate, WriteMeta
    <2>2. CASE Rename(c) /\ Goto(c, "truncate") /\ UNCHANGED <<meta, res>>
                /\ tree' = IF tree[slot(c)] = None THEN [tree EXCEPT ![slot(c)] = got[c]] ELSE tree
      <3>1. Aside(c)
        BY <2>1, <2>2 DEF Aside, CallInv, DiskInv, env
      <3>2. pc[c] = "rename" /\ pc'[c] = "truncate" /\ (tree[slot(c)] = None => tree'[slot(c)] = got[c])
        BY <2>1, <2>2 DEF Rename, CallInv, DiskInv
      <3>3. Live(c)' /\ pc'[c] \in Holding
        BY <2>1, <3>2 DEF Live, Holding, env
      <3> QED BY <1>3, <2>1, <2>2, <3>1, <3>2, <3>3 DEF Owned, Agrees, Fetching, Holding, env
    <2>3. CASE Truncate(c) /\ Goto(c, "write") /\ UNCHANGED <<tree, res>>
                /\ meta' = [meta EXCEPT ![slot(c)] = Torn]
      <3>1. Aside(c)
        BY <2>1, <2>3 DEF Aside, CallInv, DiskInv, env
      <3>2. pc[c] = "truncate" /\ pc'[c] = "write" /\ meta'[slot(c)] = Torn
        BY <2>1, <2>3 DEF Truncate, CallInv, DiskInv
      <3> QED BY <2>1, <2>3, <3>1, <3>2 DEF Owned, Agrees, Fetching, Holding, env
    <2>4. CASE WriteMeta(c) /\ Publish(c, got[c]) /\ tree' = tree
                /\ meta' = [meta EXCEPT ![slot(c)] = got[c]]
      <3>1. Aside(c)
        BY <2>1, <2>4 DEF Aside, Publish, CallInv, DiskInv, env
      <3>2. /\ pc[c] = "write" /\ pc'[c] = "returned"
            /\ meta'[slot(c)] = got[c] /\ res'[entry(c)] = got[c]
        BY <2>1, <2>4 DEF WriteMeta, Publish, CallInv, DiskInv
      <3> QED BY <2>1, <2>4, <3>1, <3>2 DEF Owned, Agrees, Fetching, Holding, env
    <2>5. CASE Publish(c, Failed) /\ UNCHANGED <<tree, meta>>
                /\ (pc[c] = "truncate" => <<slot(c), "open">> \in failures')
      BY <1>9, <2>1, <2>5
    <2> QED BY <1>10, <2>2, <2>3, <2>4, <2>5 DEF Rename, Truncate, WriteMeta, Fails
  <1>12. Lookup(c) => (Publish(c, meta[slot(c)]) /\ Hit(c)) \/ ~Hit(c)
    BY DEF Lookup
  <1> QED BY <1>1, <1>4, <1>5, <1>6, <1>7, <1>8, <1>10, <1>12 DEF Step

LEMMA SlotStep ==
  ASSUME KeysAreSlots
  PROVE  CallInv /\ DiskInv /\ SlotInv /\ [Next]_vars => SlotInv'
  <1> SUFFICES ASSUME CallInv, DiskInv, SlotInv, [Next]_vars PROVE SlotInv'
    OBVIOUS
  <1>0. /\ \A s : Trusted(s)' => Trusted(s)
        /\ \A d : slot(d)' = slot(d) /\ entry(d)' = entry(d) /\ run(d)' = run(d)
    BY TrustedBefore DEF slot, entry, run
  <1>1. ASSUME NEW c \in Call, Step(c), pc[c] \in Owning PROVE SlotInv'
    <2>0. Live(c) /\ Aside(c) /\ (Trusted(slot(c))' => Owned(c)' /\ (Replaced(slot(c)) \/ Agrees(slot(c)))')
      BY <1>1, OwnerStep
    <2>1. /\ \A d \in Call : Live(d)' /\ Trusted(slot(d))' => Owned(d)'
          /\ RunInv'
      BY <1>0, <1>1, <2>0, OwnerMoves
    <2>2. ASSUME NEW s \in Slot, Trusted(s), s # slot(c) PROVE (Replaced(s) \/ Agrees(s))'
      <3>1. Agrees(s) => Agrees(s)'
        BY <2>0, <2>2 DEF Aside, Agrees
      <3>2. Replaced(s) => Replaced(s)'
        BY <1>0, <2>0, <2>2 DEF Aside, Replaced, Live
      <3> QED BY <2>2, <3>1, <3>2 DEF SlotInv
    <2>3. \A s \in Slot : Trusted(s)' => (Replaced(s) \/ Agrees(s))'
      BY <1>0, <2>0, <2>2
    <2>4. \A d \in Call : pc'[d] = "used" /\ Trusted(slot(d))' => seen'[d] = out'[d]
      BY <2>0, UsedStays DEF Aside
    <2> QED BY <1>0, <2>1, <2>3, <2>4 DEF SlotInv
  <1>2. ASSUME NEW c \in Call, Begin(c) \/ Join(c) \/ Use(c) PROVE SlotInv'
    <2>1. /\ UNCHANGED <<env, disk, res, got>> /\ Live(c)
          /\ pc[c] \in {"new", "wait", "returned"} /\ pc'[c] \in {"lookup", "wait", "returned", "used"}
          /\ \A d \in Call : d # c => pc'[d] = pc[d]
      BY <1>2 DEF Begin, Join, Use, At, Goto, Live, CallInv, resolver
    <2>2. \A d \in Call : (Live(d) /\ Trusted(slot(d)) => Owned(d))'
      BY <1>0, <2>1 DEF SlotInv, Live, Owned, Fetching, Holding, env, disk
    <2>3. RunInv'
      BY <1>0, <2>1 DEF SlotInv, RunInv, Live, env
    <2>4. \A s \in Slot : (Trusted(s) => Replaced(s) \/ Agrees(s))'
      <3>1. \A s \in Slot : Replaced(s) => Replaced(s)'
        BY <1>0, <2>1 DEF Replaced, Live, Holding, env
      <3> QED BY <1>0, <2>1, <3>1 DEF SlotInv, Agrees, disk
    <2>5. \A d \in Call : (pc[d] = "used" /\ Trusted(slot(d)) => seen[d] = out[d])'
      <3>1. CASE Begin(c) \/ Join(c)
        <4>1. seen' = seen /\ pc'[c] # "used"
          BY <3>1 DEF Begin, Join, Goto, CallInv
        <4> QED BY <2>1, <4>1, UsedStays
      <3>2. CASE Use(c)
        <4>1. out' = out /\ out[c] \in Rev /\ seen' = [seen EXCEPT ![c] = tree[slot(c)]]
          BY <3>2 DEF Use
        <4>2. out[c] = res[entry(c)] /\ (Trusted(slot(c)) => Owned(c))
          BY <2>1, <4>1, RevValues DEF CallInv, SlotInv
        <4>3. Trusted(slot(c)) => seen'[c] = out[c]
          BY <4>1, <4>2 DEF Owned, DiskInv
        <4>4. \A d \in Call : d # c => seen'[d] = seen[d]
          BY <4>1 DEF DiskInv
        <4> QED BY <1>0, <2>1, <4>1, <4>3, <4>4 DEF SlotInv
      <3> QED BY <1>2, <3>1, <3>2
    <2> QED BY <2>2, <2>3, <2>4, <2>5 DEF SlotInv
  <1>3. ASSUME NEW r \in Run, StartRun(r) PROVE SlotInv'
    <2>1. /\ UNCHANGED <<crashes, disk, resolver, pc, got, out, seen>> /\ state[r] = "new"
          /\ \A q \in Run : state[q] # "running"
          /\ state' = [state EXCEPT ![r] = "running"]
      BY <1>3 DEF StartRun
    <2>2. ASSUME NEW d \in Call, Live(d)' PROVE pc[d] = "new" /\ res[entry(d)] = None
      <3>1. run(d) = r
        BY <1>0, <2>1, <2>2, Entries DEF Live, DiskInv
      <3> QED BY <2>1, <3>1 DEF SlotInv, RunInv
    <2>3. \A d \in Call : Live(d)' => Owned(d)'
      BY <1>0, <2>1, <2>2, RevValues DEF Owned, Fetching, Holding, disk, resolver
    <2>4. RunInv'
      BY <1>0, <2>1, Entries DEF SlotInv, RunInv, DiskInv, resolver
    <2>5. \A s \in Slot : ~Replaced(s)
      BY <2>1, Entries DEF Replaced, Live
    <2> QED BY <1>0, <2>1, <2>3, <2>4, <2>5 DEF SlotInv, Agrees, disk
  <1>4. ASSUME NEW r \in Run, EndRun(r) \/ Crash(r) PROVE SlotInv'
    <2>1. /\ UNCHANGED <<disk, resolver, pc, got, out, seen>> /\ state[r] = "running"
          /\ state' = [state EXCEPT ![r] = "over"]
      BY <1>4 DEF EndRun, Crash
    <2>2. \A q \in Run : state'[q] \in {"new", "running"} => state[q] = state'[q]
      BY <2>1 DEF DiskInv
    <2>3. \A d \in Call : (Live(d) /\ Trusted(slot(d)) => Owned(d))'
      BY <1>0, <2>1, <2>2, Entries DEF SlotInv, Live, Owned, disk, resolver
    <2>4. RunInv'
      BY <1>0, <2>1, <2>2, Entries DEF SlotInv, RunInv, resolver
    <2>5. ASSUME NEW s \in Slot, Trusted(s)', Replaced(s) PROVE FALSE
      <3>1. PICK d \in Call : Live(d) /\ slot(d) = s /\ pc[d] \in Holding
        BY <2>5 DEF Replaced
      <3>2. s \in Floating /\ crashes' = 0
        BY <2>5 DEF Replaced, Trusted
      <3>3. ~Crash(r)
        BY <3>2, ResolverAssumption DEF Crash, DiskInv
      <3>4. run(d) = r
        BY <2>1, <3>1, Entries DEF SlotInv, RunInv, Live
      <3> QED BY <1>4, <3>1, <3>3, <3>4 DEF EndRun, Finished, Holding
    <2> QED BY <1>0, <2>1, <2>3, <2>4, <2>5 DEF SlotInv, Agrees, disk
  <1>5. ASSUME NEW s \in Slot, Push(s) PROVE SlotInv'
    <2>1. UNCHANGED <<state, crashes, disk, resolver, pc, got, out, seen>>
      BY <1>5 DEF Push
    <2> QED BY <1>0, <2>1 DEF disk, resolver, SlotInv, Agrees, Replaced, Trusted, Sound, RunInv, Live, Owned
  <1>6. CASE UNCHANGED vars
    BY <1>0, <1>6 DEF vars, env, disk, resolver, SlotInv, Agrees, Replaced, Trusted, Sound, RunInv, Live, Owned
  <1>7. ASSUME NEW c \in Call, Step(c) PROVE SlotInv'
    BY <1>1, <1>2, <1>7 DEF Step, At, Owning, Lookup, Ask, NoConnection, Mark, Refuse, Fetch, Remove,
                            Rename, Truncate, WriteMeta
  <1> QED BY <1>3, <1>4, <1>5, <1>6, <1>7 DEF Next

(* Every caller finds the revision it was told of, whole, unless its ref   *)
(* floats and a run was killed, or a tree of its slot could not be removed *)
(* (or, if the ref floats, its meta file not be opened): pinned slots do   *)
(* not suffer from others, nor from any other failure.                     *)
ServesWhileTrusted ==
  \A c \in Call : pc[c] = "used" /\ Trusted(slot(c)) => seen[c] = out[c]

(* A hit, a fetch and an answer of another call serve what they say.       *)
THEOREM PinnedServesCorrect == KeysAreSlots => (Spec => []ServesWhileTrusted)
  <1> SUFFICES ASSUME KeysAreSlots PROVE Spec => []ServesWhileTrusted
    OBVIOUS
  <1>1. SlotInv => ServesWhileTrusted
    BY DEF SlotInv, ServesWhileTrusted
  <1>2. CallInv /\ DiskInv /\ SlotInv /\ [Next]_vars => SlotInv'
    BY SlotStep
  <1> QED BY <1>1, <1>2, SlotInit, Invariance, PTL DEF Spec

(* So with pinned refs, whichever runs were killed before, at whatever     *)
(* step; and with any refs, however they move, while nobody is killed: in  *)
(* each case as long as the slot is Sound.                                 *)
THEOREM ServesCorrect ==
  KeysAreSlots /\ (Floating = {} \/ MaxCrash = 0) => (Spec => []ServesWhatItSays)
  <1> SUFFICES ASSUME KeysAreSlots, Floating = {} \/ MaxCrash = 0 PROVE Spec => []ServesWhatItSays
    OBVIOUS
  <1>1. DiskInv /\ ServesWhileTrusted => ServesWhatItSays
    BY DEF DiskInv, ServesWhileTrusted, Trusted, ServesWhatItSays
  <1> QED BY <1>1, PinnedServesCorrect, Invariance, PTL
-----------------------------------------------------------------------------
(* What the liveness of the resolver rests on: nobody waits for an answer  *)
(* that nobody works on, and every step brings a call nearer to its end.   *)
WaitInv ==
  /\ \A e \in Run \X Key : once[e] = "running" => \E c \in Call : entry(c) = e /\ pc[c] \in Owning
  /\ \A c \in Call : pc[c] = "wait" => once[entry(c)] # "absent"

LEMMA WaitStep == CallInv /\ WaitInv /\ [Next]_vars => WaitInv'
  <1> SUFFICES ASSUME CallInv, WaitInv, [Next]_vars PROVE WaitInv'
    OBVIOUS
  <1>0. \A d \in Call : entry(d)' = entry(d) /\ entry(d) \in Run \X Key
    BY Entries DEF entry
  <1>1. ASSUME NEW c \in Call, Begin(c) PROVE WaitInv'
    <2>1. \A d \in Call : pc[d] \in Owning => pc'[d] \in Owning
      BY <1>1 DEF Begin, At, Goto, CallInv, Owning
    <2>2. \A e \in Run \X Key : once'[e] = "running" =>
            once[e] = "running" \/ (e = entry(c) /\ pc'[c] \in Owning)
      BY <1>1 DEF Begin, Goto, CallInv, Owning
    <2>3. \A d \in Call : pc'[d] = "wait" => once'[entry(d)] # "absent"
      BY <1>0, <1>1 DEF Begin, Goto, CallInv, WaitInv
    <2> QED BY <1>0, <2>1, <2>2, <2>3 DEF WaitInv
  <1>2. ASSUME NEW c \in Call, NEW a, Publish(c, a) PROVE WaitInv'
    <2>1. \A e \in Run \X Key : once'[e] = "running" => once[e] = "running" /\ e # entry(c)
      BY <1>0, <1>2 DEF Publish, CallInv
    <2>2. \A d \in Call : d # c => pc'[d] = pc[d]
      BY <1>2 DEF Publish, CallInv
    <2>3. \A d \in Call : pc'[d] = "wait" => pc[d] = "wait" /\ once'[entry(d)] # "absent"
      BY <1>0, <1>2 DEF Publish, CallInv, WaitInv
    <2> QED BY <1>0, <2>1, <2>2, <2>3 DEF WaitInv
  <1>3. ASSUME NEW c \in Call, NEW step \in Owning \cup {"returned", "used"}, Goto(c, step), once' = once,
               pc[c] \in Owning => step \in Owning
        PROVE WaitInv'
    <2>1. \A d \in Call : (pc[d] \in Owning => pc'[d] \in Owning) /\ (pc'[d] = "wait" => pc[d] = "wait")
      BY <1>3 DEF Goto, CallInv, Owning
    <2> QED BY <1>0, <1>3, <2>1 DEF WaitInv
  <1>4. CASE UNCHANGED <<once, pc>>
    BY <1>0, <1>4 DEF WaitInv
  <1>5. ASSUME NEW c \in Call, Step(c)
        PROVE  \/ Begin(c) \/ (\E a : Publish(c, a)) \/ UNCHANGED <<once, pc>>
               \/ /\ once' = once
                  /\ \E step \in Owning \cup {"returned", "used"} : Goto(c, step) /\ (pc[c] \in Owning => step \in Owning)
    <2> USE <1>5 DEF At, Goto, Owning, resolver
    <2>1. CASE Lookup(c) \/ Ask(c) \/ NoConnection(c) \/ Mark(c)
      BY <2>1 DEF Lookup, Ask, NoConnection, Mark
    <2>2. CASE Refuse(c) \/ Fetch(c) \/ Remove(c) \/ Rename(c) \/ Truncate(c) \/ WriteMeta(c)
      BY <2>2 DEF Refuse, Fetch, Remove, Rename, Truncate, WriteMeta
    <2>3. CASE Join(c) \/ Use(c)
      BY <2>3 DEF Join, Use
    <2> QED BY <2>1, <2>2, <2>3 DEF Step
  <1>6. \/ \E c \in Call : Step(c)
        \/ UNCHANGED <<once, pc>>
    BY DEF Next, StartRun, EndRun, Crash, Push, vars, resolver
  <1> QED BY <1>1, <1>2, <1>3, <1>4, <1>5, <1>6

(* The calls whose next step has nothing to wait for.                      *)
Going(c) ==
  \/ pc[c] \in {"new"} \cup Owning
  \/ pc[c] = "wait" /\ once[entry(c)] = "done"
  \/ pc[c] = "returned" /\ out[c] \in Rev

(* As long as a run has a call that is not finished, one of its calls can  *)
(* take a step: no error path leaves call.done open for those that wait.   *)
NobodyWaitsInVain ==
  \A r \in Run : (\A c \in Call : run(c) = r => Finished(c)) \/ \E c \in Call : run(c) = r /\ Going(c)

(* The owner of an entry always has a step, and publishes in the end.      *)
THEOREM WaitersCorrect == Spec => []NobodyWaitsInVain
  <1>1. Init => WaitInv
    BY DEF Init, WaitInv
  <1>2. CallInv /\ WaitInv => NobodyWaitsInVain
    <2> SUFFICES ASSUME CallInv, WaitInv, NEW c \in Call, ~Finished(c)
                 PROVE  \E d \in Call : run(d) = run(c) /\ Going(d)
      BY DEF NobodyWaitsInVain
    <2>1. CASE pc[c] \in {"new"} \cup Owning
      BY <2>1 DEF Going
    <2>2. CASE pc[c] = "wait"
      <3>1. once[entry(c)] = "done" \/ once[entry(c)] = "running"
        BY <2>2, Entries DEF CallInv, WaitInv
      <3>2. CASE once[entry(c)] = "running"
        <4>1. PICK d \in Call : entry(d) = entry(c) /\ pc[d] \in Owning
          BY <3>2, Entries DEF WaitInv
        <4>2. run(d) = run(c)
          BY <4>1 DEF entry, run
        <4> QED BY <4>1, <4>2 DEF Going
      <3> QED BY <2>2, <3>1, <3>2 DEF Going
    <2>3. CASE pc[c] = "returned"
      <3>1. out[c] \in Answer /\ out[c] \notin Error
        BY <2>3 DEF CallInv, Finished
      <3> QED BY <2>3, <3>1 DEF Answer, Going
    <2>4. pc[c] \in {"new", "wait", "returned"} \cup Owning
      BY DEF CallInv, Steps, Finished
    <2> QED BY <2>1, <2>2, <2>3, <2>4
  <1> QED BY <1>1, <1>2, WaitStep, Invariance, PTL DEF Spec

(* How many steps a call of a running run has left, at most.               *)
Left(c) ==
  CASE pc[c] = "new"      -> 12
    [] pc[c] = "lookup"   -> 11
    [] pc[c] = "ask"      -> 10
    [] pc[c] = "dial"     -> 9
    [] pc[c] = "mark"     -> 2
    [] pc[c] = "remove"   -> IF tree[slot(c)] \in Rev THEN 7 ELSE 6
    [] pc[c] = "rename"   -> 5
    [] pc[c] = "truncate" -> 4
    [] pc[c] = "write"    -> 3
    [] pc[c] = "wait"     -> 2
    [] pc[c] = "returned" -> 1
    [] pc[c] = "used"     -> 0

(* A step of a call brings it nearer to its end and no other call of the   *)
(* run further from its own, whatever the network answers.                 *)
StepsLeadToTheEnd ==
  [][\A c \in Call : Step(c) =>
       /\ Left(c) \in 0 .. 12 /\ Left(c)' < Left(c)
       /\ \A d \in Call : d # c /\ Live(d) => Left(d)' = Left(d)]_vars

LEMMA LeftIs ==
  ASSUME NEW c
  PROVE  /\ pc[c] \in {"new"} \cup Owning \cup {"wait", "returned", "used"} => Left(c) \in 0 .. 12
         /\ pc[c] = "new" => Left(c) = 12
         /\ pc[c] = "lookup" => Left(c) = 11
         /\ pc[c] = "ask" => Left(c) = 10
         /\ pc[c] = "dial" => Left(c) = 9
         /\ pc[c] = "remove" => Left(c) = IF tree[slot(c)] \in Rev THEN 7 ELSE 6
         /\ pc[c] = "rename" => Left(c) = 5
         /\ pc[c] = "truncate" => Left(c) = 4
         /\ pc[c] = "write" => Left(c) = 3
         /\ pc[c] \in {"wait", "mark"} => Left(c) = 2
         /\ pc[c] = "returned" => Left(c) = 1
         /\ pc[c] = "used" => Left(c) = 0
  <1>1. /\ pc[c] = "new" => Left(c) = 12
        /\ pc[c] = "lookup" => Left(c) = 11
        /\ pc[c] = "ask" => Left(c) = 10
        /\ pc[c] = "dial" => Left(c) = 9
        /\ pc[c] = "rename" => Left(c) = 5
        /\ pc[c] = "truncate" => Left(c) = 4
        /\ pc[c] = "write" => Left(c) = 3
        /\ pc[c] = "wait" => Left(c) = 2
        /\ pc[c] = "mark" => Left(c) = 2
        /\ pc[c] = "returned" => Left(c) = 1
        /\ pc[c] = "used" => Left(c) = 0
    BY DEF Left
  <1>2. pc[c] = "remove" => Left(c) = IF tree[slot(c)] \in Rev THEN 7 ELSE 6
    BY DEF Left
  <1> QED BY <1>1, <1>2 DEF Owning

LEMMA LeftFalls ==
  ASSUME CallInv, DiskInv, NEW c \in Call, Step(c)
  PROVE  Left(c) \in 0 .. 12 /\ Left(c)' < Left(c)
  <1> USE Entries, RevValues DEF At, Goto, CallInv, DiskInv
  <1>1. Left(c) \in 0 .. 12
    BY LeftIs DEF Steps
  <1>2. ASSUME pc[c] \in Owning, NEW a, Publish(c, a) PROVE Left(c)' < Left(c)
    <2>1. Left(c)' = 1
      <3>1. pc'[c] = "returned"
        BY <1>2 DEF Publish
      <3> QED BY <3>1 DEF Left
    <2>2. Left(c) # 0 /\ Left(c) # 1
      BY <1>2, LeftIs DEF Owning
    <2> QED BY <1>1, <2>1, <2>2
  <1>3. CASE Begin(c)
    <2>1. pc[c] = "new" /\ pc'[c] \in {"lookup", "wait"}
      BY <1>3 DEF Begin
    <2> QED BY <2>1 DEF Left
  <1>4. CASE Join(c) \/ Use(c)
    <2>1. (pc[c] = "wait" /\ pc'[c] = "returned") \/ (pc[c] = "returned" /\ pc'[c] = "used")
      BY <1>4 DEF Join, Use
    <2> QED BY <2>1 DEF Left
  <1>5. CASE Lookup(c) \/ Ask(c) \/ NoConnection(c) \/ Mark(c) \/ Refuse(c)
            \/ Rename(c) \/ Truncate(c) \/ WriteMeta(c)
    <2>1. \/ \E a : Publish(c, a)
          \/ pc[c] = "lookup" /\ pc'[c] = "ask"
          \/ pc[c] = "ask" /\ pc'[c] = "dial"
          \/ pc[c] = "dial" /\ pc'[c] = "mark"
          \/ pc[c] = "rename" /\ pc'[c] = "truncate"
          \/ pc[c] = "truncate" /\ pc'[c] = "write"
      BY <1>5 DEF Lookup, Ask, NoConnection, Mark, Refuse, Rename, Truncate, WriteMeta
    <2>2. pc[c] \in Owning
      BY <1>5 DEF Lookup, Ask, NoConnection, Mark, Refuse, Rename, Truncate, WriteMeta, Owning
    <2>3. ASSUME ~\E a : Publish(c, a) PROVE Left(c)' < Left(c)
      BY <2>1, <2>3 DEF Left
    <2>4. ASSUME NEW a, Publish(c, a) PROVE Left(c)' < Left(c)
      BY <1>2, <2>2, <2>4
    <2> QED BY <1>1, <2>3, <2>4
  <1>6. CASE Fetch(c)
    <2>1. pc[c] = "dial" /\ pc'[c] = "remove"
      BY <1>6 DEF Fetch
    <2> QED BY <2>1 DEF Left
  <1>7. CASE Remove(c)
    <2>1. /\ pc[c] = "remove"
          /\ \/ tree[slot(c)] \in Rev /\ pc'[c] = "remove" /\ tree'[slot(c)] = Partial
             \/ pc'[c] = "rename"
      BY <1>7 DEF Remove
    <2>2. slot(c)' = slot(c)
      BY DEF slot
    <2> QED BY <2>1, <2>2 DEF Left
  <1> QED BY <1>1, <1>3, <1>4, <1>5, <1>6, <1>7 DEF Step

LEMMA LeftStays ==
  ASSUME KeysAreSlots, CallInv, DiskInv, SlotInv, NEW c \in Call, Step(c), NEW d \in Call, d # c, Live(d)
  PROVE  Left(d)' = Left(d)
  <1>1. slot(d)' = slot(d) /\ slot(d) \in Slot
    BY Entries DEF slot
  <1>2. CASE pc[c] \in Owning
    <2>1. Aside(c) /\ Live(c)
      BY <1>2, OwnerStep
    <2>2. pc'[d] = pc[d] /\ (slot(d) # slot(c) => tree'[slot(d)] = tree[slot(d)])
      BY <1>1, <2>1 DEF Aside
    <2>3. slot(d) = slot(c) => pc[d] # "remove"
      BY <1>2, <2>1, Alone DEF SlotInv, Owning
    <2> QED BY <1>1, <2>2, <2>3 DEF Left
  <1>3. CASE pc[c] \notin Owning
    <2>1. Begin(c) \/ Join(c) \/ Use(c)
      BY <1>3 DEF Step, At, Owning, Lookup, Ask, NoConnection, Mark, Refuse, Fetch, Remove, Rename, Truncate, WriteMeta
    <2>2. pc'[d] = pc[d] /\ tree' = tree
      BY <2>1 DEF Begin, Join, Use, Goto, CallInv, disk
    <2> QED BY <1>1, <2>2 DEF Left
  <1> QED BY <1>2, <1>3

(* A run is over after at most 12 steps for each of its calls.             *)
THEOREM StepsCorrect == KeysAreSlots => (Spec => StepsLeadToTheEnd)
  <1> SUFFICES ASSUME KeysAreSlots PROVE Spec => StepsLeadToTheEnd
    OBVIOUS
  <1> DEFINE Nearer == \A c \in Call : Step(c) =>
                         /\ Left(c) \in 0 .. 12 /\ Left(c)' < Left(c)
                         /\ \A d \in Call : d # c /\ Live(d) => Left(d)' = Left(d)
  <1>1. CallInv /\ DiskInv /\ SlotInv /\ [Next]_vars => [Nearer]_vars
    BY LeftFalls, LeftStays
  <1>2. CallInv /\ DiskInv /\ SlotInv /\ [Next]_vars => SlotInv'
    BY SlotStep
  <1>3. Spec => [][Nearer]_vars
    BY <1>1, <1>2, SlotInit, Invariance, PTL DEF Spec
  <1> QED BY <1>3 DEF StepsLeadToTheEnd
=============================================================================
