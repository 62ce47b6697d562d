---------------------------- MODULE MCDocuments ----------------------------
(***************************************************************************)
(* Three runs that ask for charts (from one process after the other, and   *)
(* from several at a time), for schemas and the API list of a release, for *)
(* contracts, or for images, with a disk that may be full; the schemas     *)
(* also with one that is not.  SameFile: two calls that fetch one schema.  *)
(***************************************************************************)
EXTENDS Documents

CONSTANTS chart, range, core, apps, old, v1, v2, beta, digest, tag, image, SameFile

MCRun == 1 .. 3
CallsOf(n, docs, ids) == {[run |-> r, doc |-> d, id |-> i] : r \in 1 .. n, d \in docs, i \in ids}
Job(calls, releases, modes, together, full) ==
  [calls |-> calls, releases |-> releases, modes |-> modes, together |-> together, full |-> full]
Any == {"online", "offline", "refresh"}

MCJobs ==
  IF SameFile THEN {Job(CallsOf(1, {core, old}, {1}), {{core}}, {"online"}, FALSE, FALSE)}
  ELSE {Job(CallsOf(3, {chart}, {1}), {{chart}}, {"online"}, TRUE, TRUE),
        Job(CallsOf(2, {range}, {1, 2}), {{range}}, {"refresh"}, TRUE, TRUE),
        Job(CallsOf(3, {chart}, {1}), {{chart}}, {"online", "offline"}, FALSE, TRUE),
        Job(CallsOf(3, {v1}, {1}), {{v1, v2}, {v1, beta}, {v1}}, {"online", "offline"}, FALSE, TRUE),
        Job(CallsOf(3, {digest}, {1}), {{}, {digest}}, {"online", "offline"}, FALSE, TRUE),
        Job(CallsOf(2, {tag}, {1}), {{}, {tag}}, Any, FALSE, TRUE),
        Job(CallsOf(2, {image}, {1}), {{}, {image}}, Any, FALSE, TRUE)}
       \cup {Job(CallsOf(2, {apps, old}, {1}) \cup CallsOf(3, {old}, {1}), {{core, apps}, {core, apps, old}},
                  {"online", "offline"}, FALSE, full) : full \in BOOLEAN}

ASSUME JobsAssumption == SameFile \/ Apart
=============================================================================
