------------------------------ MODULE LokvLog -------------------------------
(***************************************************************************)
(* The write path of a lokv log (log.go, objects.go, segment.go, wire.go): *)
(* concurrent Append and AppendTo invocations of any number of processes   *)
(* over one shared create-only store.                                      *)
(*                                                                         *)
(* An invocation is named by its commit ID, drawn once per invocation by   *)
(* prepare; the ID also stands for the batch of events, which prepare      *)
(* encodes once and every retry reuses.  One action is one store operation *)
(* together with the local computation that follows it.                    *)
(*                                                                         *)
(* Reading the children of a segment is one action although the code opens *)
(* them one by one: published objects never change or disappear, and       *)
(* ReferencesResolve shows that a child is there before anything refers to *)
(* it, so the order of those reads makes no difference.                    *)
(***************************************************************************)
EXTENDS Frontier, Store

CONSTANTS
  IDs,         \* the commit IDs, one for each invocation
  Goroutines,  \* bound on the number of invocations in progress
  Decodes,     \* pairs <<i, j>>: the T of invocation i's Log unmarshals the batch of j
  MaxRetries,  \* Config.MaxRetries: conflicts Append absorbs
  MaxInt64     \* math.MaxInt64, the revision that log keys count down from

ASSUME IDsAssumption == IsFiniteSet(IDs)
ASSUME GoroutinesAssumption == Goroutines \in Nat
ASSUME MaxRetriesAssumption == MaxRetries \in Nat
ASSUME MaxInt64Assumption == MaxInt64 \in Nat /\ MaxRevision < MaxInt64

VARIABLES
  pc,         \* pc[i]: where invocation i stands
  kind,       \* kind[i]: "Append" or "AppendTo"
  attempt,    \* attempt[i]: conflicts met so far
  base,       \* base[i]: the snapshot i extends
  levels,     \* levels[i]: the frontier that carry builds
  level,      \* level[i]: the level carry works on
  key,        \* key[i]: the key of i's next store operation
  object,     \* object[i]: the object i creates
  createErr,  \* createErr[i]: what Create said when it did not succeed
  out,        \* out[i]: the result i returned and the revision it is about
  since       \* since[i]: the revision of i's base (AppendTo) or of the head
              \* when i was called (Append), kept for the properties only

locals == <<attempt, base, levels, level, key, object, createErr>>
vars == <<objects, late, pc, kind, locals, out, since>>

-----------------------------------------------------------------------------
(* Objects and their names (wire.go).  The hash of a record covers its     *)
(* revision, ID, event and the hash before it, so it is modelled by the    *)
(* whole chain; a digest is modelled by the object itself, tagged.         *)

\* Keys sort by their number, which counts down from MaxInt64: the first key
\* of a listing is the newest revision's.
logKey(r) == <<"log", MaxInt64 - r>>

treeKey(ref) == <<"tree", ref.level, ref.start, ref.end, ref.sha>>

RefKey(ref) == IF ref.level = 0 THEN logKey(ref.start) ELSE treeKey(ref)

digest(obj) == <<"sha256", obj>>

recordHash(r, id, prev) == Append(prev, <<r, id>>)

Commit(r, id, prev, frontier) ==
  [format |-> "commit", revision |-> r, id |-> id, prev |-> prev,
   hash |-> recordHash(r, id, prev), frontier |-> frontier]

Segment(l, start, end, records) ==
  [format |-> "segment", level |-> l, start |-> start, end |-> end,
   records |-> records]

\* A nil *Snapshot: the empty log, whose Revision() is zero.
Nil == [format |-> "nil", revision |-> 0, hash |-> ZeroHash]

project(c) ==
  [revision |-> c.revision, id |-> c.id, prev |-> c.prev, hash |-> c.hash]

validateProjection(p) ==
  /\ p.revision \in Revisions
  /\ p.revision = 1 => p.prev = ZeroHash
  /\ p.hash = recordHash(p.revision, p.id, p.prev)

\* decodeCommit, with the revision r that parseLogKey reads off the key.
decodeCommit(r, c) ==
  /\ r \in Revisions
  /\ c.format = "commit"
  /\ c.revision = r
  /\ validateProjection(project(c))
  /\ validateFrontier(c.frontier, r, c.prev)

\* record, for a Log[T] of invocation i: what json.Unmarshal refuses is reported as
\* ErrCorrupt.  Logs that share a store may have different types T.
record(i, p) == validateProjection(p) /\ <<i, p.id>> \in Decodes

snapshot(i, r, c) == decodeCommit(r, c) /\ record(i, project(c))

\* Consecutive records from start to end whose hashes lead from one to the
\* other: the adjacency and boundary checks of createSegment and parseSegment.
Adjacent(records, start, end, firstPrev, last) ==
  /\ Len(records) = end - start + 1
  /\ \A k \in DOMAIN records :
        /\ validateProjection(records[k])
        /\ records[k].revision = start + k - 1
        /\ records[k].prev = IF k = 1 THEN firstPrev ELSE records[k - 1].hash
  /\ Last(records).hash = last

-----------------------------------------------------------------------------
(* Reading what a reference names (objects.go, segment.go).                *)

commitRef(c) ==
  [level |-> 0, start |-> c.revision, end |-> c.revision, sha |-> digest(c),
   firstPrev |-> c.prev, last |-> c.hash]

loadCommitRef(ref, c) ==
  /\ validateRef(ref)
  /\ ref.level = 0
  /\ digest(c) = ref.sha
  /\ decodeCommit(ref.start, c)
  /\ c.prev = ref.firstPrev
  /\ c.hash = ref.last

decodeSegment(ref, s) ==
  /\ validateRef(ref)
  /\ ref.level # 0
  /\ s.format = "segment"
  /\ <<s.level, s.start, s.end>> = <<ref.level, ref.start, ref.end>>
  /\ Adjacent(s.records, ref.start, ref.end, ref.firstPrev, ref.last)
  /\ digest(s) = ref.sha

\* The object a reference names; the base snapshot is at hand and not fetched.
Fetched(b, ref) == IF RefKey(ref) = logKey(b.revision) THEN b ELSE objects[RefKey(ref)]

loadRecordFile(b, ref) ==
  /\ validateRef(ref)
  /\ RefKey(ref) = logKey(b.revision) \/ Present(RefKey(ref))
  /\ IF ref.level = 0 THEN loadCommitRef(ref, Fetched(b, ref))
                      ELSE decodeSegment(ref, Fetched(b, ref))

\* The records below a reference, given that it loads.
RecordsOf(b, ref) ==
  IF ref.level = 0 THEN <<project(Fetched(b, ref))>> ELSE Fetched(b, ref).records

Children(b, refs) == FlattenSeq([k \in DOMAIN refs |-> RecordsOf(b, refs[k])])

-----------------------------------------------------------------------------
(* The state of an invocation.                                             *)

Active == {i \in IDs : pc[i] \notin {"unused", "returned"}}

\* The committed revisions, and the greatest of them.
Committed == {r \in Revisions : Present(logKey(r))}

HeadRevision == IF Committed = {} THEN 0 ELSE Max(Committed)

\* The snapshots there are to be loaded.
Snapshots == {Nil} \cup {objects[logKey(r)] : r \in Committed}

\* Invocation i returns, and its local variables go out of scope.
Return(i, result, r) ==
  /\ pc' = [pc EXCEPT ![i] = "returned"]
  /\ out' = [out EXCEPT ![i] = [result |-> result, revision |-> r]]
  /\ attempt' = [attempt EXCEPT ![i] = 0]
  /\ base' = [base EXCEPT ![i] = Nil]
  /\ levels' = [levels EXCEPT ![i] = EmptyFrontier]
  /\ level' = [level EXCEPT ![i] = 0]
  /\ key' = [key EXCEPT ![i] = <<>>]
  /\ object' = [object EXCEPT ![i] = Nil]
  /\ createErr' = [createErr EXCEPT ![i] = "ok"]

\* appendPrepared from validateFrontier up to the Create of the commit, which is
\* decoded before it is published.
Seal(i, b, frontier) ==
  LET r == b.revision + 1
      c == Commit(r, i, b.hash, frontier)
  IN IF validateFrontier(frontier, r, b.hash) /\ snapshot(i, r, c)
     THEN /\ pc' = [pc EXCEPT ![i] = "create"]
          /\ base' = [base EXCEPT ![i] = b]
          /\ levels' = [levels EXCEPT ![i] = EmptyFrontier]
          /\ level' = [level EXCEPT ![i] = 0]
          /\ key' = [key EXCEPT ![i] = logKey(r)]
          /\ object' = [object EXCEPT ![i] = c]
          /\ createErr' = [createErr EXCEPT ![i] = "ok"]
          /\ UNCHANGED <<attempt, out>>
     ELSE Return(i, "corrupt", r)

\* One round of the loop in carry: add ref to level l, go on to pack the level
\* when that fills it, and seal the commit when it does not.
Carry(i, b, frontier, l, ref) ==
  LET added == AddRef(frontier, l, ref)
  IN IF Full(added, l)
     THEN /\ pc' = [pc EXCEPT ![i] = "pack"]
          /\ base' = [base EXCEPT ![i] = b]
          /\ levels' = [levels EXCEPT ![i] = added]
          /\ level' = [level EXCEPT ![i] = l]
          /\ key' = [key EXCEPT ![i] = <<>>]
          /\ object' = [object EXCEPT ![i] = Nil]
          /\ createErr' = [createErr EXCEPT ![i] = "ok"]
          /\ UNCHANGED <<attempt, out>>
     ELSE Seal(i, b, added)

\* appendPrepared on the snapshot b, up to its first store operation.
appendPrepared(i, b) ==
  \/ b.revision = MaxRevision /\ Return(i, "exhausted", b.revision)
  \/ b = Nil /\ Seal(i, b, EmptyFrontier)
  \/ b.revision \in 1..(MaxRevision - 1) /\ Carry(i, b, b.frontier, 0, commitRef(b))

-----------------------------------------------------------------------------
(* Calls.                                                                  *)

Start(i, k, r) ==
  /\ pc[i] = "unused"
  /\ Cardinality(Active) < Goroutines
  /\ kind' = [kind EXCEPT ![i] = k]
  /\ since' = [since EXCEPT ![i] = r]
  /\ UNCHANGED storeVars

CallAppend(i) ==
  /\ Start(i, "Append", HeadRevision)
  /\ pc' = [pc EXCEPT ![i] = "list"]
  /\ UNCHANGED <<locals, out>>

\* The base is nil or a snapshot that the same Log has loaded.
CallAppendTo(i) ==
  \E b \in Snapshots :
     /\ b # Nil => record(i, project(b))
     /\ Start(i, "AppendTo", b.revision)
     /\ appendPrepared(i, b)

\* The batch is empty, too large or cannot be marshalled, or the base belongs to
\* another log: an error before any store operation.
Reject(i) ==
  \E k \in {"Append", "AppendTo"} :
     /\ Start(i, k, HeadRevision)
     /\ Return(i, "rejected", 0)

-----------------------------------------------------------------------------
(* Append finds the head (LoadHead): List with limit 1, then Get.          *)

\* Mutant: any listed commit is taken for the head.
ListAny(i) ==
  /\ pc[i] = "list"
  /\ \/ /\ Committed = {}
        /\ appendPrepared(i, Nil)
     \/ \E r \in Committed :
           /\ pc' = [pc EXCEPT ![i] = "get"]
           /\ key' = [key EXCEPT ![i] = logKey(r)]
           /\ UNCHANGED <<attempt, base, levels, level, object, createErr, out>>
  /\ UNCHANGED <<storeVars, kind, since>>

List(i) ==
  /\ pc[i] = "list"
  /\ \/ /\ Committed = {}
        /\ appendPrepared(i, Nil)
     \/ \E r \in Committed :
           /\ \A q \in Committed : logKey(r)[2] <= logKey(q)[2]
           /\ pc' = [pc EXCEPT ![i] = "get"]
           /\ key' = [key EXCEPT ![i] = logKey(r)]
           /\ UNCHANGED <<attempt, base, levels, level, object, createErr, out>>
  /\ UNCHANGED <<storeVars, kind, since>>

Get(i) ==
  /\ pc[i] = "get"
  /\ LET r == MaxInt64 - key[i][2]
     IN IF Present(key[i]) /\ snapshot(i, r, objects[key[i]])
        THEN appendPrepared(i, objects[key[i]])
        ELSE Return(i, "corrupt", r)
  /\ UNCHANGED <<storeVars, kind, since>>

-----------------------------------------------------------------------------
(* A full level is packed into a segment (createSegment, createAggregate). *)

\* The reference to the segment that packs the level i works on.
Packed(i) == aggregateRef(level[i] + 1, levels[i][level[i]], digest(object[i]))

\* Mutant: a segment is stamped with the invocation that packed it.
createSegmentStamped(i) ==
  /\ pc[i] = "pack"
  /\ LET refs == levels[i][level[i]]
         records == Children(base[i], refs)
         segment == Segment(level[i] + 1, Head(refs).start, Last(refs).end, records)
                      @@ [writer |-> i]
         ref == aggregateRef(level[i] + 1, refs, digest(segment))
     IN /\ pc' = [pc EXCEPT ![i] = "aggregate"]
        /\ key' = [key EXCEPT ![i] = treeKey(ref)]
        /\ object' = [object EXCEPT ![i] = segment]
        /\ UNCHANGED <<attempt, base, levels, level, createErr, out>>
  /\ UNCHANGED <<storeVars, kind, since>>

createSegment(i) ==
  /\ pc[i] = "pack"
  /\ LET refs == levels[i][level[i]]
         records == Children(base[i], refs)
         segment == Segment(level[i] + 1, Head(refs).start, Last(refs).end, records)
         ref == aggregateRef(level[i] + 1, refs, digest(segment))
     IN IF /\ Len(refs) = Radix
           /\ \A k \in DOMAIN refs : loadRecordFile(base[i], refs[k])
           /\ Adjacent(records, ref.start, ref.end, ref.firstPrev, ref.last)
           /\ validateRef(ref)
        THEN /\ pc' = [pc EXCEPT ![i] = "aggregate"]
             /\ key' = [key EXCEPT ![i] = treeKey(ref)]
             /\ object' = [object EXCEPT ![i] = segment]
             /\ UNCHANGED <<attempt, base, levels, level, createErr, out>>
        ELSE Return(i, "corrupt", base[i].revision + 1)
  /\ UNCHANGED <<storeVars, kind, since>>

\* The segment is stored: clear its level and carry its reference upwards.
NextLevel(i) ==
  Carry(i, base[i], Clear(levels[i], level[i]), level[i] + 1, Packed(i))

\* Mutant: a failed Create of a segment is not looked into.
createAggregateBlind(i) ==
  /\ pc[i] = "aggregate"
  /\ \E err \in CreateErrors \cup {"ok"} : Create(key[i], object[i], err)
  /\ NextLevel(i)
  /\ UNCHANGED <<kind, since>>

createAggregate(i) ==
  /\ pc[i] = "aggregate"
  /\ \/ /\ Create(key[i], object[i], "ok")
        /\ NextLevel(i)
     \/ \E err \in CreateErrors :
           /\ Create(key[i], object[i], err)
           /\ pc' = [pc EXCEPT ![i] = "readback"]
           /\ createErr' = [createErr EXCEPT ![i] = err]
           /\ UNCHANGED <<attempt, base, levels, level, key, object, out>>
  /\ UNCHANGED <<kind, since>>

\* Whether an existing or an ambiguous segment is usable is read off the store.
readback(i) ==
  /\ pc[i] = "readback"
  /\ IF Present(key[i])
     THEN IF decodeSegment(Packed(i), objects[key[i]])
          THEN NextLevel(i)
          ELSE Return(i, "corrupt", base[i].revision + 1)
     ELSE Return(i, IF createErr[i] = "exists" THEN "corrupt" ELSE "failed",
                 base[i].revision + 1)
  /\ UNCHANGED <<storeVars, kind, since>>

-----------------------------------------------------------------------------
(* The commit (appendPrepared, from Create on; the retry loop of Append).  *)

createCommit(i) ==
  /\ pc[i] = "create"
  /\ \/ /\ Create(key[i], object[i], "ok")
        /\ Return(i, "ok", object[i].revision)
     \/ \E err \in CreateErrors :
           /\ Create(key[i], object[i], err)
           /\ pc' = [pc EXCEPT ![i] = "lookup"]
           /\ createErr' = [createErr EXCEPT ![i] = err]
           /\ UNCHANGED <<attempt, base, levels, level, key, object, out>>
  /\ UNCHANGED <<kind, since>>

\* Append starts over from the new head.
Restart(i) ==
  /\ pc' = [pc EXCEPT ![i] = "list"]
  /\ attempt' = [attempt EXCEPT ![i] = @ + 1]
  /\ base' = [base EXCEPT ![i] = Nil]
  /\ key' = [key EXCEPT ![i] = <<>>]
  /\ object' = [object EXCEPT ![i] = Nil]
  /\ createErr' = [createErr EXCEPT ![i] = "ok"]
  /\ UNCHANGED <<levels, level, out>>

\* Mutant: one retry too few.
ConflictEarly(i) ==
  IF kind[i] = "Append" /\ attempt[i] + 1 < MaxRetries
  THEN Restart(i)
  ELSE Return(i, "conflict", object[i].revision)

\* Mutant: AppendTo is retried too.
ConflictAlways(i) ==
  IF attempt[i] < MaxRetries
  THEN Restart(i)
  ELSE Return(i, "conflict", object[i].revision)

\* Another invocation owns the revision.
Conflict(i) ==
  IF kind[i] = "Append" /\ attempt[i] < MaxRetries
  THEN Restart(i)
  ELSE Return(i, "conflict", object[i].revision)

\* Mutant: whatever holds the key has won against this invocation.
WinnerForeign(i, winner) ==
  IF snapshot(i, object[i].revision, winner)
  THEN Conflict(i)
  ELSE Return(i, "corrupt", object[i].revision)

\* Mutant: whatever holds the key is this invocation's commit.
WinnerOwn(i, winner) ==
  LET r == object[i].revision
  IN Return(i, IF snapshot(i, r, winner) THEN "ok" ELSE "corrupt", r)

\* Mutant: the hash is compared before the commit ID.
WinnerSwapped(i, winner) ==
  LET r == object[i].revision
  IN IF ~snapshot(i, r, winner) \/ winner.hash # object[i].hash
     THEN Return(i, "corrupt", r)
     ELSE IF winner.id # i THEN Conflict(i) ELSE Return(i, "ok", r)

\* What became of a commit whose Create did not succeed: the winner of the key
\* says so, by its commit ID.
Winner(i, winner) ==
  LET r == object[i].revision
  IN IF snapshot(i, r, winner) /\ winner.id # i
     THEN Conflict(i)
     ELSE IF snapshot(i, r, winner) /\ winner.hash = object[i].hash
          THEN Return(i, "ok", r)
          ELSE Return(i, "corrupt", r)

\* Mutant: no commit under the key means that the race is lost.
lookupAbsentLost(i) ==
  /\ pc[i] = "lookup"
  /\ IF Present(key[i]) THEN Winner(i, objects[key[i]]) ELSE Conflict(i)
  /\ UNCHANGED <<storeVars, kind, since>>

\* Mutant: the Create is repeated for as long as its outcome is open.
lookupRepeat(i) ==
  /\ pc[i] = "lookup"
  /\ IF Present(key[i])
     THEN Winner(i, objects[key[i]])
     ELSE /\ pc' = [pc EXCEPT ![i] = "create"]
          /\ UNCHANGED <<locals, out>>
  /\ UNCHANGED <<storeVars, kind, since>>

lookup(i) ==
  /\ pc[i] = "lookup"
  /\ IF Present(key[i])
     THEN Winner(i, objects[key[i]])
     ELSE Return(i, IF createErr[i] = "exists" THEN "corrupt" ELSE "failed",
                 object[i].revision)
  /\ UNCHANGED <<storeVars, kind, since>>

-----------------------------------------------------------------------------
\* A cancelled context, a store or scratch-file error, or the end of the process:
\* the caller learns nothing, whatever i has done so far stays done.
Fail(i) ==
  /\ i \in Active
  /\ Return(i, "failed", 0)
  /\ UNCHANGED <<storeVars, kind, since>>

\* A forgotten PUT lands.
Landing ==
  /\ Land
  /\ UNCHANGED <<pc, kind, locals, out, since>>

Init ==
  /\ StoreInit
  /\ pc = [i \in IDs |-> "unused"]
  /\ kind = [i \in IDs |-> "none"]
  /\ attempt = [i \in IDs |-> 0]
  /\ base = [i \in IDs |-> Nil]
  /\ levels = [i \in IDs |-> EmptyFrontier]
  /\ level = [i \in IDs |-> 0]
  /\ key = [i \in IDs |-> <<>>]
  /\ object = [i \in IDs |-> Nil]
  /\ createErr = [i \in IDs |-> "ok"]
  /\ out = [i \in IDs |-> [result |-> "none", revision |-> 0]]
  /\ since = [i \in IDs |-> 0]

Call(i) == CallAppend(i) \/ CallAppendTo(i) \/ Reject(i)

\* The steps an invocation takes by itself until it returns.
Step(i) ==
  \/ List(i) \/ Get(i)
  \/ createSegment(i) \/ createAggregate(i) \/ readback(i)
  \/ createCommit(i) \/ lookup(i)

Next ==
  \/ \E i \in IDs : Call(i) \/ Step(i) \/ Fail(i)
  \/ Landing

\* A started invocation keeps running: nothing in it waits for another one.
Fairness == \A i \in IDs : WF_vars(Step(i))

Spec == Init /\ [][Next]_vars
FairSpec == Spec /\ Fairness

-----------------------------------------------------------------------------
(* What the log promises.                                                  *)

Stages == {"unused", "list", "get", "pack", "aggregate", "readback", "create",
           "lookup", "returned"}

Results == {"none", "ok", "conflict", "exhausted", "rejected", "failed", "corrupt"}

Hashes == Seq(Revisions \X IDs)

IsSeq(s) == s \in Seq({s[k] : k \in DOMAIN s})

IsRef(ref) ==
  /\ ref.level \in Levels
  /\ {ref.start, ref.end} \subseteq Revisions
  /\ {ref.firstPrev, ref.last} \subseteq Hashes

IsFrontier(f) ==
  /\ DOMAIN f = Levels
  /\ \A l \in Levels : IsSeq(f[l]) /\ \A k \in DOMAIN f[l] : IsRef(f[l][k])

IsCommit(c) ==
  /\ c.format = "commit"
  /\ c.revision \in Revisions
  /\ c.id \in IDs
  /\ {c.prev, c.hash} \subseteq Hashes
  /\ IsFrontier(c.frontier)

\* The commit at revision r.
Logged(r) == objects[logKey(r)]

\* Invocation i may own revision r.
InOrder(i, r) ==
  \/ kind[i] = "AppendTo" /\ r = since[i] + 1
  \/ kind[i] = "Append" /\ r > since[i]

\* The references of a frontier name objects that exist and have their digests.
Resolves(ref) == Present(RefKey(ref)) /\ digest(objects[RefKey(ref)]) = ref.sha

Resolved(f) == \A l \in Levels : \A k \in DOMAIN f[l] : Resolves(f[l][k])

\* A log key names a commit of its own revision.
ObjectsOK == \A r \in Committed : IsCommit(Logged(r)) /\ Logged(r).revision = r

\* The variables of the invocations.
LocalsOK ==
  /\ pc \in [IDs -> Stages]
  /\ kind \in [IDs -> {"none", "Append", "AppendTo"}]
  /\ attempt \in [IDs -> 0..MaxRetries]
  /\ DOMAIN base = IDs
  /\ \A i \in IDs : base[i] = Nil \/ IsCommit(base[i])
  /\ DOMAIN levels = IDs
  /\ \A i \in IDs : IsFrontier(levels[i])
  /\ level \in [IDs -> Levels]
  /\ DOMAIN key = IDs
  /\ DOMAIN object = IDs
  /\ \A i \in IDs : pc[i] \in {"create", "lookup"} => IsCommit(object[i])
  /\ createErr \in [IDs -> CreateErrors \cup {"ok"}]
  /\ out \in [IDs -> [result : Results, revision : 0..MaxRevision]]
  /\ since \in [IDs -> 0..MaxRevision]

\* The type invariant: the objects under log keys are commits of their revision,
\* a snapshot is nil or a commit, and every other variable of an invocation holds
\* what its declaration in the code allows.
TypeOK == ObjectsOK /\ LocalsOK

\* The committed revisions are exactly 1..HEAD (DESIGN.md section 4, invariant 1),
\* whatever order racing, retried and forgotten Creates take effect in
\* (appendPrepared).
GapFree == Committed = 1..HeadRevision

\* One invocation commits at most one record, although Append retries with the
\* same commit ID while PUTs of its earlier attempts may still be under way.
AtMostOnce ==
  \A r, q \in Committed : Logged(r).id = Logged(q).id => r = q

\* An invocation that told its caller the batch was not appended (ErrConflict,
\* ErrExhausted, or an error of the batch itself) never has a record in the log,
\* not even later, by a PUT that lands after the return; nor has one whose own Log
\* cannot decode its batch (log.go:446-451).
RefusedIsFinal ==
  \A r \in Committed :
     LET i == Logged(r).id
     IN /\ out[i].result \notin {"conflict", "exhausted", "rejected"}
        /\ <<i, i>> \in Decodes

\* A nil error means that the record is in the log, at the revision returned,
\* also when Create failed and the winner lookup resolved the outcome.
AcknowledgedIsCommitted ==
  \A i \in IDs : out[i].result = "ok" =>
     /\ out[i].revision \in Committed
     /\ Logged(out[i].revision).id = i

\* A record of AppendTo is the immediate successor of the base its caller decided
\* on; a record of Append comes after everything committed before the call.
CommittedInOrder == \A r \in Committed : InOrder(Logged(r).id, r)

\* Every object a commit refers to is in the store and has the digest of the
\* reference (DESIGN.md section 4, invariants 8 and 9): a crash, a lost response
\* or a racing carry never leaves a commit in front of its segments.
ReferencesResolve == \A r \in Committed : Resolved(Logged(r).frontier)

\* Reading a commit's frontier from the oldest object to the newest yields every
\* earlier record once, in order, as it was committed.
HistoryComplete ==
  \A r \in Committed :
     Children(Nil, Chronological(Logged(r).frontier)) =
        [q \in 1..(r - 1) |-> project(Logged(q))]

\* Racing carries converge: no range of revisions is ever packed into two
\* different segments.
SegmentsConverge ==
  \A k1, k2 \in DOMAIN objects :
     /\ k1[1] = "tree"
     /\ k2[1] = "tree"
     /\ <<k1[2], k1[3], k1[4]>> = <<k2[2], k2[3], k2[4]>>
     => k1 = k2

\* On a store that keeps its contract an invocation reports ErrCorrupt only because
\* its T cannot decode a batch, which is its own or is in the log (record,
\* log.go:187-188): the validations of carry, createSegment, createAggregate, LoadHead
\* and the winner lookup never reject what the protocol itself produces.  Where all
\* Logs decode all batches nothing is ever reported as corrupt.
NoFalseCorruption ==
  \A i \in IDs : out[i].result = "corrupt" =>
     \E j \in {i} \cup {Logged(r).id : r \in Committed} : <<i, j>> \notin Decodes

\* Append gives up with ErrConflict only after it lost MaxRetries + 1 races, each
\* to a different record committed since the call.
RetriesAreContended ==
  \A i \in IDs : kind[i] = "Append" /\ out[i].result = "conflict" =>
     HeadRevision >= since[i] + MaxRetries + 1

\* Every invocation returns, however the others interleave with it: the retry
\* loop is bounded and nothing blocks.
Termination == \A i \in IDs : i \in Active ~> pc[i] = "returned"

=============================================================================
