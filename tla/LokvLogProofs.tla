--------------------------- MODULE LokvLogProofs ----------------------------
(***************************************************************************)
(* Proofs of the safety properties of LokvLog, and that it implements      *)
(* EventLog, for every radix, number of invocations, retry bound and       *)
(* revision bound.                                                         *)
(***************************************************************************)
EXTENDS LogRefinement, TLAPS

-----------------------------------------------------------------------------
(* Keys.                                                                   *)

\* Two revisions have two log keys.
LEMMA LogKeyInjective ==
  ASSUME NEW r \in Int, NEW q \in Int, logKey(r) = logKey(q)
  PROVE  r = q
  <1>1. MaxInt64 - r = MaxInt64 - q
    BY DEF logKey
  <1> QED BY <1>1, MaxInt64Assumption

\* The keys of segments and of commits are disjoint.
LEMMA TreeKeyIsNoLogKey ==
  ASSUME NEW k, k[1] = "tree", NEW r
  PROVE  k # logKey(r)
  BY DEF logKey

-----------------------------------------------------------------------------
(* Sequences of references.                                                *)

\* Append lengthens a sequence by one element at its end.
LEMMA AppendIsSeq ==
  ASSUME NEW s, IsSeq(s), NEW x
  PROVE  /\ IsSeq(Append(s, x))
         /\ DOMAIN Append(s, x) = 1..(Len(s) + 1)
         /\ DOMAIN s = 1..Len(s)
         /\ Len(s) \in Nat
         /\ \A k \in DOMAIN s : Append(s, x)[k] = s[k]
         /\ Append(s, x)[Len(s) + 1] = x
  <1> DEFINE S == {s[k] : k \in DOMAIN s} \cup {x}
             T == {Append(s, x)[k] : k \in DOMAIN Append(s, x)}
  <1>1. s \in Seq(S)
    BY DEF IsSeq
  <1>2. /\ DOMAIN s = 1..Len(s)
        /\ Len(s) \in Nat
        /\ Append(s, x) \in Seq(S)
        /\ DOMAIN Append(s, x) = 1..(Len(s) + 1)
        /\ Append(s, x)[Len(s) + 1] = x
        /\ \A k \in DOMAIN s : Append(s, x)[k] = s[k]
    BY <1>1
  <1>3. Append(s, x) \in Seq(T)
    BY <1>2
  <1> QED BY <1>2, <1>3 DEF IsSeq

\* The empty sequence has no index.
LEMMA EmptyIsSeq == IsSeq(<<>>) /\ DOMAIN <<>> = {}
  BY DEF IsSeq

\* The frontier of the first commit is well-formed.
LEMMA EmptyFrontierIsFrontier == IsFrontier(EmptyFrontier)
  BY EmptyIsSeq DEF IsFrontier, EmptyFrontier

\* carry's append of a reference to a level keeps the frontier well-formed.
LEMMA AddRefIsFrontier ==
  ASSUME NEW f, IsFrontier(f), NEW l \in Levels, NEW ref, IsRef(ref)
  PROVE  IsFrontier(AddRef(f, l, ref))
  <1>1. /\ DOMAIN AddRef(f, l, ref) = Levels
        /\ AddRef(f, l, ref)[l] = Append(f[l], ref)
        /\ \A m \in Levels \ {l} : AddRef(f, l, ref)[m] = f[m]
    BY DEF IsFrontier, AddRef
  <1>2. IsSeq(Append(f[l], ref)) /\ \A k \in DOMAIN Append(f[l], ref) : IsRef(Append(f[l], ref)[k])
    BY AppendIsSeq DEF IsFrontier
  <1> QED BY <1>1, <1>2 DEF IsFrontier

\* Emptying a packed level keeps the frontier well-formed.
LEMMA ClearIsFrontier ==
  ASSUME NEW f, IsFrontier(f), NEW l \in Levels
  PROVE  IsFrontier(Clear(f, l))
  BY EmptyIsSeq DEF IsFrontier, Clear

\* Head and Last of a nonempty sequence are elements of it.
LEMMA EndsOfSeq ==
  ASSUME NEW s, IsSeq(s), Len(s) >= 1
  PROVE  /\ Head(s) = s[1] /\ Last(s) = s[Len(s)]
         /\ 1 \in DOMAIN s /\ Len(s) \in DOMAIN s
  <1>1. Len(s) \in Nat /\ DOMAIN s = 1..Len(s) /\ Head(s) = s[1]
    BY DEF IsSeq
  <1> QED BY <1>1 DEF Last

-----------------------------------------------------------------------------
(* The store only grows.                                                   *)

Grows == \A k \in DOMAIN objects : k \in DOMAIN objects' /\ objects'[k] = objects[k]

\* A PUT adds its key at most and changes no object.
LEMMA PutGrows ==
  ASSUME NEW k, NEW v, Put(k, v)
  PROVE  /\ Grows
         /\ DOMAIN objects' = DOMAIN objects \cup {k}
         /\ ~Present(k) => objects'[k] = v
  BY DEF Put, Grows, Present

\* A step that leaves the store alone keeps its objects.
LEMMA UnchangedGrows ==
  ASSUME objects' = objects
  PROVE  Grows
  BY DEF Grows

\* A reference that resolves goes on resolving.
LEMMA ResolvesGrows ==
  ASSUME Grows, NEW ref, Resolves(ref)
  PROVE  RefKey(ref) \in DOMAIN objects' /\ digest(objects'[RefKey(ref)]) = ref.sha
  BY DEF Grows, Resolves, Present

\* A committed revision stays committed, with the same commit.
LEMMA CommittedGrows ==
  ASSUME Grows
  PROVE  /\ Committed \subseteq Committed'
         /\ \A r \in Committed : Logged(r)' = Logged(r)
         /\ Snapshots \subseteq Snapshots'
  <1>1. \A r \in Committed : logKey(r) \in DOMAIN objects' /\ objects'[logKey(r)] = objects[logKey(r)]
    BY DEF Grows, Committed, Present
  <1>2. Committed \subseteq Committed' /\ \A r \in Committed : Logged(r)' = Logged(r)
    BY <1>1 DEF Committed, Present, Logged, logKey
  <1>3. Snapshots \subseteq Snapshots'
    BY <1>1, <1>2 DEF Snapshots, logKey
  <1> QED BY <1>2, <1>3

\* Publishing a segment commits nothing.
LEMMA TreePut ==
  ASSUME NEW k, NEW v, Put(k, v), k[1] = "tree"
  PROVE  Grows /\ Committed' = Committed /\ \A r \in Committed : Logged(r)' = Logged(r)
  <1>1. Grows /\ DOMAIN objects' = DOMAIN objects \cup {k}
    BY PutGrows
  <1>2. \A r \in Revisions : logKey(r) # k
    BY TreeKeyIsNoLogKey
  <1>3. Committed' = Committed
    BY <1>1, <1>2 DEF Committed, Present, logKey, Grows
  <1> QED BY <1>1, <1>3, CommittedGrows

\* Publishing a commit adds its revision, unless that is taken.
LEMMA LogPut ==
  ASSUME NEW q \in Revisions, NEW v, Put(logKey(q), v)
  PROVE  /\ Grows
         /\ Committed' = Committed \cup {q}
         /\ \A r \in Committed : Logged(r)' = Logged(r)
         /\ q \notin Committed => Logged(q)' = v
         /\ Present(logKey(q))'
  <1>1. /\ Grows
        /\ DOMAIN objects' = DOMAIN objects \cup {logKey(q)}
        /\ ~Present(logKey(q)) => objects'[logKey(q)] = v
    BY PutGrows
  <1>2. \A r \in Revisions : logKey(r) = logKey(q) => r = q
    BY LogKeyInjective DEF Revisions
  <1>3. Committed' = Committed \cup {q}
    BY <1>1, <1>2 DEF Committed, Present, logKey
  <1>4. q \notin Committed => Logged(q)' = v
    BY <1>1 DEF Committed, Present, Logged, logKey
  <1>5. Present(logKey(q))'
    BY <1>1 DEF Present, logKey
  <1> QED BY <1>1, <1>3, <1>4, <1>5, CommittedGrows

-----------------------------------------------------------------------------
(* What the local computations leave behind.                               *)

\* The variables of every invocation but i.
Others(i) ==
  \A j \in IDs \ {i} :
     /\ pc'[j] = pc[j] /\ kind'[j] = kind[j] /\ since'[j] = since[j]
     /\ attempt'[j] = attempt[j] /\ base'[j] = base[j]
     /\ levels'[j] = levels[j] /\ level'[j] = level[j]
     /\ key'[j] = key[j] /\ object'[j] = object[j]
     /\ createErr'[j] = createErr[j] /\ out'[j] = out[j]

\* kind and since keep their types and change at most at i.
CallVars(i) ==
  /\ kind' \in [IDs -> {"none", "Append", "AppendTo"}]
  /\ since' \in [IDs -> 0..MaxRevision]
  /\ \A j \in IDs \ {i} : kind'[j] = kind[j] /\ since'[j] = since[j]

Returns(i, result, r) ==
  /\ pc'[i] = "returned"
  /\ out'[i] = [result |-> result, revision |-> r]
  /\ base'[i] = Nil
  /\ levels'[i] = EmptyFrontier

Sealed(i, b, f) ==
  /\ Publishable(i)
  /\ pc'[i] = "create"
  /\ base'[i] = b
  /\ levels'[i] = EmptyFrontier
  /\ key'[i] = logKey(b.revision + 1)
  /\ object'[i] = Commit(b.revision + 1, i, b.hash, f)
  /\ out'[i] = out[i]
  /\ attempt'[i] = attempt[i]

Packing(i, b, f) ==
  /\ pc'[i] = "pack"
  /\ base'[i] = b
  /\ levels'[i] = f
  /\ out'[i] = out[i]
  /\ attempt'[i] = attempt[i]

\* What Return does to the local state.
LEMMA ReturnEffect ==
  ASSUME LocalsOK, NEW i \in IDs, CallVars(i),
         NEW result \in Results, NEW r \in 0..MaxRevision,
         Return(i, result, r)
  PROVE  LocalsOK' /\ Others(i) /\ Returns(i, result, r)
  <1>1. Returns(i, result, r)
    BY DEF LocalsOK, Return, Returns
  <1>2. Others(i)
    BY DEF LocalsOK, Return, Others, CallVars
  <1>3. LocalsOK'
    <2>1. /\ pc' \in [IDs -> Stages]
          /\ attempt' \in [IDs -> 0..MaxRetries]
          /\ level' \in [IDs -> Levels]
          /\ createErr' \in [IDs -> CreateErrors \cup {"ok"}]
          /\ out' \in [IDs -> [result : Results, revision : 0..MaxRevision]]
      BY MaxRetriesAssumption, TopLevelAssumption DEF LocalsOK, Return, Stages, Levels
    <2>2. DOMAIN base' = IDs /\ DOMAIN levels' = IDs /\ DOMAIN key' = IDs /\ DOMAIN object' = IDs
      BY DEF LocalsOK, Return
    <2>3. \A j \in IDs : /\ base'[j] = Nil \/ IsCommit(base'[j])
                         /\ IsFrontier(levels'[j])
                         /\ pc'[j] \in {"create", "lookup"} => IsCommit(object'[j])
      BY <1>1, <1>2, EmptyFrontierIsFrontier DEF LocalsOK, Others, Returns
    <2> QED BY <2>1, <2>2, <2>3 DEF LocalsOK, CallVars, IsCommit, IsFrontier, IsSeq, IsRef, Nil
  <1> QED BY <1>1, <1>2, <1>3

\* A snapshot appendPrepared may extend.
IsBase(b) == (b = Nil \/ IsCommit(b)) /\ b.revision \in 0..(MaxRevision - 1)

\* The commit that appendPrepared encodes is well-formed.
LEMMA CommitIsCommit ==
  ASSUME NEW i \in IDs, NEW b, IsBase(b), NEW f, IsFrontier(f)
  PROVE  IsCommit(Commit(b.revision + 1, i, b.hash, f))
  <1>1. b.revision + 1 \in Revisions
    BY MaxRevisionAssumption DEF IsBase, Revisions
  <1>2. b.hash \in Hashes
    <2>1. CASE b = Nil
      <3>1. <<>> \in Seq(Revisions \X IDs)
        OBVIOUS
      <3> QED BY <2>1, <3>1 DEF Nil, ZeroHash, Hashes
    <2>2. CASE IsCommit(b)
      BY <2>2 DEF IsCommit
    <2> QED BY <2>1, <2>2 DEF IsBase
  <1>3. Append(b.hash, <<b.revision + 1, i>>) \in Hashes
    BY <1>1, <1>2 DEF Hashes
  <1> QED BY <1>1, <1>2, <1>3 DEF IsCommit, Commit, recordHash

\* What Seal does: the commit is ready to be created, or the call returns.
LEMMA SealEffect ==
  ASSUME LocalsOK, NEW i \in IDs, CallVars(i), NEW b, IsBase(b),
         NEW f, IsFrontier(f), Seal(i, b, f)
  PROVE  /\ LocalsOK' /\ Others(i)
         /\ Sealed(i, b, f) \/ Returns(i, "corrupt", b.revision + 1)
  <1> DEFINE r == b.revision + 1
             c == Commit(r, i, b.hash, f)
  <1>1. CASE ~(validateFrontier(f, r, b.hash) /\ snapshot(i, r, c))
    <2>1. Return(i, "corrupt", r)
      BY <1>1 DEF Seal
    <2>2. r \in 0..MaxRevision /\ "corrupt" \in Results
      BY MaxRevisionAssumption DEF IsBase, Results
    <2> QED BY <2>1, <2>2, ReturnEffect
  <1>2. CASE validateFrontier(f, r, b.hash) /\ snapshot(i, r, c)
    <2>1. /\ pc' = [pc EXCEPT ![i] = "create"]
          /\ base' = [base EXCEPT ![i] = b]
          /\ levels' = [levels EXCEPT ![i] = EmptyFrontier]
          /\ level' = [level EXCEPT ![i] = 0]
          /\ key' = [key EXCEPT ![i] = logKey(r)]
          /\ object' = [object EXCEPT ![i] = c]
          /\ createErr' = [createErr EXCEPT ![i] = "ok"]
          /\ attempt' = attempt /\ out' = out
      BY <1>2 DEF Seal
    <2>2. Sealed(i, b, f)
      <3>1. Publishable(i)
        BY <1>2 DEF snapshot, record, project, Commit, Publishable
      <3> QED BY <2>1, <3>1 DEF LocalsOK, Sealed
    <2>3. Others(i)
      BY <2>1 DEF LocalsOK, Others, CallVars
    <2>4. LocalsOK'
      <3>1. /\ pc' \in [IDs -> Stages]
            /\ level' \in [IDs -> Levels]
            /\ createErr' \in [IDs -> CreateErrors \cup {"ok"}]
        BY <2>1, TopLevelAssumption DEF LocalsOK, Stages, Levels
      <3>2. DOMAIN base' = IDs /\ DOMAIN levels' = IDs /\ DOMAIN key' = IDs /\ DOMAIN object' = IDs
        BY <2>1 DEF LocalsOK
      <3>3. IsCommit(c)
        BY CommitIsCommit
      <3>4. \A j \in IDs : /\ base'[j] = Nil \/ IsCommit(base'[j])
                           /\ IsFrontier(levels'[j])
                           /\ pc'[j] \in {"create", "lookup"} => IsCommit(object'[j])
        BY <2>2, <2>3, <3>3, EmptyFrontierIsFrontier DEF LocalsOK, Others, Sealed, IsBase
      <3> QED BY <2>1, <3>1, <3>2, <3>4 DEF LocalsOK, CallVars, IsCommit, IsFrontier, IsSeq, IsRef, Nil
    <2> QED BY <2>2, <2>3, <2>4
  <1> QED BY <1>1, <1>2

\* What Carry does: a level is full and packed next, or the frontier is done.
LEMMA CarryEffect ==
  ASSUME LocalsOK, NEW i \in IDs, CallVars(i), NEW b, IsBase(b),
         NEW f, IsFrontier(f), NEW l \in Levels, NEW ref, IsRef(ref),
         Carry(i, b, f, l, ref)
  PROVE  /\ LocalsOK' /\ Others(i)
         /\ \/ Packing(i, b, AddRef(f, l, ref))
            \/ Sealed(i, b, AddRef(f, l, ref))
            \/ Returns(i, "corrupt", b.revision + 1)
  <1> DEFINE added == AddRef(f, l, ref)
  <1>0. IsFrontier(added)
    BY AddRefIsFrontier
  <1>1. CASE ~Full(added, l)
    BY <1>0, <1>1, SealEffect DEF Carry
  <1>2. CASE Full(added, l)
    <2>1. /\ pc' = [pc EXCEPT ![i] = "pack"]
          /\ base' = [base EXCEPT ![i] = b]
          /\ levels' = [levels EXCEPT ![i] = added]
          /\ level' = [level EXCEPT ![i] = l]
          /\ key' = [key EXCEPT ![i] = <<>>]
          /\ object' = [object EXCEPT ![i] = Nil]
          /\ createErr' = [createErr EXCEPT ![i] = "ok"]
          /\ attempt' = attempt /\ out' = out
      BY <1>2 DEF Carry
    <2>2. Packing(i, b, added)
      BY <2>1 DEF LocalsOK, Packing
    <2>3. Others(i)
      BY <2>1 DEF LocalsOK, Others, CallVars
    <2>4. LocalsOK'
      <3>1. /\ pc' \in [IDs -> Stages]
            /\ level' \in [IDs -> Levels]
            /\ createErr' \in [IDs -> CreateErrors \cup {"ok"}]
        BY <2>1 DEF LocalsOK, Stages
      <3>2. DOMAIN base' = IDs /\ DOMAIN levels' = IDs /\ DOMAIN key' = IDs /\ DOMAIN object' = IDs
        BY <2>1 DEF LocalsOK
      <3>3. \A j \in IDs : /\ base'[j] = Nil \/ IsCommit(base'[j])
                           /\ IsFrontier(levels'[j])
                           /\ pc'[j] \in {"create", "lookup"} => IsCommit(object'[j])
        BY <2>2, <2>3, <1>0 DEF LocalsOK, Others, Packing, IsBase
      <3> QED BY <2>1, <3>1, <3>2, <3>3 DEF LocalsOK, CallVars, IsCommit, IsFrontier, IsSeq, IsRef, Nil
    <2> QED BY <2>2, <2>3, <2>4
  <1> QED BY <1>1, <1>2

-----------------------------------------------------------------------------
(* References that resolve.                                                *)

\* The references of f resolve after the step.
ResolvedAfter(f) ==
  \A l \in Levels : \A k \in DOMAIN f[l] :
     /\ RefKey(f[l][k]) \in DOMAIN objects'
     /\ digest(objects'[RefKey(f[l][k])]) = f[l][k].sha

ResolvesAfter(ref) ==
  RefKey(ref) \in DOMAIN objects' /\ digest(objects'[RefKey(ref)]) = ref.sha

\* A frontier that resolves goes on resolving.
LEMMA ResolvedGrows ==
  ASSUME Grows, NEW f, Resolved(f)
  PROVE  ResolvedAfter(f)
  BY ResolvesGrows DEF Resolved, ResolvedAfter

\* The empty frontier refers to nothing.
LEMMA EmptyResolved == Resolved(EmptyFrontier) /\ ResolvedAfter(EmptyFrontier)
  BY EmptyIsSeq DEF Resolved, ResolvedAfter, EmptyFrontier

\* A resolved reference added to a resolved frontier leaves it resolved.
LEMMA AddRefResolved ==
  ASSUME NEW f, IsFrontier(f), ResolvedAfter(f),
         NEW l \in Levels, NEW ref, ResolvesAfter(ref)
  PROVE  ResolvedAfter(AddRef(f, l, ref))
  <1>1. /\ AddRef(f, l, ref)[l] = Append(f[l], ref)
        /\ \A m \in Levels \ {l} : AddRef(f, l, ref)[m] = f[m]
    BY DEF IsFrontier, AddRef
  <1>2. \A k \in DOMAIN Append(f[l], ref) : ResolvesAfter(Append(f[l], ref)[k])
    <2>1. \A k \in DOMAIN f[l] : ResolvesAfter(f[l][k])
      BY DEF ResolvedAfter, ResolvesAfter
    <2>2. IsSeq(f[l])
      BY DEF IsFrontier
    <2> QED BY <2>1, <2>2, AppendIsSeq
  <1> QED BY <1>1, <1>2 DEF ResolvedAfter, ResolvesAfter

\* Emptying a level leaves a frontier resolved.
LEMMA ClearResolved ==
  ASSUME NEW f, IsFrontier(f), ResolvedAfter(f), NEW l \in Levels
  PROVE  ResolvedAfter(Clear(f, l))
  BY EmptyIsSeq DEF IsFrontier, ResolvedAfter, Clear

\* The frontier that the commit after b starts to build.
FirstFrontier(b) ==
  IF b = Nil THEN EmptyFrontier ELSE AddRef(b.frontier, 0, commitRef(b))

\* A snapshot other than nil is a commit of the log.
LEMMA SnapshotIsCommit ==
  ASSUME ObjectsOK, NEW b \in Snapshots, b # Nil
  PROVE  IsCommit(b) /\ b.revision \in Committed /\ Logged(b.revision) = b
  BY DEF Snapshots, ObjectsOK, Logged

\* The nil snapshot is no commit and stands at revision 0.
LEMMA NilIsNoCommit == ~IsCommit(Nil) /\ Nil.revision = 0
  BY DEF IsCommit, Nil

\* commitRef refers to its commit under the key of its revision.
LEMMA CommitRefIsRef ==
  ASSUME NEW c, IsCommit(c)
  PROVE  IsRef(commitRef(c)) /\ RefKey(commitRef(c)) = logKey(c.revision)
  BY TopLevelAssumption DEF IsCommit, IsRef, commitRef, RefKey, Levels

\* What appendPrepared does up to the first store operation.
LEMMA AppendPreparedEffect ==
  ASSUME TypeOK, NEW i \in IDs, CallVars(i), NEW b \in Snapshots,
         appendPrepared(i, b)
  PROVE  /\ LocalsOK' /\ Others(i)
         /\ \/ Returns(i, "exhausted", b.revision)
            \/ Returns(i, "corrupt", b.revision + 1)
            \/ /\ b.revision < MaxRevision
               /\ Packing(i, b, FirstFrontier(b)) \/ Sealed(i, b, FirstFrontier(b))
  <1>0. ObjectsOK /\ LocalsOK
    BY DEF TypeOK
  <1>1. CASE b.revision = MaxRevision /\ Return(i, "exhausted", b.revision)
    BY <1>0, <1>1, ReturnEffect, MaxRevisionAssumption DEF Results
  <1>2. CASE b = Nil /\ Seal(i, b, EmptyFrontier)
    <2>1. IsBase(b) /\ b.revision < MaxRevision
      BY <1>2, NilIsNoCommit, MaxRevisionAssumption DEF IsBase
    <2> QED BY <1>0, <1>2, <2>1, SealEffect, EmptyFrontierIsFrontier DEF FirstFrontier
  <1>3. CASE b.revision \in 1..(MaxRevision - 1) /\ Carry(i, b, b.frontier, 0, commitRef(b))
    <2>1. b # Nil /\ IsCommit(b)
      BY <1>0, <1>3, NilIsNoCommit, SnapshotIsCommit
    <2>2. IsBase(b) /\ b.revision < MaxRevision
      BY <1>3, <2>1, MaxRevisionAssumption DEF IsBase
    <2>3. IsFrontier(b.frontier) /\ 0 \in Levels /\ IsRef(commitRef(b))
      BY <2>1, CommitRefIsRef, TopLevelAssumption DEF IsCommit, Levels
    <2> QED BY <1>0, <1>3, <2>1, <2>2, <2>3, CarryEffect DEF FirstFrontier
  <1> QED BY <1>1, <1>2, <1>3 DEF appendPrepared

\* The frontier that a commit starts from resolves, its base included.
LEMMA FirstFrontierResolved ==
  ASSUME ObjectsOK, RecordInv, Grows, NEW b \in Snapshots
  PROVE  ResolvedAfter(FirstFrontier(b))
  <1>1. CASE b = Nil
    BY <1>1, EmptyResolved DEF FirstFrontier
  <1>2. CASE b # Nil
    <2>1. IsCommit(b) /\ b.revision \in Committed /\ Logged(b.revision) = b
      BY <1>2, SnapshotIsCommit
    <2>2. Resolved(b.frontier) /\ IsFrontier(b.frontier)
      BY <2>1 DEF RecordInv, IsCommit
    <2>3. Resolves(commitRef(b))
      BY <2>1, CommitRefIsRef DEF Resolves, Committed, Logged, commitRef
    <2>4. ResolvesAfter(commitRef(b)) /\ ResolvedAfter(b.frontier)
      BY <2>2, <2>3, ResolvesGrows, ResolvedGrows DEF ResolvesAfter
    <2>5. 0 \in Levels
      BY TopLevelAssumption DEF Levels
    <2> QED BY <1>2, <2>2, <2>4, <2>5, AddRefResolved DEF FirstFrontier
  <1> QED BY <1>1, <1>2

-----------------------------------------------------------------------------
(* The local state of the invocations after a step.                        *)

\* The stages of the other invocations survive a step that only adds objects.
LEMMA StageOfOthers ==
  ASSUME Grows, NEW i, Others(i), NEW j \in IDs \ {i}, StageInv(j)
  PROVE  StageInv(j)'
  <1>1. /\ pc'[j] = pc[j] /\ kind'[j] = kind[j] /\ since'[j] = since[j]
        /\ attempt'[j] = attempt[j] /\ base'[j] = base[j]
        /\ levels'[j] = levels[j] /\ level'[j] = level[j]
        /\ key'[j] = key[j] /\ object'[j] = object[j] /\ out'[j] = out[j]
    BY DEF Others
  <1>2. /\ Committed \subseteq Committed'
        /\ \A r \in Committed : Logged(r)' = Logged(r)
        /\ Snapshots \subseteq Snapshots'
    BY CommittedGrows
  <1>3. base'[j] = Nil \/ base'[j] \in Snapshots'
    BY <1>1, <1>2 DEF StageInv
  <1>4. Resolved(levels[j])'
    <2>1. ResolvedAfter(levels[j])
      BY ResolvedGrows DEF StageInv
    <2> QED BY <1>1, <2>1 DEF ResolvedAfter, Resolved, Resolves, Present
  <1>5. /\ pc'[j] = "unused" => attempt'[j] = 0
        /\ pc'[j] = "list" =>
              kind'[j] = "Append" /\ since'[j] + attempt'[j] \in {0} \cup Committed'
        /\ pc'[j] = "get" =>
              kind'[j] = "Append" /\ \E r \in Committed' : key'[j] = logKey(r) /\ Progress(j, r)'
        /\ pc'[j] \in {"pack", "aggregate", "readback", "create", "lookup"} =>
              base'[j].revision < MaxRevision /\ Progress(j, base[j].revision)'
    BY <1>1, <1>2 DEF StageInv, Progress
  <1>6. pc'[j] \in {"aggregate", "readback"} =>
           IsRef(Packed(j))' /\ level'[j] + 1 \in Levels /\ key'[j] = treeKey(Packed(j))'
    BY <1>1 DEF StageInv, Packed, IsRef
  <1>7. pc'[j] \in {"create", "lookup"} =>
           /\ key'[j] = logKey(object'[j].revision)
           /\ object'[j].id = j
           /\ Publishable(j)
           /\ object'[j].revision = base'[j].revision + 1
           /\ Resolved(object[j].frontier)'
    <2>1. pc[j] \in {"create", "lookup"} => ResolvedAfter(object[j].frontier)
      BY ResolvedGrows DEF StageInv
    <2>2. pc'[j] \in {"create", "lookup"} => Resolved(object[j].frontier)'
      BY <1>1, <2>1 DEF ResolvedAfter, Resolved, Resolves, Present
    <2> QED BY <1>1, <2>2 DEF StageInv
  <1>8. /\ out'[j].result = "ok" =>
              out'[j].revision \in Committed' /\ Logged(out[j].revision)'.id = j
        /\ out'[j].result = "conflict" /\ kind'[j] = "Append" =>
              out'[j].revision \in Committed' /\ out'[j].revision > since'[j] + MaxRetries
        /\ out'[j].result # "none" => pc'[j] = "returned"
    <2>1. out[j].result = "ok" => objects'[logKey(out[j].revision)] = objects[logKey(out[j].revision)]
      BY DEF Grows, StageInv, Committed, Present
    <2> QED BY <1>1, <1>2, <2>1 DEF StageInv, Logged, logKey
  <1> QED BY <1>3, <1>4, <1>5, <1>6, <1>7, <1>8 DEF StageInv

\* The stage of an invocation that returns a truthful result.
LEMMA StageOfReturned ==
  ASSUME NEW i \in IDs, NEW result, NEW r, Returns(i, result, r),
         result = "ok" => r \in Committed' /\ Logged(r)'.id = i,
         result = "conflict" /\ kind'[i] = "Append" =>
            r \in Committed' /\ r > since'[i] + MaxRetries
  PROVE  StageInv(i)'
  <1>1. Resolved(levels[i])'
    BY EmptyResolved DEF Returns, ResolvedAfter, Resolved, Resolves, Present
  <1>2. base'[i] = Nil /\ pc'[i] = "returned" /\ out'[i] = [result |-> result, revision |-> r]
    BY DEF Returns
  <1>3. out'[i].result = "ok" => out'[i].revision \in Committed' /\ Logged(out[i].revision)'.id = i
    BY <1>2 DEF Logged, logKey
  <1> QED BY <1>1, <1>2, <1>3 DEF StageInv

\* The stage of an invocation that is packing or about to commit.
LEMMA StageOfWorking ==
  ASSUME NEW i \in IDs, NEW b, NEW f,
         Packing(i, b, f) \/ Sealed(i, b, f),
         b \in Snapshots', b.revision < MaxRevision,
         Progress(i, b.revision)', ResolvedAfter(f), out[i].result = "none"
  PROVE  StageInv(i)'
  <1>1. CASE Packing(i, b, f)
    <2>1. Resolved(levels[i])'
      BY <1>1 DEF Packing, ResolvedAfter, Resolved, Resolves, Present
    <2> QED BY <1>1, <2>1 DEF Packing, StageInv, Progress
  <1>2. CASE Sealed(i, b, f)
    <2>1. Resolved(levels[i])'
      BY <1>2, EmptyResolved DEF Sealed, ResolvedAfter, Resolved, Resolves, Present
    <2>2. /\ object'[i].revision = b.revision + 1
          /\ object'[i].id = i
          /\ object'[i].frontier = f
      BY <1>2 DEF Sealed, Commit
    <2>3. Resolved(object[i].frontier)'
      BY <2>2 DEF ResolvedAfter, Resolved, Resolves, Present
    <2> QED BY <1>2, <2>1, <2>2, <2>3 DEF Sealed, StageInv, Progress
  <1> QED BY <1>1, <1>2

-----------------------------------------------------------------------------
(* Who owns which record.                                                  *)

StoreInv ==
  ObjectsOK /\ Contiguous /\ AtMostOnce /\ RecordInv /\ LateInv /\ LateOnce

\* A PUT of invocation i that may still become a record.
MayLand(put, i) == put[1][1] # "tree" /\ ~Present(put[1]) /\ put[2].id = i

OwnsNothing(i) == Uncommitted(i) /\ \A put \in late : ~MayLand(put, i)

\* The step leaves i answerable for what it owns.
Keeps(i) ==
  /\ \A r \in Committed : Logged(r).id = i =>
        InOrder(i, r)' /\ (Pending(i, r)' \/ Acknowledged(i, r)')
  /\ \A put \in late : MayLand(put, i) =>
        InOrder(i, put[2].revision)' /\ Pending(i, put[2].revision)'

\* An invocation that has not tried to commit owns no record and no late PUT.
LEMMA NothingYet ==
  ASSUME RecordInv, LateInv, NEW i \in IDs, pc[i] \notin {"lookup", "returned"}
  PROVE  OwnsNothing(i)
  <1>1. Uncommitted(i)
    BY DEF RecordInv, Uncommitted, Pending, Acknowledged
  <1>2. \A put \in late : ~MayLand(put, i)
    BY DEF LateInv, MayLand, Pending
  <1> QED BY <1>1, <1>2 DEF OwnsNothing

\* One that finds another's record under its key owns nothing either.
LEMMA NothingAfterLostRace ==
  ASSUME RecordInv, LateInv, NEW i \in IDs, StageInv(i), pc[i] = "lookup",
         Present(key[i]), objects[key[i]].id # i
  PROVE  OwnsNothing(i)
  <1>1. key[i] = logKey(object[i].revision)
    BY DEF StageInv
  <1>2. Uncommitted(i)
    BY <1>1 DEF RecordInv, Uncommitted, Pending, Acknowledged, Logged
  <1>3. \A put \in late : ~MayLand(put, i)
    BY <1>1 DEF LateInv, MayLand, Pending, IsLogPut
  <1> QED BY <1>2, <1>3 DEF OwnsNothing

\* Who owns nothing can lose no claim.
LEMMA NothingIsKept ==
  ASSUME NEW i \in IDs, OwnsNothing(i)
  PROVE  Keeps(i)
  BY DEF OwnsNothing, Keeps, Uncommitted

\* Another invocation's claims do not change.
LEMMA OthersKeep ==
  ASSUME NEW i, Others(i), NEW j \in IDs \ {i}, NEW r
  PROVE  /\ InOrder(j, r) => InOrder(j, r)'
         /\ Pending(j, r) => Pending(j, r)'
         /\ Acknowledged(j, r) => Acknowledged(j, r)'
  BY DEF Others, InOrder, Pending, Acknowledged

\* Every commit belongs to an invocation.
LEMMA CommitOwner ==
  ASSUME ObjectsOK, NEW r \in Committed
  PROVE  Logged(r).id \in IDs
  BY DEF ObjectsOK, IsCommit

\* A step that commits nothing.
LEMMA SameLog ==
  ASSUME StoreInv, Grows, Committed' = Committed,
         \A put \in late' : put \in late \/ put[1][1] = "tree",
         NEW i, Others(i), Keeps(i)
  PROVE  StoreInv'
  <1>1. \A r \in Committed : Logged(r)' = Logged(r)
    BY CommittedGrows
  <1>2. ObjectsOK' /\ Contiguous' /\ AtMostOnce'
    BY <1>1 DEF StoreInv, ObjectsOK, Contiguous, AtMostOnce
  <1>3. RecordInv'
    <2> SUFFICES ASSUME NEW r \in Committed
                 PROVE  /\ Resolved(Logged(r).frontier)'
                        /\ InOrder(Logged(r).id, r)'
                        /\ Pending(Logged(r).id, r)' \/ Acknowledged(Logged(r).id, r)'
      BY DEF RecordInv
    <2> DEFINE j == Logged(r).id
    <2>1. ResolvedAfter(Logged(r).frontier)
      BY ResolvedGrows DEF StoreInv, RecordInv
    <2>2. Resolved(Logged(r).frontier)'
      BY <1>1, <2>1 DEF ResolvedAfter, Resolved, Resolves, Present
    <2>3. j \in IDs /\ InOrder(j, r) /\ (Pending(j, r) \/ Acknowledged(j, r))
      BY CommitOwner DEF StoreInv, RecordInv
    <2>4. CASE j = i
      BY <1>1, <2>2, <2>4 DEF Keeps, InOrder, Pending, Acknowledged
    <2>5. CASE j # i
      <3>1. InOrder(j, r)' /\ (Pending(j, r)' \/ Acknowledged(j, r)')
        BY <1>1, <2>3, <2>5 DEF Others, InOrder, Pending, Acknowledged
      <3> QED BY <1>1, <2>2, <3>1 DEF InOrder, Pending, Acknowledged
    <2> QED BY <2>4, <2>5
  <1>4. LateInv'
    <2> SUFFICES ASSUME NEW put \in late, put[1][1] # "tree"
                 PROVE  /\ IsLogPut(put)
                        /\ HasPredecessor(put[2].revision)'
                        /\ Resolved(put[2].frontier)'
                        /\ \/ Present(put[1])'
                           \/ /\ Uncommitted(put[2].id)'
                              /\ InOrder(put[2].id, put[2].revision)'
                              /\ Pending(put[2].id, put[2].revision)'
      BY DEF LateInv
    <2>1. /\ IsLogPut(put) /\ HasPredecessor(put[2].revision) /\ Resolved(put[2].frontier)
          /\ \/ Present(put[1])
             \/ /\ Uncommitted(put[2].id)
                /\ InOrder(put[2].id, put[2].revision)
                /\ Pending(put[2].id, put[2].revision)
      BY DEF StoreInv, LateInv
    <2>2. HasPredecessor(put[2].revision)'
      BY <2>1 DEF HasPredecessor
    <2>3. Resolved(put[2].frontier)'
      BY <2>1, ResolvedGrows DEF ResolvedAfter, Resolved, Resolves, Present
    <2>4. CASE Present(put[1])
      BY <2>1, <2>2, <2>3, <2>4 DEF Grows, Present
    <2>5. CASE ~Present(put[1])
      <3> DEFINE j == put[2].id
      <3>1. j \in IDs
        BY <2>1 DEF IsLogPut, IsCommit
      <3>2. Uncommitted(j)'
        BY <1>1, <2>1, <2>5 DEF Uncommitted
      <3>3. InOrder(j, put[2].revision)' /\ Pending(j, put[2].revision)'
        <4>1. CASE j = i
          BY <2>5, <4>1 DEF Keeps, MayLand
        <4>2. CASE j # i
          BY <2>1, <2>5, <3>1, <4>2, OthersKeep
        <4> QED BY <4>1, <4>2
      <3> QED BY <2>1, <2>2, <2>3, <3>2, <3>3
    <2> QED BY <2>4, <2>5
  <1>5. LateOnce'
    BY DEF StoreInv, LateOnce, Grows, Present
  <1> QED BY <1>2, <1>3, <1>4, <1>5 DEF StoreInv

\* A commit that invocation i may publish at revision q.
Candidate(i, q, c) ==
  /\ q \in Revisions /\ IsCommit(c) /\ c.revision = q /\ c.id = i
  /\ HasPredecessor(q) /\ Resolved(c.frontier) /\ Publishable(i)

\* A commit takes effect: by its Create, or because its PUT lands.
LEMMA CommitPut ==
  ASSUME StoreInv, NEW i \in IDs, NEW q, NEW c, Candidate(i, q, c),
         Put(logKey(q), c), q \notin Committed, late' \subseteq late,
         Others(i), InOrder(i, q)', Pending(i, q)' \/ Acknowledged(i, q)',
         Uncommitted(i), \A put \in late : MayLand(put, i) => put[1] = logKey(q)
  PROVE  StoreInv'
  <1>0. q \in Revisions /\ IsCommit(c) /\ c.revision = q /\ c.id = i /\ q \in Nat
    BY DEF Candidate, Revisions
  <1>1. /\ Grows
        /\ Committed' = Committed \cup {q}
        /\ \A r \in Committed : Logged(r)' = Logged(r)
        /\ Logged(q)' = c
        /\ logKey(q) \in DOMAIN objects'
    BY <1>0, LogPut DEF Present, logKey
  <1>2. ObjectsOK'
    <2>1. \A r \in Committed' : IsCommit(Logged(r)') /\ Logged(r)'.revision = r
      BY <1>0, <1>1 DEF StoreInv, ObjectsOK
    <2> QED BY <2>1 DEF ObjectsOK
  <1>3. Contiguous'
    <2>1. PICK n \in 0..MaxRevision : Committed = 1..n
      BY DEF StoreInv, Contiguous
    <2>2. q = n + 1
      BY <1>0, <2>1 DEF Candidate, HasPredecessor, Revisions
    <2>3. n + 1 \in 0..MaxRevision /\ Committed' = 1..(n + 1)
      BY <1>0, <1>1, <2>1, <2>2, MaxRevisionAssumption DEF Revisions
    <2> QED BY <2>3 DEF Contiguous
  <1>4. AtMostOnce'
    BY <1>0, <1>1 DEF StoreInv, AtMostOnce, Uncommitted
  <1>5. RecordInv'
    <2> SUFFICES ASSUME NEW r \in Committed'
                 PROVE  /\ Resolved(Logged(r).frontier)'
                        /\ InOrder(Logged(r).id, r)'
                        /\ Pending(Logged(r).id, r)' \/ Acknowledged(Logged(r).id, r)'
      BY DEF RecordInv
    <2>1. CASE r = q
      <3>1. ResolvedAfter(c.frontier)
        BY <1>1, ResolvedGrows DEF Candidate
      <3>2. Resolved(Logged(r).frontier)'
        BY <1>1, <2>1, <3>1 DEF ResolvedAfter, Resolved, Resolves, Present
      <3>3. Logged(r)'.id = i
        BY <1>0, <1>1, <2>1
      <3> QED BY <2>1, <3>2, <3>3 DEF InOrder, Pending, Acknowledged
    <2>2. CASE r # q
      <3> DEFINE j == Logged(r).id
      <3>1. r \in Committed /\ Logged(r)' = Logged(r)
        BY <1>1, <2>2
      <3>2. j \in IDs /\ j # i /\ InOrder(j, r) /\ (Pending(j, r) \/ Acknowledged(j, r))
        BY <3>1, CommitOwner DEF StoreInv, RecordInv, Uncommitted
      <3>3. InOrder(j, r)' /\ (Pending(j, r)' \/ Acknowledged(j, r)')
        BY <3>1, <3>2 DEF Others, InOrder, Pending, Acknowledged
      <3>4. ResolvedAfter(Logged(r).frontier)
        BY <1>1, <3>1, ResolvedGrows DEF StoreInv, RecordInv
      <3>5. Resolved(Logged(r).frontier)'
        BY <3>1, <3>4 DEF ResolvedAfter, Resolved, Resolves, Present
      <3> QED BY <3>3, <3>5
    <2> QED BY <2>1, <2>2
  <1>6. LateInv'
    <2> SUFFICES ASSUME NEW put \in late, put[1][1] # "tree"
                 PROVE  /\ IsLogPut(put)
                        /\ HasPredecessor(put[2].revision)'
                        /\ Resolved(put[2].frontier)'
                        /\ \/ Present(put[1])'
                           \/ /\ Uncommitted(put[2].id)'
                              /\ InOrder(put[2].id, put[2].revision)'
                              /\ Pending(put[2].id, put[2].revision)'
      BY DEF LateInv
    <2>1. /\ IsLogPut(put) /\ HasPredecessor(put[2].revision) /\ Resolved(put[2].frontier)
          /\ \/ Present(put[1])
             \/ /\ Uncommitted(put[2].id)
                /\ InOrder(put[2].id, put[2].revision)
                /\ Pending(put[2].id, put[2].revision)
      BY DEF StoreInv, LateInv
    <2>2. HasPredecessor(put[2].revision)'
      BY <1>1, <2>1 DEF HasPredecessor
    <2>3. Resolved(put[2].frontier)'
      BY <1>1, <2>1, ResolvedGrows DEF ResolvedAfter, Resolved, Resolves, Present
    <2>4. CASE Present(put[1]) \/ put[2].id = i
      <3>1. Present(put[1])'
        BY <1>1, <2>4 DEF Grows, Present, MayLand
      <3> QED BY <2>1, <2>2, <2>3, <3>1
    <2>5. CASE ~Present(put[1]) /\ put[2].id # i
      <3> DEFINE j == put[2].id
      <3>1. j \in IDs
        BY <2>1 DEF IsLogPut, IsCommit
      <3>2. Uncommitted(j)'
        BY <1>0, <1>1, <2>1, <2>5 DEF Uncommitted
      <3>3. InOrder(j, put[2].revision)' /\ Pending(j, put[2].revision)'
        BY <2>1, <2>5, <3>1, OthersKeep
      <3> QED BY <2>1, <2>2, <2>3, <3>2, <3>3
    <2> QED BY <2>4, <2>5
  <1>7. LateOnce'
    BY <1>1 DEF StoreInv, LateOnce, Grows, Present
  <1> QED BY <1>2, <1>3, <1>4, <1>5, <1>6, <1>7 DEF StoreInv

\* The PUT of a commit is left under way.
LEMMA CommitLate ==
  ASSUME StoreInv, NEW i \in IDs, NEW q, NEW c, Candidate(i, q, c),
         objects' = objects, late' = late \cup {<<logKey(q), c>>},
         Others(i), InOrder(i, q)', Pending(i, q)', OwnsNothing(i)
  PROVE  StoreInv'
  <1> DEFINE new == <<logKey(q), c>>
  <1>0. /\ new[1] = logKey(q) /\ new[2] = c /\ new[1][1] = "log"
        /\ c.revision = q /\ c.id = i /\ IsCommit(c)
    BY DEF Candidate, logKey
  <1>1. Committed' = Committed /\ \A r \in Committed : Logged(r)' = Logged(r)
    BY DEF Committed, Present, Logged, logKey
  <1>2. ObjectsOK' /\ Contiguous' /\ AtMostOnce'
    BY <1>1 DEF StoreInv, ObjectsOK, Contiguous, AtMostOnce
  <1>3. RecordInv'
    <2> SUFFICES ASSUME NEW r \in Committed
                 PROVE  /\ Resolved(Logged(r).frontier)'
                        /\ InOrder(Logged(r).id, r)'
                        /\ Pending(Logged(r).id, r)' \/ Acknowledged(Logged(r).id, r)'
      BY <1>1 DEF RecordInv
    <2> DEFINE j == Logged(r).id
    <2>1. j \in IDs /\ j # i /\ InOrder(j, r) /\ (Pending(j, r) \/ Acknowledged(j, r))
      BY CommitOwner DEF StoreInv, RecordInv, OwnsNothing, Uncommitted
    <2>2. InOrder(j, r)' /\ (Pending(j, r)' \/ Acknowledged(j, r)')
      BY <1>1, <2>1 DEF Others, InOrder, Pending, Acknowledged
    <2>3. Resolved(Logged(r).frontier)'
      BY <1>1 DEF StoreInv, RecordInv, Resolved, Resolves, Present
    <2> QED BY <2>2, <2>3
  <1>4. LateInv'
    <2> SUFFICES ASSUME NEW put \in late', put[1][1] # "tree"
                 PROVE  /\ IsLogPut(put)
                        /\ HasPredecessor(put[2].revision)'
                        /\ Resolved(put[2].frontier)'
                        /\ \/ Present(put[1])'
                           \/ /\ Uncommitted(put[2].id)'
                              /\ InOrder(put[2].id, put[2].revision)'
                              /\ Pending(put[2].id, put[2].revision)'
      BY DEF LateInv
    <2>1. CASE put = new
      <3>1. IsLogPut(put)
        BY <1>0, <2>1 DEF IsLogPut
      <3>2. HasPredecessor(put[2].revision)' /\ Resolved(put[2].frontier)'
        BY <1>0, <1>1, <2>1 DEF Candidate, HasPredecessor, Resolved, Resolves, Present
      <3>3. Uncommitted(put[2].id)'
        BY <1>0, <1>1, <2>1 DEF OwnsNothing, Uncommitted
      <3>4. InOrder(put[2].id, put[2].revision)' /\ Pending(put[2].id, put[2].revision)'
        BY <1>0, <2>1
      <3> QED BY <3>1, <3>2, <3>3, <3>4
    <2>2. CASE put # new
      <3>0. put \in late
        BY <2>2
      <3>1. /\ IsLogPut(put) /\ HasPredecessor(put[2].revision) /\ Resolved(put[2].frontier)
            /\ \/ Present(put[1])
               \/ /\ Uncommitted(put[2].id)
                  /\ InOrder(put[2].id, put[2].revision)
                  /\ Pending(put[2].id, put[2].revision)
        BY <3>0 DEF StoreInv, LateInv
      <3>2. HasPredecessor(put[2].revision)' /\ Resolved(put[2].frontier)'
        BY <1>1, <3>1 DEF HasPredecessor, Resolved, Resolves, Present
      <3>3. CASE Present(put[1])
        BY <3>1, <3>2, <3>3 DEF Present
      <3>4. CASE ~Present(put[1])
        <4>1. put[2].id \in IDs /\ put[2].id # i
          BY <3>0, <3>1, <3>4 DEF IsLogPut, IsCommit, OwnsNothing, MayLand
        <4>2. Uncommitted(put[2].id)'
          BY <1>1, <3>1, <3>4 DEF Uncommitted
        <4>3. InOrder(put[2].id, put[2].revision)' /\ Pending(put[2].id, put[2].revision)'
          BY <3>1, <3>4, <4>1, OthersKeep
        <4> QED BY <3>1, <3>2, <4>2, <4>3
      <3> QED BY <3>3, <3>4
    <2> QED BY <2>1, <2>2
  <1>5. LateOnce'
    <2> SUFFICES ASSUME NEW x \in late', NEW y \in late',
                        x[1][1] # "tree", y[1][1] # "tree",
                        ~Present(x[1]), ~Present(y[1]), x[2].id = y[2].id
                 PROVE  x[1] = y[1]
      BY DEF LateOnce, Present
    <2>1. CASE x = new \/ y = new
      BY <1>0, <2>1 DEF OwnsNothing, MayLand
    <2>2. CASE x # new /\ y # new
      BY <2>2 DEF StoreInv, LateOnce
    <2> QED BY <2>1, <2>2
  <1> QED BY <1>2, <1>3, <1>4, <1>5 DEF StoreInv

-----------------------------------------------------------------------------
(* The actions.                                                            *)

\* In a log without gaps the head is its length.
LEMMA HeadOfContiguous ==
  ASSUME Contiguous
  PROVE  /\ HeadRevision \in 0..MaxRevision
         /\ HeadRevision \in {0} \cup Committed
         /\ Committed = 1..HeadRevision
  <1>1. PICK n \in 0..MaxRevision : Committed = 1..n
    BY DEF Contiguous
  <1>2. CASE n = 0
    BY <1>1, <1>2, MaxRevisionAssumption DEF HeadRevision
  <1>3. CASE n # 0
    <2>1. n \in Committed /\ \A q \in Committed : n >= q
      BY <1>1, <1>3
    <2>2. Max(Committed) \in Committed /\ \A q \in Committed : Max(Committed) >= q
      BY <2>1 DEF Max
    <2>3. Max(Committed) = n
      BY <1>1, <2>1, <2>2
    <2> QED BY <1>1, <1>3, <2>1, <2>3 DEF HeadRevision
  <1> QED BY <1>2, <1>3

\* IInv from what holds of the store and of the invocation that moved.
LEMMA Combine ==
  ASSUME IInv, Grows, NEW i \in IDs, Others(i), LocalsOK', StageInv(i)', StoreInv'
  PROVE  IInv'
  <1>1. \A j \in IDs : StageInv(j)'
    <2>1. \A j \in IDs \ {i} : StageInv(j)'
      BY StageOfOthers DEF IInv
    <2> QED BY <2>1
  <1> QED BY <1>1 DEF IInv, StoreInv, TypeOK

\* IInv splits into what it says of the store and of the invocations.
LEMMA StoreInvOfIInv == IInv => StoreInv /\ TypeOK /\ LocalsOK /\ \A i \in IDs : StageInv(i)
  BY DEF IInv, StoreInv, TypeOK

\* Steps before the commit is tried, on an unchanged store.
LEMMA EarlyStep ==
  ASSUME IInv, NEW i \in IDs, pc[i] \notin {"lookup", "returned"},
         UNCHANGED storeVars, Others(i), LocalsOK', StageInv(i)'
  PROVE  IInv'
  <1>1. Grows /\ Committed' = Committed /\ late' = late
    BY UnchangedGrows DEF storeVars, Committed, Present, logKey
  <1>2. Keeps(i)
    BY StoreInvOfIInv, NothingYet, NothingIsKept DEF StoreInv
  <1>3. StoreInv'
    BY <1>1, <1>2, StoreInvOfIInv, SameLog
  <1> QED BY <1>1, <1>3, Combine

\* A step that starts no call leaves the history of the calls alone.
LEMMA KeepCallVars ==
  ASSUME LocalsOK, kind' = kind, since' = since, NEW i \in IDs
  PROVE  CallVars(i)
  BY DEF LocalsOK, CallVars

\* What Start does when a call begins.
LEMMA StartCallVars ==
  ASSUME LocalsOK, NEW i \in IDs, NEW k \in {"Append", "AppendTo"},
         NEW r \in 0..MaxRevision, Start(i, k, r)
  PROVE  /\ CallVars(i) /\ kind'[i] = k /\ since'[i] = r
         /\ pc[i] = "unused" /\ UNCHANGED storeVars
  BY DEF LocalsOK, CallVars, Start

\* A call that has not returned has no result.
LEMMA NotReturnedYet ==
  ASSUME IInv, NEW i \in IDs, pc[i] # "returned"
  PROVE  out[i].result = "none"
  BY DEF IInv, StageInv

\* The revision of a snapshot, nil included, is in range.
LEMMA SnapshotRevision ==
  ASSUME ObjectsOK, NEW b \in Snapshots
  PROVE  b.revision \in 0..MaxRevision
  <1>1. CASE b = Nil
    BY <1>1, NilIsNoCommit, MaxRevisionAssumption
  <1>2. CASE b # Nil
    BY <1>2, SnapshotIsCommit DEF IsCommit, Revisions
  <1> QED BY <1>1, <1>2

\* appendPrepared, on a base that the invocation may extend.
LEMMA AppendPreparedStep ==
  ASSUME IInv, NEW i \in IDs, pc[i] \notin {"lookup", "returned"},
         CallVars(i), UNCHANGED storeVars,
         NEW b \in Snapshots, appendPrepared(i, b),
         \/ kind'[i] = "AppendTo" /\ b.revision = since'[i]
         \/ kind'[i] = "Append" /\ b.revision >= since'[i] + attempt[i]
  PROVE  IInv'
  <1>0. TypeOK /\ ObjectsOK /\ RecordInv /\ out[i].result = "none"
    BY NotReturnedYet DEF IInv, TypeOK
  <1>1. /\ LocalsOK' /\ Others(i)
        /\ \/ Returns(i, "exhausted", b.revision)
           \/ Returns(i, "corrupt", b.revision + 1)
           \/ /\ b.revision < MaxRevision
              /\ Packing(i, b, FirstFrontier(b)) \/ Sealed(i, b, FirstFrontier(b))
    BY <1>0, AppendPreparedEffect
  <1>2. Grows /\ b \in Snapshots'
    BY UnchangedGrows, CommittedGrows DEF storeVars
  <1>3. ResolvedAfter(FirstFrontier(b))
    BY <1>0, <1>2, FirstFrontierResolved
  <1>4. StageInv(i)'
    <2>1. CASE Returns(i, "exhausted", b.revision)
      BY <2>1, StageOfReturned
    <2>2. CASE Returns(i, "corrupt", b.revision + 1)
      BY <2>2, StageOfReturned
    <2>3. CASE b.revision < MaxRevision /\ (Packing(i, b, FirstFrontier(b)) \/ Sealed(i, b, FirstFrontier(b)))
      <3>1. attempt'[i] = attempt[i]
        BY <2>3 DEF Packing, Sealed
      <3>2. Progress(i, b.revision)'
        BY <3>1 DEF Progress
      <3> QED BY <1>0, <1>2, <1>3, <2>3, <3>2, StageOfWorking
    <2> QED BY <1>1, <2>1, <2>2, <2>3
  <1> QED BY <1>1, <1>4, EarlyStep

\* CallAppend preserves the invariant.
LEMMA CallAppendStep ==
  ASSUME IInv, NEW i \in IDs, CallAppend(i)
  PROVE  IInv'
  <1>0. /\ HeadRevision \in 0..MaxRevision /\ HeadRevision \in {0} \cup Committed
        /\ LocalsOK /\ StageInv(i)
    BY HeadOfContiguous, StoreInvOfIInv DEF IInv
  <1>1. /\ CallVars(i) /\ kind'[i] = "Append" /\ since'[i] = HeadRevision
        /\ pc[i] = "unused" /\ UNCHANGED storeVars
    BY <1>0, StartCallVars DEF CallAppend
  <1>2. /\ pc' = [pc EXCEPT ![i] = "list"]
        /\ UNCHANGED <<attempt, base, levels, level, key, object, createErr, out>>
    BY DEF CallAppend, locals
  <1>3. Others(i)
    BY <1>0, <1>1, <1>2 DEF LocalsOK, Others, CallVars
  <1>4. LocalsOK'
    <2>1. pc' \in [IDs -> Stages]
      BY <1>0, <1>2 DEF LocalsOK, Stages
    <2>2. \A j \in IDs : pc'[j] \in {"create", "lookup"} => IsCommit(object'[j])
      BY <1>0, <1>2 DEF LocalsOK
    <2> QED BY <1>0, <1>1, <1>2, <2>1, <2>2 DEF LocalsOK, CallVars
  <1>5. Grows /\ Committed' = Committed /\ Snapshots' = Snapshots
    BY <1>1, UnchangedGrows DEF storeVars, Committed, Snapshots, Present, logKey
  <1>6. StageInv(i)'
    <2>1. pc'[i] = "list" /\ attempt'[i] = 0 /\ out'[i].result = "none"
      BY <1>0, <1>1, <1>2, NotReturnedYet DEF LocalsOK, StageInv
    <2>2. since'[i] + attempt'[i] \in {0} \cup Committed'
      BY <1>0, <1>1, <1>5, <2>1
    <2>3. (base[i] = Nil \/ base[i] \in Snapshots)'
      BY <1>0, <1>2, <1>5 DEF StageInv
    <2>4. Resolved(levels[i])'
      BY <1>0, <1>1, <1>2 DEF StageInv, storeVars, Resolved, Resolves, Present
    <2> QED BY <1>1, <2>1, <2>2, <2>3, <2>4 DEF StageInv
  <1> QED BY <1>1, <1>3, <1>4, <1>6, EarlyStep

\* CallAppendTo preserves the invariant.
LEMMA CallAppendToStep ==
  ASSUME IInv, NEW i \in IDs, CallAppendTo(i)
  PROVE  IInv'
  <1>0. LocalsOK /\ ObjectsOK
    BY DEF IInv, TypeOK
  <1>1. PICK b \in Snapshots : Start(i, "AppendTo", b.revision) /\ appendPrepared(i, b)
    BY DEF CallAppendTo
  <1>2. b.revision \in 0..MaxRevision
    BY <1>0, SnapshotRevision
  <1>3. /\ CallVars(i) /\ kind'[i] = "AppendTo" /\ since'[i] = b.revision
        /\ pc[i] = "unused" /\ UNCHANGED storeVars
    BY <1>0, <1>1, <1>2, StartCallVars
  <1> QED BY <1>1, <1>3, AppendPreparedStep

\* Reject preserves the invariant.
LEMMA RejectStep ==
  ASSUME IInv, NEW i \in IDs, Reject(i)
  PROVE  IInv'
  <1>0. HeadRevision \in 0..MaxRevision /\ LocalsOK
    BY HeadOfContiguous, StoreInvOfIInv DEF IInv
  <1>1. PICK k \in {"Append", "AppendTo"} :
           Start(i, k, HeadRevision) /\ Return(i, "rejected", 0)
    BY DEF Reject
  <1>2. CallVars(i) /\ pc[i] = "unused" /\ UNCHANGED storeVars
    BY <1>0, <1>1, StartCallVars
  <1>3. LocalsOK' /\ Others(i) /\ Returns(i, "rejected", 0)
    BY <1>0, <1>1, <1>2, ReturnEffect, MaxRevisionAssumption DEF Results
  <1>4. StageInv(i)'
    BY <1>3, StageOfReturned
  <1> QED BY <1>2, <1>3, <1>4, EarlyStep

\* The nil snapshot is a base that AppendTo accepts.
LEMMA NilIsSnapshot == Nil \in Snapshots
  BY DEF Snapshots

\* List preserves the invariant.
LEMMA ListStep ==
  ASSUME IInv, NEW i \in IDs, List(i)
  PROVE  IInv'
  <1>0. /\ LocalsOK /\ StageInv(i) /\ pc[i] = "list" /\ kind[i] = "Append"
        /\ since[i] + attempt[i] \in {0} \cup Committed
        /\ UNCHANGED storeVars /\ kind' = kind /\ since' = since
        /\ CallVars(i)
    BY StoreInvOfIInv, KeepCallVars DEF List, StageInv
  <1>1. CASE Committed = {} /\ appendPrepared(i, Nil)
    <2>1. Nil.revision >= since'[i] + attempt[i]
      BY <1>0, <1>1, NilIsNoCommit
    <2> QED BY <1>0, <1>1, <2>1, NilIsSnapshot, AppendPreparedStep
  <1>2. ASSUME NEW r \in Committed,
               \A q \in Committed : logKey(r)[2] <= logKey(q)[2],
               pc' = [pc EXCEPT ![i] = "get"],
               key' = [key EXCEPT ![i] = logKey(r)],
               UNCHANGED <<attempt, base, levels, level, object, createErr, out>>
        PROVE  IInv'
    <2>1. Others(i)
      BY <1>0, <1>2 DEF LocalsOK, Others
    <2>2. LocalsOK'
      <3>1. pc' \in [IDs -> Stages] /\ DOMAIN key' = IDs
        BY <1>0, <1>2 DEF LocalsOK, Stages
      <3>2. \A j \in IDs : pc'[j] \in {"create", "lookup"} => IsCommit(object'[j])
        BY <1>0, <1>2 DEF LocalsOK
      <3> QED BY <1>0, <1>2, <3>1, <3>2 DEF LocalsOK
    <2>3. StageInv(i)'
      <3>1. pc'[i] = "get" /\ key'[i] = logKey(r) /\ out'[i].result = "none"
        BY <1>0, <1>2, NotReturnedYet DEF LocalsOK
      <3>2. Committed' = Committed /\ Snapshots' = Snapshots
        BY <1>0 DEF storeVars, Committed, Snapshots, Present, logKey
      <3>3. (base[i] = Nil \/ base[i] \in Snapshots)'
        BY <1>0, <1>2, <3>2 DEF StageInv
      <3>4. Resolved(levels[i])'
        BY <1>0, <1>2 DEF StageInv, storeVars, Resolved, Resolves, Present
      <3>5. r >= since[i] + attempt[i]
        <4>1. r \in Nat /\ \A q \in Committed : q \in Nat
          BY DEF Committed, Revisions
        <4>2. \A q \in Committed : r >= q
          BY <1>2, <4>1, MaxInt64Assumption DEF logKey
        <4>3. r >= 0 /\ since[i] + attempt[i] \in {0} \cup Committed
          BY <1>0, <4>1 DEF StageInv
        <4> QED BY <4>2, <4>3
      <3>6. Progress(i, r)'
        BY <1>0, <1>2, <3>5 DEF Progress
      <3> QED BY <1>0, <3>1, <3>2, <3>3, <3>4, <3>6 DEF StageInv
    <2> QED BY <1>0, <2>1, <2>2, <2>3, EarlyStep
  <1> QED BY <1>1, <1>2 DEF List

\* A step after which invocation i has returned with an error that leaves the
\* outcome open, or before it had tried to commit.
LEMMA ReturnStep ==
  ASSUME IInv, NEW i \in IDs, UNCHANGED storeVars, kind' = kind, since' = since,
         NEW result \in {"failed", "corrupt", "rejected"}, NEW r \in 0..MaxRevision,
         Return(i, result, r), pc[i] # "returned",
         result = "rejected" => pc[i] # "lookup"
  PROVE  IInv'
  <1>0. LocalsOK /\ StoreInv /\ CallVars(i)
    BY StoreInvOfIInv, KeepCallVars
  <1>1. LocalsOK' /\ Others(i) /\ Returns(i, result, r)
    BY <1>0, ReturnEffect DEF Results
  <1>2. StageInv(i)'
    BY <1>1, StageOfReturned
  <1>3. CASE pc[i] # "lookup"
    BY <1>1, <1>2, <1>3, EarlyStep
  <1>4. CASE pc[i] = "lookup"
    <2>1. \A q : Pending(i, q)'
      BY <1>1, <1>4, StoreInvOfIInv DEF Pending, Returns, StageInv
    <2>2. Keeps(i)
      BY <1>0, <2>1 DEF Keeps, StoreInv, RecordInv, LateInv, MayLand, InOrder
    <2>3. Grows /\ Committed' = Committed /\ late' = late
      BY UnchangedGrows DEF storeVars, Committed, Present, logKey
    <2>4. StoreInv'
      BY <1>0, <1>1, <2>2, <2>3, SameLog
    <2> QED BY <1>1, <1>2, <2>3, <2>4, Combine
  <1> QED BY <1>3, <1>4

\* Get preserves the invariant.
LEMMA GetStep ==
  ASSUME IInv, NEW i \in IDs, Get(i)
  PROVE  IInv'
  <1>0. /\ LocalsOK /\ ObjectsOK /\ StageInv(i) /\ pc[i] = "get" /\ kind[i] = "Append"
        /\ UNCHANGED storeVars /\ kind' = kind /\ since' = since
        /\ CallVars(i)
    BY StoreInvOfIInv, KeepCallVars DEF Get, StageInv, TypeOK
  <1>1. PICK r \in Committed : key[i] = logKey(r) /\ Progress(i, r)
    BY <1>0 DEF StageInv
  <1>2. MaxInt64 - key[i][2] = r /\ r \in 0..MaxRevision
    BY <1>1, MaxInt64Assumption DEF logKey, Committed, Revisions
  <1>3. \/ appendPrepared(i, objects[key[i]])
        \/ Return(i, "corrupt", r)
    BY <1>2 DEF Get
  <1>4. CASE appendPrepared(i, objects[key[i]])
    <2>1. objects[key[i]] \in Snapshots /\ objects[key[i]].revision = r
      BY <1>0, <1>1 DEF Snapshots, ObjectsOK, Logged
    <2>2. r >= since'[i] + attempt[i]
      BY <1>0, <1>1 DEF Progress
    <2> QED BY <1>0, <1>4, <2>1, <2>2, AppendPreparedStep
  <1>5. CASE Return(i, "corrupt", r)
    BY <1>0, <1>2, <1>5, ReturnStep
  <1> QED BY <1>3, <1>4, <1>5

\* The reference to a packed level is well-formed.
LEMMA PackedIsRef ==
  ASSUME NEW refs, IsSeq(refs), Len(refs) = Radix,
         \A k \in DOMAIN refs : IsRef(refs[k]),
         NEW l, NEW sha, validateRef(aggregateRef(l, refs, sha))
  PROVE  IsRef(aggregateRef(l, refs, sha))
  <1>1. Head(refs) = refs[1] /\ Last(refs) = refs[Len(refs)] /\ 1 \in DOMAIN refs /\ Len(refs) \in DOMAIN refs
    BY EndsOfSeq, RadixAssumption
  <1>2. Head(refs).firstPrev \in Hashes /\ Last(refs).last \in Hashes
    BY <1>1 DEF IsRef
  <1> QED BY <1>2 DEF IsRef, validateRef, aggregateRef

\* What the invariant says of the base of an invocation at work.
LEMMA BaseFacts ==
  ASSUME IInv, NEW i \in IDs,
         pc[i] \in {"pack", "aggregate", "readback", "create", "lookup"}
  PROVE  /\ IsBase(base[i]) /\ base[i] \in Snapshots
         /\ base[i].revision + 1 \in 0..MaxRevision
         /\ Progress(i, base[i].revision)
  <1>1. base[i] \in Snapshots /\ base[i].revision < MaxRevision /\ Progress(i, base[i].revision)
    BY NilIsSnapshot DEF IInv, StageInv
  <1>2. base[i].revision \in 0..MaxRevision
    BY <1>1, SnapshotRevision DEF IInv, TypeOK
  <1>3. base[i] = Nil \/ IsCommit(base[i])
    BY DEF IInv, TypeOK, LocalsOK
  <1> QED BY <1>1, <1>2, <1>3, MaxRevisionAssumption DEF IsBase

\* createSegment preserves the invariant.
LEMMA CreateSegmentStep ==
  ASSUME IInv, NEW i \in IDs, createSegment(i)
  PROVE  IInv'
  <1> DEFINE refs == levels[i][level[i]]
             records == Children(base[i], refs)
             segment == Segment(level[i] + 1, Head(refs).start, Last(refs).end, records)
             ref == aggregateRef(level[i] + 1, refs, digest(segment))
  <1>0. /\ LocalsOK /\ StageInv(i) /\ pc[i] = "pack"
        /\ UNCHANGED storeVars /\ kind' = kind /\ since' = since
        /\ level[i] \in Levels
    BY StoreInvOfIInv DEF createSegment, LocalsOK
  <1>1. CASE Return(i, "corrupt", base[i].revision + 1)
    BY <1>0, <1>1, BaseFacts, ReturnStep
  <1>2. CASE /\ Len(refs) = Radix
             /\ validateRef(ref)
             /\ pc' = [pc EXCEPT ![i] = "aggregate"]
             /\ key' = [key EXCEPT ![i] = treeKey(ref)]
             /\ object' = [object EXCEPT ![i] = segment]
             /\ UNCHANGED <<attempt, base, levels, level, createErr, out>>
    <2> HIDE DEF segment
    <2>1. Others(i)
      BY <1>0, <1>2 DEF LocalsOK, Others
    <2>2. LocalsOK'
      <3>1. pc' \in [IDs -> Stages] /\ DOMAIN key' = IDs /\ DOMAIN object' = IDs
        BY <1>0, <1>2 DEF LocalsOK, Stages
      <3>2. \A j \in IDs : pc'[j] \in {"create", "lookup"} => IsCommit(object'[j])
        BY <1>0, <1>2 DEF LocalsOK
      <3> QED BY <1>0, <1>2, <3>1, <3>2 DEF LocalsOK
    <2>3. IsRef(ref) /\ level[i] + 1 \in Levels
      <3>1. IsSeq(refs) /\ \A k \in DOMAIN refs : IsRef(refs[k])
        BY <1>0 DEF LocalsOK, IsFrontier
      <3>2. level[i] + 1 \in Levels
        BY <1>2 DEF validateRef, aggregateRef
      <3> QED BY <1>2, <3>1, <3>2, PackedIsRef
    <2>4. StageInv(i)'
      <3>1. /\ pc'[i] = "aggregate" /\ key'[i] = treeKey(ref) /\ object'[i] = segment
            /\ out'[i].result = "none"
        BY <1>0, <1>2, NotReturnedYet DEF LocalsOK
      <3>2. Snapshots' = Snapshots
        BY <1>0 DEF storeVars, Committed, Snapshots, Present, logKey
      <3>3. (base[i] = Nil \/ base[i] \in Snapshots)'
        BY <1>0, <1>2, <3>2 DEF StageInv
      <3>4. Resolved(levels[i])'
        BY <1>0, <1>2 DEF StageInv, storeVars, Resolved, Resolves, Present
      <3>5. base'[i].revision < MaxRevision /\ Progress(i, base[i].revision)'
        BY <1>0, <1>2 DEF StageInv, Progress
      <3>6. Packed(i)' = ref
        BY <1>2, <3>1 DEF Packed
      <3>7. IsRef(Packed(i)') /\ level'[i] + 1 \in Levels /\ key'[i] = treeKey(Packed(i)')
        BY <1>2, <2>3, <3>1, <3>6
      <3> QED BY <3>1, <3>3, <3>4, <3>5, <3>7 DEF StageInv
    <2> QED BY <1>0, <2>1, <2>2, <2>4, EarlyStep
  <1> QED BY <1>1, <1>2 DEF createSegment

\* The segment is in the store, and its reference moves one level up.
LEMMA NextLevelEffect ==
  ASSUME IInv, NEW i \in IDs, pc[i] \in {"aggregate", "readback"},
         kind' = kind, since' = since, Grows,
         ResolvesAfter(Packed(i)), NextLevel(i)
  PROVE  LocalsOK' /\ Others(i) /\ StageInv(i)'
  <1> DEFINE f == Clear(levels[i], level[i])
             b == base[i]
             added == AddRef(f, level[i] + 1, Packed(i))
  <1>0. /\ LocalsOK /\ StageInv(i) /\ CallVars(i) /\ IsFrontier(levels[i]) /\ level[i] \in Levels
        /\ Resolved(levels[i]) /\ out[i].result = "none"
    BY StoreInvOfIInv, KeepCallVars, NotReturnedYet DEF LocalsOK, StageInv
  <1>1. /\ IsBase(b) /\ b \in Snapshots /\ b.revision + 1 \in 0..MaxRevision
        /\ b.revision < MaxRevision /\ Progress(i, b.revision)
    BY <1>0, BaseFacts DEF StageInv
  <1>2. IsRef(Packed(i)) /\ level[i] + 1 \in Levels /\ IsFrontier(f)
    BY <1>0, ClearIsFrontier DEF StageInv
  <1>3. ResolvedAfter(added)
    BY <1>0, <1>2, ResolvedGrows, ClearResolved, AddRefResolved
  <1> HIDE DEF f, b
  <1>4. /\ LocalsOK' /\ Others(i)
        /\ Packing(i, b, added) \/ Sealed(i, b, added) \/ Returns(i, "corrupt", b.revision + 1)
    BY <1>0, <1>1, <1>2, CarryEffect DEF NextLevel, f, b
  <1>5. StageInv(i)'
    <2>1. CASE Returns(i, "corrupt", b.revision + 1)
      BY <2>1, StageOfReturned
    <2>2. CASE Packing(i, b, added) \/ Sealed(i, b, added)
      <3>1. b \in Snapshots'
        BY <1>1, CommittedGrows
      <3>2. /\ kind'[i] = kind[i] /\ since'[i] = since[i] /\ attempt'[i] = attempt[i]
            /\ base'[i] = b
        BY <2>2 DEF Packing, Sealed
      <3>3. ASSUME NEW c, c = b PROVE Progress(i, c.revision)'
        BY <1>1, <3>2, <3>3 DEF Progress
      <3>4. ASSUME NEW c, c = b PROVE StageInv(i)'
        <4>1. c \in Snapshots' /\ c.revision < MaxRevision /\ Progress(i, c.revision)'
          BY <1>1, <3>1, <3>3, <3>4
        <4>2. Packing(i, c, added) \/ Sealed(i, c, added)
          BY <2>2, <3>4
        <4> QED BY <1>0, <1>3, <4>1, <4>2, StageOfWorking
      <3> QED BY <3>4
    <2> QED BY <1>4, <2>1, <2>2
  <1> QED BY <1>4, <1>5

\* What a Create may have done to the store.
LEMMA CreateCases ==
  ASSUME NEW k, NEW v, NEW err \in {"ok", "exists", "error"}, Create(k, v, err)
  PROVE  \/ Put(k, v) /\ late' = late /\ (err = "ok" => ~Present(k))
         \/ /\ err # "ok" /\ objects' = objects
            /\ late' = late \/ (late' = late \cup {<<k, v>>} /\ ~Present(k))
  BY DEF Create

\* Create of a segment commits nothing, whatever it reports.
LEMMA TreeCreate ==
  ASSUME NEW k, NEW v, NEW err \in {"ok", "exists", "error"}, Create(k, v, err),
         k[1] = "tree"
  PROVE  /\ Grows /\ Committed' = Committed
         /\ \A put \in late' : put \in late \/ put[1][1] = "tree"
         /\ err = "ok" => k \in DOMAIN objects' /\ objects'[k] = v
  <1>1. CASE Put(k, v) /\ late' = late /\ (err = "ok" => ~Present(k))
    BY <1>1, TreePut, PutGrows
  <1>2. CASE /\ err # "ok" /\ objects' = objects
             /\ late' = late \/ (late' = late \cup {<<k, v>>} /\ ~Present(k))
    <2>1. Grows /\ Committed' = Committed
      BY <1>2, UnchangedGrows DEF Committed, Present, logKey
    <2>2. <<k, v>>[1][1] = "tree"
      OBVIOUS
    <2> QED BY <1>2, <2>1, <2>2
  <1> QED BY <1>1, <1>2, CreateCases

\* A step that only notes the error of a Create and the stage that reacts to it.
NotesError(i, stage, err) ==
  /\ pc' = [pc EXCEPT ![i] = stage]
  /\ createErr' = [createErr EXCEPT ![i] = err]
  /\ UNCHANGED <<attempt, base, levels, level, key, object, out>>

\* What an invocation remembers of a failed Create.
LEMMA NotesErrorEffect ==
  ASSUME IInv, NEW i \in IDs, kind' = kind, since' = since, Grows,
         NEW err \in CreateErrors,
         \/ pc[i] = "aggregate" /\ NotesError(i, "readback", err)
         \/ pc[i] = "create" /\ NotesError(i, "lookup", err)
  PROVE  LocalsOK' /\ Others(i) /\ StageInv(i)'
  <1>0. LocalsOK /\ StageInv(i) /\ out[i].result = "none"
    BY StoreInvOfIInv, NotReturnedYet
  <1>1. /\ UNCHANGED <<attempt, base, levels, level, key, object, out>>
        /\ \/ pc[i] = "aggregate" /\ pc' = [pc EXCEPT ![i] = "readback"]
           \/ pc[i] = "create" /\ pc' = [pc EXCEPT ![i] = "lookup"]
        /\ createErr' = [createErr EXCEPT ![i] = err]
    BY DEF NotesError
  <1>2. Others(i)
    BY <1>0, <1>1 DEF LocalsOK, Others
  <1>3. LocalsOK'
    <2>1. pc' \in [IDs -> Stages] /\ createErr' \in [IDs -> CreateErrors \cup {"ok"}]
      BY <1>0, <1>1 DEF LocalsOK, Stages
    <2>2. \A j \in IDs : pc'[j] \in {"create", "lookup"} => IsCommit(object'[j])
      BY <1>0, <1>1 DEF LocalsOK
    <2> QED BY <1>0, <1>1, <2>1, <2>2 DEF LocalsOK
  <1>4. StageInv(i)'
    <2>1. (base[i] = Nil \/ base[i] \in Snapshots)'
      BY <1>0, <1>1, CommittedGrows DEF StageInv
    <2>2. Resolved(levels[i])'
      BY <1>0, <1>1, ResolvedGrows DEF StageInv, ResolvedAfter, Resolved, Resolves, Present
    <2>3. base'[i].revision < MaxRevision /\ Progress(i, base[i].revision)'
      BY <1>0, <1>1 DEF StageInv, Progress
    <2>4. out'[i].result = "none"
      BY <1>0, <1>1
    <2>5. CASE pc[i] = "aggregate"
      <3>1. pc'[i] = "readback"
        BY <1>0, <1>1, <2>5 DEF LocalsOK
      <3>2. Packed(i)' = Packed(i)
        BY <1>1 DEF Packed
      <3>3. IsRef(Packed(i)') /\ level'[i] + 1 \in Levels /\ key'[i] = treeKey(Packed(i)')
        BY <1>0, <1>1, <2>5, <3>2 DEF StageInv
      <3> QED BY <2>1, <2>2, <2>3, <2>4, <3>1, <3>3 DEF StageInv
    <2>6. CASE pc[i] = "create"
      <3>1. pc'[i] = "lookup"
        BY <1>0, <1>1, <2>6 DEF LocalsOK
      <3>2. ResolvedAfter(object[i].frontier)
        BY <1>0, <2>6, ResolvedGrows DEF StageInv
      <3>3. Resolved(object[i].frontier)'
        BY <1>1, <3>2 DEF ResolvedAfter, Resolved, Resolves, Present
      <3>4. /\ key'[i] = logKey(object'[i].revision)
            /\ object'[i].id = i
            /\ Publishable(i)
            /\ object'[i].revision = base'[i].revision + 1
        BY <1>0, <1>1, <2>6 DEF StageInv
      <3> QED BY <2>1, <2>2, <2>3, <2>4, <3>1, <3>3, <3>4 DEF StageInv
    <2> QED BY <1>1, <2>5, <2>6
  <1> QED BY <1>2, <1>3, <1>4

\* createAggregate preserves the invariant.
LEMMA CreateAggregateStep ==
  ASSUME IInv, NEW i \in IDs, createAggregate(i)
  PROVE  IInv'
  <1>0. /\ StageInv(i) /\ StoreInv /\ pc[i] = "aggregate" /\ kind' = kind /\ since' = since
        /\ OwnsNothing(i)
    BY StoreInvOfIInv, NothingYet DEF createAggregate, StoreInv
  <1>1. Keeps(i)
    BY <1>0, NothingIsKept
  <1>2. key[i] = treeKey(Packed(i)) /\ key[i][1] = "tree" /\ RefKey(Packed(i)) = key[i]
    <2>1. key[i] = treeKey(Packed(i)) /\ level[i] + 1 \in Levels /\ level[i] \in Levels
      BY <1>0, StoreInvOfIInv DEF StageInv, LocalsOK
    <2>2. Packed(i).level # 0
      BY <2>1, TopLevelAssumption DEF Packed, aggregateRef, Levels
    <2> QED BY <2>1, <2>2 DEF treeKey, RefKey
  <1>3. CASE Create(key[i], object[i], "ok") /\ NextLevel(i)
    <2>1. /\ Grows /\ Committed' = Committed
          /\ \A put \in late' : put \in late \/ put[1][1] = "tree"
          /\ key[i] \in DOMAIN objects' /\ objects'[key[i]] = object[i]
      BY <1>2, <1>3, TreeCreate
    <2>2. ResolvesAfter(Packed(i))
      BY <1>2, <2>1 DEF ResolvesAfter, Packed, aggregateRef
    <2>3. LocalsOK' /\ Others(i) /\ StageInv(i)'
      BY <1>0, <1>3, <2>1, <2>2, NextLevelEffect
    <2>4. StoreInv'
      BY <1>0, <1>1, <2>1, <2>3, SameLog
    <2> QED BY <2>1, <2>3, <2>4, Combine
  <1>4. ASSUME NEW err \in CreateErrors, Create(key[i], object[i], err),
               NotesError(i, "readback", err)
        PROVE  IInv'
    <2>1. /\ Grows /\ Committed' = Committed
          /\ \A put \in late' : put \in late \/ put[1][1] = "tree"
      BY <1>2, <1>4, TreeCreate DEF CreateErrors
    <2>2. LocalsOK' /\ Others(i) /\ StageInv(i)'
      BY <1>0, <1>4, <2>1, NotesErrorEffect
    <2>3. StoreInv'
      BY <1>0, <1>1, <2>1, <2>2, SameLog
    <2> QED BY <2>1, <2>2, <2>3, Combine
  <1> QED BY <1>3, <1>4 DEF createAggregate, NotesError

\* readback preserves the invariant.
LEMMA ReadbackStep ==
  ASSUME IInv, NEW i \in IDs, readback(i)
  PROVE  IInv'
  <1>0. /\ StageInv(i) /\ pc[i] = "readback" /\ kind' = kind /\ since' = since
        /\ UNCHANGED storeVars /\ base[i].revision + 1 \in 0..MaxRevision
    BY StoreInvOfIInv, BaseFacts DEF readback
  <1>1. CASE \E result \in {"corrupt", "failed"} : Return(i, result, base[i].revision + 1)
    BY <1>0, <1>1, ReturnStep
  <1>2. CASE /\ Present(key[i])
             /\ decodeSegment(Packed(i), objects[key[i]])
             /\ NextLevel(i)
    <2>1. RefKey(Packed(i)) = key[i]
      <3>1. key[i] = treeKey(Packed(i)) /\ level[i] + 1 \in Levels /\ level[i] \in Levels
        BY <1>0, StoreInvOfIInv DEF StageInv, LocalsOK
      <3>2. Packed(i).level # 0
        BY <3>1, TopLevelAssumption DEF Packed, aggregateRef, Levels
      <3> QED BY <3>1, <3>2 DEF RefKey
    <2>2. Grows /\ ResolvesAfter(Packed(i))
      BY <1>0, <1>2, <2>1, UnchangedGrows DEF storeVars, ResolvesAfter, decodeSegment, Present
    <2>3. LocalsOK' /\ Others(i) /\ StageInv(i)'
      BY <1>0, <1>2, <2>2, NextLevelEffect
    <2> QED BY <1>0, <2>3, EarlyStep
  <1> QED BY <1>1, <1>2 DEF readback

\* What an invocation is about to create extends the log.
LEMMA ObjectIsCandidate ==
  ASSUME IInv, NEW i \in IDs, pc[i] \in {"create", "lookup"}
  PROVE  /\ Candidate(i, object[i].revision, object[i])
         /\ key[i] = logKey(object[i].revision)
         /\ InOrder(i, object[i].revision)
  <1>0. LocalsOK /\ StageInv(i) /\ ObjectsOK /\ IsCommit(object[i])
    BY StoreInvOfIInv DEF LocalsOK, TypeOK
  <1>1. /\ object[i].id = i /\ object[i].revision = base[i].revision + 1
        /\ Resolved(object[i].frontier) /\ key[i] = logKey(object[i].revision)
        /\ Publishable(i)
    BY <1>0 DEF StageInv
  <1>2. base[i] \in Snapshots /\ Progress(i, base[i].revision)
    BY BaseFacts
  <1>3. HasPredecessor(object[i].revision)
    <2>1. CASE base[i] = Nil
      BY <1>1, <2>1, NilIsNoCommit DEF HasPredecessor
    <2>2. CASE base[i] # Nil
      <3>1. base[i].revision \in Committed
        BY <1>0, <1>2, <2>2, SnapshotIsCommit
      <3>2. base[i].revision \in Nat
        BY <3>1 DEF Committed, Revisions
      <3> QED BY <1>1, <3>1, <3>2 DEF HasPredecessor
    <2> QED BY <2>1, <2>2
  <1>4. InOrder(i, object[i].revision)
    <2>1. base[i].revision \in Nat /\ since[i] \in Nat /\ attempt[i] \in Nat
      BY <1>0, <1>2, SnapshotRevision, MaxRetriesAssumption DEF LocalsOK
    <2> QED BY <1>1, <1>2, <2>1 DEF InOrder, Progress
  <1> QED BY <1>0, <1>1, <1>3, <1>4 DEF Candidate, IsCommit

\* createCommit preserves the invariant.
LEMMA CreateCommitStep ==
  ASSUME IInv, NEW i \in IDs, createCommit(i)
  PROVE  IInv'
  <1> PICK c, q : c = object[i] /\ q = object[i].revision
    OBVIOUS
  <1>0. /\ StageInv(i) /\ StoreInv /\ LocalsOK /\ pc[i] = "create"
        /\ kind' = kind /\ since' = since /\ CallVars(i) /\ OwnsNothing(i)
    BY StoreInvOfIInv, NothingYet, KeepCallVars DEF createCommit, StoreInv
  <1>1. Candidate(i, q, c) /\ key[i] = logKey(q) /\ InOrder(i, q)
    BY <1>0, ObjectIsCandidate
  <1>2. q \in Revisions /\ q \in 0..MaxRevision /\ (Present(key[i]) <=> q \in Committed)
    BY <1>1 DEF Candidate, Revisions, Committed
  <1>3. Keeps(i) /\ Uncommitted(i) /\ \A put \in late : MayLand(put, i) => put[1] = logKey(q)
    BY <1>0, NothingIsKept DEF OwnsNothing
  <1>4. CASE Create(key[i], object[i], "ok") /\ Return(i, "ok", object[i].revision)
    <2>1. Put(logKey(q), c) /\ late' = late /\ q \notin Committed
      BY <1>1, <1>2, <1>4, CreateCases
    <2>2. LocalsOK' /\ Others(i) /\ Returns(i, "ok", q)
      BY <1>0, <1>2, <1>4, ReturnEffect DEF Results
    <2>3. Grows /\ Committed' = Committed \cup {q} /\ Logged(q)' = c
      BY <1>2, <2>1, LogPut
    <2>4. q \in Committed' /\ Logged(q)'.id = i
      BY <1>1, <2>3 DEF Candidate
    <2>5. StageInv(i)'
      BY <2>2, <2>4, StageOfReturned
    <2>6. Acknowledged(i, q)' /\ InOrder(i, q)'
      BY <1>0, <1>1, <2>2 DEF Acknowledged, Returns, InOrder, Candidate
    <2>7. StoreInv'
      BY <1>0, <1>1, <1>3, <2>1, <2>2, <2>6, CommitPut
    <2> QED BY <2>2, <2>3, <2>5, <2>7, Combine
  <1>5. ASSUME NEW err \in CreateErrors, Create(key[i], object[i], err),
               NotesError(i, "lookup", err)
        PROVE  IInv'
    <2>1. pc'[i] = "lookup" /\ object'[i] = c
      BY <1>0, <1>5 DEF NotesError, LocalsOK
    <2>2. Pending(i, q)' /\ InOrder(i, q)'
      BY <1>0, <1>1, <2>1 DEF Pending, InOrder, Candidate
    <2>3. \/ Put(logKey(q), c) /\ late' = late
          \/ objects' = objects /\ late' = late
          \/ objects' = objects /\ late' = late \cup {<<logKey(q), c>>}
      BY <1>1, <1>5, CreateCases DEF CreateErrors
    <2>4. Grows
      BY <2>3, PutGrows, UnchangedGrows
    <2>5. LocalsOK' /\ Others(i) /\ StageInv(i)'
      BY <1>0, <1>5, <2>4, NotesErrorEffect
    <2>6. StoreInv'
      <3>1. CASE objects' = objects /\ late' = late
        <4>1. Committed' = Committed
          BY <3>1 DEF Committed, Present, logKey
        <4> QED BY <1>0, <1>3, <2>4, <2>5, <3>1, <4>1, SameLog
      <3>2. CASE objects' = objects /\ late' = late \cup {<<logKey(q), c>>}
        BY <1>0, <1>1, <2>2, <2>5, <3>2, CommitLate
      <3>3. CASE Put(logKey(q), c) /\ late' = late
        <4>1. CASE q \in Committed
          <5>1. objects' = objects
            BY <1>1, <1>2, <3>3, <4>1 DEF Put
          <5> QED BY <3>1, <3>3, <5>1
        <4>2. CASE q \notin Committed
          BY <1>0, <1>1, <1>3, <2>2, <2>5, <3>3, <4>2, CommitPut
        <4> QED BY <4>1, <4>2
      <3> QED BY <2>3, <3>1, <3>2, <3>3
    <2> QED BY <2>4, <2>5, <2>6, Combine
  <1> QED BY <1>4, <1>5 DEF createCommit, NotesError


\* The winner lookup finds the invocation's own record.
LEMMA OwnWinnerStep ==
  ASSUME IInv, NEW i \in IDs, pc[i] = "lookup", UNCHANGED storeVars,
         kind' = kind, since' = since, NEW q, q = object[i].revision,
         Present(key[i]), objects[key[i]].id = i, Return(i, "ok", q)
  PROVE  IInv'
  <1>0. /\ StageInv(i) /\ StoreInv /\ LocalsOK /\ CallVars(i)
        /\ Candidate(i, q, object[i]) /\ key[i] = logKey(q) /\ InOrder(i, q)
    BY StoreInvOfIInv, KeepCallVars, ObjectIsCandidate
  <1>1. q \in Committed /\ Logged(q).id = i /\ q \in 0..MaxRevision
    BY <1>0 DEF Candidate, Committed, Logged, Revisions
  <1>2. LocalsOK' /\ Others(i) /\ Returns(i, "ok", q)
    BY <1>0, <1>1, ReturnEffect DEF Results
  <1>3. /\ Grows /\ Committed' = Committed /\ late' = late
        /\ \A r \in Committed : Logged(r)' = Logged(r)
    BY UnchangedGrows, CommittedGrows DEF storeVars, Committed, Present, logKey
  <1>4. StageInv(i)'
    BY <1>1, <1>2, <1>3, StageOfReturned
  <1>5. Keeps(i)
    <2>1. \A r \in Committed : Logged(r).id = i => r = q
      BY <1>0, <1>1 DEF StoreInv, AtMostOnce
    <2>2. InOrder(i, q)' /\ Acknowledged(i, q)'
      BY <1>0, <1>2 DEF InOrder, Returns, Acknowledged, Candidate
    <2>3. \A put \in late : ~MayLand(put, i)
      BY <1>0, <1>1 DEF StoreInv, LateInv, MayLand, Uncommitted
    <2> QED BY <2>1, <2>2, <2>3 DEF Keeps
  <1>6. StoreInv'
    BY <1>0, <1>2, <1>3, <1>5, SameLog
  <1> QED BY <1>2, <1>3, <1>4, <1>6, Combine

\* The winner lookup finds another invocation's record.
LEMMA ConflictStep ==
  ASSUME IInv, NEW i \in IDs, pc[i] = "lookup", UNCHANGED storeVars,
         kind' = kind, since' = since,
         Present(key[i]), objects[key[i]].id # i, Conflict(i)
  PROVE  IInv'
  <1> PICK q : q = object[i].revision
    OBVIOUS
  <1>0. /\ StageInv(i) /\ StoreInv /\ LocalsOK /\ CallVars(i)
        /\ Candidate(i, q, object[i]) /\ key[i] = logKey(q)
    BY StoreInvOfIInv, KeepCallVars, ObjectIsCandidate
  <1>1. q \in Committed /\ q \in 0..MaxRevision
    BY <1>0 DEF Candidate, Committed, Revisions
  <1>2. Keeps(i)
    BY <1>0, NothingAfterLostRace, NothingIsKept DEF StoreInv
  <1>3. /\ Grows /\ Committed' = Committed /\ late' = late
        /\ Snapshots' = Snapshots
    BY UnchangedGrows DEF storeVars, Committed, Present, Snapshots, logKey
  <1>4. /\ since[i] \in Nat /\ attempt[i] \in 0..MaxRetries /\ MaxRetries \in Nat
        /\ kind[i] = "Append" => q >= since[i] + attempt[i] + 1
    <2>1. since[i] \in Nat /\ attempt[i] \in 0..MaxRetries /\ MaxRetries \in Nat
      BY <1>0, MaxRetriesAssumption DEF LocalsOK
    <2>2. /\ q = base[i].revision + 1 /\ base[i].revision \in Nat
          /\ Progress(i, base[i].revision)
      BY <1>0, BaseFacts DEF StageInv, IsBase
    <2> QED BY <2>1, <2>2 DEF Progress
  <1>5. LocalsOK' /\ Others(i) /\ StageInv(i)'
    <2>1. CASE kind[i] = "Append" /\ attempt[i] < MaxRetries
      <3>1. /\ pc' = [pc EXCEPT ![i] = "list"]
            /\ attempt' = [attempt EXCEPT ![i] = attempt[i] + 1]
            /\ base' = [base EXCEPT ![i] = Nil]
            /\ key' = [key EXCEPT ![i] = <<>>]
            /\ object' = [object EXCEPT ![i] = Nil]
            /\ createErr' = [createErr EXCEPT ![i] = "ok"]
            /\ UNCHANGED <<levels, level, out>>
        BY <2>1 DEF Conflict, Restart
      <3>2. Others(i)
        BY <1>0, <3>1 DEF LocalsOK, Others
      <3>3. /\ pc'[i] = "list" /\ attempt'[i] = attempt[i] + 1 /\ base'[i] = Nil
            /\ levels'[i] = levels[i] /\ out'[i].result = "none"
        BY <1>0, <3>1, NotReturnedYet DEF LocalsOK
      <3>4. LocalsOK'
        <4>1. /\ pc' \in [IDs -> Stages]
              /\ createErr' \in [IDs -> CreateErrors \cup {"ok"}]
              /\ DOMAIN base' = IDs /\ DOMAIN key' = IDs /\ DOMAIN object' = IDs
          BY <1>0, <3>1 DEF LocalsOK, Stages
        <4>2. attempt' \in [IDs -> 0..MaxRetries]
          BY <1>0, <1>4, <2>1, <3>1 DEF LocalsOK
        <4>3. \A j \in IDs : /\ base'[j] = Nil \/ IsCommit(base'[j])
                             /\ pc'[j] \in {"create", "lookup"} => IsCommit(object'[j])
          BY <1>0, <3>2, <3>3 DEF LocalsOK, Others
        <4> QED BY <1>0, <3>1, <4>1, <4>2, <4>3 DEF LocalsOK
      <3>5. since'[i] + attempt'[i] \in Committed'
        <4>1. PICK n \in 0..MaxRevision : Committed = 1..n
          BY <1>0 DEF StoreInv, Contiguous
        <4> QED BY <1>1, <1>3, <1>4, <2>1, <3>3, <4>1, MaxRevisionAssumption
      <3>6. Resolved(levels[i])'
        BY <1>0, <3>3 DEF StageInv, storeVars, Resolved, Resolves, Present
      <3>7. StageInv(i)'
        BY <2>1, <3>3, <3>5, <3>6 DEF StageInv
      <3> QED BY <3>2, <3>4, <3>7
    <2>2. CASE ~(kind[i] = "Append" /\ attempt[i] < MaxRetries)
      <3>1. LocalsOK' /\ Others(i) /\ Returns(i, "conflict", q)
        BY <1>0, <1>1, <2>2, ReturnEffect DEF Conflict, Results
      <3>2. kind'[i] = "Append" => q > since'[i] + MaxRetries
        BY <1>1, <1>4, <2>2
      <3> QED BY <1>1, <1>3, <3>1, <3>2, StageOfReturned
    <2> QED BY <2>1, <2>2
  <1>6. StoreInv'
    BY <1>0, <1>2, <1>3, <1>5, SameLog
  <1> QED BY <1>3, <1>5, <1>6, Combine

\* lookup preserves the invariant, whoever's record it finds.
LEMMA LookupStep ==
  ASSUME IInv, NEW i \in IDs, lookup(i)
  PROVE  IInv'
  <1>0. /\ pc[i] = "lookup" /\ UNCHANGED storeVars /\ kind' = kind /\ since' = since
        /\ object[i].revision \in 0..MaxRevision
    BY ObjectIsCandidate DEF lookup, Candidate, Revisions
  <1>1. CASE \E result \in {"corrupt", "failed"} : Return(i, result, object[i].revision)
    BY <1>0, <1>1, ReturnStep
  <1>2. CASE Present(key[i]) /\ objects[key[i]].id # i /\ Conflict(i)
    BY <1>0, <1>2, ConflictStep
  <1>3. CASE Present(key[i]) /\ objects[key[i]].id = i /\ Return(i, "ok", object[i].revision)
    BY <1>0, <1>3, OwnWinnerStep
  <1> QED BY <1>1, <1>2, <1>3 DEF lookup, Winner

\* Fail preserves the invariant: its result leaves the outcome open.
LEMMA FailStep ==
  ASSUME IInv, NEW i \in IDs, Fail(i)
  PROVE  IInv'
  BY ReturnStep, MaxRevisionAssumption DEF Fail, Active

\* A PUT that can no longer become a record reaches the backend: it carries a
\* segment, or its key is taken.
LEMMA IdleLanding ==
  ASSUME IInv, Grows, Committed' = Committed, late' \subseteq late,
         UNCHANGED <<pc, kind, locals, out, since>>
  PROVE  IInv'
  <1>0. StoreInv /\ LocalsOK /\ \A j \in IDs : StageInv(j)
    BY StoreInvOfIInv
  <1>1. \A i : Others(i)
    BY DEF Others, locals
  <1>2. Keeps(0)
    BY <1>0 DEF Keeps, StoreInv, RecordInv, LateInv, MayLand, InOrder, Pending,
                Acknowledged, locals
  <1>3. StoreInv'
    BY <1>0, <1>1, <1>2, SameLog
  <1>4. ASSUME NEW j \in IDs PROVE StageInv(j)'
    <2>1. PICK i \in {0, 1} : i # j
      OBVIOUS
    <2> QED BY <1>0, <1>1, <2>1, StageOfOthers
  <1>5. LocalsOK'
    BY <1>0 DEF LocalsOK, locals
  <1> QED BY <1>3, <1>4, <1>5 DEF IInv, StoreInv, TypeOK

\* Landing preserves the invariant: a PUT lands late.
LEMMA LandingStep ==
  ASSUME IInv, Landing
  PROVE  IInv'
  <1>0. StoreInv /\ LocalsOK /\ UNCHANGED <<pc, kind, locals, out, since>>
    BY StoreInvOfIInv DEF Landing
  <1>1. PICK put \in late : Put(put[1], put[2]) /\ late' = late \ {put}
    BY DEF Landing, Land
  <1>2. CASE put[1][1] = "tree"
    BY <1>0, <1>1, <1>2, TreePut, IdleLanding
  <1>3. CASE Present(put[1])
    <2>1. objects' = objects
      BY <1>1, <1>3 DEF Put
    <2>2. Grows /\ Committed' = Committed
      BY <2>1, UnchangedGrows DEF Committed, Present, logKey
    <2> QED BY <1>0, <1>1, <2>2, IdleLanding
  <1>4. CASE put[1][1] # "tree" /\ ~Present(put[1])
    <2> PICK c, q, i : c = put[2] /\ q = put[2].revision /\ i = put[2].id
      OBVIOUS
    <2>1. /\ IsLogPut(put) /\ HasPredecessor(q) /\ Resolved(c.frontier)
          /\ Uncommitted(i) /\ InOrder(i, q) /\ Pending(i, q)
      BY <1>0, <1>1, <1>4 DEF StoreInv, LateInv
    <2>2. i \in IDs /\ Candidate(i, q, c) /\ put[1] = logKey(q)
      BY <2>1 DEF IsLogPut, IsCommit, Candidate, Pending
    <2>3. q \notin Committed
      BY <1>4, <2>2 DEF Committed
    <2>4. \A p \in late : MayLand(p, i) => p[1] = logKey(q)
      BY <1>0, <1>1, <1>4, <2>2 DEF StoreInv, LateOnce, MayLand
    <2>5. Others(i) /\ InOrder(i, q)' /\ Pending(i, q)'
      BY <1>0, <2>1 DEF Others, InOrder, Pending, locals
    <2>6. StoreInv'
      BY <1>0, <1>1, <2>1, <2>2, <2>3, <2>4, <2>5, CommitPut
    <2>7. Grows
      BY <1>1, PutGrows
    <2>8. ASSUME NEW j \in IDs PROVE StageInv(j)'
      <3>1. PICK k \in {0, 1} : k # j
        OBVIOUS
      <3>2. Others(k)
        BY <1>0 DEF Others, locals
      <3> QED BY <2>7, <3>1, <3>2, StageOfOthers DEF IInv
    <2>9. LocalsOK'
      BY <1>0 DEF LocalsOK, locals
    <2> QED BY <2>6, <2>8, <2>9 DEF IInv, StoreInv, TypeOK
  <1> QED BY <1>2, <1>3, <1>4

\* A stuttering step preserves the invariant.
LEMMA StutteringStep ==
  ASSUME IInv, UNCHANGED vars
  PROVE  IInv'
  <1>1. /\ UNCHANGED <<pc, kind, locals, out, since>>
        /\ objects' = objects /\ late' = late
    BY DEF vars
  <1>2. Grows /\ Committed' = Committed
    BY <1>1, UnchangedGrows DEF Committed, Present, logKey
  <1> QED BY <1>1, <1>2, IdleLanding

\* The empty log satisfies the invariant.
LEMMA InitInv == Init => IInv
  <1> SUFFICES ASSUME Init PROVE IInv
    OBVIOUS
  <1>1. DOMAIN objects = {} /\ late = {}
    BY DEF Init, StoreInit
  <1>2. Committed = {}
    BY <1>1 DEF Committed, Present
  <1>3. ObjectsOK /\ AtMostOnce /\ RecordInv /\ LateInv /\ LateOnce
    BY <1>1, <1>2 DEF ObjectsOK, AtMostOnce, RecordInv, LateInv, LateOnce
  <1>4. Contiguous
    BY <1>2, MaxRevisionAssumption DEF Contiguous
  <1>5. LocalsOK
    <2>1. 0 \in Levels /\ 0 \in 0..MaxRevision /\ 0 \in 0..MaxRetries
      BY TopLevelAssumption, MaxRevisionAssumption, MaxRetriesAssumption DEF Levels
    <2> QED BY <2>1, EmptyFrontierIsFrontier DEF Init, LocalsOK, Stages, Results
  <1>6. ASSUME NEW i \in IDs PROVE StageInv(i)
    BY EmptyResolved DEF Init, StageInv
  <1> QED BY <1>3, <1>4, <1>5, <1>6 DEF IInv, TypeOK

-----------------------------------------------------------------------------
(* The theorems.                                                           *)

\* IInv is an invariant of every behaviour of the log: every action, a forgotten
\* PUT that lands included, preserves it.
THEOREM Invariance == Spec => []IInv
  <1>1. IInv /\ [Next]_vars => IInv'
    <2> SUFFICES ASSUME IInv, [Next]_vars PROVE IInv'
      OBVIOUS
    <2>1. ASSUME NEW i \in IDs, Call(i) PROVE IInv'
      BY <2>1, CallAppendStep, CallAppendToStep, RejectStep DEF Call
    <2>2. ASSUME NEW i \in IDs, Step(i) PROVE IInv'
      BY <2>2, ListStep, GetStep, CreateSegmentStep, CreateAggregateStep, ReadbackStep,
         CreateCommitStep, LookupStep DEF Step
    <2>3. ASSUME NEW i \in IDs, Fail(i) PROVE IInv'
      BY <2>3, FailStep
    <2>4. CASE Landing
      BY <2>4, LandingStep
    <2>5. CASE UNCHANGED vars
      BY <2>5, StutteringStep
    <2> QED BY <2>1, <2>2, <2>3, <2>4, <2>5 DEF Next
  <1> QED BY InitInv, <1>1, PTL DEF Spec

\* Every variable keeps its type, and log keys only ever name commits of their
\* own revision.
THEOREM TypeCorrect == Spec => []TypeOK
  <1>1. IInv => TypeOK
    BY DEF IInv
  <1> QED BY Invariance, <1>1, PTL

\* The log has no gap: the committed revisions are 1..HEAD at all times.
THEOREM NoGaps == Spec => []GapFree
  <1>1. IInv => GapFree
    BY HeadOfContiguous DEF IInv, GapFree
  <1> QED BY Invariance, <1>1, PTL

\* No invocation of Append or AppendTo ever commits its batch twice.
THEOREM CommitsAtMostOnce == Spec => []AtMostOnce
  <1>1. IInv => AtMostOnce
    BY DEF IInv
  <1> QED BY Invariance, <1>1, PTL

\* A refusal is final: after ErrConflict, ErrExhausted or an error of the batch
\* no PUT of that invocation becomes a record, and a batch that its own Log cannot
\* decode never becomes one.
THEOREM RefusalIsFinal == Spec => []RefusedIsFinal
  <1>1. IInv => RefusedIsFinal
    <2> SUFFICES ASSUME IInv, NEW r \in Committed
                 PROVE  /\ out[Logged(r).id].result \notin {"conflict", "exhausted", "rejected"}
                        /\ Publishable(Logged(r).id)
      BY DEF RefusedIsFinal, Publishable
    <2>1. Logged(r).id \in IDs
      BY CommitOwner DEF IInv, TypeOK
    <2>2. Pending(Logged(r).id, r) \/ Acknowledged(Logged(r).id, r)
      BY DEF IInv, RecordInv
    <2>3. CASE Pending(Logged(r).id, r)
      BY <2>1, <2>3, NotReturnedYet DEF Pending
    <2>4. CASE Acknowledged(Logged(r).id, r)
      BY <2>4 DEF Acknowledged
    <2> QED BY <2>2, <2>3, <2>4
  <1> QED BY Invariance, <1>1, PTL

\* An acknowledged batch is in the log at the revision that was returned.
THEOREM AcknowledgedCommits == Spec => []AcknowledgedIsCommitted
  <1>1. IInv => AcknowledgedIsCommitted
    BY DEF IInv, StageInv, AcknowledgedIsCommitted
  <1> QED BY Invariance, <1>1, PTL

\* AppendTo commits directly after its base, Append after all that preceded the
\* call.
THEOREM CommitsInOrder == Spec => []CommittedInOrder
  <1>1. IInv => CommittedInOrder
    BY DEF IInv, RecordInv, CommittedInOrder
  <1> QED BY Invariance, <1>1, PTL

\* Append reports ErrConflict only after MaxRetries + 1 lost races.
THEOREM RetriesAreSpent == Spec => []RetriesAreContended
  <1>1. IInv => RetriesAreContended
    <2> SUFFICES ASSUME IInv, NEW i \in IDs, kind[i] = "Append", out[i].result = "conflict"
                 PROVE  HeadRevision >= since[i] + MaxRetries + 1
      BY DEF RetriesAreContended
    <2>1. out[i].revision \in Committed /\ out[i].revision > since[i] + MaxRetries
      BY DEF IInv, StageInv
    <2>2. HeadRevision \in 0..MaxRevision /\ Committed = 1..HeadRevision
      BY HeadOfContiguous DEF IInv
    <2>3. since[i] \in 0..MaxRevision
      BY DEF IInv, TypeOK, LocalsOK
    <2> QED BY <2>1, <2>2, <2>3, MaxRetriesAssumption, MaxRevisionAssumption
  <1> QED BY Invariance, <1>1, PTL

\* A commit is never in front of the objects its frontier refers to.
THEOREM ReferencesAreResolved == Spec => []ReferencesResolve
  <1>1. IInv => ReferencesResolve
    BY DEF IInv, RecordInv, ReferencesResolve
  <1> QED BY Invariance, <1>1, PTL

-----------------------------------------------------------------------------
(* LokvLog implements EventLog: the log.                                   *)

\* A step that commits nothing leaves the batches alone.
LEMMA SameBatches ==
  ASSUME Contiguous, Grows, Committed' = Committed
  PROVE  Batches' = Batches
  <1>1. \A r \in Committed : Logged(r)' = Logged(r)
    BY CommittedGrows
  <1>2. HeadRevision' = HeadRevision
    BY DEF HeadRevision
  <1>3. Committed = 1..HeadRevision
    BY HeadOfContiguous
  <1> QED BY <1>1, <1>2, <1>3 DEF Batches

\* The batches are a sequence as long as the head's revision says.
LEMMA BatchesAre ==
  ASSUME Contiguous
  PROVE  /\ Len(Batches) = HeadRevision /\ HeadRevision \in 0..MaxRevision
         /\ DOMAIN Batches = Committed /\ Committed = 1..HeadRevision
         /\ \A r \in Committed : Batches[r] = Logged(r).id
  BY HeadOfContiguous, MaxRevisionAssumption DEF Batches

\* An invocation without a record has no batch in the log.
LEMMA AppendedIff ==
  ASSUME Contiguous, NEW i
  PROVE  Abstract!Appended(i) <=> ~Uncommitted(i)
  BY BatchesAre DEF Abstract!Appended, Uncommitted

\* A commit adds a batch at the end.
LEMMA OneMoreBatch ==
  ASSUME Contiguous, NEW i, NEW q, NEW c, Candidate(i, q, c), Put(logKey(q), c), q \notin Committed
  PROVE  Batches' = Append(Batches, i) /\ q = Len(Batches) + 1 /\ Len(Batches) < MaxRevision
  <1>1. PICK n \in 0..MaxRevision : n = HeadRevision /\ Committed = 1..n
    BY HeadOfContiguous
  <1>2. q \in Revisions /\ c.id = i /\ (q = 1 \/ q - 1 \in Committed)
    BY DEF Candidate, HasPredecessor
  <1>3. q = n + 1 /\ q \in 1..MaxRevision
    BY <1>1, <1>2, MaxRevisionAssumption DEF Revisions
  <1>4. /\ Committed' = Committed \cup {q} /\ Logged(q)' = c
        /\ \A r \in Committed : Logged(r)' = Logged(r)
    BY <1>2, LogPut
  <1>5. Committed' = 1..(n + 1)
    BY <1>1, <1>3, <1>4
  <1>7. HeadRevision' = n + 1
    <2>1. n + 1 \in Committed' /\ \A r \in Committed' : r \in Int /\ n + 1 >= r
      BY <1>1, <1>5
    <2>2. Max(Committed') \in Committed' /\ \A r \in Committed' : Max(Committed') >= r
      BY <2>1 DEF Max
    <2>3. Max(Committed') = n + 1
      BY <1>1, <2>1, <2>2
    <2> QED BY <2>1, <2>3 DEF HeadRevision
  <1>8. Batches' = [r \in 1..(n + 1) |-> Logged(r)'.id]
    BY <1>7 DEF Batches
  <1>9. Batches = [r \in 1..n |-> Logged(r).id]
    BY <1>1 DEF Batches
  <1>10. \A r \in 1..(n + 1) : Logged(r)'.id = IF r = n + 1 THEN i ELSE Logged(r).id
    BY <1>1, <1>2, <1>3, <1>4
  <1>11. Batches' = Append(Batches, i)
    <2>1. /\ DOMAIN Batches = 1..n /\ n \in Nat /\ Len(Batches) = n
          /\ Batches \in Seq({Logged(r).id : r \in 1..n})
      BY <1>1, <1>9
    <2>2. IsSeq(Batches)
      BY <2>1 DEF IsSeq
    <2>3. /\ DOMAIN Append(Batches, i) = 1..(n + 1) /\ IsSeq(Append(Batches, i))
          /\ \A r \in 1..(n + 1) : Append(Batches, i)[r] = IF r = n + 1 THEN i ELSE Batches[r]
      BY <2>1, <2>2, AppendIsSeq
    <2>4. PICK s : s = Append(Batches, i)
      OBVIOUS
    <2>5. PICK T : s \in Seq(T)
      BY <2>3, <2>4 DEF IsSeq
    <2>6. s = [r \in DOMAIN s |-> s[r]]
      BY <2>5
    <2>7. s = [r \in 1..(n + 1) |-> s[r]]
      BY <2>3, <2>4, <2>6
    <2>8. \A r \in 1..(n + 1) : s[r] = Batches'[r]
      BY <1>8, <1>9, <1>10, <2>1, <2>3, <2>4
    <2>9. Batches' = [r \in 1..(n + 1) |-> Batches'[r]]
      BY <1>8
    <2> QED BY <2>4, <2>7, <2>8, <2>9
  <1> QED BY <1>1, <1>3, <1>9, <1>11, MaxRevisionAssumption

-----------------------------------------------------------------------------
(* The calls.                                                              *)

\* The abstract record of invocation i.
CallOf(i) ==
  [phase |-> Phase(i), kind |-> kind[i], since |-> since[i],
   revision |-> IF out[i].result = "ok" THEN out[i].revision ELSE 0]

\* At most invocation i moves.
Moved(i) ==
  \A j \in IDs \ {i} :
     /\ pc'[j] = pc[j] /\ out'[j] = out[j]
     /\ kind'[j] = kind[j] /\ since'[j] = since[j]

\* Invocation i moves on, or returns.
Goes(i) == pc'[i] \notin {"unused", "returned"} /\ out'[i] = out[i]

Ends(i, result, r) ==
  pc'[i] = "returned" /\ out'[i] = [result |-> result, revision |-> r]

\* Only the record of i changes.
LEMMA CallsChange ==
  ASSUME NEW i \in IDs, Moved(i)
  PROVE  Calls' = [Calls EXCEPT ![i] = CallOf(i)']
  <1>1. \A j \in IDs \ {i} : CallOf(j)' = CallOf(j)
    BY DEF Moved, CallOf, Phase
  <1>2. Calls = [j \in IDs |-> CallOf(j)] /\ Calls' = [j \in IDs |-> CallOf(j)']
    BY DEF Calls, CallOf
  <1> QED BY <1>1, <1>2

\* What Return, Seal, Carry and appendPrepared do to the phases.
LEMMA ReturnMoves ==
  ASSUME LocalsOK, NEW i \in IDs, NEW result, NEW r, Return(i, result, r)
  PROVE  /\ Ends(i, result, r)
         /\ \A j \in IDs \ {i} : pc'[j] = pc[j] /\ out'[j] = out[j]
  BY DEF LocalsOK, Return, Ends

\* The invocation is at work, or has reported ErrCorrupt.
LEMMA SealMoves ==
  ASSUME LocalsOK, NEW i \in IDs, NEW b, NEW f, Seal(i, b, f)
  PROVE  /\ Goes(i) \/ \E r : Ends(i, "corrupt", r)
         /\ \A j \in IDs \ {i} : pc'[j] = pc[j] /\ out'[j] = out[j]
  <1>1. CASE Return(i, "corrupt", b.revision + 1)
    BY <1>1, ReturnMoves
  <1>2. CASE pc' = [pc EXCEPT ![i] = "create"] /\ out' = out
    BY <1>2 DEF LocalsOK, Goes
  <1> QED BY <1>1, <1>2 DEF Seal

\* The same after a round of carry.
LEMMA CarryMoves ==
  ASSUME LocalsOK, NEW i \in IDs, NEW b, NEW f, NEW l, NEW ref, Carry(i, b, f, l, ref)
  PROVE  /\ Goes(i) \/ \E r : Ends(i, "corrupt", r)
         /\ \A j \in IDs \ {i} : pc'[j] = pc[j] /\ out'[j] = out[j]
  <1>1. CASE Seal(i, b, AddRef(f, l, ref))
    BY <1>1, SealMoves
  <1>2. CASE pc' = [pc EXCEPT ![i] = "pack"] /\ out' = out
    BY <1>2 DEF LocalsOK, Goes
  <1> QED BY <1>1, <1>2 DEF Carry

\* The same for appendPrepared, which may also find the log exhausted.
LEMMA PreparedMoves ==
  ASSUME LocalsOK, NEW i \in IDs, NEW b, appendPrepared(i, b)
  PROVE  /\ \/ Goes(i) \/ \E r : Ends(i, "corrupt", r)
            \/ b.revision = MaxRevision /\ Ends(i, "exhausted", b.revision)
         /\ \A j \in IDs \ {i} : pc'[j] = pc[j] /\ out'[j] = out[j]
  BY ReturnMoves, SealMoves, CarryMoves DEF appendPrepared

\* The moves of an invocation that has been called.
LEMMA MovedSame ==
  ASSUME NEW i \in IDs, kind' = kind, since' = since,
         \A j \in IDs \ {i} : pc'[j] = pc[j] /\ out'[j] = out[j]
  PROVE  Moved(i) /\ kind'[i] = kind[i] /\ since'[i] = since[i]
  BY DEF Moved

\* An invocation at work: its call is open, and it has no result.
LEMMA OpenCall ==
  ASSUME IInv, NEW i \in IDs, pc[i] \notin {"unused", "returned"}
  PROVE  /\ CallOf(i) = [phase |-> "open", kind |-> kind[i], since |-> since[i], revision |-> 0]
         /\ out[i].result = "none" /\ Calls[i] = CallOf(i)
  BY NotReturnedYet DEF CallOf, Phase, Calls

\* Going on is no step of the abstract call.
LEMMA GoingOn ==
  ASSUME IInv, NEW i \in IDs, pc[i] \notin {"unused", "returned"}, Goes(i), Moved(i),
         kind'[i] = kind[i], since'[i] = since[i]
  PROVE  Calls' = Calls
  <1>1. CallOf(i)' = CallOf(i)
    BY OpenCall DEF Goes, CallOf, Phase
  <1>2. Calls' = [Calls EXCEPT ![i] = CallOf(i)']
    BY CallsChange
  <1>3. Calls = [j \in IDs |-> CallOf(j)]
    BY DEF Calls, CallOf
  <1> QED BY <1>1, <1>2, <1>3

\* Returning finishes it.
LEMMA Returning ==
  ASSUME IInv, NEW i \in IDs, pc[i] \notin {"unused", "returned"}, Moved(i),
         kind'[i] = kind[i], since'[i] = since[i], NEW result, NEW r, Ends(i, result, r)
  PROVE  Abstract!Finish(i, IF result \in {"failed", "corrupt"} THEN "unknown" ELSE result,
                            IF result = "ok" THEN r ELSE 0)
  <1> DEFINE phase == IF result \in {"failed", "corrupt"} THEN "unknown" ELSE result
             revision == IF result = "ok" THEN r ELSE 0
  <1>1. CallOf(i)' = [phase |-> phase, kind |-> kind[i], since |-> since[i], revision |-> revision]
    BY DEF Ends, CallOf, Phase
  <1>2. Calls[i] = [phase |-> "open", kind |-> kind[i], since |-> since[i], revision |-> 0]
    BY OpenCall
  <1>3. Calls' = [Calls EXCEPT ![i] = CallOf(i)']
    BY CallsChange
  <1> HIDE DEF phase, revision
  <1>4. CallOf(i)' = [Calls[i] EXCEPT !.phase = phase, !.revision = revision]
    <2> DEFINE R == [phase : {"open", phase}, kind : {kind[i]}, since : {since[i]},
                     revision : {0, revision}]
    <2>1. PICK c : c = Calls[i]
      OBVIOUS
    <2>2. PICK d : d = [c EXCEPT !.phase = phase, !.revision = revision]
      OBVIOUS
    <2>3. c \in R /\ c.kind = kind[i] /\ c.since = since[i]
      BY <1>2, <2>1
    <2>4. d \in R /\ d.phase = phase /\ d.revision = revision /\ d.kind = kind[i] /\ d.since = since[i]
      BY <2>2, <2>3
    <2>5. d = [phase |-> d.phase, kind |-> d.kind, since |-> d.since, revision |-> d.revision]
      BY <2>4
    <2> QED BY <1>1, <2>1, <2>2, <2>4, <2>5
  <1>5. Calls' = [Calls EXCEPT ![i].phase = phase, ![i].revision = revision]
    BY <1>3, <1>4, <1>2 DEF Calls
  <1> QED BY <1>5 DEF Abstract!Finish, phase, revision

AbstractStep == [Abstract!AbstractNext]_(Abstract!abstractVars)

\* A step that changes neither the log nor a call.
LEMMA Stuttering ==
  ASSUME Batches' = Batches, Calls' = Calls
  PROVE  AbstractStep
  BY DEF AbstractStep, Abstract!abstractVars

\* An error that leaves the outcome open.
LEMMA UnknownStep ==
  ASSUME IInv, NEW i \in IDs, pc[i] \notin {"unused", "returned"}, Moved(i),
         kind'[i] = kind[i], since'[i] = since[i], Batches' = Batches,
         NEW result \in {"failed", "corrupt"}, NEW r, Ends(i, result, r)
  PROVE  AbstractStep
  <1>1. Abstract!Finish(i, "unknown", 0)
    BY Returning
  <1>2. Calls[i].phase = "open"
    BY OpenCall
  <1>3. Abstract!ReturnUnknown(i)
    BY <1>1, <1>2 DEF Abstract!ReturnUnknown
  <1> QED BY <1>3 DEF AbstractStep, Abstract!AbstractNext

\* An invocation goes on, or ends with ErrCorrupt.
LEMMA LocalStep ==
  ASSUME IInv, NEW i \in IDs, pc[i] \notin {"unused", "returned"}, Moved(i),
         kind'[i] = kind[i], since'[i] = since[i], Batches' = Batches,
         Goes(i) \/ \E r : Ends(i, "corrupt", r)
  PROVE  AbstractStep
  BY GoingOn, Stuttering, UnknownStep

\* appendPrepared in an Append.
LEMMA PreparedStep ==
  ASSUME IInv, NEW i \in IDs, pc[i] \in {"list", "get"}, kind' = kind, since' = since,
         UNCHANGED storeVars, NEW b \in Snapshots, appendPrepared(i, b)
  PROVE  AbstractStep
  <1>0. LocalsOK /\ ObjectsOK /\ Contiguous /\ RecordInv /\ LateInv
    BY DEF IInv, TypeOK
  <1>1. Grows /\ Committed' = Committed
    BY UnchangedGrows DEF storeVars, Committed, Present, logKey
  <1>2. Batches' = Batches
    BY <1>0, <1>1, SameBatches
  <1>3. Moved(i) /\ kind'[i] = kind[i] /\ since'[i] = since[i]
    BY <1>0, PreparedMoves, MovedSame
  <1>4. CASE Goes(i) \/ \E r : Ends(i, "corrupt", r)
    BY <1>2, <1>3, <1>4, LocalStep
  <1>5. CASE b.revision = MaxRevision /\ Ends(i, "exhausted", b.revision)
    <2>1. Abstract!Finish(i, "exhausted", 0) /\ Calls[i].phase = "open"
      BY <1>3, <1>5, Returning, OpenCall
    <2>2. MaxRevision \in Committed
      BY <1>0, <1>5, SnapshotIsCommit, NilIsNoCommit, MaxRevisionAssumption
    <2>3. Len(Batches) = MaxRevision
      BY <1>0, <2>2, BatchesAre, MaxRevisionAssumption
    <2>4. ~Abstract!Appended(i)
      BY <1>0, NothingYet, AppendedIff DEF OwnsNothing
    <2>5. Abstract!ReturnExhausted(i)
      BY <1>2, <2>1, <2>3, <2>4 DEF Abstract!ReturnExhausted
    <2> QED BY <2>5 DEF AbstractStep, Abstract!AbstractNext
  <1> QED BY <1>0, <1>4, <1>5, PreparedMoves

\* List finds the head, or that there is none.
LEMMA ListImplements ==
  ASSUME IInv, NEW i \in IDs, List(i)
  PROVE  AbstractStep
  <1>0. /\ LocalsOK /\ Contiguous /\ pc[i] = "list" /\ UNCHANGED storeVars
        /\ kind' = kind /\ since' = since
    BY DEF IInv, TypeOK, List
  <1>1. CASE appendPrepared(i, Nil)
    BY <1>0, <1>1, NilIsSnapshot, PreparedStep
  <1>2. CASE pc' = [pc EXCEPT ![i] = "get"] /\ out' = out
    <2>1. Goes(i) /\ \A j \in IDs \ {i} : pc'[j] = pc[j] /\ out'[j] = out[j]
      BY <1>0, <1>2 DEF LocalsOK, Goes
    <2>2. Batches' = Batches
      BY <1>0, UnchangedGrows, SameBatches DEF storeVars, Committed, Present, logKey
    <2> QED BY <1>0, <2>1, <2>2, MovedSame, LocalStep
  <1> QED BY <1>1, <1>2 DEF List

\* Get reads it.
LEMMA GetImplements ==
  ASSUME IInv, NEW i \in IDs, Get(i)
  PROVE  AbstractStep
  <1>0. /\ LocalsOK /\ Contiguous /\ StageInv(i) /\ pc[i] = "get" /\ UNCHANGED storeVars
        /\ kind' = kind /\ since' = since
    BY DEF IInv, TypeOK, Get
  <1>1. PICK r \in Committed : key[i] = logKey(r)
    BY <1>0 DEF StageInv
  <1>2. CASE appendPrepared(i, objects[key[i]])
    <2>1. objects[key[i]] \in Snapshots
      BY <1>1 DEF Snapshots
    <2> QED BY <1>0, <1>2, <2>1, PreparedStep
  <1>3. CASE \E q : Return(i, "corrupt", q)
    <2>1. /\ \E q : Ends(i, "corrupt", q)
          /\ \A j \in IDs \ {i} : pc'[j] = pc[j] /\ out'[j] = out[j]
      BY <1>0, <1>3, ReturnMoves
    <2>2. Batches' = Batches
      BY <1>0, UnchangedGrows, SameBatches DEF storeVars, Committed, Present, logKey
    <2> QED BY <1>0, <2>1, <2>2, MovedSame, LocalStep
  <1> QED BY <1>2, <1>3 DEF Get

\* A step that leaves the store alone.
LEMMA SameStore ==
  ASSUME Contiguous, UNCHANGED storeVars
  PROVE  Batches' = Batches
  BY UnchangedGrows, SameBatches DEF storeVars, Committed, Present, logKey

\* A call of Append, AppendTo, or one that is turned down, is a call of EventLog.
LEMMA InvokeStep ==
  ASSUME IInv, NEW i \in IDs, pc[i] = "unused", Batches' = Batches, Moved(i),
         NEW k \in {"Append", "AppendTo"}, NEW s \in 0..HeadRevision,
         kind'[i] = k, since'[i] = s, k = "Append" => s = HeadRevision,
         \/ Goes(i) \/ \E r : Ends(i, "corrupt", r)
         \/ \E r : Ends(i, "rejected", r)
         \/ k = "AppendTo" /\ s = MaxRevision /\ Ends(i, "exhausted", s)
  PROVE  AbstractStep
  <1>1. Contiguous /\ out[i].result = "none"
    BY NotReturnedYet DEF IInv
  <1>2. Len(Batches) = HeadRevision
    BY <1>1, BatchesAre
  <1>3. Calls[i].phase = "new"
    BY DEF Calls, Phase
  <1>4. PICK phase \in {"open", "rejected", "exhausted", "unknown"} :
           /\ CallOf(i)' = [phase |-> phase, kind |-> k, since |-> s, revision |-> 0]
           /\ phase = "exhausted" => k = "AppendTo" /\ s = MaxRevision
    <2>1. CASE Goes(i)
      <3>1. CallOf(i)' = [phase |-> "open", kind |-> k, since |-> s, revision |-> 0]
        BY <1>1, <2>1 DEF Goes, CallOf, Phase
      <3> QED BY <3>1
    <2>2. CASE \E r : Ends(i, "corrupt", r)
      <3>1. CallOf(i)' = [phase |-> "unknown", kind |-> k, since |-> s, revision |-> 0]
        BY <2>2 DEF Ends, CallOf, Phase
      <3> QED BY <3>1
    <2>3. CASE \E r : Ends(i, "rejected", r)
      <3>1. CallOf(i)' = [phase |-> "rejected", kind |-> k, since |-> s, revision |-> 0]
        BY <2>3 DEF Ends, CallOf, Phase
      <3> QED BY <3>1
    <2>4. CASE k = "AppendTo" /\ s = MaxRevision /\ Ends(i, "exhausted", s)
      <3>1. CallOf(i)' = [phase |-> "exhausted", kind |-> k, since |-> s, revision |-> 0]
        BY <2>4 DEF Ends, CallOf, Phase
      <3> QED BY <2>4, <3>1
    <2> QED BY <2>1, <2>2, <2>3, <2>4
  <1>5. Calls' = [Calls EXCEPT ![i] = [phase |-> phase, kind |-> k, since |-> s, revision |-> 0]]
    BY <1>4, CallsChange
  <1>6. Abstract!Invoke(i)
    BY <1>2, <1>3, <1>4, <1>5 DEF Abstract!Invoke
  <1> QED BY <1>6 DEF AbstractStep, Abstract!AbstractNext

\* What Start does to the calls.
LEMMA StartMoves ==
  ASSUME IInv, NEW i \in IDs, NEW k \in {"Append", "AppendTo"}, NEW r \in 0..MaxRevision,
         Start(i, k, r), \A j \in IDs \ {i} : pc'[j] = pc[j] /\ out'[j] = out[j]
  PROVE  /\ Moved(i) /\ kind'[i] = k /\ since'[i] = r /\ pc[i] = "unused"
         /\ Batches' = Batches
  <1>1. LocalsOK /\ Contiguous
    BY DEF IInv, TypeOK
  <1>2. /\ CallVars(i) /\ kind'[i] = k /\ since'[i] = r
        /\ pc[i] = "unused" /\ UNCHANGED storeVars
    BY <1>1, StartCallVars
  <1> QED BY <1>1, <1>2, SameStore DEF Moved, CallVars

\* CallAppend, CallAppendTo and Reject.
LEMMA CallImplements ==
  ASSUME IInv, NEW i \in IDs, Call(i)
  PROVE  AbstractStep
  <1>0. /\ LocalsOK /\ ObjectsOK /\ Contiguous /\ HeadRevision \in 0..MaxRevision
        /\ Committed = 1..HeadRevision /\ HeadRevision \in 0..HeadRevision
    BY HeadOfContiguous, MaxRevisionAssumption DEF IInv, TypeOK
  <1>1. CASE CallAppend(i)
    <2>1. Start(i, "Append", HeadRevision) /\ pc' = [pc EXCEPT ![i] = "list"] /\ out' = out
      BY <1>1 DEF CallAppend
    <2>2. Goes(i) /\ \A j \in IDs \ {i} : pc'[j] = pc[j] /\ out'[j] = out[j]
      BY <1>0, <2>1 DEF LocalsOK, Goes
    <2>3. /\ Moved(i) /\ kind'[i] = "Append" /\ since'[i] = HeadRevision /\ pc[i] = "unused"
          /\ Batches' = Batches
      BY <1>0, <2>1, <2>2, StartMoves
    <2> QED BY <1>0, <2>2, <2>3, InvokeStep
  <1>2. CASE CallAppendTo(i)
    <2>1. PICK b \in Snapshots : Start(i, "AppendTo", b.revision) /\ appendPrepared(i, b)
      BY <1>2 DEF CallAppendTo
    <2>2. b.revision \in 0..MaxRevision
      BY <1>0, SnapshotRevision
    <2>3. b.revision \in 0..HeadRevision
      BY <1>0, SnapshotIsCommit, NilIsNoCommit, MaxRevisionAssumption
    <2>4. /\ \/ Goes(i) \/ \E r : Ends(i, "corrupt", r)
             \/ b.revision = MaxRevision /\ Ends(i, "exhausted", b.revision)
          /\ \A j \in IDs \ {i} : pc'[j] = pc[j] /\ out'[j] = out[j]
      BY <1>0, <2>1, PreparedMoves
    <2>5. /\ Moved(i) /\ kind'[i] = "AppendTo" /\ since'[i] = b.revision /\ pc[i] = "unused"
          /\ Batches' = Batches
      BY <2>1, <2>2, <2>4, StartMoves
    <2> QED BY <2>3, <2>4, <2>5, InvokeStep
  <1>3. CASE Reject(i)
    <2>1. PICK k \in {"Append", "AppendTo"} :
             Start(i, k, HeadRevision) /\ Return(i, "rejected", 0)
      BY <1>3 DEF Reject
    <2>2. /\ Ends(i, "rejected", 0)
          /\ \A j \in IDs \ {i} : pc'[j] = pc[j] /\ out'[j] = out[j]
      BY <1>0, <2>1, ReturnMoves
    <2>3. /\ Moved(i) /\ kind'[i] = k /\ since'[i] = HeadRevision /\ pc[i] = "unused"
          /\ Batches' = Batches
      BY <1>0, <2>1, <2>2, StartMoves
    <2> QED BY <1>0, <2>2, <2>3, InvokeStep
  <1> QED BY <1>1, <1>2, <1>3 DEF Call

\* Packing a level commits nothing.
LEMMA CreateSegmentImplements ==
  ASSUME IInv, NEW i \in IDs, createSegment(i)
  PROVE  AbstractStep
  <1>0. /\ LocalsOK /\ Contiguous /\ pc[i] = "pack" /\ UNCHANGED storeVars
        /\ kind' = kind /\ since' = since
    BY DEF IInv, TypeOK, createSegment
  <1>1. \/ pc' = [pc EXCEPT ![i] = "aggregate"] /\ out' = out
        \/ Return(i, "corrupt", base[i].revision + 1)
    BY DEF createSegment
  <1>2. /\ Goes(i) \/ \E r : Ends(i, "corrupt", r)
        /\ \A j \in IDs \ {i} : pc'[j] = pc[j] /\ out'[j] = out[j]
    <2>1. CASE pc' = [pc EXCEPT ![i] = "aggregate"] /\ out' = out
      BY <1>0, <2>1 DEF LocalsOK, Goes
    <2>2. CASE Return(i, "corrupt", base[i].revision + 1)
      BY <1>0, <2>2, ReturnMoves
    <2> QED BY <1>1, <2>1, <2>2
  <1> QED BY <1>0, <1>2, SameStore, MovedSame, LocalStep

\* Nor does publishing a segment.
LEMMA CreateAggregateImplements ==
  ASSUME IInv, NEW i \in IDs, createAggregate(i)
  PROVE  AbstractStep
  <1>0. /\ LocalsOK /\ Contiguous /\ StageInv(i) /\ pc[i] = "aggregate"
        /\ kind' = kind /\ since' = since
    BY DEF IInv, TypeOK, createAggregate
  <1>1. key[i][1] = "tree"
    BY <1>0 DEF StageInv, treeKey
  <1>2. \E err \in {"ok", "exists", "error"} : Create(key[i], object[i], err)
    BY DEF createAggregate, CreateErrors
  <1>3. Batches' = Batches
    BY <1>0, <1>1, <1>2, TreeCreate, SameBatches
  <1>4. /\ Goes(i) \/ \E r : Ends(i, "corrupt", r)
        /\ \A j \in IDs \ {i} : pc'[j] = pc[j] /\ out'[j] = out[j]
    <2>1. CASE NextLevel(i)
      BY <1>0, <2>1, CarryMoves DEF NextLevel
    <2>2. CASE pc' = [pc EXCEPT ![i] = "readback"] /\ out' = out
      BY <1>0, <2>2 DEF LocalsOK, Goes
    <2> QED BY <2>1, <2>2 DEF createAggregate
  <1> QED BY <1>0, <1>3, <1>4, MovedSame, LocalStep

\* Nor does reading one back.
LEMMA ReadbackImplements ==
  ASSUME IInv, NEW i \in IDs, readback(i)
  PROVE  AbstractStep
  <1>0. /\ LocalsOK /\ Contiguous /\ pc[i] = "readback" /\ UNCHANGED storeVars
        /\ kind' = kind /\ since' = since
    BY DEF IInv, TypeOK, readback
  <1>1. CASE NextLevel(i)
    <2>1. /\ Goes(i) \/ \E r : Ends(i, "corrupt", r)
          /\ \A j \in IDs \ {i} : pc'[j] = pc[j] /\ out'[j] = out[j]
      BY <1>0, <1>1, CarryMoves DEF NextLevel
    <2> QED BY <1>0, <2>1, SameStore, MovedSame, LocalStep
  <1>2. ASSUME NEW result \in {"failed", "corrupt"}, NEW r, Return(i, result, r)
        PROVE  AbstractStep
    BY <1>0, <1>2, ReturnMoves, SameStore, MovedSame, UnknownStep
  <1> QED BY <1>1, <1>2 DEF readback

\* A context that is cancelled leaves the outcome open.
LEMMA FailImplements ==
  ASSUME IInv, NEW i \in IDs, Fail(i)
  PROVE  AbstractStep
  <1>0. /\ LocalsOK /\ Contiguous /\ pc[i] \notin {"unused", "returned"} /\ UNCHANGED storeVars
        /\ kind' = kind /\ since' = since /\ Return(i, "failed", 0)
    BY DEF IInv, TypeOK, Fail, Active
  <1> QED BY <1>0, ReturnMoves, SameStore, MovedSame, UnknownStep

\* The step at which a commit takes effect, its call being open or ended without knowing.
LEMMA CommitStep ==
  ASSUME IInv, NEW i \in IDs, NEW q, NEW c, Candidate(i, q, c), Put(logKey(q), c),
         q \notin Committed, Uncommitted(i), InOrder(i, q),
         Calls[i].phase \in {"open", "unknown"},
         \/ Calls' = Calls
         \/ Calls[i].phase = "open" /\ Abstract!Finish(i, "ok", q)
  PROVE  AbstractStep
  <1>0. Contiguous /\ LocalsOK
    BY DEF IInv, TypeOK
  <1>1. Batches' = Append(Batches, i) /\ q = Len(Batches) + 1 /\ Len(Batches) < MaxRevision
    BY <1>0, OneMoreBatch
  <1>2. ~Abstract!Appended(i)
    BY <1>0, AppendedIff
  <1>3. Calls[i].kind = "AppendTo" => Len(Batches) = Calls[i].since
    <2>1. Calls[i].kind = kind[i] /\ Calls[i].since = since[i]
      BY DEF Calls
    <2>2. Len(Batches) \in Nat /\ since[i] \in Nat
      BY <1>0, BatchesAre DEF LocalsOK
    <2> QED BY <1>1, <2>1, <2>2 DEF InOrder
  <1>4. Abstract!CommitBatch(i)
    BY <1>1, <1>2, <1>3 DEF Abstract!CommitBatch
  <1> QED BY <1>4 DEF AbstractStep, Abstract!AbstractNext

\* The Create of a commit.
LEMMA CreateCommitImplements ==
  ASSUME IInv, NEW i \in IDs, createCommit(i)
  PROVE  AbstractStep
  <1> PICK c, q : c = object[i] /\ q = object[i].revision
    OBVIOUS
  <1>0. /\ LocalsOK /\ Contiguous /\ RecordInv /\ LateInv /\ pc[i] = "create"
        /\ kind' = kind /\ since' = since
    BY DEF IInv, TypeOK, createCommit
  <1>1. Candidate(i, q, c) /\ key[i] = logKey(q) /\ InOrder(i, q)
    BY <1>0, ObjectIsCandidate
  <1>2. q \in Revisions /\ (Present(key[i]) <=> q \in Committed)
    BY <1>1 DEF Candidate, Committed
  <1>3. Uncommitted(i) /\ Calls[i].phase = "open"
    BY <1>0, NothingYet, OpenCall DEF OwnsNothing
  <1>4. CASE Create(key[i], object[i], "ok") /\ Return(i, "ok", object[i].revision)
    <2>1. Put(logKey(q), c) /\ q \notin Committed
      BY <1>1, <1>2, <1>4, CreateCases
    <2>2. /\ Ends(i, "ok", q)
          /\ Moved(i) /\ kind'[i] = kind[i] /\ since'[i] = since[i]
      BY <1>0, <1>4, ReturnMoves, MovedSame
    <2>3. Abstract!Finish(i, "ok", q)
      BY <1>0, <2>2, Returning
    <2> QED BY <1>1, <1>3, <2>1, <2>3, CommitStep
  <1>5. ASSUME NEW err \in CreateErrors, Create(key[i], object[i], err),
               pc' = [pc EXCEPT ![i] = "lookup"], out' = out
        PROVE  AbstractStep
    <2>1. Goes(i) /\ Moved(i) /\ kind'[i] = kind[i] /\ since'[i] = since[i]
      BY <1>0, <1>5 DEF LocalsOK, Goes, Moved
    <2>2. Calls' = Calls
      BY <1>0, <2>1, GoingOn
    <2>3. Put(logKey(q), c) \/ objects' = objects
      BY <1>1, <1>5, CreateCases DEF CreateErrors
    <2>4. CASE Put(logKey(q), c) /\ q \notin Committed
      BY <1>1, <1>3, <2>2, <2>4, CommitStep
    <2>5. CASE objects' = objects \/ q \in Committed
      <3>1. objects' = objects
        BY <1>1, <1>2, <2>3, <2>5 DEF Put
      <3>2. Grows /\ Committed' = Committed
        BY <3>1, UnchangedGrows DEF Committed, Present, logKey
      <3> QED BY <1>0, <2>2, <3>2, SameBatches, Stuttering
    <2> QED BY <2>3, <2>4, <2>5
  <1> QED BY <1>4, <1>5 DEF createCommit

\* A race that is lost: Append starts over, or the caller gets ErrConflict.
LEMMA ConflictImplements ==
  ASSUME IInv, NEW i \in IDs, pc[i] = "lookup", UNCHANGED storeVars, kind' = kind, since' = since,
         Present(key[i]), objects[key[i]].id # i, Conflict(i)
  PROVE  AbstractStep
  <1>0. LocalsOK /\ Contiguous /\ RecordInv /\ LateInv /\ StageInv(i)
    BY DEF IInv, TypeOK
  <1>1. Batches' = Batches
    BY <1>0, SameStore
  <1>2. CASE Restart(i)
    <2>1. /\ Goes(i)
          /\ \A j \in IDs \ {i} : pc'[j] = pc[j] /\ out'[j] = out[j]
      BY <1>0, <1>2 DEF LocalsOK, Restart, Goes
    <2> QED BY <1>1, <2>1, MovedSame, LocalStep
  <1>3. CASE ~(kind[i] = "Append" /\ attempt[i] < MaxRetries) /\ Return(i, "conflict", object[i].revision)
    <2>1. /\ Ends(i, "conflict", object[i].revision)
          /\ Moved(i) /\ kind'[i] = kind[i] /\ since'[i] = since[i]
      BY <1>0, <1>3, ReturnMoves, MovedSame
    <2>2. Abstract!Finish(i, "conflict", 0) /\ Calls[i].phase = "open"
      BY <2>1, Returning, OpenCall
    <2>3. ~Abstract!Appended(i)
      BY <1>0, NothingAfterLostRace, AppendedIff DEF OwnsNothing
    <2>4. Calls[i].kind = kind[i] /\ Calls[i].since = since[i]
      BY DEF Calls
    <2>5. Candidate(i, object[i].revision, object[i]) /\ key[i] = logKey(object[i].revision)
      BY ObjectIsCandidate
    <2>6. object[i].revision \in Committed
      BY <2>5 DEF Candidate, Committed
    <2>7. /\ object[i].revision = base[i].revision + 1
          /\ Progress(i, base[i].revision) /\ base[i].revision \in Nat
      BY <1>0, BaseFacts DEF StageInv, IsBase
    <2>8. Len(Batches) \in Nat /\ Len(Batches) >= base[i].revision + 1
      BY <1>0, <2>6, <2>7, BatchesAre
    <2>9. since[i] \in Nat /\ attempt[i] \in 0..MaxRetries /\ MaxRetries \in Nat
      BY <1>0, MaxRetriesAssumption DEF LocalsOK
    <2>10. \/ kind[i] = "AppendTo" /\ Len(Batches) > since[i]
           \/ kind[i] = "Append" /\ Len(Batches) >= since[i] + MaxRetries + 1
      BY <1>3, <2>7, <2>8, <2>9 DEF Progress
    <2>11. Abstract!ReturnConflict(i)
      BY <1>1, <2>2, <2>3, <2>4, <2>10 DEF Abstract!ReturnConflict
    <2> QED BY <2>11 DEF AbstractStep, Abstract!AbstractNext
  <1> QED BY <1>2, <1>3 DEF Conflict

\* The lookup of the winner.
LEMMA LookupImplements ==
  ASSUME IInv, NEW i \in IDs, lookup(i)
  PROVE  AbstractStep
  <1>0. /\ LocalsOK /\ Contiguous /\ pc[i] = "lookup" /\ UNCHANGED storeVars
        /\ kind' = kind /\ since' = since
    BY DEF IInv, TypeOK, lookup
  <1>1. ASSUME NEW result \in {"failed", "corrupt"}, NEW r, Return(i, result, r)
        PROVE  AbstractStep
    BY <1>0, <1>1, ReturnMoves, SameStore, MovedSame, UnknownStep
  <1>2. CASE Present(key[i]) /\ objects[key[i]].id # i /\ Conflict(i)
    BY <1>0, <1>2, ConflictImplements
  <1>3. CASE Present(key[i]) /\ objects[key[i]].id = i /\ Return(i, "ok", object[i].revision)
    <2>1. /\ Ends(i, "ok", object[i].revision) /\ Batches' = Batches
          /\ Moved(i) /\ kind'[i] = kind[i] /\ since'[i] = since[i]
      BY <1>0, <1>3, ReturnMoves, SameStore, MovedSame
    <2>2. Abstract!Finish(i, "ok", object[i].revision) /\ Calls[i].phase = "open"
      BY <1>0, <2>1, Returning, OpenCall
    <2>3. Candidate(i, object[i].revision, object[i]) /\ key[i] = logKey(object[i].revision)
      BY <1>0, ObjectIsCandidate
    <2>4. object[i].revision \in Committed /\ Logged(object[i].revision).id = i
      BY <1>3, <2>3 DEF Candidate, Committed, Logged
    <2>5. object[i].revision \in DOMAIN Batches /\ Batches[object[i].revision] = i
      BY <1>0, <2>4, BatchesAre
    <2>6. Abstract!ReturnOk(i)
      BY <2>1, <2>2, <2>5 DEF Abstract!ReturnOk
    <2> QED BY <2>6 DEF AbstractStep, Abstract!AbstractNext
  <1>4. CASE Present(key[i])
    <2>1. Winner(i, objects[key[i]])
      BY <1>4 DEF lookup
    <2> QED BY <1>1, <1>2, <1>3, <1>4, <2>1 DEF Winner
  <1>5. CASE ~Present(key[i])
    <2>1. \E result \in {"failed", "corrupt"}, r \in {object[i].revision} : Return(i, result, r)
      BY <1>5 DEF lookup
    <2> QED BY <1>1, <2>1
  <1> QED BY <1>4, <1>5

\* A PUT that lands late.
LEMMA LandingImplements ==
  ASSUME IInv, Landing
  PROVE  AbstractStep
  <1>0. StoreInv /\ LocalsOK /\ Contiguous /\ UNCHANGED <<pc, kind, locals, out, since>>
    BY StoreInvOfIInv DEF Landing, IInv
  <1>1. Calls' = Calls
    BY <1>0 DEF Calls, Phase
  <1>2. PICK put \in late : Put(put[1], put[2])
    BY DEF Landing, Land
  <1>3. CASE put[1][1] = "tree"
    BY <1>0, <1>1, <1>2, <1>3, TreePut, SameBatches, Stuttering
  <1>4. CASE Present(put[1])
    <2>1. objects' = objects
      BY <1>2, <1>4 DEF Put
    <2>2. Grows /\ Committed' = Committed
      BY <2>1, UnchangedGrows DEF Committed, Present, logKey
    <2> QED BY <1>0, <1>1, <2>2, SameBatches, Stuttering
  <1>5. CASE put[1][1] # "tree" /\ ~Present(put[1])
    <2> PICK c, q, i : c = put[2] /\ q = put[2].revision /\ i = put[2].id
      OBVIOUS
    <2>1. /\ IsLogPut(put) /\ HasPredecessor(q) /\ Resolved(c.frontier)
          /\ Uncommitted(i) /\ InOrder(i, q) /\ Pending(i, q)
      BY <1>0, <1>2, <1>5 DEF StoreInv, LateInv
    <2>2. i \in IDs /\ Candidate(i, q, c) /\ put[1] = logKey(q)
      BY <2>1 DEF IsLogPut, IsCommit, Candidate, Pending
    <2>3. q \notin Committed
      BY <1>5, <2>2 DEF Committed
    <2>4. Calls[i].phase \in {"open", "unknown"}
      BY <2>1, <2>2 DEF Pending, Calls, Phase
    <2> QED BY <1>1, <1>2, <2>1, <2>2, <2>3, <2>4, CommitStep
  <1> QED BY <1>3, <1>4, <1>5

\* Every step implements a step of EventLog, or none.
LEMMA StepImplements ==
  ASSUME IInv, [Next]_vars
  PROVE  AbstractStep
  <1>1. ASSUME NEW i \in IDs, Step(i) PROVE AbstractStep
    BY <1>1, ListImplements, GetImplements, CreateSegmentImplements, CreateAggregateImplements,
       ReadbackImplements, CreateCommitImplements, LookupImplements DEF Step
  <1>2. CASE UNCHANGED vars
    <2>1. UNCHANGED <<pc, kind, out, since>> /\ UNCHANGED storeVars
      BY <1>2 DEF vars, storeVars
    <2>2. Calls' = Calls
      BY <2>1 DEF Calls, Phase
    <2> QED BY <2>1, <2>2, SameStore, Stuttering DEF IInv
  <1> QED BY <1>1, <1>2, CallImplements, FailImplements, LandingImplements DEF Next

\* The empty log is EventLog's.
LEMMA InitImplements == Init => Abstract!AbstractInit
  <1> SUFFICES ASSUME Init PROVE Abstract!AbstractInit
    OBVIOUS
  <1>1. Committed = {}
    BY DEF Init, StoreInit, Committed, Present
  <1>2. Batches = <<>>
    BY <1>1 DEF Batches, HeadRevision
  <1>3. \A i \in IDs : CallOf(i) = Abstract!Idle
    BY DEF Init, CallOf, Phase, Abstract!Idle
  <1>4. Calls = [i \in IDs |-> Abstract!Idle]
    BY <1>3 DEF Calls, CallOf
  <1> QED BY <1>2, <1>4 DEF Abstract!AbstractInit

\* Append and AppendTo implement EventLog, whatever the radix, the number of
\* invocations, the retries, the late PUTs and the lost responses: every commit takes
\* effect in one step at the end of the log, at most once, on the base its caller
\* chose, and every result tells what became of the batch (log.go:337-482).
THEOREM LogImplementsEventLog == Spec => ImplementsEventLog
  <1>1. IInv /\ [Next]_vars => [Abstract!AbstractNext]_(Abstract!abstractVars)
    BY StepImplements DEF AbstractStep
  <1> QED BY <1>1, InitImplements, Invariance, PTL DEF Spec, ImplementsEventLog, Abstract!AbstractSpec

=============================================================================
