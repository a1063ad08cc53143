---------------------------- MODULE LogInvariant ----------------------------
(***************************************************************************)
(* The inductive invariant behind the safety properties of LokvLog.  It    *)
(* says, for every piece of the state that can still turn into a record,   *)
(* what the record would be: the committed revisions, the PUTs that may    *)
(* still land, and the local state of every invocation.                    *)
(***************************************************************************)
EXTENDS LokvLog

\* The committed revisions form an initial interval.
Contiguous == \E n \in 0..MaxRevision : Committed = 1..n

\* A commit that revision r would extend is there.
HasPredecessor(r) == r = 1 \/ r - 1 \in Committed

\* The Log of invocation i decodes its batch.
Publishable(i) == <<i, i>> \in Decodes

\* Invocation i may own a record at revision r without knowing it.
Pending(i, r) ==
  /\ Publishable(i)
  /\ \/ pc[i] = "lookup" /\ object[i].revision = r
     \/ pc[i] = "returned" /\ out[i].result \in {"failed", "corrupt"}

Acknowledged(i, r) ==
  /\ Publishable(i)
  /\ pc[i] = "returned" /\ out[i] = [result |-> "ok", revision |-> r]

Uncommitted(i) == \A r \in Committed : Logged(r).id # i

\* A committed record belongs to an invocation that has not denied it.
RecordInv ==
  \A r \in Committed :
     LET c == Logged(r)
     IN /\ Resolved(c.frontier)
        /\ InOrder(c.id, r)
        /\ Pending(c.id, r) \/ Acknowledged(c.id, r)

IsLogPut(put) == put[1] = logKey(put[2].revision) /\ IsCommit(put[2])

\* A PUT that may still land is a segment, or a commit of an invocation that has
\* no record and may own this one.
LateInv ==
  \A put \in late :
     \/ put[1][1] = "tree"
     \/ /\ IsLogPut(put)
        /\ HasPredecessor(put[2].revision)
        /\ Resolved(put[2].frontier)
        /\ \/ Present(put[1])
           \/ /\ Uncommitted(put[2].id)
              /\ InOrder(put[2].id, put[2].revision)
              /\ Pending(put[2].id, put[2].revision)

\* Of the PUTs of one invocation that may land, all are for one revision.
LateOnce ==
  \A p, q \in late :
     \/ "tree" \in {p[1][1], q[1][1]}
     \/ Present(p[1]) \/ Present(q[1])
     \/ p[2].id # q[2].id
     \/ p[1] = q[1]

\* Append has seen one more commit for every conflict; AppendTo keeps its base.
Progress(i, r) ==
  \/ kind[i] = "AppendTo" /\ r = since[i]
  \/ kind[i] = "Append" /\ r >= since[i] + attempt[i]

StageInv(i) ==
  /\ base[i] = Nil \/ base[i] \in Snapshots
  /\ Resolved(levels[i])
  /\ pc[i] = "unused" => attempt[i] = 0
  /\ pc[i] = "list" =>
        kind[i] = "Append" /\ since[i] + attempt[i] \in {0} \cup Committed
  /\ pc[i] = "get" =>
        kind[i] = "Append" /\ \E r \in Committed : key[i] = logKey(r) /\ Progress(i, r)
  /\ pc[i] \in {"pack", "aggregate", "readback", "create", "lookup"} =>
        base[i].revision < MaxRevision /\ Progress(i, base[i].revision)
  /\ pc[i] \in {"aggregate", "readback"} =>
        IsRef(Packed(i)) /\ level[i] + 1 \in Levels /\ key[i] = treeKey(Packed(i))
  /\ pc[i] \in {"create", "lookup"} =>
        /\ key[i] = logKey(object[i].revision)
        /\ object[i].id = i
        /\ Publishable(i)
        /\ object[i].revision = base[i].revision + 1
        /\ Resolved(object[i].frontier)
  /\ out[i].result = "ok" =>
        out[i].revision \in Committed /\ Logged(out[i].revision).id = i
  /\ out[i].result = "conflict" /\ kind[i] = "Append" =>
        out[i].revision \in Committed /\ out[i].revision > since[i] + MaxRetries
  /\ out[i].result # "none" => pc[i] = "returned"

\* The inductive invariant: implies GapFree, AtMostOnce, RefusedIsFinal,
\* AcknowledgedIsCommitted, CommittedInOrder, RetriesAreContended and
\* ReferencesResolve.
IInv ==
  /\ TypeOK
  /\ Contiguous
  /\ AtMostOnce
  /\ RecordInv
  /\ LateInv
  /\ LateOnce
  /\ \A i \in IDs : StageInv(i)

=============================================================================
