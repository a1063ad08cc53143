---------------------------- MODULE SegmentFiles ----------------------------
(***************************************************************************)
(* createSegment and createAggregate (segment.go) with what LokvLog leaves *)
(* out: the children are loaded in groups by concurrent workers, through   *)
(* scratch files and response bodies, each step of which may fail.         *)
(*                                                                         *)
(* Child i is loaded by worker i; worker 0 stands for the readback of an   *)
(* aggregate that may exist already.  Every deferred Close of the code is  *)
(* a handle that a step closes; nothing closes by itself.                  *)
(***************************************************************************)
EXTENDS Integers, SequencesExt, FiniteSetsExt

CONSTANTS
  Children,   \* number of the children
  GroupSize   \* number of the children loaded at a time

ASSUME GroupAssumption ==
  Children \in Nat \ {0} /\ GroupSize \in Nat \ {0} /\ Children % GroupSize = 0

None == "none"
Nil == 0
Workers == 0..Children

VARIABLES
  leaf,       \* whether the children are commits
  handle,     \* handle[h]: "unused", "open", "closed" or "twice"
  worker,     \* worker[i]: the step that i takes next
  parts,      \* parts[i]: i when the records of child i are loaded, or Nil
  cause,      \* context.Cause of the group's context, or None
  cancelled,  \* whether the caller has cancelled its context
  pc,
  group,      \* the last child of the group
  packed,     \* the children whose records have been written, in order
  result      \* None while createSegment runs

segmentVars == <<leaf, handle, worker, parts, cause, cancelled, pc, group, packed, result>>

Body == <<0, "body">>
Records(i) == <<i, "records">>
Download(i) == <<i, "download">>
Response(i) == <<i, "response">>
Handles == {Body} \cup {Records(i) : i \in Workers \ {0}}
             \cup {Download(i) : i \in Workers} \cup {Response(i) : i \in Workers}

Open(h) == handle' = [handle EXCEPT ![h] = "open"]

Close(hs) ==
  handle' = [h \in Handles |->
               IF h \in hs THEN IF handle[h] = "open" THEN "closed" ELSE "twice" ELSE handle[h]]

Group(g) == (g - GroupSize + 1)..g

SegmentInit ==
  /\ leaf \in BOOLEAN
  /\ handle = [h \in Handles |-> "unused"]
  /\ worker = [i \in Workers |-> "idle"]
  /\ parts = [i \in 1..Children |-> Nil]
  /\ cause = None /\ cancelled = FALSE
  /\ pc = "start" /\ group = 0
  /\ packed = <<>> /\ result = None

\* The caller's context is cancelled, and with it the group's.
Cancel ==
  /\ ~cancelled /\ result = None
  /\ cancelled' = TRUE
  /\ cause' = IF pc = "load" /\ cause = None THEN "cancelled" ELSE cause
  /\ UNCHANGED <<leaf, handle, worker, parts, pc, group, packed, result>>

\* What a step can fail with.
Errors(inGroup) ==
  IF cancelled \/ (inGroup /\ cause # None) THEN {"cancelled", "failed"} ELSE {"failed"}

\* The deferred functions: the body is closed, then the parts that are left.
Return(err) ==
  /\ \E closeErr \in BOOLEAN : result' = IF closeErr /\ err = "ok" THEN "failed" ELSE err
  /\ Close({Body} \cup {Records(i) : i \in {j \in DOMAIN parts : parts[j] # Nil}})
  /\ pc' = "returned"

-----------------------------------------------------------------------------
(* Workers: loadRecordFile and download.                                   *)

Advance(i, step) ==
  /\ worker' = [worker EXCEPT ![i] = step]
  /\ UNCHANGED <<leaf, parts, cause, cancelled, pc, group, packed, result>>

\* Mutant: the last error is kept.
CancelWithLast(err) == err

\* The first call of cancel decides the cause.
CancelWith(err) == IF cause = None THEN err ELSE cause

Own(i) == IF i = 0 THEN {} ELSE {Records(i)}

\* The worker closes what it holds.  A failed readback ends createSegment, whose
\* deferred Close of the body is included.
WorkerFails(i, holds) ==
  /\ worker' = [worker EXCEPT ![i] = "ended"]
  /\ \E err \in Errors(i # 0) :
       IF i = 0
       THEN /\ Close(holds \cup {Body})
            /\ pc' = "returned" /\ result' = err /\ cause' = cause
       ELSE /\ Close(holds)
            /\ cause' = CancelWith(err)
            /\ UNCHANGED <<pc, result>>
  /\ UNCHANGED <<leaf, parts, cancelled, group, packed>>

NewRecordFile(i) ==
  /\ worker[i] = "temp"
  /\ \/ Open(Records(i)) /\ Advance(i, IF leaf THEN "commit" ELSE "get")
     \/ WorkerFails(i, {})

\* loadRecordFile returns the file unless its context is cancelled by now.
Loaded(i, closing) ==
  /\ cause = None
  /\ parts' = [parts EXCEPT ![i] = i]
  /\ Close(closing)
  /\ worker' = [worker EXCEPT ![i] = "ended"]
  /\ UNCHANGED <<leaf, cause, cancelled, pc, group, packed, result>>

loadCommitRef(i) ==
  /\ worker[i] = "commit"
  /\ Loaded(i, {}) \/ WorkerFails(i, Own(i))

openObject(i) ==
  /\ worker[i] = "get"
  /\ \/ Open(Response(i)) /\ Advance(i, "spool")
     \/ WorkerFails(i, Own(i))

NewDownload(i) ==
  /\ worker[i] = "spool"
  /\ \/ Open(Download(i)) /\ Advance(i, "copy")
     \/ WorkerFails(i, {Response(i)} \cup Own(i))

Copy(i) ==
  /\ worker[i] = "copy"
  /\ \/ Close({Response(i)}) /\ Advance(i, "decode")
     \/ WorkerFails(i, {Response(i), Download(i)} \cup Own(i))

\* Mutant: the records file is left to the caller.
HeldByDecodeLess(i) == {Download(i)}

HeldByDecode(i) == {Download(i)} \cup Own(i)

\* The records stay unpublished until the whole segment is validated.
decodeSegment(i) ==
  /\ worker[i] = "decode"
  /\ \/ i # 0 /\ Loaded(i, {Download(i)})
     \/ WorkerFails(i, HeldByDecode(i))
     \/ /\ i = 0
        /\ Close({Download(0), Body})
        /\ worker' = [worker EXCEPT ![0] = "ended"]
        /\ pc' = "returned" /\ result' = "ok"
        /\ UNCHANGED <<leaf, parts, cause, cancelled, group, packed>>

-----------------------------------------------------------------------------
(* createSegment                                                           *)

\* The file for the packed records; it is closed again if the encoder cannot be made.
NewBody ==
  /\ pc = "start"
  /\ \/ Open(Body) /\ pc' = "group" /\ result' = result
     \/ /\ pc' = "returned" /\ result' = "failed"
        /\ handle' \in {handle, [handle EXCEPT ![Body] = "closed"]}
  /\ UNCHANGED <<leaf, worker, parts, cause, cancelled, group, packed>>

\* The next group gets a context of its own, which is cancelled if the caller's is.
StartGroup ==
  /\ pc = "group" /\ group < Children
  /\ group' = group + GroupSize
  /\ worker' = [i \in Workers |-> IF i \in Group(group') THEN "temp" ELSE worker[i]]
  /\ cause' = IF cancelled THEN "cancelled" ELSE None
  /\ pc' = "load"
  /\ UNCHANGED <<leaf, handle, parts, cancelled, packed, result>>

\* Mutant: only the caller's context is looked at.
GroupFailedByCaller == cancelled

GroupFailed == cause # None

\* Mutant: the parts are waited for.
AllHaveParts == \A i \in Group(group) : parts[i] # Nil

AllEnded == \A i \in Group(group) : worker[i] = "ended"

WaitGroup ==
  /\ pc = "load" /\ AllEnded
  /\ IF GroupFailed
     THEN Return(cause)
     ELSE pc' = "consume" /\ UNCHANGED <<handle, result>>
  /\ UNCHANGED <<leaf, worker, parts, cause, cancelled, group, packed>>

Forget(i) == [parts EXCEPT ![i] = Nil]

CloseConsumed(i) == Close({Records(i)}) /\ parts' = Forget(i)

\* The records of the next part are written, and its file is closed.
Consume ==
  LET i == Len(packed) + 1
  IN /\ pc = "consume"
     /\ \/ /\ packed' = Append(packed, parts[i])
           /\ CloseConsumed(i)
           /\ pc' = IF i = group THEN "group" ELSE "consume"
           /\ result' = result
        \/ \E err \in Errors(FALSE) : Return(err) /\ UNCHANGED <<packed, parts>>
     /\ UNCHANGED <<leaf, worker, cause, cancelled, group>>

\* A part whose Close fails is not closed again.
ConsumeCloseFails ==
  LET i == Len(packed) + 1
  IN /\ pc = "consume"
     /\ packed' = Append(packed, parts[i])
     /\ parts' = Forget(i)
     /\ Close({Body} \cup {Records(j) : j \in {j \in DOMAIN parts : parts[j] # Nil}})
     /\ pc' = "returned" /\ result' = "failed"
     /\ UNCHANGED <<leaf, worker, cause, cancelled, group>>

\* The boundaries are checked and the encoder is closed.
FinishStream ==
  /\ pc = "group" /\ group = Children
  /\ \/ ~cancelled /\ pc' = "create" /\ UNCHANGED <<handle, result>>
     \/ \E err \in Errors(FALSE) : Return(err)
  /\ UNCHANGED <<leaf, worker, parts, cause, cancelled, group, packed>>

\* Unless Create succeeds, the aggregate that is there is read back.
createAggregate ==
  /\ pc = "create"
  /\ \/ Return("ok") /\ worker' = worker
     \/ cancelled /\ Return("cancelled") /\ worker' = worker
     \/ pc' = "readback" /\ worker' = [worker EXCEPT ![0] = "get"] /\ UNCHANGED <<handle, result>>
  /\ UNCHANGED <<leaf, parts, cause, cancelled, group, packed>>

WorkerStep(i) ==
  \/ NewRecordFile(i) \/ loadCommitRef(i) \/ openObject(i) \/ NewDownload(i) \/ Copy(i)
  \/ decodeSegment(i)

Main ==
  NewBody \/ StartGroup \/ WaitGroup \/ Consume \/ ConsumeCloseFails \/ FinishStream \/ createAggregate

SegmentNext == Main \/ Cancel \/ \E i \in Workers : WorkerStep(i)

\* Goroutines are scheduled, and the store and the file system answer.
SegmentSpec ==
  /\ SegmentInit /\ [][SegmentNext]_segmentVars
  /\ WF_segmentVars(Main)
  /\ \A i \in Workers : WF_segmentVars(WorkerStep(i))

-----------------------------------------------------------------------------
OpenHandles == {h \in Handles : handle[h] = "open"}

\* No file and no response body is closed twice, and none is left open when
\* createSegment returns, wherever one of several workers fails and whatever the
\* others hold at that moment (segment.go:61-124, 163-174, 209-225).  While one group
\* is fetched, the files of the others are closed (segment.go:187-188).
FilesAreClosedOnce ==
  /\ \A h \in Handles : handle[h] # "twice"
  /\ pc = "load" => \A h \in OpenHandles : h = Body \/ h[1] \in Group(group)
  /\ result # None => OpenHandles = {}

\* The segment that is created holds the records of every child, in order, and
\* never a part that was not loaded (segment.go:203-225).
PackedInOrder ==
  /\ \A k \in DOMAIN packed : packed[k] = k
  /\ pc \in {"create", "readback"} \/ result = "ok" => Len(packed) = Children

\* The workers that a failure cancels do not hide it: cancellation is reported only
\* when the caller has cancelled (segment.go:190-207).
CauseIsReported == result = "cancelled" => cancelled

\* createSegment returns (segment.go:157-247).
CreateSegmentReturns == <>(result # None)

=============================================================================
