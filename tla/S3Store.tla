------------------------------ MODULE S3Store -------------------------------
(***************************************************************************)
(* s3store: Create of one key by conditional PutObject or by a multipart   *)
(* upload (s3store.go, multipart.go), for calls that race for the key.     *)
(*                                                                         *)
(* S3 is modelled from its use: a conditional write takes effect at most   *)
(* once, and the answer to it may be lost or come before its effect; an    *)
(* upload lives until it is completed or aborted.  The SDK repeats a       *)
(* request whose answer was lost, so a call may meet its own object, and   *)
(* one call of CreateMultipartUpload may initiate several uploads, of      *)
(* which it learns at most one.                                            *)
(***************************************************************************)
EXTENDS Integers, FiniteSetsExt

CONSTANTS
  Calls,
  Sizes,    \* possible sizes of the values, in bytes
  multipartThreshold, multipartPartSize,
  minPartSize, maxPartSize, maxParts,
  uploadConcurrency,
  retries,  \* of a request that is answered with 409
  MaxLate   \* bound on the requests under way without a caller

None == "none"
Key == "key"
Absent == [by |-> None, bytes |-> {}]
NoUpload == <<>>  \* of a PutObject
Lost == -1        \* in the place of the attempt: uploads whose ID no answer brought

ASSUME S3Assumption ==
  /\ Calls # {} /\ None \notin Calls
  /\ Sizes \subseteq Nat
  /\ multipartThreshold \in Nat
  /\ minPartSize \in Nat \ {0} /\ maxParts \in Nat \ {0} /\ uploadConcurrency \in Nat \ {0}
  /\ multipartPartSize \in Nat /\ maxPartSize \in Nat
  /\ multipartPartSize <= maxPartSize /\ minPartSize <= maxPartSize
  /\ retries \in Nat

VARIABLES
  object,   \* the object under the key, or Absent
  uploads,  \* the uploads that live: pairs <<c, attempt>>, and <<c, Lost>> for the lost ones
  late,     \* requests whose answer was an error, still under way
  call,     \* call[c]: the variables of Create
  answer

s3Vars == <<object, uploads, late, call, answer>>

-----------------------------------------------------------------------------
(* The parts of a value.                                                   *)

TooLarge(size) == size > maxParts * maxPartSize

partSize(size) ==
  Max({minPartSize, multipartPartSize, (size + maxParts - 1) \div maxParts})

PartCount(size) == (size + partSize(size) - 1) \div partSize(size)

\* The bytes of part i, the first one being part 0.
PartBytes(size, i) ==
  LET offset == i * partSize(size)
  IN offset..(offset + Min({partSize(size), size - offset}) - 1)

-----------------------------------------------------------------------------
(* S3                                                                      *)

CanTakeEffect(req) == object = Absent /\ (req.upload = NoUpload \/ req.upload \in uploads)

TakeEffect(req) ==
  /\ CanTakeEffect(req)
  /\ object' = [by |-> req.by, bytes |-> req.bytes]
  /\ uploads' = uploads \ {req.upload}

\* A conditional PutObject or CompleteMultipartUpload and its answer.
Send(req, resp) ==
  \/ /\ resp \in {"ok", "412", "error"}
     /\ TakeEffect(req)
     /\ late' = late
  \/ /\ resp = "412" => object # Absent
     /\ resp \in {"412", "409", "error"}
     /\ UNCHANGED <<object, uploads, late>>
  \/ /\ resp \in {"409", "error"}
     /\ CanTakeEffect(req)
     /\ Cardinality(late) < MaxLate
     /\ late' = late \cup {req}
     /\ UNCHANGED <<object, uploads>>

\* A request nobody waits for any more reaches S3.
Land ==
  \E req \in late :
     /\ TakeEffect(req) \/ (~CanTakeEffect(req) /\ UNCHANGED <<object, uploads>>)
     /\ late' = late \ {req}
     /\ UNCHANGED <<call, answer>>

-----------------------------------------------------------------------------
(* Create                                                                  *)

S3Init ==
  /\ object = Absent
  /\ uploads = {}
  /\ late = {}
  /\ call \in [Calls -> [pc : {"start"}, size : Sizes, attempt : {0}, worker : {<<>>}, parts : {{}},
                         failed : {FALSE}, err : {None}, retry : {FALSE},
                         cancelled : {FALSE}, reported : {FALSE}]]
  /\ answer = [c \in Calls |-> None]

Set(c, state) == call' = [call EXCEPT ![c] = state]
Goto(c, stage) == Set(c, [call[c] EXCEPT !.pc = stage])

Return(c, err) ==
  /\ Goto(c, "done")
  /\ answer' = [answer EXCEPT ![c] = err]

\* The first request of an attempt.
FirstRequest(size) == IF size > multipartThreshold THEN "initiate" ELSE "put"

Start(c) ==
  /\ call[c].pc = "start"
  /\ IF call[c].size > multipartThreshold /\ TooLarge(call[c].size)
     THEN Return(c, "error")
     ELSE Goto(c, FirstRequest(call[c].size)) /\ answer' = answer
  /\ UNCHANGED <<object, uploads, late>>

Cancel(c) ==
  /\ call[c].pc # "done" /\ ~call[c].cancelled
  /\ Set(c, [call[c] EXCEPT !.cancelled = TRUE])
  /\ UNCHANGED <<object, uploads, late, answer>>

\* The loops and the wait between attempts return once the context is cancelled.
ReturnCancelled(c) ==
  /\ call[c].pc \in {"start", "put", "initiate", "wait"} /\ call[c].cancelled
  /\ Return(c, "error")
  /\ UNCHANGED <<object, uploads, late>>

RetriesLeft(c) == call[c].attempt < retries

\* Mutant: a conflict is taken for a precondition that failed.
createErrConflict(resp) == CASE resp = "ok" -> "ok" [] resp = "error" -> "error" [] OTHER -> "exists"

createErr(resp) == CASE resp = "ok" -> "ok" [] resp = "412" -> "exists" [] OTHER -> "error"

PutObject(c) ==
  /\ call[c].pc = "put" /\ ~call[c].cancelled
  /\ \E resp \in {"ok", "412", "409", "error"} :
       /\ Send([by |-> c, upload |-> NoUpload, bytes |-> 0..(call[c].size - 1)], resp)
       /\ IF resp = "409" /\ RetriesLeft(c)
          THEN Goto(c, "wait") /\ answer' = answer
          ELSE Return(c, createErr(resp))

\* Mutant: the attempts are not counted.
NextAttemptSame(attempt) == attempt

NextAttempt(attempt) == attempt + 1

waitConflict(c) ==
  /\ call[c].pc = "wait"
  /\ Set(c, [call[c] EXCEPT !.pc = FirstRequest(call[c].size), !.attempt = NextAttempt(@)])
  /\ UNCHANGED <<object, uploads, late, answer>>

-----------------------------------------------------------------------------
(* multipartAttempt                                                        *)

Upload(c) == <<c, call[c].attempt>>

Stranded(c) == <<c, Lost>>

\* An answer that is lost leaves an upload whose ID nobody knows, whether the SDK's
\* next request succeeds or it gives up.
CreateMultipartUpload(c) ==
  /\ call[c].pc = "initiate" /\ ~call[c].cancelled
  /\ \/ /\ uploads' \in {uploads \cup {Upload(c)}, uploads \cup {Upload(c), Stranded(c)}}
        /\ Set(c, [call[c] EXCEPT !.pc = "upload", !.parts = {}, !.failed = FALSE,
                                  !.worker = [k \in 0..(uploadConcurrency - 1) |-> k]])
        /\ answer' = answer
     \/ /\ uploads' \in {uploads, uploads \cup {Stranded(c)}}
        /\ Return(c, "error")
  /\ UNCHANGED <<object, late>>

\* Worker k uploads its next part; the first failure cancels the others.
UploadPart(c, k) ==
  LET i == call[c].worker[k]
  IN /\ call[c].pc = "upload" /\ ~call[c].failed /\ ~call[c].cancelled
     /\ i < PartCount(call[c].size)
     /\ \/ Set(c, [call[c] EXCEPT !.parts = @ \cup {i}, !.worker[k] = @ + uploadConcurrency])
        \/ Set(c, [call[c] EXCEPT !.failed = TRUE])
     /\ UNCHANGED <<object, uploads, late, answer>>

\* Mutant: the workers' failures are not looked at.
UploadFailedNever(state) == FALSE

\* context.Cause is a worker's failure, or the cancellation of the caller.
UploadFailed(state) == state.failed \/ state.cancelled

\* wg.Wait: each worker has no part left, or finds its context cancelled.
JoinWorkers(c) ==
  /\ call[c].pc = "upload"
  /\ \/ call[c].failed \/ call[c].cancelled
     \/ \A k \in DOMAIN call[c].worker : call[c].worker[k] >= PartCount(call[c].size)
  /\ Set(c, IF UploadFailed(call[c])
            THEN [call[c] EXCEPT !.pc = "abort", !.err = "error", !.retry = FALSE]
            ELSE [call[c] EXCEPT !.pc = "complete"])
  /\ UNCHANGED <<object, uploads, late, answer>>

CompleteMultipartUpload(c) ==
  /\ call[c].pc = "complete"
  /\ \E resp \in {"ok", "412", "409", "error"} :
       /\ Send([by |-> c, upload |-> Upload(c),
                bytes |-> UNION {PartBytes(call[c].size, i) : i \in call[c].parts}], resp)
       /\ IF resp = "ok"
          THEN Return(c, "ok")
          ELSE /\ Set(c, [call[c] EXCEPT !.pc = "abort", !.retry = (resp = "409"),
                                         !.err = createErr(resp)])
               /\ answer' = answer

\* Mutant: a failed abort lets the next attempt begin.
RetryAfterAbortAnyway(state, aborted) == state.retry

RetryAfterAbort(state, aborted) == state.retry /\ aborted

\* The deferred cleanup, in a context of its own.  NoSuchUpload counts as done.
AbortMultipartUpload(c) ==
  /\ call[c].pc = "abort"
  /\ \E aborted \in BOOLEAN :
       /\ uploads' \in IF aborted THEN {uploads \ {Upload(c)}} ELSE {uploads, uploads \ {Upload(c)}}
       /\ LET again == RetryAfterAbort(call[c], aborted) /\ RetriesLeft(c)
          IN /\ Set(c, [call[c] EXCEPT !.pc = IF again THEN "wait" ELSE "done",
                                       !.reported = ~aborted])
             /\ answer' = IF again THEN answer ELSE [answer EXCEPT ![c] = call[c].err]
  /\ UNCHANGED <<object, late>>

\* A step of Create.
Step(c) ==
  \/ Start(c) \/ ReturnCancelled(c) \/ PutObject(c) \/ waitConflict(c)
  \/ CreateMultipartUpload(c) \/ JoinWorkers(c) \/ CompleteMultipartUpload(c)
  \/ AbortMultipartUpload(c)
  \/ \E k \in 0..(uploadConcurrency - 1) : UploadPart(c, k)

S3Next == Land \/ \E c \in Calls : Step(c) \/ Cancel(c)

S3Spec == S3Init /\ [][S3Next]_s3Vars

\* Every request is answered at some time, and the timer of the wait fires.
S3FairSpec == S3Spec /\ \A c \in Calls : WF_s3Vars(Step(c))

-----------------------------------------------------------------------------
\* What is published is a call's complete value, although parts are uploaded by
\* several workers that fail and are cancelled independently (store.go:44-49,
\* multipart.go:105-142).  It came in parts that keep S3's limits on their number
\* and sizes (multipart.go:28-35).
ObjectIsWhole ==
  object # Absent =>
     LET size == call[object.by].size
         n == PartCount(size)
     IN /\ object.bytes = 0..(size - 1)
        /\ size > multipartThreshold =>
             /\ n <= maxParts
             /\ \A i \in 0..(n - 1) :
                   Cardinality(PartBytes(size, i)) \in (IF i = n - 1 THEN 1 ELSE minPartSize)..maxPartSize

\* Of the uploads whose ID a call was told at most one is alive at any time, also between
\* attempts, and it is left behind when Create returns only if the error says that its
\* abort has failed: cancellation does not prevent the cleanup (s3store.go:178-180,
\* multipart.go:69-85).  Uploads stranded by a lost answer to their initiation, which
\* doc.go:38-41 leaves to a lifecycle rule, are alive beside it.
UploadsAreCleanedUp ==
  \A c \in Calls :
     LET told == {u \in uploads : u[1] = c} \ {Stranded(c)}
     IN /\ Cardinality(told) <= 1
        /\ answer[c] # None /\ told # {} => call[c].reported /\ answer[c] # "ok"

\* Create returns, whatever S3 answers and however often (s3store.go:172-176).
CreateReturns == \A c \in Calls : <>(answer[c] # None)

\* Calls that race for the key by either kind of upload have one winner; nil is
\* returned to no other, and a request under way after its call has returned
\* overwrites nothing (store.go:44-50, s3store.go:172-182).
Contract ==
  INSTANCE StoreContract
    WITH KeyOf <- [c \in Calls |-> Key],
         holder <- [k \in {Key} |-> object.by]

ImplementsContract == Contract!ContractSpec

=============================================================================
