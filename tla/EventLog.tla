------------------------------ MODULE EventLog ------------------------------
(***************************************************************************)
(* What lokv promises the callers of Append and AppendTo (the comments of  *)
(* log.go and DESIGN.md sections 9 and 11), without stores, frontiers or   *)
(* segments: a log is a sequence of batches, a batch enters it in one step *)
(* at its end, at most once, and the result of a call tells what became of *)
(* its batch.  Only an error that leaves the outcome open ("unknown") may  *)
(* be followed by the batch's appearance in the log.                       *)
(***************************************************************************)
EXTENDS Integers, Sequences

CONSTANTS IDs, MaxRevision, MaxRetries

VARIABLES
  log,   \* the batches in the order of their revisions
  call   \* call[i]: the invocation with commit ID i

abstractVars == <<log, call>>

Appended(i) == \E r \in DOMAIN log : log[r] = i

Idle == [phase |-> "new", kind |-> "none", since |-> 0, revision |-> 0]

Finish(i, phase, r) ==
  call' = [call EXCEPT ![i].phase = phase, ![i].revision = r]

\* A call begins, or ends at once: turned down, or with an error.
Invoke(i) ==
  /\ call[i].phase = "new"
  /\ \E k \in {"Append", "AppendTo"}, s \in 0..Len(log),
        phase \in {"open", "rejected", "exhausted", "unknown"} :
        /\ k = "Append" => s = Len(log)
        /\ phase = "exhausted" => k = "AppendTo" /\ s = MaxRevision
        /\ call' = [call EXCEPT ![i] =
                      [phase |-> phase, kind |-> k, since |-> s, revision |-> 0]]
  /\ log' = log

\* The batch enters the log.  Its call may return in the same step, later, or
\* may have ended without knowing.
CommitBatch(i) ==
  /\ call[i].phase \in {"open", "unknown"}
  /\ ~Appended(i)
  /\ Len(log) < MaxRevision
  /\ call[i].kind = "AppendTo" => Len(log) = call[i].since
  /\ log' = Append(log, i)
  /\ \/ call' = call
     \/ call[i].phase = "open" /\ Finish(i, "ok", Len(log) + 1)

ReturnOk(i) ==
  /\ call[i].phase = "open"
  /\ \E r \in DOMAIN log : log[r] = i /\ Finish(i, "ok", r)
  /\ log' = log

\* ErrConflict: the base is no longer the head, or Append lost every race.
ReturnConflict(i) ==
  /\ call[i].phase = "open"
  /\ ~Appended(i)
  /\ \/ call[i].kind = "AppendTo" /\ Len(log) > call[i].since
     \/ call[i].kind = "Append" /\ Len(log) >= call[i].since + MaxRetries + 1
  /\ Finish(i, "conflict", 0)
  /\ log' = log

ReturnExhausted(i) ==
  /\ call[i].phase = "open"
  /\ ~Appended(i)
  /\ Len(log) = MaxRevision
  /\ Finish(i, "exhausted", 0)
  /\ log' = log

ReturnUnknown(i) ==
  /\ call[i].phase = "open"
  /\ Finish(i, "unknown", 0)
  /\ log' = log

AbstractInit ==
  /\ log = <<>>
  /\ call = [i \in IDs |-> Idle]

AbstractNext ==
  \E i \in IDs :
     \/ Invoke(i) \/ CommitBatch(i)
     \/ ReturnOk(i) \/ ReturnConflict(i) \/ ReturnExhausted(i)
     \/ ReturnUnknown(i)

AbstractSpec == AbstractInit /\ [][AbstractNext]_abstractVars

=============================================================================
