--------------------------- MODULE LogRefinement ----------------------------
(***************************************************************************)
(* The protocol of LokvLog implements EventLog: the log is what the store  *)
(* holds under the log keys, and the store's Create of a commit (or the    *)
(* late landing of its PUT) is the step at which a batch enters it.        *)
(***************************************************************************)
EXTENDS LogInvariant

\* The phase of an invocation as its caller knows it: an error that is neither
\* ErrConflict nor ErrExhausted nor about the batch leaves the outcome open.
Phase(i) ==
  CASE pc[i] = "unused" -> "new"
    [] pc[i] = "returned" ->
         IF out[i].result \in {"failed", "corrupt"} THEN "unknown" ELSE out[i].result
    [] OTHER -> "open"

Batches == [r \in 1..HeadRevision |-> Logged(r).id]

Calls ==
  [i \in IDs |->
     [phase |-> Phase(i), kind |-> kind[i], since |-> since[i],
      revision |-> IF out[i].result = "ok" THEN out[i].revision ELSE 0]]

Abstract == INSTANCE EventLog WITH log <- Batches, call <- Calls

\* Append and AppendTo do nothing that EventLog does not allow: commits happen in
\* one step at the end of the log, at most once per invocation, on the base the
\* caller chose, and every result tells the truth.
ImplementsEventLog == Abstract!AbstractSpec

=============================================================================
