------------------------------- MODULE State --------------------------------
(***************************************************************************)
(* State[T, S] (state.go): a client's projection of the log, brought up to *)
(* date by Sync and SyncTo.  The application value is modelled by the      *)
(* sequence of the events applied to it, which determines any S.           *)
(*                                                                         *)
(* Scan delivers the batches after the applied revision one by one; the    *)
(* context is observed between batches and never inside one, so applying a *)
(* batch is one step.                                                      *)
(***************************************************************************)
EXTENDS Integers, SequencesExt

CONSTANTS
  Clients,
  Accepts(_, _)  \* Accepts(v, e): apply returns nil for event e on value v

VARIABLES
  revision,  \* revision[c]: the last fully applied batch
  value,     \* value[c]: the events applied
  err,       \* err[c]: the sticky apply error, <<>> or <<revision, item>>
  target     \* target[c]: the revision of the snapshot c is syncing to

stateVars == <<revision, value, err, target>>

StateInit ==
  /\ revision = [c \in Clients |-> 0]
  /\ value = [c \in Clients |-> <<>>]
  /\ err = [c \in Clients |-> <<>>]
  /\ target = [c \in Clients |-> 0]

\* A client builds a new State on the empty value, whatever became of its old one.
LoadState(c) ==
  /\ revision' = [revision EXCEPT ![c] = 0]
  /\ value' = [value EXCEPT ![c] = <<>>]
  /\ err' = [err EXCEPT ![c] = <<>>]
  /\ target' = [target EXCEPT ![c] = 0]

Poisoned(c) == err[c] # <<>>

\* Mutant: the sticky error is not looked at.
SyncToAnyway(c, snap) ==
  /\ snap >= revision[c]
  /\ target' = [target EXCEPT ![c] = snap]
  /\ UNCHANGED <<revision, value, err>>

\* SyncTo, up to the first batch: the snapshot is not behind the projection.
SyncTo(c, snap) ==
  /\ ~Poisoned(c)
  /\ snap >= revision[c]
  /\ target' = [target EXCEPT ![c] = snap]
  /\ UNCHANGED <<revision, value, err>>

\* The number of leading events of a batch that apply accepts.
AcceptedPrefix(v, batch) ==
  Max({k \in 0..Len(batch) :
         \A j \in 1..k : Accepts(v \o SubSeq(batch, 1, j - 1), batch[j])})

\* Mutant: the applied revision is the snapshot's as soon as a batch succeeds.
ApplyBatchEager(c, batch) ==
  LET n == AcceptedPrefix(value[c], batch)
  IN /\ revision[c] < target[c]
     /\ value' = [value EXCEPT ![c] = @ \o SubSeq(batch, 1, n)]
     /\ IF n = Len(batch)
        THEN revision' = [revision EXCEPT ![c] = target[c]] /\ err' = err
        ELSE err' = [err EXCEPT ![c] = <<revision[c] + 1, n + 1>>] /\ revision' = revision
     /\ target' = target

\* The callback of SyncTo for the next batch.  Events before the first failure
\* stay applied, and the failure poisons the State.
ApplyBatch(c, batch) ==
  LET n == AcceptedPrefix(value[c], batch)
  IN /\ revision[c] < target[c]
     /\ value' = [value EXCEPT ![c] = @ \o SubSeq(batch, 1, n)]
     /\ IF n = Len(batch)
        THEN revision' = [revision EXCEPT ![c] = @ + 1] /\ err' = err
        ELSE err' = [err EXCEPT ![c] = <<revision[c] + 1, n + 1>>] /\ revision' = revision
     /\ target' = target

=============================================================================
