---------------------------- MODULE Registration ----------------------------
(***************************************************************************)
(* State and AppendTo together: the username registration that the comment *)
(* of AppendTo describes and example_state_test.go spells out.  Each       *)
(* client keeps a State, decides on it, and appends against the snapshot   *)
(* it decided on.  The log is EventLog, which LokvLog implements: an       *)
(* AppendTo whose error leaves the outcome open may commit later.          *)
(***************************************************************************)
EXTENDS EventLog

CONSTANTS
  Clients, Names,
  MaxCalls,       \* bound on the operations of each client
  CarelessBatches \* batches that writers append without following the protocol

VARIABLES
  revision, value, err, target,  \* each client's State
  payload,  \* payload[i]: the batch of invocation i
  pc,       \* pc[c]: where client c stands
  want,     \* want[c]: the username to register, or none for a mere Sync
  inv,      \* inv[c]: c's AppendTo invocation, 0 before the first
  granted,  \* granted[n]: successful registrations of n, for the properties
  calls     \* calls[c]: operations begun

None == "none"

\* What a log of registrations holds.
Event == [name : Names, id : Nat]

\* 0 is no invocation and None no username; a writer that ignores the protocol
\* still appends events of the log's type.
ASSUME RegAssumption ==
  /\ 0 \notin IDs
  /\ MaxRevision \in Nat
  /\ None \notin Names
  /\ CarelessBatches \subseteq Seq(Event)

\* userIndex.apply: IDs are allocated in order and names are unique, so the index
\* is the sequence of the events.  Names holds no empty username, which register refuses
\* as apply does.
apply(idx, reg) ==
  /\ reg.id = Len(idx) + 1 /\ reg.id <= MaxRevision
  /\ \A k \in DOMAIN idx : idx[k].name # reg.name

INSTANCE State WITH Accepts <- apply

projections == <<revision, value, err, target>>
clientVars == <<pc, want, inv, granted, calls>>
regVars == <<abstractVars, projections, payload, clientVars>>

\* The batch at a revision.
Batch(r) == payload[log[r]]

\* Commit IDs are drawn in order: only their being new matters.
Fresh(i) == call[i].phase = "new" /\ \A j \in IDs : j < i => call[j].phase # "new"

\* The operation returns to the caller; each use names the result.
Return(c) ==
  /\ pc' = [pc EXCEPT ![c] = "idle"]
  /\ want' = [want EXCEPT ![c] = None]
  /\ inv' = [inv EXCEPT ![c] = 0]
  /\ UNCHANGED calls

Goto(c, stage) ==
  /\ pc' = [pc EXCEPT ![c] = stage]
  /\ UNCHANGED <<want, granted, calls>>

-----------------------------------------------------------------------------
\* register(name), or a Sync on a poll.
Begin(c) ==
  /\ pc[c] = "idle"
  /\ calls[c] < MaxCalls
  /\ \E n \in Names \cup {None} : want' = [want EXCEPT ![c] = n]
  /\ pc' = [pc EXCEPT ![c] = "sync"]
  /\ calls' = [calls EXCEPT ![c] = @ + 1]
  /\ UNCHANGED <<abstractVars, projections, payload, inv, granted>>

\* newUserClient: also how a process starts over after a crash or a poisoning.
newUserClient(c) ==
  /\ pc[c] = "idle"
  /\ calls[c] < MaxCalls
  /\ LoadState(c)
  /\ pc' = [pc EXCEPT ![c] = "sync"]
  /\ calls' = [calls EXCEPT ![c] = @ + 1]
  /\ UNCHANGED <<abstractVars, payload, want, inv, granted>>

\* The sticky error comes first, then LoadHead, then SyncTo the head.  A caller
\* that only follows the log may pass SyncTo any snapshot it kept instead.
Sync(c) ==
  /\ pc[c] = "sync"
  /\ \E snap \in IF want[c] = None THEN 0..Len(log) ELSE {Len(log)} :
       \/ /\ SyncTo(c, snap)
          /\ Goto(c, "scan")
          /\ UNCHANGED inv
       \/ /\ Poisoned(c)
          /\ Return(c)  \* Err
          /\ UNCHANGED <<projections, granted>>
       \/ /\ ~Poisoned(c)
          /\ snap < revision[c]
          /\ Return(c)  \* ErrRange
          /\ UNCHANGED <<projections, granted>>
  /\ UNCHANGED <<abstractVars, payload>>

\* Scan delivers the next batch.
Deliver(c) ==
  /\ pc[c] \in {"scan", "catchup"}
  /\ revision[c] < target[c]
  /\ ApplyBatch(c, Batch(revision[c] + 1))
  /\ IF err'[c] = <<>>
     THEN UNCHANGED clientVars
     ELSE Return(c) /\ UNCHANGED granted
  /\ UNCHANGED <<abstractVars, payload>>

Taken(idx, name) == \E k \in DOMAIN idx : idx[k].name = name

\* AppendTo on the snapshot that Sync returned, with the next ID.
AppendTo(c, i) ==
  /\ Fresh(i)
  /\ Invoke(i)
  /\ call'[i].kind = "AppendTo"
  /\ call'[i].since = target[c]
  /\ call'[i].phase = "open"
  /\ payload' = [payload EXCEPT ![i] = <<[name |-> want[c], id |-> Len(value[c]) + 1]>>]
  /\ inv' = [inv EXCEPT ![c] = i]
  /\ Goto(c, "append")

\* The decision of register, on the projection that matches the snapshot.
Decide(c) ==
  /\ pc[c] = "scan"
  /\ revision[c] = target[c]
  /\ \/ /\ want[c] = None
        /\ Return(c)  \* nil
        /\ UNCHANGED <<abstractVars, payload, granted>>
     \/ /\ want[c] # None
        /\ Taken(value[c], want[c])
        /\ Return(c)  \* errUsernameTaken
        /\ UNCHANGED <<abstractVars, payload, granted>>
     \/ /\ want[c] # None
        /\ ~Taken(value[c], want[c])
        /\ target[c] = MaxRevision \/ Len(value[c]) >= MaxRevision
        /\ Return(c)  \* ErrExhausted, or no ID is left
        /\ UNCHANGED <<abstractVars, payload, granted>>
     \/ /\ want[c] # None
        /\ ~Taken(value[c], want[c])
        /\ target[c] < MaxRevision /\ Len(value[c]) < MaxRevision
        /\ \E i \in IDs : AppendTo(c, i)
  /\ UNCHANGED projections

\* Mutant: a conflict is followed by another AppendTo of the same decision on the
\* new head.
AppendReturnsRetry(c) ==
  LET i == inv[c]
  IN /\ pc[c] = "append"
     /\ \/ /\ ReturnOk(i) \/ (CommitBatch(i) /\ call'[i].phase = "ok")
           /\ SyncTo(c, call'[i].revision)
           /\ Goto(c, "catchup")
           /\ UNCHANGED <<inv, payload>>
        \/ /\ \E j \in IDs :
                 /\ Fresh(j)
                 /\ Len(log) > call[i].since
                 /\ Invoke(j)
                 /\ call'[j] = [call[i] EXCEPT !.since = Len(log)]
                 /\ payload' = [payload EXCEPT ![j] = payload[i]]
                 /\ inv' = [inv EXCEPT ![c] = j]
           /\ Goto(c, "append")
           /\ UNCHANGED projections

\* Mutant: a conflict is taken for success.
AppendReturnsIgnoring(c) ==
  LET i == inv[c]
  IN /\ pc[c] = "append"
     /\ \/ /\ ReturnOk(i) \/ (CommitBatch(i) /\ call'[i].phase = "ok")
           /\ SyncTo(c, call'[i].revision)
        \/ /\ ReturnConflict(i)
           /\ UNCHANGED projections
     /\ Goto(c, "catchup")
     /\ UNCHANGED <<inv, payload>>

\* Mutant: a conflict is no reason to give up the snapshot, and register keeps on
\* appending to it.
AppendReturnsStale(c) ==
  LET i == inv[c]
  IN /\ pc[c] = "append"
     /\ ReturnOk(i) \/ (CommitBatch(i) /\ call'[i].phase = "ok")
     /\ SyncTo(c, call'[i].revision)
     /\ Goto(c, "catchup")
     /\ UNCHANGED <<inv, payload>>

\* AppendTo returns.  After a conflict register catches up and decides again.
AppendReturns(c) ==
  LET i == inv[c]
  IN /\ pc[c] = "append"
     /\ \/ /\ ReturnOk(i) \/ (CommitBatch(i) /\ call'[i].phase = "ok")
           /\ SyncTo(c, call'[i].revision)
           /\ Goto(c, "catchup")
        \/ /\ ReturnConflict(i)
           /\ Goto(c, "sync")
           /\ UNCHANGED projections
     /\ UNCHANGED <<inv, payload>>

\* SyncTo of the new snapshot has succeeded.
Registered(c) ==
  /\ pc[c] = "catchup"
  /\ revision[c] = target[c]
  /\ Return(c)  \* nil
  /\ granted' = [granted EXCEPT ![want[c]] = @ + 1]
  /\ UNCHANGED <<abstractVars, projections, payload>>

\* A store error or a cancelled context.  The State stays usable, and an AppendTo
\* may have committed or may still do so.
Interrupt(c) ==
  /\ pc[c] # "idle"
  /\ IF pc[c] = "append" THEN ReturnUnknown(inv[c]) ELSE UNCHANGED abstractVars
  /\ Return(c)  \* the error
  /\ UNCHANGED <<projections, payload, granted>>

\* The batch of an invocation enters the log, before its call returns or later.
Commits(i) ==
  /\ CommitBatch(i)
  /\ call' = call
  /\ UNCHANGED <<projections, payload, clientVars>>

\* A writer that does not follow the protocol calls Append.
CarelessAppend(i) ==
  /\ Fresh(i)
  /\ Invoke(i)
  /\ call'[i].kind = "Append"
  /\ call'[i].phase = "open"
  /\ \E batch \in CarelessBatches : payload' = [payload EXCEPT ![i] = batch]
  /\ UNCHANGED <<projections, clientVars>>

RegInit ==
  /\ AbstractInit
  /\ StateInit
  /\ payload = [i \in IDs |-> <<>>]
  /\ pc = [c \in Clients |-> "idle"]
  /\ want = [c \in Clients |-> None]
  /\ inv = [c \in Clients |-> 0]
  /\ granted = [n \in Names |-> 0]
  /\ calls = [c \in Clients |-> 0]

ClientStep(c) ==
  Sync(c) \/ Deliver(c) \/ Decide(c) \/ AppendReturns(c) \/ Registered(c)

RegNext ==
  \/ \E c \in Clients : Begin(c) \/ newUserClient(c) \/ ClientStep(c) \/ Interrupt(c)
  \/ \E i \in IDs : Commits(i) \/ CarelessAppend(i)

\* A client's goroutine keeps running, and its AppendTo returns.
RegSpec == RegInit /\ [][RegNext]_regVars /\ \A c \in Clients : WF_regVars(ClientStep(c))

-----------------------------------------------------------------------------
\* The events of the log up to a revision, in the order of Scan.
Events(r) == FlattenSeq([k \in 1..r |-> Batch(k)])

\* A usable State is exactly the fold of the log up to its revision, however its
\* syncs were interrupted and resumed: no batch is applied twice, in part, or left
\* out (state.go:22-28, 139-150).
ProjectionMatches ==
  \A c \in Clients : ~Poisoned(c) => value[c] = Events(revision[c])

\* After an apply error the State never changes again and no event is applied to
\* it, until the client discards it (Err, state.go:78-81).
PoisonIsFinal ==
  [][\A c \in Clients : Poisoned(c) /\ Poisoned(c)' =>
        value'[c] = value[c] /\ revision'[c] = revision[c] /\ err'[c] = err[c]]_regVars

\* No name and no ID is ever registered twice, although clients decide on local
\* projections and appends may land late.
UniqueNames ==
  \A r, q \in DOMAIN log : \A x \in Range(Batch(r)), y \in Range(Batch(q)) :
     x.name = y.name \/ x.id = y.id => r = q

\* As long as all writers follow the protocol no State is poisoned.
NeverPoisoned == \A c \in Clients : ~Poisoned(c)

\* register succeeds at most once for each name, and then the name is in the log.
AnswersAreTrue ==
  /\ \A n \in Names : granted[n] <= 1
  /\ \A n \in Names : granted[n] = 1 => Taken(Events(Len(log)), n)

\* Every register and Sync returns: clients do not keep each other in conflict.
RegisterReturns == \A c \in Clients : pc[c] # "idle" ~> pc[c] = "idle"

=============================================================================
