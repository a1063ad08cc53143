------------------------- MODULE RegistrationProofs -------------------------
(***************************************************************************)
(* Proofs about State and the registration protocol, for any number of     *)
(* clients, names, invocations and revisions.  The first part holds        *)
(* whatever other writers append; the second one when all writers follow   *)
(* the protocol.                                                           *)
(***************************************************************************)
EXTENDS Registration, SequenceLemmas

-----------------------------------------------------------------------------
(* The inductive invariant, whatever other writers append. *)

Phases == {"new", "open", "ok", "conflict", "exhausted", "rejected", "unknown"}
Kinds == {"none", "Append", "AppendTo"}
CallRecords == [phase : Phases, kind : Kinds, since : Nat, revision : Nat]

LogTypeOK ==
  /\ log \in Seq(IDs) /\ Len(log) <= MaxRevision
  /\ call \in [IDs -> CallRecords]
  /\ payload \in [IDs -> Seq(Event)]

ClientTypeOK ==
  /\ revision \in [Clients -> Nat]
  /\ target \in [Clients -> Nat]
  /\ value = [c \in Clients |-> value[c]]
  /\ err = [c \in Clients |-> err[c]]
  /\ pc \in [Clients -> {"idle", "sync", "scan", "append", "catchup"}]
  /\ want \in [Clients -> Names \cup {None}]
  /\ inv \in [Clients -> IDs \cup {0}]
  /\ granted \in [Names -> Nat]

\* A batch in the log was invoked, so its payload never changes again.
LoggedOK == \A r \in DOMAIN log : call[log[r]].phase # "new"

\* A projection is not ahead of the snapshot it is synced to, nor that of the log.
SyncsOK == \A c \in Clients : revision[c] <= target[c] /\ target[c] <= Len(log)

\* A poisoned State is never being synced, and a pending append has an invocation.
StagesOK ==
  \A c \in Clients :
     /\ pc[c] \in {"scan", "catchup"} => ~Poisoned(c)
     /\ pc[c] \in {"append", "catchup"} => inv[c] \in IDs

RegInv ==
  /\ LogTypeOK
  /\ ClientTypeOK
  /\ LoggedOK
  /\ SyncsOK
  /\ StagesOK
  /\ ProjectionMatches

\* What a step does to the log: it only grows, by batches invoked before, and what
\* was invoked keeps its kind, its base and its batch.
LogGrows ==
  /\ LogTypeOK'
  /\ Len(log) <= Len(log')
  /\ \A k \in 1..Len(log) : log'[k] = log[k]
  /\ \A i \in IDs : call[i].phase # "new" =>
        /\ call'[i].phase # "new"
        /\ call'[i].kind = call[i].kind
        /\ call'[i].since = call[i].since
        /\ payload'[i] = payload[i]
  /\ \A k \in DOMAIN log' :
        \/ k \in 1..Len(log)
        \/ /\ k = Len(log) + 1
           /\ call[log'[k]].phase # "new"
           /\ call[log'[k]].kind = "AppendTo" => call[log'[k]].since = Len(log)

\* No event precedes the first revision.
LEMMA EventsZero == Events(0) = <<>>
  BY DEF Events, FlattenSeq

\* The events up to a revision of the log are a sequence of events.
LEMMA EventsType ==
  ASSUME LogTypeOK, NEW r \in 0..Len(log)
  PROVE  Events(r) \in Seq(Event)
  <1> DEFINE ss == [k \in 1..r |-> Batch(k)]
  <1>1. \A k \in 1..r : Batch(k) \in Seq(Event)
    BY DEF LogTypeOK, Batch
  <1>2. ss \in Seq(Seq(Event))
    <2> DEFINE S == Seq(Event)
    <2>1. \A k \in 1..r : Batch(k) \in S
      BY <1>1
    <2> HIDE DEF S
    <2>2. r \in Nat
      BY DEF LogTypeOK
    <2>3. ss \in Seq(S)
      BY <2>1, <2>2
    <2> QED BY <2>3 DEF S
  <1> HIDE DEF ss
  <1>3. FlattenSeq(ss) \in Seq(Event)
    BY <1>2, FlattenType
  <1> QED BY <1>3 DEF Events, ss

\* The events up to the next revision are those so far, followed by its batch.
LEMMA EventsStep ==
  ASSUME LogTypeOK, NEW r \in Nat, r + 1 <= Len(log)
  PROVE  Events(r + 1) = Events(r) \o Batch(r + 1)
  <1> DEFINE ss == [k \in 1..r |-> Batch(k)]
             tt == [k \in 1..(r + 1) |-> Batch(k)]
             S == Seq(Event)
  <1>1. \A k \in 1..(r + 1) : Batch(k) \in S
    BY DEF LogTypeOK, Batch
  <1> HIDE DEF S
  <1>2. ss \in Seq(S) /\ tt \in Seq(S)
    BY <1>1
  <1>3. Len(ss) = r /\ Len(tt) = r + 1 /\ \A k \in 1..r : ss[k] = tt[k]
    OBVIOUS
  <1>4. tt[r + 1] = Batch(r + 1)
    OBVIOUS
  <1>5. Events(r + 1) = FlattenSeq(tt) /\ Events(r) = FlattenSeq(ss)
    BY DEF Events
  <1> HIDE DEF ss, tt
  <1>6. ss \in Seq(Seq(Event)) /\ tt \in Seq(Seq(Event))
    BY <1>2 DEF S
  <1>7. FlattenSeq(tt) = FlattenSeq(ss) \o tt[r + 1]
    BY <1>3, <1>6, FlattenStep
  <1> QED BY <1>4, <1>5, <1>7

\* Operations on the log let it grow as LogGrows says.
LEMMA IdleGrows ==
  ASSUME RegInv, UNCHANGED <<log, call, payload>>
  PROVE  LogGrows
  BY DEF RegInv, LogTypeOK, LogGrows

\* The record of a call after it ended.
LEMMA FinishType ==
  ASSUME LogTypeOK, NEW i \in IDs, NEW phase \in Phases, NEW r \in Nat,
         Finish(i, phase, r)
  PROVE  /\ call' \in [IDs -> CallRecords]
         /\ call'[i].phase = phase
         /\ call'[i].revision = r
         /\ call'[i].kind = call[i].kind
         /\ call'[i].since = call[i].since
         /\ \A j \in IDs : j # i => call'[j] = call[j]
  <1> DEFINE old == call[i]
             new == [old EXCEPT !.phase = phase, !.revision = r]
  <1>1. old \in CallRecords
    BY DEF LogTypeOK
  <1> HIDE DEF old
  <1>2. new \in CallRecords /\ new.phase = phase /\ new.revision = r
        /\ new.kind = old.kind /\ new.since = old.since
    BY <1>1 DEF CallRecords
  <1>3. call' = [call EXCEPT ![i] = new]
    BY DEF LogTypeOK, Finish, old
  <1> HIDE DEF new
  <1>4. call' \in [IDs -> CallRecords] /\ call'[i] = new
        /\ \A j \in IDs : j # i => call'[j] = call[j]
    BY <1>2, <1>3 DEF LogTypeOK
  <1> QED BY <1>2, <1>4 DEF old

\* A call that ends leaves the log as it is.
LEMMA FinishGrows ==
  ASSUME RegInv, NEW i \in IDs, NEW phase \in Phases, NEW r \in Nat,
         Finish(i, phase, r), phase # "new", UNCHANGED <<log, payload>>
  PROVE  LogGrows
  <1>1. LogTypeOK
    BY DEF RegInv
  <1>2. LogTypeOK'
    BY <1>1, FinishType DEF LogTypeOK
  <1>3. \A j \in IDs : call[j].phase # "new" =>
           call'[j].phase # "new" /\ call'[j].kind = call[j].kind /\ call'[j].since = call[j].since
    BY <1>1, FinishType
  <1>4. Len(log) <= Len(log') /\ DOMAIN log' = 1..Len(log)
    BY <1>1 DEF LogTypeOK
  <1> QED BY <1>2, <1>3, <1>4 DEF LogGrows

\* A batch enters the log at its end, directly after the base of an AppendTo.
LEMMA CommitGrows ==
  ASSUME RegInv, NEW i \in IDs, CommitBatch(i), UNCHANGED payload
  PROVE  /\ LogGrows
         /\ log' = Append(log, i)
         /\ call' = call \/ Finish(i, "ok", Len(log) + 1)
  <1>1. LogTypeOK
    BY DEF RegInv
  <1>2. log' = Append(log, i) /\ (call' = call \/ Finish(i, "ok", Len(log) + 1))
        /\ call[i].phase # "new" /\ (call[i].kind = "AppendTo" => call[i].since = Len(log))
    BY DEF CommitBatch
  <1>3. call' \in [IDs -> CallRecords]
        /\ \A j \in IDs : call[j].phase # "new" =>
             call'[j].phase # "new" /\ call'[j].kind = call[j].kind /\ call'[j].since = call[j].since
    <2>1. CASE call' = call
      BY <1>1, <2>1 DEF LogTypeOK
    <2>2. CASE Finish(i, "ok", Len(log) + 1)
      <3>1. Len(log) + 1 \in Nat
        BY <1>1 DEF LogTypeOK
      <3> PICK r \in Nat : r = Len(log) + 1
        BY <3>1
      <3>2. Finish(i, "ok", r)
        BY <2>2
      <3>3. /\ call' \in [IDs -> CallRecords]
            /\ call'[i].phase = "ok"
            /\ call'[i].kind = call[i].kind
            /\ call'[i].since = call[i].since
            /\ \A j \in IDs : j # i => call'[j] = call[j]
        <4>1. "ok" \in Phases
          BY DEF Phases
        <4> QED BY <1>1, <3>2, <4>1, FinishType
      <3> QED BY <3>3
    <2> QED BY <1>2, <2>1, <2>2
  <1>4. LogTypeOK'
    <2>1. Len(log) < MaxRevision /\ Len(log) \in Nat /\ Len(log') = Len(log) + 1
      BY <1>1, <1>2 DEF CommitBatch, LogTypeOK
    <2>2. Len(log') <= MaxRevision
      BY <2>1, RegAssumption
    <2> QED BY <1>1, <1>2, <1>3, <2>2 DEF LogTypeOK
  <1>5. Len(log) <= Len(log') /\ (\A k \in 1..Len(log) : log'[k] = log[k])
        /\ (\A k \in DOMAIN log' : k \in 1..Len(log) \/ (k = Len(log) + 1 /\ log'[k] = i))
    BY <1>1, <1>2 DEF LogTypeOK
  <1>6. \A k \in DOMAIN log' :
        \/ k \in 1..Len(log)
        \/ /\ k = Len(log) + 1
           /\ call[log'[k]].phase # "new"
           /\ call[log'[k]].kind = "AppendTo" => call[log'[k]].since = Len(log)
    BY <1>2, <1>5
  <1> QED BY <1>2, <1>3, <1>4, <1>5, <1>6 DEF LogGrows

\* A new invocation changes the record and the batch of no other one.
LEMMA InvokeGrows ==
  ASSUME RegInv, NEW i \in IDs, Invoke(i), call'[i].phase = "open",
         NEW batch \in Seq(Event), payload' = [payload EXCEPT ![i] = batch]
  PROVE  /\ LogGrows
         /\ log' = log
         /\ \A j \in IDs : j # i => call'[j] = call[j]
         /\ payload'[i] = batch
  <1>1. LogTypeOK
    BY DEF RegInv
  <1>2. PICK k \in {"Append", "AppendTo"}, s \in 0..Len(log),
             phase \in {"open", "rejected", "exhausted", "unknown"} :
          call' = [call EXCEPT ![i] = [phase |-> phase, kind |-> k, since |-> s, revision |-> 0]]
    BY DEF Invoke
  <1>3. call[i].phase = "new" /\ log' = log
    BY DEF Invoke
  <1> DEFINE new == [phase |-> phase, kind |-> k, since |-> s, revision |-> 0]
  <1>4. new \in CallRecords
    <2>1. s \in Nat
      BY <1>1 DEF LogTypeOK
    <2>2. k \in Kinds /\ phase \in Phases
      BY DEF Kinds, Phases
    <2> QED BY <2>1, <2>2 DEF CallRecords
  <1> HIDE DEF new
  <1>5. call' = [call EXCEPT ![i] = new]
    BY <1>2 DEF new
  <1>6. call' \in [IDs -> CallRecords] /\ \A j \in IDs : j # i => call'[j] = call[j]
    BY <1>1, <1>4, <1>5 DEF LogTypeOK
  <1>7. payload' \in [IDs -> Seq(Event)] /\ payload'[i] = batch
        /\ \A j \in IDs : j # i => payload'[j] = payload[j]
    <2> DEFINE S == Seq(Event)
    <2>1. payload \in [IDs -> S] /\ batch \in S
      BY <1>1 DEF LogTypeOK
    <2> HIDE DEF S
    <2>2. payload' \in [IDs -> S] /\ payload'[i] = batch
          /\ \A j \in IDs : j # i => payload'[j] = payload[j]
      BY <2>1
    <2> QED BY <2>2 DEF S
  <1>8. LogTypeOK'
    BY <1>1, <1>3, <1>6, <1>7 DEF LogTypeOK
  <1>9. Len(log) <= Len(log') /\ DOMAIN log' = 1..Len(log)
    BY <1>1, <1>3 DEF LogTypeOK
  <1>10. \A j \in IDs : call[j].phase # "new" =>
            call'[j] = call[j] /\ payload'[j] = payload[j]
    BY <1>3, <1>6, <1>7
  <1> QED BY <1>3, <1>6, <1>7, <1>8, <1>9, <1>10 DEF LogGrows

\* The events of a revision that is in the log never change.
LEMMA EventsStable ==
  ASSUME RegInv, LogGrows
  PROVE  /\ \A k \in 1..Len(log) : (Batch(k))' = Batch(k)
         /\ \A r \in 0..Len(log) : (Events(r))' = Events(r)
  <1>1. \A k \in 1..Len(log) : log[k] \in IDs /\ call[log[k]].phase # "new"
    BY DEF RegInv, LogTypeOK, LoggedOK
  <1>2. \A k \in 1..Len(log) : (Batch(k))' = Batch(k)
    BY <1>1 DEF LogGrows, Batch
  <1>3. ASSUME NEW r \in 0..Len(log) PROVE (Events(r))' = Events(r)
    <2>1. \A k \in 1..r : k \in 1..Len(log)
      BY DEF RegInv, LogTypeOK
    <2>2. [k \in 1..r |-> Batch(k)]' = [k \in 1..r |-> Batch(k)]
      BY <1>2, <2>1
    <2> QED BY <2>2 DEF Events
  <1> QED BY <1>2, <1>3

\* What is logged after a step was invoked.
LEMMA LoggedStable ==
  ASSUME RegInv, LogGrows
  PROVE  LoggedOK'
  <1> SUFFICES ASSUME NEW k \in DOMAIN log' PROVE call'[log'[k]].phase # "new"
    BY DEF LoggedOK
  <1>1. log'[k] \in IDs
    BY DEF LogGrows, LogTypeOK
  <1>2. call[log'[k]].phase # "new"
    <2>1. DOMAIN log = 1..Len(log)
      BY DEF RegInv, LogTypeOK
    <2>2. CASE k \in 1..Len(log)
      <3>1. log'[k] = log[k]
        BY <2>2 DEF LogGrows
      <3> QED BY <2>1, <2>2, <3>1 DEF RegInv, LoggedOK
    <2>3. CASE k \notin 1..Len(log)
      BY <2>3 DEF LogGrows
    <2> QED BY <2>2, <2>3
  <1> QED BY <1>1, <1>2 DEF LogGrows

\* A step that touches no State keeps what the invariant says of States.
LEMMA ProjectionsStable ==
  ASSUME RegInv, LogGrows, UNCHANGED <<revision, value, err>>
  PROVE  ProjectionMatches' /\ (target' = target => SyncsOK')
  <1>1. target' = target => SyncsOK'
    BY DEF RegInv, LogGrows, SyncsOK, ClientTypeOK, LogTypeOK
  <1>2. ASSUME NEW c \in Clients, ~(Poisoned(c))'
        PROVE  value'[c] = (Events(revision[c]))'
    <2>1. revision'[c] = revision[c] /\ value'[c] = value[c] /\ ~Poisoned(c)
      BY <1>2 DEF Poisoned
    <2>2. revision[c] \in 0..Len(log)
      BY DEF RegInv, SyncsOK, ClientTypeOK, LogTypeOK
    <2>3. value[c] = Events(revision[c])
      BY <2>1 DEF RegInv, ProjectionMatches
    <2>4. (Events(revision[c]))' = Events(revision[c])
      <3> PICK r \in 0..Len(log) : r = revision[c] /\ r = revision'[c]
        BY <2>1, <2>2
      <3>1. (Events(r))' = Events(r)
        BY EventsStable
      <3> QED BY <3>1 DEF Events
    <2> QED BY <2>1, <2>3, <2>4
  <1> QED BY <1>1, <1>2 DEF ProjectionMatches

\* An operation that returns leaves the client idle; whatever its State, that keeps
\* the types and the stages.
LEMMA ReturnKeeps ==
  ASSUME RegInv, NEW c \in Clients, Return(c), UNCHANGED <<revision, target, value, granted>>,
         err' = [d \in Clients |-> err'[d]], \A d \in Clients : d # c => err'[d] = err[d]
  PROVE  ClientTypeOK' /\ StagesOK'
  <1>1. ClientTypeOK'
    BY DEF RegInv, ClientTypeOK, Return
  <1>2. StagesOK'
    BY DEF RegInv, ClientTypeOK, StagesOK, Return, Poisoned
  <1> QED BY <1>1, <1>2

\* A client begins: no State is touched.
LEMMA BeginInv ==
  ASSUME RegInv, NEW c \in Clients, Begin(c)
  PROVE  RegInv'
  <1>1. LogGrows
    BY IdleGrows DEF Begin, abstractVars
  <1>2. SyncsOK' /\ ProjectionMatches'
    BY <1>1, ProjectionsStable DEF Begin, projections
  <1>3. ClientTypeOK'
    BY DEF RegInv, ClientTypeOK, Begin, projections
  <1>4. StagesOK'
    BY DEF RegInv, ClientTypeOK, StagesOK, Begin, Poisoned, projections
  <1> QED BY <1>1, <1>2, <1>3, <1>4, LoggedStable DEF RegInv, LogGrows

\* A new State is the fold of nothing.
LEMMA newUserClientInv ==
  ASSUME RegInv, NEW c \in Clients, newUserClient(c)
  PROVE  RegInv'
  <1>1. LogGrows
    BY IdleGrows DEF newUserClient, abstractVars
  <1>2. ClientTypeOK'
    BY DEF RegInv, ClientTypeOK, newUserClient, LoadState
  <1>3. StagesOK'
    BY DEF RegInv, ClientTypeOK, StagesOK, newUserClient, LoadState, Poisoned
  <1>4. SyncsOK'
    BY DEF RegInv, ClientTypeOK, LogTypeOK, SyncsOK, newUserClient, LoadState, abstractVars
  <1>5. ASSUME NEW d \in Clients, ~(Poisoned(d))'
        PROVE  value'[d] = (Events(revision[d]))'
    <2>1. CASE d = c
      <3>1. value'[d] = <<>> /\ revision'[d] = 0
        BY <2>1 DEF RegInv, ClientTypeOK, newUserClient, LoadState
      <3>2. (Events(0))' = <<>>
        BY DEF Events, FlattenSeq
      <3> QED BY <3>1, <3>2 DEF Events
    <2>2. CASE d # c
      <3>1. value'[d] = value[d] /\ revision'[d] = revision[d] /\ err'[d] = err[d]
        BY <2>2 DEF RegInv, ClientTypeOK, newUserClient, LoadState
      <3>2. log' = log /\ payload' = payload
        BY DEF newUserClient, abstractVars
      <3>3. value[d] = Events(revision[d])
        BY <3>1, <1>5 DEF RegInv, ProjectionMatches, Poisoned
      <3>4. (Events(revision[d]))' = Events(revision[d])
        BY <3>1, <3>2 DEF Events, Batch
      <3> QED BY <3>1, <3>3, <3>4
    <2> QED BY <2>1, <2>2
  <1> QED BY <1>1, <1>2, <1>3, <1>4, <1>5, LoggedStable DEF RegInv, LogGrows, ProjectionMatches

\* Sync sets the target within the log, or returns and changes no State.
LEMMA SyncInv ==
  ASSUME RegInv, NEW c \in Clients, Sync(c)
  PROVE  RegInv'
  <1>1. LogGrows
    BY IdleGrows DEF Sync, abstractVars
  <1>2. PICK snap \in 0..Len(log) :
           \/ SyncTo(c, snap) /\ Goto(c, "scan") /\ UNCHANGED inv
           \/ Return(c) /\ UNCHANGED <<projections, granted>>
    <2>1. PICK snap \in (IF want[c] = None THEN 0..Len(log) ELSE {Len(log)}) :
           \/ SyncTo(c, snap) /\ Goto(c, "scan") /\ UNCHANGED inv
           \/ Return(c) /\ UNCHANGED <<projections, granted>>
      BY DEF Sync
    <2>2. snap \in 0..Len(log)
      BY DEF RegInv, LogTypeOK
    <2> QED BY <2>1, <2>2
  <1>3. CASE SyncTo(c, snap) /\ Goto(c, "scan") /\ UNCHANGED inv
    <2>1. ClientTypeOK'
      <3>1. snap \in Nat
        BY DEF RegInv, LogTypeOK
      <3> QED BY <1>3, <3>1 DEF RegInv, ClientTypeOK, SyncTo, Goto
    <2>2. StagesOK'
      BY <1>3 DEF RegInv, ClientTypeOK, StagesOK, SyncTo, Goto, Poisoned
    <2>3. SyncsOK'
      BY <1>3 DEF RegInv, ClientTypeOK, LogTypeOK, SyncsOK, SyncTo, Sync, abstractVars
    <2>4. ProjectionMatches'
      BY <1>1, <1>3, ProjectionsStable DEF SyncTo
    <2> QED BY <1>1, <2>1, <2>2, <2>3, <2>4, LoggedStable DEF RegInv, LogGrows
  <1>4. CASE Return(c) /\ UNCHANGED <<projections, granted>>
    <2>1. UNCHANGED <<revision, target, value, err, granted>>
      BY <1>4 DEF projections
    <2>2. ClientTypeOK' /\ StagesOK'
      BY <1>4, <2>1, ReturnKeeps DEF RegInv, ClientTypeOK
    <2>3. SyncsOK' /\ ProjectionMatches'
      BY <1>1, <2>1, ProjectionsStable
    <2> QED BY <1>1, <2>2, <2>3, LoggedStable DEF RegInv, LogGrows
  <1> QED BY <1>2, <1>3, <1>4

\* The whole of a batch is the batch.
LEMMA WholeBatch ==
  ASSUME NEW batch \in Seq(Event)
  PROVE  SubSeq(batch, 1, Len(batch)) = batch
  OBVIOUS

\* A batch is applied as a whole, or the State is poisoned.
LEMMA DeliverInv ==
  ASSUME RegInv, NEW c \in Clients, Deliver(c)
  PROVE  RegInv'
  <1>1. LogGrows
    BY IdleGrows DEF Deliver, abstractVars
  <1> DEFINE r == revision[c]
             batch == Batch(r + 1)
             n == AcceptedPrefix(value[c], batch)
  <1>2. /\ r \in Nat
        /\ r + 1 <= target[c]
        /\ r + 1 \in 1..Len(log)
        /\ target[c] <= Len(log)
    BY DEF Deliver, RegInv, SyncsOK, ClientTypeOK, LogTypeOK
  <1>3. batch \in Seq(Event)
    BY <1>2 DEF Batch, RegInv, LogTypeOK
  <1>4. ~Poisoned(c) /\ value[c] = Events(r)
    BY DEF Deliver, RegInv, StagesOK, ProjectionMatches
  <1>5. /\ value' = [value EXCEPT ![c] = @ \o SubSeq(batch, 1, n)]
        /\ target' = target
        /\ \/ n = Len(batch) /\ revision' = [revision EXCEPT ![c] = @ + 1] /\ err' = err
           \/ n # Len(batch) /\ err' = [err EXCEPT ![c] = <<r + 1, n + 1>>] /\ revision' = revision
    BY DEF Deliver, ApplyBatch
  <1> HIDE DEF n
  <1>6. \A d \in Clients : d # c =>
           value'[d] = value[d] /\ revision'[d] = revision[d] /\ err'[d] = err[d]
    BY <1>5 DEF RegInv, ClientTypeOK
  <1>7. log' = log /\ payload' = payload
    BY DEF Deliver, abstractVars
  <1>8. ASSUME NEW d \in Clients, d # c, ~(Poisoned(d))'
        PROVE  value'[d] = (Events(revision[d]))'
    <2>1. value[d] = Events(revision[d])
      BY <1>6, <1>8 DEF RegInv, ProjectionMatches, Poisoned
    <2>2. (Events(revision[d]))' = Events(revision[d])
      BY <1>6, <1>7, <1>8 DEF Events, Batch
    <2> QED BY <1>6, <1>8, <2>1, <2>2
  <1>9. CASE n = Len(batch)
    <2>1. revision' = [revision EXCEPT ![c] = @ + 1] /\ err' = err
      BY <1>5, <1>9
    <2>2. UNCHANGED clientVars
      BY <1>4, <2>1 DEF Deliver, Poisoned
    <2>3. ClientTypeOK'
      <3>1. value' = [d \in Clients |-> value'[d]]
        BY <1>5 DEF RegInv, ClientTypeOK
      <3>2. revision' \in [Clients -> Nat] /\ target' = target /\ err' = err
        BY <1>5, <2>1 DEF RegInv, ClientTypeOK
      <3> QED BY <2>2, <3>1, <3>2 DEF RegInv, ClientTypeOK, clientVars
    <2>4. StagesOK'
      BY <2>1, <2>2 DEF RegInv, StagesOK, Poisoned, clientVars
    <2>5. SyncsOK'
      BY <1>2, <1>5, <1>7, <2>1 DEF RegInv, SyncsOK, ClientTypeOK, LogTypeOK
    <2>6. value'[c] = (Events(revision[c]))'
      <3>1. value'[c] = value[c] \o batch
        <4>1. value'[c] = value[c] \o SubSeq(batch, 1, Len(batch))
          BY <1>5, <1>9 DEF RegInv, ClientTypeOK
        <4> HIDE DEF batch
        <4> QED BY <4>1, <1>3, WholeBatch
      <3>2. revision'[c] = r + 1
        BY <2>1 DEF RegInv, ClientTypeOK
      <3>3. Events(r + 1) = Events(r) \o batch
        <4>1. LogTypeOK /\ r + 1 <= Len(log)
          BY <1>2 DEF RegInv
        <4> HIDE DEF r
        <4> QED BY <4>1, <1>2, EventsStep
      <3>4. (Events(revision[c]))' = Events(r + 1)
        BY <3>2, <1>7 DEF Events, Batch
      <3> QED BY <3>1, <3>3, <3>4, <1>4
    <2>7. ProjectionMatches'
      BY <1>8, <2>6 DEF ProjectionMatches
    <2> QED BY <1>1, <2>3, <2>4, <2>5, <2>7, LoggedStable DEF RegInv, LogGrows
  <1>10. CASE n # Len(batch)
    <2>1. err' = [err EXCEPT ![c] = <<r + 1, n + 1>>] /\ revision' = revision
      BY <1>5, <1>10
    <2>2. err'[c] = <<r + 1, n + 1>>
      BY <2>1 DEF RegInv, ClientTypeOK
    <2>3. err'[c] # <<>>
      <3>1. DOMAIN err'[c] = 1..2 /\ DOMAIN <<>> = {}
        BY <2>2
      <3> QED BY <3>1
    <2>4. Return(c) /\ UNCHANGED granted
      BY <2>3 DEF Deliver
    <2>5. ClientTypeOK'
      <3>1. value' = [d \in Clients |-> value'[d]]
        BY <1>5 DEF RegInv, ClientTypeOK
      <3>2. err' = [d \in Clients |-> err'[d]]
        BY <2>1 DEF RegInv, ClientTypeOK
      <3>3. revision' = revision /\ target' = target
        BY <1>5, <2>1
      <3> QED BY <2>4, <3>1, <3>2, <3>3 DEF RegInv, ClientTypeOK, Return
    <2>6. StagesOK'
      BY <1>6, <2>4 DEF RegInv, ClientTypeOK, StagesOK, Return, Poisoned
    <2>7. SyncsOK'
      BY <1>5, <1>7, <2>1 DEF RegInv, SyncsOK
    <2>8. ProjectionMatches'
      BY <1>8, <2>3 DEF ProjectionMatches, Poisoned
    <2> QED BY <1>1, <2>5, <2>6, <2>7, <2>8, LoggedStable DEF RegInv, LogGrows
  <1> QED BY <1>9, <1>10

\* register's AppendTo: a new invocation with the batch that it decided on.
LEMMA AppendToGrows ==
  ASSUME RegInv, NEW c \in Clients, NEW i \in IDs, AppendTo(c, i),
         pc[c] = "scan", want[c] # None, UNCHANGED projections
  PROVE  /\ LogGrows
         /\ log' = log
         /\ \A j \in IDs : j # i => call'[j] = call[j]
         /\ payload'[i] = <<[name |-> want[c], id |-> Len(value[c]) + 1]>>
  <1>1. value[c] = Events(revision[c]) /\ revision[c] \in 0..Len(log)
    BY DEF RegInv, StagesOK, ProjectionMatches, SyncsOK, ClientTypeOK, LogTypeOK
  <1>2. value[c] \in Seq(Event)
    BY <1>1, EventsType DEF RegInv
  <1> DEFINE batch == <<[name |-> want[c], id |-> Len(value[c]) + 1]>>
  <1>3. batch \in Seq(Event)
    <2>1. want[c] \in Names
      BY DEF RegInv, ClientTypeOK
    <2>2. Len(value[c]) + 1 \in Nat
      BY <1>2
    <2>3. [name |-> want[c], id |-> Len(value[c]) + 1] \in Event
      BY <2>1, <2>2 DEF Event
    <2> QED BY <2>3
  <1>4. Invoke(i) /\ call'[i].phase = "open" /\ payload' = [payload EXCEPT ![i] = batch]
    BY DEF AppendTo
  <1> HIDE DEF batch
  <1>5. LogGrows /\ log' = log /\ (\A j \in IDs : j # i => call'[j] = call[j]) /\ payload'[i] = batch
    BY <1>3, <1>4, InvokeGrows
  <1> QED BY <1>5 DEF batch

\* The decision changes no State; an append has a new invocation.
LEMMA DecideInv ==
  ASSUME RegInv, NEW c \in Clients, Decide(c)
  PROVE  RegInv'
  <1>1. UNCHANGED <<revision, target, value, err>>
    BY DEF Decide, projections
  <1>2. CASE Return(c) /\ UNCHANGED <<abstractVars, payload, granted>>
    <2>1. LogGrows
      BY <1>2, IdleGrows DEF abstractVars
    <2>2. ClientTypeOK' /\ StagesOK'
      BY <1>1, <1>2, ReturnKeeps DEF RegInv, ClientTypeOK
    <2>3. SyncsOK' /\ ProjectionMatches'
      BY <1>1, <2>1, ProjectionsStable
    <2> QED BY <2>1, <2>2, <2>3, LoggedStable DEF RegInv, LogGrows
  <1>3. ASSUME want[c] # None, NEW i \in IDs, AppendTo(c, i)
        PROVE  RegInv'
    <2>1. LogGrows
      BY <1>3, AppendToGrows DEF Decide
    <2>2. ClientTypeOK'
      BY <1>1, <1>3 DEF RegInv, ClientTypeOK, AppendTo, Goto
    <2>3. StagesOK'
      BY <1>1, <1>3 DEF RegInv, ClientTypeOK, StagesOK, AppendTo, Goto, Poisoned
    <2>4. SyncsOK' /\ ProjectionMatches'
      BY <1>1, <2>1, ProjectionsStable
    <2> QED BY <2>1, <2>2, <2>3, <2>4, LoggedStable DEF RegInv, LogGrows
  <1> QED BY <1>2, <1>3 DEF Decide

\* A successful AppendTo is followed by a SyncTo of the snapshot it returns, which
\* is in the log.
LEMMA AppendedGrows ==
  ASSUME RegInv, NEW c \in Clients, NEW i \in IDs, UNCHANGED payload,
         ReturnOk(i) \/ (CommitBatch(i) /\ call'[i].phase = "ok")
  PROVE  /\ LogGrows
         /\ call'[i].revision \in 1..Len(log')
         /\ log'[call'[i].revision] = i
         /\ \A j \in IDs : call[j].phase = "new" => call'[j].phase = "new"
         /\ call'[i].phase = "ok"
  <1>0. LogTypeOK /\ "ok" \in Phases
    BY DEF RegInv, Phases
  <1>1. CASE ReturnOk(i)
    <2>1. PICK r \in DOMAIN log : log[r] = i /\ Finish(i, "ok", r)
      BY <1>1 DEF ReturnOk
    <2>2. log' = log /\ r \in Nat /\ r \in 1..Len(log) /\ call[i].phase # "new"
      BY <1>0, <1>1 DEF ReturnOk, LogTypeOK
    <2>3. LogGrows
      BY <1>0, <2>1, <2>2, FinishGrows
    <2>4. call'[i].revision = r /\ call'[i].phase = "ok" /\ \A j \in IDs : j # i => call'[j] = call[j]
      BY <1>0, <2>1, <2>2, FinishType
    <2> QED BY <2>1, <2>2, <2>3, <2>4
  <1>2. CASE CommitBatch(i) /\ call'[i].phase = "ok"
    <2>1. LogGrows /\ log' = Append(log, i)
      BY <1>2, CommitGrows
    <2>2. Finish(i, "ok", Len(log) + 1) /\ call[i].phase # "new"
      BY <1>2 DEF CommitBatch
    <2>3. PICK r \in Nat : r = Len(log) + 1
      BY <1>0 DEF LogTypeOK
    <2>4. call'[i].revision = r /\ \A j \in IDs : j # i => call'[j] = call[j]
      BY <1>0, <2>2, <2>3, FinishType
    <2>5. r \in 1..Len(log') /\ log'[r] = i
      BY <1>0, <2>1, <2>3 DEF LogTypeOK
    <2> QED BY <1>2, <2>1, <2>2, <2>4, <2>5
  <1> QED BY <1>1, <1>2

\* The snapshot that AppendTo returns is in the log and not behind the projection.
LEMMA AppendReturnsInv ==
  ASSUME RegInv, NEW c \in Clients, AppendReturns(c)
  PROVE  RegInv'
  <1> DEFINE i == inv[c]
  <1>1. pc[c] = "append" /\ i \in IDs /\ UNCHANGED <<inv, payload>>
    BY DEF AppendReturns, RegInv, StagesOK
  <1>2. CASE /\ ReturnOk(i) \/ (CommitBatch(i) /\ call'[i].phase = "ok")
             /\ SyncTo(c, call'[i].revision)
             /\ Goto(c, "catchup")
    <2> HIDE DEF i
    <2> DEFINE r == call'[i].revision
    <2>1. LogGrows /\ r \in 1..Len(log')
      BY <1>1, <1>2, AppendedGrows
    <2>2. r \in Nat /\ r <= Len(log')
      BY <2>1 DEF LogGrows, LogTypeOK
    <2>3. SyncTo(c, r)
      BY <1>2
    <2> HIDE DEF r
    <2>4. ClientTypeOK'
      BY <1>1, <1>2, <2>2, <2>3 DEF RegInv, ClientTypeOK, SyncTo, Goto
    <2>5. StagesOK'
      BY <1>1, <1>2, <2>3 DEF RegInv, ClientTypeOK, StagesOK, SyncTo, Goto, Poisoned
    <2>6. SyncsOK'
      <3>1. Len(log) <= Len(log') /\ Len(log) \in Nat /\ Len(log') \in Nat
        BY <2>1 DEF LogGrows, RegInv, LogTypeOK
      <3> QED BY <3>1, <2>2, <2>3 DEF RegInv, ClientTypeOK, SyncsOK, SyncTo
    <2>7. ProjectionMatches'
      BY <2>1, <2>3, ProjectionsStable DEF SyncTo
    <2> QED BY <2>1, <2>4, <2>5, <2>6, <2>7, LoggedStable DEF RegInv, LogGrows
  <1>3. CASE ReturnConflict(i) /\ Goto(c, "sync") /\ UNCHANGED projections
    <2> HIDE DEF i
    <2>1. LogGrows
      <3>1. Finish(i, "conflict", 0) /\ log' = log /\ "conflict" \in Phases
        BY <1>3 DEF ReturnConflict, Phases
      <3> QED BY <1>1, <3>1, FinishGrows
    <2>2. UNCHANGED <<revision, target, value, err>>
      BY <1>3 DEF projections
    <2>3. ClientTypeOK'
      BY <1>1, <1>3, <2>2 DEF RegInv, ClientTypeOK, Goto
    <2>4. StagesOK'
      BY <1>1, <1>3, <2>2 DEF RegInv, ClientTypeOK, StagesOK, Goto, Poisoned
    <2>5. SyncsOK' /\ ProjectionMatches'
      BY <2>1, <2>2, ProjectionsStable
    <2> QED BY <2>1, <2>3, <2>4, <2>5, LoggedStable DEF RegInv, LogGrows
  <1> QED BY <1>2, <1>3 DEF AppendReturns

\* register returns nil: only the client's stage changes.
LEMMA RegisteredInv ==
  ASSUME RegInv, NEW c \in Clients, Registered(c)
  PROVE  RegInv'
  <1>1. LogGrows
    BY IdleGrows DEF Registered, abstractVars
  <1>2. UNCHANGED <<revision, target, value, err>>
    BY DEF Registered, projections
  <1>3. ClientTypeOK'
    <2>1. granted' \in [Names -> Nat]
      <3>1. granted \in [Names -> Nat] /\ granted' = [granted EXCEPT ![want[c]] = @ + 1]
        BY DEF RegInv, ClientTypeOK, Registered
      <3>2. CASE want[c] \in Names
        BY <3>1, <3>2
      <3>3. CASE want[c] \notin Names
        <4>1. granted' = granted
          BY <3>1, <3>3
        <4> QED BY <3>1, <4>1
      <3> QED BY <3>2, <3>3
    <2> QED BY <1>2, <2>1 DEF RegInv, ClientTypeOK, Registered, Return
  <1>4. StagesOK'
    BY <1>2 DEF RegInv, ClientTypeOK, StagesOK, Registered, Return, Poisoned
  <1>5. SyncsOK' /\ ProjectionMatches'
    BY <1>1, <1>2, ProjectionsStable
  <1> QED BY <1>1, <1>3, <1>4, <1>5, LoggedStable DEF RegInv, LogGrows

\* An interrupted AppendTo leaves its outcome open and the log as it is.
LEMMA InterruptGrows ==
  ASSUME RegInv, NEW c \in Clients, Interrupt(c)
  PROVE  /\ LogGrows
         /\ log' = log
         /\ \A j \in IDs : call[j].phase = "new" => call'[j].phase = "new"
  <1>1. CASE pc[c] = "append"
    <2>1. PICK i \in IDs : i = inv[c]
      BY <1>1 DEF RegInv, StagesOK
    <2>2. call[i].phase = "open" /\ Finish(i, "unknown", 0) /\ log' = log /\ payload' = payload
      BY <1>1, <2>1 DEF Interrupt, ReturnUnknown
    <2>3. "unknown" \in Phases /\ 0 \in Nat /\ LogTypeOK
      BY DEF Phases, RegInv
    <2>4. LogGrows
      BY <2>2, <2>3, FinishGrows
    <2>5. \A j \in IDs : j # i => call'[j] = call[j]
      BY <2>2, <2>3, FinishType
    <2> QED BY <2>2, <2>4, <2>5
  <1>2. CASE pc[c] # "append"
    BY <1>2, IdleGrows DEF Interrupt, abstractVars
  <1> QED BY <1>1, <1>2

\* An interrupted sync leaves the batches applied so far.
LEMMA InterruptInv ==
  ASSUME RegInv, NEW c \in Clients, Interrupt(c)
  PROVE  RegInv'
  <1>1. LogGrows
    BY InterruptGrows
  <1>2. UNCHANGED <<revision, target, value, err, granted>> /\ Return(c)
    BY DEF Interrupt, projections
  <1>3. ClientTypeOK' /\ StagesOK'
    BY <1>2, ReturnKeeps DEF RegInv, ClientTypeOK
  <1>4. SyncsOK' /\ ProjectionMatches'
    BY <1>1, <1>2, ProjectionsStable
  <1> QED BY <1>1, <1>3, <1>4, LoggedStable DEF RegInv, LogGrows

\* A step that leaves the clients alone.
LEMMA ClientsStable ==
  ASSUME RegInv, LogGrows, UNCHANGED <<projections, clientVars>>
  PROVE  RegInv'
  <1>1. UNCHANGED <<revision, target, value, err, pc, want, inv, granted>>
    BY DEF projections, clientVars
  <1>2. ClientTypeOK' /\ StagesOK'
    BY <1>1 DEF RegInv, ClientTypeOK, StagesOK, Poisoned
  <1>3. SyncsOK' /\ ProjectionMatches'
    BY <1>1, ProjectionsStable
  <1> QED BY <1>2, <1>3, LoggedStable DEF RegInv, LogGrows

\* A batch that enters the log at any time touches no State.
LEMMA CommitsInv ==
  ASSUME RegInv, NEW i \in IDs, Commits(i)
  PROVE  RegInv'
  BY CommitGrows, ClientsStable DEF Commits

\* Nor does what a careless writer appends.
LEMMA CarelessAppendInv ==
  ASSUME RegInv, NEW i \in IDs, CarelessAppend(i)
  PROVE  RegInv'
  <1>1. PICK batch \in CarelessBatches : payload' = [payload EXCEPT ![i] = batch]
    BY DEF CarelessAppend
  <1>2. batch \in Seq(Event)
    BY RegAssumption
  <1>3. LogGrows
    BY <1>1, <1>2, InvokeGrows DEF CarelessAppend
  <1> QED BY <1>3, ClientsStable DEF CarelessAppend

\* The invariant holds at first.
LEMMA RegInitInv == RegInit => RegInv
  <1> SUFFICES ASSUME RegInit PROVE RegInv
    OBVIOUS
  <1>1. LogTypeOK
    <2>1. log \in Seq(IDs) /\ Len(log) <= MaxRevision
      BY RegAssumption DEF RegInit, AbstractInit
    <2>2. call \in [IDs -> CallRecords]
      BY DEF RegInit, AbstractInit, Idle, CallRecords, Phases, Kinds
    <2>3. payload \in [IDs -> Seq(Event)]
      BY DEF RegInit
    <2> QED BY <2>1, <2>2, <2>3 DEF LogTypeOK
  <1>2. ClientTypeOK
    BY DEF RegInit, StateInit, ClientTypeOK
  <1>3. LoggedOK /\ SyncsOK /\ StagesOK
    BY DEF RegInit, AbstractInit, StateInit, LoggedOK, SyncsOK, StagesOK
  <1>4. ProjectionMatches
    BY EventsZero DEF RegInit, StateInit, ProjectionMatches
  <1> QED BY <1>1, <1>2, <1>3, <1>4 DEF RegInv

\* Every step keeps it.
LEMMA RegStepInv == RegInv /\ [RegNext]_regVars => RegInv'
  <1> SUFFICES ASSUME RegInv, [RegNext]_regVars PROVE RegInv'
    OBVIOUS
  <1>1. ASSUME NEW c \in Clients, Begin(c) PROVE RegInv'
    BY <1>1, BeginInv
  <1>2. ASSUME NEW c \in Clients, newUserClient(c) PROVE RegInv'
    BY <1>2, newUserClientInv
  <1>3. ASSUME NEW c \in Clients, Sync(c) PROVE RegInv'
    BY <1>3, SyncInv
  <1>4. ASSUME NEW c \in Clients, Deliver(c) PROVE RegInv'
    BY <1>4, DeliverInv
  <1>5. ASSUME NEW c \in Clients, Decide(c) PROVE RegInv'
    BY <1>5, DecideInv
  <1>6. ASSUME NEW c \in Clients, AppendReturns(c) PROVE RegInv'
    BY <1>6, AppendReturnsInv
  <1>7. ASSUME NEW c \in Clients, Registered(c) PROVE RegInv'
    BY <1>7, RegisteredInv
  <1>8. ASSUME NEW c \in Clients, Interrupt(c) PROVE RegInv'
    BY <1>8, InterruptInv
  <1>9. ASSUME NEW i \in IDs, Commits(i) PROVE RegInv'
    BY <1>9, CommitsInv
  <1>10. ASSUME NEW i \in IDs, CarelessAppend(i) PROVE RegInv'
    BY <1>10, CarelessAppendInv
  <1>11. CASE UNCHANGED regVars
    <2>1. UNCHANGED <<log, call, payload>> /\ UNCHANGED <<projections, clientVars>>
      BY <1>11 DEF regVars, abstractVars
    <2> QED BY <2>1, IdleGrows, ClientsStable
  <1> QED
    BY <1>1, <1>2, <1>3, <1>4, <1>5, <1>6, <1>7, <1>8, <1>9, <1>10, <1>11
    DEF RegNext, ClientStep

\* It holds in every reachable state.
LEMMA RegInvariance == RegSpec => []RegInv
  BY RegInitInv, RegStepInv, PTL DEF RegSpec

\* A usable State is the fold of the log up to its revision, for any clients, names
\* and careless writers, however syncs are interrupted and resumed.
THEOREM StateIsFold == RegSpec => []ProjectionMatches
  <1>1. RegInv => ProjectionMatches
    BY DEF RegInv
  <1> QED BY <1>1, RegInvariance, PTL

\* No step changes a State that an apply error poisoned, except to replace it.
THEOREM StatePoisonIsFinal == RegSpec => PoisonIsFinal
  <1> DEFINE Kept(c) == Poisoned(c) /\ Poisoned(c)' =>
                value'[c] = value[c] /\ revision'[c] = revision[c] /\ err'[c] = err[c]
             AllKept == \A c \in Clients : Kept(c)
  <1>1. ASSUME RegInv, [RegNext]_regVars PROVE [AllKept]_regVars
    <2>1. SUFFICES ASSUME NEW d \in Clients, Poisoned(d), Poisoned(d)'
                   PROVE  value'[d] = value[d] /\ revision'[d] = revision[d] /\ err'[d] = err[d]
      OBVIOUS
    <2>2. CASE UNCHANGED <<revision, value, err>>
      BY <2>2
    <2>3. ASSUME NEW c \in Clients, newUserClient(c)
          PROVE  value'[d] = value[d] /\ revision'[d] = revision[d] /\ err'[d] = err[d]
      BY <1>1, <2>1, <2>3 DEF RegInv, ClientTypeOK, newUserClient, LoadState, Poisoned
    <2>4. ASSUME NEW c \in Clients, Deliver(c)
          PROVE  value'[d] = value[d] /\ revision'[d] = revision[d] /\ err'[d] = err[d]
      <3>1. d # c
        BY <1>1, <2>1, <2>4 DEF RegInv, StagesOK, Deliver
      <3> QED BY <1>1, <2>4, <3>1 DEF RegInv, ClientTypeOK, Deliver, ApplyBatch
    <2>5. ASSUME NEW c \in Clients, Begin(c) \/ Sync(c) \/ Decide(c) \/ AppendReturns(c)
                                      \/ Registered(c) \/ Interrupt(c)
          PROVE  UNCHANGED <<revision, value, err>>
      BY <2>5 DEF Begin, Sync, Decide, AppendReturns, Registered, Interrupt, SyncTo, projections
    <2>6. ASSUME NEW i \in IDs, Commits(i) \/ CarelessAppend(i)
          PROVE  UNCHANGED <<revision, value, err>>
      BY <2>6 DEF Commits, CarelessAppend, projections
    <2>7. CASE UNCHANGED regVars
      BY <2>7 DEF regVars, projections
    <2> QED BY <1>1, <2>2, <2>3, <2>4, <2>5, <2>6, <2>7 DEF RegNext, ClientStep
  <1>2. RegInv /\ [RegNext]_regVars => [AllKept]_regVars
    BY <1>1
  <1>3. RegSpec => [][AllKept]_regVars
    <2> HIDE DEF AllKept
    <2> QED BY <1>2, RegInvariance, PTL DEF RegSpec
  <1> QED BY <1>3 DEF PoisonIsFinal

-----------------------------------------------------------------------------
(* The inductive invariant when every writer follows the protocol. *)

\* The event of a revision.
EventAt(k) == Batch(k)[1]

\* Every invocation is an AppendTo of one registration, decided on the log up to its
\* base: the next ID, and a name that is not taken there.
InvokedOK ==
  \A i \in IDs : call[i].phase # "new" =>
     /\ call[i].kind = "AppendTo"
     /\ call[i].since <= Len(log)
     /\ payload[i] = <<payload[i][1]>>
     /\ payload[i][1].id = call[i].since + 1
     /\ \A k \in 1..call[i].since : EventAt(k).name # payload[i][1].name

\* A batch is in the log right after its base: that is what AppendTo promises.
PositionsOK == \A r \in DOMAIN log : call[log[r]].since = r - 1

\* An invocation belongs to one client, and is about the name that client wants.
PendingOK ==
  /\ \A c \in Clients :
        /\ inv[c] # 0 => call[inv[c]].phase # "new"
        /\ pc[c] \in {"append", "catchup"} => want[c] \in Names /\ payload[inv[c]][1].name = want[c]
        /\ pc[c] = "catchup" => Appended(inv[c])
  /\ \A c, d \in Clients : inv[c] # 0 /\ inv[c] = inv[d] => c = d

\* A granted name is in the log, by an invocation that is over.
GrantedOK ==
  \A n \in Names : granted[n] # 0 =>
     /\ granted[n] = 1
     /\ \E r \in DOMAIN log : EventAt(r).name = n /\ \A c \in Clients : inv[c] # log[r]

ProtocolInv ==
  /\ RegInv
  /\ InvokedOK
  /\ PositionsOK
  /\ NeverPoisoned
  /\ PendingOK
  /\ GrantedOK

\* A batch in the log is one registration, its ID is its revision, and its name is
\* that of no earlier one.
LEMMA LoggedEvents ==
  ASSUME RegInv, InvokedOK, PositionsOK, NEW r \in 1..Len(log)
  PROVE  /\ Batch(r) = <<EventAt(r)>>
         /\ EventAt(r) \in Event
         /\ EventAt(r).id = r
         /\ \A k \in 1..(r - 1) : EventAt(k).name # EventAt(r).name
  <1>1. log[r] \in IDs /\ r \in DOMAIN log /\ call[log[r]].phase # "new"
    BY DEF RegInv, LogTypeOK, LoggedOK
  <1>2. call[log[r]].since = r - 1
    BY <1>1 DEF PositionsOK
  <1>3. /\ Batch(r) = <<EventAt(r)>>
        /\ EventAt(r).id = (r - 1) + 1
        /\ \A k \in 1..(r - 1) : EventAt(k).name # EventAt(r).name
    BY <1>1, <1>2 DEF InvokedOK, EventAt, Batch
  <1>4. Batch(r) \in Seq(Event)
    BY <1>1 DEF RegInv, LogTypeOK, Batch
  <1>5. Len(Batch(r)) = 1
    <2> DEFINE e == EventAt(r)
    <2>1. Batch(r) = <<e>>
      BY <1>3
    <2> HIDE DEF e
    <2> QED BY <2>1
  <1>6. Batch(r)[1] \in Event
    BY <1>4, <1>5
  <1> QED BY <1>3, <1>6 DEF EventAt

\* So the events up to a revision are the registrations, one for each revision.
LEMMA EventsAreRegistrations ==
  ASSUME RegInv, InvokedOK, PositionsOK, NEW r \in 0..Len(log)
  PROVE  Events(r) = [k \in 1..r |-> EventAt(k)]
  <1> DEFINE T == {q \in Nat : q <= Len(log) => Events(q) = [k \in 1..q |-> EventAt(k)]}
  <1>1. 0 \in T
    <2>1. [k \in 1..0 |-> EventAt(k)] = <<>>
      OBVIOUS
    <2>2. Events(0) = [k \in 1..0 |-> EventAt(k)]
      BY <2>1, EventsZero
    <2> QED BY <2>2
  <1>2. ASSUME NEW q \in T PROVE q + 1 \in T
    <2> SUFFICES ASSUME q + 1 <= Len(log)
                 PROVE  Events(q + 1) = [k \in 1..(q + 1) |-> EventAt(k)]
      OBVIOUS
    <2> DEFINE f == [k \in 1..q |-> EventAt(k)]
    <2>1. q \in Nat /\ q + 1 \in 1..Len(log) /\ Len(log) \in Nat
      BY DEF RegInv, LogTypeOK
    <2>2. Events(q) = f
      BY <2>1
    <2>3. Events(q + 1) = f \o Batch(q + 1)
      BY <2>1, <2>2, EventsStep DEF RegInv
    <2>4. Batch(q + 1) = <<EventAt(q + 1)>>
      BY <2>1, LoggedEvents
    <2>5. \A k \in 1..q : EventAt(k) \in Event
      BY <2>1, LoggedEvents
    <2>6. f \in Seq(Event) /\ Len(f) = q
      BY <2>1, <2>5
    <2>7. EventAt(q + 1) \in Event
      BY <2>1, LoggedEvents
    <2> DEFINE e == EventAt(q + 1)
               g == [k \in 1..(q + 1) |-> EventAt(k)]
    <2>8. f \o <<e>> = g
      <3>1. \A k \in 1..q : f[k] = EventAt(k)
        OBVIOUS
      <3> HIDE DEF e, f
      <3>2. e \in Event
        BY <2>7 DEF e
      <3>3. f \o <<e>> = [k \in 1..(q + 1) |-> IF k <= q THEN f[k] ELSE e]
        BY <2>1, <2>6, <3>2
      <3>4. \A k \in 1..(q + 1) : (IF k <= q THEN f[k] ELSE e) = EventAt(k)
        <4> SUFFICES ASSUME NEW k \in 1..(q + 1)
                     PROVE  (IF k <= q THEN f[k] ELSE e) = EventAt(k)
          OBVIOUS
        <4>1. CASE k <= q
          BY <3>1, <4>1, <2>1
        <4>2. CASE ~(k <= q)
          <5>1. k = q + 1
            BY <4>2, <2>1
          <5> QED BY <5>1, <4>2 DEF e
        <4> QED BY <4>1, <4>2
      <3> QED BY <3>3, <3>4
    <2> QED BY <2>3, <2>4, <2>8
  <1>3. \A q \in Nat : q \in T
    <2> HIDE DEF T
    <2>1. T \in SUBSET Nat
      BY DEF T
    <2> QED BY <1>1, <1>2, <2>1, SetInduction
  <1>4. r \in Nat /\ r <= Len(log)
    BY DEF RegInv, LogTypeOK
  <1> QED BY <1>3, <1>4

\* No two revisions share a name.
LEMMA NamesDiffer ==
  ASSUME RegInv, InvokedOK, PositionsOK, NEW r \in 1..Len(log), NEW q \in 1..Len(log),
         EventAt(r).name = EventAt(q).name
  PROVE  r = q
  <1>0. Len(log) \in Nat
    BY DEF RegInv, LogTypeOK
  <1>1. \A k \in 1..(r - 1) : EventAt(k).name # EventAt(r).name
    BY LoggedEvents
  <1>2. \A k \in 1..(q - 1) : EventAt(k).name # EventAt(q).name
    BY LoggedEvents
  <1>3. CASE r < q
    <2>1. r \in 1..(q - 1)
      BY <1>0, <1>3
    <2> QED BY <1>2, <2>1
  <1>4. CASE q < r
    <2>1. q \in 1..(r - 1)
      BY <1>0, <1>4
    <2> QED BY <1>1, <2>1
  <1> QED BY <1>0, <1>3, <1>4

\* Invocations keep what was decided, and batches enter the log right after their
\* base.
LEMMA InvokedStable ==
  ASSUME ProtocolInv, LogGrows, NEW i \in IDs, call[i].phase # "new"
  PROVE  /\ call'[i].kind = "AppendTo"
         /\ call'[i].since <= Len(log')
         /\ payload'[i] = <<payload'[i][1]>>
         /\ payload'[i][1].id = call'[i].since + 1
         /\ \A k \in 1..call'[i].since : (EventAt(k))'.name # payload'[i][1].name
  <1>1. call'[i].kind = call[i].kind /\ call'[i].since = call[i].since /\ payload'[i] = payload[i]
    BY DEF LogGrows
  <1>2. /\ call[i].kind = "AppendTo"
        /\ call[i].since <= Len(log)
        /\ payload[i] = <<payload[i][1]>>
        /\ payload[i][1].id = call[i].since + 1
        /\ \A k \in 1..call[i].since : EventAt(k).name # payload[i][1].name
    BY DEF ProtocolInv, InvokedOK
  <1>3. call[i].since \in Nat /\ Len(log) \in Nat /\ Len(log') \in Nat /\ Len(log) <= Len(log')
    <2>1. call[i] \in CallRecords
      BY DEF ProtocolInv, RegInv, LogTypeOK
    <2> QED BY <2>1 DEF ProtocolInv, RegInv, LogTypeOK, LogGrows, CallRecords
  <1>4. \A k \in 1..call[i].since : k \in 1..Len(log)
    BY <1>2, <1>3
  <1>5. \A k \in 1..call[i].since : (EventAt(k))' = EventAt(k)
    BY <1>4, EventsStable DEF ProtocolInv, EventAt
  <1> DEFINE n == call[i].since
             e == payload[i][1]
  <1>6. call'[i].since <= Len(log')
    BY <1>1, <1>2, <1>3
  <1>7. \A k \in 1..call'[i].since : (EventAt(k))'.name # payload'[i][1].name
    BY <1>1, <1>2, <1>5
  <1> QED BY <1>1, <1>2, <1>6, <1>7

\* What enters the log does so right after its base.
LEMMA PositionsStable ==
  ASSUME ProtocolInv, LogGrows
  PROVE  PositionsOK'
  <1> SUFFICES ASSUME NEW k \in DOMAIN log' PROVE call'[log'[k]].since = k - 1
    BY DEF PositionsOK
  <1>1. log'[k] \in IDs /\ Len(log) \in Nat /\ DOMAIN log = 1..Len(log)
    BY DEF LogGrows, LogTypeOK, ProtocolInv, RegInv
  <1>2. CASE k \in 1..Len(log)
    <2>1. log'[k] = log[k]
      BY <1>2 DEF LogGrows
    <2>2. call[log[k]].phase # "new" /\ call[log[k]].since = k - 1
      BY <1>1, <1>2 DEF ProtocolInv, RegInv, LoggedOK, PositionsOK
    <2> QED BY <1>1, <2>1, <2>2 DEF LogGrows
  <1>3. CASE k \notin 1..Len(log)
    <2>1. /\ k = Len(log) + 1
          /\ call[log'[k]].phase # "new"
          /\ call[log'[k]].kind = "AppendTo" => call[log'[k]].since = Len(log)
      BY <1>3 DEF LogGrows
    <2>2. call[log'[k]].since = Len(log)
      BY <1>1, <2>1 DEF ProtocolInv, InvokedOK
    <2>3. call'[log'[k]].since = Len(log)
      BY <1>1, <2>1, <2>2 DEF LogGrows
    <2> QED BY <1>1, <2>1, <2>3
  <1> QED BY <1>2, <1>3

\* What is in the log stays where it is.
LEMMA PrefixKept ==
  ASSUME RegInv, LogGrows, NEW r \in DOMAIN log
  PROVE  r \in 1..Len(log) /\ r \in DOMAIN log' /\ log'[r] = log[r] /\ log[r] \in IDs
  <1>1. r \in 1..Len(log) /\ log[r] \in IDs
    BY DEF RegInv, LogTypeOK
  <1>2. r \in 1..Len(log') /\ DOMAIN log' = 1..Len(log')
    <2>1. Len(log) \in Nat /\ Len(log') \in Nat /\ DOMAIN log' = 1..Len(log') /\ Len(log) <= Len(log')
      BY DEF RegInv, LogTypeOK, LogGrows
    <2> QED BY <1>1, <2>1
  <1>3. log'[r] = log[r]
    BY <1>1 DEF LogGrows
  <1> QED BY <1>1, <1>2, <1>3

\* A step that begins no invocation.
LEMMA QuietStable ==
  ASSUME ProtocolInv, LogGrows,
         \A i \in IDs : call[i].phase = "new" => call'[i].phase = "new"
  PROVE  InvokedOK' /\ PositionsOK'
  <1>1. InvokedOK'
    BY InvokedStable DEF InvokedOK
  <1> QED BY <1>1, PositionsStable

\* Granted names stay in the log, and no client takes up their invocation again.
LEMMA GrantedStable ==
  ASSUME ProtocolInv, LogGrows, granted' = granted,
         \A c \in Clients : inv'[c] = inv[c] \/ inv'[c] = 0 \/ call[inv'[c]].phase = "new"
  PROVE  GrantedOK'
  <1> SUFFICES ASSUME NEW n \in Names, granted[n] # 0
               PROVE  /\ granted[n] = 1
                      /\ \E r \in DOMAIN log' : (EventAt(r))'.name = n
                            /\ \A c \in Clients : inv'[c] # log'[r]
    BY DEF GrantedOK
  <1>1. PICK r \in DOMAIN log : EventAt(r).name = n /\ \A c \in Clients : inv[c] # log[r]
    BY DEF ProtocolInv, GrantedOK
  <1>2. r \in 1..Len(log) /\ r \in DOMAIN log' /\ log'[r] = log[r] /\ log[r] \in IDs
    BY <1>1, PrefixKept DEF ProtocolInv
  <1>3. (EventAt(r))' = EventAt(r)
    BY <1>2, EventsStable DEF ProtocolInv, EventAt
  <1>4. call[log[r]].phase # "new" /\ log[r] # 0
    BY <1>1, <1>2, RegAssumption DEF ProtocolInv, RegInv, LoggedOK
  <1>5. \A c \in Clients : inv'[c] # log'[r]
    BY <1>1, <1>2, <1>4
  <1>6. granted[n] = 1
    BY DEF ProtocolInv, GrantedOK
  <1> QED BY <1>1, <1>2, <1>3, <1>5, <1>6

\* A client that lets go of its invocation or keeps it, and that does not enter the
\* stages of a pending append, keeps what PendingOK says of it.
LEMMA PendingClient ==
  ASSUME ProtocolInv, LogGrows, NEW c \in Clients,
         inv'[c] = 0 \/ inv'[c] = inv[c],
         pc'[c] \in {"append", "catchup"} =>
            pc'[c] = pc[c] /\ want'[c] = want[c] /\ inv'[c] = inv[c]
  PROVE  /\ inv'[c] # 0 => call'[inv'[c]].phase # "new"
         /\ pc'[c] \in {"append", "catchup"} =>
               want'[c] \in Names /\ payload'[inv'[c]][1].name = want'[c]
         /\ pc'[c] = "catchup" => Appended(inv[c])'
  <1>1. inv[c] # 0 => inv[c] \in IDs /\ call[inv[c]].phase # "new"
    BY DEF ProtocolInv, RegInv, ClientTypeOK, PendingOK
  <1>2. pc[c] \in {"append", "catchup"} => inv[c] # 0
    BY RegAssumption DEF ProtocolInv, RegInv, StagesOK
  <1>3. inv[c] # 0 => call'[inv[c]].phase # "new" /\ payload'[inv[c]] = payload[inv[c]]
    BY <1>1 DEF LogGrows
  <1>4. pc'[c] = "catchup" => Appended(inv[c])'
    <2> SUFFICES ASSUME pc'[c] = "catchup" PROVE Appended(inv[c])'
      OBVIOUS
    <2>1. PICK r \in DOMAIN log : log[r] = inv[c]
      BY DEF ProtocolInv, PendingOK, Appended
    <2>2. r \in DOMAIN log' /\ log'[r] = inv'[c]
      BY <2>1, PrefixKept DEF ProtocolInv
    <2> QED BY <2>2 DEF Appended
  <1>5. pc'[c] \in {"append", "catchup"} =>
           want'[c] \in Names /\ payload'[inv'[c]][1].name = want'[c]
    BY <1>2, <1>3 DEF ProtocolInv, PendingOK
  <1> QED BY <1>3, <1>4, <1>5

\* A step after which every client meets the conditions above keeps PendingOK.
LEMMA PendingStable ==
  ASSUME ProtocolInv, LogGrows,
         \A c \in Clients :
            /\ inv'[c] = 0 \/ inv'[c] = inv[c]
            /\ pc'[c] \in {"append", "catchup"} =>
                  pc'[c] = pc[c] /\ want'[c] = want[c] /\ inv'[c] = inv[c]
  PROVE  PendingOK'
  <1>1. \A c, d \in Clients : inv'[c] # 0 /\ inv'[c] = inv'[d] => c = d
    BY DEF ProtocolInv, PendingOK
  <1> QED BY <1>1, PendingClient DEF PendingOK

\* The steps of a client that begin no invocation, leave the States alone but for
\* the target, and grant nothing.
LEMMA QuietStep ==
  ASSUME ProtocolInv, RegInv', LogGrows, UNCHANGED <<granted, err>>,
         \A i \in IDs : call[i].phase = "new" => call'[i].phase = "new",
         \A c \in Clients :
            /\ inv'[c] = 0 \/ inv'[c] = inv[c]
            /\ pc'[c] \in {"append", "catchup"} =>
                  pc'[c] = pc[c] /\ want'[c] = want[c] /\ inv'[c] = inv[c]
  PROVE  ProtocolInv'
  <1>1. InvokedOK' /\ PositionsOK'
    BY QuietStable
  <1>2. NeverPoisoned'
    BY DEF ProtocolInv, NeverPoisoned, Poisoned
  <1>3. PendingOK'
    BY PendingStable
  <1>4. GrantedOK'
    BY GrantedStable
  <1> QED BY <1>1, <1>2, <1>3, <1>4 DEF ProtocolInv

\* An operation that returns meets the condition on pending appends.
LEMMA ReturnLetsGo ==
  ASSUME RegInv, NEW c \in Clients, Return(c)
  PROVE  \A d \in Clients :
            /\ inv'[d] = 0 \/ inv'[d] = inv[d]
            /\ pc'[d] \in {"append", "catchup"} =>
                  pc'[d] = pc[d] /\ want'[d] = want[d] /\ inv'[d] = inv[d]
  BY DEF RegInv, ClientTypeOK, Return

\* A client that begins has no append under way.
LEMMA BeginProtocol ==
  ASSUME ProtocolInv, NEW c \in Clients, Begin(c)
  PROVE  ProtocolInv'
  <1>1. RegInv /\ RegInv' /\ LogGrows
    BY BeginInv, IdleGrows DEF ProtocolInv, Begin, abstractVars
  <1>2. UNCHANGED <<granted, err, call>>
    BY DEF Begin, abstractVars, projections
  <1>3. \A d \in Clients :
            /\ inv'[d] = 0 \/ inv'[d] = inv[d]
            /\ pc'[d] \in {"append", "catchup"} =>
                  pc'[d] = pc[d] /\ want'[d] = want[d] /\ inv'[d] = inv[d]
    BY <1>1 DEF RegInv, ClientTypeOK, Begin
  <1> QED BY <1>1, <1>2, <1>3, QuietStep

\* Nor has one that starts over.
LEMMA newUserClientProtocol ==
  ASSUME ProtocolInv, NEW c \in Clients, newUserClient(c)
  PROVE  ProtocolInv'
  <1>1. RegInv /\ RegInv' /\ LogGrows
    BY newUserClientInv, IdleGrows DEF ProtocolInv, newUserClient, abstractVars
  <1>2. UNCHANGED <<granted, call>>
    BY DEF newUserClient, abstractVars
  <1>3. err' = err
    <2>1. err[c] = <<>>
      BY DEF ProtocolInv, NeverPoisoned, Poisoned
    <2> QED BY <1>1, <2>1 DEF newUserClient, LoadState, RegInv, ClientTypeOK
  <1>4. \A d \in Clients :
            /\ inv'[d] = 0 \/ inv'[d] = inv[d]
            /\ pc'[d] \in {"append", "catchup"} =>
                  pc'[d] = pc[d] /\ want'[d] = want[d] /\ inv'[d] = inv[d]
    BY <1>1 DEF RegInv, ClientTypeOK, newUserClient
  <1> QED BY <1>1, <1>2, <1>3, <1>4, QuietStep

\* Sync takes up no invocation.
LEMMA SyncProtocol ==
  ASSUME ProtocolInv, NEW c \in Clients, Sync(c)
  PROVE  ProtocolInv'
  <1>1. RegInv /\ RegInv' /\ LogGrows
    BY SyncInv, IdleGrows DEF ProtocolInv, Sync, abstractVars
  <1>2. UNCHANGED <<granted, err, call>>
    BY DEF Sync, SyncTo, Goto, abstractVars, projections
  <1>3. \A d \in Clients :
            /\ inv'[d] = 0 \/ inv'[d] = inv[d]
            /\ pc'[d] \in {"append", "catchup"} =>
                  pc'[d] = pc[d] /\ want'[d] = want[d] /\ inv'[d] = inv[d]
    <2>1. CASE Return(c)
      BY <1>1, <2>1, ReturnLetsGo
    <2>2. CASE Goto(c, "scan") /\ UNCHANGED inv
      BY <1>1, <2>2 DEF RegInv, ClientTypeOK, Goto
    <2> QED BY <2>1, <2>2 DEF Sync
  <1> QED BY <1>1, <1>2, <1>3, QuietStep

\* apply accepts every registration of the log in its turn.
LEMMA DeliverProtocol ==
  ASSUME ProtocolInv, NEW c \in Clients, Deliver(c)
  PROVE  ProtocolInv'
  <1>1. RegInv /\ RegInv' /\ LogGrows /\ InvokedOK /\ PositionsOK
    BY DeliverInv, IdleGrows DEF ProtocolInv, Deliver, abstractVars
  <1> PICK r \in Nat : r = revision[c]
    BY <1>1 DEF RegInv, ClientTypeOK
  <1>2. r + 1 \in 1..Len(log) /\ r \in 0..Len(log)
    BY <1>1 DEF Deliver, RegInv, SyncsOK, ClientTypeOK, LogTypeOK
  <1> DEFINE e == EventAt(r + 1)
             v == value[c]
  <1>3. /\ Batch(r + 1) = <<e>>
        /\ e.id = r + 1
        /\ \A k \in 1..r : EventAt(k).name # e.name
    <2>1. (r + 1) - 1 = r
      OBVIOUS
    <2> QED BY <1>1, <1>2, <2>1, LoggedEvents
  <1>4. v = [k \in 1..r |-> EventAt(k)]
    <2>1. v = Events(r)
      BY <1>1 DEF ProtocolInv, NeverPoisoned, RegInv, ProjectionMatches
    <2> QED BY <1>1, <1>2, <2>1, EventsAreRegistrations
  <1>5. v \in Seq(Event) /\ Len(v) = r /\ DOMAIN v = 1..r
    <2>1. v \in Seq(Event)
      BY <1>1, <1>2, EventsType DEF ProtocolInv, NeverPoisoned, RegInv, ProjectionMatches
    <2> QED BY <1>4, <2>1
  <1>6. apply(v, e)
    <2>1. r + 1 <= MaxRevision
      BY <1>1, <1>2, RegAssumption DEF RegInv, LogTypeOK
    <2> QED BY <1>3, <1>4, <1>5, <2>1 DEF apply
  <1> HIDE DEF e, v
  <1>7. AcceptedPrefix(v, <<e>>) = 1
    <2> DEFINE S == {k \in 0..Len(<<e>>) : \A j \in 1..k : apply(v \o SubSeq(<<e>>, 1, j - 1), <<e>>[j])}
    <2>1. Len(<<e>>) = 1 /\ <<e>>[1] = e
      OBVIOUS
    <2>2. v \o SubSeq(<<e>>, 1, 1 - 1) = v
      <3>1. SubSeq(<<e>>, 1, 1 - 1) = <<>>
        OBVIOUS
      <3>2. v \o <<>> = v
        BY <1>5
      <3> QED BY <3>1, <3>2
    <2>3. \A j \in 1..1 : apply(v \o SubSeq(<<e>>, 1, j - 1), <<e>>[j])
      <3> SUFFICES ASSUME NEW j \in 1..1 PROVE apply(v \o SubSeq(<<e>>, 1, j - 1), <<e>>[j])
        OBVIOUS
      <3>1. j = 1
        OBVIOUS
      <3>2. apply(v \o SubSeq(<<e>>, 1, 1 - 1), <<e>>[1])
        BY <2>1, <2>2, <1>6
      <3> QED BY <3>1, <3>2
    <2>4. 1 \in S /\ S \subseteq 0..1
      BY <2>1, <2>3
    <2>5. AcceptedPrefix(v, <<e>>) = Max(S)
      BY DEF AcceptedPrefix
    <2> HIDE DEF S
    <2>6. Max(S) = 1
      <3>1. \A y \in S : 1 >= y
        BY <2>4
      <3>2. \E x \in S : \A y \in S : x >= y
        BY <2>4, <3>1
      <3>3. Max(S) \in S /\ \A y \in S : Max(S) >= y
        BY <3>2, Zenon DEF Max
      <3>4. Max(S) \in 0..1
        BY <2>4, <3>3
      <3>5. Max(S) >= 1
        BY <2>4, <3>3, Zenon
      <3> QED BY <3>4, <3>5
    <2> QED BY <2>5, <2>6
  <1>8. AcceptedPrefix(value[c], Batch(revision[c] + 1)) = Len(Batch(revision[c] + 1))
    <2>1. Len(<<e>>) = 1
      OBVIOUS
    <2> QED BY <1>3, <1>7, <2>1 DEF e, v
  <1>9. err' = err
    BY <1>8 DEF Deliver, ApplyBatch
  <1>10. UNCHANGED clientVars
    <2>1. err'[c] = <<>>
      BY <1>9 DEF ProtocolInv, NeverPoisoned, Poisoned
    <2> QED BY <2>1 DEF Deliver
  <1>11. UNCHANGED <<granted, call, pc, want, inv>>
    BY <1>10 DEF Deliver, clientVars, abstractVars
  <1> QED BY <1>1, <1>9, <1>11, QuietStep

\* register appends the next ID and a name that is free up to its snapshot.
LEMMA AppendToProtocol ==
  ASSUME ProtocolInv, NEW c \in Clients, NEW i \in IDs, AppendTo(c, i),
         pc[c] = "scan", revision[c] = target[c], want[c] # None,
         ~Taken(value[c], want[c]), UNCHANGED projections, RegInv'
  PROVE  ProtocolInv'
  <1>1. RegInv /\ InvokedOK /\ PositionsOK
    BY DEF ProtocolInv
  <1>2. /\ LogGrows
        /\ log' = log
        /\ \A j \in IDs : j # i => call'[j] = call[j]
        /\ payload'[i] = <<[name |-> want[c], id |-> Len(value[c]) + 1]>>
    BY <1>1, AppendToGrows
  <1> PICK r \in 0..Len(log) : r = revision[c] /\ r = target[c]
    BY <1>1 DEF RegInv, SyncsOK, ClientTypeOK, LogTypeOK
  <1> DEFINE v == value[c]
             e == [name |-> want[c], id |-> r + 1]
  <1>3. v = [k \in 1..r |-> EventAt(k)] /\ r \in Nat
    <2>1. v = Events(r)
      BY <1>1 DEF ProtocolInv, NeverPoisoned, RegInv, ProjectionMatches
    <2>2. r \in Nat
      BY <1>1 DEF RegInv, LogTypeOK
    <2> QED BY <1>1, <2>1, <2>2, EventsAreRegistrations
  <1>4. Len(v) = r /\ DOMAIN v = 1..r
    BY <1>3
  <1>5. payload'[i] = <<e>>
    BY <1>2, <1>4
  <1>6. call[i].phase = "new" /\ call'[i].kind = "AppendTo" /\ call'[i].since = r
        /\ call'[i].phase # "new"
    BY DEF AppendTo, Fresh
  <1>7. \A k \in 1..r : (EventAt(k))' = EventAt(k)
    <2>1. \A k \in 1..r : k \in 1..Len(log)
      BY <1>1 DEF RegInv, LogTypeOK
    <2> QED BY <1>1, <1>2, <2>1, EventsStable DEF EventAt
  <1>8. \A k \in 1..r : EventAt(k).name # want[c]
    BY <1>3, <1>4 DEF Taken
  <1>9. InvokedOK'
    <2> SUFFICES ASSUME NEW j \in IDs, call'[j].phase # "new"
                 PROVE  /\ call'[j].kind = "AppendTo"
                        /\ call'[j].since <= Len(log')
                        /\ payload'[j] = <<payload'[j][1]>>
                        /\ payload'[j][1].id = call'[j].since + 1
                        /\ \A k \in 1..call'[j].since : (EventAt(k))'.name # payload'[j][1].name
      BY DEF InvokedOK
    <2>1. CASE j = i
      <3>1. payload'[i][1] = e /\ payload'[i] = <<payload'[i][1]>>
        BY <1>5
      <3>2. e.id = r + 1 /\ e.name = want[c]
        OBVIOUS
      <3>3. call'[j].since <= Len(log')
        BY <1>1, <1>2, <1>6, <2>1 DEF RegInv, LogTypeOK
      <3>4. \A k \in 1..r : (EventAt(k))'.name # e.name
        BY <1>7, <1>8, <3>2
      <3> QED BY <1>6, <2>1, <3>1, <3>2, <3>3, <3>4
    <2>2. CASE j # i
      <3>1. call[j].phase # "new"
        BY <1>2, <2>2
      <3> QED BY <1>2, <3>1, InvokedStable
    <2> QED BY <2>1, <2>2
  <1>10. PositionsOK'
    BY <1>2, PositionsStable
  <1>11. NeverPoisoned'
    BY DEF ProtocolInv, NeverPoisoned, Poisoned, projections
  <1>12. inv'[c] = i /\ pc'[c] = "append" /\ want'[c] = want[c]
         /\ \A d \in Clients : d # c => inv'[d] = inv[d] /\ pc'[d] = pc[d] /\ want'[d] = want[d]
    BY <1>1 DEF RegInv, ClientTypeOK, AppendTo, Goto
  <1>13. PendingOK'
    <2>1. /\ inv'[c] # 0 => call'[inv'[c]].phase # "new"
          /\ pc'[c] \in {"append", "catchup"} =>
                want'[c] \in Names /\ payload'[inv'[c]][1].name = want'[c]
          /\ pc'[c] = "catchup" => Appended(inv[c])'
      <3>1. want[c] \in Names
        BY <1>1 DEF RegInv, ClientTypeOK
      <3>2. payload'[i][1].name = want[c]
        BY <1>5
      <3> QED BY <1>6, <1>12, <3>1, <3>2
    <2>2. ASSUME NEW d \in Clients, d # c
          PROVE  /\ inv'[d] # 0 => call'[inv'[d]].phase # "new"
                 /\ pc'[d] \in {"append", "catchup"} =>
                       want'[d] \in Names /\ payload'[inv'[d]][1].name = want'[d]
                 /\ pc'[d] = "catchup" => Appended(inv[d])'
      BY <1>2, <1>12, <2>2, PendingClient
    <2>3. \A d \in Clients : d # c => inv'[d] # i
      <3>1. \A d \in Clients : inv[d] # 0 => call[inv[d]].phase # "new"
        BY DEF ProtocolInv, PendingOK
      <3>2. i # 0
        BY RegAssumption
      <3> QED BY <1>6, <1>12, <3>1, <3>2
    <2>4. \A d, f \in Clients : inv'[d] # 0 /\ inv'[d] = inv'[f] => d = f
      <3>1. \A d, f \in Clients : inv[d] # 0 /\ inv[d] = inv[f] => d = f
        BY DEF ProtocolInv, PendingOK
      <3> QED BY <1>12, <2>3, <3>1
    <2> QED BY <2>1, <2>2, <2>4 DEF PendingOK
  <1>14. GrantedOK'
    <2>1. granted' = granted
      BY DEF AppendTo, Goto
    <2>2. \A d \in Clients : inv'[d] = inv[d] \/ inv'[d] = 0 \/ call[inv'[d]].phase = "new"
      BY <1>6, <1>12
    <2> QED BY <1>2, <2>1, <2>2, GrantedStable
  <1> QED BY <1>9, <1>10, <1>11, <1>13, <1>14 DEF ProtocolInv

\* register returns, or appends what it decided on.
LEMMA DecideProtocol ==
  ASSUME ProtocolInv, NEW c \in Clients, Decide(c)
  PROVE  ProtocolInv'
  <1>1. RegInv /\ RegInv'
    BY DecideInv DEF ProtocolInv
  <1>2. CASE Return(c) /\ UNCHANGED <<abstractVars, payload, granted>>
    <2>1. LogGrows
      BY <1>1, <1>2, IdleGrows DEF abstractVars
    <2>2. UNCHANGED <<granted, err, call>>
      BY <1>2 DEF Decide, projections, abstractVars
    <2> QED BY <1>1, <1>2, <2>1, <2>2, ReturnLetsGo, QuietStep
  <1>3. ASSUME want[c] # None, ~Taken(value[c], want[c]), NEW i \in IDs, AppendTo(c, i)
        PROVE  ProtocolInv'
    <2>1. pc[c] = "scan" /\ revision[c] = target[c] /\ UNCHANGED projections
      BY DEF Decide
    <2> QED BY <1>1, <1>3, <2>1, AppendToProtocol
  <1> QED BY <1>2, <1>3 DEF Decide

\* A successful append is in the log; after a conflict the client starts from a Sync.
LEMMA AppendReturnsProtocol ==
  ASSUME ProtocolInv, NEW c \in Clients, AppendReturns(c)
  PROVE  ProtocolInv'
  <1>1. RegInv /\ RegInv'
    BY AppendReturnsInv DEF ProtocolInv
  <1> PICK i \in IDs : i = inv[c]
    BY <1>1 DEF AppendReturns, RegInv, StagesOK
  <1>2. pc[c] = "append" /\ UNCHANGED <<inv, payload>> /\ inv'[c] = i /\ i # 0
    BY RegAssumption DEF AppendReturns
  <1>3. CASE /\ ReturnOk(i) \/ (CommitBatch(i) /\ call'[i].phase = "ok")
             /\ SyncTo(c, call'[i].revision)
             /\ Goto(c, "catchup")
    <2>1. /\ LogGrows
          /\ call'[i].revision \in 1..Len(log')
          /\ log'[call'[i].revision] = i
          /\ \A j \in IDs : call[j].phase = "new" => call'[j].phase = "new"
          /\ call'[i].phase = "ok"
      BY <1>1, <1>2, <1>3, AppendedGrows
    <2>2. InvokedOK' /\ PositionsOK'
      BY <2>1, QuietStable
    <2>3. NeverPoisoned'
      BY <1>3 DEF ProtocolInv, NeverPoisoned, Poisoned, SyncTo
    <2>4. GrantedOK'
      <3>1. granted' = granted
        BY <1>3 DEF Goto
      <3> QED BY <1>2, <2>1, <3>1, GrantedStable
    <2>5. pc'[c] = "catchup" /\ want' = want /\ \A d \in Clients : d # c => pc'[d] = pc[d]
      BY <1>1, <1>3 DEF RegInv, ClientTypeOK, Goto
    <2>6. /\ call'[inv'[c]].phase # "new"
          /\ want'[c] \in Names /\ payload'[inv'[c]][1].name = want'[c]
          /\ Appended(inv[c])'
      <3>1. want[c] \in Names /\ payload[i][1].name = want[c]
        BY <1>2 DEF ProtocolInv, PendingOK
      <3>2. Appended(inv[c])'
        <4>1. call'[i].revision \in DOMAIN log'
          BY <2>1 DEF LogGrows, LogTypeOK
        <4> QED BY <1>2, <2>1, <4>1 DEF Appended
      <3> QED BY <1>2, <2>1, <2>5, <3>1, <3>2
    <2>7. ASSUME NEW d \in Clients, d # c
          PROVE  /\ inv'[d] # 0 => call'[inv'[d]].phase # "new"
                 /\ pc'[d] \in {"append", "catchup"} =>
                       want'[d] \in Names /\ payload'[inv'[d]][1].name = want'[d]
                 /\ pc'[d] = "catchup" => Appended(inv[d])'
      BY <1>2, <2>1, <2>5, <2>7, PendingClient
    <2>8. \A d, f \in Clients : inv'[d] # 0 /\ inv'[d] = inv'[f] => d = f
      BY <1>2 DEF ProtocolInv, PendingOK
    <2>9. PendingOK'
      BY <2>6, <2>7, <2>8 DEF PendingOK
    <2> QED BY <1>1, <2>2, <2>3, <2>4, <2>9 DEF ProtocolInv
  <1>4. CASE ReturnConflict(i) /\ Goto(c, "sync") /\ UNCHANGED projections
    <2>1. Finish(i, "conflict", 0) /\ log' = log /\ "conflict" \in Phases /\ call[i].phase # "new"
      BY <1>4 DEF ReturnConflict, Phases
    <2>2. LogGrows
      BY <1>1, <1>2, <2>1, FinishGrows
    <2>3. \A j \in IDs : j # i => call'[j] = call[j]
      BY <1>1, <2>1, FinishType DEF RegInv
    <2>4. UNCHANGED <<granted, err>>
      BY <1>4 DEF projections, Goto
    <2>5. \A d \in Clients : pc'[d] \in {"append", "catchup"} => pc'[d] = pc[d] /\ want'[d] = want[d]
      BY <1>1, <1>4 DEF RegInv, ClientTypeOK, Goto
    <2> QED BY <1>1, <1>2, <2>1, <2>2, <2>3, <2>4, <2>5, QuietStep
  <1> QED BY <1>3, <1>4 DEF AppendReturns

\* register returns nil: the name was granted to nobody before, for its only entry
\* in the log was this client's invocation until now.
LEMMA RegisteredProtocol ==
  ASSUME ProtocolInv, NEW c \in Clients, Registered(c)
  PROVE  ProtocolInv'
  <1>1. RegInv /\ RegInv' /\ LogGrows /\ InvokedOK /\ PositionsOK
    BY RegisteredInv, IdleGrows DEF ProtocolInv, Registered, abstractVars
  <1>2. UNCHANGED <<log, call, payload, err>> /\ Return(c) /\ pc[c] = "catchup"
        /\ granted' = [granted EXCEPT ![want[c]] = @ + 1]
    BY DEF Registered, abstractVars, projections
  <1> PICK i \in IDs : i = inv[c]
    BY <1>1, <1>2 DEF RegInv, StagesOK
  <1>3. InvokedOK' /\ PositionsOK'
    BY <1>1, <1>2, QuietStable
  <1>4. NeverPoisoned'
    BY <1>2 DEF ProtocolInv, NeverPoisoned, Poisoned
  <1>5. PendingOK'
    BY <1>1, <1>2, ReturnLetsGo, PendingStable
  <1>6. want[c] \in Names /\ payload[i][1].name = want[c] /\ i # 0
    BY <1>2, RegAssumption DEF ProtocolInv, PendingOK
  <1>7. PICK q \in 1..Len(log) : log[q] = i
    <2>1. Appended(inv[c])
      BY <1>2 DEF ProtocolInv, PendingOK
    <2>2. PICK q \in DOMAIN log : log[q] = inv[c]
      BY <2>1 DEF Appended
    <2>3. q \in 1..Len(log)
      BY <1>1 DEF RegInv, LogTypeOK
    <2> QED BY <2>2, <2>3
  <1>8. EventAt(q).name = want[c]
    BY <1>6, <1>7 DEF EventAt, Batch
  <1>9. granted[want[c]] = 0
    <2> SUFFICES ASSUME granted[want[c]] # 0 PROVE FALSE
      OBVIOUS
    <2>1. PICK r \in DOMAIN log : EventAt(r).name = want[c] /\ inv[c] # log[r]
      BY <1>6 DEF ProtocolInv, GrantedOK
    <2>2. r \in 1..Len(log)
      BY <1>1 DEF RegInv, LogTypeOK
    <2>3. r = q
      BY <1>1, <1>8, <2>1, <2>2, NamesDiffer
    <2> QED BY <1>7, <2>1, <2>3
  <1>10. \A d \in Clients : inv'[d] # i
    <2>1. inv'[c] = 0 /\ \A d \in Clients : d # c => inv'[d] = inv[d]
      BY <1>1, <1>2 DEF RegInv, ClientTypeOK, Return
    <2>2. \A d \in Clients : d # c => inv[d] # i
      BY <1>6 DEF ProtocolInv, PendingOK
    <2> QED BY <1>6, <2>1, <2>2
  <1>11. GrantedOK'
    <2> SUFFICES ASSUME NEW n \in Names, granted'[n] # 0
                 PROVE  /\ granted'[n] = 1
                        /\ \E r \in DOMAIN log' : (EventAt(r))'.name = n
                              /\ \A d \in Clients : inv'[d] # log'[r]
      BY DEF GrantedOK
    <2>0. \A r \in DOMAIN log : (EventAt(r))' = EventAt(r)
      BY <1>2 DEF EventAt, Batch
    <2>1. CASE n = want[c]
      <3>1. granted'[n] = 1
        BY <1>1, <1>2, <1>6, <1>9, <2>1 DEF RegInv, ClientTypeOK
      <3>2. q \in DOMAIN log' /\ log'[q] = i
        BY <1>1, <1>2, <1>7 DEF RegInv, LogTypeOK
      <3>3. (EventAt(q))'.name = n
        BY <1>2, <1>8, <2>0, <2>1, <3>2
      <3> QED BY <1>10, <3>1, <3>2, <3>3
    <2>2. CASE n # want[c]
      <3>1. granted'[n] = granted[n]
        BY <1>1, <1>2, <2>2 DEF RegInv, ClientTypeOK
      <3>2. granted[n] = 1
        BY <3>1 DEF ProtocolInv, GrantedOK
      <3>3. PICK r \in DOMAIN log : EventAt(r).name = n /\ \A d \in Clients : inv[d] # log[r]
        BY <3>1 DEF ProtocolInv, GrantedOK
      <3>4. log[r] # 0
        BY <1>1, RegAssumption DEF RegInv, LogTypeOK
      <3>5. \A d \in Clients : inv'[d] # log[r]
        BY <1>1, <1>2, <3>3, <3>4, ReturnLetsGo
      <3> QED BY <1>2, <2>0, <3>1, <3>2, <3>3, <3>5
    <2> QED BY <2>1, <2>2
  <1> QED BY <1>1, <1>3, <1>4, <1>5, <1>11 DEF ProtocolInv

\* A client that gives up lets go of its invocation, which may still commit.
LEMMA InterruptProtocol ==
  ASSUME ProtocolInv, NEW c \in Clients, Interrupt(c)
  PROVE  ProtocolInv'
  <1>1. RegInv /\ RegInv'
    BY InterruptInv DEF ProtocolInv
  <1>2. LogGrows /\ \A j \in IDs : call[j].phase = "new" => call'[j].phase = "new"
    BY <1>1, InterruptGrows
  <1>3. UNCHANGED <<granted, err>> /\ Return(c)
    BY DEF Interrupt, projections
  <1> QED BY <1>1, <1>2, <1>3, ReturnLetsGo, QuietStep

\* A batch that commits late keeps the protocol.
LEMMA CommitsProtocol ==
  ASSUME ProtocolInv, NEW i \in IDs, Commits(i)
  PROVE  ProtocolInv'
  <1>1. RegInv /\ RegInv'
    BY CommitsInv DEF ProtocolInv
  <1>2. LogGrows
    BY <1>1, CommitGrows DEF Commits
  <1>3. UNCHANGED <<call, granted, err, pc, want, inv>>
    BY DEF Commits, projections, clientVars
  <1> QED BY <1>1, <1>2, <1>3, QuietStep

\* The invariant of the protocol holds at first.
LEMMA ProtocolInit == RegInit => ProtocolInv
  <1> SUFFICES ASSUME RegInit PROVE ProtocolInv
    OBVIOUS
  <1>1. RegInv
    BY RegInitInv
  <1>2. InvokedOK /\ PositionsOK
    BY DEF RegInit, AbstractInit, Idle, InvokedOK, PositionsOK
  <1>3. NeverPoisoned /\ GrantedOK
    BY DEF RegInit, StateInit, NeverPoisoned, Poisoned, GrantedOK
  <1>4. PendingOK
    BY DEF RegInit, PendingOK
  <1> QED BY <1>1, <1>2, <1>3, <1>4 DEF ProtocolInv

\* Every step keeps it when nobody appends carelessly.
LEMMA ProtocolStep ==
  ASSUME CarelessBatches = {}
  PROVE  ProtocolInv /\ [RegNext]_regVars => ProtocolInv'
  <1> SUFFICES ASSUME ProtocolInv, [RegNext]_regVars PROVE ProtocolInv'
    OBVIOUS
  <1>1. ASSUME NEW c \in Clients, Begin(c) PROVE ProtocolInv'
    BY <1>1, BeginProtocol
  <1>2. ASSUME NEW c \in Clients, newUserClient(c) PROVE ProtocolInv'
    BY <1>2, newUserClientProtocol
  <1>3. ASSUME NEW c \in Clients, Sync(c) PROVE ProtocolInv'
    BY <1>3, SyncProtocol
  <1>4. ASSUME NEW c \in Clients, Deliver(c) PROVE ProtocolInv'
    BY <1>4, DeliverProtocol
  <1>5. ASSUME NEW c \in Clients, Decide(c) PROVE ProtocolInv'
    BY <1>5, DecideProtocol
  <1>6. ASSUME NEW c \in Clients, AppendReturns(c) PROVE ProtocolInv'
    BY <1>6, AppendReturnsProtocol
  <1>7. ASSUME NEW c \in Clients, Registered(c) PROVE ProtocolInv'
    BY <1>7, RegisteredProtocol
  <1>8. ASSUME NEW c \in Clients, Interrupt(c) PROVE ProtocolInv'
    BY <1>8, InterruptProtocol
  <1>9. ASSUME NEW i \in IDs, Commits(i) PROVE ProtocolInv'
    BY <1>9, CommitsProtocol
  <1>10. ASSUME NEW i \in IDs, CarelessAppend(i) PROVE ProtocolInv'
    BY <1>10 DEF CarelessAppend
  <1>11. CASE UNCHANGED regVars
    <2>1. RegInv /\ RegInv'
      BY RegStepInv DEF ProtocolInv
    <2>2. UNCHANGED <<log, call, payload, granted, err, pc, want, inv>>
      BY <1>11 DEF regVars, abstractVars, projections, clientVars
    <2> QED BY <2>1, <2>2, IdleGrows, QuietStep
  <1> QED
    BY <1>1, <1>2, <1>3, <1>4, <1>5, <1>6, <1>7, <1>8, <1>9, <1>10, <1>11
    DEF RegNext, ClientStep

\* What the invariant is for.
LEMMA ProtocolImplies ==
  ProtocolInv => UniqueNames /\ NeverPoisoned /\ AnswersAreTrue
  <1> SUFFICES ASSUME ProtocolInv PROVE UniqueNames /\ NeverPoisoned /\ AnswersAreTrue
    OBVIOUS
  <1>1. RegInv /\ InvokedOK /\ PositionsOK /\ NeverPoisoned /\ GrantedOK
    BY DEF ProtocolInv
  <1>2. DOMAIN log = 1..Len(log) /\ Len(log) \in Nat
    BY <1>1 DEF RegInv, LogTypeOK
  <1>3. UniqueNames
    <2> SUFFICES ASSUME NEW r \in DOMAIN log, NEW q \in DOMAIN log,
                        NEW x \in Range(Batch(r)), NEW y \in Range(Batch(q)),
                        x.name = y.name \/ x.id = y.id
                 PROVE  r = q
      BY DEF UniqueNames
    <2>1. Batch(r) = <<EventAt(r)>> /\ EventAt(r).id = r
      BY <1>1, <1>2, LoggedEvents
    <2>2. Batch(q) = <<EventAt(q)>> /\ EventAt(q).id = q
      BY <1>1, <1>2, LoggedEvents
    <2>3. x = EventAt(r)
      BY <2>1 DEF Range
    <2>4. y = EventAt(q)
      BY <2>2 DEF Range
    <2>5. CASE x.id = y.id
      BY <2>1, <2>2, <2>3, <2>4, <2>5
    <2>6. CASE x.name = y.name
      BY <1>1, <1>2, <2>3, <2>4, <2>6, NamesDiffer
    <2> QED BY <2>5, <2>6
  <1>4. AnswersAreTrue
    <2>1. ASSUME NEW n \in Names PROVE granted[n] <= 1
      <3>1. granted[n] \in Nat
        BY <1>1 DEF RegInv, ClientTypeOK
      <3>2. granted[n] # 0 => granted[n] = 1
        BY <1>1 DEF GrantedOK
      <3> QED BY <3>1, <3>2
    <2>2. ASSUME NEW n \in Names, granted[n] = 1 PROVE Taken(Events(Len(log)), n)
      <3>1. PICK r \in DOMAIN log : EventAt(r).name = n
        BY <1>1, <2>2 DEF GrantedOK
      <3>2. Len(log) \in 0..Len(log)
        BY <1>2
      <3>3. Events(Len(log)) = [k \in 1..Len(log) |-> EventAt(k)]
        BY <1>1, <3>2, EventsAreRegistrations
      <3> QED BY <1>2, <3>1, <3>3 DEF Taken
    <2> QED BY <2>1, <2>2 DEF AnswersAreTrue
  <1> QED BY <1>1, <1>3, <1>4

\* When every writer follows the protocol, no name and no ID is registered twice, for
\* any number of clients and revisions and however late an append lands.
THEOREM RegisterUniqueNames ==
  ASSUME CarelessBatches = {}
  PROVE  RegSpec => []UniqueNames
  BY ProtocolInit, ProtocolStep, ProtocolImplies, PTL DEF RegSpec

\* When every writer follows the protocol, apply never fails and no State is poisoned.
THEOREM RegisterNeverPoisoned ==
  ASSUME CarelessBatches = {}
  PROVE  RegSpec => []NeverPoisoned
  BY ProtocolInit, ProtocolStep, ProtocolImplies, PTL DEF RegSpec

\* When every writer follows the protocol, register returns nil at most once for each
\* name, and then the name is in the log.
THEOREM RegisterAnswersAreTrue ==
  ASSUME CarelessBatches = {}
  PROVE  RegSpec => []AnswersAreTrue
  BY ProtocolInit, ProtocolStep, ProtocolImplies, PTL DEF RegSpec

=============================================================================
