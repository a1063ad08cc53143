------------------------- MODULE SegmentFilesProofs -------------------------
(***************************************************************************)
(* Proofs of the safety properties of SegmentFiles, for every number of    *)
(* children and every size of the groups in which they are loaded.         *)
(***************************************************************************)
EXTENDS SegmentFiles, TLAPS

Steps == {"idle", "temp", "commit", "get", "spool", "copy", "decode", "ended"}
Stages == {"start", "group", "load", "consume", "create", "readback", "returned"}

SegmentTypeOK ==
  /\ leaf \in BOOLEAN /\ cancelled \in BOOLEAN
  /\ worker \in [Workers -> Steps]
  /\ parts \in [1..Children -> Nat]
  /\ cause \in {None, "failed", "cancelled"}
  /\ pc \in Stages
  /\ group \in 0..Children /\ group % GroupSize = 0
  /\ packed \in Seq(Nat)
  /\ result \in {None, "ok", "failed", "cancelled"}

\* Who holds h open at the moment.
Held(h) ==
  \/ h[2] = "body" /\ pc \notin {"start", "returned"}
  \/ /\ h[2] = "records"
     /\ \/ worker[h[1]] \in {"commit", "get", "spool", "copy", "decode"}
        \/ parts[h[1]] # Nil /\ pc # "returned"
  \/ h[2] = "response" /\ worker[h[1]] \in {"spool", "copy"}
  \/ h[2] = "download" /\ worker[h[1]] \in {"copy", "decode"}

HandlesOK ==
  /\ handle \in [Handles -> {"unused", "open", "closed"}]
  /\ \A h \in Handles : handle[h] = "open" <=> Held(h)

Resting == {"idle", "ended"}

\* Workers run while their group is loaded, and the readback at the end.
WorkersOK ==
  /\ \A i \in 1..Children : worker[i] \in Resting \/ (pc = "load" /\ i \in Group(group))
  /\ worker[0] \in Resting \/ pc = "readback"
  /\ worker[0] \notin {"temp", "commit"}

\* Parts are loaded by workers of the group that have ended, and given up when their
\* records are packed.
PartsOK ==
  /\ \A i \in 1..Children : parts[i] # Nil =>
        /\ parts[i] = i /\ i \in Group(group) /\ i > Len(packed)
        /\ worker[i] = "ended"
  /\ pc = "load" => \A i \in Group(group) : worker[i] = "ended" => parts[i] = i \/ cause # None
  /\ pc = "consume" => \A i \in Group(group) : i > Len(packed) => parts[i] = i

PackedOK ==
  /\ \A k \in 1..Len(packed) : packed[k] = k
  /\ pc \in {"start", "group", "create", "readback"} => Len(packed) = group
  /\ pc \in {"load", "consume"} => group >= GroupSize
  /\ pc = "load" => Len(packed) = group - GroupSize
  /\ pc = "consume" => Len(packed) \in (group - GroupSize)..(group - 1)
  /\ pc \in {"create", "readback"} \/ result = "ok" => Len(packed) = Children

ResultOK ==
  /\ result # None <=> pc = "returned"
  /\ cause = "cancelled" => cancelled
  /\ result = "cancelled" => cancelled

SegmentInv ==
  SegmentTypeOK /\ HandlesOK /\ WorkersOK /\ PartsOK /\ PackedOK /\ ResultOK

\* Everything but the handles.
ControlOK == SegmentTypeOK /\ WorkersOK /\ PartsOK /\ PackedOK /\ ResultOK

-----------------------------------------------------------------------------
(* Handles.                                                                *)

\* A handle tells whose it is and what for.
LEMMA HandleForms ==
  ASSUME NEW h \in Handles
  PROVE  \/ h = Body /\ h[1] = 0 /\ h[2] = "body"
         \/ h = Records(h[1]) /\ h[1] \in 1..Children /\ h[2] = "records"
         \/ h = Response(h[1]) /\ h[1] \in Workers /\ h[2] = "response"
         \/ h = Download(h[1]) /\ h[1] \in Workers /\ h[2] = "download"
  BY GroupAssumption DEF Handles, Body, Records, Response, Download, Workers

\* The handles there are.
LEMMA HandlesAre ==
  /\ Body \in Handles /\ Body[1] = 0 /\ Body[2] = "body"
  /\ \A i : Records(i)[1] = i /\ Records(i)[2] = "records"
  /\ \A i : Response(i)[1] = i /\ Response(i)[2] = "response"
  /\ \A i : Download(i)[1] = i /\ Download(i)[2] = "download"
  /\ \A i \in 1..Children : Records(i) \in Handles
  /\ \A i \in Workers : Response(i) \in Handles /\ Download(i) \in Handles
  BY GroupAssumption DEF Handles, Body, Records, Response, Download, Workers

\* The workers are the readback and one for each child.
LEMMA WorkersAre == Workers = {0} \cup 1..Children /\ 0 \notin 1..Children
  BY GroupAssumption DEF Workers

\* A step that closes what somebody held and holds no more.
LEMMA CloseOK ==
  ASSUME HandlesOK, NEW hs, Close(hs),
         \A h \in Handles : h \in hs => Held(h),
         \A h \in Handles : Held(h)' <=> (Held(h) /\ h \notin hs)
  PROVE  HandlesOK'
  BY DEF HandlesOK, Close

\* A step that opens what somebody holds from now on.
LEMMA OpenOK ==
  ASSUME HandlesOK, NEW x \in Handles, Open(x),
         \A h \in Handles : Held(h)' <=> (h = x \/ Held(h))
  PROVE  HandlesOK'
  BY DEF HandlesOK, Open

\* A step that opens and closes nothing.
LEMMA SameHandlesOK ==
  ASSUME HandlesOK, handle' = handle,
         \A h \in Handles : Held(h)' <=> Held(h)
  PROVE  HandlesOK'
  BY DEF HandlesOK

-----------------------------------------------------------------------------
(* The workers' steps.                                                     *)

\* A worker that is at work.
LEMMA AtWork ==
  ASSUME SegmentInv, NEW i \in Workers, worker[i] \notin Resting
  PROVE  /\ i # 0 => i \in 1..Children /\ pc = "load" /\ i \in Group(group) /\ parts[i] = Nil
         /\ i = 0 => pc = "readback" /\ worker[0] \notin {"temp", "commit"}
  BY WorkersAre DEF SegmentInv, WorkersOK, PartsOK, Resting

\* A worker goes on with its next step.
LEMMA AdvanceControl ==
  ASSUME SegmentInv, NEW i \in Workers, worker[i] \notin Resting,
         NEW step \in {"commit", "get", "spool", "copy", "decode"}, i = 0 => step # "commit",
         Advance(i, step)
  PROVE  ControlOK'
  <1> USE DEF Advance, SegmentInv
  <1>1. SegmentTypeOK'
    BY DEF SegmentTypeOK, Steps
  <1>2. \A j \in Workers : worker'[j] = IF j = i THEN step ELSE worker[j]
    BY DEF SegmentTypeOK
  <1>3. WorkersOK'
    BY <1>2, WorkersAre, AtWork DEF WorkersOK, Resting
  <1>4. PartsOK'
    <2>1. \A j \in 1..Children : parts[j] # Nil => worker'[j] = worker[j]
      BY <1>2, WorkersAre, AtWork
    <2>2. \A j \in Group(group) : worker'[j] = "ended" => worker[j] = "ended"
      BY DEF SegmentTypeOK
    <2> QED BY <2>1, <2>2 DEF PartsOK
  <1>5. PackedOK' /\ ResultOK'
    BY DEF PackedOK, ResultOK
  <1> QED BY <1>1, <1>3, <1>4, <1>5 DEF ControlOK

\* A worker has loaded its part.
LEMMA LoadedControl ==
  ASSUME SegmentInv, NEW i \in 1..Children, worker[i] \notin Resting, NEW closing, Loaded(i, closing)
  PROVE  ControlOK'
  <1> USE DEF Loaded, SegmentInv
  <1>0. i \in Workers /\ i # 0 /\ i \in Nat
    BY WorkersAre, GroupAssumption
  <1>1. SegmentTypeOK'
    BY <1>0 DEF SegmentTypeOK, Steps
  <1>2. /\ \A j \in Workers : worker'[j] = IF j = i THEN "ended" ELSE worker[j]
        /\ \A j \in 1..Children : parts'[j] = IF j = i THEN i ELSE parts[j]
    BY DEF SegmentTypeOK
  <1>3. WorkersOK'
    BY <1>0, <1>2, WorkersAre DEF WorkersOK, Resting
  <1>4. i \in Group(group) /\ pc = "load" /\ i > Len(packed)
    <2>1. i \in Group(group) /\ pc = "load"
      BY <1>0, AtWork
    <2> QED BY <1>0, <2>1, GroupAssumption DEF PackedOK, SegmentTypeOK, Group
  <1>5. Group(group) \subseteq 1..Children
    BY <1>4, GroupAssumption DEF PackedOK, SegmentTypeOK, Group
  <1>6. PartsOK'
    BY <1>0, <1>2, <1>4, <1>5, WorkersAre DEF PartsOK
  <1>7. PackedOK' /\ ResultOK'
    BY DEF PackedOK, ResultOK
  <1> QED BY <1>1, <1>3, <1>6, <1>7 DEF ControlOK

\* A worker fails: the context of its group is cancelled, or the readback returns.
LEMMA FailsControl ==
  ASSUME SegmentInv, NEW i \in Workers, worker[i] \notin Resting, NEW holds, WorkerFails(i, holds)
  PROVE  ControlOK' /\ \A j \in Workers : worker'[j] = IF j = i THEN "ended" ELSE worker[j]
  <1> USE DEF WorkerFails, SegmentInv
  <1>1. /\ \A j \in Workers : worker'[j] = IF j = i THEN "ended" ELSE worker[j]
        /\ worker' \in [Workers -> Steps]
    BY DEF SegmentTypeOK, Steps
  <1>2. PICK err \in Errors(i # 0) :
          IF i = 0
          THEN pc' = "returned" /\ result' = err /\ cause' = cause
          ELSE cause' = CancelWith(err) /\ UNCHANGED <<pc, result>>
    OBVIOUS
  <1>3. err \in {"failed", "cancelled"}
    BY DEF Errors
  <1>4. SegmentTypeOK'
    BY <1>1, <1>2, <1>3 DEF SegmentTypeOK, CancelWith, Stages
  <1>5. CASE i = 0
    <2>1. pc = "readback"
      BY <1>5, AtWork
    <2>2. WorkersOK'
      BY <1>1, <1>2, <1>5, <2>1, WorkersAre DEF WorkersOK, Resting
    <2>3. PartsOK' /\ PackedOK'
      BY <1>1, <1>2, <1>3, <1>5, <2>1, WorkersAre DEF PartsOK, PackedOK
    <2>4. err = "cancelled" => cancelled
      BY <1>5 DEF Errors
    <2>5. ResultOK'
      BY <1>2, <1>3, <1>5, <2>4 DEF ResultOK, None
    <2> QED BY <1>1, <1>4, <2>2, <2>3, <2>5 DEF ControlOK
  <1>6. CASE i # 0
    <2>1. i \in 1..Children /\ pc = "load" /\ i \in Group(group)
      BY <1>6, AtWork
    <2>2. cause' # None /\ (cause' = "cancelled" => cancelled)
      BY <1>2, <1>3, <1>6 DEF CancelWith, Errors, ResultOK, None
    <2>3. WorkersOK'
      BY <1>1, <1>2, <1>6, <2>1, WorkersAre DEF WorkersOK, Resting
    <2>4. PartsOK'
      BY <1>1, <1>2, <1>6, <2>1, <2>2, WorkersAre DEF PartsOK
    <2>5. PackedOK' /\ ResultOK'
      BY <1>2, <1>6, <2>2 DEF PackedOK, ResultOK
    <2> QED BY <1>1, <1>4, <2>3, <2>4, <2>5 DEF ControlOK
  <1> QED BY <1>5, <1>6

\* The other workers keep what they hold.
LEMMA OthersHold ==
  ASSUME SegmentInv, NEW i \in Workers, NEW h \in Handles, h[1] # i, h[2] # "body", pc' = pc,
         \A j \in Workers : j # i => worker'[j] = worker[j],
         \A j \in 1..Children : j # i => parts'[j] = parts[j]
  PROVE  Held(h)' <=> Held(h)
  BY HandleForms, WorkersAre DEF Held

\* Opening a file or a response.
LEMMA AdvanceOpens ==
  ASSUME SegmentInv, NEW i \in Workers, NEW step, Advance(i, step),
         \/ worker[i] = "temp" /\ step \in {"commit", "get"} /\ Open(Records(i))
         \/ worker[i] = "get" /\ step = "spool" /\ Open(Response(i))
         \/ worker[i] = "spool" /\ step = "copy" /\ Open(Download(i))
  PROVE  HandlesOK'
  <1> USE DEF Advance, SegmentInv
  <1>1. \A j \in Workers : worker'[j] = IF j = i THEN step ELSE worker[j]
    BY DEF SegmentTypeOK
  <1>2. parts' = parts /\ pc' = pc
    OBVIOUS
  <1>3. worker[i] \notin Resting
    BY DEF Resting
  <1>4. i # 0 => parts[i] = Nil
    BY <1>3, AtWork
  <1>5. i = 0 => worker[i] # "temp"
    BY DEF WorkersOK
  <1>6. \A h \in Handles : h[1] # i \/ h[2] = "body" => (Held(h)' <=> Held(h))
    BY <1>1, <1>2, OthersHold, HandleForms DEF Held
  <1>7. CASE worker[i] = "temp" /\ step \in {"commit", "get"} /\ Open(Records(i))
    <2>1. Records(i) \in Handles
      BY <1>5, <1>7, HandlesAre, WorkersAre
    <2>2. \A h \in Handles : Held(h)' <=> (h = Records(i) \/ Held(h))
      BY <1>1, <1>2, <1>6, <1>7, HandleForms, HandlesAre, WorkersAre DEF Held
    <2> QED BY <1>7, <2>1, <2>2, OpenOK
  <1>8. CASE worker[i] = "get" /\ step = "spool" /\ Open(Response(i))
    <2>1. Response(i) \in Handles
      BY HandlesAre
    <2>2. \A h \in Handles : Held(h)' <=> (h = Response(i) \/ Held(h))
      BY <1>1, <1>2, <1>6, <1>8, HandleForms, HandlesAre, WorkersAre DEF Held
    <2> QED BY <1>8, <2>1, <2>2, OpenOK
  <1>9. CASE worker[i] = "spool" /\ step = "copy" /\ Open(Download(i))
    <2>1. Download(i) \in Handles
      BY HandlesAre
    <2>2. \A h \in Handles : Held(h)' <=> (h = Download(i) \/ Held(h))
      BY <1>1, <1>2, <1>6, <1>9, HandleForms, HandlesAre, WorkersAre DEF Held
    <2> QED BY <1>9, <2>1, <2>2, OpenOK
  <1> QED BY <1>7, <1>8, <1>9

\* The response is closed once it is copied.
LEMMA CopyCloses ==
  ASSUME SegmentInv, NEW i \in Workers, worker[i] = "copy", Advance(i, "decode"),
         Close({Response(i)})
  PROVE  HandlesOK'
  <1> USE DEF Advance, SegmentInv
  <1>1. \A j \in Workers : worker'[j] = IF j = i THEN "decode" ELSE worker[j]
    BY DEF SegmentTypeOK
  <1>2. parts' = parts /\ pc' = pc
    OBVIOUS
  <1>3. \A h \in Handles : h \in {Response(i)} => Held(h)
    BY HandlesAre DEF Held
  <1>4. \A h \in Handles : Held(h)' <=> (Held(h) /\ h \notin {Response(i)})
    BY <1>1, <1>2, HandleForms, HandlesAre, WorkersAre DEF Held
  <1> QED BY <1>3, <1>4, CloseOK

\* What worker i holds.
Holds(i) ==
  (IF worker[i] \in {"commit", "get", "spool", "copy", "decode"} THEN Own(i) ELSE {})
    \cup (IF worker[i] \in {"spool", "copy"} THEN {Response(i)} ELSE {})
    \cup (IF worker[i] \in {"copy", "decode"} THEN {Download(i)} ELSE {})

\* Of the handles that are worker i's, those are held.
LEMMA HoldsHeld ==
  ASSUME SegmentInv, NEW i \in Workers, worker[i] \notin Resting, NEW h \in Handles
  PROVE  h \in Holds(i) <=> h[1] = i /\ h[2] # "body" /\ Held(h)
  <1>1. i # 0 => i \in 1..Children /\ parts[i] = Nil
    BY AtWork
  <1>2. h = Body \/ h = Records(h[1]) \/ h = Response(h[1]) \/ h = Download(h[1])
    BY HandleForms
  <1>3. Own(i) = IF i = 0 THEN {} ELSE {Records(i)}
    BY DEF Own
  <1> QED BY <1>1, <1>3, HandleForms, HandlesAre, WorkersAre DEF Holds, Held

\* A worker that fails closes what it holds, and the readback the body as well.
LEMMA FailsCloses ==
  ASSUME SegmentInv, NEW i \in Workers, worker[i] \notin Resting, WorkerFails(i, Holds(i))
  PROVE  HandlesOK'
  <1> DEFINE hs == IF i = 0 THEN Holds(i) \cup {Body} ELSE Holds(i)
  <1>1. \A j \in Workers : worker'[j] = IF j = i THEN "ended" ELSE worker[j]
    BY FailsControl
  <1>2. Close(hs) /\ parts' = parts
    BY DEF WorkerFails
  <1>3. IF i = 0 THEN pc' = "returned" ELSE pc' = pc
    BY DEF WorkerFails
  <1>4. i = 0 => pc = "readback"
    BY AtWork
  <1>5. \A h \in Handles : h \in Holds(i) <=> h[1] = i /\ h[2] # "body" /\ Held(h)
    BY HoldsHeld
  <1>6. \A h \in Handles : h \in hs => Held(h)
    BY <1>4, <1>5, HandlesAre DEF Held
  <1>7. i # 0 => parts[i] = Nil
    BY AtWork
  <1>8. i = 0 => \A j \in 1..Children : parts[j] = Nil
    BY <1>4, GroupAssumption DEF SegmentInv, PartsOK, PackedOK, Group, SegmentTypeOK
  <1>9. \A h \in Handles : Held(h)' <=> (Held(h) /\ h \notin hs)
    <2> SUFFICES ASSUME NEW h \in Handles
                 PROVE  Held(h)' <=> (Held(h) /\ h \notin hs)
      OBVIOUS
    <2>1. CASE h[2] = "body"
      BY <2>1, <1>3, <1>4, <1>5, HandleForms, HandlesAre DEF Held
    <2>2. CASE h[2] # "body" /\ h[1] # i
      <3>1. h \notin hs
        BY <1>5, <2>2, HandlesAre
      <3>2. Held(h)' <=> Held(h)
        BY <1>1, <1>2, <1>3, <1>8, <2>2, HandleForms, WorkersAre DEF Held
      <3> QED BY <3>1, <3>2
    <2>3. CASE h[2] # "body" /\ h[1] = i
      <3>1. ~Held(h)'
        BY <1>1, <1>2, <1>3, <1>7, <2>3, HandleForms, WorkersAre DEF Held
      <3> QED BY <1>5, <2>3, <3>1
    <2> QED BY <2>1, <2>2, <2>3
  <1> HIDE DEF hs
  <1> QED BY <1>2, <1>6, <1>9, CloseOK DEF SegmentInv

\* A worker that has loaded its part leaves the records to it, and closes the download.
LEMMA LoadedCloses ==
  ASSUME SegmentInv, NEW i \in 1..Children, NEW closing, Loaded(i, closing),
         \/ worker[i] = "commit" /\ closing = {}
         \/ worker[i] = "decode" /\ closing = {Download(i)}
  PROVE  HandlesOK'
  <1> USE DEF Loaded, SegmentInv
  <1>1. /\ \A j \in Workers : worker'[j] = IF j = i THEN "ended" ELSE worker[j]
        /\ \A j \in 1..Children : parts'[j] = IF j = i THEN i ELSE parts[j]
        /\ pc' = pc /\ i # Nil /\ i \in Workers
    BY WorkersAre DEF SegmentTypeOK, Nil
  <1>2. pc = "load"
    BY <1>1, AtWork DEF Resting, Nil
  <1>3. \A h \in Handles : h \in closing => Held(h)
    BY HandlesAre DEF Held
  <1>4. \A h \in Handles : Held(h)' <=> (Held(h) /\ h \notin closing)
    <2> SUFFICES ASSUME NEW h \in Handles
                 PROVE  Held(h)' <=> (Held(h) /\ h \notin closing)
      OBVIOUS
    <2>1. CASE h[1] # i \/ h[2] = "body"
      BY <1>1, <2>1, HandleForms, HandlesAre, WorkersAre DEF Held
    <2>2. CASE h[1] = i /\ h[2] # "body"
      BY <1>1, <1>2, <2>2, HandleForms, HandlesAre, WorkersAre DEF Held
    <2> QED BY <2>1, <2>2
  <1> QED BY <1>3, <1>4, CloseOK

\* The readback has validated the aggregate.
LEMMA ReadbackReturns ==
  ASSUME SegmentInv, worker[0] = "decode", Close({Download(0), Body}),
         worker' = [worker EXCEPT ![0] = "ended"], pc' = "returned", result' = "ok",
         UNCHANGED <<leaf, parts, cause, cancelled, group, packed>>
  PROVE  SegmentInv'
  <1> USE DEF SegmentInv
  <1>1. /\ 0 \in Workers
        /\ \A j \in Workers : worker'[j] = IF j = 0 THEN "ended" ELSE worker[j]
        /\ worker' \in [Workers -> Steps]
    BY WorkersAre DEF SegmentTypeOK, Steps
  <1>2. pc = "readback"
    BY <1>1, AtWork DEF Resting
  <1>3. \A j \in 1..Children : parts[j] = Nil
    BY <1>2, GroupAssumption DEF PartsOK, PackedOK, Group, SegmentTypeOK
  <1>4. SegmentTypeOK' /\ ResultOK'
    BY <1>1 DEF SegmentTypeOK, Stages, ResultOK, None
  <1>5. WorkersOK' /\ PartsOK' /\ PackedOK'
    BY <1>1, <1>2, <1>3, WorkersAre DEF WorkersOK, Resting, PartsOK, PackedOK
  <1>6. \A h \in Handles : h \in {Download(0), Body} => Held(h)
    BY <1>2, HandlesAre DEF Held
  <1>7. \A h \in Handles : Held(h)' <=> (Held(h) /\ h \notin {Download(0), Body})
    BY <1>1, <1>2, <1>3, HandleForms, HandlesAre, WorkersAre DEF Held
  <1>8. HandlesOK'
    BY <1>6, <1>7, CloseOK
  <1> QED BY <1>4, <1>5, <1>8

\* Every step of a worker keeps the invariant.
LEMMA WorkerKeeps ==
  ASSUME SegmentInv, NEW i \in Workers, WorkerStep(i)
  PROVE  SegmentInv'
  <1>1. i = 0 => worker[i] \notin {"temp", "commit"}
    BY DEF SegmentInv, WorkersOK
  <1>2. ControlOK' /\ HandlesOK' => SegmentInv'
    BY DEF ControlOK, SegmentInv
  <1>3. ASSUME worker[i] \notin Resting, WorkerFails(i, Holds(i))
        PROVE  SegmentInv'
    BY <1>2, <1>3, FailsControl, FailsCloses
  <1>4. i # 0 => i \in 1..Children
    BY WorkersAre
  <1>5. CASE NewRecordFile(i)
    <2>1. worker[i] = "temp" /\ worker[i] \notin Resting
      BY <1>5 DEF NewRecordFile, Resting
    <2>2. CASE Open(Records(i)) /\ Advance(i, IF leaf THEN "commit" ELSE "get")
      <3> DEFINE step == IF leaf THEN "commit" ELSE "get"
      <3>1. step \in {"commit", "get"} /\ step \in {"commit", "get", "spool", "copy", "decode"}
        OBVIOUS
      <3>2. Open(Records(i)) /\ Advance(i, step) /\ (i = 0 => step # "commit")
        BY <1>1, <2>1, <2>2
      <3> HIDE DEF step
      <3> QED BY <1>2, <2>1, <3>1, <3>2, AdvanceControl, AdvanceOpens
    <2>3. CASE WorkerFails(i, {})
      <3>1. Holds(i) = {}
        BY <2>1 DEF Holds
      <3> QED BY <1>3, <2>1, <2>3, <3>1
    <2> QED BY <1>5, <2>2, <2>3 DEF NewRecordFile
  <1>6. CASE loadCommitRef(i)
    <2>1. worker[i] = "commit" /\ worker[i] \notin Resting /\ i # 0
      BY <1>1, <1>6 DEF loadCommitRef, Resting
    <2>2. CASE Loaded(i, {})
      BY <1>2, <1>4, <2>1, <2>2, LoadedControl, LoadedCloses
    <2>3. CASE WorkerFails(i, Own(i))
      <3>1. Holds(i) = Own(i)
        BY <2>1 DEF Holds
      <3> QED BY <1>3, <2>1, <2>3, <3>1
    <2> QED BY <1>6, <2>2, <2>3 DEF loadCommitRef
  <1>7. CASE openObject(i)
    <2>1. worker[i] = "get" /\ worker[i] \notin Resting
      BY <1>7 DEF openObject, Resting
    <2>2. CASE Open(Response(i)) /\ Advance(i, "spool")
      BY <1>2, <2>1, <2>2, AdvanceControl, AdvanceOpens
    <2>3. CASE WorkerFails(i, Own(i))
      <3>1. Holds(i) = Own(i)
        BY <2>1 DEF Holds
      <3> QED BY <1>3, <2>1, <2>3, <3>1
    <2> QED BY <1>7, <2>2, <2>3 DEF openObject
  <1>8. CASE NewDownload(i)
    <2>1. worker[i] = "spool" /\ worker[i] \notin Resting
      BY <1>8 DEF NewDownload, Resting
    <2>2. CASE Open(Download(i)) /\ Advance(i, "copy")
      BY <1>2, <2>1, <2>2, AdvanceControl, AdvanceOpens
    <2>3. CASE WorkerFails(i, {Response(i)} \cup Own(i))
      <3>1. Holds(i) = {Response(i)} \cup Own(i)
        BY <2>1 DEF Holds
      <3> QED BY <1>3, <2>1, <2>3, <3>1
    <2> QED BY <1>8, <2>2, <2>3 DEF NewDownload
  <1>9. CASE Copy(i)
    <2>1. worker[i] = "copy" /\ worker[i] \notin Resting
      BY <1>9 DEF Copy, Resting
    <2>2. CASE Close({Response(i)}) /\ Advance(i, "decode")
      BY <1>2, <2>1, <2>2, AdvanceControl, CopyCloses
    <2>3. CASE WorkerFails(i, {Response(i), Download(i)} \cup Own(i))
      <3>1. Holds(i) = {Response(i), Download(i)} \cup Own(i)
        BY <2>1 DEF Holds
      <3> QED BY <1>3, <2>1, <2>3, <3>1
    <2> QED BY <1>9, <2>2, <2>3 DEF Copy
  <1>10. CASE decodeSegment(i)
    <2>1. worker[i] = "decode" /\ worker[i] \notin Resting
      BY <1>10 DEF decodeSegment, Resting
    <2>2. CASE i # 0 /\ Loaded(i, {Download(i)})
      BY <1>2, <1>4, <2>1, <2>2, LoadedControl, LoadedCloses
    <2>3. CASE WorkerFails(i, HeldByDecode(i))
      <3>1. Holds(i) = HeldByDecode(i)
        BY <2>1 DEF Holds, HeldByDecode
      <3> QED BY <1>3, <2>1, <2>3, <3>1
    <2>4. CASE /\ i = 0
               /\ Close({Download(0), Body})
               /\ worker' = [worker EXCEPT ![0] = "ended"]
               /\ pc' = "returned" /\ result' = "ok"
               /\ UNCHANGED <<leaf, parts, cause, cancelled, group, packed>>
      BY <2>1, <2>4, ReadbackReturns
    <2> QED BY <1>10, <2>2, <2>3, <2>4 DEF decodeSegment
  <1> QED BY <1>5, <1>6, <1>7, <1>8, <1>9, <1>10 DEF WorkerStep

-----------------------------------------------------------------------------
(* The groups.                                                             *)

\* Euclidean division.
LEMMA Division ==
  ASSUME NEW a \in Int, NEW b \in Nat \ {0}
  PROVE  /\ a \div b \in Int /\ a % b \in 0..(b - 1)
         /\ a = b * (a \div b) + (a % b)
  OBVIOUS

\* Multiplication is strictly monotonic.
LEMMA MulCancel ==
  ASSUME NEW b \in Nat \ {0}, NEW x \in Int, NEW y \in Int, b * x < b * y
  PROVE  x < y
  OBVIOUS

\* Quotient and remainder are unique.
LEMMA DivisionUnique ==
  ASSUME NEW b \in Nat \ {0}, NEW p \in Int, NEW q \in Int, NEW r \in Int, NEW s \in Int,
         0 <= r, r < b, 0 <= s, s < b,
         b * p + r = b * q + s
  PROVE  p = q /\ r = s
  <1>1. b * (q + 1) = b * q + b /\ b * (p + 1) = b * p + b
    OBVIOUS
  <1>2. b * p < b * (q + 1) /\ b * q < b * (p + 1)
    BY <1>1
  <1>3. p < q + 1 /\ q < p + 1
    BY <1>2, MulCancel
  <1> QED BY <1>3

\* Adding the divisor keeps the remainder.
LEMMA NextMultiple ==
  ASSUME NEW b \in Nat \ {0}, NEW w \in Nat
  PROVE  (w + b) % b = w % b
  <1> DEFINE p == w \div b
             q == (w + b) \div b
  <1>1. w + b \in Int
    OBVIOUS
  <1>2. p \in Int /\ w % b \in 0..(b - 1) /\ w = b * p + (w % b)
    BY Division
  <1>3. q \in Int /\ (w + b) % b \in 0..(b - 1) /\ w + b = b * q + ((w + b) % b)
    BY <1>1, Division
  <1> HIDE DEF p, q
  <1>4. PICK n \in Int : n = p + 1 /\ b * n = b * p + b
    BY <1>2
  <1> DEFINE r == w % b
             s == (w + b) % b
  <1> HIDE DEF r, s
  <1>5. r \in 0..(b - 1) /\ s \in 0..(b - 1) /\ b * n + r = b * q + s
    BY <1>2, <1>3, <1>4 DEF r, s
  <1>6. r \in Int /\ s \in Int /\ 0 <= r /\ r < b /\ 0 <= s /\ s < b
    BY <1>5
  <1>7. q \in Int
    BY <1>3
  <1>8. r = s
    BY <1>5, <1>6, <1>7, DivisionUnique, ZenonT(40)
  <1> QED BY <1>8 DEF r, s

\* Two numbers that are nearer than the divisor differ in the remainder.
LEMMA SameMultiple ==
  ASSUME NEW b \in Nat \ {0}, NEW i \in Nat, NEW w \in Nat, i % b = w % b, w <= i, i < w + b
  PROVE  i = w
  <1> DEFINE p == i \div b
             q == w \div b
             r == i - w
  <1>1. /\ p \in Int /\ q \in Int /\ i % b \in Int
        /\ i = b * p + (i % b) /\ w = b * q + (w % b)
    BY Division
  <1> HIDE DEF p, q, r
  <1>2. PICK zero \in Int : zero = 0 /\ 0 <= zero /\ zero < b
    OBVIOUS
  <1>3. /\ p \in Int /\ q \in Int /\ r \in Int
        /\ 0 <= r /\ r < b /\ 0 <= zero /\ zero < b
        /\ b * q + r = b * p + zero
    BY <1>1, <1>2 DEF r
  <1>4. r = zero
    BY <1>3, DivisionUnique, Zenon
  <1> QED BY <1>2, <1>4 DEF r

\* There are as many children as the groups take.
LEMMA GroupsFit ==
  ASSUME SegmentTypeOK, group < Children
  PROVE  group + GroupSize \in 0..Children /\ (group + GroupSize) % GroupSize = 0
  <1>1. group \in Nat /\ GroupSize \in Nat \ {0} /\ Children \in Nat /\ Children % GroupSize = 0 /\ group % GroupSize = 0
    BY GroupAssumption DEF SegmentTypeOK
  <1>2. (group + GroupSize) % GroupSize = 0
    BY <1>1, NextMultiple
  <1>3. group + GroupSize <= Children
    <2> SUFFICES ASSUME Children < group + GroupSize PROVE FALSE
      BY <1>1
    <2>1. group <= Children /\ Children % GroupSize = group % GroupSize
      BY <1>1
    <2>2. Children = group
      BY <1>1, <2>1, SameMultiple
    <2> QED BY <1>1, <2>2
  <1> QED BY <1>1, <1>2, <1>3

-----------------------------------------------------------------------------
(* The steps of createSegment.                                             *)

\* No worker is at work but while a group is loaded, and in the readback.
LEMMA NobodyWorks ==
  ASSUME SegmentInv, pc \notin {"load", "readback"}
  PROVE  \A i \in Workers : worker[i] \in Resting
  BY WorkersAre DEF SegmentInv, WorkersOK

\* Returning closes the body and the parts that are left.
LEMMA ReturnCloses ==
  ASSUME SegmentInv, pc \notin {"start", "returned", "readback"},
         \A i \in Workers : worker[i] \in Resting,
         Close({Body} \cup {Records(i) : i \in {j \in DOMAIN parts : parts[j] # Nil}}),
         pc' = "returned", worker' = worker
  PROVE  HandlesOK'
  <1> DEFINE hs == {Body} \cup {Records(i) : i \in {j \in DOMAIN parts : parts[j] # Nil}}
  <1>1. DOMAIN parts = 1..Children
    BY DEF SegmentInv, SegmentTypeOK
  <1>2. \A h \in Handles : h \in hs <=> h = Body \/ (h[2] = "records" /\ parts[h[1]] # Nil)
    BY <1>1, HandleForms, HandlesAre
  <1> HIDE DEF hs
  <1>3. \A h \in Handles : h \in hs <=> Held(h)
    BY <1>2, HandleForms, HandlesAre, WorkersAre DEF Held, Resting
  <1>4. \A h \in Handles : ~Held(h)'
    BY HandleForms, HandlesAre, WorkersAre DEF Held, Resting
  <1>5. Close(hs)
    BY DEF hs
  <1> QED BY <1>3, <1>4, <1>5, CloseOK DEF SegmentInv

\* createSegment returns.
LEMMA ReturnKeeps ==
  ASSUME SegmentInv, pc \in {"group", "load", "consume", "create"},
         \A i \in Workers : worker[i] \in Resting,
         NEW err \in {"ok", "failed", "cancelled"}, Return(err),
         err = "cancelled" => cancelled, err = "ok" => Len(packed) = Children,
         UNCHANGED <<leaf, worker, parts, cause, cancelled, group, packed>>
  PROVE  SegmentInv'
  <1>1. HandlesOK'
    BY ReturnCloses DEF Return
  <1>2. /\ result' \in {"ok", "failed", "cancelled"} /\ pc' = "returned"
        /\ result' = "cancelled" => cancelled
        /\ result' = "ok" => Len(packed) = Children
    BY DEF Return
  <1>3. SegmentTypeOK' /\ ResultOK'
    BY <1>2 DEF SegmentInv, SegmentTypeOK, Stages, ResultOK, None
  <1>4. WorkersOK' /\ PartsOK' /\ PackedOK'
    BY <1>2, WorkersAre DEF SegmentInv, WorkersOK, PartsOK, PackedOK
  <1> QED BY <1>1, <1>3, <1>4 DEF SegmentInv

\* The body is opened.
LEMMA NewBodyKeeps ==
  ASSUME SegmentInv, NewBody
  PROVE  SegmentInv'
  <1> USE DEF SegmentInv
  <1>0. pc = "start" /\ UNCHANGED <<leaf, worker, parts, cause, cancelled, group, packed>>
    BY DEF NewBody
  <1>1. \A i \in Workers : worker[i] \in Resting
    BY <1>0, NobodyWorks
  <1>2. pc' \in {"group", "returned"} /\ result' \in {result, "failed"} /\ (result' = None <=> pc' = "group")
    BY <1>0 DEF NewBody, ResultOK, None
  <1>3. result = None
    BY <1>0 DEF ResultOK
  <1>4. SegmentTypeOK' /\ ResultOK'
    BY <1>0, <1>2, <1>3 DEF SegmentTypeOK, Stages, ResultOK, None
  <1>5. \A i \in 1..Children : parts[i] = Nil
    BY <1>0, GroupAssumption DEF PartsOK, PackedOK, SegmentTypeOK, Group
  <1>6. WorkersOK' /\ PartsOK' /\ PackedOK'
    BY <1>0, <1>1, <1>2, <1>3, <1>5, WorkersAre DEF WorkersOK, PartsOK, PackedOK, None
  <1>7. HandlesOK'
    <2>1. CASE Open(Body) /\ pc' = "group"
      <3>1. \A h \in Handles : Held(h)' <=> (h = Body \/ Held(h))
        BY <1>0, <1>5, <2>1, HandleForms, HandlesAre DEF Held
      <3> QED BY <2>1, <3>1, HandlesAre, OpenOK
    <2>2. CASE pc' = "returned" /\ handle' = handle
      <3>1. \A h \in Handles : Held(h)' <=> Held(h)
        BY <1>0, <1>5, <2>2, HandleForms DEF Held
      <3> QED BY <2>2, <3>1, SameHandlesOK
    <2>3. CASE pc' = "returned" /\ handle' = [handle EXCEPT ![Body] = "closed"]
      <3>1. \A h \in Handles : Held(h)' <=> Held(h)
        BY <1>0, <1>5, <2>3, HandleForms DEF Held
      <3>2. ~Held(Body) /\ Body \in Handles
        BY <1>0, HandlesAre DEF Held, Handles
      <3> QED BY <2>3, <3>1, <3>2 DEF HandlesOK
    <2> QED BY <2>1, <2>2, <2>3 DEF NewBody
  <1> QED BY <1>4, <1>6, <1>7

\* The workers of the next group are started.
LEMMA StartGroupKeeps ==
  ASSUME SegmentInv, StartGroup
  PROVE  SegmentInv'
  <1> USE DEF SegmentInv
  <1>0. /\ pc = "group" /\ group < Children /\ group' = group + GroupSize /\ pc' = "load"
        /\ UNCHANGED <<leaf, handle, parts, cancelled, packed, result>>
    BY DEF StartGroup
  <1>1. group' \in 0..Children /\ group' % GroupSize = 0 /\ group \in 0..Children
    BY <1>0, GroupsFit DEF SegmentTypeOK
  <1>2. \A i \in Workers : worker[i] \in Resting
    BY <1>0, NobodyWorks
  <1>3. \A i \in Workers : worker'[i] = IF i \in Group(group') THEN "temp" ELSE worker[i]
    BY DEF StartGroup
  <1>4. 0 \notin Group(group') /\ Group(group') \subseteq 1..Children /\ group' - GroupSize = group
    BY <1>0, <1>1, GroupAssumption DEF Group
  <1>5. \A i \in 1..Children : parts[i] = Nil
    BY <1>0, GroupAssumption DEF PartsOK, PackedOK, SegmentTypeOK, Group
  <1>6. SegmentTypeOK'
    <2>1. worker' \in [Workers -> Steps]
      BY DEF StartGroup, SegmentTypeOK, Steps
    <2> QED BY <1>0, <1>1, <2>1 DEF StartGroup, SegmentTypeOK, Stages
  <1>7. ResultOK'
    BY <1>0 DEF StartGroup, ResultOK, None
  <1>8. WorkersOK'
    BY <1>0, <1>2, <1>3, <1>4, WorkersAre DEF WorkersOK, Resting
  <1>9. PartsOK'
    BY <1>0, <1>3, <1>4, <1>5, WorkersAre DEF PartsOK
  <1>10. PackedOK'
    BY <1>0, <1>1, <1>4, GroupAssumption DEF PackedOK
  <1>11. \A h \in Handles : Held(h)' <=> Held(h)
    BY <1>0, <1>2, <1>3, <1>5, HandleForms, WorkersAre DEF Held, Resting
  <1> QED BY <1>0, <1>6, <1>7, <1>8, <1>9, <1>10, <1>11, SameHandlesOK

\* The group has ended.
LEMMA WaitGroupKeeps ==
  ASSUME SegmentInv, WaitGroup
  PROVE  SegmentInv'
  <1> USE DEF SegmentInv
  <1>0. /\ pc = "load" /\ AllEnded
        /\ UNCHANGED <<leaf, worker, parts, cause, cancelled, group, packed>>
    BY DEF WaitGroup
  <1>1. \A i \in Workers : worker[i] \in Resting
    BY <1>0, WorkersAre DEF WorkersOK, AllEnded, Resting
  <1>2. CASE GroupFailed
    <2>1. cause \in {"ok", "failed", "cancelled"} /\ cause # "ok" /\ (cause = "cancelled" => cancelled)
      BY <1>2 DEF GroupFailed, SegmentTypeOK, ResultOK
    <2>2. Return(cause)
      BY <1>2 DEF WaitGroup
    <2> QED BY <1>0, <1>1, <2>1, <2>2, ReturnKeeps
  <1>3. CASE ~GroupFailed
    <2>1. pc' = "consume" /\ handle' = handle /\ result' = result
      BY <1>3 DEF WaitGroup
    <2>2. SegmentTypeOK' /\ ResultOK'
      BY <1>0, <2>1 DEF SegmentTypeOK, Stages, ResultOK
    <2>3. \A i \in Group(group) : parts[i] = i
      BY <1>0, <1>3 DEF PartsOK, AllEnded, GroupFailed
    <2>4. WorkersOK' /\ PartsOK'
      BY <1>0, <1>1, <2>1, <2>3, WorkersAre DEF WorkersOK, PartsOK
    <2>5. PackedOK'
      BY <1>0, <2>1, GroupAssumption DEF PackedOK, SegmentTypeOK, ResultOK, None
    <2>6. \A h \in Handles : Held(h)' <=> Held(h)
      BY <1>0, <2>1, HandleForms DEF Held
    <2> QED BY <2>1, <2>2, <2>4, <2>5, <2>6, SameHandlesOK
  <1> QED BY <1>2, <1>3

\* The part that is consumed next.
LEMMA NextPart ==
  ASSUME SegmentInv, pc = "consume"
  PROVE  LET i == Len(packed) + 1
         IN /\ i \in 1..Children /\ i \in Group(group) /\ parts[i] = i /\ i \in Nat
            /\ \A j \in 1..Children : parts[j] # Nil => parts[j] = j /\ j \in Group(group) /\ j >= i /\ worker[j] = "ended"
            /\ \A j \in Group(group) : j >= i => parts[j] = j
            /\ Group(group) \subseteq 1..Children
            /\ i <= group /\ group - GroupSize <= i - 1
  <1>1. Len(packed) \in Nat /\ group \in 0..Children
    BY DEF SegmentInv, SegmentTypeOK
  <1>2. Len(packed) \in (group - GroupSize)..(group - 1) /\ group >= GroupSize
    BY DEF SegmentInv, PackedOK
  <1>3. Group(group) \subseteq 1..Children /\ Len(packed) + 1 \in Group(group)
    BY <1>1, <1>2, GroupAssumption DEF Group
  <1> QED BY <1>1, <1>2, <1>3, GroupAssumption DEF SegmentInv, PartsOK

\* A part is written and given up.
LEMMA PackedNext ==
  ASSUME SegmentInv, pc = "consume",
         packed' = Append(packed, parts[Len(packed) + 1]), parts' = Forget(Len(packed) + 1)
  PROVE  /\ packed' \in Seq(Nat) /\ Len(packed') = Len(packed) + 1
         /\ \A k \in 1..Len(packed') : packed'[k] = k
         /\ parts' \in [1..Children -> Nat]
         /\ \A j \in 1..Children : parts'[j] = IF j = Len(packed) + 1 THEN Nil ELSE parts[j]
  <1> DEFINE i == Len(packed) + 1
  <1>1. i \in 1..Children /\ parts[i] = i /\ i \in Nat
    BY NextPart
  <1>2. packed \in Seq(Nat) /\ \A k \in 1..Len(packed) : packed[k] = k
    BY DEF SegmentInv, SegmentTypeOK, PackedOK
  <1>3. packed' \in Seq(Nat) /\ Len(packed') = i /\ packed'[i] = i /\ \A k \in 1..Len(packed) : packed'[k] = packed[k]
    BY <1>1, <1>2
  <1>4. \A k \in 1..Len(packed') : k \in 1..Len(packed) \/ k = i
    BY <1>2, <1>3
  <1>5. \A k \in 1..Len(packed') : packed'[k] = k
    BY <1>2, <1>3, <1>4
  <1>6. parts \in [1..Children -> Nat] /\ 0 \in Nat
    BY DEF SegmentInv, SegmentTypeOK
  <1>7. /\ parts' \in [1..Children -> Nat]
        /\ \A j \in 1..Children : parts'[j] = IF j = i THEN Nil ELSE parts[j]
    BY <1>6 DEF Forget, Nil
  <1> QED BY <1>3, <1>5, <1>7

\* The next part is consumed.
LEMMA ConsumeKeeps ==
  ASSUME SegmentInv, Consume
  PROVE  SegmentInv'
  <1> DEFINE i == Len(packed) + 1
  <1>0. pc = "consume" /\ UNCHANGED <<leaf, worker, cause, cancelled, group>>
    BY DEF Consume
  <1>1. \A w \in Workers : worker[w] \in Resting
    BY <1>0, NobodyWorks
  <1>2. CASE \E err \in Errors(FALSE) : Return(err) /\ UNCHANGED <<packed, parts>>
    <2>1. PICK err \in Errors(FALSE) : Return(err) /\ UNCHANGED <<packed, parts>>
      BY <1>2
    <2>2. err \in {"ok", "failed", "cancelled"} /\ err # "ok" /\ (err = "cancelled" => cancelled)
      BY DEF Errors
    <2> QED BY <1>0, <1>1, <2>1, <2>2, ReturnKeeps
  <1>3. CASE /\ packed' = Append(packed, parts[i])
             /\ CloseConsumed(i)
             /\ pc' = IF i = group THEN "group" ELSE "consume"
             /\ result' = result
    <2>1. /\ packed' = Append(packed, parts[Len(packed) + 1])
          /\ parts' = Forget(Len(packed) + 1) /\ Close({Records(i)})
      BY <1>3 DEF CloseConsumed
    <2>2. /\ packed' \in Seq(Nat) /\ Len(packed') = i
          /\ \A k \in 1..Len(packed') : packed'[k] = k
          /\ parts' \in [1..Children -> Nat]
          /\ \A j \in 1..Children : parts'[j] = IF j = i THEN Nil ELSE parts[j]
      BY <1>0, <2>1, PackedNext
    <2>3. /\ i \in 1..Children /\ i \in Group(group) /\ parts[i] = i /\ i \in Nat
          /\ \A j \in 1..Children : parts[j] # Nil => parts[j] = j /\ j \in Group(group) /\ j >= i /\ worker[j] = "ended"
          /\ \A j \in Group(group) : j >= i => parts[j] = j
          /\ Group(group) \subseteq 1..Children
          /\ i <= group /\ group - GroupSize <= i - 1
      BY <1>0, NextPart
    <2>4. pc' \in {"group", "consume"} /\ (pc' = "group" <=> i = group) /\ result' = result
      BY <1>3
    <2>5. result = None /\ group \in 0..Children
      BY <1>0 DEF SegmentInv, ResultOK, SegmentTypeOK
    <2> HIDE DEF i
    <2>6. SegmentTypeOK' /\ ResultOK'
      BY <1>0, <2>2, <2>4 DEF SegmentInv, SegmentTypeOK, Stages, ResultOK
    <2>7. WorkersOK'
      BY <1>0, <1>1, WorkersAre DEF SegmentInv, WorkersOK
    <2>8. PartsOK'
      <3>1. \A j \in 1..Children : parts'[j] # Nil =>
              /\ parts'[j] = j /\ j \in Group(group) /\ j > i
              /\ worker[j] = "ended"
        BY <2>2, <2>3
      <3>2. \A j \in Group(group) : j > i => parts'[j] = j
        BY <2>2, <2>3
      <3> QED BY <1>0, <2>2, <2>4, <3>1, <3>2 DEF PartsOK
    <2>9. PackedOK'
      <3>1. pc' = "consume" => i \in (group - GroupSize)..(group - 1)
        BY <2>3, <2>4, <2>5, GroupAssumption
      <3>2. group >= GroupSize
        BY <1>0 DEF SegmentInv, PackedOK
      <3> QED BY <1>0, <2>2, <2>4, <2>5, <3>1, <3>2 DEF PackedOK, None
    <2>10. \A h \in Handles : h \in {Records(i)} => Held(h)
      BY <1>0, <2>3, HandlesAre, GroupAssumption DEF Held, Nil
    <2>11. \A h \in Handles : Held(h)' <=> (Held(h) /\ h \notin {Records(i)})
      BY <1>0, <1>1, <2>2, <2>3, <2>4, HandleForms, HandlesAre, WorkersAre DEF Held, Resting
    <2>12. HandlesOK'
      BY <2>1, <2>10, <2>11, CloseOK DEF SegmentInv
    <2> QED BY <2>6, <2>7, <2>8, <2>9, <2>12 DEF SegmentInv
  <1> QED BY <1>2, <1>3 DEF Consume

\* Closing a part fails.
LEMMA ConsumeCloseFailsKeeps ==
  ASSUME SegmentInv, ConsumeCloseFails
  PROVE  SegmentInv'
  <1>0. /\ pc = "consume" /\ pc' = "returned" /\ result' = "failed"
        /\ packed' = Append(packed, parts[Len(packed) + 1]) /\ parts' = Forget(Len(packed) + 1)
        /\ UNCHANGED <<leaf, worker, cause, cancelled, group>>
    BY DEF ConsumeCloseFails
  <1>1. \A w \in Workers : worker[w] \in Resting
    BY <1>0, NobodyWorks
  <1>2. /\ packed' \in Seq(Nat) /\ Len(packed') = Len(packed) + 1
        /\ \A k \in 1..Len(packed') : packed'[k] = k
        /\ parts' \in [1..Children -> Nat]
        /\ \A j \in 1..Children : parts'[j] = IF j = Len(packed) + 1 THEN Nil ELSE parts[j]
    BY <1>0, PackedNext
  <1>3. /\ Len(packed) + 1 \in Nat
        /\ \A j \in 1..Children : parts[j] # Nil => parts[j] = j /\ j \in Group(group) /\ j >= Len(packed) + 1 /\ worker[j] = "ended"
    BY <1>0, NextPart
  <1>4. HandlesOK'
    BY <1>0, <1>1, ReturnCloses DEF ConsumeCloseFails
  <1>5. SegmentTypeOK' /\ ResultOK'
    BY <1>0, <1>2 DEF SegmentInv, SegmentTypeOK, Stages, ResultOK, None
  <1>6. WorkersOK'
    BY <1>0, <1>1, WorkersAre DEF SegmentInv, WorkersOK
  <1>7. PartsOK'
    <2>1. \A j \in 1..Children : parts'[j] # Nil =>
            parts'[j] = j /\ j \in Group(group) /\ j > Len(packed') /\ worker[j] = "ended"
      BY <1>2, <1>3
    <2> QED BY <1>0, <2>1 DEF PartsOK
  <1>8. PackedOK'
    BY <1>0, <1>2 DEF PackedOK
  <1> QED BY <1>4, <1>5, <1>6, <1>7, <1>8 DEF SegmentInv

\* The encoder is closed.
LEMMA FinishStreamKeeps ==
  ASSUME SegmentInv, FinishStream
  PROVE  SegmentInv'
  <1> USE DEF SegmentInv
  <1>0. /\ pc = "group" /\ group = Children
        /\ UNCHANGED <<leaf, worker, parts, cause, cancelled, group, packed>>
    BY DEF FinishStream
  <1>1. \A w \in Workers : worker[w] \in Resting
    BY <1>0, NobodyWorks
  <1>2. CASE \E err \in Errors(FALSE) : Return(err)
    <2>1. PICK err \in Errors(FALSE) : Return(err)
      BY <1>2
    <2>2. err \in {"ok", "failed", "cancelled"} /\ err # "ok" /\ (err = "cancelled" => cancelled)
      BY DEF Errors
    <2> QED BY <1>0, <1>1, <2>1, <2>2, ReturnKeeps
  <1>3. CASE pc' = "create" /\ UNCHANGED <<handle, result>>
    <2>1. SegmentTypeOK' /\ ResultOK'
      BY <1>0, <1>3 DEF SegmentTypeOK, Stages, ResultOK
    <2>2. WorkersOK' /\ PartsOK' /\ PackedOK'
      BY <1>0, <1>1, <1>3, WorkersAre DEF WorkersOK, PartsOK, PackedOK
    <2>3. \A h \in Handles : Held(h)' <=> Held(h)
      BY <1>0, <1>3, HandleForms DEF Held
    <2> QED BY <1>3, <2>1, <2>2, <2>3, SameHandlesOK
  <1> QED BY <1>2, <1>3 DEF FinishStream

\* The aggregate is created, or the readback starts.
LEMMA CreateAggregateKeeps ==
  ASSUME SegmentInv, createAggregate
  PROVE  SegmentInv'
  <1> USE DEF SegmentInv
  <1>0. pc = "create" /\ UNCHANGED <<leaf, parts, cause, cancelled, group, packed>>
    BY DEF createAggregate
  <1>1. \A w \in Workers : worker[w] \in Resting
    BY <1>0, NobodyWorks
  <1>2. Len(packed) = Children
    BY <1>0 DEF PackedOK
  <1>3. CASE Return("ok") /\ worker' = worker
    BY <1>0, <1>1, <1>2, <1>3, ReturnKeeps
  <1>4. CASE cancelled /\ Return("cancelled") /\ worker' = worker
    BY <1>0, <1>1, <1>4, ReturnKeeps
  <1>5. CASE pc' = "readback" /\ worker' = [worker EXCEPT ![0] = "get"] /\ UNCHANGED <<handle, result>>
    <2>1. /\ worker' \in [Workers -> Steps] /\ 0 \in Workers
          /\ \A j \in Workers : worker'[j] = IF j = 0 THEN "get" ELSE worker[j]
      BY <1>5, WorkersAre DEF SegmentTypeOK, Steps
    <2>2. SegmentTypeOK' /\ ResultOK'
      BY <1>0, <1>5, <2>1 DEF SegmentTypeOK, Stages, ResultOK
    <2>3. WorkersOK' /\ PartsOK' /\ PackedOK'
      BY <1>0, <1>1, <1>5, <2>1, WorkersAre DEF WorkersOK, PartsOK, PackedOK
    <2>4. \A h \in Handles : Held(h)' <=> Held(h)
      BY <1>0, <1>1, <1>5, <2>1, HandleForms, WorkersAre DEF Held, Resting
    <2> QED BY <1>5, <2>2, <2>3, <2>4, SameHandlesOK
  <1> QED BY <1>3, <1>4, <1>5 DEF createAggregate

\* The caller cancels.
LEMMA CancelKeeps ==
  ASSUME SegmentInv, Cancel
  PROVE  SegmentInv'
  <1> USE DEF SegmentInv, Cancel
  <1>1. SegmentTypeOK' /\ ResultOK'
    BY DEF SegmentTypeOK, ResultOK, None
  <1>2. WorkersOK' /\ PackedOK'
    BY DEF WorkersOK, PackedOK
  <1>3. PartsOK'
    <2>1. cause # None => cause' # None
      BY DEF None
    <2> QED BY <2>1 DEF PartsOK
  <1>4. \A h \in Handles : Held(h)' <=> Held(h)
    BY DEF Held
  <1> QED BY <1>1, <1>2, <1>3, <1>4, SameHandlesOK

-----------------------------------------------------------------------------
(* The theorems.                                                           *)

\* The invariant holds at first.
LEMMA SegmentInitOK == SegmentInit => SegmentInv
  <1> SUFFICES ASSUME SegmentInit PROVE SegmentInv
    OBVIOUS
  <1> USE DEF SegmentInit
  <1>1. SegmentTypeOK
    <2>1. 0 % GroupSize = 0
      BY GroupAssumption
    <2>2. worker \in [Workers -> Steps] /\ parts \in [1..Children -> Nat] /\ packed \in Seq(Nat)
      BY DEF Steps, Nil
    <2>3. group \in 0..Children /\ group % GroupSize = 0
      BY <2>1, GroupAssumption
    <2>4. leaf \in BOOLEAN /\ cancelled \in BOOLEAN
      OBVIOUS
    <2>5. /\ cause \in {None, "failed", "cancelled"} /\ pc \in Stages
          /\ result \in {None, "ok", "failed", "cancelled"}
      BY DEF Stages
    <2> QED BY <2>2, <2>3, <2>4, <2>5, Zenon DEF SegmentTypeOK
  <1>2. \A h \in Handles : ~Held(h)
    BY HandleForms, WorkersAre DEF Held, Nil
  <1>3. HandlesOK
    BY <1>2 DEF HandlesOK
  <1>4. WorkersOK /\ PartsOK /\ ResultOK
    BY WorkersAre DEF WorkersOK, PartsOK, ResultOK, Resting, None
  <1>5. PackedOK
    BY GroupAssumption DEF PackedOK, None
  <1> QED BY <1>1, <1>3, <1>4, <1>5 DEF SegmentInv

\* Every step keeps the invariant.
LEMMA SegmentStepOK == SegmentInv /\ [SegmentNext]_segmentVars => SegmentInv'
  <1> SUFFICES ASSUME SegmentInv, [SegmentNext]_segmentVars PROVE SegmentInv'
    OBVIOUS
  <1>1. CASE UNCHANGED segmentVars
    BY <1>1 DEF segmentVars, SegmentInv, SegmentTypeOK, HandlesOK, Held, WorkersOK, PartsOK, PackedOK, ResultOK
  <1>2. CASE Main
    BY <1>2, NewBodyKeeps, StartGroupKeeps, WaitGroupKeeps, ConsumeKeeps, ConsumeCloseFailsKeeps,
       FinishStreamKeeps, CreateAggregateKeeps DEF Main
  <1>3. CASE Cancel
    BY <1>3, CancelKeeps
  <1>4. CASE \E i \in Workers : WorkerStep(i)
    BY <1>4, WorkerKeeps
  <1> QED BY <1>1, <1>2, <1>3, <1>4 DEF SegmentNext

\* The invariant is an invariant.
LEMMA SegmentInvariant == SegmentSpec => []SegmentInv
  BY SegmentInitOK, SegmentStepOK, PTL DEF SegmentSpec

\* What it says of the handles.
LEMMA HandlesImply == SegmentInv => FilesAreClosedOnce
  <1> SUFFICES ASSUME SegmentInv PROVE FilesAreClosedOnce
    OBVIOUS
  <1> USE DEF SegmentInv
  <1>1. \A h \in Handles : handle[h] # "twice" /\ (handle[h] = "open" <=> Held(h))
    BY DEF HandlesOK
  <1>2. pc = "load" => \A h \in Handles : Held(h) => h = Body \/ h[1] \in Group(group)
    BY HandleForms, WorkersAre DEF Held, WorkersOK, PartsOK, Resting
  <1>3. pc = "returned" => \A h \in Handles : ~Held(h)
    BY HandleForms, WorkersAre DEF Held, WorkersOK, Resting
  <1>4. result # None => pc = "returned"
    BY DEF ResultOK
  <1> QED BY <1>1, <1>2, <1>3, <1>4 DEF FilesAreClosedOnce, OpenHandles

\* createSegment closes every file and response body exactly once whichever of its
\* concurrent workers fails, and holds those of one group at a time, for every number
\* of children and every group size (segment.go:61-124, 163-225).
THEOREM SegmentFilesClosedOnce == SegmentSpec => []FilesAreClosedOnce
  BY SegmentInvariant, HandlesImply, PTL

\* A segment that is created holds every child's records, in order
\* (segment.go:203-225).
THEOREM SegmentPackedInOrder == SegmentSpec => []PackedInOrder
  <1>1. SegmentInv => PackedInOrder
    BY DEF SegmentInv, SegmentTypeOK, PackedOK, PackedInOrder
  <1> QED BY <1>1, SegmentInvariant, PTL

\* A worker's failure is not reported as the cancellation that it causes
\* (segment.go:190-207).
THEOREM SegmentCauseIsReported == SegmentSpec => []CauseIsReported
  <1>1. SegmentInv => CauseIsReported
    BY DEF SegmentInv, ResultOK, CauseIsReported
  <1> QED BY <1>1, SegmentInvariant, PTL

=============================================================================
