# TLA+ specifications of lokv

lokv is an append-only log of event batches kept in an object store that offers
nothing but sorted listing, reads and *create if absent*. Any number of processes
append to one log without talking to each other; the store's atomic Create of the
next revision's key decides who wins. This directory specifies that protocol,
checks it on small instances with TLC and proves its safety for all instances with
TLAPS.

## 1. Inventory

| Component | State | Operations | Interacts with |
|---|---|---|---|
| Log (`log.go`) | none of its own; a `Snapshot` is an immutable loaded commit | `Append`, `AppendTo`, `LoadHead`, `LoadRevision`, `Head` | Store, frontier, segments |
| Frontier and carry (`objects.go`, `wire.go`) | 16 levels of references inside each commit, digit *l* of revision-1 at level *l* | `carry`, `validateFrontier`, `validateRef` | segments |
| Segments (`segment.go`) | content-addressed packed objects of 16^L records | `createSegment`, `createAggregate`, `loadRecordFile`, `decodeSegment` | Store, scratch files |
| Wire format (`wire.go`) | commits, projections, references, keys | encode, decode, validate, hash chain | all of the above |
| Scan (`scan.go`) | position and chain hash of one scan | `Scan`, `rangeReadPlan`, `readRange*`, `Verify` | segments, historical commits |
| State (`state.go`) | application value, applied revision, sticky error | `LoadState`, `Sync`, `SyncTo` | `LoadHead`, `Scan`, caller's `AppendTo` |
| Store (`store.go`) | create-only key/value namespace | `List`, `Get`, `Create` | implemented by the four below |
| memstore, diskstore | a map; files published by `link` and synced | the Store operations | |
| cachestore | a local copy of immutable objects | the Store operations, fills on read | an inner Store |
| s3store | a bucket; multipart uploads in progress | the Store operations, retries of 409, abort | S3 |

What is hard here:

* **Ambiguous Creates.** A Create may publish its object and still report an error,
  or report ErrExists about the caller's own object, or fail now and take effect
  later. The log resolves each case by reading the key back and comparing commit
  IDs (`appendPrepared`, log.go:455-481).
* **Retries over such Creates.** `Append` reuses its commit ID in the next attempt
  while PUTs of earlier attempts may still be under way.
* **Races.** Between LoadHead and Create the head moves; several writers pack the
  same segments; `AppendTo` may work on a base that was overtaken long ago.
* **Crashes** between the segments of a carry and the commit that refers to them.
* **Boundaries**: carries over several levels at once, the last revision.
* **Decisions on projections.** A client decides on a State that is stale when its
  append commits; syncs are interrupted and resumed; a failing apply leaves a batch
  half applied.
* **Power loss** under diskstore, where values are visible before they are durable.
* **Scans through historical commits**, whose frontiers no hash of the segment covers.
* **Worker groups** that share a cancellation and hold files and response bodies when
  one of them fails (segment loading, multipart uploads).
* **Cache fills** that race with each other, with Creates that end in doubt and with
  readers that stop early.
* **S3**: answers that are lost or come before their effect, conflicts, uploads that
  stay behind, listings that grow between two pages.

`PROJECT.json` lists each hazard at its line with the properties that cover it.

What makes the components correct: the log is gap-free, each invocation appends at
most once, results tell the truth (now and later), references resolve, the tree
holds exactly the history, racing carries converge, and no writer's validation rejects
what another one stored; a scan yields the log and nothing else; every adapter keeps the
contract of Store; no file, response body or known upload is left behind unreported.

## 2. Modules

| Module | What it specifies |
|---|---|
| `Frontier` | references, the frontier, the carry step on it and `validateFrontier` as pure operators (wire.go, objects.go) |
| `Store` | the Store contract with everything a caller of Create may be told and everything that may have happened (store.go) |
| `LokvLog` | `Append` and `AppendTo` of any number of invocations over one Store, one action per store operation (log.go, objects.go, segment.go) |
| `LogInvariant` | the inductive invariant `IInv` |
| `EventLog` | what the callers are promised: a sequence of batches and truthful results |
| `LogRefinement` | the refinement mapping from `LokvLog` to `EventLog` |
| `MCLog` | `LokvLog` for model checking |
| `State` | one client's projection: SyncTo, the resumable revision and the sticky error (state.go) |
| `Registration` | clients that decide on a State and append with AppendTo, over `EventLog` (state.go, example_state_test.go) |
| `MCRegistration` | the batches of writers that break the registration protocol |
| `DiskStore` | Create and List over a file system with syncs and power loss (diskstore) |
| `MCDiskStore` | directory trees and programs of its writers |
| `Scan` | Scan, its read plan and the historical representation, over a damaged store (scan.go) |
| `SegmentFiles` | the worker groups and scratch files of createSegment and createAggregate (segment.go, tempfile.go) |
| `StoreContract` | what Create promises: one winner for each key, truthful answers (store.go) |
| `CacheStore` | Create and Get over two instances of `Store`, shown to implement `StoreContract` (cachestore) |
| `S3Store` | Create by PutObject or multipart upload, shown to implement `StoreContract` (s3store) |
| `S3List` | List page by page (s3store) |
| `FrontierCarry` | one writer's carries at the code's radix, over thousands of revisions |
| `LokvLogProofs` | proofs about `LokvLog`: the inductive invariant, what follows from it, and that `LokvLog` implements `EventLog` |
| `TreeProofs` | proofs about the radix tree: the carry at any radix (`FrontierCarry`) and what the tree of `LokvLog` holds |
| `SequenceLemmas` | induction on sets of numbers, the places of appended and concatenated sequences, and what FlattenSeq computes |
| `RegistrationProofs` | proofs about `State` and `Registration` |
| `CacheStoreProofs`, `DiskStoreProofs`, `S3StoreProofs` | proofs about the adapters and their contract |
| `SegmentFilesProofs` | proofs about the worker groups of createSegment |

### LokvLog and the code

An invocation is named by the commit ID that `prepare` draws, which stands for the
batch as well. Its program counter:

| `pc[i]` | where the code is | action |
|---|---|---|
| `unused` | before the call | `CallAppend`, `CallAppendTo`, `Reject` (errors before any I/O) |
| `list`, `get` | LoadHead | `List`, `Get` |
| `pack` | carry has filled a level; the children are loaded and packed | `createSegment` |
| `aggregate`, `readback` | createAggregate, before Create and after its error | `createAggregate`, `readback` |
| `create` | the commit is encoded, validated and decoded | `createCommit` |
| `lookup` | Create has failed; the key is inspected | `lookup` |
| `returned` | the call has returned `out[i]` | |

The computation between two store operations (`appendPrepared`, `Carry`, `Seal`,
`Conflict`, `Winner`) belongs to the action of the store operation before it, with
every validation the code makes; a validation that fails is a return with result
"corrupt". `Fail` is a cancelled context, a store or scratch-file error, or the end
of the process, at any point: the invocation stops, what it has stored stays.
Restarts need no action of their own, since a restarted process is a new
invocation: lokv keeps no local state.

Logs that share a store may have different types T: `Decodes` holds the pairs (*i*,
*j*) such that *j*'s batch unmarshals into the T of *i*'s Log. Whatever loads a commit
(`Get`, the check before the commit's Create in `Seal`, `Winner`) goes through
`snapshot`, which is `decodeCommit` and `record`; a batch that does not decode is
reported as ErrCorrupt there, as the code does (log.go:187-188).

`since[i]` is a history variable: the head when Append was called, or the revision
of AppendTo's base. No guard reads it.

Data is abstracted as follows. A record's hash is the sequence of (revision, ID)
pairs it commits to, so equal hashes mean equal chains. A digest is the object
itself, tagged. A key is a tuple; log keys count down from `MaxInt64` and `List`
picks the least of them, as the code does. The wire form of a frontier (nonempty
levels only, in order) is a function from all levels.

In the mapping to `EventLog` an invocation that ended with any error but ErrConflict
and ErrExhausted, or one about the batch itself, is "unknown": ErrCorrupt too says
nothing about the batch. That it is returned only by a Log whose T cannot decode its
own batch or one in the log is a property of its own, `NoFalseCorruption`.

`Store.Create` has a disjunct for each outcome: published; refused; ErrExists about
the caller's own object; an error with the object published, not published, or with
its PUT still under way (`late`), which `Land` completes at any later time.

### State and Registration

`State` models the application value by the sequence of the events applied to it,
which determines any fold. Scan yields the batches after the applied revision one at
a time and may stop between two; a batch is applied in one step, since the callback
observes no cancellation. `Registration` instantiates it with `apply` of the example
and composes it with the abstract log `EventLog` that `LokvLog` implements: this is
where the promises of `EventLog` are put to use, in particular that a conflict is
final while any other error is not (`Interrupt` leaves an append that `Commits` may
complete later). `granted` is a history variable. Writers that ignore the protocol
(`CarelessAppend`) exist only in the run about poisoning.

### DiskStore

Directories are numbered in the bytewise order of their encoded paths (`Encoded`, with
one number for each byte of the key); `Above` is the chain a key's path makes. The file system has two states for each entry, visible and
durable (`dirs`/`kept`, `value`/`keptValue`); `Fsync` copies one directory's entries
to the second and `PowerLoss` keeps any set in between. A temporary file is
"written", "synced" or, after a power loss, "torn". Each system call of Create is an
action, each ReadDir of List too; os.MkdirAll is one step, since a path made in part
holds no value. List is called with any prefix of `Queries`: a value counts if its key
`Matches` it, and a directory is entered if its path `Overlaps` it. Temporary files that stay behind are invisible to
List and Get and are not tracked. A Create that a process abandons (`Fail`) leaves
what its last system call left; a List that fails returns no keys.

### Scan

The log is intact up to one fault that the initial state picks: an object is missing
(`Missing`), or the frontier of one commit leads to other, well-formed records for a
range of revisions (`Claim`). The second is the interesting one: a reference carries
the digest of its object, but the commit at a segment's end is fetched by revision
and only its record hash is known. `readRangeParts` and `readRangeSpool` are
functions of a reference and a range that return what they hand on, whether they
end well, and the Gets they made; an object is validated completely before its first
record is handed on, so nothing is lost by making one object one step. `Visit` is
one reference of the snapshot's frontier, `EmitHead` the snapshot's own record; in
each the callback or the context may stop the scan at any record. `rangeReadPlan`
and `readRangeParts` are recursive operators, so this module is for TLC only.

### SegmentFiles

`LokvLog` loads and packs the children of a segment in one step, which is sound
because stored objects never change. `SegmentFiles` opens that step. Worker *i* runs
`loadRecordFile` of child *i* (`temp`, then `commit`, or `get`, `spool`, `copy` and
`decode`), and worker 0 is the readback of `createAggregate`. Each step succeeds or
fails, alone or because its context was cancelled; `WorkerFails` names the handles
that the deferred functions close at that point. `handle` counts: a second Close
turns a handle to "twice". `cause` is `context.Cause` of the group, which the first
call of cancel decides.

### The adapters and StoreContract

`StoreContract` has two variables, the holder of each key and the answer of each
call, and says which answers are true. `Store` is the same contract seen from one
call: there Create is one step, here publication and return are apart. `CacheStore`
and `S3Store` each have an `ImplementsContract` with their refinement mapping; `DiskStore` states the same without power loss as `FirstWins` and with it as
`AcknowledgedIsKept`.

* `CacheStore`: one key, whose value is a sequence of chunks. A reader's record holds
  the fields of `fillReader` and how much was read; pieces have any size, an EOF may
  come with data or alone, the scratch file may fail to open or to be written.
* `S3Store`: S3 is `Send`: a conditional request takes effect now, never or later
  (`late`, `Land`), and is answered with success, 412, 409 or an error, where a 412
  may be about the call's own object. The answer to an initiation may be lost as well,
  whether the SDK's next request succeeds or it gives up; the upload is then `Stranded`:
  nobody knows its ID, and doc.go:38-41 leaves it to a lifecycle rule of the bucket.
  `UploadsAreCleanedUp` is about the uploads whose ID the call was told. A part upload is one step: a success that
  overlaps with another worker's failure is the same as one before it. `reported`
  records that the error returned tells of a failed abort. Parts that
  arrive at S3 after the abort of their upload are not modelled; S3 documents that
  they may stay behind.
* `S3List`: keys are numbers; the server keeps to ListObjectsV2 (`HonestPages`, with
  short pages) or answers anything (`AnyPages`).

### Mutants

Operators whose comment starts with "Mutant" are wrong variants of the definition
that follows them. No specification uses them; replacing the definition by its
mutant makes the property named in `PROJECT.json` fail, which shows that the
property depends on that piece of the code.

## 3. Model checking

| Run | Instance | Shows |
|---|---|---|
| `race` (Race.cfg) | radix 2, 2 revisions, 3 invocations, one of them of an older T, 2 at a time, 1 retry, 1 late PUT | `IInv`, the promises to callers, and that every call returns |
| `carry_race` (CarryRace.cfg) | radix 2, levels 0-2, 4 quiet revisions, then 3 concurrent invocations race for revision 5 and on stale bases, one of them of an older T with a batch that does not decode, 1 late PUT | the tree: `ReferencesResolve`, `HistoryComplete`, `SegmentsConverge`, `NoFalseCorruption`; and that `LokvLog` implements `EventLog` |
| `carry` (Carry16.cfg) | radix 16, 6 levels, MaxRevision 4200 | carry and `validateFrontier` agree, through the first level-3 segment and up to the last revision, which is reached with the number of segments DESIGN.md gives |
| `registration` (Register.cfg) | 2 clients, 2 names, 2 operations each, 3 revisions, 7 appends | names are unique, no State is poisoned, success is reported once, every operation returns |
| `poisoning` (Poison.cfg) | 1 client with 3 operations, careless batches of 2 events, 4 appends, 3 revisions | the projection is the log; poisoning is final |
| `disk` (Disk.cfg) | 2 writers with 2 keys each, nested directories, 1 List of 2 keys with one of 4 prefixes, any number of power losses | acknowledged values are durable and whole, List returns the keys with its prefix and passes over none |
| `scan` (Scan3.cfg) | radix 3, levels 0-2, snapshots of 0 to 11 revisions, all ranges and `After` at its edges, three batch sizes, each possible fault | nothing but the log is yielded, scans are complete, Gets are as planned |
| `segment_files` (SegmentFiles.cfg) | 8 children in groups of 4, commits or segments | files are closed once, the cause is reported, createSegment returns |
| `cache` (Cache.cfg) | 2 writers, 2 readers that start over, values of 2 chunks, 2 late PUTs in each store | the cache is faithful, and the contract |
| `s3` (S3.cfg) | 2 calls with values of 4, 5 or 7 bytes, up to 3 parts of up to 2 bytes, 2 workers, 1 retry, 2 late requests | objects are whole and in parts S3 accepts, uploads that a call knows of are cleaned up, Create returns, and the contract |
| `s3_pages` (S3Pages.cfg) | 4 keys and one outside of the prefix, pages of 2, limits 1, 3 and 5 | List is complete and returns |
| `disk_power_loss` (DiskPowerLoss.cfg) | 2 writers that pack the same segment, one commits | **violated**: see below |

`disk_power_loss` documents a disagreement. DESIGN.md (9.3) says that a successful
commit is safe "because every referenced aggregate was written first". Under
diskstore a writer that finds the aggregate already linked by another one gets
ErrExists at once, without a sync, and goes on; if the power fails before the first
writer has synced the aggregate's directory, the commit survives and the aggregate
need not. Syncing the directories before returning ErrExists would close this. File
systems that write out all earlier metadata with any fsync hide it; POSIX does not
ask for that.

Bounds. Three invocations are enough for one to lose to two different winners, so
that Append exhausts one retry, with a base, a winner and a bystander all distinct;
in `race` two run at a time, and the third follows one of them. A late PUT is left
behind by one attempt and lands under any later one, its own retry included. In
`carry_race` the append of revision 5 packs records 3-4 into a segment and that
segment with 1-2 into another, so both rounds of a multi-level carry race; the
first four revisions are appended without faults (`QuietPrefix`) because earlier
revisions only repeat the same cases with fewer levels. What the two runs leave out
by their size, more invocations or late PUTs at once, is in the theorems of section
4. MaxRevision is the last revision of each instance, so exhaustion is part of every
run. In `carry` MaxRevision lies inside a block of the higher levels, as 2^53-1 does
in the code (16^13 < 2^53 < 16^14).

Deadlock is not checked: a behaviour ends when all invocations have returned or the
revision space is used up. Symmetry permutes the racing invocations, which no
definition tells apart, in `carry_race` only: no run with a liveness property uses it.

Fairness. `race` assumes, for `Termination`, weak fairness of each invocation's own steps
(`Step`): a goroutine that is not blocked keeps running, and the code has no lock,
channel or condition between invocations. No fairness is assumed of `Fail`, of new
calls or of late PUTs. A Create may fail each time; the call then ends with an
error, so termination does not need a store that recovers. `registration`
assumes the same of each client's steps: AppendTo returns, which `Termination`
says, and the goroutine goes on. A client loses only to appends that commit, of
which there are finitely many in a bounded log, so nobody needs strong fairness (seven
commit IDs are enough that no client lacks one for its next attempt); with
unboundedly many competing writers the code makes no such promise.

In `registration` the two clients can each lose a race and register again, and an
interrupted append of one can commit under the next operation of either. In
`poisoning` one client is enough, because clients do not touch each other's States;
the careless batches fail at their second event, so a batch is applied in part, or
are valid, so that events and revisions are counted differently. In `disk` the key of
the one writer lies in the directory of a key of the other, so that each depends on
directories the other has made. In `scan` radix 3 and 11 revisions have segments of
levels 1 and 2 in one frontier, and a level-2 segment split at two levels; the batch
sizes make the plan prefer the packed object, the historical one, or each for some
ranges. Two groups in `segment_files` show that the files of the one are closed
before the next begins; the group has the code's size. In `s3` 4 bytes are the
multipart threshold and go by PutObject, 5 are just above it and have more parts than
workers, the last of them short, because the part size is rounded up, and 7 are too
large; 1 retry gives a call two uploads it knows of, besides those whose initiation was
lost. In `disk` the prefixes are the empty one, a part of a chunk, a long key below the
directory of a shorter one, and a key beside them.

In `race` one Log decodes no batch of the others, so that it meets one at the head and
at a lost race; in `carry_race` its own batch does not decode either, and its append
fails after it has packed the segments.

`segment_files`, `s3` and `s3_pages` assume weak fairness of each goroutine's
steps, which includes that the store, S3 and the file system answer, with an error if
need be. The code passes its contexts to all of them and waits for nothing else. No
fairness is assumed of cancellation or of late effects.

## 4. Proofs

Every theorem holds for all values of the constants that satisfy the assumptions
below, where the runs of section 3 show it for one instance.

| Theorem | Property | For every |
|---|---|---|
| `Invariance`, `TypeCorrect`, `NoGaps` | `IInv`, `TypeOK`, `GapFree` | radix, revision bound, retry bound, number of invocations and of late PUTs |
| `CommitsAtMostOnce` | `AtMostOnce` | |
| `RefusalIsFinal` | `RefusedIsFinal` | |
| `AcknowledgedCommits` | `AcknowledgedIsCommitted` | |
| `CommitsInOrder` | `CommittedInOrder` | |
| `RetriesAreSpent` | `RetriesAreContended` | |
| `ReferencesAreResolved` | `ReferencesResolve` | |
| `LogImplementsEventLog` | `ImplementsEventLog` | |
| `TreeInvariance` | `TreeInv` (no run lists it) | the same, and every number of levels |
| `HistoryIsComplete` | `HistoryComplete` | |
| `SegmentsAreUnique` | `SegmentsConverge` | |
| `CorruptionIsNeverInvented` | `NoFalseCorruption` | |
| `CarryBuildsValidFrontiers` | `FrontierValid` | radix, number of levels, revision bound |
| `StateIsFold` | `ProjectionMatches` | clients, names, invocations, and batches of careless writers |
| `StatePoisonIsFinal` | `PoisonIsFinal` | |
| `RegisterUniqueNames` | `UniqueNames` | the same, without careless writers |
| `RegisterNeverPoisoned` | `NeverPoisoned` | |
| `RegisterAnswersAreTrue` | `AnswersAreTrue` | |
| `CacheFaithful` | `CacheIsFaithful` | writers, readers, length of values, late PUTs in each store |
| `ScratchClosed` | `ScratchIsClosed` | |
| `CacheImplementsContract` | `ImplementsContract` | |
| `DiskValuesAreWhole` | `ValuesAreWhole` | tree of directories, writers, their keys, power losses |
| `DiskAcknowledgedIsKept` | `AcknowledgedIsKept` | |
| `DiskFirstWins` | `FirstWins` | |
| `DiskListIsCurrent` | `ListIsCurrent` | the same, with any prefix and limit |
| `S3ObjectIsWhole` | `ObjectIsWhole` | calls, sizes, limits, workers, retries, late requests |
| `S3UploadsAreCleanedUp` | `UploadsAreCleanedUp` | |
| `S3ImplementsContract` | `ImplementsContract` | |
| `S3ListIsComplete` | `ListIsComplete` | bucket, limit, page size |
| `SegmentFilesClosedOnce` | `FilesAreClosedOnce` | number of children and group size |
| `SegmentPackedInOrder` | `PackedInOrder` | |
| `SegmentCauseIsReported` | `CauseIsReported` | |

`TypeOK` and `GapFree` are parts or direct consequences of `IInv`, and no run lists
them.

Assumptions. `LokvLog`: a radix of at least 2, a finite set of IDs, a revision space
that fits the levels and is smaller than MaxInt64. `RegAssumption`: the last revision is a natural number, 0 is no commit ID
and "none" no name, by which the model marks their absence, and careless writers
append events of the log's type. `CacheAssumption`: there is a writer and values are
not empty; every object of the log has bytes. `DiskAssumption`: directories lie in v1
and v1 in the root, and each writer creates something; each
directory's path extends that of the one that holds it; `OrderAssumption`: they are
finitely many and numbered in the bytewise order of their paths, and what lies in a
directory comes right after it. `ListAssumption`: limits are positive, which
List checks, and a page has room for a key. `S3Assumption`: sizes
and limits are natural numbers, the limits on parts are positive, and the part size
that the code starts from and the smallest part are within the largest one, as its
constants are (multipart.go). `GroupAssumption`: the group size divides the number of
children, as 4 divides 16. TLC evaluates each of them in the run of its module.

### LokvLog

The properties are not inductive alone. `AtMostOnce`, for example, could be broken
by a late PUT of an invocation that has meanwhile been told of a conflict, and
nothing in `AtMostOnce` excludes such a PUT. `IInv` adds what each piece of state
that can still become a record may contain:

* `RecordInv`: the owner of a record is still looking it up, has returned with an
  error that leaves the outcome open, or was acknowledged at exactly that revision;
* `LateInv`: a late PUT is a segment, or its key is taken, or it belongs to an
  invocation without a record that may own this one;
* `LateOnce`: the late PUTs of one invocation that may still land are for one
  revision. This is the heart of the retry argument: an invocation moves on to
  another revision only after it saw another winner under the key of its own, so
  the PUT it leaves behind can never land;
* `StageInv`: what each local variable means at each stage; in particular a base is
  a committed snapshot, a frontier under construction resolves, and every conflict
  of Append has moved the head past one more revision (`Progress`).

The proof has one lemma per action (`ListStep`, `createCommit` in
`CreateCommitStep`, ...). They rest on what an action can do to the store:
`SameLog` (nothing is committed), `CommitPut` (a commit takes effect, by its Create
or by landing) and `CommitLate` (a PUT is left under way), on `*Effect` lemmas
about the local computations, and on `Combine`, which restores `IInv` from these
parts.

The refinement of `EventLog` builds on `IInv`: a Create that publishes and a PUT that lands
map to `CommitBatch`, a return maps to the abstract return with its result, and all
else is a stutter. The invariant supplies the guards of the abstract steps: that the
published key is the next revision, that the batch is not in the log yet, and that
an invocation that reports a conflict has lost for good.

### The tree

`TreeProofs` shows that the tree is right for every radix, number of levels and
revision bound, in three layers.

* Arithmetic. `Size[l]` is a power of the radix; `Whole(n, l)` is the part of 1..*n*
  that whole blocks of level *l* cover. `WholeBefore` and `WholeBetween` say what
  becomes of these when *n* grows by one.
* Frontiers. `Block`, `Tile` and `Tiled` say that a reference spans one block, the
  references of a level a run of blocks, and a frontier 1..*n*, each with the chain hashes at
  its edges; `Carrying` is the same of a frontier with a carry at some level. One
  round of the carry takes a `Carrying` frontier to one that is `Tiled` or `Carrying`
  one level up, and `validateFrontier` accepts a `Tiled` one, its sum over all levels
  included. This alone gives `CarryBuildsValidFrontiers`.
* The store. `TreeInv` says that everything stored, every PUT under way and every object
  an invocation is about to create is an `Item`: a commit whose frontier is `Tiled` over
  the log before it, or the one segment that packs its block of the log. It needs to
  speak of objects that are not stored yet, because a late PUT may land under any later
  state; and it can, because an item is described by the log up to its own end, which
  never changes.

`SegmentsConverge` follows, since an item is a function of its key's range;
`NoFalseCorruption`, since each validation is passed by items, so that decoding into T
is all that can fail (`Blamed`); and `HistoryComplete`,
since segments of a `Tiled` frontier flatten to slices of the log that join up
(`FlattenSlices`). The proof found one flaw of the model: `Winner` was a CASE with
overlapping guards, which leaves the choice open; it is an IF now, in the order of the
code.

### State and Registration

`Events`, the fold that `ProjectionMatches` compares with, is FlattenSeq of the
batches. `FlattenStep` (in `SequenceLemmas`) proves what it computes over one more
batch, by the least-number principle on sets (`Least`, `SetInduction`), which needs no
operator as a parameter. `RegInv` then adds to `ProjectionMatches` that a projection is never ahead
of its snapshot nor the snapshot of the log (`SyncsOK`), that logged batches do not
change (`LoggedOK`), and that nothing is applied to a poisoned State (`StagesOK`). `LogGrows` is what
any step may do to the log, and one lemma per action does the rest.

For the protocol, `ProtocolInv` says why a stale decision is harmless. An invocation is
an AppendTo whose ID is one more than its base and whose name is free up to its base
(`InvokedOK`); a batch is in the log right after its base (`PositionsOK`). Hence a
batch that enters, however late, has the ID of its revision and a name that no
earlier batch has. A name is granted once because its only entry in the log belongs
to one invocation, and an invocation to one client that then lets go of it
(`PendingOK`, `GrantedOK`).

### The adapters

* `CacheInv`: what is in the cache or on its way there is the origin's value, a writer
  fills only after its value is the origin's, and a reader's scratch file holds the
  part of that value that it has read. Values of the origin never change, so none of
  this can be undone by another process.
* `DiskInv`: while a Create climbs the directories, each directory above its key is
  durable or has its parent still ahead (`CreateOK`). This is what makes
  `AcknowledgedIsKept` true when other writers made the directories: nothing is
  skipped because it exists. `Above` is the least set of directories closed under
  parents, so that the proof needs no induction over depth.
* `DirListInv`, for List of diskstore: the directories still to read lie apart and in
  order, what is found comes before all of them, and a key with the prefix that was there
  when List began is found or lies in one of them (`WalkOK`): all directories above such
  a key overlap the prefix (`AboveOverlaps`), so pruning loses none. It rests on `PathsOK`, that values
  lie in directories that exist, which a power loss preserves. The order of
  ReadDir's entries is stated (`Sorted`), not computed by sorting, so that the
  provers can use it.
* `ListInv`, for List of s3store: the keys it has are the first of the bucket as far as
  the token, but for those created behind it (`PagesOK`).
* `S3Inv`: a request under way carries the complete value of its call; worker *k*
  has uploaded all its parts below the next one, so that all parts are there when all
  workers are through (`WorkersOK`); an upload that lives is that of the attempt under
  way, was reported or is stranded (`UploadsOK`). `PartLengths` and the lemmas before it are
  the arithmetic of part sizes and counts at S3's limits.
* The refinements of `StoreContract` follow: a publication is one abstract step, a
  return another, everything else a stutter.

### SegmentFiles

`SegmentInv` says who holds each handle: it is open exactly when `Held` says so, from
the step of its worker and the parts that were loaded. Thus no close can be a second
one and nothing is open at the end. The other parts say where workers may be at each
stage and that the packed records are a prefix of the children.

### What is only model-checked

* `YieldsTheLog`, `ScansAreComplete` and `GetsAsPlanned`: the operators of `Scan` are
  recursive, which TLAPS does not support.
* `DependenciesAreKept`, which is violated.
* The liveness properties `Termination`, `RegisterReturns`, `ReachesMaxRevision`,
  `CreateSegmentReturns`, `CreateReturns` and `ListReturns`: TLAPS does not reason
  about fairness or ENABLED. Where the run's specification states fairness for them, the
  safety theorems use the same next-state relation.

## 5. Not modelled

* JSON and hexadecimal syntax, required-field checks, zstd framing: model objects
  are well-formed records. They are single-threaded parsers without state, better
  tested by fuzzing. In `LokvLog` the validations are modelled to show that they never
  reject what the protocol produces, in `Scan` to show what they keep out.
* Get of each adapter, `LoadRevision` and `Head`: reads of one object.
* The validation of configurations (`Open`, `New`), error texts and the cache's error
  callback.
* The commit ID is unique; 128 random bits are taken to be so.
* memstore: a map and the sorted slice of its keys behind one mutex. Each operation is
  one critical section, so that it is the atomic store of `Store` itself.
* The conformance suite (`storetest`), a test; `StoreContract` states what it tests.

## 6. What could follow

Every invariant that a run checks is proved but those of `Scan`. `YieldsTheLog` would
need its recursive operators rewritten as functions of the level, and an induction that
every record a read hands on is validated; `ScansAreComplete` and `GetsAsPlanned`
besides that the frontier theory of `TreeProofs` for historical commits.
