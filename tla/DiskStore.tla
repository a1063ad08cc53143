----------------------------- MODULE DiskStore ------------------------------
(***************************************************************************)
(* diskstore (diskstore.go): Create, List and what survives a power loss,  *)
(* for processes that share a directory.                                   *)
(*                                                                         *)
(* The file system keeps, for each directory, the entries processes see    *)
(* and those that would survive; fsync of a directory makes its entries    *)
(* durable, and a power loss keeps any set between the two.  That is all   *)
(* POSIX grants.                                                           *)
(*                                                                         *)
(* A directory is named by its place in the bytewise order of the encoded  *)
(* paths, in which List visits them.  Every key has a directory of its     *)
(* own, holding its value "!" and, under a full chunk, directories of      *)
(* longer keys.                                                            *)
(***************************************************************************)
EXTENDS Integers, SequencesExt, FiniteSetsExt

CONSTANTS
  Keys,     \* directories of the keys
  Inner,    \* directories that belong to no key
  Parent,   \* Parent[d]: the directory that holds d
  Encoded,  \* Encoded[d]: the bytes of a key that the path from v1 to d spells
  Writers, Listers,
  Program,  \* Program[w]: the keys w creates, one after the other
  Queries,  \* the prefixes that List is called with
  limit     \* of List

Root == 0  \* s.dir, durable by the caller's care
V1 == 1
Dirs == Keys \cup Inner \cup {V1}
None == "none"

\* Directories form a tree under v1 with the root outside, each name adding to the
\* path, and every writer creates something.  List refuses a limit that is not positive
\* (diskstore.go:83).
ASSUME DiskAssumption ==
  /\ Dirs \subseteq Nat /\ Root \notin Dirs
  /\ Parent \in [Dirs -> Dirs \cup {Root}]
  /\ \A d \in Dirs : Parent[d] < d /\ (Parent[d] = Root => d = V1)
  /\ Encoded \in [Dirs -> Seq(Nat)] /\ Encoded[V1] = <<>>
  /\ \A d \in Dirs \ {V1} : IsStrictPrefix(Encoded[Parent[d]], Encoded[d])
  /\ Queries \subseteq Seq(Nat)
  /\ limit \in Nat \ {0}
  /\ None \notin Writers
  /\ Program \in [Writers -> Seq(Keys) \ {<<>>}]

VARIABLES
  dirs,     \* directories that exist, besides Root
  value,    \* value[k]: the writer whose file is linked under k, or None
  kept,     \* directories whose entry in their parent is durable
  keptValue,
  file,     \* file[w]: w's temporary file for each key
  pc, todo, \* todo[w]: the keys w has still to create
  at,       \* at[w]: the directory to sync next
  acked,    \* pairs <<w, k>>: w's Create of k has returned nil
  refused,  \* pairs <<w, k>>: it has returned ErrExists
  prefix,   \* prefix[l]: the prefix l lists
  walk,     \* walk[l]: the directories List has still to read
  found,    \* found[l]: the keys it has found
  before    \* before[l]: the keys visible when it began, for the properties

fsVars == <<dirs, value, kept, keptValue, file>>
createVars == <<todo, at, acked, refused>>
listVars == <<prefix, walk, found, before>>
diskVars == <<fsVars, pc, createVars, listVars>>

\* A set of directories with those that hold them.
ClosedUp(S) == \A e \in S : Parent[e] \in S \cup {Root}

\* The directories from d up to the root: the least such set with d in it.
Above(d) ==
  {e \in Dirs : \A S \in SUBSET Dirs : ClosedUp(S) /\ d \in S \cup {Root} => e \in S}

\* The bytewise order.
Precedes(s, t) ==
  \/ IsStrictPrefix(s, t)
  \/ \E i \in DOMAIN s \cap DOMAIN t : s[i] < t[i] /\ \A j \in 1..(i - 1) : s[j] = t[j]

\* Directories are numbered in the order of their paths, and what lies in d comes before
\* whatever comes after d and does not lie in it: only a full chunk has directories in it.
ASSUME OrderAssumption ==
  /\ IsFiniteSet(Dirs)
  /\ \A d, e \in Dirs : d < e <=> Precedes(Encoded[d], Encoded[e])
  /\ \A d, e \in Dirs : d < e /\ d \notin Above(e) => \A x \in Dirs : d \in Above(x) => x < e

Goto(p, stage) == pc' = [pc EXCEPT ![p] = stage]

DiskInit ==
  /\ dirs = {}
  /\ value = [k \in Keys |-> None]
  /\ kept = {}
  /\ keptValue = value
  /\ file = [w \in Writers |-> [k \in Keys |-> None]]
  /\ pc = [p \in Writers \cup Listers |-> "new"]
  /\ todo = Program
  /\ at = [w \in Writers |-> Root]
  /\ acked = {} /\ refused = {}
  /\ prefix = [l \in Listers |-> <<>>]
  /\ walk = [l \in Listers |-> <<>>]
  /\ found = [l \in Listers |-> <<>>]
  /\ before = [l \in Listers |-> {}]

\* New opens or creates the directory.
New(p) ==
  /\ pc[p] = "new"
  /\ dirs' = dirs \cup {V1}
  /\ Goto(p, IF p \in Writers THEN "stat" ELSE "list")
  /\ UNCHANGED <<value, kept, keptValue, file, createVars, listVars>>

-----------------------------------------------------------------------------
\* Create returns nil or ErrExists, and the caller goes on with its next key.
Return(w, err) ==
  /\ todo' = [todo EXCEPT ![w] = Tail(@)]
  /\ Goto(w, IF Len(todo[w]) = 1 THEN "done" ELSE "stat")
  /\ acked' = IF err = "ok" THEN acked \cup {<<w, Head(todo[w])>>} ELSE acked
  /\ refused' = IF err = "exists" THEN refused \cup {<<w, Head(todo[w])>>} ELSE refused
  /\ at' = at

\* A value that is already present is not copied.
Stat(w) ==
  /\ pc[w] = "stat"
  /\ IF value[Head(todo[w])] # None
     THEN Return(w, "exists")
     ELSE Goto(w, "mkdir") /\ UNCHANGED createVars
  /\ UNCHANGED <<fsVars, listVars>>

\* The directory of the key and all those above it.  One step here: a path made in part
\* holds no value yet, and a power loss after the step may leave any part of it.
MkdirAll(w) ==
  /\ pc[w] = "mkdir"
  /\ dirs' = dirs \cup Above(Head(todo[w]))
  /\ Goto(w, "copy")
  /\ UNCHANGED <<value, kept, keptValue, file, createVars, listVars>>

\* CreateTemp and io.Copy.
Copy(w) ==
  /\ pc[w] = "copy"
  /\ file' = [file EXCEPT ![w][Head(todo[w])] = "written"]
  /\ Goto(w, "sync")
  /\ UNCHANGED <<dirs, value, kept, keptValue, createVars, listVars>>

\* Mutant: the file is published without having been synced.
SyncFileNot(w) ==
  /\ pc[w] = "sync"
  /\ Goto(w, "link")
  /\ UNCHANGED <<fsVars, createVars, listVars>>

SyncFile(w) ==
  /\ pc[w] = "sync"
  /\ file' = [file EXCEPT ![w][Head(todo[w])] = "synced"]
  /\ Goto(w, "link")
  /\ UNCHANGED <<dirs, value, kept, keptValue, createVars, listVars>>

\* Mutant: a rename, which replaces what is there.
LinkOver(w) ==
  /\ pc[w] = "link"
  /\ value' = [value EXCEPT ![Head(todo[w])] = w]
  /\ at' = [at EXCEPT ![w] = Head(todo[w])]
  /\ Goto(w, "syncdir")
  /\ UNCHANGED <<todo, acked, refused, dirs, kept, keptValue, file, listVars>>

\* The hard link publishes the file unless the key has a value.
Link(w) ==
  LET k == Head(todo[w])
  IN /\ pc[w] = "link"
     /\ \/ /\ value[k] # None
           /\ Return(w, "exists")
           /\ value' = value
        \/ /\ value[k] = None
           /\ value' = [value EXCEPT ![k] = w]
           /\ at' = [at EXCEPT ![w] = k]
           /\ Goto(w, "syncdir")
           /\ UNCHANGED <<todo, acked, refused>>
     /\ UNCHANGED <<dirs, kept, keptValue, file, listVars>>

\* fsync of a directory: its value and the directories in it.
Fsync(d) ==
  /\ kept' = kept \cup {e \in dirs : Parent[e] = d}
  /\ keptValue' = [k \in Keys |-> IF k = d THEN value[k] ELSE keptValue[k]]

\* Mutant: only the directory of the value is synced.
SyncDirLeaf(w) ==
  /\ pc[w] = "syncdir"
  /\ Fsync(at[w])
  /\ Return(w, "ok")
  /\ UNCHANGED <<dirs, value, file, listVars>>

\* The loop over the directory of the value and its ancestors.
SyncDir(w) ==
  /\ pc[w] = "syncdir"
  /\ Fsync(at[w])
  /\ IF at[w] = Root
     THEN Return(w, "ok")
     ELSE /\ at' = [at EXCEPT ![w] = Parent[@]]
          /\ UNCHANGED <<pc, todo, acked, refused>>
  /\ UNCHANGED <<dirs, value, file, listVars>>

\* Any call fails, the context is cancelled, or the process dies: Create returns an
\* error with what it has done left as it is, and List one without keys.
Fail(p) ==
  /\ pc[p] \notin {"new", "listed", "done"}
  /\ Goto(p, "done")
  /\ UNCHANGED <<fsVars, createVars, listVars>>

-----------------------------------------------------------------------------
\* List starts at v1.
List(l) ==
  /\ pc[l] = "list"
  /\ \E p \in Queries : prefix' = [prefix EXCEPT ![l] = p]
  /\ walk' = [walk EXCEPT ![l] = <<V1>>]
  /\ before' = [before EXCEPT ![l] = {k \in Keys : value[k] # None}]
  /\ Goto(l, "walk")
  /\ UNCHANGED <<fsVars, createVars, found>>

\* os.ReadDir returns the entries of a directory sorted by name.
Sorted(S) == {s \in Bijection(1..Cardinality(S), S) : \A i, j \in DOMAIN s : i < j => s[i] < s[j]}

\* A key that begins with p.
Matches(p, k) == IsPrefix(p, Encoded[k])

\* Mutant: only directories whose whole path already begins with p are entered.
OverlapsBelow(p, e) == IsPrefix(p, Encoded[e])

\* A directory that may hold such keys: its path goes on from p or leads to it.
Overlaps(p, e) == IsPrefix(p, Encoded[e]) \/ IsPrefix(Encoded[e], p)

\* The walk reads one directory: its value comes first, then what lies deeper,
\* then the directories after it, until limit keys are found.
ReadDir(l) ==
  LET d == Head(walk[l])
      keys == IF d \in Keys /\ value[d] # None /\ Matches(prefix[l], d)
              THEN Append(found[l], d) ELSE found[l]
  IN /\ pc[l] = "walk"
     /\ found' = [found EXCEPT ![l] = keys]
     /\ \E inside \in Sorted({e \in dirs : Parent[e] = d /\ Overlaps(prefix[l], e)}) :
          IF Len(keys) = limit \/ inside \o Tail(walk[l]) = <<>>
          THEN walk' = [walk EXCEPT ![l] = <<>>] /\ Goto(l, "listed")
          ELSE walk' = [walk EXCEPT ![l] = inside \o Tail(@)] /\ pc' = pc
     /\ UNCHANGED <<fsVars, createVars, prefix, before>>

-----------------------------------------------------------------------------
\* Power fails: every process ends, and of what was not synced any part is lost.
PowerLoss ==
  /\ dirs # {}
  /\ \E left \in SUBSET (dirs \ kept), torn \in SUBSET {k \in Keys : value[k] # keptValue[k]} :
       /\ dirs' = {d \in dirs : Above(d) \subseteq kept \cup left}
       /\ value' = [k \in Keys |-> IF k \notin dirs' THEN None
                                   ELSE IF k \in torn THEN keptValue[k] ELSE value[k]]
  /\ kept' = dirs'
  /\ keptValue' = value'
  /\ file' = [w \in Writers |-> [k \in Keys |->
                IF file[w][k] = "written" THEN "torn" ELSE file[w][k]]]
  /\ pc' = [p \in DOMAIN pc |-> IF pc[p] \in {"new", "listed"} THEN pc[p] ELSE "done"]
  /\ UNCHANGED <<createVars, listVars>>

DiskNext ==
  \/ \E p \in Writers \cup Listers : New(p) \/ Fail(p)
  \/ \E w \in Writers :
        Stat(w) \/ MkdirAll(w) \/ Copy(w) \/ SyncFile(w) \/ Link(w) \/ SyncDir(w)
  \/ \E l \in Listers : List(l) \/ ReadDir(l)
  \/ PowerLoss

DiskSpec == DiskInit /\ [][DiskNext]_diskVars

-----------------------------------------------------------------------------
\* A visible value is complete, also after a power loss (diskstore.go:15, 209-219).
ValuesAreWhole ==
  \A k \in Keys : value[k] # None => file[value[k]][k] \in {"written", "synced"}

\* Once Create has returned nil the key holds its value for good, through power
\* losses, although other processes may have made the directories above it
\* (diskstore.go:15-16, 225-234).
AcknowledgedIsKept == \A a \in acked : value[a[2]] = a[1]

\* A value is published at most once and never replaced, and a Create is refused
\* only when a value is visible (store.go:43-50).
FirstWins ==
  [][/\ \A k \in Keys : value'[k] \in {value[k], None} \/ value[k] = None
     /\ \A r \in refused' \ refused : value[r[2]] # None]_diskVars

\* List returns the first keys with its prefix, in order: no other key, and it passes
\* over none that was visible when it began, although directories appear and are filled
\* while it walks and it enters only those that overlap the prefix (diskstore.go:75-134).
ListIsCurrent ==
  \A l \in Listers : pc[l] = "listed" =>
     /\ \A i, j \in DOMAIN found[l] : i < j => found[l][i] < found[l][j]
     /\ \A i \in DOMAIN found[l] : Matches(prefix[l], found[l][i])
     /\ \A k \in before[l] : Matches(prefix[l], k) =>
           k \in Range(found[l]) \/ (Len(found[l]) = limit /\ k > Last(found[l]))

\* "Successful commit creation: the append is committed because every referenced
\* aggregate was written first" (DESIGN.md, 9.3 Crash behavior): a writer whose last
\* Create was acknowledged finds all its earlier objects in place, created by itself
\* or by the process that won.
DependenciesAreKept ==
  \A w \in Writers :
     (\E a \in acked : a[1] = w /\ a[2] = Last(Program[w])) =>
        \A k \in Range(Program[w]) : value[k] # None

=============================================================================
