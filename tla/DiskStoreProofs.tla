--------------------------- MODULE DiskStoreProofs --------------------------
(***************************************************************************)
(* Proofs of the durability of DiskStore and of its List, for every tree   *)
(* of directories, every set of writers and listers and every program of   *)
(* Creates.                                                                *)
(***************************************************************************)
EXTENDS DiskStore, SequenceLemmas

Stages == {"stat", "mkdir", "copy", "sync", "link", "syncdir"}

DiskTypeOK ==
  /\ dirs \subseteq Dirs /\ kept \subseteq dirs
  /\ value \in [Keys -> Writers \cup {None}]
  /\ keptValue \in [Keys -> Writers \cup {None}]
  /\ file \in [Writers -> [Keys -> {None, "written", "synced", "torn"}]]
  /\ pc \in [Writers \cup Listers -> Stages \cup {"new", "list", "walk", "listed", "done"}]
  /\ todo \in [Writers -> Seq(Keys)]
  /\ \A w \in Writers : pc[w] \in Stages \cup {"new"} => todo[w] # <<>>
  /\ at \in [Writers -> Dirs \cup {Root}]
  /\ acked \subseteq Writers \X Keys

\* What is linked was synced before, and what is durable is what is linked.
ValuesOK ==
  \A k \in Keys :
     /\ value[k] # None => file[value[k]][k] = "synced"
     /\ keptValue[k] \in {None, value[k]}

\* The Create of k that w is in.  While the value is being published the directories
\* above it exist, and on the way up each of them is durable or still to be synced.
CreateOK(w, k) ==
  /\ pc[w] \in {"mkdir", "copy", "sync", "link"} => value[k] # w
  /\ pc[w] \in {"copy", "sync", "link", "syncdir"} => Above(k) \subseteq dirs
  /\ pc[w] = "link" => file[w][k] = "synced"
  /\ pc[w] = "syncdir" =>
        /\ value[k] = w
        /\ at[w] = k \/ keptValue[k] = w
        /\ \A e \in Above(k) : e \in kept \/ Parent[e] \in Above(at[w]) \cup {Root}

\* What was acknowledged is durable with all the directories above it.
AckedOK ==
  \A a \in acked :
     /\ value[a[2]] = a[1] /\ keptValue[a[2]] = a[1]
     /\ Above(a[2]) \subseteq kept

DiskInv ==
  /\ DiskTypeOK
  /\ ValuesOK
  /\ \A w \in Writers : pc[w] \in Stages => CreateOK(w, Head(todo[w]))
  /\ AckedOK

-----------------------------------------------------------------------------
(* Directories.                                                            *)

\* With a directory come those that hold it.
LEMMA AboveClosed ==
  ASSUME NEW d \in Dirs \cup {Root}
  PROVE  Above(d) \in SUBSET Dirs /\ ClosedUp(Above(d))
  <1>1. Above(d) \in SUBSET Dirs
    BY DEF Above
  <1>2. ASSUME NEW e \in Above(d), Parent[e] # Root
        PROVE  Parent[e] \in Above(d)
    <2>1. Parent[e] \in Dirs
      BY <1>1, <1>2, DiskAssumption
    <2>2. ASSUME NEW S \in SUBSET Dirs, ClosedUp(S), d \in S \cup {Root}
          PROVE  Parent[e] \in S
      <3>1. e \in S
        BY <2>2 DEF Above
      <3> QED BY <1>2, <2>2, <3>1 DEF ClosedUp
    <2> QED BY <2>1, <2>2 DEF Above
  <1> QED BY <1>1, <1>2 DEF ClosedUp

\* A directory is the first of those above it.
LEMMA AboveSelf ==
  ASSUME NEW d \in Dirs
  PROVE  d \in Above(d)
  BY DiskAssumption DEF Above

\* There is nothing above the root.
LEMMA AboveRoot == Above(Root) = {}
  <1>1. {} \in SUBSET Dirs /\ ClosedUp({})
    BY DEF ClosedUp
  <1> QED BY <1>1 DEF Above

\* Above a directory is what holds it, and what is above that.
LEMMA AboveParent ==
  ASSUME NEW d \in Dirs
  PROVE  Above(d) \subseteq {d} \cup Above(Parent[d])
  <1> DEFINE S == {d} \cup Above(Parent[d])
  <1>1. Parent[d] \in Dirs \cup {Root}
    BY DiskAssumption
  <1>2. S \in SUBSET Dirs
    BY <1>1, AboveClosed
  <1>3. Parent[d] \in S \cup {Root}
    BY <1>1, AboveSelf
  <1>4. ClosedUp(S)
    BY <1>1, <1>3, AboveClosed DEF ClosedUp
  <1> HIDE DEF S
  <1>5. d \in S
    BY DEF S
  <1> QED BY <1>2, <1>4, <1>5 DEF Above, S

\* What is above a directory above d is above d.
LEMMA AboveTransitive ==
  ASSUME NEW d \in Dirs, NEW e \in Above(d)
  PROVE  Above(e) \subseteq Above(d)
  <1>1. Above(d) \in SUBSET Dirs /\ ClosedUp(Above(d))
    BY AboveClosed
  <1> QED BY <1>1 DEF Above

-----------------------------------------------------------------------------
(* What a step of one process leaves alone.                                *)

\* Nothing is lost but by a power loss, and p only touches what is its own.
Grows(p) ==
  /\ dirs \subseteq dirs' /\ kept \subseteq kept'
  /\ \A k \in Keys :
        /\ value'[k] = value[k] \/ (p \in Writers /\ value[k] = None /\ value'[k] = p)
        /\ keptValue'[k] \in {keptValue[k], value[k]}
  /\ \A w \in Writers \ {p} :
        /\ file'[w] = file[w] /\ pc'[w] = pc[w]
        /\ todo'[w] = todo[w] /\ at'[w] = at[w]

\* The Creates of the others go on as they were.
LEMMA OthersOK ==
  ASSUME DiskInv, NEW p, Grows(p), NEW w \in Writers \ {p}, pc'[w] \in Stages
  PROVE  CreateOK(w, Head(todo[w]))'
  <1> DEFINE k == Head(todo[w])
  <1>1. pc'[w] = pc[w] /\ todo'[w] = todo[w] /\ at'[w] = at[w] /\ file'[w] = file[w]
    BY DEF Grows
  <1>2. k \in Keys
    BY <1>1 DEF DiskInv, DiskTypeOK
  <1>3. CreateOK(w, k)
    BY <1>1 DEF DiskInv
  <1>4. CreateOK(w, k)'
    BY <1>1, <1>2, <1>3, DiskAssumption DEF CreateOK, Grows
  <1> QED BY <1>1, <1>4

\* What was published stays so, and what was acknowledged stays durable.
LEMMA PublishedOK ==
  ASSUME DiskInv, NEW p, Grows(p),
         \A k \in Keys : p \in Writers /\ value'[k] = p => file'[p][k] = "synced"
  PROVE  ValuesOK' /\ \A a \in acked : /\ value'[a[2]] = a[1] /\ keptValue'[a[2]] = a[1]
                                       /\ Above(a[2]) \subseteq kept'
  <1>1. ASSUME NEW k \in Keys
        PROVE  /\ value'[k] # None => file'[value'[k]][k] = "synced"
               /\ keptValue'[k] \in {None, value'[k]}
    <2>1. value[k] \in Writers \cup {None}
      BY DEF DiskInv, DiskTypeOK
    <2>2. CASE p \in Writers /\ value'[k] = p
      BY <2>1, <2>2 DEF Grows, DiskInv, ValuesOK
    <2>3. CASE p \notin Writers \/ value'[k] # p
      BY <2>1, <2>3 DEF Grows, DiskInv, ValuesOK
    <2> QED BY <2>2, <2>3
  <1>2. ASSUME NEW a \in acked
        PROVE  /\ value'[a[2]] = a[1] /\ keptValue'[a[2]] = a[1]
               /\ Above(a[2]) \subseteq kept'
    <2>1. a[1] \in Writers /\ a[2] \in Keys
      BY DEF DiskInv, DiskTypeOK
    <2> QED BY <2>1, DiskAssumption DEF Grows, DiskInv, AckedOK
  <1> QED BY <1>1, <1>2 DEF ValuesOK

\* A step that acknowledges nothing.
LEMMA QuietStep ==
  ASSUME DiskInv, NEW p, Grows(p), DiskTypeOK', acked' = acked,
         \A k \in Keys : p \in Writers /\ value'[k] = p => file'[p][k] = "synced",
         p \in Writers /\ pc'[p] \in Stages => CreateOK(p, Head(todo[p]))'
  PROVE  DiskInv'
  BY OthersOK, PublishedOK DEF DiskInv, AckedOK

\* The key that a writer is busy with.
LEMMA HeadIsKey ==
  ASSUME DiskInv, NEW w \in Writers, pc[w] \in Stages
  PROVE  /\ Head(todo[w]) \in Keys /\ Tail(todo[w]) \in Seq(Keys)
         /\ Len(todo[w]) # 1 => Tail(todo[w]) # <<>>
         /\ CreateOK(w, Head(todo[w]))
  <1>1. todo[w] \in Seq(Keys) /\ todo[w] # <<>>
    BY DEF DiskInv, DiskTypeOK
  <1> DEFINE s == todo[w]
  <1> HIDE DEF s
  <1>2. s \in Seq(Keys) /\ s # <<>> /\ Len(s) \in Nat \ {0}
    BY <1>1 DEF s
  <1>3. Head(s) \in Keys /\ Tail(s) \in Seq(Keys) /\ Len(Tail(s)) = Len(s) - 1
    BY <1>2
  <1>4. Len(s) # 1 => Tail(s) # <<>>
    BY <1>2, <1>3
  <1> QED BY <1>3, <1>4 DEF DiskInv, s

-----------------------------------------------------------------------------
(* The actions.                                                            *)

\* New makes the directory of the store.
LEMMA NewStep ==
  ASSUME DiskInv, NEW p \in Writers \cup Listers, New(p)
  PROVE  DiskInv'
  <1> USE DEF New, Goto, createVars
  <1>1. DiskTypeOK'
    BY DEF DiskInv, DiskTypeOK, Dirs, Stages
  <1>2. Grows(p)
    BY DEF DiskInv, DiskTypeOK, Grows
  <1>3. \A k \in Keys : p \in Writers /\ value'[k] = p => file'[p][k] = "synced"
    BY DiskAssumption DEF DiskInv, DiskTypeOK, ValuesOK
  <1>4. p \in Writers => CreateOK(p, Head(todo[p]))'
    BY DEF CreateOK, DiskInv, DiskTypeOK
  <1> QED BY <1>1, <1>2, <1>3, <1>4, QuietStep

\* Create returns ErrExists or nil: the writer goes on with its next key.
LEMMA ReturnOK ==
  ASSUME DiskInv, NEW w \in Writers, pc[w] \in Stages, NEW err, Return(w, err)
  PROVE  /\ todo' \in [Writers -> Seq(Keys)]
         /\ pc' \in [Writers \cup Listers -> Stages \cup {"new", "list", "walk", "listed", "done"}]
         /\ \A x \in Writers : pc'[x] \in Stages \cup {"new"} => todo'[x] # <<>>
         /\ at' = at
         /\ pc'[w] \in {"done", "stat"}
         /\ \A x \in Writers \ {w} : pc'[x] = pc[x] /\ todo'[x] = todo[x]
         /\ acked' \subseteq Writers \X Keys
         /\ err # "ok" => acked' = acked
         /\ err = "ok" => acked' = acked \cup {<<w, Head(todo[w])>>}
  <1>1. /\ Head(todo[w]) \in Keys /\ Tail(todo[w]) \in Seq(Keys)
        /\ Len(todo[w]) # 1 => Tail(todo[w]) # <<>>
    BY HeadIsKey
  <1> QED BY <1>1 DEF DiskInv, DiskTypeOK, Return, Goto, Stages

\* A Create that returns before it publishes.
LEMMA RefusedStep ==
  ASSUME DiskInv, NEW w \in Writers, pc[w] \in Stages, Return(w, "exists"), UNCHANGED fsVars
  PROVE  DiskInv'
  <1> USE DEF fsVars
  <1>1. DiskTypeOK'
    BY ReturnOK DEF DiskInv, DiskTypeOK
  <1>2. Grows(w)
    BY ReturnOK DEF DiskInv, Grows
  <1>3. \A k \in Keys : value'[k] = w => file'[w][k] = "synced"
    BY DiskAssumption DEF DiskInv, ValuesOK
  <1>4. pc'[w] \in Stages => CreateOK(w, Head(todo[w]))'
    BY ReturnOK DEF CreateOK
  <1> QED BY <1>1, <1>2, <1>3, <1>4, ReturnOK, QuietStep

\* Stat finds a value or goes on to make the directories.
LEMMA StatStep ==
  ASSUME DiskInv, NEW w \in Writers, Stat(w)
  PROVE  DiskInv'
  <1>1. CASE value[Head(todo[w])] # None
    BY <1>1, RefusedStep DEF Stat, Stages
  <1>2. CASE value[Head(todo[w])] = None
    <2> USE DEF Stat, Goto, fsVars, createVars
    <2>1. DiskTypeOK'
      BY <1>2 DEF DiskInv, DiskTypeOK, Stages
    <2>2. Grows(w)
      BY <1>2 DEF DiskInv, DiskTypeOK, Grows
    <2>3. \A k \in Keys : value'[k] = w => file'[w][k] = "synced"
      BY DiskAssumption DEF DiskInv, ValuesOK
    <2>4. CreateOK(w, Head(todo[w]))'
      BY <1>2, DiskAssumption DEF CreateOK, DiskInv, DiskTypeOK
    <2> QED BY <1>2, <2>1, <2>2, <2>3, <2>4, QuietStep
  <1> QED BY <1>1, <1>2

\* MkdirAll makes all directories above the key.
LEMMA MkdirAllStep ==
  ASSUME DiskInv, NEW w \in Writers, MkdirAll(w)
  PROVE  DiskInv'
  <1> DEFINE k == Head(todo[w])
  <1> USE DEF MkdirAll, Goto, createVars
  <1>1. k \in Keys /\ CreateOK(w, k)
    BY HeadIsKey DEF Stages
  <1>2. Above(k) \subseteq Dirs
    BY DEF Above
  <1>3. DiskTypeOK'
    BY <1>2 DEF DiskInv, DiskTypeOK, Stages
  <1>4. Grows(w)
    BY DEF DiskInv, DiskTypeOK, Grows
  <1>5. \A x \in Keys : value'[x] = w => file'[w][x] = "synced"
    BY DiskAssumption DEF DiskInv, ValuesOK
  <1>6. CreateOK(w, Head(todo[w]))'
    BY <1>1 DEF CreateOK, DiskInv, DiskTypeOK
  <1> QED BY <1>3, <1>4, <1>5, <1>6, QuietStep

\* The data is written to a file of w's own, and synced.  Only the key at hand is
\* concerned, which does not hold w's value yet.
LEMMA FileStep ==
  ASSUME DiskInv, NEW w \in Writers, Copy(w) \/ SyncFile(w)
  PROVE  DiskInv'
  <1> DEFINE k == Head(todo[w])
  <1> USE DEF Copy, SyncFile, Goto, createVars
  <1>1. k \in Keys /\ CreateOK(w, k)
    BY HeadIsKey DEF Stages
  <1>2. PICK f \in {"written", "synced"} : file' = [file EXCEPT ![w][k] = f]
    OBVIOUS
  <1>3. /\ file' \in [Writers -> [Keys -> {None, "written", "synced", "torn"}]]
        /\ \A y \in Keys \ {k} : file'[w][y] = file[w][y]
    BY <1>1, <1>2 DEF DiskInv, DiskTypeOK
  <1>4. DiskTypeOK'
    BY <1>1, <1>3 DEF DiskInv, DiskTypeOK, Stages
  <1>5. Grows(w)
    BY <1>1 DEF DiskInv, DiskTypeOK, Grows
  <1>6. \A x \in Keys : value'[x] = w => file'[w][x] = "synced"
    <2>1. value[k] # w
      BY <1>1 DEF CreateOK
    <2>2. \A x \in Keys : value[x] = w => file[w][x] = "synced"
      BY DiskAssumption DEF DiskInv, ValuesOK
    <2> QED BY <1>3, <2>1, <2>2
  <1>7. CreateOK(w, Head(todo[w]))'
    BY <1>1 DEF CreateOK, DiskInv, DiskTypeOK
  <1> QED BY <1>4, <1>5, <1>6, <1>7, QuietStep

\* The link publishes the synced file if the key has no value.
LEMMA LinkStep ==
  ASSUME DiskInv, NEW w \in Writers, Link(w)
  PROVE  DiskInv'
  <1> DEFINE k == Head(todo[w])
  <1>1. k \in Keys /\ CreateOK(w, k) /\ pc[w] = "link"
    BY HeadIsKey DEF Stages, Link
  <1>2. CASE value[k] # None
    BY <1>2, RefusedStep DEF Link, Stages, fsVars
  <1>3. CASE value[k] = None
    <2>1. /\ value' = [value EXCEPT ![k] = w]
          /\ at' = [at EXCEPT ![w] = k]
          /\ pc' = [pc EXCEPT ![w] = "syncdir"]
          /\ UNCHANGED <<todo, acked, dirs, kept, keptValue, file>>
      BY <1>3 DEF Link, Goto
    <2>2. DiskTypeOK'
      BY <1>1, <2>1 DEF DiskInv, DiskTypeOK, Stages, Dirs
    <2>3. Grows(w)
      BY <1>1, <1>3, <2>1 DEF DiskInv, DiskTypeOK, Grows
    <2>4. \A x \in Keys : value'[x] = w => file'[w][x] = "synced"
      BY <1>1, <2>1, DiskAssumption DEF DiskInv, DiskTypeOK, ValuesOK, CreateOK
    <2>5. CreateOK(w, Head(todo[w]))'
      <3>1. pc'[w] = "syncdir" /\ value'[k] = w /\ at'[w] = k
        BY <1>1, <2>1 DEF DiskInv, DiskTypeOK
      <3>2. \A e \in Above(k) : Parent[e] \in Above(k) \cup {Root}
        BY <1>1, AboveClosed DEF ClosedUp, Dirs
      <3>3. Above(k) \subseteq dirs'
        BY <1>1, <2>1 DEF CreateOK
      <3> QED BY <2>1, <3>1, <3>2, <3>3 DEF CreateOK
    <2> QED BY <2>1, <2>2, <2>3, <2>4, <2>5, QuietStep
  <1> QED BY <1>2, <1>3

\* Syncing a directory makes its entries durable.
LEMMA FsyncOK ==
  ASSUME DiskInv, NEW d \in Dirs \cup {Root}, Fsync(d)
  PROVE  /\ kept \subseteq kept' /\ kept' \subseteq dirs
         /\ \A e \in dirs : Parent[e] = d => e \in kept'
         /\ keptValue' \in [Keys -> Writers \cup {None}]
         /\ \A k \in Keys : /\ keptValue'[k] \in {keptValue[k], value[k]}
                            /\ k = d => keptValue'[k] = value[k]
  BY DEF DiskInv, DiskTypeOK, Fsync

\* A turn of the loop that syncs the directory of the value and those above it.
LEMMA SyncDirStep ==
  ASSUME DiskInv, NEW w \in Writers, SyncDir(w)
  PROVE  DiskInv'
  <1> DEFINE k == Head(todo[w])
             d == at[w]
  <1>1. k \in Keys /\ CreateOK(w, k) /\ pc[w] = "syncdir"
    BY HeadIsKey DEF Stages, SyncDir
  <1>2. d \in Dirs \cup {Root} /\ Fsync(d) /\ UNCHANGED <<dirs, value, file>>
    BY DEF DiskInv, DiskTypeOK, SyncDir
  <1>3. /\ value[k] = w /\ Above(k) \subseteq dirs
        /\ d = k \/ keptValue[k] = w
        /\ \A e \in Above(k) : e \in kept \/ Parent[e] \in Above(d) \cup {Root}
    BY <1>1 DEF CreateOK
  <1>4. keptValue'[k] = w
    BY <1>1, <1>2, <1>3, FsyncOK
  <1>5. \A x \in Keys : value'[x] = w => file'[w][x] = "synced"
    BY <1>2, DiskAssumption DEF DiskInv, ValuesOK
  <1>6. CASE d = Root
    <2>1. Return(w, "ok")
      BY <1>6 DEF SyncDir
    <2>2. Above(k) \subseteq kept'
      BY <1>2, <1>3, <1>6, FsyncOK, AboveRoot
    <2>3. DiskTypeOK'
      BY <1>1, <1>2, <2>1, FsyncOK, ReturnOK DEF DiskInv, DiskTypeOK, Stages
    <2>4. Grows(w)
      BY <1>1, <1>2, <2>1, FsyncOK, ReturnOK DEF Grows, Stages
    <2>5. acked' = acked \cup {<<w, k>>} /\ pc'[w] \in {"done", "stat"}
      BY <1>1, <2>1, ReturnOK DEF Stages
    <2>6. ValuesOK' /\ AckedOK'
      BY <1>2, <1>3, <1>4, <1>5, <2>2, <2>4, <2>5, PublishedOK DEF AckedOK
    <2>7. ASSUME NEW x \in Writers, pc'[x] \in Stages
          PROVE  CreateOK(x, Head(todo[x]))'
      BY <2>4, <2>5, <2>7, OthersOK DEF CreateOK
    <2> QED BY <2>3, <2>6, <2>7 DEF DiskInv
  <1>7. CASE d # Root
    <2>1. at' = [at EXCEPT ![w] = Parent[d]] /\ UNCHANGED <<pc, todo, acked>>
      BY <1>7 DEF SyncDir
    <2>2. d \in Dirs /\ Parent[d] \in Dirs \cup {Root}
      BY <1>2, <1>7, DiskAssumption
    <2>3. DiskTypeOK'
      BY <1>2, <2>1, <2>2, FsyncOK DEF DiskInv, DiskTypeOK
    <2>4. Grows(w)
      BY <1>2, <2>1, FsyncOK DEF Grows, DiskInv, DiskTypeOK
    <2>5. at'[w] = Parent[d]
      BY <2>1 DEF DiskInv, DiskTypeOK
    <2>6. ASSUME NEW e \in Above(k), e \notin kept'
          PROVE  Parent[e] \in Above(Parent[d]) \cup {Root}
      BY <1>2, <1>3, <2>2, <2>6, FsyncOK, AboveParent
    <2>7. CreateOK(w, Head(todo[w]))'
      BY <1>1, <1>2, <1>3, <1>4, <2>1, <2>5, <2>6 DEF CreateOK
    <2> QED BY <1>5, <2>1, <2>3, <2>4, <2>7, QuietStep
  <1> QED BY <1>6, <1>7

\* A call fails or the process dies; a lister goes on.
LEMMA OtherStep ==
  ASSUME DiskInv, NEW p \in Writers \cup Listers, NEW stage \in {"done", "walk", "listed"},
         Goto(p, stage) \/ pc' = pc,
         UNCHANGED <<fsVars, createVars>>
  PROVE  DiskInv'
  <1> USE DEF Goto, fsVars, createVars
  <1>1. DiskTypeOK'
    BY DEF DiskInv, DiskTypeOK, Stages
  <1>2. Grows(p)
    BY DEF DiskInv, DiskTypeOK, Grows
  <1>3. \A x \in Keys : p \in Writers /\ value'[x] = p => file'[p][x] = "synced"
    BY DiskAssumption DEF DiskInv, ValuesOK
  <1>4. p \in Writers /\ pc'[p] \in Stages => CreateOK(p, Head(todo[p]))'
    BY DEF DiskInv, DiskTypeOK, Stages, CreateOK
  <1> QED BY <1>1, <1>2, <1>3, <1>4, QuietStep

\* A power loss spares what was synced, and with it what was acknowledged: its
\* directory and all those above it are durable.
LEMMA PowerLossStep ==
  ASSUME DiskInv, PowerLoss
  PROVE  DiskInv'
  <1>1. PICK left \in SUBSET (dirs \ kept), torn \in SUBSET {k \in Keys : value[k] # keptValue[k]} :
          /\ dirs' = {d \in dirs : Above(d) \subseteq kept \cup left}
          /\ value' = [k \in Keys |-> IF k \notin dirs' THEN None
                                      ELSE IF k \in torn THEN keptValue[k] ELSE value[k]]
    BY DEF PowerLoss
  <1>2. /\ kept' = dirs' /\ keptValue' = value'
        /\ file' = [w \in Writers |-> [k \in Keys |->
                      IF file[w][k] = "written" THEN "torn" ELSE file[w][k]]]
        /\ pc' = [p \in DOMAIN pc |-> IF pc[p] \in {"new", "listed"} THEN pc[p] ELSE "done"]
        /\ UNCHANGED <<todo, at, acked>>
    BY DEF PowerLoss, createVars
  <1>3. \A k \in Keys : value'[k] \in {None, value[k]}
    BY <1>1 DEF DiskInv, ValuesOK
  <1>4. DiskTypeOK'
    <2>1. dirs' \subseteq Dirs /\ value' \in [Keys -> Writers \cup {None}]
      BY <1>1, <1>3 DEF DiskInv, DiskTypeOK
    <2>2. file' \in [Writers -> [Keys -> {None, "written", "synced", "torn"}]]
      BY <1>2 DEF DiskInv, DiskTypeOK
    <2>3. /\ pc' \in [Writers \cup Listers -> Stages \cup {"new", "list", "walk", "listed", "done"}]
          /\ \A w \in Writers : pc'[w] \in Stages \cup {"new"} => todo'[w] # <<>>
      BY <1>2 DEF DiskInv, DiskTypeOK, Stages
    <2> QED BY <1>2, <2>1, <2>2, <2>3 DEF DiskInv, DiskTypeOK
  <1>5. ValuesOK'
    BY <1>2, <1>3 DEF DiskInv, DiskTypeOK, ValuesOK
  <1>6. \A w \in Writers : pc'[w] \notin Stages
    BY <1>2 DEF DiskInv, DiskTypeOK, Stages
  <1>7. AckedOK'
    <2> SUFFICES ASSUME NEW a \in acked
                 PROVE  value'[a[2]] = a[1] /\ Above(a[2]) \subseteq dirs'
      BY <1>2 DEF AckedOK
    <2> DEFINE k == a[2]
    <2>1. k \in Keys /\ k \in Dirs /\ value[k] = a[1] /\ keptValue[k] = a[1] /\ Above(k) \subseteq kept
      BY DEF DiskInv, DiskTypeOK, AckedOK, Dirs
    <2>2. Above(k) \subseteq dirs'
      BY <1>1, <2>1, AboveTransitive DEF DiskInv, DiskTypeOK
    <2>3. k \in dirs'
      BY <2>1, <2>2, AboveSelf
    <2> QED BY <1>1, <2>1, <2>2, <2>3
  <1> QED BY <1>4, <1>5, <1>6, <1>7 DEF DiskInv

-----------------------------------------------------------------------------
(* The theorems.                                                           *)

\* The invariant holds at first.
LEMMA DiskInvInit == DiskInit => DiskInv
  <1> SUFFICES ASSUME DiskInit PROVE DiskInv
    OBVIOUS
  <1>1. DiskTypeOK
    BY DiskAssumption DEF DiskInit, DiskTypeOK
  <1> QED BY <1>1 DEF DiskInit, DiskInv, ValuesOK, AckedOK, Stages

\* Every step keeps it.
LEMMA DiskInvNext == DiskInv /\ [DiskNext]_diskVars => DiskInv'
  <1> SUFFICES ASSUME DiskInv, [DiskNext]_diskVars PROVE DiskInv'
    OBVIOUS
  <1>1. CASE UNCHANGED diskVars
    BY <1>1 DEF diskVars, fsVars, createVars, DiskInv, DiskTypeOK, ValuesOK, CreateOK, AckedOK
  <1>2. ASSUME NEW p \in Writers \cup Listers, New(p) \/ Fail(p)
        PROVE  DiskInv'
    <2>1. Fail(p) => Goto(p, "done") /\ UNCHANGED <<fsVars, createVars>>
      BY DEF Fail
    <2> QED BY <1>2, <2>1, NewStep, OtherStep
  <1>3. ASSUME NEW w \in Writers,
               Stat(w) \/ MkdirAll(w) \/ Copy(w) \/ SyncFile(w) \/ Link(w) \/ SyncDir(w)
        PROVE  DiskInv'
    BY <1>3, StatStep, MkdirAllStep, FileStep, LinkStep, SyncDirStep
  <1>4. ASSUME NEW l \in Listers, List(l) \/ ReadDir(l)
        PROVE  DiskInv'
    <2>1. /\ Goto(l, "walk") \/ Goto(l, "listed") \/ pc' = pc
          /\ UNCHANGED <<fsVars, createVars>>
      BY <1>4 DEF List, ReadDir
    <2> QED BY <2>1, OtherStep
  <1>5. CASE PowerLoss
    BY <1>5, PowerLossStep
  <1> QED BY <1>1, <1>2, <1>3, <1>4, <1>5 DEF DiskNext

\* The invariant holds in every reachable state.
LEMMA DiskInvariant == DiskSpec => []DiskInv
  BY DiskInvInit, DiskInvNext, PTL DEF DiskSpec

\* A value that processes see is complete, also after power losses.
THEOREM DiskValuesAreWhole == DiskSpec => []ValuesAreWhole
  <1>1. DiskInv => ValuesAreWhole
    BY DEF DiskInv, ValuesOK, ValuesAreWhole
  <1> QED BY <1>1, DiskInvariant, PTL

\* What Create has acknowledged survives every power loss, for every directory tree,
\* whoever made the directories above the key.
THEOREM DiskAcknowledgedIsKept == DiskSpec => []AcknowledgedIsKept
  <1>1. DiskInv => AcknowledgedIsKept
    BY DEF DiskInv, AckedOK, AcknowledgedIsKept
  <1> QED BY <1>1, DiskInvariant, PTL

\* A value is published at most once and never replaced by another one, and ErrExists
\* is only returned when there is one.
THEOREM DiskFirstWins == DiskSpec => FirstWins
  <1> DEFINE V == \A k \in Keys : value'[k] \in {value[k], None} \/ value[k] = None
             R == \A r \in refused' \ refused : value[r[2]] # None
  <1>1. ASSUME DiskInv, DiskNext
        PROVE  V /\ R
    <2>1. CASE UNCHANGED <<value, refused>>
      BY <2>1
    <2>2. ASSUME NEW w \in Writers, Stat(w)
          PROVE  V /\ R
      BY <2>2 DEF Stat, Return, fsVars, createVars
    <2>3. ASSUME NEW w \in Writers, Link(w)
          PROVE  V /\ R
      <3>1. Head(todo[w]) \in Keys
        BY <1>1, <2>3, HeadIsKey DEF Link, Stages
      <3> QED BY <1>1, <2>3, <3>1 DEF Link, Return, DiskInv, DiskTypeOK
    <2>4. CASE PowerLoss
      BY <1>1, <2>4 DEF PowerLoss, createVars, DiskInv, ValuesOK
    <2>5. ASSUME NEW p \in Writers \cup Listers, New(p) \/ Fail(p)
          PROVE  UNCHANGED <<value, refused>>
      BY <2>5 DEF New, Fail, fsVars, createVars
    <2>6. ASSUME NEW w \in Writers, MkdirAll(w) \/ Copy(w) \/ SyncFile(w) \/ SyncDir(w)
          PROVE  UNCHANGED <<value, refused>>
      BY <2>6 DEF MkdirAll, Copy, SyncFile, SyncDir, Return, fsVars, createVars
    <2>7. ASSUME NEW l \in Listers, List(l) \/ ReadDir(l)
          PROVE  UNCHANGED <<value, refused>>
      BY <2>7 DEF List, ReadDir, fsVars, createVars
    <2> QED BY <1>1, <2>1, <2>2, <2>3, <2>4, <2>5, <2>6, <2>7 DEF DiskNext
  <1>2. DiskInv /\ [DiskNext]_diskVars => [V /\ R]_diskVars
    BY <1>1
  <1> QED BY <1>2, DiskInvariant, PTL DEF DiskSpec, FirstWins


-----------------------------------------------------------------------------
(* List.                                                                   *)

\* A directory comes after those that hold it.
LEMMA AboveLow ==
  ASSUME NEW d \in Dirs, NEW e \in Above(d)
  PROVE  e \in Dirs /\ e <= d
  <1> DEFINE S == {x \in Dirs : x <= d}
  <1>1. ClosedUp(S)
    <2> SUFFICES ASSUME NEW x \in S, Parent[x] # Root
                 PROVE  Parent[x] \in S
      BY DEF ClosedUp
    <2>1. x \in Nat /\ d \in Nat /\ x <= d /\ Parent[x] \in Dirs /\ Parent[x] \in Nat /\ Parent[x] < x
      BY DiskAssumption
    <2> QED BY <2>1
  <1>2. d \in S
    BY DiskAssumption
  <1>3. S \in SUBSET Dirs
    OBVIOUS
  <1> HIDE DEF S
  <1>4. e \in S
    BY <1>1, <1>2, <1>3 DEF Above
  <1> QED BY <1>4 DEF S

\* The directory that holds e is above it.
LEMMA ParentAbove ==
  ASSUME NEW e \in Dirs, Parent[e] \in Dirs
  PROVE  Parent[e] \in Above(e)
  BY AboveClosed, AboveSelf, DiskAssumption DEF ClosedUp

\* All directories lie in v1.
LEMMA AboveV1 ==
  ASSUME NEW d \in Dirs
  PROVE  V1 \in Above(d)
  <1> DEFINE T == {x \in Dirs : V1 \notin Above(x)}
  <1> SUFFICES ASSUME T # {} PROVE FALSE
    OBVIOUS
  <1>1. T \in SUBSET Nat
    BY DiskAssumption
  <1>2. PICK x \in T : \A y \in T : x <= y
    BY <1>1, Least
  <1>3. x \in Dirs /\ V1 \notin Above(x) /\ x \in Nat
    BY <1>1, <1>2
  <1>4. Parent[x] # Root
    BY <1>3, AboveSelf, DiskAssumption
  <1>5. Parent[x] \in Dirs /\ Parent[x] < x /\ Parent[x] \in Nat
    BY <1>3, <1>4, DiskAssumption
  <1>6. Parent[x] \notin T
    BY <1>2, <1>3, <1>5
  <1>7. V1 \in Above(Parent[x])
    BY <1>5, <1>6
  <1> QED BY <1>3, <1>5, <1>7, ParentAbove, AboveTransitive

\* On the way down from d to k there is an entry of d.
LEMMA AboveChild ==
  ASSUME NEW k \in Dirs, NEW d \in Above(k), k # d
  PROVE  \E e \in Above(k) : Parent[e] = d
  <1> SUFFICES ASSUME \A e \in Above(k) : Parent[e] # d
               PROVE  FALSE
    OBVIOUS
  <1> DEFINE S == Above(k) \ {d}
  <1>1. S \in SUBSET Dirs /\ ClosedUp(S)
    BY AboveClosed DEF ClosedUp
  <1>2. k \in S
    BY AboveSelf
  <1> HIDE DEF S
  <1>3. d \in S
    BY <1>1, <1>2 DEF Above
  <1> QED BY <1>3 DEF S

-----------------------------------------------------------------------------
(* Prefixes.                                                               *)

\* A prefix agrees with the sequence as far as it goes.
LEMMA PrefixPlaces ==
  ASSUME NEW s \in Seq(Nat), NEW t \in Seq(Nat)
  PROVE  IsPrefix(s, t) <=> Len(s) <= Len(t) /\ \A i \in 1..Len(s) : s[i] = t[i]
  <1>1. Len(s) \in Nat /\ Len(t) \in Nat
    OBVIOUS
  <1>2. ASSUME Len(s) <= Len(t)
        PROVE  (SubSeq(s, 1, Len(s)) = SubSeq(t, 1, Len(s))) <=> \A i \in 1..Len(s) : s[i] = t[i]
    <2>1. /\ SubSeq(s, 1, Len(s)) = [i \in 1..Len(s) |-> s[i]]
          /\ SubSeq(t, 1, Len(s)) = [i \in 1..Len(s) |-> t[i]]
      BY <1>1, <1>2
    <2> QED BY <2>1
  <1> QED BY <1>2 DEF IsPrefix

\* A prefix of a prefix is one, and of two prefixes of a sequence the shorter is one of
\* the longer.
LEMMA PrefixOrder ==
  ASSUME NEW s \in Seq(Nat), NEW t \in Seq(Nat), NEW u \in Seq(Nat)
  PROVE  /\ IsPrefix(s, s)
         /\ IsPrefix(s, t) /\ IsPrefix(t, u) => IsPrefix(s, u)
         /\ IsPrefix(s, u) /\ IsPrefix(t, u) => IsPrefix(s, t) \/ IsPrefix(t, s)
  <1>1. Len(s) \in Nat /\ Len(t) \in Nat /\ Len(u) \in Nat
    OBVIOUS
  <1>2. /\ IsPrefix(s, s) <=> Len(s) <= Len(s) /\ \A i \in 1..Len(s) : s[i] = s[i]
        /\ IsPrefix(s, t) <=> Len(s) <= Len(t) /\ \A i \in 1..Len(s) : s[i] = t[i]
        /\ IsPrefix(t, s) <=> Len(t) <= Len(s) /\ \A i \in 1..Len(t) : t[i] = s[i]
        /\ IsPrefix(t, u) <=> Len(t) <= Len(u) /\ \A i \in 1..Len(t) : t[i] = u[i]
        /\ IsPrefix(s, u) <=> Len(s) <= Len(u) /\ \A i \in 1..Len(s) : s[i] = u[i]
    BY PrefixPlaces
  <1> QED BY <1>1, <1>2

\* The path of a directory begins with those of the directories that hold it.
LEMMA AboveEncoded ==
  ASSUME NEW k \in Dirs, NEW e \in Above(k)
  PROVE  IsPrefix(Encoded[e], Encoded[k])
  <1> DEFINE S == {x \in Dirs : IsPrefix(Encoded[x], Encoded[k])}
  <1>1. \A x \in Dirs : Encoded[x] \in Seq(Nat)
    BY DiskAssumption
  <1>2. ASSUME NEW x \in S, Parent[x] # Root
        PROVE  Parent[x] \in S
    <2>1. CASE x = V1
      <3>1. Parent[x] \in Dirs
        BY <1>2, DiskAssumption
      <3>2. Encoded[x] = <<>> /\ Parent[x] < x /\ x \in Nat /\ Parent[x] \in Nat
        BY <2>1, <3>1, DiskAssumption
      <3>3. Parent[x] = Root
        BY <2>1, <3>2 DEF V1, Root
      <3> QED BY <1>2, <3>3
    <2>2. CASE x # V1
      <3>1. Parent[x] \in Dirs /\ IsPrefix(Encoded[Parent[x]], Encoded[x])
        BY <1>2, <2>2, DiskAssumption DEF IsStrictPrefix
      <3> QED BY <1>1, <3>1, PrefixOrder
    <2> QED BY <2>1, <2>2
  <1>3. S \in SUBSET Dirs /\ ClosedUp(S)
    BY <1>2 DEF ClosedUp
  <1>4. k \in S
    BY <1>1, PrefixOrder
  <1> HIDE DEF S
  <1>5. e \in S
    BY <1>3, <1>4 DEF Above
  <1> QED BY <1>5 DEF S

\* The directories above a key with the prefix overlap the prefix.
LEMMA AboveOverlaps ==
  ASSUME NEW p \in Seq(Nat), NEW k \in Dirs, Matches(p, k), NEW e \in Above(k)
  PROVE  Overlaps(p, e)
  <1>1. Encoded[k] \in Seq(Nat) /\ Encoded[e] \in Seq(Nat)
    BY AboveClosed, DiskAssumption
  <1>2. IsPrefix(p, Encoded[k]) /\ IsPrefix(Encoded[e], Encoded[k])
    BY AboveEncoded DEF Matches
  <1> QED BY <1>1, <1>2, PrefixOrder DEF Overlaps

-----------------------------------------------------------------------------
(* The walk.                                                               *)

Increasing(s) == \A i, j \in DOMAIN s : i < j => s[i] < s[j]

\* What List has found comes before what it has still to read, the directories it has
\* still to read lie apart and in order, and each key it has to find is found or lies in
\* one of them.
WalkOK(W, F, B) ==
  /\ W # <<>> /\ Len(F) < limit
  /\ Increasing(F)
  /\ \A i \in DOMAIN F, j \in DOMAIN W : F[i] < W[j]
  /\ \A i, j \in DOMAIN W : i < j => W[i] < W[j] /\ W[i] \notin Above(W[j])
  /\ \A k \in B : k \in Range(F) \/ \E j \in DOMAIN W : W[j] \in Above(k)

\* What List returns.
ListedOK(F, B) ==
  /\ Increasing(F)
  /\ \A k \in B : k \in Range(F) \/ (Len(F) = limit /\ k > Last(F))

\* The entries of a directory, sorted.
LEMMA SortedFacts ==
  ASSUME NEW S \in SUBSET Dirs, NEW s \in Sorted(S)
  PROVE  /\ s \in Seq(Dirs) /\ Increasing(s)
         /\ \A i \in DOMAIN s : s[i] \in S
         /\ \A e \in S : \E i \in DOMAIN s : s[i] = e
  <1>1. Cardinality(S) \in Nat
    BY OrderAssumption, FS_Subset, FS_CardinalityType
  <1> DEFINE n == Cardinality(S)
  <1>2. s \in [1..n -> S] /\ Increasing(s) /\ \A e \in S : \E i \in 1..n : s[i] = e
    BY DEF Sorted, Bijection, Injection, Surjection, Increasing
  <1> HIDE DEF n
  <1>3. n \in Nat
    BY <1>1 DEF n
  <1>4. s \in [1..n -> Dirs]
    BY <1>2
  <1>5. s \in Seq(Dirs) /\ DOMAIN s = 1..n
    BY <1>3, <1>4
  <1> QED BY <1>2, <1>5

\* One directory of the walk is read.
LEMMA ReadStep ==
  ASSUME NEW W \in Seq(Dirs), NEW F \in Seq(Keys), NEW B \in SUBSET Keys, WalkOK(W, F, B),
         NEW S \in SUBSET Dirs, \A e \in S : Parent[e] = Head(W),
         \A k \in B : \A e \in Above(k) : Parent[e] = Head(W) => e \in S,
         NEW inside \in Sorted(S),
         NEW G, G = F \/ (G = Append(F, Head(W)) /\ Head(W) \in Keys),
         Head(W) \in B => G = Append(F, Head(W))
  PROVE  /\ G \in Seq(Keys)
         /\ inside \o Tail(W) \in Seq(Dirs)
         /\ IF Len(G) = limit \/ inside \o Tail(W) = <<>>
            THEN ListedOK(G, B)
            ELSE WalkOK(inside \o Tail(W), G, B)
  <1> DEFINE d == Head(W)
             T == Tail(W)
             V == inside \o T
  <1>1. /\ d \in Dirs /\ d = W[1] /\ 1 \in DOMAIN W
        /\ T \in Seq(Dirs) /\ Len(T) = Len(W) - 1 /\ DOMAIN T = 1..Len(T) /\ DOMAIN W = 1..Len(W)
        /\ Len(W) \in Nat \ {0}
        /\ \A i \in DOMAIN T : T[i] = W[i + 1] /\ i + 1 \in DOMAIN W
    <2>1. W # <<>>
      BY DEF WalkOK
    <2> QED BY <2>1
  <1>2. Dirs \subseteq Nat /\ Keys \subseteq Dirs /\ limit \in Nat \ {0}
    BY DiskAssumption DEF Dirs
  <1>3. /\ inside \in Seq(Dirs) /\ Increasing(inside)
        /\ \A i \in DOMAIN inside : inside[i] \in S /\ Parent[inside[i]] = d
        /\ \A e \in S : \E i \in DOMAIN inside : inside[i] = e
    BY SortedFacts
  <1>4. /\ V \in Seq(Dirs) /\ Len(inside) \in Nat
        /\ \A i \in DOMAIN inside : i \in DOMAIN V /\ V[i] = inside[i]
        /\ \A i \in DOMAIN T : Len(inside) + i \in DOMAIN V /\ V[Len(inside) + i] = T[i]
        /\ \A i \in DOMAIN V :
              /\ i \in Nat
              /\ \/ i \in DOMAIN inside
                 \/ i > Len(inside) /\ i - Len(inside) \in DOMAIN T /\ V[i] = T[i - Len(inside)]
        /\ DOMAIN inside = 1..Len(inside)
    BY <1>1, <1>3, ConcatPlaces
  <1>5. /\ Len(F) \in Nat /\ DOMAIN F = 1..Len(F) /\ \A i \in 1..Len(F) : F[i] \in Keys
        /\ Len(F) < limit /\ Increasing(F)
    BY DEF WalkOK
  <1> HIDE DEF d, T, V
  \* What is in the walk.
  <1>6. \A i \in DOMAIN T : T[i] \in Dirs /\ d < T[i] /\ d \notin Above(T[i])
    <2> SUFFICES ASSUME NEW i \in DOMAIN T
                 PROVE  T[i] \in Dirs /\ d < T[i] /\ d \notin Above(T[i])
      OBVIOUS
    <2>1. i \in Nat /\ i + 1 \in DOMAIN W /\ 1 < i + 1 /\ T[i] = W[i + 1]
      BY <1>1
    <2>2. \A a, b \in DOMAIN W : a < b => W[a] < W[b] /\ W[a] \notin Above(W[b])
      BY DEF WalkOK
    <2>3. W[1] < W[i + 1] /\ W[1] \notin Above(W[i + 1])
      BY <1>1, <2>1, <2>2
    <2> QED BY <1>1, <2>1, <2>3
  <1>7. \A i, j \in DOMAIN T : i < j => T[i] < T[j] /\ T[i] \notin Above(T[j])
    <2> SUFFICES ASSUME NEW i \in DOMAIN T, NEW j \in DOMAIN T, i < j
                 PROVE  T[i] < T[j] /\ T[i] \notin Above(T[j])
      OBVIOUS
    <2>1. /\ i + 1 \in DOMAIN W /\ j + 1 \in DOMAIN W /\ i + 1 < j + 1
          /\ T[i] = W[i + 1] /\ T[j] = W[j + 1]
      BY <1>1
    <2>2. \A a, b \in DOMAIN W : a < b => W[a] < W[b] /\ W[a] \notin Above(W[b])
      BY DEF WalkOK
    <2> QED BY <2>1, <2>2
  <1>8. ASSUME NEW e \in Dirs, Parent[e] = d
        PROVE  /\ d < e /\ d \in Above(e)
               /\ \A t \in Dirs : d < t /\ d \notin Above(t) => e < t /\ e \notin Above(t)
    <2>1. d < e /\ d \in Above(e)
      BY <1>1, <1>8, ParentAbove, DiskAssumption
    <2>2. ASSUME NEW t \in Dirs, d < t, d \notin Above(t)
          PROVE  e < t /\ e \notin Above(t)
      <3>1. e < t
        BY <1>1, <2>1, <2>2, OrderAssumption
      <3>2. e \in Above(t) => d \in Above(t)
        BY <2>1, <2>2, AboveTransitive
      <3> QED BY <2>2, <3>1, <3>2
    <2> QED BY <2>1, <2>2
  <1>9. ASSUME NEW e \in Dirs, Parent[e] = d, NEW f \in Dirs, Parent[f] = d, e < f
        PROVE  e \notin Above(f)
    <2>1. e \in Nat /\ d \in Nat /\ d < e
      BY <1>1, <1>2, <1>8, <1>9
    <2>2. e \in Above(f) => e \in {f} \cup Above(d)
      BY <1>9, AboveParent
    <2>3. e \in Above(d) => e <= d
      BY <1>1, AboveLow
    <2> QED BY <1>2, <1>9, <2>1, <2>2, <2>3
  <1>10. \A i \in DOMAIN inside : inside[i] \in Dirs /\ Parent[inside[i]] = d
    BY <1>3
  \* What is found.
  <1>11. \A i \in DOMAIN F : F[i] < d
    BY <1>1 DEF WalkOK
  <1>12. /\ G \in Seq(Keys) /\ Len(G) \in Nat /\ Increasing(G)
         /\ \A i \in DOMAIN G : G[i] \in Nat /\ G[i] <= d
         /\ Range(F) \subseteq Range(G)
         /\ Len(G) <= limit
         /\ Len(G) = limit => Last(G) = d /\ d \in Range(G)
         /\ d \in B => d \in Range(G)
    <2>0. /\ G = F \/ (G = Append(F, d) /\ d \in Keys)
          /\ d \in B => G = Append(F, d)
      BY DEF d
    <2>1. CASE G = F
      <3>1. d \notin B
        <4>1. Len(Append(F, d)) = Len(F) + 1
          BY <1>5
        <4>2. F # Append(F, d)
          <5> SUFFICES ASSUME F = Append(F, d) PROVE FALSE
            OBVIOUS
          <5>1. Len(F) = Len(F) + 1
            BY <4>1, Zenon
          <5> QED BY <5>1, <1>5
        <4> QED BY <2>0, <2>1, <4>2
      <3>2. \A i \in DOMAIN G : G[i] \in Nat /\ G[i] <= d
        <4> SUFFICES ASSUME NEW i \in DOMAIN F
                     PROVE  F[i] \in Nat /\ F[i] <= d
          BY <2>1
        <4>1. F[i] \in Nat /\ d \in Nat /\ F[i] < d
          BY <1>1, <1>2, <1>5, <1>11
        <4> QED BY <4>1
      <3>3. Len(G) < limit /\ Len(G) \in Nat /\ G \in Seq(Keys) /\ Increasing(G)
        BY <1>5, <2>1
      <3> QED BY <1>2, <2>1, <3>1, <3>2, <3>3
    <2>2. CASE G = Append(F, d) /\ d \in Keys
      <3>1. /\ G \in Seq(Keys) /\ Len(G) = Len(F) + 1 /\ DOMAIN G = 1..(Len(F) + 1)
            /\ G[Len(F) + 1] = d /\ \A i \in 1..Len(F) : G[i] = F[i]
        BY <2>2, AppendFacts
      <3>2. Increasing(G)
        <4> SUFFICES ASSUME NEW i \in DOMAIN G, NEW j \in DOMAIN G, i < j
                     PROVE  G[i] < G[j]
          BY DEF Increasing
        <4>1. i \in 1..Len(F) /\ j \in 1..(Len(F) + 1)
          BY <1>5, <3>1
        <4>2. CASE j = Len(F) + 1
          BY <1>5, <1>11, <3>1, <4>1, <4>2
        <4>3. CASE j # Len(F) + 1
          BY <1>5, <3>1, <4>1, <4>3 DEF Increasing
        <4> QED BY <4>2, <4>3
      <3>3. \A i \in DOMAIN G : G[i] \in Nat /\ G[i] <= d
        <4> SUFFICES ASSUME NEW i \in DOMAIN G
                     PROVE  G[i] \in Nat /\ G[i] <= d
          OBVIOUS
        <4>1. d \in Nat
          BY <1>1, <1>2
        <4>2. CASE i = Len(F) + 1
          BY <3>1, <4>1, <4>2
        <4>3. CASE i # Len(F) + 1
          <5>1. i \in 1..Len(F) /\ i \in DOMAIN F /\ G[i] = F[i]
            BY <1>5, <3>1, <4>3
          <5>2. F[i] \in Nat /\ F[i] < d
            BY <1>2, <1>5, <1>11, <5>1
          <5> QED BY <4>1, <5>1, <5>2
        <4> QED BY <4>2, <4>3
      <3>4. Range(F) \subseteq Range(G) /\ d \in Range(G)
        BY <1>5, <3>1 DEF Range
      <3>5. Last(G) = d
        BY <3>1 DEF Last
      <3> QED BY <1>2, <1>5, <3>1, <3>2, <3>3, <3>4, <3>5
    <2> QED BY <2>0, <2>1, <2>2
  \* Where the keys are.
  <1>13. ASSUME NEW k \in B
         PROVE  \/ k \in Range(G)
                \/ \E i \in DOMAIN V : V[i] \in Above(k)
    <2>1. k \in Dirs /\ \A e \in Above(k) : Parent[e] = d => e \in S
      BY <1>2 DEF d
    <2>2. CASE k \in Range(F) \/ k = d
      BY <1>12, <2>2
    <2>3. CASE k # d /\ d \in Above(k)
      <3>1. PICK e \in Above(k) : Parent[e] = d
        BY <2>1, <2>3, AboveChild
      <3>2. PICK i \in DOMAIN inside : inside[i] = e
        BY <1>3, <2>1, <3>1
      <3>3. i \in DOMAIN V /\ V[i] = e
        BY <1>4, <3>2
      <3> QED BY <3>1, <3>3
    <2>4. ASSUME NEW j \in DOMAIN W, j # 1, W[j] \in Above(k)
          PROVE  \E i \in DOMAIN V : V[i] \in Above(k)
      <3>1. j - 1 \in DOMAIN T /\ T[j - 1] = W[j]
        BY <1>1, <2>4
      <3>2. Len(inside) + (j - 1) \in DOMAIN V /\ V[Len(inside) + (j - 1)] = T[j - 1]
        BY <1>4, <3>1
      <3> QED BY <2>4, <3>1, <3>2
    <2>5. k \in Range(F) \/ \E j \in DOMAIN W : W[j] \in Above(k)
      BY DEF WalkOK
    <2> QED BY <1>1, <2>2, <2>3, <2>4, <2>5
  <1>14. ASSUME NEW i \in DOMAIN V
         PROVE  V[i] \in Dirs /\ d < V[i]
    <2>1. CASE i \in DOMAIN inside
      BY <1>4, <1>8, <1>10, <2>1
    <2>2. CASE i - Len(inside) \in DOMAIN T /\ V[i] = T[i - Len(inside)]
      BY <1>6, <2>2
    <2> QED BY <1>4, <2>1, <2>2
  <1>15. ASSUME Len(G) = limit \/ V = <<>>
         PROVE  ListedOK(G, B)
    <2> SUFFICES ASSUME NEW k \in B, k \notin Range(G)
                 PROVE  Len(G) = limit /\ k > Last(G)
      BY <1>12 DEF ListedOK
    <2>1. PICK i \in DOMAIN V : V[i] \in Above(k)
      BY <1>13
    <2>2. V # <<>>
      BY <2>1
    <2>3. V[i] \in Dirs /\ d < V[i] /\ V[i] <= k /\ k \in Nat /\ d \in Nat /\ V[i] \in Nat
      BY <1>1, <1>2, <1>14, <2>1, AboveLow
    <2> QED BY <1>12, <1>15, <2>2, <2>3
  <1>16. ASSUME Len(G) # limit, V # <<>>
         PROVE  WalkOK(V, G, B)
    <2>1. Len(G) < limit
      BY <1>2, <1>12, <1>16
    <2>2. \A i \in DOMAIN G, j \in DOMAIN V : G[i] < V[j]
      <3> SUFFICES ASSUME NEW i \in DOMAIN G, NEW j \in DOMAIN V
                   PROVE  G[i] < V[j]
        OBVIOUS
      <3>1. G[i] \in Nat /\ G[i] <= d /\ d \in Nat /\ V[j] \in Nat /\ d < V[j]
        BY <1>1, <1>2, <1>12, <1>14
      <3> QED BY <3>1
    <2>3. ASSUME NEW i \in DOMAIN V, NEW j \in DOMAIN V, i < j
          PROVE  V[i] < V[j] /\ V[i] \notin Above(V[j])
      <3>1. i \in Nat /\ j \in Nat /\ Len(inside) \in Nat
        BY <1>4
      <3>2. CASE j \in DOMAIN inside
        <4>1. i \in DOMAIN inside /\ V[i] = inside[i] /\ V[j] = inside[j]
          BY <1>4, <2>3, <3>1, <3>2
        <4>2. inside[i] < inside[j]
          BY <1>3, <2>3, <3>2, <4>1 DEF Increasing
        <4> QED BY <1>9, <1>10, <3>2, <4>1, <4>2
      <3>3. CASE i \in DOMAIN inside /\ j \notin DOMAIN inside
        <4>1. V[i] = inside[i] /\ j - Len(inside) \in DOMAIN T /\ V[j] = T[j - Len(inside)]
          BY <1>4, <3>3
        <4>2. V[i] \in Dirs /\ Parent[V[i]] = d /\ V[j] \in Dirs /\ d < V[j] /\ d \notin Above(V[j])
          BY <1>6, <1>10, <3>3, <4>1
        <4> QED BY <1>8, <4>2
      <3>4. CASE i \notin DOMAIN inside /\ j \notin DOMAIN inside
        <4>1. /\ i - Len(inside) \in DOMAIN T /\ V[i] = T[i - Len(inside)]
              /\ j - Len(inside) \in DOMAIN T /\ V[j] = T[j - Len(inside)]
          BY <1>4, <3>4
        <4>2. i - Len(inside) < j - Len(inside)
          BY <2>3, <3>1
        <4> QED BY <1>7, <4>1, <4>2
      <3> QED BY <3>2, <3>3, <3>4
    <2> QED BY <1>12, <1>13, <1>16, <2>1, <2>2, <2>3 DEF WalkOK
  <1> QED BY <1>4, <1>12, <1>15, <1>16 DEF V, T

\* What a call of List has to find.
Wanted(l) == {k \in before[l] : Matches(prefix[l], k)}

\* The walk of one call of List.
ListOK(l) ==
  /\ pc[l] \in {"new", "list"} => found[l] = <<>>
  /\ pc[l] = "walk" => /\ WalkOK(walk[l], found[l], Wanted(l))
                       /\ \A k \in before[l] : value[k] # None
  /\ pc[l] = "listed" => ListedOK(found[l], Wanted(l))
  /\ pc[l] \in {"walk", "listed"} => \A i \in DOMAIN found[l] : Matches(prefix[l], found[l][i])

\* A value lies in directories that exist.
PathsOK == \A k \in Keys : value[k] # None => Above(k) \subseteq dirs

DirListInv ==
  /\ prefix \in [Listers -> Seq(Nat)]
  /\ walk \in [Listers -> Seq(Dirs)]
  /\ found \in [Listers -> Seq(Keys)]
  /\ before \in [Listers -> SUBSET Keys]
  /\ PathsOK
  /\ \A l \in Listers : ListOK(l)

\* A step that is none of List and loses nothing.
LEMMA ListQuiet ==
  ASSUME DiskInv, DirListInv, UNCHANGED listVars, dirs \subseteq dirs',
         \A k \in Keys : \/ value'[k] = value[k]
                         \/ value[k] = None /\ Above(k) \subseteq dirs',
         \A l \in Listers : \/ pc'[l] = pc[l]
                            \/ pc'[l] \in Stages \cup {"done"}
                            \/ pc'[l] = "list" /\ pc[l] = "new"
  PROVE  DirListInv'
  <1>1. PathsOK'
    BY DEF DirListInv, PathsOK
  <1>2. ASSUME NEW l \in Listers
        PROVE  ListOK(l)'
    <2>1. ListOK(l) /\ before[l] \subseteq Keys
      BY DEF DirListInv
    <2>2. /\ walk'[l] = walk[l] /\ found'[l] = found[l]
          /\ before'[l] = before[l] /\ prefix'[l] = prefix[l] /\ Wanted(l)' = Wanted(l)
      BY DEF listVars, Wanted
    <2>3. CASE pc'[l] = pc[l]
      <3>1. \A k \in before[l] : value[k] # None => value'[k] # None
        BY <2>1
      <3> QED BY <2>1, <2>2, <2>3, <3>1 DEF ListOK
    <2>4. CASE pc'[l] \in Stages \cup {"done"}
      BY <2>4 DEF ListOK, Stages
    <2>5. CASE pc'[l] = "list" /\ pc[l] = "new"
      BY <2>1, <2>2, <2>5 DEF ListOK
    <2> QED BY <2>3, <2>4, <2>5
  <1> QED BY <1>1, <1>2 DEF DirListInv, listVars

\* What a process does to its own program counter.
LEMMA GotoOther ==
  ASSUME DiskTypeOK, NEW p \in Writers \cup Listers, NEW stage, pc' = pc \/ Goto(p, stage)
  PROVE  \A l \in Listers : pc'[l] = pc[l] \/ (l = p /\ pc'[l] = stage)
  BY DEF DiskTypeOK, Goto

\* List begins at v1, below which all keys are.
LEMMA ListStart ==
  ASSUME DiskInv, DirListInv, NEW l \in Listers, List(l)
  PROVE  DirListInv'
  <1>0. PICK p \in Queries : prefix' = [prefix EXCEPT ![l] = p]
    BY DEF List
  <1> DEFINE B == {k \in Keys : value[k] # None}
             A == {k \in B : Matches(p, k)}
  <1>1. /\ pc[l] = "list"
        /\ walk' = [walk EXCEPT ![l] = <<V1>>]
        /\ before' = [before EXCEPT ![l] = B]
        /\ found' = found /\ value' = value /\ dirs' = dirs
        /\ pc' = [pc EXCEPT ![l] = "walk"]
    BY DEF List, Goto, fsVars
  <1>2. V1 \in Dirs /\ Keys \subseteq Dirs
    BY DEF Dirs
  <1>3. /\ walk' \in [Listers -> Seq(Dirs)] /\ before' \in [Listers -> SUBSET Keys]
        /\ prefix' \in [Listers -> Seq(Nat)]
    BY <1>0, <1>1, <1>2, DiskAssumption DEF DirListInv
  <1>4. WalkOK(<<V1>>, <<>>, A)
    <2>1. \A k \in A : V1 \in Above(k)
      BY <1>2, AboveV1
    <2>2. Len(<<>>) < limit
      BY DiskAssumption
    <2>3. \A k \in A : \E j \in DOMAIN <<V1>> : <<V1>>[j] \in Above(k)
      BY <2>1
    <2> QED BY <2>2, <2>3 DEF WalkOK, Increasing
  <1>5. ASSUME NEW m \in Listers
        PROVE  ListOK(m)'
    <2>1. ListOK(m)
      BY DEF DirListInv
    <2>2. CASE m = l
      <3>1. /\ found'[m] = <<>> /\ pc'[m] = "walk" /\ prefix'[m] = p
            /\ walk'[m] = <<V1>> /\ before'[m] = B /\ value' = value
        BY <1>0, <1>1, <2>1, <2>2 DEF ListOK, DirListInv, DiskInv, DiskTypeOK
      <3>2. \A k \in B : value[k] # None
        OBVIOUS
      <3>3. Wanted(m)' = A
        BY <3>1 DEF Wanted
      <3> HIDE DEF A, B
      <3> QED BY <1>4, <3>1, <3>2, <3>3 DEF ListOK
    <2>3. CASE m # l
      <3>1. /\ found'[m] = found[m] /\ pc'[m] = pc[m] /\ prefix'[m] = prefix[m]
            /\ walk'[m] = walk[m] /\ before'[m] = before[m]
        BY <1>0, <1>1, <2>3 DEF DirListInv, DiskInv, DiskTypeOK
      <3>2. Wanted(m)' = Wanted(m)
        BY <3>1 DEF Wanted
      <3> QED BY <1>1, <2>1, <3>1, <3>2 DEF ListOK
    <2> QED BY <2>2, <2>3
  <1> QED BY <1>1, <1>3, <1>5 DEF DirListInv, PathsOK

\* The walk reads a directory.
LEMMA ListRead ==
  ASSUME DiskInv, DirListInv, NEW l \in Listers, ReadDir(l)
  PROVE  DirListInv'
  <1> DEFINE W == walk[l]
             F == found[l]
             B == Wanted(l)
             d == Head(W)
             G == IF d \in Keys /\ value[d] # None /\ Matches(prefix[l], d)
                  THEN Append(F, d) ELSE F
             S == {e \in dirs : Parent[e] = d /\ Overlaps(prefix[l], e)}
  <1>1. PICK inside \in Sorted(S) :
          IF Len(G) = limit \/ inside \o Tail(W) = <<>>
          THEN walk' = [walk EXCEPT ![l] = <<>>] /\ pc' = [pc EXCEPT ![l] = "listed"]
          ELSE walk' = [walk EXCEPT ![l] = inside \o Tail(@)] /\ pc' = pc
    BY DEF ReadDir, Goto
  <1>2. /\ pc[l] = "walk" /\ found' = [found EXCEPT ![l] = G]
        /\ prefix' = prefix /\ before' = before /\ value' = value /\ dirs' = dirs
    BY DEF ReadDir, fsVars
  <1>3. /\ W \in Seq(Dirs) /\ F \in Seq(Keys) /\ before[l] \in SUBSET Keys
        /\ prefix[l] \in Seq(Nat)
        /\ WalkOK(W, F, B) /\ \A k \in before[l] : value[k] # None
        /\ \A i \in DOMAIN F : Matches(prefix[l], F[i])
    BY <1>2 DEF DirListInv, ListOK
  <1>3a. B \in SUBSET Keys /\ \A k \in B : value[k] # None /\ Matches(prefix[l], k)
    BY <1>3 DEF Wanted
  <1>4. /\ S \in SUBSET Dirs /\ \A e \in S : Parent[e] = d
        /\ \A k \in B : \A e \in Above(k) : Parent[e] = d => e \in S
    <2>1. dirs \in SUBSET Dirs /\ \A k \in B : Above(k) \subseteq dirs
      BY <1>3a DEF DiskInv, DiskTypeOK, DirListInv, PathsOK
    <2>2. \A k \in B : \A e \in Above(k) : Overlaps(prefix[l], e)
      BY <1>3, <1>3a, AboveOverlaps DEF Dirs
    <2> QED BY <2>1, <2>2
  <1>5. /\ G = F \/ (G = Append(F, d) /\ d \in Keys /\ Matches(prefix[l], d))
        /\ d \in B => G = Append(F, d)
    BY <1>3a
  <1> HIDE DEF W, F, B, G, S
  <1>6. /\ G \in Seq(Keys)
        /\ inside \o Tail(W) \in Seq(Dirs)
        /\ IF Len(G) = limit \/ inside \o Tail(W) = <<>>
           THEN ListedOK(G, B)
           ELSE WalkOK(inside \o Tail(W), G, B)
    BY <1>3, <1>3a, <1>4, <1>5, ReadStep
  <1>6a. \A i \in DOMAIN G : Matches(prefix[l], G[i])
    <2>1. CASE G = F
      BY <1>3, <2>1
    <2>2. CASE G = Append(F, d) /\ d \in Keys /\ Matches(prefix[l], d)
      <3>1. /\ DOMAIN G = 1..(Len(F) + 1) /\ DOMAIN F = 1..Len(F) /\ Len(F) \in Nat
            /\ G[Len(F) + 1] = d /\ \A i \in 1..Len(F) : G[i] = F[i]
        BY <1>3, <2>2, AppendFacts
      <3> QED BY <1>3, <2>2, <3>1
    <2> QED BY <1>5, <2>1, <2>2
  <1>7. walk \in [Listers -> Seq(Dirs)] /\ found \in [Listers -> Seq(Keys)]
    BY DEF DirListInv
  <1>8. /\ walk' \in [Listers -> Seq(Dirs)] /\ found' \in [Listers -> Seq(Keys)]
        /\ found'[l] = G /\ prefix'[l] = prefix[l] /\ before'[l] = before[l] /\ Wanted(l)' = B
    <2>1. /\ found' \in [Listers -> Seq(Keys)]
          /\ found'[l] = G /\ prefix'[l] = prefix[l] /\ before'[l] = before[l] /\ Wanted(l)' = B
      BY <1>2, <1>6, <1>7 DEF B, Wanted
    <2>2. <<>> \in Seq(Dirs) /\ inside \o Tail(walk[l]) \in Seq(Dirs)
      BY <1>6 DEF W
    <2>3. PICK s \in Seq(Dirs) : walk' = [walk EXCEPT ![l] = s]
      BY <1>1, <2>2
    <2> QED BY <1>7, <2>1, <2>3
  <1>9. ListOK(l)'
    <2>1. CASE Len(G) = limit \/ inside \o Tail(W) = <<>>
      <3>1. pc'[l] = "listed" /\ ListedOK(G, B)
        BY <1>1, <1>6, <2>1 DEF DiskInv, DiskTypeOK
      <3> QED BY <1>2, <1>8, <1>6a, <3>1 DEF ListOK
    <2>2. CASE ~(Len(G) = limit \/ inside \o Tail(W) = <<>>)
      <3>1. pc'[l] = "walk" /\ walk'[l] = inside \o Tail(W) /\ WalkOK(inside \o Tail(W), G, B)
        BY <1>1, <1>2, <1>6, <1>7, <2>2 DEF W
      <3> QED BY <1>2, <1>3, <1>8, <1>6a, <3>1 DEF ListOK
    <2> QED BY <2>1, <2>2
  <1>10. ASSUME NEW m \in Listers, m # l
         PROVE  ListOK(m)'
    <2>1. ListOK(m)
      BY DEF DirListInv
    <2>2. /\ found'[m] = found[m] /\ pc'[m] = pc[m]
          /\ walk'[m] = walk[m] /\ prefix'[m] = prefix[m] /\ before'[m] = before[m]
          /\ Wanted(m)' = Wanted(m)
      BY <1>1, <1>2, <1>7, <1>10 DEF DiskInv, DiskTypeOK, Wanted
    <2> QED BY <1>2, <2>1, <2>2 DEF ListOK
  <1> QED BY <1>2, <1>8, <1>9, <1>10 DEF DirListInv, PathsOK

\* A power loss ends every call of List, and keeps whole paths.
LEMMA ListPowerLoss ==
  ASSUME DiskInv, DirListInv, PowerLoss
  PROVE  DirListInv'
  <1>1. PICK left \in SUBSET (dirs \ kept), torn \in SUBSET {k \in Keys : value[k] # keptValue[k]} :
          /\ dirs' = {d \in dirs : Above(d) \subseteq kept \cup left}
          /\ value' = [k \in Keys |-> IF k \notin dirs' THEN None
                                      ELSE IF k \in torn THEN keptValue[k] ELSE value[k]]
    BY DEF PowerLoss
  <1>2. /\ pc' = [p \in DOMAIN pc |-> IF pc[p] \in {"new", "listed"} THEN pc[p] ELSE "done"]
        /\ UNCHANGED listVars
    BY DEF PowerLoss
  <1>3. PathsOK'
    <2> SUFFICES ASSUME NEW k \in Keys, value'[k] # None, NEW e \in Above(k)
                 PROVE  e \in dirs'
      BY DEF PathsOK
    <2>1. k \in dirs'
      BY <1>1
    <2>2. k \in Dirs /\ Above(k) \subseteq kept \cup left /\ kept \cup left \subseteq dirs
      BY <1>1, <2>1 DEF DiskInv, DiskTypeOK
    <2>3. Above(e) \subseteq Above(k)
      BY <2>2, AboveTransitive
    <2> QED BY <1>1, <2>2, <2>3
  <1>4. ASSUME NEW l \in Listers
        PROVE  ListOK(l)'
    <2>1. ListOK(l)
      BY DEF DirListInv
    <2>2. pc'[l] = (IF pc[l] \in {"new", "listed"} THEN pc[l] ELSE "done")
      BY <1>2 DEF DiskInv, DiskTypeOK
    <2>3. Wanted(l)' = Wanted(l)
      BY <1>2 DEF listVars, Wanted
    <2> QED BY <1>2, <2>1, <2>2, <2>3 DEF ListOK, listVars
  <1> QED BY <1>2, <1>3, <1>4 DEF DirListInv, listVars

\* Every step keeps the invariant of List.
LEMMA DirListNext == DiskInv /\ DirListInv /\ [DiskNext]_diskVars => DirListInv'
  <1> SUFFICES ASSUME DiskInv, DirListInv, [DiskNext]_diskVars PROVE DirListInv'
    OBVIOUS
  <1>0. DiskTypeOK
    BY DEF DiskInv
  <1>1. CASE UNCHANGED diskVars
    BY <1>1, ListQuiet DEF diskVars, fsVars
  <1>2. ASSUME NEW p \in Writers \cup Listers, New(p)
        PROVE  DirListInv'
    <2>1. /\ pc[p] = "new" /\ UNCHANGED listVars /\ value' = value /\ dirs \subseteq dirs'
          /\ Goto(p, "stat") \/ Goto(p, "list")
      BY <1>2 DEF New
    <2>2. \A l \in Listers : \/ pc'[l] = pc[l] \/ pc'[l] \in Stages \/ (pc'[l] = "list" /\ pc[l] = "new")
      BY <1>0, <2>1, GotoOther DEF Stages
    <2> QED BY <2>1, <2>2, ListQuiet
  <1>3. ASSUME NEW w \in Writers,
               Stat(w) \/ MkdirAll(w) \/ Copy(w) \/ SyncFile(w) \/ SyncDir(w)
        PROVE  DirListInv'
    <2>1. /\ UNCHANGED listVars /\ value' = value /\ dirs \subseteq dirs'
          /\ \E stage \in Stages \cup {"done"} : pc' = pc \/ Goto(w, stage)
      BY <1>3 DEF Stat, MkdirAll, Copy, SyncFile, SyncDir, Return, fsVars, Stages, Goto
    <2>2. \A l \in Listers : pc'[l] = pc[l] \/ pc'[l] \in Stages \cup {"done"}
      BY <1>0, <2>1, GotoOther
    <2> QED BY <2>1, <2>2, ListQuiet
  <1>4. ASSUME NEW w \in Writers, Link(w)
        PROVE  DirListInv'
    <2> DEFINE k == Head(todo[w])
    <2>1. k \in Keys /\ Above(k) \subseteq dirs
      BY <1>4, HeadIsKey DEF Link, Stages, CreateOK
    <2>2. /\ UNCHANGED listVars /\ dirs' = dirs
          /\ value' = value \/ (value[k] = None /\ value' = [value EXCEPT ![k] = w])
          /\ \E stage \in Stages \cup {"done"} : Goto(w, stage)
      BY <1>4 DEF Link, Return, Stages, Goto
    <2>3. \A l \in Listers : pc'[l] = pc[l] \/ pc'[l] \in Stages \cup {"done"}
      BY <1>0, <2>2, GotoOther
    <2> HIDE DEF k
    <2>4. \A x \in Keys : value'[x] = value[x] \/ (value[x] = None /\ Above(x) \subseteq dirs')
      BY <1>0, <2>1, <2>2 DEF DiskTypeOK
    <2> QED BY <2>2, <2>3, <2>4, ListQuiet
  <1>5. ASSUME NEW l \in Listers, List(l) \/ ReadDir(l)
        PROVE  DirListInv'
    BY <1>5, ListStart, ListRead
  <1>6. CASE PowerLoss
    BY <1>6, ListPowerLoss
  <1>7. ASSUME NEW p \in Writers \cup Listers, Fail(p)
        PROVE  DirListInv'
    <2>1. UNCHANGED <<fsVars, listVars>> /\ Goto(p, "done")
      BY <1>7 DEF Fail
    <2>2. \A l \in Listers : pc'[l] = pc[l] \/ pc'[l] = "done"
      BY <1>0, <2>1, GotoOther
    <2> QED BY <2>1, <2>2, ListQuiet DEF fsVars
  <1> QED BY <1>1, <1>2, <1>3, <1>4, <1>5, <1>6, <1>7 DEF DiskNext

\* For every tree of directories, every prefix and every limit, List returns the first
\* keys with the prefix, in order and no others, and none of those that were visible when
\* it began is left out, whatever is created while it walks.
THEOREM DiskListIsCurrent == DiskSpec => []ListIsCurrent
  <1>1. DiskInit => DirListInv
    <2> SUFFICES ASSUME DiskInit PROVE DirListInv
      OBVIOUS
    <2>1. /\ walk \in [Listers -> Seq(Dirs)] /\ found \in [Listers -> Seq(Keys)]
          /\ before \in [Listers -> SUBSET Keys] /\ prefix \in [Listers -> Seq(Nat)]
      BY DEF DiskInit
    <2> QED BY <2>1 DEF DiskInit, DirListInv, PathsOK, ListOK
  <1>2. DirListInv => ListIsCurrent
    BY DEF DirListInv, ListOK, ListedOK, Increasing, Wanted, ListIsCurrent
  <1> QED BY <1>1, <1>2, DirListNext, DiskInvariant, PTL DEF DiskSpec

=============================================================================
