-------------------------------- MODULE Scan --------------------------------
(***************************************************************************)
(* Scan and its choice between a packed segment and the historical commits *)
(* inside it (scan.go), over a store in which one object may be missing or *)
(* damaged.                                                                *)
(*                                                                         *)
(* The hash of a record is the sequence of the IDs of all records up to    *)
(* it.  A segment and a commit that a reference names are covered by the   *)
(* digest in the reference; the historical commit at a segment's end is    *)
(* fetched by its revision alone, and its record hash does not cover its   *)
(* frontier.  Damage of that frontier is what Claim describes: for some    *)
(* range of revisions it leads to other objects, which are well-formed.    *)
(* The snapshot that is scanned is intact, as LoadHead returned it.        *)
(***************************************************************************)
EXTENDS Frontier

CONSTANTS
  MaxLength,    \* bound on the revision of the snapshot
  BatchBytes    \* sizes of the snapshot's batch

VARIABLES
  damage,   \* what is wrong with the store
  snap,     \* the revision of the snapshot
  first, last, bytes,  \* the range, cut off at snap, and the batch size
  at,       \* at: index of the next frontier reference to visit
  next, chain, done,   \* emit's variables
  yielded,  \* the records the callback has accepted
  gets,     \* Get calls made
  result    \* "none" while the scan runs

params == <<damage, snap, first, last, bytes>>
scanVars == <<params, at, next, chain, done, yielded, gets, result>>

Sum(S(_), dom) == FoldLeft(LAMBDA acc, k : acc + S(k), 0, SetToSeq(dom))

-----------------------------------------------------------------------------
(* The log and its objects.                                                *)

\* The record hash of revision r in the log.
True(r) == [k \in 1..r |-> "id"]

\* The hash that a damaged frontier claims for revision r: from revision d.from
\* through d.through the records are others.
Claim(d, r) ==
  IF d.kind = "frontier" /\ r \in d.from..d.through
  THEN [k \in 1..r |-> IF k < d.from THEN "id" ELSE "other"]
  ELSE True(r)

Intact == [kind |-> "none"]

recordHash(id, prev) == Append(prev, id)

\* The projection whose hash and predecessor are as claimed.
Projection(d, r) ==
  [revision |-> r, prev |-> Claim(d, r - 1), hash |-> Claim(d, r), id |-> Last(Claim(d, r))]

validateProjection(p) == p.hash = recordHash(p.id, p.prev)

Reference(d, l, start) ==
  LET end == start + Size[l] - 1
  IN [level |-> l, start |-> start, end |-> end,
      firstPrev |-> Claim(d, start - 1), last |-> Claim(d, end),
      sha |-> IF \A r \in (start - 1)..end : Claim(d, r) = True(r) THEN "intact" ELSE "other"]

\* The references of the commit at r: digit l of r-1 at level l.
FrontierOf(d, r) ==
  [l \in Levels |->
     [k \in 1..Digit(r, l) |->
        Reference(d, l, ((r - 1) \div Size[l + 1]) * Size[l + 1] + (k - 1) * Size[l] + 1)]]

logKey(r) == <<"log", r>>
RefKey(ref) == IF ref.level = 0 THEN logKey(ref.start) ELSE <<"tree", ref>>

Missing(d, key) == d.kind = "missing" /\ d.key = key

\* The commit under logKey(r), with the digest of what is stored.  Records that a
\* damaged frontier leads to are stored, in place of the ones of the log.
Commit(d, r) ==
  LET own == IF Claim(d, r) = True(r) THEN Intact ELSE d
      roots == IF d.kind = "frontier" /\ r = d.root THEN d ELSE Intact
  IN [projection |-> Projection(own, r),
      frontier |-> FrontierOf(roots, r),
      sha |-> IF own = Intact /\ roots = Intact THEN "intact" ELSE "other"]

Records(d, ref) ==
  [k \in 1..(ref.end - ref.start + 1) |->
     Projection(IF ref.sha = "intact" THEN Intact ELSE d, ref.start + k - 1)]

-----------------------------------------------------------------------------
(* What a read hands to its callback before it ends, whether it ends well, *)
(* and the Get calls it made.                                              *)

Nothing == [out |-> <<>>, ok |-> TRUE, gets |-> 0]
Corrupt(n) == [out |-> <<>>, ok |-> FALSE, gets |-> n]

Then(x, y) == IF x.ok THEN [out |-> x.out \o y.out, ok |-> y.ok, gets |-> x.gets + y.gets] ELSE x

decodeCommit(d, r) ==
  LET c == Commit(d, r)
  IN /\ ~Missing(d, logKey(r))
     /\ validateProjection(c.projection)
     /\ validateFrontier(c.frontier, r, c.projection.prev)

\* One object, complete and validated before its first record is handed on.
readRecords(d, ref) ==
  LET c == Commit(d, ref.start).projection
      records == Records(d, ref)
  IN IF ref.level = 0
     THEN IF /\ decodeCommit(d, ref.start)
             /\ Commit(d, ref.start).sha = ref.sha
             /\ c.prev = ref.firstPrev /\ c.hash = ref.last
          THEN [out |-> <<c>>, ok |-> TRUE, gets |-> 1]
          ELSE Corrupt(1)
     ELSE IF /\ ~Missing(d, RefKey(ref))
             /\ \A k \in DOMAIN records :
                   /\ validateProjection(records[k])
                   /\ records[k].prev = IF k = 1 THEN ref.firstPrev ELSE records[k - 1].hash
             /\ Last(records).hash = ref.last
          THEN [out |-> records, ok |-> TRUE, gets |-> 1]
          ELSE Corrupt(1)

-----------------------------------------------------------------------------
(* The read plan.                                                          *)

weight(cost, batch) == cost.records * (64 + batch) + 384 * cost.refs + 65536 * cost.gets

commitReadCost(r) ==
  [records |-> 1, gets |-> 1, refs |-> Sum(LAMBDA l : Digit(r, l), Levels)]

Plus(x, y) ==
  [records |-> x.records + y.records, gets |-> x.gets + y.gets, refs |-> x.refs + y.refs]

\* The ranges below the commit at the end of a segment: Radix - 1 of each smaller
\* level, largest first.
Parts(start, l) ==
  FlattenSeq([n \in 1..l |->
    [k \in 1..(Radix - 1) |->
       [level |-> l - n,
        start |-> start + Size[l] - Size[l - n + 1] + (k - 1) * Size[l - n]]]])

\* Mutant: a range that ends inside the segment is split too.
WholeOnly(start, end, f, t) == f <= start /\ t >= end

\* A range that covers the segment, or that ends inside it and so lacks the anchor
\* of the last hash, takes the packed object.
PackedOnly(start, end, f, t) == (f <= start /\ t >= end) \/ t < end

RECURSIVE rangeReadPlan(_, _, _, _, _)
rangeReadPlan(start, l, f, t, batch) ==
  LET end == start + Size[l] - 1
      packed == [records |-> Size[l], gets |-> 1, refs |-> 0]
      parts == Parts(start, l)
      historical ==
        FoldLeft(LAMBDA acc, p : Plus(acc, rangeReadPlan(p.start, p.level, f, t, batch).cost),
                 commitReadCost(end), parts)
  IN IF t < start \/ f > end
     THEN [cost |-> [records |-> 0, gets |-> 0, refs |-> 0], split |-> FALSE]
     ELSE IF l = 0 THEN [cost |-> commitReadCost(start), split |-> FALSE]
     ELSE IF ~PackedOnly(start, end, f, t) /\ weight(historical, batch) < weight(packed, batch)
     THEN [cost |-> historical, split |-> TRUE]
     ELSE [cost |-> packed, split |-> FALSE]

split(ref, f, t, batch) == rangeReadPlan(ref.start, ref.level, f, t, batch).split

-----------------------------------------------------------------------------
(* Reading a reference.                                                    *)

\* Mutant: parts outside of the range are read as well.
DisjointNever(ref, f, t) == FALSE

Disjoint(ref, f, t) == ref.end < f \/ ref.start > t

\* The references of the historical commit c inside ref reproduce its range and
\* the hashes at its boundaries.
MatchesSegment(children, c, ref) ==
  /\ \A k \in DOMAIN children : validateRef(children[k]) /\ children[k].level < ref.level
  /\ Partition(children, ref.start, ref.end, ref.firstPrev, c.projection.prev)

RECURSIVE readRangeParts(_, _, _, _, _)
readRangeParts(d, ref, f, t, batch) ==
  LET c == Commit(d, ref.end)
      children == SelectSeq(Chronological(c.frontier), LAMBDA child : child.end >= ref.start)
      inside == FoldLeft(LAMBDA acc, child : Then(acc, IF acc.ok THEN readRangeParts(d, child, f, t, batch)
                                                       ELSE Nothing),
                         [out |-> <<>>, ok |-> TRUE, gets |-> 1], children)
  IN IF ~validateRef(ref) THEN Corrupt(0)
     ELSE IF Disjoint(ref, f, t) THEN Nothing
     ELSE IF ~split(ref, f, t, batch) THEN readRecords(d, ref)
     ELSE IF decodeCommit(d, ref.end) /\ c.projection.hash = ref.last /\ MatchesSegment(children, c, ref)
     THEN Then(inside, [out |-> <<c.projection>>, ok |-> TRUE, gets |-> 0])
     ELSE Corrupt(1)

\* Mutant: the suffix is handed on as it is read.
readRangeStreaming(d, ref, f, t, batch) == readRangeParts(d, ref, f, t, batch)

\* The suffix is spooled, and handed on once its chain leads to the segment's last
\* hash.
readRangeSpool(d, ref, f, t, batch) ==
  LET parts == readRangeParts(d, ref, f, t, batch)
      suffix == SelectSeq(parts.out, LAMBDA p : p.revision >= f)
  IN IF /\ parts.ok
        /\ Len(suffix) = ref.end - f + 1
        /\ \A k \in DOMAIN suffix :
              /\ suffix[k].revision = f + k - 1
              /\ k > 1 => suffix[k].prev = suffix[k - 1].hash
        /\ Last(suffix).hash = ref.last
     THEN [parts EXCEPT !.out = suffix]
     ELSE Corrupt(parts.gets)

readRange(d, ref, f, t, batch) ==
  IF split(ref, f, t, batch) /\ f # ref.end
  THEN readRangeSpool(d, ref, f, t, batch)
  ELSE readRangeParts(d, ref, f, t, batch)

-----------------------------------------------------------------------------
(* Scan.                                                                   *)

refs == Chronological(FrontierOf(Intact, snap))

\* What can be wrong: one object is missing (or its Get fails), or the frontier of
\* one commit before the snapshot leads to other records.
Damages(n) ==
  {Intact}
  \cup {[kind |-> "missing", key |-> logKey(r)] : r \in 1..n}
  \cup {[kind |-> "missing", key |-> <<"tree", Reference(Intact, l, Size[l] * k + 1)>>] :
          l \in 1..TopLevel, k \in 0..(n \div Radix)}
  \cup {[kind |-> "frontier", root |-> e, from |-> a, through |-> b] :
          e \in 1..(n - 1), a \in 1..n, b \in 1..n}

Harmless(d) == d.kind = "frontier" /\ ~(d.from <= d.through /\ d.through < d.root)

\* A Range is a pair; the zero Range is empty.
StartingAt(revision) == <<revision, MaxRevision>>

After(revision) ==
  IF revision < 0 \/ revision > MaxRevision THEN StartingAt(revision)
  ELSE IF revision = MaxRevision THEN <<0, 0>>
  ELSE StartingAt(revision + 1)

InvalidRange(r) == r # <<0, 0>> /\ (r[1] <= 0 \/ r[1] > r[2] \/ r[2] > MaxRevision)

CallerRanges ==
  ((0..(MaxLength + 1)) \X (0..(MaxLength + 1)))
  \cup {After(r) : r \in (-1..MaxLength) \cup {MaxRevision, MaxRevision + 1}}

\* Scan is called: the range is checked and cut off at the snapshot.
ScanInit ==
  /\ snap \in 0..MaxLength
  /\ damage \in {d \in Damages(snap) : ~Harmless(d)}
  /\ bytes \in BatchBytes
  /\ \E r \in CallerRanges :
       /\ first = r[1]
       /\ last = Min({r[2], snap})
       /\ result = IF InvalidRange(r) THEN "range"
                   ELSE IF r = <<0, 0>> \/ r[1] > snap THEN "nil" ELSE "none"
  /\ at = 1 /\ next = first /\ chain = <<>> /\ done = FALSE
  /\ yielded = <<>> /\ gets = 0

\* emit for each record that a read hands on: those in the range must continue the
\* chain.  The callback, or a cancelled context, may stop the scan at any record.
Emit(read) ==
  LET in == SelectSeq(read.out, LAMBDA p : p.revision \in first..last)
      continues(k) ==
        /\ in[k].revision = next + k - 1
        /\ IF k = 1 THEN chain = <<>> \/ in[1].prev = chain ELSE in[k].prev = in[k - 1].hash
        /\ validateProjection(in[k])
      good == IF done THEN 0
              ELSE Max({n \in 0..Len(in) : \A k \in 1..n : continues(k)})
  IN \E stop \in 0..good :
       /\ yielded' = yielded \o SubSeq(in, 1, stop)
       /\ chain' = IF stop = 0 THEN chain ELSE in[stop].hash
       /\ done' = (done \/ next + stop - 1 = last)
       /\ next' = IF done' THEN last ELSE next + stop
       /\ gets' = gets + read.gets
       /\ result' \in {"stopped",
            CASE stop < good -> "stopped"
              [] stop = good /\ (good < Len(in) \/ ~read.ok) -> "corrupt"
              [] OTHER -> IF at <= Len(refs) THEN "none"
                          ELSE IF done' THEN "nil" ELSE "corrupt"}
       /\ at' = at + 1
       /\ UNCHANGED params

\* visit: one reference of the snapshot's frontier.
Visit ==
  /\ result = "none"
  /\ at <= Len(refs)
  /\ Emit(IF Disjoint(refs[at], first, last) THEN Nothing
          ELSE readRange(damage, refs[at], first, last, bytes))

\* The snapshot's own record comes last and needs no Get.
EmitHead ==
  /\ result = "none"
  /\ at > Len(refs)
  /\ Emit([out |-> <<Projection(Intact, snap)>>, ok |-> TRUE, gets |-> 0])

ScanNext == Visit \/ EmitHead

ScanSpec == ScanInit /\ [][ScanNext]_scanVars

-----------------------------------------------------------------------------
\* What the callback receives are the records of the log from the first revision of
\* the range on, in order and without a gap, whatever is missing or damaged: no
\* record escapes from a historical frontier before its chain is verified
\* (scan.go:226-275).
YieldsTheLog ==
  /\ \A k \in DOMAIN yielded : yielded[k] = Projection(Intact, first + k - 1)
  /\ yielded # <<>> => first + Len(yielded) - 1 <= last

\* A nil error means that the whole range was visited, and an intact log is never
\* reported as corrupt, whichever representation the plan picks (scan.go:85-165).
ScansAreComplete ==
  /\ result = "nil" /\ first \in 1..last => Len(yielded) = last - first + 1
  /\ damage = Intact => result # "corrupt"

\* Scan makes the Get calls its plan has counted, and a full scan as many as the
\* digits of N-1 add up to (scan.go:57-60, 167-220).
GetsAsPlanned ==
  damage = Intact /\ result = "nil" /\ first \in 1..last =>
     /\ gets = Sum(LAMBDA k : rangeReadPlan(refs[k].start, refs[k].level, first, last, bytes).cost.gets,
                   DOMAIN refs)
     /\ first = 1 /\ last = snap => gets = Sum(LAMBDA l : Digit(snap, l), Levels)

=============================================================================
