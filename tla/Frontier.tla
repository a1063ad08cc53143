------------------------------ MODULE Frontier ------------------------------
(***************************************************************************)
(* The radix frontier of a commit (wire.go, objects.go): a digit-per-level *)
(* partition of the revisions that precede the commit.  Level l holds      *)
(* references to objects of Radix^l consecutive records each, and their    *)
(* number is digit l of revision-1 in base Radix.                          *)
(*                                                                         *)
(* The code fixes Radix = 16, TopLevel = 15 and MaxRevision = 2^53-1.  The *)
(* wire form lists only the nonempty levels in increasing order; here a    *)
(* frontier is a function from all levels, so that form is implicit.  A    *)
(* reference's key is a function of its other fields (validateRef requires *)
(* exactly that), so the key is not a field of its own.                    *)
(***************************************************************************)
EXTENDS Integers, SequencesExt

CONSTANTS
  Radix,        \* children per segment
  TopLevel,     \* the highest level a reference may have
  MaxRevision   \* the last revision of a log

ASSUME RadixAssumption == Radix \in Nat /\ Radix >= 2
ASSUME TopLevelAssumption == TopLevel \in Nat
Revisions == 1..MaxRevision
Levels == 0..TopLevel

\* The chain hash in front of revision 1.  Hashes are injective, so a record's
\* hash is modelled by the sequence it commits to.
ZeroHash == <<>>

\* The number of records below a reference of level l.
Size[l \in Nat] == IF l = 0 THEN 1 ELSE Radix * Size[l - 1]

\* The levels have room for every revision.
ASSUME MaxRevisionAssumption ==
  MaxRevision \in Nat \ {0} /\ MaxRevision < Size[TopLevel + 1]

EmptyFrontier == [l \in Levels |-> <<>>]

-----------------------------------------------------------------------------
(* References.  sha is the digest of the object the reference points to.   *)

aggregateRef(level, children, sha) ==
  [level |-> level,
   start |-> Head(children).start, end |-> Last(children).end,
   sha |-> sha,
   firstPrev |-> Head(children).firstPrev, last |-> Last(children).last]

validateRef(ref) ==
  /\ ref.level \in Levels
  /\ ref.start \in Revisions
  /\ ref.end \in Revisions
  /\ (ref.start - 1) % Size[ref.level] = 0
  /\ ref.start <= MaxRevision - (Size[ref.level] - 1)
  /\ ref.end = ref.start + (Size[ref.level] - 1)

-----------------------------------------------------------------------------
(* The carry loop adds a reference at a level; a level that reaches Radix  *)
(* references is packed into one reference of the next level.              *)

AddRef(frontier, l, ref) == [frontier EXCEPT ![l] = Append(@, ref)]

\* Mutant: a level is full only when it overflows.
FullLate(frontier, l) == Len(frontier[l]) > Radix

Full(frontier, l) == Len(frontier[l]) >= Radix

Clear(frontier, l) == [frontier EXCEPT ![l] = <<>>]

-----------------------------------------------------------------------------
(* validateFrontier                                                        *)

\* The references from the oldest revisions to the newest: top level first.
Chronological(frontier) ==
  FlattenSeq([k \in 1..(TopLevel + 1) |-> frontier[TopLevel + 1 - k]])

Digit(revision, l) == ((revision - 1) \div Size[l]) % Radix

\* The references partition start..end-1 in order, and their hashes form one
\* chain from the one hash to the other.
Partition(refs, start, end, firstPrev, last) ==
  /\ \A k \in DOMAIN refs :
        /\ refs[k].start = IF k = 1 THEN start ELSE refs[k - 1].end + 1
        /\ refs[k].firstPrev = IF k = 1 THEN firstPrev ELSE refs[k - 1].last
  /\ end = IF refs = <<>> THEN start ELSE Last(refs).end + 1
  /\ last = IF refs = <<>> THEN firstPrev ELSE Last(refs).last

validateFrontier(frontier, revision, prevHash) ==
  /\ revision \in Revisions
  /\ \A l \in Levels :
        /\ Len(frontier[l]) = Digit(revision, l)
        /\ \A k \in DOMAIN frontier[l] :
              /\ validateRef(frontier[l][k])
              /\ frontier[l][k].level = l
              /\ frontier[l][k].end < revision
  /\ Partition(Chronological(frontier), 1, revision, ZeroHash, prevHash)

=============================================================================
