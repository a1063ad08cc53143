------------------------------- MODULE MCLog --------------------------------
(***************************************************************************)
(* LokvLog for model checking.  The first Prefix revisions are appended by *)
(* the invocations 1..Prefix, one at a time and without a fault, so that   *)
(* the other invocations race where the frontier carries.  Those that do   *)
(* not differ in what they decode are interchangeable.                     *)
(***************************************************************************)
EXTENDS LogRefinement

CONSTANTS
  Prefix,  \* revisions appended before the race starts
  Older,   \* Logs of an older T, which decode the prefix and their own batches
  Opaque   \* batches that encode, but that nobody decodes

Racers == IDs \ (1..Prefix \cup Older \cup Opaque)

Versions ==
  {p \in IDs \X IDs :
     /\ p[2] \notin Opaque
     /\ p[1] \in Older => p[2] \in 1..Prefix \cup {p[1]}}

QuietPrefix ==
  HeadRevision < Prefix =>
     /\ late' = {}
     /\ \A i \in IDs :
           /\ kind'[i] # "Append"
           /\ createErr'[i] = "ok"
           /\ out'[i].result \in {"none", "ok"}
     /\ \A i \in IDs \ 1..(HeadRevision + 1) : pc'[i] = "unused"

Symmetry == Permutations(Racers)

=============================================================================
