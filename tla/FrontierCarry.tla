---------------------------- MODULE FrontierCarry ---------------------------
(***************************************************************************)
(* A single writer's carries from the empty log to the last revision       *)
(* (carry, objects.go), at the code's own radix: LokvLog races writers     *)
(* over a few revisions of a small radix, this module runs the arithmetic  *)
(* of the levels over hundreds of them.  Stored objects are left out, so a *)
(* digest is a mere tag and the hash of a record is its revision.          *)
(***************************************************************************)
EXTENDS Frontier

VARIABLES
  head,       \* revision of the newest commit, 0 for the empty log
  frontier,   \* the frontier in that commit
  newLevels,  \* the next commit's frontier, while carry builds it
  carryLevel, \* the level carry works on
  carry,      \* the reference to be added there, <<>> when there is none
  created     \* created[l]: level-l segments created so far

carryVars == <<head, frontier, newLevels, carryLevel, carry, created>>

ChainHash(r) == IF r = 0 THEN ZeroHash ELSE <<r>>

headRef == [level |-> 0, start |-> head, end |-> head, sha |-> "commit",
            firstPrev |-> ChainHash(head - 1), last |-> ChainHash(head)]

Genesis ==
  /\ head = 0
  /\ head' = 1
  /\ UNCHANGED <<frontier, newLevels, carryLevel, carry, created>>

\* Mutant: the exhaustion check stops one revision early.
BeginCarryShort ==
  /\ carry = <<>>
  /\ head \in 1..(MaxRevision - 2)
  /\ newLevels' = frontier
  /\ carryLevel' = 0
  /\ carry' = headRef
  /\ UNCHANGED <<head, frontier, created>>

BeginCarry ==
  /\ carry = <<>>
  /\ head \in 1..(MaxRevision - 1)
  /\ newLevels' = frontier
  /\ carryLevel' = 0
  /\ carry' = headRef
  /\ UNCHANGED <<head, frontier, created>>

\* The level has room: the frontier is complete and the commit is written.
Settle ==
  /\ carry # <<>>
  /\ ~Full(AddRef(newLevels, carryLevel, carry), carryLevel)
  /\ frontier' = AddRef(newLevels, carryLevel, carry)
  /\ head' = head + 1
  /\ newLevels' = EmptyFrontier
  /\ carryLevel' = 0
  /\ carry' = <<>>
  /\ created' = created

\* The level fills up: its references become one reference of the next level.
Promote ==
  LET added == AddRef(newLevels, carryLevel, carry)
  IN /\ carry # <<>>
     /\ Full(added, carryLevel)
     /\ newLevels' = Clear(added, carryLevel)
     /\ carryLevel' = carryLevel + 1
     /\ carry' = aggregateRef(carryLevel + 1, added[carryLevel], "segment")
     /\ created' = [created EXCEPT ![carryLevel + 1] = @ + 1]
     /\ UNCHANGED <<head, frontier>>

CarryInit ==
  /\ head = 0
  /\ frontier = EmptyFrontier
  /\ newLevels = EmptyFrontier
  /\ carryLevel = 0
  /\ carry = <<>>
  /\ created = [l \in Levels |-> 0]

CarryNext == Genesis \/ BeginCarry \/ Settle \/ Promote

CarrySpec == CarryInit /\ [][CarryNext]_carryVars /\ WF_carryVars(CarryNext)

-----------------------------------------------------------------------------
\* What carry builds always passes validateFrontier, which every writer and every
\* reader applies to it: the digits of revision-1, a partition of 1..revision-1
\* and one hash chain, at every revision up to the last.
FrontierValid == head > 0 => validateFrontier(frontier, head, ChainHash(head - 1))

\* The whole revision space can be used: no carry stops the log before the end.
\* There are floor((N-1) / 16^L) segments of each level L then (DESIGN.md section
\* 12), so that none has been packed twice or left out.
ReachesMaxRevision ==
  <>(head = MaxRevision /\ \A l \in Levels \ {0} : created[l] = (head - 1) \div Size[l])

=============================================================================
