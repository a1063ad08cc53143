--------------------------- MODULE MCRegistration ---------------------------
(***************************************************************************)
(* Batches of writers that do not follow the registration protocol: one    *)
(* whose second event apply refuses after its first, one that apply takes. *)
(***************************************************************************)
EXTENDS Registration

CONSTANTS n1, n2

Careless ==
  {<<[name |-> n1, id |-> 1], [name |-> n1, id |-> 2]>>,
   <<[name |-> n1, id |-> 1], [name |-> n2, id |-> 2]>>}

=============================================================================
