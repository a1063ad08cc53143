------------------------------- MODULE Store --------------------------------
(***************************************************************************)
(* The contract of lokv.Store (store.go) as the log relies on it: a        *)
(* create-only namespace.  A value is published whole or not at all, the   *)
(* first creator of a key wins, and nothing is overwritten or deleted.     *)
(*                                                                         *)
(* What the caller of Create learns is weaker than what happened:          *)
(*   "ok"      this call published the value;                              *)
(*   "exists"  the key holds a value: somebody else's, or this call's own  *)
(*             (an adapter that retries a PUT whose response was lost      *)
(*             meets its own object);                                      *)
(*   "error"   a transport error or a cancellation: the value was not      *)
(*             published, or was, or its PUT is still under way and takes  *)
(*             effect (or meets an existing key) at any later time.        *)
(***************************************************************************)
EXTENDS Integers, FiniteSets

CONSTANT MaxLate  \* bound on the PUTs under way without a caller

ASSUME MaxLateAssumption == MaxLate \in Nat

VARIABLES
  objects,  \* the published objects, a function from their keys
  late      \* PUTs whose Create has returned an error: pairs <<key, value>>

storeVars == <<objects, late>>

Present(key) == key \in DOMAIN objects

\* Mutant: an unconditional PUT.
PutOverwriting(key, value) ==
  objects' = [k \in DOMAIN objects \cup {key} |->
                IF k = key THEN value ELSE objects[k]]

\* Publish value under key unless the key is taken.
Put(key, value) ==
  objects' = IF Present(key) THEN objects
             ELSE [k \in DOMAIN objects \cup {key} |->
                     IF k = key THEN value ELSE objects[k]]

CreateErrors == {"exists", "error"}

Create(key, value, err) ==
  \/ /\ err = "ok"
     /\ ~Present(key)
     /\ Put(key, value)
     /\ late' = late
  \/ /\ err = "exists"
     /\ Put(key, value)
     /\ late' = late
  \/ /\ err = "error"
     /\ Put(key, value)
     /\ late' = late
  \/ /\ err = "error"
     /\ objects' = objects
     /\ late' = late
  \/ /\ err = "error"
     /\ ~Present(key)  \* else the PUT can only be refused
     /\ Cardinality(late \cup {<<key, value>>}) <= MaxLate
     /\ objects' = objects
     /\ late' = late \cup {<<key, value>>}

\* A PUT nobody waits for any more reaches the backend.
Land ==
  \E put \in late :
     /\ Put(put[1], put[2])
     /\ late' = late \ {put}

StoreInit ==
  /\ objects = [k \in {} |-> k]
  /\ late = {}

=============================================================================
