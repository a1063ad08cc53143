--------------------------- MODULE StoreContract ----------------------------
(***************************************************************************)
(* What lokv.Store asks of a backend's Create (store.go), as a caller of a *)
(* shared backend sees it: each key has at most one value for good, the    *)
(* one of the call that won.  The adapters implement this specification.   *)
(***************************************************************************)
CONSTANTS
  Calls,  \* calls of Create; each has a value of its own
  KeyOf,  \* KeyOf[c]: the key that c creates
  None

VARIABLES
  holder,  \* holder[k]: the call whose value k holds, or None
  answer   \* answer[c]: what c has returned, None while it runs

ContractInit ==
  /\ holder = [k \in {KeyOf[c] : c \in Calls} |-> None]
  /\ answer = [c \in Calls |-> None]

\* The value is published, whole, if the key is absent.
Publish(c) ==
  /\ holder[KeyOf[c]] = None
  /\ holder' = [holder EXCEPT ![KeyOf[c]] = c]

\* nil: this call won.  ErrExists: some value is visible, and it may be this call's
\* own.  Any other error says nothing, not even that the value is not published
\* later on.
Return(c, a) ==
  /\ answer[c] = None
  /\ a = "ok" => holder'[KeyOf[c]] = c
  /\ a = "exists" => holder'[KeyOf[c]] # None
  /\ answer' = [answer EXCEPT ![c] = a]

ContractNext ==
  \E c \in Calls :
     /\ Publish(c) \/ UNCHANGED holder
     /\ (\E a \in {"ok", "exists", "error"} : Return(c, a)) \/ UNCHANGED answer

ContractSpec == ContractInit /\ [][ContractNext]_<<holder, answer>>

=============================================================================
