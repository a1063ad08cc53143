----------------------------- MODULE CacheStore -----------------------------
(***************************************************************************)
(* cachestore (cachestore.go, spool.go): Create and Get of one key through *)
(* processes that share an origin and a cache.  Both are backends that     *)
(* keep the contract of Store, with its ambiguous errors and late PUTs.    *)
(*                                                                         *)
(* A value is a sequence of chunks.  A reader gets them in pieces, and its *)
(* caller may close it, or the context be cancelled, at any time.          *)
(***************************************************************************)
EXTENDS Integers, Sequences

CONSTANTS
  Writers, Readers,
  Length,   \* chunks of a value
  MaxLate   \* bound on the PUTs under way without a caller, for each backend

None == "none"
Key == "key"

\* Somebody writes, writers are told apart from None, and the log stores no empty
\* object.
ASSUME CacheAssumption == Writers # {} /\ None \notin Writers /\ Length \in Nat \ {0}

ValueOf(w) == [n \in 1..Length |-> w]

VARIABLES
  origin, originLate, cache, cacheLate,
  pc, answer,  \* of the writers
  reader,      \* reader[r]: the state of r's Get and of the reader it returned
  scratch      \* scratch[r]: scratch files that are open

backends == <<origin, originLate, cache, cacheLate>>
cacheVars == <<backends, pc, answer, reader, scratch>>

Origin == INSTANCE Store WITH objects <- origin, late <- originLate
Cache == INSTANCE Store WITH objects <- cache, late <- cacheLate

\* spooling: the reader has a scratch file, which holds tmp.
Closed == [pc |-> "closed", body |-> <<>>, read |-> 0, spooling |-> FALSE,
           tmp |-> <<>>, eof |-> FALSE, cancelled |-> FALSE]

CacheInit ==
  /\ Origin!StoreInit
  /\ Cache!StoreInit
  /\ pc = [w \in Writers |-> "create"]
  /\ answer = [w \in Writers |-> None]
  /\ reader = [r \in Readers |-> Closed]
  /\ scratch = [r \in Readers |-> 0]

-----------------------------------------------------------------------------
(* Create                                                                  *)

\* fill: every error is reported and forgotten.
fill(value) == \E err \in {"ok", "exists", "error"} : Cache!Create(Key, value, err)

\* Mutant: a value that is there is taken to be this one.
StoredOrThere(err) == err \in {"ok", "exists"}

\* Only a confirmed success lets Create fill the cache.
Stored(err) == err = "ok"

CreateOrigin(w) ==
  /\ pc[w] = "create"
  /\ \E err \in {"ok", "exists", "error"} :
       /\ Origin!Create(Key, ValueOf(w), err)
       /\ pc' = [pc EXCEPT ![w] = IF Stored(err) THEN "fill" ELSE "done"]
       /\ answer' = [answer EXCEPT ![w] = IF Stored(err) THEN None ELSE err]
  /\ UNCHANGED <<cache, cacheLate, reader, scratch>>

CreateFill(w) ==
  /\ pc[w] = "fill"
  /\ fill(ValueOf(w))
  /\ pc' = [pc EXCEPT ![w] = "done"]
  /\ answer' = [answer EXCEPT ![w] = "ok"]
  /\ UNCHANGED <<origin, originLate, reader, scratch>>

-----------------------------------------------------------------------------
(* Get, and the reader it returns.                                         *)

Set(r, state) == reader' = [reader EXCEPT ![r] = state]

\* A hit is served from the cache.  A miss or an error goes to the origin.
GetCache(r) ==
  /\ reader[r].pc = "closed"
  /\ \/ /\ Key \in DOMAIN cache
        /\ Set(r, [Closed EXCEPT !.pc = "hit", !.body = cache[Key]])
     \/ Set(r, [Closed EXCEPT !.pc = "miss"])
  /\ UNCHANGED <<backends, pc, answer, scratch>>

\* The scratch file may fail to be created, or to be unlinked and is closed then:
\* the reader does without.
newSpool == BOOLEAN

GetOrigin(r) ==
  /\ reader[r].pc = "miss"
  /\ \/ Set(r, Closed) /\ scratch' = scratch  \* ErrNotFound or another error
     \/ /\ Key \in DOMAIN origin
        /\ \E spooling \in newSpool :
             /\ Set(r, [reader[r] EXCEPT !.pc = "fill", !.body = origin[Key],
                                         !.spooling = spooling])
             /\ scratch' = [scratch EXCEPT ![r] = IF spooling THEN @ + 1 ELSE @]
  /\ UNCHANGED <<backends, pc, answer>>

\* Mutant: the file is closed and still referred to.
discardHalf(state) == state

discard(state) == [state EXCEPT !.spooling = FALSE, !.tmp = <<>>]

\* The scratch files that are left open once the file is discarded.
Discarded(r) == scratch' = [scratch EXCEPT ![r] = IF reader[r].spooling THEN @ - 1 ELSE @]

\* What the scratch file of a reader holds once chunks are copied to it.
SpoolWrite(state, chunks) == IF state.spooling THEN state.tmp \o chunks ELSE <<>>

\* Read returns n chunks with nil, io.EOF or an error; the copy in the scratch file
\* is discarded when the read or the copy fails.  The caller may go on after an
\* error.
Read(r) ==
  LET now == reader[r]
  IN /\ now.pc \in {"hit", "fill"} /\ ~now.eof /\ ~now.cancelled
     /\ \E n \in 0..(Len(now.body) - now.read), err \in {"nil", "eof", "error"}, copied \in BOOLEAN :
          LET next == [now EXCEPT !.read = @ + n, !.eof = (err = "eof"),
                                  !.tmp = SpoolWrite(now, SubSeq(now.body, now.read + 1, now.read + n))]
              lost == now.spooling /\ (err = "error" \/ (n > 0 /\ ~copied))
          IN /\ err = "eof" => now.read + n = Len(now.body)
             /\ err = "nil" => n > 0
             /\ Set(r, IF lost THEN discard(next) ELSE next)
             /\ IF lost THEN Discarded(r) ELSE scratch' = scratch
  /\ UNCHANGED <<backends, pc, answer>>

\* A Read that finds the context cancelled.
ReadCancelled(r) ==
  /\ reader[r].pc \in {"hit", "fill"} /\ reader[r].cancelled
  /\ Set(r, discard(reader[r]))
  /\ Discarded(r)
  /\ UNCHANGED <<backends, pc, answer>>

Cancel(r) ==
  /\ reader[r].pc # "closed" /\ ~reader[r].cancelled
  /\ Set(r, [reader[r] EXCEPT !.cancelled = TRUE])
  /\ UNCHANGED <<backends, pc, answer, scratch>>

\* Mutant: whatever was read before Close is kept.
FillablePart(state) == state.spooling /\ ~state.cancelled

\* Only what was read to the end fills the cache.
Fillable(state) == state.spooling /\ state.eof /\ ~state.cancelled

\* Close ends with the scratch file discarded.  The body may fail to close.  Another
\* Close of the same reader changes nothing and returns the same error.
Close(r) ==
  /\ reader[r].pc \in {"hit", "fill"}
  /\ \/ Fillable(reader[r]) /\ fill(reader[r].tmp)
     \/ UNCHANGED <<cache, cacheLate>>
  /\ Set(r, Closed)
  /\ Discarded(r)
  /\ UNCHANGED <<origin, originLate, pc, answer>>

-----------------------------------------------------------------------------
LandOrigin == Origin!Land /\ UNCHANGED <<cache, cacheLate, pc, answer, reader, scratch>>
LandCache == Cache!Land /\ UNCHANGED <<origin, originLate, pc, answer, reader, scratch>>

CacheNext ==
  \/ \E w \in Writers : CreateOrigin(w) \/ CreateFill(w)
  \/ \E r \in Readers :
        GetCache(r) \/ GetOrigin(r) \/ Read(r) \/ ReadCancelled(r) \/ Cancel(r) \/ Close(r)
  \/ LandOrigin \/ LandCache

CacheSpec == CacheInit /\ [][CacheNext]_cacheVars

-----------------------------------------------------------------------------
\* What the cache holds, or is about to hold by a late PUT, is the complete value of
\* the origin, although fills race with each other, with Creates that lose or end
\* in doubt, and with readers that stop early (cachestore.go:8-16, 127-137, 193-195).
\* A reader that reaches io.EOF has delivered that value, whichever store it read.
CacheIsFaithful ==
  /\ \A value \in {cache[k] : k \in DOMAIN cache} \cup {put[2] : put \in cacheLate} :
        Key \in DOMAIN origin /\ value = origin[Key]
  /\ \A r \in Readers : reader[r].eof =>
        /\ reader[r].read = Length
        /\ Key \in DOMAIN origin /\ reader[r].body = origin[Key]

\* Each reader has as many open scratch files as it refers to: none is lost on the
\* way to Close, on any error path, and none is closed twice
\* (cachestore.go:156-161, 186-197).
ScratchIsClosed ==
  \A r \in Readers : scratch[r] = IF reader[r].spooling THEN 1 ELSE 0

\* To its callers the pair of stores is a store (store.go:44-50).
Contract ==
  INSTANCE StoreContract
    WITH Calls <- Writers, KeyOf <- [w \in Writers |-> Key],
         holder <- [k \in {Key} |-> IF k \in DOMAIN origin THEN origin[k][1] ELSE None]

ImplementsContract == Contract!ContractSpec

=============================================================================
