-------------------------- MODULE CacheStoreProofs --------------------------
(***************************************************************************)
(* Proofs of the safety properties of CacheStore, for every set of writers *)
(* and readers and every length of a value.                                *)
(***************************************************************************)
EXTENDS CacheStore, TLAPS

IsValue(v) == \E w \in Writers : v = ValueOf(w)

\* v is what the origin holds, for good.
IsOrigin(v) == Key \in DOMAIN origin /\ v = origin[Key]

OriginOK ==
  /\ DOMAIN origin \subseteq {Key}
  /\ \A k \in DOMAIN origin : IsValue(origin[k])
  /\ \A put \in originLate : put[1] = Key /\ IsValue(put[2])

CacheOK ==
  /\ DOMAIN cache \subseteq {Key}
  /\ \A k \in DOMAIN cache : IsOrigin(cache[k])
  /\ \A put \in cacheLate : put[1] = Key /\ IsOrigin(put[2])

WritersOK ==
  /\ pc \in [Writers -> {"create", "fill", "done"}]
  /\ answer \in [Writers -> {None, "ok", "exists", "error"}]
  /\ \A w \in Writers :
        /\ pc[w] = "fill" => IsOrigin(ValueOf(w))
        /\ pc[w] # "done" => answer[w] = None

\* A reader that is open has the origin's value before it, and the scratch file the
\* part of it that was read.
ReaderOK(now) ==
  /\ now.pc \in {"hit", "fill"} =>
        /\ IsOrigin(now.body)
        /\ now.read \in 0..Length
        /\ now.eof => now.read = Length
        /\ now.spooling => now.tmp = SubSeq(now.body, 1, now.read)
  /\ now.pc \in {"closed", "miss"} =>
        /\ ~now.eof /\ ~now.spooling
        /\ now.read = 0 /\ now.tmp = <<>>

ReaderState ==
  [pc : {"closed", "miss", "hit", "fill"}, body : Seq(Writers), read : Nat,
   spooling : BOOLEAN, tmp : Seq(Writers), eof : BOOLEAN, cancelled : BOOLEAN]

ReadersOK ==
  /\ reader \in [Readers -> ReaderState]
  /\ scratch \in [Readers -> Int]
  /\ \A r \in Readers : ReaderOK(reader[r])

CacheInv == OriginOK /\ CacheOK /\ WritersOK /\ ReadersOK /\ ScratchIsClosed

-----------------------------------------------------------------------------
(* Values.                                                                 *)

\* The value of a writer is a sequence of as many chunks as a value has.
LEMMA ValueIsSeq ==
  ASSUME NEW v, IsValue(v)
  PROVE  v \in Seq(Writers) /\ Len(v) = Length /\ v[1] \in Writers
  BY CacheAssumption DEF IsValue, ValueOf

\* The first chunk of a value tells whose it is.
LEMMA ValueOfFirst ==
  ASSUME NEW v, IsValue(v), NEW w \in Writers, v[1] = w
  PROVE  v = ValueOf(w)
  BY CacheAssumption DEF IsValue, ValueOf

\* A scratch file that holds what was read still does when the next chunks are
\* copied to it.
LEMMA SpoolGrows ==
  ASSUME NEW v \in Seq(Writers), NEW a \in 0..Len(v), NEW n \in 0..(Len(v) - a)
  PROVE  SubSeq(v, 1, a) \o SubSeq(v, a + 1, a + n) = SubSeq(v, 1, a + n)
  OBVIOUS

\* A scratch file that holds all chunks holds the value.
LEMMA SpoolIsWhole ==
  ASSUME NEW v \in Seq(Writers)
  PROVE  SubSeq(v, 1, Len(v)) = v
  OBVIOUS

\* A part of a value is a sequence of chunks, and so is no part.
LEMMA PartIsSeq ==
  /\ <<>> \in Seq(Writers)
  /\ \A v \in Seq(Writers) : \A a \in Nat : \A b \in 0..Len(v) :
        SubSeq(v, a + 1, b) \in Seq(Writers)
  OBVIOUS

-----------------------------------------------------------------------------
(* The backends.                                                           *)

\* A PUT at the origin leaves a value there, and never another one than before.
LEMMA OriginPut ==
  ASSUME OriginOK, NEW v, IsValue(v), Origin!Put(Key, v)
  PROVE  /\ DOMAIN origin' = {Key}
         /\ IsValue(origin'[Key])
         /\ \A x : IsOrigin(x) => IsOrigin(x)'
         /\ Key \notin DOMAIN origin => origin'[Key] = v
  BY DEF OriginOK, IsOrigin, Origin!Put, Origin!Present

\* Creating the origin's value in the cache, or letting such a PUT land, keeps the
\* cache faithful.
LEMMA CachePut ==
  ASSUME CacheOK, NEW v, IsOrigin(v), Cache!Put(Key, v), UNCHANGED origin
  PROVE  DOMAIN cache' \subseteq {Key} /\ \A k \in DOMAIN cache' : cache'[k] = origin[Key]
  BY DEF CacheOK, IsOrigin, Cache!Put, Cache!Present

\* fill with the origin's value.
LEMMA FillKeeps ==
  ASSUME CacheOK, NEW v, IsOrigin(v), fill(v), UNCHANGED origin
  PROVE  CacheOK'
  <1>1. IsOrigin(v)'
    BY DEF IsOrigin
  <1>2. \A x : IsOrigin(x) => IsOrigin(x)'
    BY DEF IsOrigin
  <1>3. CASE Cache!Put(Key, v) /\ cacheLate' = cacheLate
    BY <1>3, CachePut DEF CacheOK, IsOrigin
  <1>4. CASE cache' = cache /\ (cacheLate' = cacheLate \/ cacheLate' = cacheLate \cup {<<Key, v>>})
    BY <1>4, <1>1, <1>2 DEF CacheOK
  <1> QED BY <1>3, <1>4 DEF fill, Cache!Create

\* The origin never gives up the value it holds, so what was true of it stays true:
\* of the cache, of the writers that fill it, and of the readers.
LEMMA OriginStable ==
  ASSUME CacheInv, \A x : IsOrigin(x) => IsOrigin(x)',
         UNCHANGED <<cache, cacheLate, reader, scratch>>
  PROVE  CacheOK' /\ ReadersOK' /\ ScratchIsClosed'
  <1>1. CacheOK'
    BY DEF CacheInv, CacheOK
  <1>2. \A r \in Readers : ReaderOK(reader[r]) => ReaderOK(reader[r])'
    BY DEF ReaderOK
  <1> QED BY <1>1, <1>2 DEF CacheInv, ReadersOK, ScratchIsClosed

-----------------------------------------------------------------------------
(* The actions.                                                            *)

\* Create at the origin: only the winner goes on to fill the cache.
LEMMA CreateOriginStep ==
  ASSUME CacheInv, NEW w \in Writers, CreateOrigin(w)
  PROVE  CacheInv'
  <1> DEFINE v == ValueOf(w)
  <1> USE DEF CacheInv
  <1>1. IsValue(v)
    BY DEF IsValue
  <1>2. PICK err \in {"ok", "exists", "error"} :
          /\ Origin!Create(Key, v, err)
          /\ pc' = [pc EXCEPT ![w] = IF Stored(err) THEN "fill" ELSE "done"]
          /\ answer' = [answer EXCEPT ![w] = IF Stored(err) THEN None ELSE err]
    BY DEF CreateOrigin
  <1> HIDE DEF v
  <1>3. OriginOK' /\ (\A x : IsOrigin(x) => IsOrigin(x)') /\ (err = "ok" => IsOrigin(v)')
    <2>1. CASE Origin!Put(Key, v) /\ originLate' = originLate
               /\ (err = "ok" => Key \notin DOMAIN origin)
      BY <2>1, <1>1, OriginPut DEF OriginOK, IsOrigin
    <2>2. CASE origin' = origin /\ err # "ok"
               /\ (originLate' = originLate \/ originLate' = originLate \cup {<<Key, v>>})
      BY <2>2, <1>1 DEF OriginOK, IsOrigin
    <2> QED BY <1>2, <2>1, <2>2 DEF Origin!Create, Origin!Present
  <1>4. CacheOK' /\ ReadersOK' /\ ScratchIsClosed'
    BY <1>3, OriginStable DEF CreateOrigin
  <1>5. WritersOK'
    BY <1>2, <1>3 DEF WritersOK, Stored, v, CreateOrigin, None
  <1> QED BY <1>3, <1>4, <1>5

\* The winner fills the cache with its value, which is the origin's.
LEMMA CreateFillStep ==
  ASSUME CacheInv, NEW w \in Writers, CreateFill(w)
  PROVE  CacheInv'
  <1> USE DEF CacheInv
  <1>1. IsOrigin(ValueOf(w))
    BY DEF WritersOK, CreateFill
  <1>2. CacheOK'
    BY <1>1, FillKeeps DEF CreateFill
  <1>3. \A x : IsOrigin(x) => IsOrigin(x)'
    BY DEF CreateFill, IsOrigin
  <1>4. OriginOK' /\ ScratchIsClosed'
    BY DEF CreateFill, OriginOK, ScratchIsClosed
  <1>5. ReadersOK'
    BY <1>3 DEF CreateFill, ReadersOK, ReaderOK
  <1>6. WritersOK'
    BY <1>3 DEF CreateFill, WritersOK
  <1> QED BY <1>2, <1>4, <1>5, <1>6

\* A PUT that lands late at the origin.
LEMMA LandOriginStep ==
  ASSUME CacheInv, LandOrigin
  PROVE  CacheInv'
  <1> USE DEF CacheInv
  <1>1. PICK put \in originLate : Origin!Put(put[1], put[2]) /\ originLate' = originLate \ {put}
    BY DEF LandOrigin, Origin!Land
  <1>2. put[1] = Key /\ IsValue(put[2])
    BY DEF OriginOK
  <1>3. OriginOK' /\ \A x : IsOrigin(x) => IsOrigin(x)'
    BY <1>1, <1>2, OriginPut DEF OriginOK
  <1>4. CacheOK' /\ ReadersOK' /\ ScratchIsClosed'
    BY <1>3, OriginStable DEF LandOrigin
  <1>5. WritersOK'
    BY <1>3 DEF WritersOK, LandOrigin
  <1> QED BY <1>3, <1>4, <1>5

\* A PUT that lands late in the cache carries the origin's value.
LEMMA LandCacheStep ==
  ASSUME CacheInv, LandCache
  PROVE  CacheInv'
  <1> USE DEF CacheInv
  <1>1. PICK put \in cacheLate : Cache!Put(put[1], put[2]) /\ cacheLate' = cacheLate \ {put}
    BY DEF LandCache, Cache!Land
  <1>2. put[1] = Key /\ IsOrigin(put[2])
    BY DEF CacheOK
  <1>3. CacheOK'
    BY <1>1, <1>2, CachePut DEF CacheOK, IsOrigin, LandCache
  <1>4. OriginOK' /\ ScratchIsClosed'
    BY DEF LandCache, OriginOK, ScratchIsClosed
  <1>5. ReadersOK' /\ WritersOK'
    BY DEF LandCache, ReadersOK, ReaderOK, WritersOK, IsOrigin
  <1> QED BY <1>3, <1>4, <1>5

\* What remains to be shown of a step of one reader that leaves the writers and the
\* origin alone.
LEMMA ReaderStep ==
  ASSUME CacheInv, NEW r \in Readers, NEW next \in ReaderState,
         reader' = [reader EXCEPT ![r] = next],
         scratch' \in [Readers -> Int],
         \A q \in Readers \ {r} : scratch'[q] = scratch[q],
         scratch'[r] = IF next.spooling THEN 1 ELSE 0,
         ReaderOK(next), CacheOK',
         UNCHANGED <<origin, originLate, pc, answer>>
  PROVE  CacheInv'
  <1> USE DEF CacheInv
  <1>1. \A x : IsOrigin(x) <=> IsOrigin(x)'
    BY DEF IsOrigin
  <1>2. OriginOK' /\ WritersOK'
    BY <1>1 DEF OriginOK, WritersOK
  <1>3. \A q \in Readers : reader'[q] = IF q = r THEN next ELSE reader[q]
    BY DEF ReadersOK
  <1>4. \A q \in Readers : ReaderOK(reader[q])'
    BY <1>1, <1>3 DEF ReadersOK, ReaderOK
  <1>5. ReadersOK'
    BY <1>4 DEF ReadersOK
  <1>6. ScratchIsClosed'
    BY <1>3 DEF ScratchIsClosed
  <1> QED BY <1>2, <1>5, <1>6

\* The cache does not change when both of its variables do not and the origin stays.
LEMMA CacheUnchanged ==
  ASSUME CacheOK, UNCHANGED <<origin, cache, cacheLate>>
  PROVE  CacheOK'
  BY DEF CacheOK, IsOrigin

\* A reader with no scratch file, right after Close.
LEMMA ClosedOK == Closed \in ReaderState /\ ReaderOK(Closed) /\ ~Closed.spooling
  BY DEF Closed, ReaderState, ReaderOK

\* Get looks in the cache.
LEMMA GetCacheStep ==
  ASSUME CacheInv, NEW r \in Readers, GetCache(r)
  PROVE  CacheInv'
  <1> USE DEF CacheInv
  <1>1. CacheOK'
    BY CacheUnchanged DEF GetCache, backends
  <1>2. ~reader[r].spooling /\ scratch[r] = 0
    BY DEF GetCache, ReadersOK, ReaderOK, ScratchIsClosed, ReaderState
  <1>3. CASE Key \in DOMAIN cache /\ Set(r, [Closed EXCEPT !.pc = "hit", !.body = cache[Key]])
    <2> DEFINE next == [Closed EXCEPT !.pc = "hit", !.body = cache[Key]]
    <2>1. IsOrigin(cache[Key]) /\ IsValue(cache[Key])
      BY <1>3 DEF CacheOK, OriginOK, IsOrigin
    <2>2. next \in ReaderState
      BY <2>1, ValueIsSeq, PartIsSeq DEF Closed, ReaderState
    <2>3. ReaderOK(next) /\ ~next.spooling
      BY <2>1, CacheAssumption DEF Closed, ReaderOK
    <2> QED BY <1>1, <1>2, <1>3, <2>2, <2>3, ReaderStep DEF GetCache, Set, backends, ReadersOK
  <1>4. CASE Set(r, [Closed EXCEPT !.pc = "miss"])
    <2> DEFINE next == [Closed EXCEPT !.pc = "miss"]
    <2>1. next \in ReaderState
      BY PartIsSeq DEF Closed, ReaderState
    <2>2. ReaderOK(next) /\ ~next.spooling
      BY DEF Closed, ReaderOK
    <2> QED BY <1>1, <1>2, <1>4, <2>1, <2>2, ReaderStep DEF GetCache, Set, backends, ReadersOK
  <1> QED BY <1>3, <1>4 DEF GetCache

\* A miss goes to the origin, with or without a scratch file.
LEMMA GetOriginStep ==
  ASSUME CacheInv, NEW r \in Readers, GetOrigin(r)
  PROVE  CacheInv'
  <1> USE DEF CacheInv
  <1>1. CacheOK'
    BY CacheUnchanged DEF GetOrigin, backends
  <1>2. /\ ~reader[r].spooling /\ scratch[r] = 0
        /\ reader[r] \in ReaderState /\ ReaderOK(reader[r]) /\ reader[r].pc = "miss"
    BY DEF GetOrigin, ReadersOK, ReaderOK, ScratchIsClosed, ReaderState
  <1>3. CASE Set(r, Closed) /\ scratch' = scratch
    BY <1>1, <1>2, <1>3, ClosedOK, ReaderStep DEF GetOrigin, Set, backends, ReadersOK
  <1>4. ASSUME NEW spooling \in BOOLEAN, Key \in DOMAIN origin,
               Set(r, [reader[r] EXCEPT !.pc = "fill", !.body = origin[Key], !.spooling = spooling]),
               scratch' = [scratch EXCEPT ![r] = IF spooling THEN @ + 1 ELSE @]
        PROVE  CacheInv'
    <2> DEFINE next == [reader[r] EXCEPT !.pc = "fill", !.body = origin[Key], !.spooling = spooling]
    <2>1. IsOrigin(origin[Key]) /\ IsValue(origin[Key]) /\ origin[Key] \in Seq(Writers)
      BY <1>4, ValueIsSeq DEF OriginOK, IsOrigin
    <2>2. SubSeq(origin[Key], 1, 0) = <<>>
      BY <2>1
    <2>3. next \in ReaderState
      BY <1>2, <2>1 DEF ReaderState
    <2>6. ReaderOK(next) /\ next.spooling = spooling
      BY <1>2, <2>1, <2>2, CacheAssumption DEF ReaderState, ReaderOK
    <2>4. /\ scratch' \in [Readers -> Int]
          /\ \A q \in Readers \ {r} : scratch'[q] = scratch[q]
          /\ scratch'[r] = IF spooling THEN 1 ELSE 0
      BY <1>2, <1>4 DEF ReadersOK
    <2>5. UNCHANGED <<origin, originLate, pc, answer>>
      BY DEF GetOrigin, backends
    <2> HIDE DEF next
    <2> QED BY <1>1, <1>4, <2>3, <2>4, <2>5, <2>6, ReaderStep DEF Set, next
  <1> QED BY <1>3, <1>4 DEF GetOrigin, newSpool

\* Discarding the scratch file leaves none open.
LEMMA DiscardedOK ==
  ASSUME CacheInv, NEW r \in Readers, Discarded(r)
  PROVE  /\ scratch' \in [Readers -> Int]
         /\ \A q \in Readers \ {r} : scratch'[q] = scratch[q]
         /\ scratch'[r] = 0
  BY DEF CacheInv, ReadersOK, ScratchIsClosed, Discarded

\* Read delivers the next chunks and copies them to the scratch file, or discards it.
LEMMA ReadStep ==
  ASSUME CacheInv, NEW r \in Readers, Read(r)
  PROVE  CacheInv'
  <1> USE DEF CacheInv
  <1> DEFINE now == reader[r]
  <1>1. CacheOK'
    BY CacheUnchanged DEF Read, backends
  <1>2. now \in ReaderState /\ ReaderOK(now) /\ now.pc \in {"hit", "fill"} /\ ~now.eof
    BY DEF Read, ReadersOK
  <1>3. IsOrigin(now.body) /\ now.body \in Seq(Writers) /\ Len(now.body) = Length
    BY <1>2, ValueIsSeq DEF ReaderOK, IsOrigin, OriginOK
  <1>4. PICK n \in 0..(Len(now.body) - now.read), err \in {"nil", "eof", "error"}, copied \in BOOLEAN :
          LET next == [now EXCEPT !.read = @ + n, !.eof = (err = "eof"),
                                  !.tmp = SpoolWrite(now, SubSeq(now.body, now.read + 1, now.read + n))]
              lost == now.spooling /\ (err = "error" \/ (n > 0 /\ ~copied))
          IN /\ err = "eof" => now.read + n = Len(now.body)
             /\ err = "nil" => n > 0
             /\ Set(r, IF lost THEN discard(next) ELSE next)
             /\ IF lost THEN Discarded(r) ELSE scratch' = scratch
    BY DEF Read
  <1> DEFINE chunks == SubSeq(now.body, now.read + 1, now.read + n)
             next == [now EXCEPT !.read = @ + n, !.eof = (err = "eof"), !.tmp = SpoolWrite(now, chunks)]
             lost == now.spooling /\ (err = "error" \/ (n > 0 /\ ~copied))
  <1>5. now.read \in 0..Length /\ now.read + n \in 0..Length
    BY <1>2, <1>3, <1>4 DEF ReaderOK
  <1>6. now.spooling => now.tmp \o chunks = SubSeq(now.body, 1, now.read + n)
    BY <1>2, <1>3, <1>4, <1>5, SpoolGrows DEF ReaderOK
  <1>7. now.spooling => now.tmp \o chunks \in Seq(Writers)
    <2>1. now.tmp \in Seq(Writers) /\ chunks \in Seq(Writers)
      BY <1>2, <1>3, <1>4, <1>5, PartIsSeq DEF ReaderState
    <2> QED BY <2>1
  <1>8. next \in ReaderState
    <2>1. SpoolWrite(now, chunks) \in Seq(Writers)
      BY <1>2, <1>7, PartIsSeq DEF ReaderState, SpoolWrite
    <2>2. now.read + n \in Nat
      BY <1>5, CacheAssumption
    <2> HIDE DEF chunks
    <2> QED BY <1>2, <2>1, <2>2 DEF ReaderState
  <1>9. ReaderOK(next) /\ next.spooling = now.spooling
    BY <1>2, <1>3, <1>4, <1>5, <1>6 DEF ReaderState, SpoolWrite, ReaderOK
  <1>10. UNCHANGED <<origin, originLate, pc, answer>>
    BY DEF Read, backends
  <1> HIDE DEF next, chunks
  <1>11. CASE lost
    <2>1. discard(next) \in ReaderState
      BY <1>8, PartIsSeq DEF ReaderState, discard
    <2>3. ReaderOK(discard(next)) /\ ~discard(next).spooling
      BY <1>8, <1>9 DEF ReaderState, ReaderOK, discard
    <2>2. reader' = [reader EXCEPT ![r] = discard(next)] /\ Discarded(r)
      BY <1>4, <1>11 DEF Set, next, chunks
    <2> QED BY <1>1, <1>10, <2>1, <2>2, <2>3, DiscardedOK, ReaderStep
  <1>12. CASE ~lost
    <2>1. reader' = [reader EXCEPT ![r] = next] /\ scratch' = scratch
      BY <1>4, <1>12 DEF Set, next, chunks
    <2>2. scratch[r] = IF next.spooling THEN 1 ELSE 0
      BY <1>9 DEF ScratchIsClosed
    <2> QED BY <1>1, <1>8, <1>9, <1>10, <2>1, <2>2, ReaderStep DEF ReadersOK
  <1> QED BY <1>11, <1>12

\* A Read under a cancelled context, and the cancellation.
LEMMA CancelStep ==
  ASSUME CacheInv, NEW r \in Readers, ReadCancelled(r) \/ Cancel(r)
  PROVE  CacheInv'
  <1> USE DEF CacheInv
  <1>1. CacheOK' /\ UNCHANGED <<origin, originLate, pc, answer>>
    BY CacheUnchanged DEF ReadCancelled, Cancel, backends
  <1>2. reader[r] \in ReaderState /\ ReaderOK(reader[r])
    BY DEF ReadersOK
  <1>3. CASE ReadCancelled(r)
    <2> DEFINE next == discard(reader[r])
    <2>1. next \in ReaderState
      BY <1>2, PartIsSeq DEF ReaderState, discard
    <2>2. ReaderOK(next) /\ ~next.spooling
      BY <1>2 DEF ReaderState, ReaderOK, discard
    <2> QED BY <1>1, <1>3, <2>1, <2>2, DiscardedOK, ReaderStep DEF ReadCancelled, Set
  <1>4. CASE Cancel(r)
    <2> DEFINE next == [reader[r] EXCEPT !.cancelled = TRUE]
    <2>1. next \in ReaderState /\ ReaderOK(next) /\ next.spooling = reader[r].spooling
      BY <1>2 DEF ReaderState, ReaderOK
    <2>2. scratch[r] = IF next.spooling THEN 1 ELSE 0
      BY <2>1 DEF ScratchIsClosed
    <2> HIDE DEF next
    <2> QED BY <1>1, <1>4, <2>1, <2>2, ReaderStep DEF Cancel, Set, ReadersOK, next
  <1> QED BY <1>3, <1>4

\* Close fills the cache from the scratch file only once it holds the whole value.
LEMMA CloseStep ==
  ASSUME CacheInv, NEW r \in Readers, Close(r)
  PROVE  CacheInv'
  <1> USE DEF CacheInv
  <1> DEFINE now == reader[r]
  <1>1. now \in ReaderState /\ ReaderOK(now) /\ now.pc \in {"hit", "fill"}
    BY DEF ReadersOK, Close
  <1>2. Fillable(now) => IsOrigin(now.tmp)
    <2>1. IsOrigin(now.body) /\ now.body \in Seq(Writers) /\ Len(now.body) = Length
      BY <1>1, ValueIsSeq DEF ReaderOK, IsOrigin, OriginOK
    <2>2. Fillable(now) => now.tmp = SubSeq(now.body, 1, Len(now.body))
      BY <1>1, <2>1 DEF ReaderOK, Fillable
    <2> QED BY <2>1, <2>2, SpoolIsWhole
  <1>3. CacheOK' /\ UNCHANGED <<origin, originLate, pc, answer>>
    BY <1>2, FillKeeps, CacheUnchanged DEF Close
  <1> QED BY <1>3, ClosedOK, DiscardedOK, ReaderStep DEF Close, Set

-----------------------------------------------------------------------------
(* The theorems.                                                           *)

\* The invariant holds at first.
LEMMA CacheInvInit == CacheInit => CacheInv
  <1> SUFFICES ASSUME CacheInit PROVE CacheInv
    OBVIOUS
  <1> USE DEF CacheInit
  <1>1. OriginOK /\ CacheOK
    BY DEF OriginOK, CacheOK, Origin!StoreInit, Cache!StoreInit
  <1>2. WritersOK
    BY DEF WritersOK
  <1>3. ReadersOK /\ ScratchIsClosed
    BY ClosedOK DEF ReadersOK, ScratchIsClosed
  <1> QED BY <1>1, <1>2, <1>3 DEF CacheInv

\* Every step keeps it.
LEMMA CacheInvNext == CacheInv /\ [CacheNext]_cacheVars => CacheInv'
  <1> SUFFICES ASSUME CacheInv, [CacheNext]_cacheVars PROVE CacheInv'
    OBVIOUS
  <1>1. CASE UNCHANGED cacheVars
    BY <1>1 DEF cacheVars, backends, CacheInv, OriginOK, CacheOK, WritersOK, ReadersOK,
                ReaderOK, IsOrigin, ScratchIsClosed
  <1>2. ASSUME NEW w \in Writers, CreateOrigin(w) \/ CreateFill(w)
        PROVE  CacheInv'
    BY <1>2, CreateOriginStep, CreateFillStep
  <1>3. ASSUME NEW r \in Readers,
               GetCache(r) \/ GetOrigin(r) \/ Read(r) \/ ReadCancelled(r) \/ Cancel(r) \/ Close(r)
        PROVE  CacheInv'
    BY <1>3, GetCacheStep, GetOriginStep, ReadStep, CancelStep, CloseStep
  <1>4. CASE LandOrigin \/ LandCache
    BY <1>4, LandOriginStep, LandCacheStep
  <1> QED BY <1>1, <1>2, <1>3, <1>4 DEF CacheNext

\* The invariant holds in every reachable state.
LEMMA CacheInvariant == CacheSpec => []CacheInv
  BY CacheInvInit, CacheInvNext, PTL DEF CacheSpec

\* However fills, Creates that lose or end in doubt, partial reads and cancellations
\* interleave, the cache holds the origin's complete value or nothing, and a reader
\* at io.EOF has delivered that value.
THEOREM CacheFaithful == CacheSpec => []CacheIsFaithful
  <1>1. CacheInv => CacheIsFaithful
    BY DEF CacheInv, CacheOK, IsOrigin, ReadersOK, ReaderOK, ReaderState, CacheIsFaithful
  <1> QED BY <1>1, CacheInvariant, PTL

\* Every open scratch file is one that a reader refers to, on all paths.
THEOREM ScratchClosed == CacheSpec => []ScratchIsClosed
  <1>1. CacheInv => ScratchIsClosed
    BY DEF CacheInv
  <1> QED BY <1>1, CacheInvariant, PTL

\* The writer whose value the origin holds.
Holder == IF Key \in DOMAIN origin THEN origin[Key][1] ELSE None

\* A call of the contract as a step of the adapter: either the holder stays, or the
\* key had none and gets a writer, and at most one answer is given, which is true.
LEMMA ContractStep ==
  ASSUME CacheInv, CacheInv', NEW w \in Writers,
         Holder' = Holder \/ (Holder = None /\ Holder' = w),
         \/ answer' = answer
         \/ \E a \in {"ok", "exists", "error"} :
               /\ answer[w] = None
               /\ a = "ok" => Holder' = w
               /\ a = "exists" => Holder' # None
               /\ answer' = [answer EXCEPT ![w] = a]
  PROVE  Contract!ContractNext
  <1> DEFINE h == [k \in {Key} |-> IF k \in DOMAIN origin THEN origin[k][1] ELSE None]
             keyOf == [x \in Writers |-> Key]
  <1>1. h = [k \in {Key} |-> Holder] /\ h' = [k \in {Key} |-> Holder']
    BY DEF Holder
  <1>2. keyOf[w] = Key /\ h[Key] = Holder /\ h'[Key] = Holder'
    BY <1>1
  <1>3. UNCHANGED h \/ (h[keyOf[w]] = None /\ h' = [h EXCEPT ![keyOf[w]] = w])
    BY <1>1, <1>2
  <1>4. Contract!Publish(w) \/ UNCHANGED h
    BY <1>3 DEF Contract!Publish
  <1>5. (\E a \in {"ok", "exists", "error"} : Contract!Return(w, a)) \/ UNCHANGED answer
    <2> HIDE DEF h, keyOf
    <2>1. ASSUME NEW a \in {"ok", "exists", "error"}, answer[w] = None,
                 a = "ok" => Holder' = w, a = "exists" => Holder' # None,
                 answer' = [answer EXCEPT ![w] = a]
          PROVE  Contract!Return(w, a)
      BY <1>2, <2>1 DEF Contract!Return, h, keyOf
    <2> QED BY <2>1
  <1> QED BY <1>4, <1>5 DEF Contract!ContractNext

\* A PUT at the origin makes its writer the holder of the key, or changes nothing.
LEMMA HolderPut ==
  ASSUME OriginOK, NEW w \in Writers, Origin!Put(Key, ValueOf(w))
  PROVE  /\ Holder' = Holder \/ (Holder = None /\ Holder' = w)
         /\ Holder' # None
         /\ Key \notin DOMAIN origin => Holder' = w
  <1>1. ValueOf(w)[1] = w
    BY CacheAssumption DEF ValueOf
  <1>2. CASE Key \in DOMAIN origin
    <2>1. origin[Key][1] \in Writers
      BY <1>2, ValueIsSeq DEF OriginOK
    <2> QED BY <1>2, <2>1, CacheAssumption DEF Holder, Origin!Put, Origin!Present
  <1>3. CASE Key \notin DOMAIN origin
    <2>1. Key \in DOMAIN origin' /\ origin'[Key] = ValueOf(w)
      BY <1>3 DEF Origin!Put, Origin!Present
    <2> QED BY <1>1, <1>3, <2>1, CacheAssumption DEF Holder
  <1> QED BY <1>2, <1>3

\* Create at the origin is a call of the contract.
LEMMA CreateOriginRefines ==
  ASSUME CacheInv, CacheInv', NEW w \in Writers, CreateOrigin(w)
  PROVE  Contract!ContractNext
  <1>1. PICK err \in {"ok", "exists", "error"} :
          /\ Origin!Create(Key, ValueOf(w), err)
          /\ answer' = [answer EXCEPT ![w] = IF Stored(err) THEN None ELSE err]
    BY DEF CreateOrigin
  <1>2. answer[w] = None /\ answer \in [Writers -> {None, "ok", "exists", "error"}]
    BY DEF CreateOrigin, CacheInv, WritersOK
  <1>3. CASE err = "ok"
    <2>1. answer' = answer
      BY <1>1, <1>2, <1>3 DEF Stored
    <2>2. Origin!Put(Key, ValueOf(w))
      BY <1>1, <1>3 DEF Origin!Create
    <2> QED BY <2>1, <2>2, HolderPut, ContractStep DEF CacheInv
  <1>4. CASE err = "exists"
    <2>1. Origin!Put(Key, ValueOf(w)) /\ answer' = [answer EXCEPT ![w] = err]
      BY <1>1, <1>4 DEF Origin!Create, Stored
    <2>2. Holder' # None /\ (Holder' = Holder \/ (Holder = None /\ Holder' = w))
      BY <2>1, HolderPut DEF CacheInv
    <2> QED BY <1>2, <1>4, <2>1, <2>2, ContractStep
  <1>5. CASE err = "error"
    <2>1. Origin!Put(Key, ValueOf(w)) \/ origin' = origin
      BY <1>1, <1>5 DEF Origin!Create
    <2>2. Holder' = Holder \/ (Holder = None /\ Holder' = w)
      BY <2>1, HolderPut DEF CacheInv, Holder
    <2>3. answer' = [answer EXCEPT ![w] = err]
      BY <1>1, <1>5 DEF Stored
    <2> QED BY <1>2, <1>5, <2>2, <2>3, ContractStep
  <1> QED BY <1>3, <1>4, <1>5

\* Create returns nil once the winner's fill of the cache has ended, however it ended.
LEMMA CreateFillRefines ==
  ASSUME CacheInv, CacheInv', NEW w \in Writers, CreateFill(w)
  PROVE  Contract!ContractNext
  <1>1. Holder' = Holder /\ Holder = w
    <2>1. IsOrigin(ValueOf(w))
      BY DEF CreateFill, CacheInv, WritersOK
    <2> QED BY <2>1, CacheAssumption DEF CreateFill, IsOrigin, ValueOf, Holder
  <1>2. answer[w] = None /\ answer' = [answer EXCEPT ![w] = "ok"]
    BY DEF CreateFill, CacheInv, WritersOK
  <1> QED BY <1>1, <1>2, ContractStep

\* A PUT that lands late publishes a value nobody waits for.
LEMMA LandOriginRefines ==
  ASSUME CacheInv, CacheInv', LandOrigin
  PROVE  Contract!ContractNext
  <1>1. PICK put \in originLate : Origin!Put(put[1], put[2])
    BY DEF LandOrigin, Origin!Land
  <1>2. PICK w \in Writers : put[1] = Key /\ put[2] = ValueOf(w)
    BY DEF CacheInv, OriginOK, IsValue
  <1>3. Holder' = Holder \/ (Holder = None /\ Holder' = w)
    BY <1>1, <1>2, HolderPut DEF CacheInv
  <1> QED BY <1>3, ContractStep DEF LandOrigin

\* To its callers a cachestore keeps the contract of a store: a key has one value for
\* good, nil means that the caller's value is it, ErrExists that there is one, and
\* this in spite of late PUTs and errors at both backends.
THEOREM CacheImplementsContract == CacheSpec => ImplementsContract
  <1> DEFINE h == [k \in {Key} |-> IF k \in DOMAIN origin THEN origin[k][1] ELSE None]
  <1>1. CacheInit => Contract!ContractInit
    <2>1. {[v \in Writers |-> Key][w] : w \in Writers} = {Key}
      BY CacheAssumption
    <2> QED BY <2>1 DEF CacheInit, Origin!StoreInit, Contract!ContractInit
  <1>2. CacheInv /\ CacheInv' /\ [CacheNext]_cacheVars => [Contract!ContractNext]_<<h, answer>>
    <2> SUFFICES ASSUME CacheInv, CacheInv', [CacheNext]_cacheVars
                 PROVE  [Contract!ContractNext]_<<h, answer>>
      OBVIOUS
    <2>1. CASE UNCHANGED <<origin, answer>>
      BY <2>1
    <2>2. ASSUME NEW w \in Writers, CreateOrigin(w) \/ CreateFill(w)
          PROVE  Contract!ContractNext
      BY <2>2, CreateOriginRefines, CreateFillRefines
    <2>3. CASE LandOrigin
      BY <2>3, LandOriginRefines
    <2>4. ASSUME NEW r \in Readers,
                 GetCache(r) \/ GetOrigin(r) \/ Read(r) \/ ReadCancelled(r) \/ Cancel(r) \/ Close(r)
          PROVE  UNCHANGED <<origin, answer>>
      BY <2>4 DEF GetCache, GetOrigin, Read, ReadCancelled, Cancel, Close, backends
    <2>5. LandCache \/ UNCHANGED cacheVars => UNCHANGED <<origin, answer>>
      BY DEF LandCache, cacheVars, backends
    <2> QED BY <2>1, <2>2, <2>3, <2>4, <2>5 DEF CacheNext
  <1> QED BY <1>1, <1>2, CacheInvariant, PTL DEF CacheSpec, ImplementsContract, Contract!ContractSpec

=============================================================================
