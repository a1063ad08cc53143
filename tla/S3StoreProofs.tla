---------------------------- MODULE S3StoreProofs ---------------------------
(***************************************************************************)
(* Proofs of the safety properties of S3Store, for every set of calls and  *)
(* sizes, every number of workers and retries and all limits on parts, and *)
(* of S3List, for every bucket, limit and page size.                       *)
(***************************************************************************)
EXTENDS S3Store, S3List, SequenceLemmas

-----------------------------------------------------------------------------
(* The parts of a value.                                                   *)

\* Euclidean division.
LEMMA Division ==
  ASSUME NEW a \in Int, NEW b \in Nat \ {0}
  PROVE  /\ a \div b \in Int /\ a % b \in 0..(b - 1)
         /\ a = b * (a \div b) + (a % b)
  OBVIOUS

\* The number of chunks of b bytes that a bytes need.
LEMMA CeilDiv ==
  ASSUME NEW a \in Nat, NEW b \in Nat \ {0}
  PROVE  LET q == (a + b - 1) \div b
         IN q \in Int /\ a <= b * q /\ b * (q - 1) < a
  <1> DEFINE q == (a + b - 1) \div b
             r == (a + b - 1) % b
  <1>0. a + b - 1 \in Int
    OBVIOUS
  <1>1. q \in Int /\ r \in 0..(b - 1) /\ a + b - 1 = b * q + r
    BY <1>0, Division
  <1> HIDE DEF q, r
  <1>2. b * (q - 1) = b * q - b
    BY <1>1
  <1>3. q \in Int /\ a <= b * q /\ b * (q - 1) < a
    BY <1>1, <1>2
  <1> QED BY <1>3 DEF q

\* Multiplication is monotonic.
LEMMA MulMono ==
  ASSUME NEW b \in Nat, NEW x \in Int, NEW y \in Int, x <= y
  PROVE  b * x <= b * y
  OBVIOUS

\* Multiplication is strictly monotonic.
LEMMA MulCancel ==
  ASSUME NEW b \in Nat \ {0}, NEW x \in Int, NEW y \in Int, b * x < b * y
  PROVE  x < y
  OBVIOUS

\* Quotient and remainder are unique.
LEMMA DivisionUnique ==
  ASSUME NEW b \in Nat \ {0}, NEW p \in Int, NEW q \in Int, NEW r \in Int, NEW s \in Int,
         0 <= r, r < b, 0 <= s, s < b,
         b * p + r = b * q + s
  PROVE  p = q /\ r = s
  <1>1. b * (q + 1) = b * q + b /\ b * (p + 1) = b * p + b
    OBVIOUS
  <1>2. b * p < b * (q + 1) /\ b * q < b * (p + 1)
    BY <1>1
  <1>3. p < q + 1 /\ q < p + 1
    BY <1>2, MulCancel
  <1> QED BY <1>3

\* A worker's next part is in its progression.
LEMMA NextOfWorker ==
  ASSUME NEW b \in Nat \ {0}, NEW w \in Nat
  PROVE  (w + b) % b = w % b
  <1> DEFINE p == w \div b
             q == (w + b) \div b
  <1>1. w + b \in Int
    OBVIOUS
  <1>2. p \in Int /\ w % b \in 0..(b - 1) /\ w = b * p + (w % b)
    BY Division
  <1>3. q \in Int /\ (w + b) % b \in 0..(b - 1) /\ w + b = b * q + ((w + b) % b)
    BY <1>1, Division
  <1> HIDE DEF p, q
  <1>4. PICK n \in Int : n = p + 1 /\ b * n = b * p + b
    BY <1>2
  <1> DEFINE r == w % b
             s == (w + b) % b
  <1> HIDE DEF r, s
  <1>5. r \in 0..(b - 1) /\ s \in 0..(b - 1) /\ b * n + r = b * q + s
    BY <1>2, <1>3, <1>4 DEF r, s
  <1>6. r \in Int /\ s \in Int /\ 0 <= r /\ r < b /\ 0 <= s /\ s < b
    BY <1>5
  <1>7. q \in Int
    BY <1>3
  <1>8. r = s
    BY <1>5, <1>6, <1>7, DivisionUnique, ZenonT(40)
  <1> QED BY <1>8 DEF r, s

\* Between two parts of a worker there is none of its own.
LEMMA SameWorker ==
  ASSUME NEW b \in Nat \ {0}, NEW i \in Nat, NEW w \in Nat, i % b = w % b, w <= i, i < w + b
  PROVE  i = w
  <1> DEFINE p == i \div b
             q == w \div b
             r == i - w
  <1>1. /\ p \in Int /\ q \in Int /\ i % b \in Int
        /\ i = b * p + (i % b) /\ w = b * q + (w % b)
    BY Division
  <1> HIDE DEF p, q, r
  <1>2. PICK zero \in Int : zero = 0 /\ 0 <= zero /\ zero < b
    OBVIOUS
  <1>3. /\ p \in Int /\ q \in Int /\ r \in Int
        /\ 0 <= r /\ r < b /\ 0 <= zero /\ zero < b
        /\ b * q + r = b * p + zero
    BY <1>1, <1>2 DEF r
  <1>4. r = zero
    BY <1>3, DivisionUnique, Zenon
  <1> QED BY <1>2, <1>4 DEF r

\* Max of three and Min of two numbers.
LEMMA MaxOfThree ==
  ASSUME NEW a \in Int, NEW b \in Int, NEW c \in Int
  PROVE  LET m == Max({a, b, c}) IN m \in {a, b, c} /\ a <= m /\ b <= m /\ c <= m
  <1>1. \E x \in {a, b, c} : \A y \in {a, b, c} : x >= y
    <2>1. CASE a >= b /\ a >= c BY <2>1
    <2>2. CASE b >= a /\ b >= c BY <2>2
    <2>3. CASE c >= a /\ c >= b BY <2>3
    <2> QED BY <2>1, <2>2, <2>3
  <1> QED BY <1>1 DEF Max

\* The smaller of two numbers.
LEMMA MinOfTwo ==
  ASSUME NEW a \in Int, NEW b \in Int
  PROVE  Min({a, b}) = IF a <= b THEN a ELSE b
  <1>1. \E x \in {a, b} : \A y \in {a, b} : x <= y
    <2>1. CASE a <= b BY <2>1
    <2>2. CASE b <= a BY <2>2
    <2> QED BY <2>1, <2>2
  <1>2. Min({a, b}) \in {a, b} /\ Min({a, b}) <= a /\ Min({a, b}) <= b
    BY <1>1 DEF Min
  <1> QED BY <1>2

\* A size that is divided into parts.
Divided(size) == size \in Nat /\ size > 0 /\ ~TooLarge(size)

\* The size of a part is within S3's limits, and maxParts parts hold the value.
LEMMA PartSizeOK ==
  ASSUME NEW size, Divided(size)
  PROVE  /\ partSize(size) \in Nat \ {0}
         /\ minPartSize <= partSize(size) /\ partSize(size) <= maxPartSize
         /\ size <= maxParts * partSize(size)
  <1> USE S3Assumption
  <1> DEFINE c == (size + maxParts - 1) \div maxParts
             P == partSize(size)
  <1>1. size \in Nat /\ size <= maxParts * maxPartSize
    BY DEF Divided, TooLarge
  <1>2. c \in Int /\ size <= maxParts * c /\ maxParts * (c - 1) < size
    BY <1>1, CeilDiv
  <1>3. P \in {minPartSize, multipartPartSize, c} /\ minPartSize <= P /\ c <= P
    <2>1. P = Max({minPartSize, multipartPartSize, c})
      BY DEF partSize
    <2> HIDE DEF c, P
    <2>2. minPartSize \in Int /\ multipartPartSize \in Int /\ c \in Int
      BY <1>2
    <2> QED BY <2>1, <2>2, MaxOfThree
  <1> HIDE DEF c, P
  <1>4. c - 1 \in Int /\ maxParts * (c - 1) < maxParts * maxPartSize
    BY <1>1, <1>2
  <1>5. c - 1 < maxPartSize
    BY <1>4, MulCancel
  <1>6. P \in Int /\ maxParts * c <= maxParts * P
    BY <1>2, <1>3, MulMono
  <1> QED BY <1>1, <1>2, <1>3, <1>5, <1>6 DEF P

\* There are at most maxParts parts, and the last one is not empty.
LEMMA PartCountOK ==
  ASSUME NEW size, Divided(size)
  PROVE  LET n == PartCount(size)
             P == partSize(size)
         IN /\ n \in 1..maxParts
            /\ size <= P * n /\ P * (n - 1) < size
  <1> USE S3Assumption
  <1> DEFINE n == PartCount(size)
             P == partSize(size)
  <1>1. P \in Nat \ {0} /\ size <= maxParts * P /\ size \in Nat /\ size > 0
    BY PartSizeOK DEF Divided
  <1>2. n \in Int /\ size <= P * n /\ P * (n - 1) < size
    BY <1>1, CeilDiv DEF PartCount
  <1> HIDE DEF n, P
  <1>3. PICK m \in Int : m = n - 1 /\ P * m < P * maxParts
    <2>1. maxParts * P = P * maxParts
      BY <1>1
    <2>2. P * maxParts \in Int /\ P * (n - 1) \in Int
      BY <1>1, <1>2
    <2> QED BY <1>1, <1>2, <2>1, <2>2
  <1>4. m < maxParts
    BY <1>1, <1>3, MulCancel
  <1>5. n > 0
    <2> SUFFICES ASSUME n <= 0 PROVE FALSE
      BY <1>2
    <2>1. P * n <= P * 0
      BY <1>1, <1>2, MulMono
    <2> QED BY <1>1, <1>2, <2>1
  <1> QED BY <1>2, <1>3, <1>4, <1>5 DEF n, P

\* The place of a part: all but the last have the full size.
LEMMA PartBytesAre ==
  ASSUME NEW size, Divided(size), NEW i \in 0..(PartCount(size) - 1)
  PROVE  LET P == partSize(size)
             n == PartCount(size)
         IN \E last \in Int :
              /\ PartBytes(size, i) = (P * i)..last
              /\ i < n - 1 => last = P * i + P - 1
              /\ i = n - 1 => last = size - 1
              /\ P * i \in Nat /\ P * i <= last /\ last <= P * i + P - 1 /\ last < size
  <1> USE S3Assumption
  <1> DEFINE n == PartCount(size)
             P == partSize(size)
  <1>1. P \in Nat \ {0} /\ size \in Nat
    BY PartSizeOK DEF Divided
  <1>2. n \in Nat /\ n >= 1 /\ size <= P * n /\ P * (n - 1) < size
    BY PartCountOK
  <1>3. PartBytes(size, i) = (i * P)..(i * P + Min({P, size - i * P}) - 1)
    BY DEF PartBytes
  <1> HIDE DEF n, P
  <1>4. i \in Nat /\ i <= n - 1
    BY <1>2 DEF n
  <1>5. PICK off \in Nat : off = i * P /\ off = P * i
    BY <1>1, <1>4
  <1>6. Min({P, size - off}) = IF P <= size - off THEN P ELSE size - off
    BY <1>1, <1>5, MinOfTwo
  <1>7. PICK n1 \in Int : n1 = n - 1 /\ P * n = P * n1 + P
    BY <1>1, <1>2
  <1>8. P * n1 \in Int /\ P * n1 < size /\ size <= P * n1 + P
    BY <1>1, <1>2, <1>7
  <1>9. CASE i = n1
    <2>1. off = P * n1
      BY <1>5, <1>9
    <2>2. Min({P, size - off}) = size - off
      BY <1>1, <1>6, <1>8, <2>1
    <2>3. PartBytes(size, i) = off..(size - 1)
      BY <1>1, <1>3, <1>5, <2>2
    <2> QED BY <1>1, <1>5, <1>7, <1>8, <1>9, <2>1, <2>3 DEF n, P
  <1>10. CASE i < n1
    <2>1. P * (i + 1) <= P * n1
      BY <1>1, <1>4, <1>7, <1>10, MulMono
    <2>2. P * (i + 1) = off + P
      BY <1>1, <1>4, <1>5
    <2>3. Min({P, size - off}) = P
      BY <1>1, <1>5, <1>6, <1>8, <2>1, <2>2
    <2>4. PartBytes(size, i) = off..(off + P - 1)
      BY <1>1, <1>3, <1>5, <2>3
    <2>5. off + P - 1 \in Int /\ off <= off + P - 1 /\ off + P - 1 < size /\ i # n - 1
      BY <1>1, <1>4, <1>5, <1>7, <1>8, <1>10, <2>1, <2>2
    <2> QED BY <1>5, <2>4, <2>5 DEF n, P
  <1> QED BY <1>4, <1>7, <1>9, <1>10

\* The sizes of the parts are within S3's limits.
LEMMA PartLengths ==
  ASSUME NEW size, Divided(size), NEW i \in 0..(PartCount(size) - 1)
  PROVE  Cardinality(PartBytes(size, i))
           \in (IF i = PartCount(size) - 1 THEN 1 ELSE minPartSize)..maxPartSize
  <1> DEFINE n == PartCount(size)
             P == partSize(size)
  <1>1. P \in Nat \ {0} /\ minPartSize <= P /\ P <= maxPartSize
    BY PartSizeOK
  <1>2. n \in Nat
    BY PartCountOK, S3Assumption
  <1>3. PICK last \in Int :
          /\ PartBytes(size, i) = (P * i)..last
          /\ i < n - 1 => last = P * i + P - 1
          /\ P * i \in Nat /\ P * i <= last /\ last <= P * i + P - 1
    BY PartBytesAre
  <1>4. PICK off \in Nat : off = P * i
    BY <1>3
  <1>5. Cardinality(off..last) = last - off + 1
    BY <1>3, <1>4, FS_Interval
  <1> HIDE DEF n, P
  <1>6. i \in Int /\ (i = n - 1 \/ i < n - 1)
    BY <1>2 DEF n
  <1>7. CASE i = n - 1
    <2>1. last - off + 1 \in 1..maxPartSize
      BY <1>1, <1>3, <1>4, S3Assumption
    <2> QED BY <1>3, <1>4, <1>5, <1>7, <2>1 DEF n
  <1>8. CASE i < n - 1
    <2>1. last - off + 1 \in minPartSize..maxPartSize
      BY <1>1, <1>3, <1>4, <1>8, S3Assumption
    <2>2. i # n - 1
      BY <1>2, <1>6, <1>8
    <2> QED BY <1>3, <1>4, <1>5, <2>1, <2>2 DEF n
  <1> QED BY <1>6, <1>7, <1>8

\* All parts together are the value.
LEMMA PartsAreTheValue ==
  ASSUME NEW size, Divided(size)
  PROVE  UNION {PartBytes(size, i) : i \in 0..(PartCount(size) - 1)} = 0..(size - 1)
  <1> DEFINE n == PartCount(size)
             P == partSize(size)
  <1>1. P \in Nat \ {0} /\ size \in Nat
    BY PartSizeOK DEF Divided
  <1>2. n \in Nat /\ n >= 1 /\ size <= P * n
    BY PartCountOK, S3Assumption
  <1>3. ASSUME NEW i \in 0..(n - 1), NEW x \in PartBytes(size, i)
        PROVE  x \in 0..(size - 1)
    <2>1. PICK last \in Int : PartBytes(size, i) = (P * i)..last /\ P * i \in Nat /\ last < size
      BY PartBytesAre
    <2> QED BY <1>1, <2>1
  <1>4. ASSUME NEW x \in 0..(size - 1)
        PROVE  \E i \in 0..(n - 1) : x \in PartBytes(size, i)
    <2> DEFINE i == x \div P
               r == x % P
    <2>1. x \in Nat /\ x < size
      BY <1>1
    <2>2. i \in Int /\ r \in 0..(P - 1) /\ x = P * i + r
      <3> HIDE DEF P
      <3> QED BY <1>1, <2>1, Division
    <2> HIDE DEF i, r, P, n
    <2>3. P * i \in Int /\ P * i <= x /\ x <= P * i + P - 1
      BY <1>1, <2>2
    <2>4. P * i < P * n
      BY <1>1, <1>2, <2>1, <2>3
    <2>5. i < n
      BY <1>1, <1>2, <2>2, <2>4, MulCancel
    <2>6. i >= 0
      <3> SUFFICES ASSUME i + 1 <= 0 PROVE FALSE
        BY <2>2
      <3>1. P * (i + 1) <= P * 0
        BY <1>1, <2>2, MulMono
      <3>2. P * (i + 1) = P * i + P
        BY <1>1, <2>2
      <3> QED BY <1>1, <2>1, <2>3, <3>1, <3>2
    <2>7. i \in 0..(n - 1)
      BY <1>2, <2>2, <2>5, <2>6
    <2>8. PICK last \in Int :
            /\ PartBytes(size, i) = (P * i)..last
            /\ i < n - 1 => last = P * i + P - 1
            /\ i = n - 1 => last = size - 1
      BY <2>7, PartBytesAre DEF n, P
    <2>9. x <= last
      BY <1>1, <1>2, <2>1, <2>3, <2>7, <2>8
    <2> QED BY <2>1, <2>3, <2>7, <2>8, <2>9
  <1> HIDE DEF n
  <1>5. UNION {PartBytes(size, i) : i \in 0..(n - 1)} = 0..(size - 1)
    BY <1>3, <1>4, Zenon
  <1> QED BY <1>5 DEF n

-----------------------------------------------------------------------------
(* The invariant.                                                          *)

Workers == 0..(uploadConcurrency - 1)

Stages ==
  {"start", "put", "wait", "initiate", "upload", "complete", "abort", "done"}

CallState ==
  [pc : Stages, size : Sizes, attempt : Nat, worker : {<<>>} \cup [Workers -> Nat],
   parts : SUBSET Nat, failed : BOOLEAN, err : {None, "exists", "error"}, retry : BOOLEAN,
   cancelled : BOOLEAN, reported : BOOLEAN]

S3TypeOK ==
  /\ object \in {Absent} \cup [by : Calls, bytes : SUBSET Int]
  /\ uploads \subseteq Calls \X (Nat \cup {Lost})
  /\ call \in [Calls -> CallState]
  /\ answer \in [Calls -> {None, "ok", "exists", "error"}]

Admitted(size) == size > multipartThreshold => ~TooLarge(size)

\* bytes are the complete value of the call c.
Whole(c, bytes) ==
  c \in Calls /\ bytes = 0..(call[c].size - 1) /\ Admitted(call[c].size)

\* A worker has uploaded its parts up to the next one.
WorkersOK(now) ==
  LET n == PartCount(now.size)
  IN /\ now.worker \in [Workers -> Nat]
     /\ now.parts \subseteq 0..(n - 1)
     /\ \A k \in Workers :
           /\ now.worker[k] % uploadConcurrency = k
           /\ \A i \in 0..(n - 1) :
                 i % uploadConcurrency = k /\ i < now.worker[k] => i \in now.parts

ProgressOK(now) ==
  /\ now.pc \notin {"start", "done"} => Admitted(now.size)
  /\ now.pc \in {"initiate", "upload", "complete", "abort"} => now.size > multipartThreshold
  /\ now.pc = "upload" => WorkersOK(now)
  /\ now.pc = "complete" => now.parts = 0..(PartCount(now.size) - 1)

\* The ID of the upload u was told to c.
Told(c, u) == u[1] = c /\ u # Stranded(c)

\* The uploads of c that live beside the lost ones: the one of the attempt under way, or
\* one whose abort was reported to have failed.
UploadsOK(c) ==
  \A u \in uploads : Told(c, u) =>
     /\ u = Upload(c)
     /\ call[c].pc \in {"upload", "complete", "abort", "done"}
     /\ call[c].pc = "done" => call[c].reported /\ answer[c] # "ok"

CallOK(c) ==
  /\ ProgressOK(call[c])
  /\ UploadsOK(c)
  /\ call[c].pc # "done" => answer[c] = None
  /\ call[c].pc = "abort" =>
        call[c].err # None /\ (call[c].err = "exists" => object # Absent)

S3Inv ==
  /\ S3TypeOK
  /\ object # Absent => Whole(object.by, object.bytes)
  /\ \A req \in late : Whole(req.by, req.bytes)
  /\ \A c \in Calls : CallOK(c)

-----------------------------------------------------------------------------
(* What a step leaves alone.                                               *)

\* An object takes the place of none, and stays.
Published(c, bytes) ==
  \/ object' = object
  \/ object = Absent /\ object' = [by |-> c, bytes |-> bytes]

\* The object of a call is none that is absent.
LEMMA NotAbsent ==
  ASSUME NEW c \in Calls, NEW bytes
  PROVE  [by |-> c, bytes |-> bytes] # Absent
  <1>1. [by |-> c, bytes |-> bytes].by # Absent.by
    BY S3Assumption DEF Absent
  <1> QED BY <1>1

\* A step of c concerns no other call.
LEMMA CallStep ==
  ASSUME S3Inv, NEW c \in Calls, NEW next \in CallState,
         call' = [call EXCEPT ![c] = next], next.size = call[c].size,
         answer' \in [Calls -> {None, "ok", "exists", "error"}],
         \A d \in Calls \ {c} : answer'[d] = answer[d],
         NEW bytes, Published(c, bytes), object' # object => Whole(c, bytes),
         uploads' \subseteq uploads \cup {Upload(c), Stranded(c)},
         \A req \in late' : Whole(req.by, req.bytes),
         CallOK(c)'
  PROVE  S3Inv'
  <1>1. /\ \A d \in Calls \ {c} : call'[d] = call[d]
        /\ call'[c] = next
        /\ \A d \in Calls : call'[d].size = call[d].size
        /\ call' \in [Calls -> CallState]
    BY DEF S3Inv, S3TypeOK
  <1>2. \A d, b : Whole(d, b) <=> Whole(d, b)'
    BY <1>1 DEF Whole
  <1>3. object # Absent => object' = object
    BY DEF Published
  <1>4. object' \in {Absent} \cup [by : Calls, bytes : SUBSET Int]
    <2>1. Whole(c, bytes) => bytes \in SUBSET Int
      BY DEF Whole
    <2> QED BY <2>1 DEF Published, S3Inv, S3TypeOK
  <1>5. (object # Absent => Whole(object.by, object.bytes))'
    BY <1>2 DEF Published, S3Inv
  <1>6. /\ {Upload(c), Stranded(c)} \subseteq Calls \X (Nat \cup {Lost})
        /\ \A d \in Calls \ {c} : ~Told(d, Upload(c)) /\ ~Told(d, Stranded(c))
    BY DEF Upload, Stranded, Told, S3Inv, S3TypeOK, CallState
  <1>7. ASSUME NEW d \in Calls \ {c}
        PROVE  CallOK(d)'
    <2>1. CallOK(d) /\ call'[d] = call[d] /\ answer'[d] = answer[d]
      BY <1>1 DEF S3Inv
    <2>2. UploadsOK(d)'
      BY <1>6, <2>1 DEF CallOK, UploadsOK, Upload
    <2>3. ProgressOK(call[d])'
      BY <2>1 DEF CallOK
    <2> QED BY <1>3, <2>1, <2>2, <2>3 DEF CallOK
  <1>8. S3TypeOK'
    BY <1>1, <1>4, <1>6 DEF S3Inv, S3TypeOK
  <1>9. \A req \in late' : Whole(req.by, req.bytes)'
    BY <1>2
  <1> QED BY <1>5, <1>7, <1>8, <1>9 DEF S3Inv

\* A conditional request and its answer.
LEMMA SendOK ==
  ASSUME S3Inv, NEW c \in Calls, NEW upload, NEW bytes, Whole(c, bytes), NEW resp,
         Send([by |-> c, upload |-> upload, bytes |-> bytes], resp)
  PROVE  /\ Published(c, bytes)
         /\ uploads' \subseteq uploads
         /\ \A req \in late' : Whole(req.by, req.bytes)
         /\ resp = "ok" => /\ object' = [by |-> c, bytes |-> bytes]
                           /\ uploads' = uploads \ {upload}
         /\ resp = "412" => object' # Absent
  <1> DEFINE req == [by |-> c, upload |-> upload, bytes |-> bytes]
  <1>1. req.by = c /\ req.upload = upload /\ req.bytes = bytes
    OBVIOUS
  <1> HIDE DEF req
  <1>2. CASE resp \in {"ok", "412", "error"} /\ TakeEffect(req) /\ late' = late
    BY <1>1, <1>2, NotAbsent DEF TakeEffect, CanTakeEffect, Published, S3Inv
  <1>3. CASE /\ resp = "412" => object # Absent
             /\ resp \in {"412", "409", "error"}
             /\ UNCHANGED <<object, uploads, late>>
    BY <1>3 DEF Published, S3Inv
  <1>4. CASE resp \in {"409", "error"} /\ late' = late \cup {req} /\ UNCHANGED <<object, uploads>>
    BY <1>1, <1>4 DEF Published, S3Inv
  <1> QED BY <1>2, <1>3, <1>4 DEF Send, req

\* A request that lands late.
LEMMA LandStep ==
  ASSUME S3Inv, Land
  PROVE  S3Inv'
  <1>1. PICK req \in late :
          /\ TakeEffect(req) \/ UNCHANGED <<object, uploads>>
          /\ late' = late \ {req}
          /\ UNCHANGED <<call, answer>>
    BY DEF Land
  <1>2. Whole(req.by, req.bytes) /\ req.by \in Calls
    BY DEF S3Inv, Whole
  <1>3. /\ Published(req.by, req.bytes) /\ uploads' \subseteq uploads
        /\ object' # object => object' # Absent
    BY <1>1, <1>2, NotAbsent DEF TakeEffect, CanTakeEffect, Published
  <1>4. \A d, b : Whole(d, b) <=> Whole(d, b)'
    BY <1>1 DEF Whole
  <1>5. \A c \in Calls : CallOK(c)'
    BY <1>1, <1>3 DEF S3Inv, CallOK, UploadsOK, Upload, Published
  <1>6. S3TypeOK'
    <2>1. req.bytes \in SUBSET Int
      BY <1>2 DEF Whole
    <2> QED BY <1>1, <1>2, <1>3, <2>1 DEF S3Inv, S3TypeOK, Published
  <1>7. (object # Absent => Whole(object.by, object.bytes))'
    BY <1>2, <1>3, <1>4 DEF Published, S3Inv
  <1> QED BY <1>1, <1>4, <1>5, <1>6, <1>7 DEF S3Inv

-----------------------------------------------------------------------------
(* The actions.                                                            *)

\* A step of c that sends no conditional request.
LEMMA LocalStep ==
  ASSUME S3Inv, NEW c \in Calls, NEW next \in CallState,
         call' = [call EXCEPT ![c] = next], next.size = call[c].size,
         \/ answer' = answer
         \/ \E a \in {"ok", "exists", "error"} : answer' = [answer EXCEPT ![c] = a],
         UNCHANGED <<object, late>>, uploads' \subseteq uploads \cup {Upload(c), Stranded(c)},
         CallOK(c)'
  PROVE  S3Inv'
  <1>1. Published(c, {}) /\ object' = object
    BY DEF Published
  <1>2. /\ answer' \in [Calls -> {None, "ok", "exists", "error"}]
        /\ \A d \in Calls \ {c} : answer'[d] = answer[d]
    BY DEF S3Inv, S3TypeOK
  <1>3. \A req \in late' : Whole(req.by, req.bytes)
    BY DEF S3Inv
  <1> QED BY <1>1, <1>2, <1>3, CallStep

\* The state of a call, and what a step makes of it.
LEMMA CallIs ==
  ASSUME S3Inv, NEW c \in Calls
  PROVE  /\ call[c] \in CallState /\ CallOK(c)
         /\ \A next : call' = [call EXCEPT ![c] = next] => call'[c] = next
         /\ \A a : answer' = [answer EXCEPT ![c] = a] => answer'[c] = a
         /\ answer[c] \in {None, "ok", "exists", "error"}
  BY DEF S3Inv, S3TypeOK

\* A value that is uploaded in parts has some.
LEMMA InParts ==
  ASSUME NEW now \in CallState, ProgressOK(now),
         now.pc \in {"initiate", "upload", "complete", "abort"}
  PROVE  Divided(now.size) /\ PartCount(now.size) \in Nat
  <1>1. now.size \in Nat /\ now.size > multipartThreshold /\ Admitted(now.size)
    BY S3Assumption DEF CallState, ProgressOK
  <1>2. Divided(now.size)
    BY <1>1, S3Assumption DEF Divided, Admitted
  <1> QED BY <1>2, PartCountOK, S3Assumption

\* Entry of Create, the end of a wait, and the returns before any upload.
LEMMA StartStep ==
  ASSUME S3Inv, NEW c \in Calls, Start(c)
  PROVE  S3Inv'
  <1> DEFINE now == call[c]
  <1>1. now \in CallState /\ CallOK(c) /\ now.pc = "start"
    BY CallIs DEF Start
  <1>2. UNCHANGED <<object, uploads, late>>
    BY DEF Start
  <1>3. \A u \in uploads : ~Told(c, u)
    BY <1>1 DEF CallOK, UploadsOK
  <1>4. CASE now.size > multipartThreshold /\ TooLarge(now.size)
    <2> DEFINE next == [now EXCEPT !.pc = "done"]
    <2>1. call' = [call EXCEPT ![c] = next] /\ answer' = [answer EXCEPT ![c] = "error"]
      BY <1>4 DEF Start, Return, Goto, Set
    <2>2. next \in CallState /\ next.size = now.size /\ next.pc = "done"
      BY <1>1 DEF CallState, Stages
    <2> HIDE DEF next
    <2>3. call'[c] = next
      BY <2>1, CallIs
    <2>4. CallOK(c)'
      BY <1>2, <1>3, <2>2, <2>3 DEF CallOK, UploadsOK, ProgressOK
    <2> QED BY <1>2, <2>1, <2>2, <2>4, LocalStep
  <1>5. CASE ~(now.size > multipartThreshold /\ TooLarge(now.size))
    <2> DEFINE next == [now EXCEPT !.pc = FirstRequest(now.size)]
    <2>1. call' = [call EXCEPT ![c] = next] /\ answer' = answer
      BY <1>5 DEF Start, Goto, Set
    <2>2. /\ next \in CallState /\ next.size = now.size
          /\ next.pc = IF now.size > multipartThreshold THEN "initiate" ELSE "put"
      BY <1>1 DEF CallState, Stages, FirstRequest
    <2> HIDE DEF next
    <2>3. call'[c] = next
      BY <2>1, CallIs
    <2>4. CallOK(c)'
      BY <1>1, <1>2, <1>3, <1>5, <2>1, <2>2, <2>3 DEF CallOK, UploadsOK, ProgressOK, Admitted
    <2> QED BY <1>2, <2>1, <2>2, <2>4, LocalStep
  <1> QED BY <1>4, <1>5

\* The end of a wait begins the next attempt.
LEMMA WaitStep ==
  ASSUME S3Inv, NEW c \in Calls, waitConflict(c)
  PROVE  S3Inv'
  <1> DEFINE now == call[c]
             next == [now EXCEPT !.pc = FirstRequest(now.size), !.attempt = NextAttempt(@)]
  <1>1. now \in CallState /\ CallOK(c) /\ now.pc = "wait"
    BY CallIs DEF waitConflict
  <1>2. UNCHANGED <<object, uploads, late, answer>> /\ call' = [call EXCEPT ![c] = next]
    BY DEF waitConflict, Set
  <1>3. \A u \in uploads : ~Told(c, u)
    BY <1>1 DEF CallOK, UploadsOK
  <1>4. /\ next \in CallState /\ next.size = now.size
        /\ next.pc = IF now.size > multipartThreshold THEN "initiate" ELSE "put"
    <2>1. FirstRequest(now.size) \in Stages /\ now.attempt + 1 \in Nat
      BY <1>1 DEF FirstRequest, Stages, CallState
    <2>2. next \in CallState
      BY <1>1, <2>1 DEF CallState, NextAttempt
    <2>3. next.size = now.size /\ next.pc = FirstRequest(now.size)
      BY <1>1 DEF CallState
    <2> QED BY <2>2, <2>3 DEF FirstRequest
  <1> HIDE DEF next
  <1>5. call'[c] = next
    BY <1>2, CallIs
  <1>6. CallOK(c)'
    BY <1>1, <1>2, <1>3, <1>4, <1>5 DEF CallOK, UploadsOK, ProgressOK
  <1> QED BY <1>2, <1>4, <1>6, LocalStep

\* The context is cancelled, and a loop that finds it so returns.
LEMMA CancelStep ==
  ASSUME S3Inv, NEW c \in Calls, Cancel(c) \/ ReturnCancelled(c)
  PROVE  S3Inv'
  <1> DEFINE now == call[c]
  <1>1. now \in CallState /\ CallOK(c) /\ UNCHANGED <<object, uploads, late>>
    BY CallIs DEF Cancel, ReturnCancelled
  <1>2. CASE Cancel(c)
    <2> DEFINE next == [now EXCEPT !.cancelled = TRUE]
    <2>1. call' = [call EXCEPT ![c] = next] /\ answer' = answer
      BY <1>2 DEF Cancel, Set
    <2>2. /\ next \in CallState /\ next.size = now.size /\ next.pc = now.pc
          /\ next.worker = now.worker /\ next.parts = now.parts /\ next.attempt = now.attempt
          /\ next.err = now.err /\ next.reported = now.reported
      BY <1>1 DEF CallState
    <2> HIDE DEF next
    <2>3. call'[c] = next
      BY <2>1, CallIs
    <2>4. CallOK(c)'
      BY <1>1, <2>1, <2>2, <2>3 DEF CallOK, UploadsOK, Upload, ProgressOK, WorkersOK
    <2> QED BY <1>1, <2>1, <2>2, <2>4, LocalStep
  <1>3. CASE ReturnCancelled(c)
    <2> DEFINE next == [now EXCEPT !.pc = "done"]
    <2>1. call' = [call EXCEPT ![c] = next] /\ answer' = [answer EXCEPT ![c] = "error"]
      BY <1>3 DEF ReturnCancelled, Return, Goto, Set
    <2>2. next \in CallState /\ next.size = now.size /\ next.pc = "done"
      BY <1>1 DEF CallState, Stages
    <2> HIDE DEF next
    <2>3. call'[c] = next
      BY <2>1, CallIs
    <2>4. \A u \in uploads : ~Told(c, u)
      BY <1>1, <1>3 DEF CallOK, UploadsOK, ReturnCancelled
    <2>5. CallOK(c)'
      BY <1>1, <2>2, <2>3, <2>4 DEF CallOK, UploadsOK, ProgressOK
    <2> QED BY <1>1, <2>1, <2>2, <2>5, LocalStep
  <1> QED BY <1>2, <1>3

\* An upload is initiated, or the initiation fails; either may leave a lost upload.
LEMMA InitiateStep ==
  ASSUME S3Inv, NEW c \in Calls, CreateMultipartUpload(c)
  PROVE  S3Inv'
  <1> DEFINE now == call[c]
  <1>1. now \in CallState /\ CallOK(c) /\ now.pc = "initiate" /\ UNCHANGED <<object, late>>
    BY CallIs DEF CreateMultipartUpload
  <1>2. \A u \in uploads : ~Told(c, u)
    BY <1>1 DEF CallOK, UploadsOK
  <1>3. ~Told(c, Stranded(c))
    BY DEF Told
  <1>4. CASE /\ uploads' \in {uploads \cup {Upload(c)}, uploads \cup {Upload(c), Stranded(c)}}
             /\ Set(c, [call[c] EXCEPT !.pc = "upload", !.parts = {}, !.failed = FALSE,
                                       !.worker = [k \in 0..(uploadConcurrency - 1) |-> k]])
             /\ answer' = answer
    <2> DEFINE next == [now EXCEPT !.pc = "upload", !.parts = {}, !.failed = FALSE,
                                   !.worker = [k \in 0..(uploadConcurrency - 1) |-> k]]
    <2>1. call' = [call EXCEPT ![c] = next]
      BY <1>4 DEF Set
    <2>2. [k \in 0..(uploadConcurrency - 1) |-> k] \in [Workers -> Nat]
      BY S3Assumption DEF Workers
    <2>3. next \in CallState
      BY <1>1, <2>2 DEF CallState, Stages
    <2>4. /\ next.size = now.size /\ next.pc = "upload" /\ next.parts = {}
          /\ next.worker = [k \in Workers |-> k] /\ next.attempt = now.attempt
      BY <1>1 DEF CallState, Workers
    <2> HIDE DEF next
    <2>5. call'[c] = next
      BY <2>1, CallIs
    <2>6. \A k \in Workers : k % uploadConcurrency = k /\ k \in Nat /\ k < uploadConcurrency
      BY S3Assumption DEF Workers
    <2>7. WorkersOK(next)
      <3> SUFFICES ASSUME NEW k \in Workers, NEW i \in 0..(PartCount(next.size) - 1),
                          i % uploadConcurrency = k, i < k
                   PROVE  FALSE
        BY <2>2, <2>4, <2>6 DEF WorkersOK
      <3>0. PartCount(next.size) \in Nat
        BY <1>1, <2>4, InParts DEF CallOK
      <3>1. i \in Nat /\ i < uploadConcurrency
        BY <2>6, <3>0, S3Assumption
      <3>2. i % uploadConcurrency = i
        BY <3>1, S3Assumption
      <3> QED BY <2>6, <3>1, <3>2
    <2>8. CallOK(c)'
      BY <1>1, <1>2, <1>3, <1>4, <2>4, <2>5, <2>7 DEF CallOK, UploadsOK, Upload, ProgressOK
    <2> QED BY <1>1, <1>4, <2>1, <2>3, <2>4, <2>8, LocalStep
  <1>5. CASE uploads' \in {uploads, uploads \cup {Stranded(c)}} /\ Return(c, "error")
    <2> DEFINE next == [now EXCEPT !.pc = "done"]
    <2>1. call' = [call EXCEPT ![c] = next] /\ answer' = [answer EXCEPT ![c] = "error"]
      BY <1>5 DEF Return, Goto, Set
    <2>2. next \in CallState /\ next.size = now.size /\ next.pc = "done"
      BY <1>1 DEF CallState, Stages
    <2> HIDE DEF next
    <2>3. call'[c] = next
      BY <2>1, CallIs
    <2>4. CallOK(c)'
      BY <1>1, <1>2, <1>3, <1>5, <2>2, <2>3 DEF CallOK, UploadsOK, ProgressOK
    <2> QED BY <1>1, <1>5, <2>1, <2>2, <2>4, LocalStep
  <1> QED BY <1>4, <1>5 DEF CreateMultipartUpload

\* A worker uploads its next part, or fails and ends the attempt.
LEMMA UploadPartStep ==
  ASSUME S3Inv, NEW c \in Calls, NEW k \in Workers, UploadPart(c, k)
  PROVE  S3Inv'
  <1> DEFINE now == call[c]
             i == now.worker[k]
             n == PartCount(now.size)
             U == uploadConcurrency
  <1>1. now \in CallState /\ CallOK(c) /\ now.pc = "upload"
    BY CallIs DEF UploadPart
  <1>2. UNCHANGED <<object, uploads, late, answer>> /\ i < n
    BY DEF UploadPart
  <1>3. n \in Nat /\ U \in Nat \ {0}
    BY <1>1, InParts, S3Assumption DEF CallOK
  <1>4. WorkersOK(now) /\ i \in Nat /\ i % U = k
    BY <1>1 DEF CallOK, ProgressOK, WorkersOK
  <1>5. CASE Set(c, [call[c] EXCEPT !.parts = @ \cup {i}, !.worker[k] = @ + uploadConcurrency])
    <2> DEFINE worker == [now.worker EXCEPT ![k] = i + U]
               parts == now.parts \cup {i}
               next == [now EXCEPT !.parts = parts, !.worker = worker]
    <2>1. call' = [call EXCEPT ![c] = next]
      BY <1>5 DEF Set
    <2>2. worker \in [Workers -> Nat] /\ parts \subseteq 0..(n - 1) /\ parts \subseteq Nat
      BY <1>2, <1>3, <1>4 DEF WorkersOK
    <2>3. ASSUME NEW j \in Workers
          PROVE  /\ worker[j] % U = j
                 /\ \A x \in 0..(n - 1) : x % U = j /\ x < worker[j] => x \in parts
      <3>1. CASE j # k
        BY <1>4, <3>1 DEF WorkersOK
      <3>2. CASE j = k
        <4>1. worker[k] = i + U /\ (i + U) % U = k
          BY <1>3, <1>4, NextOfWorker DEF WorkersOK
        <4>2. ASSUME NEW x \in 0..(n - 1), x % U = k, x < i + U
              PROVE  x \in parts
          <5>1. x \in Nat
            BY <1>3
          <5>2. CASE x < i
            BY <1>4, <4>2, <5>2 DEF WorkersOK
          <5>3. CASE i <= x
            BY <1>3, <1>4, <4>2, <5>1, <5>3, SameWorker
          <5> QED BY <1>4, <5>1, <5>2, <5>3
        <4> QED BY <3>2, <4>1, <4>2
      <3> QED BY <3>1, <3>2
    <2> HIDE DEF worker, parts
    <2>4. next \in CallState
      BY <1>1, <2>2 DEF CallState
    <2>5. /\ next.size = now.size /\ next.pc = "upload" /\ next.parts = parts
          /\ next.worker = worker /\ next.attempt = now.attempt
      BY <1>1 DEF CallState
    <2> HIDE DEF next
    <2>6. call'[c] = next
      BY <2>1, CallIs
    <2>7. WorkersOK(next)
      BY <2>2, <2>3, <2>5 DEF WorkersOK
    <2>8. CallOK(c)'
      BY <1>1, <1>2, <2>5, <2>6, <2>7 DEF CallOK, UploadsOK, Upload, ProgressOK
    <2> QED BY <1>2, <2>1, <2>4, <2>5, <2>8, LocalStep
  <1>6. CASE Set(c, [call[c] EXCEPT !.failed = TRUE])
    <2> DEFINE next == [now EXCEPT !.failed = TRUE]
    <2>1. call' = [call EXCEPT ![c] = next]
      BY <1>6 DEF Set
    <2>2. /\ next \in CallState /\ next.size = now.size /\ next.pc = now.pc
          /\ next.worker = now.worker /\ next.parts = now.parts /\ next.attempt = now.attempt
      BY <1>1 DEF CallState
    <2> HIDE DEF next
    <2>3. call'[c] = next
      BY <2>1, CallIs
    <2>4. CallOK(c)'
      BY <1>1, <1>2, <2>2, <2>3 DEF CallOK, UploadsOK, Upload, ProgressOK, WorkersOK
    <2> QED BY <1>2, <2>1, <2>2, <2>4, LocalStep
  <1> QED BY <1>5, <1>6 DEF UploadPart

\* The workers have ended: all parts are there unless one failed or was cancelled.
LEMMA JoinStep ==
  ASSUME S3Inv, NEW c \in Calls, JoinWorkers(c)
  PROVE  S3Inv'
  <1> DEFINE now == call[c]
             n == PartCount(now.size)
             U == uploadConcurrency
  <1>1. now \in CallState /\ CallOK(c) /\ now.pc = "upload"
    BY CallIs DEF JoinWorkers
  <1>2. UNCHANGED <<object, uploads, late, answer>>
    BY DEF JoinWorkers
  <1>3. n \in Nat /\ U \in Nat \ {0} /\ WorkersOK(now)
    BY <1>1, InParts, S3Assumption DEF CallOK, ProgressOK
  <1>4. CASE UploadFailed(now)
    <2> DEFINE next == [now EXCEPT !.pc = "abort", !.err = "error", !.retry = FALSE]
    <2>1. call' = [call EXCEPT ![c] = next]
      BY <1>4 DEF JoinWorkers, Set
    <2>2. next \in CallState
      BY <1>1 DEF CallState, Stages
    <2>3. /\ next.size = now.size /\ next.pc = "abort"
          /\ next.err = "error" /\ next.attempt = now.attempt
      BY <1>1 DEF CallState
    <2> HIDE DEF next
    <2>4. call'[c] = next
      BY <2>1, CallIs
    <2>5. CallOK(c)'
      BY <1>1, <1>2, <2>3, <2>4 DEF CallOK, UploadsOK, Upload, ProgressOK, None
    <2> QED BY <1>2, <2>1, <2>2, <2>3, <2>5, LocalStep
  <1>5. CASE ~UploadFailed(now)
    <2> DEFINE next == [now EXCEPT !.pc = "complete"]
    <2>1. call' = [call EXCEPT ![c] = next]
      BY <1>5 DEF JoinWorkers, Set
    <2>2. next \in CallState
      BY <1>1 DEF CallState, Stages
    <2>3. /\ next.size = now.size /\ next.pc = "complete"
          /\ next.parts = now.parts /\ next.attempt = now.attempt
      BY <1>1 DEF CallState
    <2> HIDE DEF next
    <2>4. call'[c] = next
      BY <2>1, CallIs
    <2>5. \A k \in Workers : now.worker[k] >= n
      BY <1>3, <1>5 DEF JoinWorkers, UploadFailed, WorkersOK
    <2>6. ASSUME NEW i \in 0..(n - 1)
          PROVE  i \in now.parts
      <3>1. i \in Nat /\ i < n /\ i % U \in Workers
        BY <1>3, Division DEF Workers
      <3>2. i < now.worker[i % U]
        BY <1>3, <2>5, <3>1 DEF WorkersOK
      <3> QED BY <1>3, <3>1, <3>2 DEF WorkersOK
    <2>7. now.parts = 0..(n - 1)
      BY <1>3, <2>6 DEF WorkersOK
    <2>8. CallOK(c)'
      BY <1>1, <1>2, <2>3, <2>4, <2>7 DEF CallOK, UploadsOK, Upload, ProgressOK
    <2> QED BY <1>2, <2>1, <2>2, <2>3, <2>8, LocalStep
  <1> QED BY <1>4, <1>5

\* What a call is told about its conditional request.
LEMMA CreateErrIs ==
  ASSUME NEW resp \in {"ok", "412", "409", "error"}
  PROVE  /\ createErr(resp) \in {"ok", "exists", "error"}
         /\ createErr(resp) = "ok" <=> resp = "ok"
         /\ createErr(resp) = "exists" <=> resp = "412"
  BY DEF createErr

\* A value that is not uploaded in parts.
LEMMA PutStep ==
  ASSUME S3Inv, NEW c \in Calls, PutObject(c)
  PROVE  S3Inv'
  <1> DEFINE now == call[c]
             bytes == 0..(now.size - 1)
  <1>1. now \in CallState /\ CallOK(c) /\ now.pc = "put"
    BY CallIs DEF PutObject
  <1>2. Whole(c, bytes)
    BY <1>1 DEF Whole, CallOK, ProgressOK
  <1>3. PICK resp \in {"ok", "412", "409", "error"} :
          /\ Send([by |-> c, upload |-> NoUpload, bytes |-> bytes], resp)
          /\ IF resp = "409" /\ RetriesLeft(c)
             THEN Goto(c, "wait") /\ answer' = answer
             ELSE Return(c, createErr(resp))
    BY DEF PutObject
  <1> HIDE DEF bytes
  <1>4. /\ Published(c, bytes) /\ uploads' \subseteq uploads
        /\ \A req \in late' : Whole(req.by, req.bytes)
    BY <1>2, <1>3, SendOK
  <1>5. \A u \in uploads' : ~Told(c, u)
    BY <1>1, <1>4 DEF CallOK, UploadsOK
  <1>6. PICK stage \in {"wait", "done"} :
          /\ call' = [call EXCEPT ![c] = [now EXCEPT !.pc = stage]]
          /\ stage = "wait" => answer' = answer
          /\ answer' = answer \/ \E a \in {"ok", "exists", "error"} : answer' = [answer EXCEPT ![c] = a]
    BY <1>3, CreateErrIs DEF Goto, Set, Return
  <1> DEFINE next == [now EXCEPT !.pc = stage]
  <1>7. next \in CallState
    BY <1>1 DEF CallState, Stages
  <1>8. next.size = now.size /\ next.pc = stage
    BY <1>1 DEF CallState
  <1> HIDE DEF next
  <1>9. call' = [call EXCEPT ![c] = next] /\ call'[c] = next
    BY <1>6, CallIs DEF next
  <1>10. CallOK(c)'
    BY <1>1, <1>5, <1>6, <1>8, <1>9 DEF CallOK, UploadsOK, ProgressOK
  <1>11. /\ answer' \in [Calls -> {None, "ok", "exists", "error"}]
         /\ \A d \in Calls \ {c} : answer'[d] = answer[d]
    BY <1>6 DEF S3Inv, S3TypeOK
  <1> QED BY <1>2, <1>4, <1>7, <1>8, <1>9, <1>10, <1>11, CallStep

\* The completion of an upload sends all parts.
LEMMA CompleteIs ==
  ASSUME S3Inv, NEW c \in Calls, CompleteMultipartUpload(c)
  PROVE  /\ call[c] \in CallState /\ CallOK(c) /\ call[c].pc = "complete"
         /\ \E bytes : \E resp \in {"ok", "412", "409", "error"} :
              /\ Whole(c, bytes)
              /\ Send([by |-> c, upload |-> Upload(c), bytes |-> bytes], resp)
              /\ IF resp = "ok"
                 THEN Return(c, "ok")
                 ELSE /\ Set(c, [call[c] EXCEPT !.pc = "abort", !.retry = (resp = "409"),
                                                !.err = createErr(resp)])
                      /\ answer' = answer
  <1> DEFINE now == call[c]
             bytes == UNION {PartBytes(now.size, i) : i \in now.parts}
  <1>1. now \in CallState /\ CallOK(c) /\ now.pc = "complete"
    BY CallIs DEF CompleteMultipartUpload
  <1>2. now.parts = 0..(PartCount(now.size) - 1) /\ Divided(now.size) /\ Admitted(now.size)
    BY <1>1, InParts DEF CallOK, ProgressOK
  <1>3. bytes = 0..(now.size - 1)
    BY <1>2, PartsAreTheValue
  <1>4. Whole(c, bytes)
    BY <1>2, <1>3 DEF Whole
  <1> HIDE DEF bytes
  <1> QED BY <1>1, <1>4 DEF CompleteMultipartUpload, bytes

\* The completion succeeds, or the upload is to be aborted.
LEMMA CompleteStep ==
  ASSUME S3Inv, NEW c \in Calls, CompleteMultipartUpload(c)
  PROVE  S3Inv'
  <1> DEFINE now == call[c]
  <1>1. now \in CallState /\ CallOK(c) /\ now.pc = "complete"
    BY CompleteIs
  <1>2. PICK bytes : \E resp \in {"ok", "412", "409", "error"} :
              /\ Whole(c, bytes)
              /\ Send([by |-> c, upload |-> Upload(c), bytes |-> bytes], resp)
              /\ IF resp = "ok"
                 THEN Return(c, "ok")
                 ELSE /\ Set(c, [call[c] EXCEPT !.pc = "abort", !.retry = (resp = "409"),
                                                !.err = createErr(resp)])
                      /\ answer' = answer
    BY CompleteIs, Zenon
  <1>3. PICK resp \in {"ok", "412", "409", "error"} :
              /\ Whole(c, bytes)
              /\ Send([by |-> c, upload |-> Upload(c), bytes |-> bytes], resp)
              /\ IF resp = "ok"
                 THEN Return(c, "ok")
                 ELSE /\ Set(c, [call[c] EXCEPT !.pc = "abort", !.retry = (resp = "409"),
                                                !.err = createErr(resp)])
                      /\ answer' = answer
    BY <1>2, Zenon
  <1>4. /\ Published(c, bytes) /\ uploads' \subseteq uploads
        /\ \A req \in late' : Whole(req.by, req.bytes)
        /\ resp = "ok" => uploads' = uploads \ {Upload(c)}
        /\ resp = "412" => object' # Absent
    BY <1>3, SendOK
  <1>5. CASE resp = "ok"
    <2> DEFINE next == [now EXCEPT !.pc = "done"]
    <2>1. call' = [call EXCEPT ![c] = next] /\ answer' = [answer EXCEPT ![c] = "ok"]
      BY <1>3, <1>5 DEF Return, Goto, Set
    <2>2. next \in CallState
      BY <1>1 DEF CallState, Stages
    <2>3. next.size = now.size /\ next.pc = "done"
      BY <1>1 DEF CallState
    <2> HIDE DEF next
    <2>4. call'[c] = next
      BY <2>1, CallIs
    <2>5. \A u \in uploads' : ~Told(c, u)
      BY <1>1, <1>4, <1>5 DEF CallOK, UploadsOK
    <2>6. CallOK(c)'
      BY <2>3, <2>4, <2>5 DEF CallOK, UploadsOK, ProgressOK
    <2>7. /\ answer' \in [Calls -> {None, "ok", "exists", "error"}]
          /\ \A d \in Calls \ {c} : answer'[d] = answer[d]
      BY <2>1 DEF S3Inv, S3TypeOK
    <2> QED BY <1>3, <1>4, <2>1, <2>2, <2>3, <2>6, <2>7, CallStep
  <1>6. CASE resp # "ok"
    <2> DEFINE next == [now EXCEPT !.pc = "abort", !.retry = (resp = "409"), !.err = createErr(resp)]
    <2>1. call' = [call EXCEPT ![c] = next] /\ answer' = answer
      BY <1>3, <1>6 DEF Set
    <2>2. createErr(resp) \in {"exists", "error"} /\ (createErr(resp) = "exists" <=> resp = "412")
      BY <1>6, CreateErrIs
    <2>3. next \in CallState
      BY <1>1, <2>2 DEF CallState, Stages
    <2>4. /\ next.size = now.size /\ next.pc = "abort" /\ next.err = createErr(resp)
          /\ next.attempt = now.attempt
      BY <1>1 DEF CallState
    <2> HIDE DEF next
    <2>5. call'[c] = next
      BY <2>1, CallIs
    <2>6. UploadsOK(c)'
      BY <1>1, <1>4, <2>4, <2>5 DEF CallOK, UploadsOK, Upload
    <2>7. CallOK(c)'
      BY <1>1, <1>4, <2>1, <2>2, <2>4, <2>5, <2>6 DEF CallOK, ProgressOK, None
    <2>8. /\ answer' \in [Calls -> {None, "ok", "exists", "error"}]
          /\ \A d \in Calls \ {c} : answer'[d] = answer[d]
      BY <2>1 DEF S3Inv, S3TypeOK
    <2> QED BY <1>3, <1>4, <2>1, <2>3, <2>4, <2>7, <2>8, CallStep
  <1> QED BY <1>5, <1>6

\* The deferred abort removes the upload, or its failure is reported.
LEMMA AbortStep ==
  ASSUME S3Inv, NEW c \in Calls, AbortMultipartUpload(c)
  PROVE  S3Inv'
  <1> DEFINE now == call[c]
  <1>1. now \in CallState /\ CallOK(c) /\ now.pc = "abort" /\ UNCHANGED <<object, late>>
    BY CallIs DEF AbortMultipartUpload
  <1>2. PICK aborted \in BOOLEAN, again \in BOOLEAN :
          /\ again => aborted
          /\ uploads' \subseteq uploads /\ (aborted => uploads' = uploads \ {Upload(c)})
          /\ call' = [call EXCEPT ![c] = [now EXCEPT !.pc = IF again THEN "wait" ELSE "done",
                                                     !.reported = ~aborted]]
          /\ answer' = IF again THEN answer ELSE [answer EXCEPT ![c] = now.err]
    <2>1. PICK aborted \in BOOLEAN :
            /\ uploads' \in IF aborted THEN {uploads \ {Upload(c)}} ELSE {uploads, uploads \ {Upload(c)}}
            /\ LET again == RetryAfterAbort(now, aborted) /\ RetriesLeft(c)
               IN /\ Set(c, [now EXCEPT !.pc = IF again THEN "wait" ELSE "done", !.reported = ~aborted])
                  /\ answer' = IF again THEN answer ELSE [answer EXCEPT ![c] = now.err]
      BY DEF AbortMultipartUpload
    <2> DEFINE again == RetryAfterAbort(now, aborted) /\ RetriesLeft(c)
    <2>2. again \in BOOLEAN /\ (again => aborted)
      BY DEF RetryAfterAbort
    <2> HIDE DEF again
    <2>3. /\ call' = [call EXCEPT ![c] = [now EXCEPT !.pc = IF again THEN "wait" ELSE "done",
                                                     !.reported = ~aborted]]
          /\ answer' = IF again THEN answer ELSE [answer EXCEPT ![c] = now.err]
      BY <2>1 DEF again, Set
    <2> QED BY <2>1, <2>2, <2>3
  <1> DEFINE next == [now EXCEPT !.pc = IF again THEN "wait" ELSE "done", !.reported = ~aborted]
  <1>3. next \in CallState
    BY <1>1 DEF CallState, Stages
  <1>4. /\ next.size = now.size /\ next.pc = (IF again THEN "wait" ELSE "done")
        /\ next.reported = ~aborted /\ next.attempt = now.attempt
    BY <1>1 DEF CallState
  <1> HIDE DEF next
  <1>5. call' = [call EXCEPT ![c] = next] /\ call'[c] = next
    BY <1>2, CallIs DEF next
  <1>6. now.err \in {"exists", "error"}
    BY <1>1 DEF CallOK, CallState
  <1>7. ~again => answer'[c] = now.err
    BY <1>2, CallIs
  <1>8. UploadsOK(c)'
    <2>1. CASE aborted
      BY <1>1, <1>2, <2>1 DEF CallOK, UploadsOK
    <2>2. CASE ~aborted
      BY <1>1, <1>2, <1>4, <1>5, <1>6, <1>7, <2>2 DEF CallOK, UploadsOK, Upload
    <2> QED BY <2>1, <2>2
  <1>9. CallOK(c)'
    BY <1>1, <1>2, <1>4, <1>5, <1>8 DEF CallOK, ProgressOK
  <1> QED BY <1>1, <1>2, <1>3, <1>4, <1>5, <1>6, <1>9, LocalStep

-----------------------------------------------------------------------------
(* The theorems.                                                           *)

\* The invariant holds at first.
LEMMA S3InvInit == S3Init => S3Inv
  <1> SUFFICES ASSUME S3Init PROVE S3Inv
    OBVIOUS
  <1>1. S3TypeOK
    <2>1. call \in [Calls -> CallState]
      <3> DEFINE S == [pc : {"start"}, size : Sizes, attempt : {0}, worker : {<<>>}, parts : {{}},
                       failed : {FALSE}, err : {None}, retry : {FALSE},
                       cancelled : {FALSE}, reported : {FALSE}]
      <3>1. ASSUME NEW s \in S
            PROVE  s \in CallState
        <4>1. /\ s.size \in Sizes
              /\ s = [pc |-> "start", size |-> s.size, attempt |-> 0, worker |-> <<>>, parts |-> {},
                      failed |-> FALSE, err |-> None, retry |-> FALSE,
                      cancelled |-> FALSE, reported |-> FALSE]
          OBVIOUS
        <4>2. {} \in SUBSET Nat /\ <<>> \in {<<>>} \cup [Workers -> Nat] /\ 0 \in Nat
              /\ "start" \in Stages /\ FALSE \in BOOLEAN /\ None \in {None, "exists", "error"}
          BY DEF Stages
        <4> QED BY <4>1, <4>2 DEF CallState
      <3> QED BY <3>1 DEF S3Init
    <2> QED BY <2>1 DEF S3Init, S3TypeOK
  <1>2. \A c \in Calls : call[c].pc = "start"
    BY DEF S3Init
  <1> QED BY <1>1, <1>2 DEF S3Init, S3Inv, CallOK, UploadsOK, ProgressOK

\* Every step keeps it.
LEMMA S3InvNext == S3Inv /\ [S3Next]_s3Vars => S3Inv'
  <1> SUFFICES ASSUME S3Inv, [S3Next]_s3Vars PROVE S3Inv'
    OBVIOUS
  <1>1. CASE UNCHANGED s3Vars
    BY <1>1 DEF s3Vars, S3Inv, S3TypeOK, CallOK, UploadsOK, Upload, Whole
  <1>2. CASE Land
    BY <1>2, LandStep
  <1>3. ASSUME NEW c \in Calls, Step(c) \/ Cancel(c)
        PROVE  S3Inv'
    BY <1>3, StartStep, CancelStep, PutStep, WaitStep, InitiateStep, JoinStep, CompleteStep,
       AbortStep, UploadPartStep DEF Step, Workers
  <1> QED BY <1>1, <1>2, <1>3 DEF S3Next

\* The invariant holds in every reachable state.
LEMMA S3Invariant == S3Spec => []S3Inv
  BY S3InvInit, S3InvNext, PTL DEF S3Spec

\* What is published is the complete value of a call, in parts within S3's limits, for
\* any number of workers, whatever fails or is cancelled and whatever lands late.
THEOREM S3ObjectIsWhole == S3Spec => []ObjectIsWhole
  <1>1. S3Inv => ObjectIsWhole
    <2> SUFFICES ASSUME S3Inv, object # Absent PROVE ObjectIsWhole
      BY DEF ObjectIsWhole
    <2> DEFINE size == call[object.by].size
               n == PartCount(size)
    <2>1. Whole(object.by, object.bytes)
      BY DEF S3Inv
    <2>2. size \in Nat /\ object.bytes = 0..(size - 1) /\ Admitted(size)
      BY <2>1, S3Assumption DEF Whole, S3Inv, S3TypeOK, CallState
    <2>3. ASSUME size > multipartThreshold
          PROVE  /\ n <= maxParts
                 /\ \A i \in 0..(n - 1) :
                      Cardinality(PartBytes(size, i)) \in (IF i = n - 1 THEN 1 ELSE minPartSize)..maxPartSize
      <3>1. Divided(size)
        BY <2>2, <2>3, S3Assumption DEF Divided, Admitted
      <3> HIDE DEF size
      <3>2. n <= maxParts
        BY <3>1, PartCountOK, S3Assumption
      <3> QED BY <3>1, <3>2, PartLengths
    <2> QED BY <2>2, <2>3 DEF ObjectIsWhole
  <1> QED BY <1>1, S3Invariant, PTL

\* A call never has two uploads alive whose IDs it was told, and one of them that it leaves
\* behind is one whose failed abort its error reports, although answers to
\* initiations are lost and the requests repeated.
THEOREM S3UploadsAreCleanedUp == S3Spec => []UploadsAreCleanedUp
  <1>1. S3Inv => UploadsAreCleanedUp
    <2> SUFFICES ASSUME S3Inv, NEW c \in Calls
                 PROVE  LET told == {u \in uploads : u[1] = c} \ {Stranded(c)}
                        IN /\ Cardinality(told) <= 1
                           /\ answer[c] # None /\ told # {} => call[c].reported /\ answer[c] # "ok"
      BY DEF UploadsAreCleanedUp
    <2> DEFINE told == {u \in uploads : u[1] = c} \ {Stranded(c)}
    <2>0. \A u \in told : u \in uploads /\ Told(c, u)
      BY DEF Told
    <2>1. told = {} \/ told = {Upload(c)}
      BY <2>0 DEF S3Inv, CallOK, UploadsOK
    <2>2. Cardinality(told) <= 1
      <3> HIDE DEF told
      <3>1. Cardinality({}) = 0 /\ Cardinality({Upload(c)}) = 1
        BY FS_EmptySet, FS_Singleton, Zenon
      <3> QED BY <2>1, <3>1
    <2>3. answer[c] # None /\ told # {} => call[c].reported /\ answer[c] # "ok"
      BY <2>0 DEF S3Inv, CallOK, UploadsOK
    <2> QED BY <2>2, <2>3
  <1> QED BY <1>1, S3Invariant, PTL

\* A step of the adapter as a call of the contract: the holder stays, or there was
\* none and a call becomes it, and at most one answer is given, which is true.
LEMMA ContractStep ==
  ASSUME NEW c \in Calls,
         object'.by = object.by \/ (object.by = None /\ object'.by = c),
         \/ answer' = answer
         \/ \E a \in {"ok", "exists", "error"} :
               /\ answer[c] = None
               /\ a = "ok" => object'.by = c
               /\ a = "exists" => object'.by # None
               /\ answer' = [answer EXCEPT ![c] = a]
  PROVE  Contract!ContractNext
  <1> DEFINE h == [k \in {Key} |-> object.by]
             keyOf == [x \in Calls |-> Key]
  <1>1. keyOf[c] = Key /\ h[Key] = object.by /\ h'[Key] = object'.by
    OBVIOUS
  <1>2. UNCHANGED h \/ (h[keyOf[c]] = None /\ h' = [h EXCEPT ![keyOf[c]] = c])
    BY <1>1
  <1>3. Contract!Publish(c) \/ UNCHANGED h
    BY <1>2 DEF Contract!Publish
  <1>4. (\E a \in {"ok", "exists", "error"} : Contract!Return(c, a)) \/ UNCHANGED answer
    <2>1. ASSUME NEW a \in {"ok", "exists", "error"}, answer[c] = None,
                 a = "ok" => object'.by = c, a = "exists" => object'.by # None,
                 answer' = [answer EXCEPT ![c] = a]
          PROVE  Contract!Return(c, a)
      BY <1>1, <2>1 DEF Contract!Return
    <2> QED BY <2>1
  <1> QED BY <1>3, <1>4 DEF Contract!ContractNext

\* An object is absent when it is nobody's.
LEMMA ByNone ==
  ASSUME S3Inv
  PROVE  /\ object = Absent <=> object.by = None
         /\ \A c, bytes : Published(c, bytes) =>
               object'.by = object.by \/ (object.by = None /\ object'.by = c)
  BY S3Assumption DEF S3Inv, S3TypeOK, Absent, Published

\* A conditional request and what the call is told about it.
LEMMA PutRefines ==
  ASSUME S3Inv, S3Inv', NEW c \in Calls, PutObject(c)
  PROVE  Contract!ContractNext
  <1> DEFINE now == call[c]
             bytes == 0..(now.size - 1)
  <1>1. now \in CallState /\ CallOK(c) /\ now.pc = "put"
    BY CallIs DEF PutObject
  <1>2. Whole(c, bytes) /\ answer[c] = None
    BY <1>1 DEF Whole, CallOK, ProgressOK
  <1>3. PICK resp \in {"ok", "412", "409", "error"} :
          /\ Send([by |-> c, upload |-> NoUpload, bytes |-> bytes], resp)
          /\ answer' = answer \/ answer' = [answer EXCEPT ![c] = createErr(resp)]
    BY DEF PutObject, Return
  <1> HIDE DEF bytes
  <1>4. /\ Published(c, bytes)
        /\ resp = "ok" => object' = [by |-> c, bytes |-> bytes]
        /\ resp = "412" => object' # Absent
    BY <1>2, <1>3, SendOK
  <1>5. object'.by = object.by \/ (object.by = None /\ object'.by = c)
    BY <1>4, ByNone
  <1>6. object' # Absent => object'.by # None
    BY S3Assumption DEF S3Inv, S3TypeOK, Absent
  <1>7. /\ createErr(resp) \in {"ok", "exists", "error"}
        /\ createErr(resp) = "ok" => object'.by = c
        /\ createErr(resp) = "exists" => object'.by # None
    BY <1>4, <1>6, CreateErrIs
  <1> QED BY <1>2, <1>3, <1>5, <1>7, ContractStep

\* The completion publishes the object; nil is returned to the call whose it is.
LEMMA CompleteRefines ==
  ASSUME S3Inv, S3Inv', NEW c \in Calls, CompleteMultipartUpload(c)
  PROVE  Contract!ContractNext
  <1>1. answer[c] = None
    BY CompleteIs DEF CallOK
  <1>2. PICK bytes : \E resp \in {"ok", "412", "409", "error"} :
              /\ Whole(c, bytes)
              /\ Send([by |-> c, upload |-> Upload(c), bytes |-> bytes], resp)
              /\ answer' = IF resp = "ok" THEN [answer EXCEPT ![c] = "ok"] ELSE answer
    BY CompleteIs DEF Return
  <1>3. PICK resp \in {"ok", "412", "409", "error"} :
              /\ Whole(c, bytes)
              /\ Send([by |-> c, upload |-> Upload(c), bytes |-> bytes], resp)
              /\ answer' = IF resp = "ok" THEN [answer EXCEPT ![c] = "ok"] ELSE answer
    BY <1>2
  <1>4. Published(c, bytes) /\ (resp = "ok" => object' = [by |-> c, bytes |-> bytes])
    BY <1>3, SendOK
  <1>5. object'.by = object.by \/ (object.by = None /\ object'.by = c)
    BY <1>4, ByNone
  <1>6. CASE resp = "ok"
    <2>1. object'.by = c
      BY <1>4, <1>6
    <2> QED BY <1>1, <1>3, <1>5, <1>6, <2>1, ContractStep
  <1>7. CASE resp # "ok"
    BY <1>3, <1>5, <1>7, ContractStep
  <1> QED BY <1>6, <1>7

\* All other steps of a call publish nothing, and return what they know.
LEMMA QuietRefines ==
  ASSUME S3Inv, NEW c \in Calls, object' = object,
         \/ answer' = answer
         \/ answer' = [answer EXCEPT ![c] = "error"] /\ call[c].pc # "done"
         \/ answer' = [answer EXCEPT ![c] = call[c].err] /\ call[c].pc = "abort"
  PROVE  Contract!ContractNext
  <1>1. call[c].pc # "done" => answer[c] = None
    BY CallIs DEF CallOK
  <1>2. call[c].pc = "abort" => /\ call[c].err \in {"exists", "error"}
                                /\ call[c].err = "exists" => object'.by # None
    BY CallIs, ByNone DEF CallOK, CallState
  <1> QED BY <1>1, <1>2, ContractStep

\* A request that lands publishes the value of a call that has returned.
LEMMA LandRefines ==
  ASSUME S3Inv, Land
  PROVE  Contract!ContractNext
  <1>1. PICK req \in late : /\ TakeEffect(req) \/ UNCHANGED object
                            /\ UNCHANGED answer
    BY DEF Land
  <1>2. req.by \in Calls
    BY DEF S3Inv, Whole
  <1>3. Published(req.by, req.bytes)
    BY <1>1 DEF TakeEffect, CanTakeEffect, Published
  <1>4. object'.by = object.by \/ (object.by = None /\ object'.by = req.by)
    BY <1>3, ByNone
  <1> QED BY <1>1, <1>2, <1>4, ContractStep

\* To its callers an s3store keeps the contract of a store: calls that race for the
\* key by either kind of upload have one winner for good, nil is returned to it only,
\* and ErrExists only when there is one.
THEOREM S3ImplementsContract == S3Spec => ImplementsContract
  <1> DEFINE h == [k \in {Key} |-> object.by]
  <1>1. S3Init => Contract!ContractInit
    <2>1. {[d \in Calls |-> Key][c] : c \in Calls} = {Key}
      BY S3Assumption
    <2> QED BY <2>1 DEF S3Init, Contract!ContractInit, Absent
  <1>2. S3Inv /\ S3Inv' /\ [S3Next]_s3Vars => [Contract!ContractNext]_<<h, answer>>
    <2> SUFFICES ASSUME S3Inv, S3Inv', [S3Next]_s3Vars
                 PROVE  [Contract!ContractNext]_<<h, answer>>
      OBVIOUS
    <2>1. CASE UNCHANGED s3Vars
      BY <2>1 DEF s3Vars
    <2>2. CASE Land
      BY <2>2, LandRefines
    <2>3. ASSUME NEW c \in Calls, PutObject(c) \/ CompleteMultipartUpload(c)
          PROVE  Contract!ContractNext
      BY <2>3, PutRefines, CompleteRefines
    <2>4. ASSUME NEW c \in Calls,
                 \/ Start(c) \/ ReturnCancelled(c) \/ waitConflict(c) \/ CreateMultipartUpload(c)
                 \/ JoinWorkers(c) \/ Cancel(c) \/ \E k \in Workers : UploadPart(c, k)
          PROVE  Contract!ContractNext
      <3>1. /\ object' = object
            /\ \/ answer' = answer
               \/ answer' = [answer EXCEPT ![c] = "error"] /\ call[c].pc # "done"
        BY <2>4 DEF Start, ReturnCancelled, waitConflict, CreateMultipartUpload, JoinWorkers,
                    Cancel, UploadPart, Return
      <3> QED BY <3>1, QuietRefines
    <2>5. ASSUME NEW c \in Calls, AbortMultipartUpload(c)
          PROVE  Contract!ContractNext
      <3>1. /\ object' = object /\ call[c].pc = "abort"
            /\ answer' = answer \/ answer' = [answer EXCEPT ![c] = call[c].err]
        BY <2>5 DEF AbortMultipartUpload
      <3> QED BY <3>1, QuietRefines
    <2> QED BY <2>1, <2>2, <2>3, <2>4, <2>5 DEF S3Next, Step, Workers
  <1> QED BY <1>1, <1>2, S3Invariant, PTL DEF S3Spec, ImplementsContract, Contract!ContractSpec


-----------------------------------------------------------------------------
(* List.                                                                   *)

\* While List goes on with an honest server, the keys it has are the first of the
\* bucket as far as the token, but for those that were created behind it.
PagesOK ==
  /\ keys \in Seq(Keys) /\ Len(keys) < limit
  /\ Ascends(keys)
  /\ token = IF keys = <<>> THEN NoToken ELSE Last(keys)
  /\ \A k \in before : k <= token => k \in ToSet(keys)

ListInv ==
  /\ bucket \in SUBSET Keys /\ before \in SUBSET bucket
  /\ limit \in Nat \ {0} /\ honest \in BOOLEAN
  /\ honest /\ result = "none" => PagesOK
  /\ ListIsComplete

\* What an honest page for n keys consists of.
LEMMA PageFacts ==
  ASSUME NEW n \in Nat, NEW page \in HonestPages(n), bucket \in SUBSET Keys, token \in Nat
  PROVE  /\ page.keys \in Seq(Keys) /\ Len(page.keys) <= n
         /\ Ascends(page.keys)
         /\ \A k \in ToSet(page.keys) : k > token
         /\ \A k \in bucket : k > token =>
               \/ k \in ToSet(page.keys)
               \/ page.truncated /\ page.keys # <<>> /\ k > Last(page.keys)
         /\ page.truncated => page.keys # <<>>
         /\ page.token = IF page.keys = <<>> THEN NoToken ELSE Last(page.keys)
  <1> DEFINE rest == {k \in bucket : k > token}
             s == page.keys
  <1>1. /\ s \in BoundedSeq(rest, n)
        /\ Ascends(s)
        /\ \A p \in ToSet(s), k \in rest : k < p => k \in ToSet(s)
        /\ s = <<>> => rest = {}
        /\ page.truncated = (ToSet(s) # rest)
        /\ page.token = IF s = <<>> THEN NoToken ELSE Last(s)
    BY DEF HonestPages
  <1>2. PICK m \in 0..n : s \in [1..m -> rest]
    BY <1>1 DEF BoundedSeq, SeqOf
  <1>3. /\ s \in Seq(rest) /\ Len(s) = m /\ DOMAIN s = 1..m
        /\ s = <<>> <=> m = 0
    BY <1>2
  <1>4. rest \subseteq Keys /\ Keys \subseteq Int
    <2>1. Keys \subseteq Int
      BY DEF Keys
    <2> QED BY <2>1
  <1>5. s \in Seq(Keys) /\ Len(s) <= n
    BY <1>2, <1>3, <1>4
  <1>6. ToSet(s) \subseteq rest
    BY <1>2, <1>3 DEF ToSet
  <1>7. s = <<>> => ToSet(s) = rest
    BY <1>1, <1>6
  <1>8. s # <<>> => Last(s) \in ToSet(s)
    BY <1>3 DEF Last, ToSet
  <1>9. ASSUME NEW k \in rest, k \notin ToSet(s)
        PROVE  page.truncated /\ s # <<>> /\ k > Last(s)
    <2>1. page.truncated /\ s # <<>>
      BY <1>1, <1>9
    <2>2. Last(s) \in ToSet(s) /\ Last(s) \in Int /\ k \in Int
      BY <2>1, <1>8, <1>6, <1>4
    <2>3. ~(k < Last(s)) /\ k # Last(s)
      BY <2>2, <1>1, <1>9
    <2> QED BY <2>1, <2>2, <2>3
  <1> QED BY <1>1, <1>5, <1>6, <1>7, <1>9

\* Two ascending sequences, one after the other.
LEMMA AscendsConcat ==
  ASSUME NEW s \in Seq(Int), NEW t \in Seq(Int), Ascends(s), Ascends(t),
         s # <<>> => \A i \in DOMAIN t : t[i] > Last(s)
  PROVE  Ascends(s \o t)
  <1> DEFINE u == s \o t
             n == Len(s)
  <1>1. /\ \A i \in DOMAIN s : u[i] = s[i]
        /\ \A i \in DOMAIN u :
              /\ i \in Nat
              /\ i \in DOMAIN s \/ (i > n /\ i - n \in DOMAIN t /\ u[i] = t[i - n])
    BY ConcatPlaces
  <1>2. n \in Nat /\ DOMAIN s = 1..n /\ (s = <<>> <=> n = 0)
    OBVIOUS
  <1>3. (\A i \in DOMAIN s : s[i] \in Int) /\ (\A i \in DOMAIN t : t[i] \in Int)
    OBVIOUS
  <1>4. /\ \A i, j \in DOMAIN s : i < j => s[i] < s[j]
        /\ \A i, j \in DOMAIN t : i < j => t[i] < t[j]
    BY DEF Ascends
  <1>5. ASSUME NEW i \in DOMAIN s
        PROVE  s[i] <= Last(s) /\ Last(s) \in Int /\ s # <<>>
    <2>1. n \in DOMAIN s /\ s # <<>> /\ i \in Nat /\ (i < n \/ i = n)
      BY <1>2
    <2>2. s[n] \in Int /\ s[i] \in Int /\ (i < n => s[i] < s[n])
      BY <1>3, <1>4, <2>1
    <2> QED BY <2>1, <2>2 DEF Last
  <1> HIDE DEF u, n
  <1>6. ASSUME NEW i \in DOMAIN u, NEW j \in DOMAIN u, i < j
        PROVE  u[i] < u[j]
    <2>1. i \in Nat /\ j \in Nat
      BY <1>1
    <2>2. CASE j \in DOMAIN s
      <3>1. i \in DOMAIN s
        BY <1>1, <1>2, <1>6, <2>1, <2>2
      <3> QED BY <1>1, <1>4, <1>6, <2>2, <3>1
    <2>3. CASE i \in DOMAIN s /\ j - n \in DOMAIN t /\ u[j] = t[j - n]
      <3>1. PICK k \in DOMAIN t : k = j - n /\ u[j] = t[k]
        BY <2>3
      <3>2. t[k] > Last(s) /\ t[k] \in Int /\ s[i] \in Int
        BY <1>3, <1>5, <2>3, <3>1
      <3> QED BY <1>1, <1>5, <2>3, <3>1, <3>2
    <2>4. CASE /\ i - n \in DOMAIN t /\ u[i] = t[i - n]
               /\ j - n \in DOMAIN t /\ u[j] = t[j - n]
      <3>1. i - n < j - n
        BY <1>2, <1>6, <2>1
      <3> QED BY <1>4, <2>4, <3>1
    <2> QED BY <1>1, <2>2, <2>3, <2>4
  <1> QED BY <1>6 DEF Ascends, u

\* The elements of two sequences, one after the other.
LEMMA ToSetConcat ==
  ASSUME NEW S, NEW s \in Seq(S), NEW t \in Seq(S)
  PROVE  ToSet(s) \subseteq ToSet(s \o t) /\ ToSet(t) \subseteq ToSet(s \o t)
  <1>1. ASSUME NEW i \in 1..Len(s)
        PROVE  s[i] \in ToSet(s \o t)
    BY DEF ToSet
  <1>2. ASSUME NEW i \in 1..Len(t)
        PROVE  t[i] \in ToSet(s \o t)
    <2>1. t[i] = (s \o t)[Len(s) + i] /\ Len(s) + i \in DOMAIN (s \o t)
      OBVIOUS
    <2> QED BY <2>1 DEF ToSet
  <1>3. /\ \A x \in ToSet(s) : \E i \in 1..Len(s) : x = s[i]
        /\ \A x \in ToSet(t) : \E i \in 1..Len(t) : x = t[i]
    BY DEF ToSet
  <1> QED BY <1>1, <1>2, <1>3

\* A round of the loop with an honest server: its page is taken, and List ends with
\* all keys or goes on where the page ends.
LEMMA HonestRound ==
  ASSUME ListInv, honest, ListObjects
  PROVE  ListInv'
  <1>1. /\ result = "none" /\ PagesOK
        /\ UNCHANGED <<bucket, honest, limit, before>>
    BY DEF ListInv, ListObjects
  <1>2. CASE result' = "error" /\ UNCHANGED <<keys, token>>
    BY <1>1, <1>2 DEF ListInv, ListIsComplete
  <1>3. ASSUME NEW page \in HonestPages(Ask),
               LET all == keys \o page.keys
               IN \/ /\ Len(page.keys) > Ask \/ ~Ordered(all)
                     /\ result' = "corrupt"
                     /\ UNCHANGED <<keys, token>>
                  \/ /\ Len(page.keys) <= Ask /\ Ordered(all)
                     /\ keys' = all
                     /\ \/ /\ LastPage(page) \/ Len(all) = limit
                           /\ result' = "nil" /\ token' = token
                        \/ /\ ~LastPage(page) /\ Len(all) # limit
                           /\ IF Continuable(page)
                              THEN token' = page.token /\ result' = IF Len(all) < limit THEN "none" ELSE "nil"
                              ELSE token' = token /\ result' = "corrupt"
        PROVE  ListInv'
    <2> DEFINE s == page.keys
               all == keys \o s
    <2>0. \/ /\ Len(s) > Ask \/ ~Ordered(all)
             /\ result' = "corrupt"
          \/ /\ keys' = all
             /\ \/ /\ ~page.truncated \/ Len(all) = limit
                   /\ result' = "nil"
                \/ /\ page.truncated /\ Len(all) # limit
                   /\ IF Continuable(page)
                      THEN token' = page.token /\ result' = IF Len(all) < limit THEN "none" ELSE "nil"
                      ELSE result' = "corrupt"
      BY <1>3 DEF LastPage
    <2>1. /\ keys \in Seq(Int) /\ keys \in Seq(Keys) /\ Len(keys) \in Nat /\ Len(keys) < limit
          /\ limit \in Nat \ {0} /\ PageSize \in Nat \ {0}
          /\ keys = <<>> <=> Len(keys) = 0
      BY <1>1, ListAssumption DEF PagesOK, ListInv, Keys
    <2>2. Ask \in Nat \ {0} /\ Ask <= limit - Len(keys)
      BY <2>1, MinOfTwo DEF Ask
    <2>3. Keys \subseteq Int /\ (\A k \in Keys : 0 < k /\ k < Outside) /\ Outside \in Nat
      BY ListAssumption DEF Keys
    <2>4. /\ keys # <<>> => /\ token = Last(keys) /\ token = keys[Len(keys)] /\ token \in Keys
          /\ token \in Nat
      BY <1>1, <2>1, <2>3 DEF PagesOK, Last, NoToken
    <2>5. bucket \in SUBSET Keys /\ before \in SUBSET bucket
      BY DEF ListInv
    <2>6. /\ s \in Seq(Keys) /\ Len(s) <= Ask
          /\ Ascends(s)
          /\ \A k \in ToSet(s) : k > token
          /\ \A k \in bucket : k > token =>
                k \in ToSet(s) \/ (page.truncated /\ s # <<>> /\ k > Last(s))
          /\ page.truncated => s # <<>>
          /\ page.token = IF s = <<>> THEN NoToken ELSE Last(s)
      BY <2>2, <2>4, <2>5, PageFacts
    <2> HIDE DEF s
    <2>7. s \in Seq(Int) /\ Len(s) \in Nat /\ DOMAIN s = 1..Len(s) /\ (s = <<>> <=> Len(s) = 0)
      <3>1. s \in Seq(Keys) /\ Len(s) \in Nat /\ DOMAIN s = 1..Len(s)
        BY <2>6
      <3>2. \A i \in 1..Len(s) : s[i] \in Int
        <4>1. Keys \subseteq Int
          BY <2>3
        <4>2. \A i \in 1..Len(s) : s[i] \in Keys
          BY <3>1
        <4> QED BY <4>1, <4>2
      <3>3. s \in Seq(Int)
        BY <3>1, <3>2
      <3> QED BY <3>1, <3>3
    <2>8. \A i \in DOMAIN s : s[i] \in ToSet(s)
      BY <2>7 DEF ToSet
    <2>9. Ascends(all)
      <3>1. keys # <<>> => \A i \in DOMAIN s : s[i] > Last(keys)
        BY <2>4, <2>6, <2>8
      <3> QED BY <1>1, <2>1, <2>6, <2>7, <3>1, AscendsConcat DEF PagesOK
    <2>10. /\ all \in Seq(Keys) /\ Len(all) = Len(keys) + Len(s) /\ DOMAIN all = 1..Len(all)
           /\ \A i \in 1..Len(all) : all[i] \in Keys
      BY <2>1, <2>6, <2>7
    <2>11. s # <<>> => all # <<>> /\ Last(all) = Last(s) /\ Last(s) \in ToSet(s) /\ Last(s) \in Keys
      BY <2>1, <2>6, <2>7, <2>8, <2>10 DEF Last
    <2>12. s = <<>> => all = keys
      BY <2>1
    <2>13. ToSet(keys) \subseteq ToSet(all) /\ ToSet(s) \subseteq ToSet(all)
      BY <2>1, <2>6, ToSetConcat
    <2> HIDE DEF all
    <2>14. Ordered(all)
      <3> SUFFICES ASSUME NEW i \in 1..Len(all)
                   PROVE  all[i] < Outside /\ (i > 1 => all[i - 1] < all[i])
        BY <2>10 DEF Ordered
      <3>1. i > 1 => i - 1 \in DOMAIN all /\ i \in DOMAIN all /\ i - 1 < i
        BY <2>10
      <3> QED BY <2>3, <2>9, <2>10, <3>1 DEF Ascends
    <2>15. \A k \in before : \/ k \in ToSet(all)
                             \/ page.truncated /\ s # <<>> /\ k > Last(all)
      <3> TAKE k \in before
      <3>1. k \in bucket /\ k \in Int
        BY <2>5, <2>3
      <3>2. k <= token => k \in ToSet(keys)
        BY <1>1 DEF PagesOK
      <3> QED BY <2>4, <2>6, <2>11, <2>13, <3>1, <3>2
    <2>16. Len(all) <= limit
      BY <2>1, <2>2, <2>6, <2>7, <2>10
    <2>17. page.truncated => Continuable(page)
      <3> SUFFICES ASSUME page.truncated
                   PROVE  Continuable(page)
        OBVIOUS
      <3>1. s # <<>> /\ page.token = Last(s) /\ Last(s) > token /\ Last(s) \in Keys
        BY <2>6, <2>11
      <3> QED BY <2>3, <2>4, <3>1 DEF Continuable, NoToken, s
    <2>18. keys' = all
      <3>1. Ask \in Int /\ Len(s) \in Int /\ Len(s) <= Ask
        BY <2>2, <2>6, <2>7
      <3>2. ~(Len(s) > Ask)
        BY <3>1
      <3> QED BY <2>0, <2>14, <3>2
    <2>19. CASE result' = "nil"
      <3>1. ~page.truncated \/ Len(all) = limit
        BY <2>0, <2>1, <2>7, <2>10, <2>16, <2>17, <2>19
      <3>2. \A k \in before : k \in ToSet(all) \/ (Len(all) = limit /\ k > Last(all))
        BY <2>15, <3>1
      <3> QED BY <1>1, <2>1, <2>5, <2>18, <2>19, <3>2 DEF ListInv, ListIsComplete
    <2>20. CASE result' = "none" /\ page.truncated /\ token' = page.token /\ Len(all) < limit
      <3>1. s # <<>> /\ token' = Last(all) /\ all # <<>> /\ Last(all) \in Int
        BY <2>6, <2>11, <2>20, <2>3
      <3>2. \A k \in before : k <= token' => k \in ToSet(all)
        BY <2>15, <2>5, <2>3, <3>1
      <3>3. PagesOK'
        BY <1>1, <2>9, <2>10, <2>18, <2>20, <3>1, <3>2 DEF PagesOK
      <3> QED BY <1>1, <2>1, <2>5, <2>20, <3>3 DEF ListInv, ListIsComplete
    <2>21. result' = "nil" \/ (result' = "none" /\ page.truncated /\ token' = page.token /\ Len(all) < limit)
      <3>1. ~(Len(s) > Ask)
        BY <2>2, <2>6, <2>7
      <3> QED BY <2>0, <2>14, <2>17, <3>1
    <2> QED BY <2>19, <2>20, <2>21
  <1> QED BY <1>2, <1>3 DEF ListObjects

\* The invariant of List.
LEMMA ListInvariant == ListSpec => []ListInv
  <1>1. ListInit => ListInv
    <2> SUFFICES ASSUME ListInit
                 PROVE  ListInv
      OBVIOUS
    <2>1. limit \in Nat \ {0} /\ bucket \in SUBSET Keys /\ before = bucket
      BY ListAssumption DEF ListInit
    <2>2. \A k \in before : k > 0
      BY <2>1, ListAssumption DEF Keys
    <2>3. PagesOK
      BY <2>1, <2>2 DEF ListInit, PagesOK, Ascends, NoToken, Keys
    <2> QED BY <2>1, <2>3 DEF ListInit, ListInv, ListIsComplete
  <1>2. ListInv /\ [ListNext]_listVars => ListInv'
    <2> SUFFICES ASSUME ListInv, [ListNext]_listVars
                 PROVE  ListInv'
      OBVIOUS
    <2>1. CASE UNCHANGED listVars
      BY <2>1 DEF listVars, ListInv, ListIsComplete, PagesOK, Ascends
    <2>2. ASSUME NEW k \in Keys, CreateObject(k)
          PROVE  ListInv'
      BY <2>2 DEF CreateObject, ListInv, ListIsComplete, PagesOK, Ascends
    <2>3. CASE ListObjects /\ honest
      BY <2>3, HonestRound
    <2>4. CASE ListObjects /\ ~honest
      BY <2>4 DEF ListObjects, ListInv, ListIsComplete
    <2> QED BY <2>1, <2>2, <2>3, <2>4 DEF ListNext
  <1> QED BY <1>1, <1>2, PTL DEF ListSpec

\* For every bucket, limit and page size, however the bucket grows and however short
\* the pages are: List with an honest server ends with the first keys, none of those
\* that were there when it began left out, and never calls the server corrupt.
THEOREM S3ListIsComplete == ListSpec => []ListIsComplete
  <1>1. ListInv => ListIsComplete
    BY DEF ListInv
  <1> QED BY <1>1, ListInvariant, PTL

=============================================================================
