------------------------------- MODULE S3List -------------------------------
(***************************************************************************)
(* s3store's List (s3store.go): pages of a bucket that grows while it is   *)
(* listed, or pages of a server that answers anything at all.              *)
(*                                                                         *)
(* A key is a number, in bytewise order; the keys below Outside begin with *)
(* the prefix.  A continuation token is the key the next page follows.     *)
(***************************************************************************)
EXTENDS Integers, SequencesExt, FiniteSetsExt

CONSTANTS
  Outside,  \* a key that does not begin with the prefix
  Limits,   \* arguments of List
  PageSize  \* the most keys of one request

NoToken == 0

\* List refuses a limit that is not positive (s3store.go:120), and asks for some keys.
ASSUME ListAssumption ==
  /\ Outside \in Nat
  /\ Limits \subseteq Nat \ {0}
  /\ PageSize \in Nat \ {0}

Keys == 1..(Outside - 1)

VARIABLES
  bucket,   \* the keys of the bucket
  honest,   \* whether the server keeps to the protocol of ListObjectsV2
  limit, keys, token,
  result,   \* "none" while List runs
  before    \* the keys of the bucket when List began, for the properties

listVars == <<bucket, honest, limit, keys, token, result, before>>

ListInit ==
  /\ bucket \in SUBSET Keys
  /\ honest \in BOOLEAN
  /\ limit \in Limits
  /\ keys = <<>> /\ token = NoToken
  /\ result = "none"
  /\ before = bucket

\* Another process creates an object.
CreateObject(k) ==
  /\ result = "none" /\ honest
  /\ bucket' = bucket \cup {k}
  /\ UNCHANGED <<honest, limit, keys, token, result, before>>

Ascends(seq) == \A i, j \in DOMAIN seq : i < j => seq[i] < seq[j]

\* What ListObjectsV2 answers to a request for n keys: the first ones after the
\* token, in order.  A page may be short, but it is only empty at the end.
HonestPages(n) ==
  LET rest == {k \in bucket : k > token}
  IN {page \in [keys : BoundedSeq(rest, n), truncated : BOOLEAN, token : rest \cup {NoToken}] :
        /\ Ascends(page.keys)
        /\ \A p \in ToSet(page.keys), k \in rest : k < p => k \in ToSet(page.keys)
        /\ page.keys = <<>> => rest = {}
        /\ page.truncated = (ToSet(page.keys) # rest)
        /\ page.token = IF page.keys = <<>> THEN NoToken ELSE Last(page.keys)}

AnyPages(n) ==
  [keys : BoundedSeq(1..Outside, n + 1), truncated : BOOLEAN, token : {NoToken, 1, 2}]

\* Keys have the prefix, and ascend within a page and from page to page.
Ordered(seq) == \A i \in DOMAIN seq : seq[i] < Outside /\ (i > 1 => seq[i - 1] < seq[i])

\* Mutant: a page without keys may be continued.
ContinuableEmpty(page) == page.token \notin {NoToken, token}

\* A page that claims to be continued has keys, and a token that is new.
Continuable(page) == page.keys # <<>> /\ page.token \notin {NoToken, token}

Ask == Min({limit - Len(keys), PageSize})

\* Mutant: a short page is taken for the last one.
LastPageShort(page) == Len(page.keys) < Ask

LastPage(page) == ~page.truncated

\* One round of the loop.
ListObjects ==
  /\ result = "none"
  /\ \/ /\ result' = "error"  \* of the request, or of the context
        /\ UNCHANGED <<keys, token>>
     \/ \E page \in IF honest THEN HonestPages(Ask) ELSE AnyPages(Ask) :
          LET all == keys \o page.keys
          IN \/ /\ Len(page.keys) > Ask \/ ~Ordered(all)
                /\ result' = "corrupt"
                /\ UNCHANGED <<keys, token>>
             \/ /\ Len(page.keys) <= Ask /\ Ordered(all)
                /\ keys' = all
                /\ \/ /\ LastPage(page) \/ Len(all) = limit
                      /\ result' = "nil" /\ token' = token
                   \/ /\ ~LastPage(page) /\ Len(all) # limit
                      /\ IF Continuable(page)
                         THEN token' = page.token /\ result' = IF Len(all) < limit THEN "none" ELSE "nil"
                         ELSE token' = token /\ result' = "corrupt"
  /\ UNCHANGED <<bucket, honest, limit, before>>

ListNext == ListObjects \/ \E k \in Keys : CreateObject(k)

\* Every request is answered.
ListSpec == ListInit /\ [][ListNext]_listVars /\ WF_listVars(ListObjects)

-----------------------------------------------------------------------------
\* An honest server is never called corrupt, and List passes over no key that was
\* in the bucket when it began, although the bucket grows between the pages and a
\* page may be short (store.go:33-37, s3store.go:125-150).
ListIsComplete ==
  honest => /\ result # "corrupt"
            /\ result = "nil" =>
                 \A k \in before : k \in ToSet(keys) \/ (Len(keys) = limit /\ k > Last(keys))

\* List returns, whatever the server answers: no sequence of pages keeps it going
\* for ever (s3store.go:146-149).
ListReturns == <>(result # "none")

=============================================================================
