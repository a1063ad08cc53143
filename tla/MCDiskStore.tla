---------------------------- MODULE MCDiskStore -----------------------------
(***************************************************************************)
(* Instances of DiskStore.  Key 3 is long: its directory lies in that of   *)
(* key 2, and List meets it before key 4.                                  *)
(***************************************************************************)
EXTENDS DiskStore

CONSTANTS w1, w2

Tree == (1 :> 0) @@ (2 :> 1) @@ (3 :> 2) @@ (4 :> 1)

\* A full chunk has two bytes.
Paths == (1 :> <<>>) @@ (2 :> <<1, 1>>) @@ (3 :> <<1, 1, 2>>) @@ (4 :> <<2>>)

\* Every key, those of a part of a chunk, the long key below the shorter one, and the last.
SomePrefixes == {<<>>, <<1>>, <<1, 1, 2>>, <<2>>}

\* Two writers and a shared ancestor; w2 also meets w1's key.
Racing == (w1 :> <<3, 4>>) @@ (w2 :> <<4, 2>>)

\* A segment that both writers pack, and the commit of one of them.
SharedSegment == (w1 :> <<2>>) @@ (w2 :> <<2, 4>>)

=============================================================================
