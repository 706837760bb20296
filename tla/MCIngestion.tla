----------------------------- MODULE MCIngestion -----------------------------
(* Small instances of Ingestion for TLC: an x_api source and a feed, and two
   accounts, so that an edit of the source file changes the account. *)
EXTENDS Ingestion, TLC

CONSTANTS x, feed, c1, c2, a1, a2

MCXFeed    == {x, feed}
MCX        == {x}
MCConfs    == {c1, c2}
MCAccounts == {a1, a2}
MCAccount  == [c \in MCConfs |-> IF c = c1 THEN a1 ELSE a2]

\* The configurations are alike, as long as each keeps its account.
MCSymmetry == {c1 :> c2 @@ c2 :> c1 @@ a1 :> a2 @@ a2 :> a1}
=============================================================================
