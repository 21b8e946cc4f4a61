------------------------ MODULE MCSettlementRecovery -------------------------
(* Small instances of the /settle path: two intents of one payer. *)
EXTENDS SettlementRecovery, TLC

CONSTANTS i1, i2, p1, c1, c2

MCPayerOf == (i1 :> p1) @@ (i2 :> p1)

\* Requests are interchangeable, and so are the two intents of one payer.
Interchangeable == Permutations({c1, c2}) \cup Permutations({i1, i2})
=============================================================================
