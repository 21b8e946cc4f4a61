---------------------------- MODULE MCGuardians ----------------------------
(* Two providers of one Entropy contract, two holders, two guardians.      *)
EXTENDS Guardians

CONSTANTS alice, bob

MCAccounts == {alice, bob}
MCPairs == {"provider1", "provider2"}
Attested(t, e, p, v) == [token |-> t, epoch |-> e, payment |-> p, game |-> "race", score |-> e, victory |-> v, signer |-> "signer"]
\* Two results of one payment and one of an owner the token does not have yet.
MCResults == {Attested(1, 1, "pay1", FALSE), Attested(1, 2, "pay1", TRUE)}
\* The totals of the second week were attested too low in one lane.
MCHonors == {[token |-> 1, week |-> 1, lanes |-> [streak |-> 2, titles |-> 0], signer |-> "signer"],
             [token |-> 1, week |-> 2, lanes |-> [streak |-> 1, titles |-> 1], signer |-> "signer"]}
=============================================================================
