---------------------------- MODULE PaymentOnce ------------------------------
(***************************************************************************)
(* What the facilitator promises about a payment, with none of how: it is  *)
(* committed to, executed by the chain and accounted for, each at most     *)
(* once and in that order; and the one answer that may claim to be the     *)
(* settling one is given in the very step that accounts for it.            *)
(***************************************************************************)
CONSTANT Intents

VARIABLES
    stage,      \* how far each payment has come
    result,     \* what the chain made of it, once it has executed
    announced   \* whether an unmarked terminal answer was given for it

vars == <<stage, result, announced>>

Stage == {"unseen", "committed", "executed", "accounted"}
Outcome == {"settled", "settlement_reverted", "vendor_not_credited"}
Result == Outcome \cup {"open"}

Init ==
    /\ stage = [i \in Intents |-> "unseen"]
    /\ result = [i \in Intents |-> "open"]
    /\ announced = [i \in Intents |-> FALSE]

Commit(i) ==
    /\ stage[i] = "unseen"
    /\ stage' = [stage EXCEPT ![i] = "committed"]
    /\ UNCHANGED <<result, announced>>

Execute(i) ==
    /\ stage[i] = "committed"
    /\ stage' = [stage EXCEPT ![i] = "executed"]
    /\ \E o \in Outcome : result' = [result EXCEPT ![i] = o]
    /\ UNCHANGED announced

Account(i) ==
    /\ stage[i] = "executed"
    /\ stage' = [stage EXCEPT ![i] = "accounted"]
    /\ \E a \in BOOLEAN : announced' = [announced EXCEPT ![i] = a]
    /\ UNCHANGED result

Next == \E i \in Intents : Commit(i) \/ Execute(i) \/ Account(i)

Spec == Init /\ [][Next]_vars
=============================================================================
