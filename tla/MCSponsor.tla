----------------------------- MODULE MCSponsor -----------------------------
(* Two requests that may carry rival operations of one account, the same   *)
(* one, or the operation of another account.                               *)
EXTENDS Sponsor

CONSTANTS q1, q2

MCRequests == {q1, q2}
MCOps == {[account |-> "a", nonce |-> 0, grant |-> "g"], [account |-> "a", nonce |-> 0, grant |-> "h"],
          [account |-> "b", nonce |-> 0, grant |-> "k"]}
=============================================================================
