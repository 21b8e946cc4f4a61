--------------------------- MODULE MCSellerPaywall ----------------------------
(* Small instances of the hosted shop: two payments, one identifier, two items. *)
EXTENDS SellerPaywall, TLC

CONSTANTS i1, i2, d1, d2, m1, m2, q1, q2

\* Two leaves for one request under one identifier.
TwoLeaves == {[intent |-> i1, id |-> d1, item |-> m1], [intent |-> i2, id |-> d1, item |-> m1]}

\* And the first leaf on another item of the same price, and on it without an identifier.
AllHeaders == TwoLeaves \cup {[intent |-> i1, id |-> d1, item |-> m2],
                              [intent |-> i1, id |-> NoId, item |-> m2]}

\* One payment, presented under an identifier and, for another item, without one.
OnePayment == {[intent |-> i1, id |-> d1, item |-> m1], [intent |-> i1, id |-> NoId, item |-> m2]}

Interchangeable == Permutations(Requests)
=============================================================================
