------------------------------ MODULE MCFaucet ------------------------------
EXTENDS Faucet, TLC
CONSTANTS c1, c2

\* A claim for ETH, and one by the same wallet or for a mint by another.
MCAsks == c1 :> {[kind |-> "eth", owner |-> "u", ip |-> "x"]} @@
          c2 :> {[kind |-> "eth", owner |-> "u", ip |-> "x"], [kind |-> "musdc", owner |-> "v", ip |-> "x"]}
MCPerIp == [eth |-> 1, musdc |-> 2]
MCPerDay == [eth |-> 1, musdc |-> 2]
=============================================================================
