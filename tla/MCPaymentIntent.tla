-------------------------- MODULE MCPaymentIntent --------------------------
(* Two intents and two callers, all interchangeable.                       *)
EXTENDS PaymentIntent, TLC

CONSTANTS i1, i2, c1, c2

MCIntents == {i1, i2}
MCCallers == {c1, c2}

Interchangeable == Permutations(MCIntents) \cup Permutations(MCCallers)
=============================================================================
