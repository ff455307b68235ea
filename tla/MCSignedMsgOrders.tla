-------------------------- MODULE MCSignedMsgOrders --------------------------
(* Messages of two accounts.                                               *)
EXTENDS SignedMsgOrders

CONSTANTS a1, a2

MCMessage(u, a, s, d, t, b) ==
  [uuid |-> u, account |-> a, slot |-> s, duration |-> d, maxTs |-> t,
   brackets |-> b]

\* One uuid twice, once with a max_ts that passes during the auction, and a
\* message with a bracket order.
MCMessages == {MCMessage("x", a1, 1, 1, 0, 0), MCMessage("x", a2, 3, 2, 3, 0),
               MCMessage("y", a1, 2, 1, 0, 1)}
=============================================================================
