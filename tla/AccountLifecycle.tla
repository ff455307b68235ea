-------------------------- MODULE AccountLifecycle --------------------------
(***************************************************************************)
(* What a user's status bits promise, whatever the positions are: an       *)
(* account is liquidated in numbered episodes, can be declared bankrupt in *)
(* one, and comes back to normal; one instruction moves one account.       *)
(***************************************************************************)
EXTENDS Naturals

CONSTANT Users

VARIABLES status, episode

Phase == {"normal", "liquidating", "bankrupt"}

Init ==
  /\ status = [u \in Users |-> "normal"]
  /\ episode \in [Users -> Nat]

(* A new episode may end in the instruction that starts it.                *)
Begin(u) ==
  /\ status[u] = "normal"
  /\ \E s \in Phase : status' = [status EXCEPT ![u] = s]
  /\ episode' = [episode EXCEPT ![u] = @ + 1]

(* An episode ends with the account recovered or bankrupt.                 *)
Conclude(u) ==
  /\ status[u] = "liquidating"
  /\ \E s \in {"normal", "bankrupt"} : status' = [status EXCEPT ![u] = s]
  /\ UNCHANGED episode

(* Its losses are taken over, or found to be covered after all.            *)
Absolve(u) ==
  /\ status[u] = "bankrupt"
  /\ status' = [status EXCEPT ![u] = "normal"]
  /\ UNCHANGED episode

(* Losses can be taken over without an episode when nothing else is left.  *)
Declare(u) ==
  /\ status[u] = "normal"
  /\ status' = [status EXCEPT ![u] = "bankrupt"]
  /\ UNCHANGED episode

Next == \E u \in Users : Begin(u) \/ Conclude(u) \/ Absolve(u) \/ Declare(u)

Spec == Init /\ [][Next]_<<status, episode>>
=============================================================================
