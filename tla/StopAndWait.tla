---------------------------- MODULE StopAndWait ----------------------------
(***************************************************************************)
(* What the serial data link of the Anybus driver promises to the layers   *)
(* above it: numbered exchanges, one at a time.  A telegram is issued only *)
(* when the answer to the previous one has been handled, the module acts   *)
(* on every telegram exactly once and in order, and the answer handed up   *)
(* is the answer to the telegram that was issued last.  The numbers are    *)
(* taken modulo Ids, which is enough to tell a repeated, skipped or stale  *)
(* exchange from the right one as soon as Ids > 2.                         *)
(***************************************************************************)
EXTENDS Naturals

CONSTANT Ids    \* exchanges are numbered modulo Ids

VARIABLES issued,   \* number of the telegram the host issued last
          acted,    \* number of the telegram the module acted on last
          handled   \* number of the exchange whose answer was handed up last

vars == <<issued, acted, handled>>

Succ(n) == (n + 1) % Ids

Init == issued = 0 /\ acted = 0 /\ handled = 0

(* The host starts the next exchange: the previous one is closed. *)
Issue == /\ handled = issued
         /\ issued' = Succ(issued)
         /\ UNCHANGED <<acted, handled>>

(* The module acts on a telegram it has not acted on before. *)
Act == /\ acted # issued
       /\ acted' = issued
       /\ UNCHANGED <<issued, handled>>

(* The answer of the module is handed up, once. *)
Handle == /\ handled # acted
          /\ handled' = acted
          /\ UNCHANGED <<issued, acted>>

Next == Issue \/ Act \/ Handle

Spec == Init /\ [][Next]_vars
=============================================================================
