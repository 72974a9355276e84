--------------------------- MODULE SecretDelivery ---------------------------
(***************************************************************************)
(* What delivering the secret of a client application promises.  It has    *)
(* two readers: the admin who had it generated, from the answer to that    *)
(* very request, and whoever opens the link it is put into.  Each of them  *)
(* gets it once at most; it can be lost on its way to either, in which     *)
(* case a new one is generated, and never goes back to be sent again.      *)
(* OAuthClients is shown to implement this.                                *)
(***************************************************************************)
CONSTANT Secret

VARIABLES
  phase,    \* phase[s]: where s is on its way to the link's reader
  answer    \* answer[s]: the answer that tells s to the admin

Phase == {"unborn", "held", "linked", "shown", "lost"}

Answer == {"none", "due", "told", "lost"}

Init ==
  /\ phase = [s \in Secret |-> "unborn"]
  /\ answer = [s \in Secret |-> "none"]

Moves(s, from, to) ==
  /\ phase[s] = from
  /\ phase' = [phase EXCEPT ![s] = to]

Answers(s, from, to) ==
  /\ answer[s] = from
  /\ answer' = [answer EXCEPT ![s] = to]

(* It is generated, and kept by the server, which owes it to the admin. *)
Create(s) == Moves(s, "unborn", "held") /\ Answers(s, "none", "due")

(* The admin reads it, or the answer is lost. *)
Tell(s) ==
  (Answers(s, "due", "told") \/ Answers(s, "due", "lost")) /\ UNCHANGED phase

(* It is put into a link, which the server forgets it for. *)
Attach(s) == Moves(s, "held", "linked") /\ UNCHANGED answer

Show(s) == Moves(s, "linked", "shown") /\ UNCHANGED answer

(* It is overwritten by a newer one, forgotten with its key, taken by a    *)
(* handler that fails; its link is not sent, expires, or is answered to    *)
(* nobody.                                                                 *)
Lose(s) ==
  (Moves(s, "held", "lost") \/ Moves(s, "linked", "lost")) /\ UNCHANGED answer

(* The request that generated it fails before it stores it. *)
Fail(s) == Moves(s, "held", "lost") /\ Answers(s, "due", "lost")

Next ==
  \E s \in Secret :
    Create(s) \/ Tell(s) \/ Attach(s) \/ Show(s) \/ Lose(s) \/ Fail(s)

Spec == Init /\ [][Next]_<<phase, answer>>
=============================================================================
