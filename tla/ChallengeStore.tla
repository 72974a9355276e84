--------------------------- MODULE ChallengeStore ---------------------------
(***************************************************************************)
(* The pending-2fa:* keys of Redis and the commands PendingChallengeService*)
(* runs on them.  The store is a function from the jti of a pending token  *)
(* to its challenge; each operator is ONE command (SET, GETDEL, or the Lua *)
(* script of recordAttempt), hence atomic.                                 *)
(*                                                                         *)
(* A key's time to live is the instant it ends: expires is the set of that *)
(* instant, or the empty set when the key has none.  Redis still has the   *)
(* key at that very instant, with a PTTL of 0, and not after it.           *)
(***************************************************************************)
EXTENDS Integers

CONSTANT MaxAttempts   \* PENDING_2FA_MAX_ATTEMPTS

ASSUME MaxAttemptsAssumption == MaxAttempts \in Nat \ {0}

Purpose == {"2fa-setup", "2fa-confirm"}

Challenge == [purpose: Purpose, attempts: Nat, expires: SUBSET Nat]

Present(store, j, time) ==
  j \in DOMAIN store /\ \A t \in store[j].expires : time <= t

(* The challenge is there, for this purpose.  Slip: purpose not compared.  *)
Matches_AnyPurpose(store, j, p, time) == Present(store, j, time)

Matches(store, j, p, time) ==
  Present(store, j, time) /\ store[j].purpose = p

(* What create() stores.  Slip: the counter left out.                      *)
NewChallenge_NoCounter(p, end) == [purpose |-> p, expires |-> {end}]

NewChallenge(p, end) == [purpose |-> p, attempts |-> 0, expires |-> {end}]

(* SET *)
Put(store, j, c) ==
  [k \in DOMAIN store \cup {j} |-> IF k = j THEN c ELSE store[k]]

(* DEL, and GETDEL's effect.  Slip: a GET. *)
Delete_Not(store, j) == store

Delete(store, j) == [k \in DOMAIN store \ {j} |-> store[k]]

(* A wrong code, written back.  PTTL > 0 keeps the end of the challenge;   *)
(* PTTL = 0 is taken for a key that has none.                              *)
Retried(c, time) ==
  [c EXCEPT !.attempts = @ + 1, !.expires = {t \in @ : time < t}]

(* A wrong code is the last one.  Slip: one more. *)
Exhausts_Late(c) == c.attempts + 1 > MaxAttempts

Exhausts(c) == c.attempts + 1 >= MaxAttempts

(* recordAttempt's script, when the challenge matches. *)
AfterAttempt(store, j, valid, time) ==
  IF valid \/ Exhausts(store[j])
    THEN Delete(store, j)
    ELSE Put(store, j, Retried(store[j], time))
=============================================================================
