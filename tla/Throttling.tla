----------------------------- MODULE Throttling -----------------------------
(***************************************************************************)
(* Rate limits: ThrottlerModule's one throttler, the ThrottlerGuard every  *)
(* request passes, and the @Throttle decorators of the student endpoints   *)
(* (those of the admins' are alike).  The guard counts, by caller (an IP)  *)
(* and handler, the requests it let through during the last ttl; it lives  *)
(* in memory, and a restart, not modelled here, empties it.                *)
(***************************************************************************)
EXTENDS Functions, Naturals

CONSTANTS
  Caller,
  GlobalLimit,  \* 30
  LoginLimit,   \* 5
  TokenLimit,   \* 10
  Ttl           \* the minute they all count over, in steps of the clock

VARIABLE passed   \* passed[c][h][a]: c's requests to handler h let through a
                  \* steps of the clock ago

Handler == {"login", "token", "refresh"}

Age == 0..(Ttl - 1)

Init == passed = [c \in Caller |-> [h \in Handler |-> [a \in Age |-> 0]]]

-----------------------------------------------------------------------------
(* The throttlers of the module, by name, and what the decorators of a     *)
(* handler override, by name of throttler.                                 *)
Throttlers == [global |-> GlobalLimit]

Throttle(h) ==
  CASE h = "login"   -> [default |-> LoginLimit]
    [] h = "token"   -> [default |-> TokenLimit]
    [] h = "refresh" -> [n \in {} |-> 0]

(* The guard: each throttler asks for its own override, and has a limit of *)
(* its own when there is none.                                             *)
LimitOf(name, h) ==
  IF name \in DOMAIN Throttle(h) THEN Throttle(h)[name] ELSE Throttlers[name]

InWindow(c, h) == SumFunction(passed[c][h])

Request(c, h) ==
  /\ \A name \in DOMAIN Throttlers : InWindow(c, h) < LimitOf(name, h)
  /\ passed' = [passed EXCEPT ![c][h][0] = @ + 1]

Tick ==
  passed' = [c \in Caller |-> [h \in Handler |-> [a \in Age |->
               IF a = 0 THEN 0 ELSE passed[c][h][a - 1]]]]

Next == Tick \/ \E c \in Caller, h \in Handler : Request(c, h)

Spec == Init /\ [][Next]_passed

-----------------------------------------------------------------------------
(* What comments and documentation say and the code does not do.           *)

(* login's comment: 5 attempts a minute by IP. *)
LoginLimited == \A c \in Caller : InWindow(c, "login") <= LoginLimit
=============================================================================
