--------------------------- MODULE MCStudentLogin ---------------------------
(***************************************************************************)
(* For TLC: that codes, and then sessions, come to an end, in one run of   *)
(* AuthorizationCodes and StudentSessions.  They share no variable, and    *)
(* each property looks at one of them: a behaviour of both is a shuffle of *)
(* one of each, so it is enough that each takes its steps alone.           *)
(***************************************************************************)
EXTENDS AuthorizationCodes

CONSTANTS Application, Token, Family, Student, TicksPerSecond, InactivitySecs, SessionMax,
          SessionsTime

VARIABLES part, rows, clients, handlers, clock

sessions == <<rows, clients, handlers, clock>>
mcvars == <<part, vars, sessions>>

S == INSTANCE StudentSessions WITH
  Client <- Application, Request <- Student, MaxTime <- SessionsTime,
  client <- clients, req <- handlers, now <- clock

MCInit == part \in {"codes", "sessions"} /\ Init /\ S!Init

MCNext ==
  \/ part = "codes" /\ Next /\ UNCHANGED <<part, sessions>>
  \/ part = "sessions" /\ S!Next /\ UNCHANGED <<part, vars>>

(* The fairness of FairSpec and S!FairSpec, each for its own part. *)
MCSpec ==
  /\ MCInit /\ [][MCNext]_mcvars
  /\ WF_vars(part = "codes" /\ Tick) /\ WF_vars(part = "codes" /\ PurgeExpired)
  /\ WF_sessions(part = "sessions" /\ S!Tick)
  /\ \A r \in Student : WF_sessions(part = "sessions" /\ (S!Resume(r) \/ S!Abort(r)))

SessionsEnd == S!SessionsEnd
=============================================================================
