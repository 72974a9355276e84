----------------------------- MODULE Durations ------------------------------
(***************************************************************************)
(* The durations of the configuration, "15m" or "1.5h": an amount and a    *)
(* unit (or none), read three times over: by parseExpiresIn, for the       *)
(* answer's expires_in and for the limits of sessions; by                  *)
(* RefreshTokenService's toDate, for the row; and by jsonwebtoken, for the *)
(* token's exp.  Where they disagree a token outlives its row, or an       *)
(* answer lies about it.  The unit is any that jsonwebtoken takes, up to   *)
(* spellings that end in the same letter; amounts are numbers with at most *)
(* one decimal, with no sign and a digit before the point.                 *)
(***************************************************************************)
EXTENDS Naturals

CONSTANT Amount   \* bound: the whole parts of the amounts

VARIABLE duration   \* what one of the JWT_..._EXPIRES_IN variables holds

Unit ==
  {"none", "ms", "s", "m", "h", "d", "w", "y", "H", "min", "hours", "days"}

Duration == [whole: Amount, tenths: 0..9, unit: Unit]

(* What slice(-1) finds at the end. *)
LastLetter(unit) ==
  CASE unit \in {"ms", "hours", "days"} -> "s"
    [] unit = "min" -> "n"
    [] unit = "none" -> "a digit"
    [] unit \in {"s", "m", "h", "d", "w", "y", "H"} -> unit

(* Slip: the factor of one case under another. *)
Seconds_HourAsDay(letter) ==
  CASE letter = "s" -> 1 [] letter = "m" -> 60 [] letter \in {"h", "d"} -> 86400
    [] letter \notin {"s", "m", "h", "d"} -> 1

(* The switch: an unknown letter leaves the number as it is. *)
Seconds(letter) ==
  CASE letter = "s" -> 1
    [] letter = "m" -> 60
    [] letter = "h" -> 60 * 60
    [] letter = "d" -> 60 * 60 * 24
    [] letter \notin {"s", "m", "h", "d"} -> 1

(* parseInt stops at the point. *)
parseExpiresIn(v) == v.whole * Seconds(LastLetter(v.unit))

toDate(v) ==
  LET unit == LastLetter(v.unit)
      amount == v.whole
  IN CASE unit = "s" -> amount * 1000
       [] unit = "m" -> amount * 60 * 1000
       [] unit = "h" -> amount * 60 * 60 * 1000
       [] unit = "d" -> amount * 60 * 60 * 24 * 1000
       [] unit \notin {"s", "m", "h", "d"} -> amount * 1000

(* jsonwebtoken gives a string to the library ms, which knows every unit,  *)
(* takes the lack of one for milliseconds, and keeps the fraction; iat is  *)
(* in whole seconds, and exp is rounded down to them.                      *)
Tenth(unit) ==
  CASE unit = "m" -> 6 [] unit = "min" -> 6
    [] unit \in {"h", "H", "hours"} -> 360
    [] unit \in {"d", "days"} -> 8640
    [] unit = "w" -> 60480
    [] unit = "y" -> 3155760

Timespan(v) ==
  CASE v.unit \in {"ms", "none"} -> v.whole \div 1000
    [] v.unit = "s" -> v.whole
    [] v.unit \notin {"ms", "none", "s"} -> (10 * v.whole + v.tenths) * Tenth(v.unit)

Init == duration \in Duration

(* The configuration is edited, and the process restarted. *)
Configure == duration' \in Duration

Spec == Init /\ [][Configure]_duration

-----------------------------------------------------------------------------
(* The two readers of this program agree on every duration, so that the    *)
(* limit of a session and the rows within it are counted in the same time. *)
(* jsonwebtoken agrees with them exactly when the duration is written the  *)
(* plain way: a whole number with the unit s, m, h or d in one lower-case  *)
(* letter (the fraction of a second is cut by all), or no time at all.     *)
(* Whatever else it accepts, as "1w", "500ms", "1.5h", "2 days" or a bare  *)
(* number, means to the program another time than to the token.            *)
OneDuration ==
  /\ toDate(duration) = parseExpiresIn(duration) * 1000
  /\ parseExpiresIn(duration) = Timespan(duration) <=>
       \/ duration.unit = "s"
       \/ duration.unit \in {"m", "h", "d"} /\ duration.tenths = 0
       \/ duration.whole = 0 /\ (duration.tenths = 0 \/ duration.unit \in {"ms", "none"})
=============================================================================
