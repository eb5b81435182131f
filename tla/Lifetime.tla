------------------------------ MODULE Lifetime ------------------------------
(***************************************************************************)
(* internal/lifetime: a configured lifetime, from what was written in the  *)
(* configuration file to the span the program works with.  A text is what  *)
(* its parts denote: a number of days, the remainder that the standard     *)
(* library parses, and a sign.  Durations are signed integers of a fixed   *)
(* width and wrap around.                                                  *)
(***************************************************************************)
EXTENDS Integers

CONSTANTS
  Half,        \* half of the range of a time.Duration: 2^63 nanoseconds
  Day,         \* the duration of a day
  Unlimited,   \* the lifetime "unlimited"
  Refused      \* a text that Parse rejects

ASSUME LifetimeAssumption ==
  /\ Half \in Nat \ {0}
  /\ Day \in 1..(Half - 1)
  /\ Unlimited \notin Int /\ Refused \notin Int /\ Refused # Unlimited

(* The zero Span: nothing was configured.                                  *)
Unset == 0

(* A lifetime as written.  time.ParseDuration refuses a remainder that     *)
(* does not fit; the day count has 32 bits, which a day's length makes     *)
(* more than 64 of.                                                        *)
Texts == [kind : {"nothing", "unlimited", "amount"},
          neg : BOOLEAN, days : Int, rest : (-Half)..(Half - 1)]

(* 64-bit arithmetic.                                                      *)
Wrap(n) == ((n + Half) % (2 * Half)) - Half

(* parseWithDays: three operations, each of which wraps.                   *)
ParseWithDays(t) ==
  LET total == Wrap(Wrap(t.days * Day) + t.rest)
  IN  IF t.neg THEN Wrap(-total) ELSE total

(* Parse: neither negative nor zero.                                       *)
Parse(t) ==
  IF t.kind = "nothing" THEN Unset
  ELSE IF t.kind = "unlimited" THEN Unlimited
  ELSE LET d == ParseWithDays(t) IN IF d <= 0 THEN Refused ELSE d

(* Span.Or: the agent's own lifetime when it has one, else the broker's.   *)
Or(own, other) == IF own = Unset THEN other ELSE own

-----------------------------------------------------------------------------
(* What the text means, without a width, and whether the width holds it.   *)
Meaning(t) == IF t.neg THEN -(t.days * Day + t.rest) ELSE t.days * Day + t.rest
Representable(t) == Meaning(t) \in 0..(Half - 1)
=============================================================================
