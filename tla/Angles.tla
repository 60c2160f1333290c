------------------------------- MODULE Angles -------------------------------
(***************************************************************************)
(* Angles as the nodes compute them, in sixteenths of a turn, so that Half *)
(* is pi; an odd angle stands for all those strictly between its two even  *)
(* neighbours.                                                             *)
(***************************************************************************)
EXTENDS Integers

Half == 8
Turn == 16
NaN == -1000 \* the angle that is not a number, and no angle or distance

Abs(n) == IF n < 0 THEN -n ELSE n
Sign(n) == IF n < 0 THEN -1 ELSE IF n > 0 THEN 1 ELSE 0

\* atan() of a quotient: from -4 to 4, the ends for a division by zero.
Atan(rise, run) ==
    LET steepness == IF Abs(rise) > Abs(run) THEN 3
                     ELSE IF Abs(rise) = Abs(run) THEN 2
                     ELSE Sign(Abs(rise))
    IN  IF run = 0 THEN 4 * Sign(rise) ELSE Sign(rise) * Sign(run) * steepness

\* fmod(): the remainder has the sign of the dividend.
Fmod(n, d) == IF n >= 0 THEN n % d ELSE -((-n) % d)

\* The direction of the vector (x, y), in every quadrant and on every axis.
Direction(x, y) == IF x >= 0 THEN Atan(y, x) ELSE IF y >= 0 THEN Atan(y, x) + Half
                   ELSE Atan(y, x) - Half
=============================================================================
