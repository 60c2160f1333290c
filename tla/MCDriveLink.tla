---------------------------- MODULE MCDriveLink ----------------------------
(***************************************************************************)
(* Instances of DriveLink.  With MaxLinear = 127 a speed v becomes byte    *)
(* v + 128; with MaxAngular = 90 an angle v becomes byte v + 90.           *)
(***************************************************************************)
EXTENDS DriveLink

\* Forwards at the angle whose byte is 66, the head of a message; backwards at the
\* speed whose byte is; and straight backwards faster than allowed.
HeadTwists == {[lin |-> 50, ang |-> -24], [lin |-> -62, ang |-> 30], [lin |-> -200, ang |-> 0]}

\* Forwards to the left only.
OneTwist == {[lin |-> 50, ang |-> 30]}
=============================================================================
