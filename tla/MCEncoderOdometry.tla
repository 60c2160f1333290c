------------------------- MODULE MCEncoderOdometry -------------------------
(***************************************************************************)
(* Instances of EncoderOdometry: one encoder reversed, messages in either  *)
(* order of the joints, or with one position missing.                      *)
(***************************************************************************)
EXTENDS EncoderOdometry

RightReversed == [s \in Side |-> s = "right"]
Layout(name, count) == [name |-> name, count |-> count]
AnyLayout == {Layout(<<"left", "right">>, 2), Layout(<<"right", "left">>, 1)}
=============================================================================
