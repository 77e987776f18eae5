--------------------------- MODULE MCIoSubscriber ---------------------------
(* Instances of IoSubscriber for TLC: channels are numbers.                 *)
EXTENDS IoSubscriber

\* A list of distinct channels, one that names a channel twice (channels are
\* drawn with replacement), and a list of one.
TwiceTripleSingle == {<<1>>, <<1, 2, 3>>, <<1, 2, 2>>}
=============================================================================
