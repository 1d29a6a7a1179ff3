------------------------------ MODULE MCEncoding ------------------------------
EXTENDS Encoding

(* A configuration file has no negative numbers.  40000 is no short,       *)
(* -32768 is the lowest.                                                   *)
ReadingsBothWays == {-32768, -15, 7, 40000}
LoadsBothWays == {-1, 0}
=============================================================================
