---------------------------- MODULE MCSentiment ----------------------------
(* The cached Fear & Greed index for TLC. *)
EXTENDS Sentiment

CONSTANTS w1, s1
=============================================================================
