----------------------------- MODULE MCIolLatency -----------------------------
(***************************************************************************)
(* IolLatency for TLC: a median and a "90th" percentile of 2/3.            *)
(***************************************************************************)
EXTENDS IolLatency

TwoParts == <<2, 3>>
=============================================================================
