---------------------------- MODULE MCRateLimit ----------------------------
(* Small instances of RateLimit.  A weight of 1 stands for the smallest       *)
(* request; the limits keep the order Threshold <= BanLimit of the code.      *)
EXTENDS RateLimit
=============================================================================
