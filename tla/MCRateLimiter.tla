---------------------------- MODULE MCRateLimiter ----------------------------
(* RateLimiter for TLC; the cfg files give the constants their values.     *)
EXTENDS RateLimiter
=============================================================================
