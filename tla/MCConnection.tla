----------------------------- MODULE MCConnection -----------------------------
(***************************************************************************)
(* Instances of Connection for TLC.  a and b are ordinary requests, n is a *)
(* produce request with acks = 0, u has a payload that throws.             *)
(***************************************************************************)
EXTENDS ConnectionInvariant, ConnectionRefinement

CONSTANTS a, b, c, n, u
===============================================================================
