---------------------------- MODULE MCRateLimit ----------------------------
(* A small instance of RateLimit: one busy address, and others that ask    *)
(* once a minute.  No property tells the threads apart.                    *)
EXTENDS RateLimit, TLC

CONSTANTS Busy, BusyAsks

Asks == [x \in Addresses |-> IF x = Busy THEN BusyAsks ELSE 1]

Symmetry == Permutations(Threads)
=============================================================================
