---------------------------- MODULE MCRateBucket ----------------------------
(* Three connections for RateBucket, which are interchangeable.            *)
EXTENDS RateBucket, TLC
CONSTANTS a, b, c
Same == Permutations({a, b, c})
=============================================================================
