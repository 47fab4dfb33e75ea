---------------------------- MODULE MCOperations -----------------------------
(* Instances of Operations for TLC.                                        *)
EXTENDS Operations

CONSTANTS s1, s2,          \* supervisors
          c1, c2, d1, d2   \* runs that use the judge, daemon processes
=============================================================================
