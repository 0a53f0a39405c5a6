-------------------------------- MODULE MCPages --------------------------------
(* A small instance of Pages.                                              *)
EXTENDS Pages

CONSTANTS a, b, h, A

\* A is a name in capitals of the database a.
ToLower == [n \in Names |-> IF n = A THEN a ELSE n]
================================================================================
