--------------------------------- MODULE MCPool ---------------------------------
(* Small instances of Pool for TLC. *)
EXTENDS Pool
CONSTANTS t1, t2, w1, w2
================================================================================
