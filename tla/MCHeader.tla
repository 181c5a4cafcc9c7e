--------------------------------- MODULE MCHeader ---------------------------------
(* Names around the longest length, arrays around the limits of the reader. *)
EXTENDS Header
CONSTANTS short, long, layer1

MCNameLength(n) == CASE n = Base -> 8 [] n = short -> 20 [] n = layer1 -> 5
                     [] n = long -> 41 [] OTHER -> 17
MCCut(n) == short
MCShapes == {[dims |-> 2, bytes |-> 4]}
=================================================================================
