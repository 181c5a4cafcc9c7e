-------------------------------- MODULE MCSlicing --------------------------------
(* Small instances of Slicing for TLC. *)
EXTENDS Slicing

MCShapes == {<<0>>, <<1>>, <<7>>, <<1, 3>>, <<3, 2>>, <<3, 3>>, <<2, 2, 2>>, <<1, 2, 3>>,
             <<1, 1, 1, 2>>}

Chr(k) == <<"chr", k>>

\* Columns with an empty string, with equal lengths and with different ones.
MCColumns == {<<>>, << <<Chr(1)>>, <<Chr(2), Chr(3)>>, <<>>, <<Chr(4)>> >>,
              << <<>>, <<>>, <<Chr(5), Chr(6), Chr(7)>> >>}
================================================================================
