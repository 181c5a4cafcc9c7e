-------------------------------- MODULE MCRemote --------------------------------
(* Versions shorter and longer than the initial read and the threshold.    *)
EXTENDS Remote, TLC
CONSTANTS short, even, long, east, west

MCSize == short :> 3 @@ even :> 4 @@ long :> 7
MCHeaderSize == short :> 2 @@ even :> 2 @@ long :> 4
Token(named, url, valid) == [named |-> named, url |-> url, valid |-> valid]
MCSources ==
  {[env |-> e, tokens |-> t, exchanged |-> x, file |-> f] :
     e \in BOOLEAN, f \in BOOLEAN, x \in BOOLEAN,
     t \in {<<>>, <<Token(FALSE, TRUE, FALSE), Token(TRUE, TRUE, TRUE)>>,
            <<Token(FALSE, TRUE, FALSE), Token(FALSE, TRUE, TRUE)>>}}
=================================================================================
