----------------------------- MODULE MCDatasetLock -----------------------------
EXTENDS DatasetLock, TLC

CONSTANTS int, float, five, half

MCTypeOf == five :> int @@ half :> float
================================================================================
