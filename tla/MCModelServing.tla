-------------------------- MODULE MCModelServing --------------------------
(* Instances of ModelServing: up to three trees, of which the first has no *)
(* datasource.md and the third another engine, and two calls.               *)
EXTENDS ModelServing, TLC

CONSTANTS d1, r1, r2

OneDeployer == {d1}
TwoRequests == {r1, r2}
FromTheSecond == 2 .. NTrees
UpToTheSecond == 1 .. 2
=============================================================================
