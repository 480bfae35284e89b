----------------------------- MODULE MCStoreConn -----------------------------
(* Instances of StoreConn: two instances that boot together.               *)
EXTENDS StoreConn, TLC

CONSTANTS s1, s2

TwoStores == {s1, s2}
=============================================================================
