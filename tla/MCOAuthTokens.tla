--------------------------- MODULE MCOAuthTokens ---------------------------
(* Instances of OAuthTokens: four requests, so that a family can be opened,*)
(* renewed, renewed again and replayed.                                    *)
EXTENDS OAuthTokens, TLC

CONSTANTS r1, r2, r3, r4, k1, k2

FourRequests == {r1, r2, r3, r4}
TwoCodes == {k1, k2}
Rotating == {"rotate"}
Overwriting == {"overwrite"}
BothModes == Rotating \cup Overwriting
Symmetry == Permutations(FourRequests) \cup Permutations(TwoCodes)
=============================================================================
