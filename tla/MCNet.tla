------------------------------- MODULE MCNet -------------------------------
EXTENDS Net, TLC

CONSTANTS s1, s2, t1, t2, t3

TwoAndOne == s1 :> 2 @@ s2 :> 1

\* Tokens are only ever compared and used as indices.
TokensAlike == Permutations({t1, t2, t3})
=============================================================================
