----------------------------- MODULE MCKeyStore -----------------------------
(* A small instance of KeyStore: commands are model values and, since        *)
(* nothing orders them, those that verify are symmetric.                    *)
EXTENDS KeyStore, TLC

CONSTANTS live, demo, mock, live2

Four == {live, demo, mock, live2}
VerifyingFour == {live, demo, live2}
Symmetry == Permutations(VerifyingFour)
=============================================================================
