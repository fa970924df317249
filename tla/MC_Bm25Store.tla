---------------------------- MODULE MC_Bm25Store ----------------------------
(* Instances of Bm25Store for TLC.                                         *)
EXTENDS Bm25Store, TLC

CONSTANTS v, b1, b2, t1, t2, t3, word

MCBackends  == {b1, b2}
MCTids      == {t1, t2}
MCTids3     == {t1, t2, t3}
MCTexts     == {{}, {word}}
MCAllTexts  == {NoText, {}, {word}}
MCBuilt     == <<t1>>
MCBuiltText == <<{word}>>

Symmetry == Permutations({b1, b2})
=============================================================================
