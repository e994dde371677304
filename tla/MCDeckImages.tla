----------------------------- MODULE MCDeckImages -----------------------------
(* Pictures are interchangeable but for the blank one.                      *)
EXTENDS DeckImages, TLC

CONSTANTS blankImage, a, b, c

MCImages == {blankImage, a, b, c}
MCSymmetry == Permutations({a, b, c})
=============================================================================
