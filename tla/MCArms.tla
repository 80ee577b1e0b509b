------------------------------- MODULE MCArms -------------------------------
(***************************************************************************)
(* Finite instances of Arms for TLC.                                       *)
(***************************************************************************)
EXTENDS Arms, TLC

CONSTANTS x, g, a, k, t1, t2, t3, L1, L2

MCLocals == {x}
MCGlobals == {g}
NoGlobals == {}
MCArrays == {a}
NoArrays == {}
MCConsts == {k}
NoConsts == {}
TwoTemps == {t1, t2}
ThreeTemps == {t1, t2, t3}
OneLabel == {L1}
TwoLabels == {L1, L2}
NoLabels == {}
OneParam == <<x>>

\* Consumed temporaries are interchangeable, and so are labels.
Symmetry == Permutations(Temps) \cup Permutations(Labels)
=============================================================================
