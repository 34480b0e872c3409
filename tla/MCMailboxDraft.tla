--------------------------- MODULE MCMailboxDraft ---------------------------
\* Two edits, one with a recovery.
EXTENDS MailboxDraft, TLC
CONSTANTS a, b, ra, textA, textB, typed, r1, r2

RecoversOf == a :> None @@ b :> None @@ ra :> a
TextOf == a :> textA @@ b :> textB @@ ra :> textA
Symmetry == Permutations(Requests)
=============================================================================
