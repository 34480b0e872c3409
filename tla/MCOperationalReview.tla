-------------------------- MODULE MCOperationalReview --------------------------
EXTENDS OperationalReview, TLC
CONSTANTS edited
RevisionsOf == [c \in Comms |-> IF c = edited THEN 2 ELSE 1]
OwnerOf == [s \in Sessions |-> CHOOSE o \in Owners : TRUE]
Symmetry == Permutations(Sessions)
=============================================================================
