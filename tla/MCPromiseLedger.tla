-------------------------- MODULE MCPromiseLedger --------------------------
\* All wordings mean the same promise.
EXTENDS PromiseLedger, TLC
CONSTANTS edited
TopicOf == [w \in Wordings |-> CHOOSE t \in Topics : TRUE]
RevisionsOf == [c \in Comms |-> IF c = edited THEN 2 ELSE 1]
Symmetry == Permutations(People) \cup Permutations(Workers) 
=============================================================================
