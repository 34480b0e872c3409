----------------------------- MODULE MCMemoryJobs -----------------------------
(* TLC's instance of MemoryJobs: a message and a call in one thread, with room *)
(* for both in a run or for the newer one only, a message under two enrichment *)
(* sweeps, a recorded call under a sweep of each kind, and a recording under   *)
(* two.                                                                        *)
EXTENDS MemoryJobs

One(S) == {CHOOSE x \in S : TRUE}
Last(c) == [d \in Sources |-> IF d = c THEN 1 ELSE 0]
Scene(texts, workers, transcribers, last, limit) ==
  [texts |-> texts, workers |-> workers, transcribers |-> transcribers, occurred |-> Last(last), limit |-> limit]
ScenesOf == {Scene(Sources, One(Workers), {}, Call, 2)}
            \cup {Scene(Sources, One(Workers), {}, c, 1) : c \in Sources}
            \cup {Scene(Messages, Workers, {}, Call, 2), Scene({Call}, One(Workers), One(Transcribers), Call, 2),
                  Scene({Call}, {}, Transcribers, Call, 2)}
=============================================================================
