--------------------------- MODULE MemoryJobs_proofs ---------------------------
(***************************************************************************)
(* For any number of messages, sweeps of either queue and attempts: what   *)
(* is shown of a thread as current was read from its texts as they are,    *)
(* and the audio of a recording is deleted only when its transcript is     *)
(* stored.                                                                 *)
(***************************************************************************)
EXTENDS MemoryJobs, FiniteSetTheorems, TLAPS

-----------------------------------------------------------------------------
(* The inductive invariant *)

Readable == InReach \cap said

\* What is kept of a run, or of a row, was not updated since it was read: all of it, or, in a fact
\* that grew over several runs, something of it as long as nothing of it was updated.
RowOK ==
  row # None /\ row.vouched => IF kind = "summary" THEN row.sources \ row.later \subseteq row.known
                ELSE row.sources \cap row.later = {} => row.sources \cap row.known # {}

Covered == row # None /\ Readable \subseteq row.known

\* The worker that has the lease, and was neither asked to run again nor overtaken, has read
\* everything, and so has what it stored.
RunOK(w) ==
  worker[w] # None =>
    /\ worker[w].step = "READ" => worker[w].sources \ worker[w].later \subseteq worker[w].known
    /\ kind = "summary" /\ Owns(w) /\ ~unread =>
         /\ worker[w].step = "READ" /\ ~job.rerun => Readable \subseteq worker[w].known
         /\ worker[w].step = "STORED" /\ ~job.rerun => Covered
         /\ worker[w].step = "ENOUGH" => Covered

ThreadInv ==
  /\ scene \in Scenes /\ said \subseteq Sources /\ eligible \subseteq Sources
  /\ job \in Job /\ worker \in [Workers -> Run \cup {None}]
  /\ kind \in {"summary", "fact"} /\ row \in Evidence \cup {None} /\ unread \in BOOLEAN
  /\ job.lease # None <=> job.status = "processing"
  /\ RowOK /\ DoneMeansRead
  /\ \A w \in Workers : RunOK(w)

\* A transcriber that has not committed has the lease; one that has, has stored the transcript.
TranscriberOK(t) ==
  /\ transcriber[t] \in {"CLAIMED", "FETCHED"} => recording.lease = t /\ recording.status # "none"
  /\ transcriber[t] \in {"COMMITTED", "PROJECTED"} => recording.transcript /\ recording.status # "none"

TapeInv ==
  /\ recording \in Recording /\ audio \in BOOLEAN
  /\ transcriber \in [Transcribers -> Transcribing \cup {None}]
  /\ recording.status = "done" => recording.transcript
  /\ ~audio => recording.transcript /\ recording.status # "none"
  /\ \A t \in Transcribers : TranscriberOK(t)

Inv == ThreadInv /\ TapeInv

LEMMA Initially == Init => Inv
<1> SUFFICES ASSUME Init PROVE Inv
  OBVIOUS
<1>0. 0 \in 0 .. MaxAttempts
  BY MemoryJobsAssumption
<1>1. job \in Job
  BY <1>0, Zenon DEF Init, Job, Sources
<1>2. recording \in Recording
  BY <1>0, Zenon DEF Init, Recording
<1>3. job.lease = None /\ job.status = "none" /\ recording.status = "none"
  BY DEF Init
<1>4. ThreadInv
  <2>1. scene \in Scenes /\ said \subseteq Sources /\ eligible \subseteq Sources /\ kind \in {"summary", "fact"}
    BY DEF Init, Sources
  <2>2. row = None /\ unread \in BOOLEAN /\ worker \in [Workers -> Run \cup {None}]
    BY DEF Init
  <2>3. \A w \in Workers : RunOK(w)
    BY DEF Init, RunOK
  <2> QED BY <1>1, <1>3, <2>1, <2>2, <2>3 DEF ThreadInv, RowOK, DoneMeansRead
<1>5. TapeInv
  <2>1. audio /\ audio \in BOOLEAN
    BY DEF Init
  <2>2. \A t \in Transcribers : transcriber[t] = None
    BY DEF Init
  <2>3. \A t \in Transcribers : TranscriberOK(t)
    BY <2>2, NoneIsNoRow DEF TranscriberOK, Transcribing
  <2>4. transcriber \in [Transcribers -> Transcribing \cup {None}]
    BY DEF Init
  <2> QED BY <1>2, <1>3, <2>1, <2>3, <2>4 DEF TapeInv
<1> QED BY <1>4, <1>5 DEF Inv

-----------------------------------------------------------------------------
(* What is in reach of a run *)

LEMMA ReachStays == UNCHANGED <<scene, said, eligible>> => InReach' = InReach
BY DEF InReach, Newest

LEMMA NewestOf == ASSUME NEW S PROVE Newest(S) \subseteq S
BY DEF Newest

LEMMA ReachIn == ThreadInv => InReach \subseteq Sources
BY NewestOf DEF InReach, ThreadInv

\* Where there is more to choose from, no more of the old is chosen.
LEMMA NewestOfMore ==
  ASSUME NEW S \in SUBSET Sources, NEW T \in SUBSET Sources, S \subseteq T, scene \in Scenes
  PROVE  Newest(T) \cap S \subseteq Newest(S)
<1> SUFFICES ASSUME NEW c \in S, c \in Newest(T) PROVE c \in Newest(S)
  BY NewestOf
<1> DEFINE Newer(X) == {d \in X : scene.occurred[d] > scene.occurred[c]}
<1>1. IsFiniteSet(Sources)
  BY MemoryJobsAssumption, FS_AddElement DEF Sources
<1>2. Newer(T) \subseteq Sources /\ Newer(S) \subseteq Newer(T)
  OBVIOUS
<1>3. Cardinality(Newer(S)) <= Cardinality(Newer(T)) /\ Cardinality(Newer(S)) \in Nat /\ Cardinality(Newer(T)) \in Nat
  <2>1. IsFiniteSet(Newer(T))
    BY <1>1, <1>2, FS_Subset
  <2>2. IsFiniteSet(Newer(S)) /\ Cardinality(Newer(S)) <= Cardinality(Newer(T))
    BY <1>2, <2>1, FS_Subset
  <2> QED BY <2>1, <2>2, FS_CardinalityType
<1>4. scene.limit \in Nat
  BY MemoryJobsAssumption
<1>5. Cardinality(Newer(T)) < scene.limit
  BY DEF Newest
<1>6. Cardinality(Newer(S)) < scene.limit
  <2> HIDE DEF Newer
  <2> QED BY <1>3, <1>4, <1>5
<1> QED BY <1>6 DEF Newest

-----------------------------------------------------------------------------
(* What a step leaves alone *)

LEMMA ThreadStays ==
  ASSUME ThreadInv, UNCHANGED <<thread, queue, memory>>
  PROVE  ThreadInv'
<1>1. UNCHANGED <<scene, said, eligible, job, worker, kind, row, unread>>
  BY DEF thread, queue, memory
<1>2. Readable' = Readable /\ (Covered' <=> Covered)
  BY <1>1, ReachStays DEF Readable, Covered
<1>3. \A w \in Workers : RunOK(w)'
  BY <1>1, <1>2 DEF ThreadInv, RunOK, Owns
<1> QED BY <1>1, <1>2, <1>3 DEF ThreadInv, RowOK, DoneMeansRead, Covered, Readable

LEMMA TapeStays ==
  ASSUME TapeInv, UNCHANGED tape
  PROVE  TapeInv'
BY DEF TapeInv, TranscriberOK, tape

-----------------------------------------------------------------------------
(* The texts *)

LEMMA Touched ==
  ASSUME ThreadInv, NEW c \in Sources, Touch(c)
  PROVE  /\ worker' \in [Workers -> Run \cup {None}]
         /\ row' \in Evidence \cup {None} /\ (row' = None <=> row = None) /\ RowOK' /\ kind' = kind
         /\ row # None => row'.known = row.known \ {c}
         /\ \A w \in Workers :
              /\ worker'[w] = None <=> worker[w] = None
              /\ worker[w] # None =>
                   /\ worker'[w].step = worker[w].step /\ worker[w].known \ {c} \subseteq worker'[w].known
                   /\ worker'[w].step = "READ" => worker'[w].sources \ worker'[w].later \subseteq worker'[w].known
<1>1. kind' = kind
  BY DEF Touch
<1>2. /\ row' \in Evidence \cup {None} /\ (row' = None <=> row = None) /\ RowOK'
      /\ row # None => row'.known = row.known \ {c}
  <2>1. CASE row = None
    BY <2>1 DEF Touch, RowOK
  <2>2. CASE row # None
    <3>1. PICK old \in Evidence : old = row
      BY <2>2 DEF ThreadInv
    <3>2. PICK later, known : later = old.later \cup ({c} \cap old.sources) /\ known = old.known \ {c}
      OBVIOUS
    <3>3. PICK new : new = [old EXCEPT !.later = later, !.known = known]
      OBVIOUS
    <3>4. /\ new \in Evidence /\ new.sources = old.sources /\ new.later = later /\ new.known = known
          /\ new.vouched = old.vouched
      BY <3>2, <3>3 DEF Evidence
    <3>5. row' = new
      BY <2>2, <3>1, <3>2, <3>3 DEF Touch
    <3>6. new # None
      BY <3>4, NoneIsNoRow
    <3>7. RowOK'
      BY <1>1, <2>2, <3>1, <3>2, <3>4, <3>5 DEF ThreadInv, RowOK
    <3> QED BY <2>2, <3>1, <3>2, <3>4, <3>5, <3>6, <3>7
  <2> QED BY <2>1, <2>2
<1>3. worker' = [w \in Workers |-> worker'[w]]
  BY DEF Touch
<1>4. ASSUME NEW w \in Workers
      PROVE  /\ worker'[w] \in Run \cup {None}
             /\ worker'[w] = None <=> worker[w] = None
             /\ worker[w] # None =>
                  /\ worker'[w].step = worker[w].step /\ worker[w].known \ {c} \subseteq worker'[w].known
                  /\ worker'[w].step = "READ" => worker'[w].sources \ worker'[w].later \subseteq worker'[w].known
  <2>1. CASE At(w, "CLAIMED") \/ At(w, "READ")
    <3>1. PICK old \in Run : old = worker[w]
      BY <2>1 DEF At, ThreadInv
    <3>2. PICK later, known : later = old.later \cup {c} /\ known = old.known \ {c}
      OBVIOUS
    <3>3. PICK new : new = [old EXCEPT !.later = later, !.known = known]
      OBVIOUS
    <3>4. /\ new \in Run /\ new.sources = old.sources /\ new.later = later /\ new.known = known
          /\ new.step = old.step
      BY <3>2, <3>3 DEF Run
    <3>5. worker'[w] = new
      BY <2>1, <3>1, <3>2, <3>3 DEF Touch
    <3>6. new # None /\ old # None
      BY <3>4, NoneIsNoRow
    <3>7. old.step = "READ" => old.sources \ old.later \subseteq old.known
      BY <3>1, <3>6 DEF ThreadInv, RunOK
    <3> QED BY <3>1, <3>2, <3>4, <3>5, <3>6, <3>7
  <2>2. CASE ~At(w, "CLAIMED") /\ ~At(w, "READ")
    <3>1. worker'[w] = worker[w]
      BY <2>2 DEF Touch
    <3> QED BY <2>2, <3>1 DEF At, ThreadInv
  <2> QED BY <2>1, <2>2
<1> QED BY <1>1, <1>2, <1>3, <1>4

LEMMA Queues ==
  ASSUME job \in Job, NEW c \in Sources, Queue(c)
  PROVE  /\ job' \in Job /\ job'.lease = job.lease
         /\ job.status = "processing" => job'.status = "processing" /\ job'.rerun
         /\ job.status # "processing" => job'.status = "pending"
<1>1. CASE job.status = "processing"
  <2>1. job' = [job EXCEPT !.of = c, !.rerun = TRUE, !.status = "processing", !.attempts = job.attempts]
    BY <1>1 DEF Queue, Rerun, Processing, Job
  <2> QED BY <1>1, <2>1 DEF Job
<1>2. CASE job.status # "processing"
  <2>1. PICK rerun \in BOOLEAN : rerun = Rerun
    BY DEF Rerun, Processing
  <2>2. job' = [job EXCEPT !.of = c, !.rerun = rerun, !.status = "pending", !.attempts = 0]
    BY <1>2, <2>1 DEF Queue, Processing, Job
  <2>3. 0 \in 0 .. MaxAttempts
    BY MemoryJobsAssumption
  <2>4. job' \in Job
    BY <2>2, <2>3 DEF Job
  <2>5. job'.lease = job.lease /\ job'.status = "pending"
    BY <2>2 DEF Job
  <2> QED BY <1>2, <2>4, <2>5
<1> QED BY <1>1, <1>2

LEMMA UpdateKeeps ==
  ASSUME ThreadInv, NEW c \in Sources, scene' = scene, eligible' \in {eligible, eligible \cup {c}}, Update(c)
  PROVE  ThreadInv'
<1>1. said' = said \cup {c} /\ Touch(c)
  BY DEF Update
<1>2. /\ scene' \in Scenes /\ said' \subseteq Sources /\ eligible' \subseteq Sources
      /\ kind' = kind /\ kind' \in {"summary", "fact"}
  BY <1>1, Touched DEF ThreadInv
<1>3. CASE c \in eligible'
  <2>1. Queue(c)
    BY <1>3 DEF Update
  <2>2. /\ job' \in Job /\ job'.lease = job.lease
        /\ job.status = "processing" => job'.status = "processing" /\ job'.rerun
        /\ job.status # "processing" => job'.status = "pending"
    BY <2>1, Queues DEF ThreadInv
  <2>3. unread' \in BOOLEAN /\ \A w \in Workers : Owns(w) /\ At(w, "ENOUGH") => unread'
    BY <2>1 DEF Queue, ThreadInv
  <2>4. job'.lease # None <=> job'.status = "processing"
    BY <2>2 DEF ThreadInv
  <2>5. DoneMeansRead'
    BY <2>2 DEF DoneMeansRead
  <2>6. ASSUME NEW w \in Workers PROVE RunOK(w)'
    <3>1. Owns(w)' => Owns(w) /\ job'.rerun
      BY <2>2, MemoryJobsAssumption DEF Owns, ThreadInv
    <3>2. Owns(w)' /\ worker'[w] # None /\ worker'[w].step = "ENOUGH" => unread'
      BY <1>1, <2>3, <3>1, Touched DEF At
    <3> QED BY <1>1, <3>1, <3>2, Touched DEF RunOK
  <2> QED BY <1>1, <1>2, <2>2, <2>3, <2>4, <2>5, <2>6, Touched DEF ThreadInv
<1>4. CASE c \notin eligible'
  <2>1. UNCHANGED <<eligible, job, unread>>
    BY <1>4 DEF Update
  <2>2. Readable' = Readable /\ c \notin Readable
    <3>1. (eligible \cap (said \cup {Call}))' = eligible \cap (said \cup {Call})
      BY <1>1, <1>4, <2>1
    <3>2. InReach' = InReach
      BY <3>1 DEF InReach, Newest
    <3>3. c \notin InReach
      BY <1>4, <2>1, NewestOf DEF InReach
    <3> QED BY <1>1, <3>2, <3>3 DEF Readable
  <2>3. Covered => Covered'
    BY <1>1, <2>2, Touched DEF Covered
  <2>4. DoneMeansRead'
    BY <1>2, <2>1, <2>2, <2>3 DEF ThreadInv, DoneMeansRead, Covered, Readable
  <2>5. ASSUME NEW w \in Workers PROVE RunOK(w)'
    <3>1. RunOK(w) /\ (Owns(w)' <=> Owns(w))
      BY <2>1 DEF ThreadInv, Owns
    <3> QED BY <1>1, <1>2, <2>1, <2>2, <2>3, <3>1, Touched DEF RunOK
  <2> QED BY <1>1, <1>2, <2>1, <2>4, <2>5, Touched DEF ThreadInv
<1> QED BY <1>3, <1>4

\* What was said is evaluated, or evaluated differently: the texts that may be read change.
LEMMA JudgeKeeps ==
  ASSUME ThreadInv, Judge
  PROVE  ThreadInv'
<1>1. scene' = scene /\ eligible' = eligible \cup {Call} /\ Call \in Sources
  BY DEF Judge, Sources
<1>2. CASE Call \in said
  BY <1>1, <1>2, UpdateKeeps DEF Judge
<1>3. CASE Call \notin said
  <2>1. UNCHANGED <<said, job, worker, unread, kind, row>>
    BY <1>3 DEF Judge, queue, memory
  <2>2. Readable' \subseteq Readable /\ eligible' \subseteq Sources
    <3> DEFINE S == eligible \cap (said \cup {Call})
               T == eligible' \cap (said \cup {Call})
    <3>1. S \in SUBSET Sources /\ T \in SUBSET Sources /\ S \subseteq T /\ scene \in Scenes /\ T \cap said = S \cap said
      BY <1>1, <1>3 DEF ThreadInv, Sources
    <3> HIDE DEF S, T
    <3>2. Newest(T) \cap S \subseteq Newest(S) /\ Newest(T) \subseteq T
      BY <3>1, NewestOfMore, NewestOf
    <3>3. InReach = Newest(S) /\ InReach' = Newest(T)
      BY <1>1, <2>1 DEF InReach, Newest, S, T
    <3> QED BY <1>1, <2>1, <3>1, <3>2, <3>3 DEF Readable, ThreadInv
  <2>5. Covered => Covered'
    BY <2>1, <2>2 DEF Covered
  <2>3. \A w \in Workers : RunOK(w)'
    BY <2>1, <2>2, <2>5 DEF ThreadInv, RunOK, Owns
  <2>4. DoneMeansRead'
    BY <2>1, <2>5 DEF ThreadInv, DoneMeansRead, Covered, Readable
  <2> QED BY <1>1, <2>1, <2>2, <2>3, <2>4 DEF ThreadInv, RowOK
<1> QED BY <1>2, <1>3

LEMMA CorrectKeeps ==
  ASSUME ThreadInv, NEW c \in Sources, Correct(c)
  PROVE  ThreadInv'
<1>1. Touch(c) /\ UNCHANGED <<scene, said, job>>
  BY DEF Correct
<1>2. kind' = kind /\ \A w \in Workers : RunOK(w) /\ (Owns(w)' <=> Owns(w))
  BY <1>1, Touched DEF ThreadInv, Owns
<1>3. eligible' \subseteq Sources /\ unread' \in BOOLEAN
  BY DEF Correct, ThreadInv
<1>4. CASE unread'
  <2>1. \A w \in Workers : RunOK(w)'
    BY <1>1, <1>4, Touched DEF RunOK
  <2>2. DoneMeansRead'
    BY <1>4 DEF DoneMeansRead
  <2> QED BY <1>1, <1>2, <1>3, <2>1, <2>2, Touched DEF ThreadInv
<1>5. CASE ~unread'
  <2>1. unread' = unread /\ Readable' \subseteq Readable \ {c}
    BY <1>1, <1>5 DEF Correct, Readable, ThreadInv
  <2>2. Covered => Covered'
    BY <1>1, <2>1, Touched DEF Covered
  <2>3. DoneMeansRead'
    BY <1>1, <1>2, <2>1, <2>2 DEF ThreadInv, DoneMeansRead, Covered, Readable
  <2>4. \A w \in Workers : RunOK(w)'
    BY <1>1, <1>2, <2>1, <2>2, Touched DEF RunOK
  <2> QED BY <1>1, <1>2, <1>3, <2>3, <2>4, Touched DEF ThreadInv
<1> QED BY <1>4, <1>5

-----------------------------------------------------------------------------
(* The job and its workers *)

\* The job goes to somebody else, or to nobody, and is not done.
LEMMA Handed ==
  ASSUME ThreadInv, job' \in Job, worker' \in [Workers -> Run \cup {None}], unread' \in BOOLEAN,
         job'.lease # None <=> job'.status = "processing", job'.status # "done",
         UNCHANGED <<scene, said, eligible, kind, row>>,
         \A w \in Workers :
           /\ worker'[w] = worker[w] \/ (worker'[w] # None /\ worker'[w].step = "CLAIMED")
           /\ Owns(w)' => worker'[w] = None \/ worker'[w].step = "CLAIMED"
  PROVE  ThreadInv'
<1>1. \A w \in Workers : RunOK(w)'
  <2>1. Readable' = Readable /\ (Covered' <=> Covered)
    BY ReachStays DEF Readable, Covered
  <2> QED BY <2>1 DEF ThreadInv, RunOK
<1> QED BY <1>1 DEF ThreadInv, RowOK, DoneMeansRead

LEMMA RequeueKeeps ==
  ASSUME ThreadInv, NEW c \in Sources, Requeue(c)
  PROVE  ThreadInv'
<1>1. UNCHANGED <<scene, said, eligible, worker, unread, kind, row>>
  BY DEF Requeue, thread, memory
<1>2. 0 \in 0 .. MaxAttempts
  BY MemoryJobsAssumption
<1>3. job' = [status |-> "pending", of |-> c, rerun |-> FALSE, attempts |-> 0, lease |-> None]
  BY DEF Requeue
<1>4. job' \in Job
  BY <1>2, <1>3, Zenon DEF Job
<1>5. job'.status = "pending" /\ job'.lease = None
  BY <1>3
<1>6. \A w \in Workers : ~Owns(w)'
  BY <1>5, MemoryJobsAssumption DEF Owns
<1> QED BY <1>1, <1>4, <1>5, <1>6, Handed DEF ThreadInv

LEMMA Counts == ASSUME NEW n \in 0 .. MaxAttempts PROVE Count(n) \in 0 .. MaxAttempts
BY MemoryJobsAssumption DEF Count

LEMMA ClaimKeeps ==
  ASSUME ThreadInv, NEW w \in Workers, Claim(w)
  PROVE  ThreadInv'
<1>1. worker[w] = None /\ unread' = FALSE /\ UNCHANGED <<scene, said, eligible, kind, row>>
  BY DEF Claim, thread, memory
<1>2. PICK n : n = Count(job.attempts)
  OBVIOUS
<1>3. n \in 0 .. MaxAttempts
  BY <1>2, Counts DEF ThreadInv, Job
<1>4. job' = [job EXCEPT !.status = "processing", !.attempts = n, !.lease = w, !.rerun = FALSE]
  BY <1>2 DEF Claim, ThreadInv, Job
<1>5. PICK no \in BOOLEAN : no = FALSE
  OBVIOUS
<1>6. job' = [job EXCEPT !.status = "processing", !.attempts = n, !.lease = w, !.rerun = no]
  BY <1>4, <1>5
<1>7. job' \in Job /\ job'.status = "processing" /\ job'.lease = w
  BY <1>3, <1>6 DEF ThreadInv, Job
<1>8. PICK run : run = [step |-> "CLAIMED", of |-> job.of, sources |-> {}, later |-> {}, known |-> {}]
  OBVIOUS
<1>9. run \in Run /\ run # None /\ run.step = "CLAIMED"
  BY <1>8, NoneIsNoRow DEF Run, Steps, ThreadInv, Job
<1>10. worker' = [worker EXCEPT ![w] = run]
  BY <1>8 DEF Claim
<1>11. /\ worker' \in [Workers -> Run \cup {None}] /\ worker'[w] = run
       /\ \A x \in Workers \ {w} : worker'[x] = worker[x]
  BY <1>9, <1>10 DEF ThreadInv
<1>12. \A x \in Workers : Owns(x)' => x = w
  BY <1>7 DEF Owns
<1> QED BY <1>1, <1>7, <1>9, <1>11, <1>12, MemoryJobsAssumption, Handed

\* A run that ends, and gives the lease back if it has it.
LEMMA Leaves ==
  ASSUME ThreadInv, NEW w \in Workers, NEW status \in {"pending", "done", "failed"}, Leave(w, status),
         UNCHANGED <<scene, said, eligible, kind, row>>, unread' \in BOOLEAN, unread => unread',
         status = "done" /\ Owns(w) /\ ~unread' /\ kind = "summary" => Covered
  PROVE  ThreadInv'
<1>1. /\ worker' \in [Workers -> Run \cup {None}] /\ worker'[w] = None
      /\ \A x \in Workers \ {w} : worker'[x] = worker[x]
  BY DEF Leave, ThreadInv
<1>2. Readable' = Readable /\ (Covered' <=> Covered)
  BY ReachStays DEF Readable, Covered
<1>3. CASE Owns(w)
  <2>1. job' \in Job /\ job'.status = status /\ job'.lease = None
    BY <1>3 DEF Leave, ThreadInv, Job
  <2>2. \A x \in Workers : ~Owns(x)'
    BY <2>1, MemoryJobsAssumption DEF Owns
  <2>3. \A x \in Workers : RunOK(x)'
    BY <1>1, <2>2 DEF ThreadInv, RunOK
  <2>4. DoneMeansRead'
    BY <1>2, <1>3, <2>1 DEF DoneMeansRead, Covered, Readable
  <2> QED BY <1>1, <2>1, <2>3, <2>4 DEF ThreadInv, RowOK
<1>4. CASE ~Owns(w)
  <2>1. job' = job
    BY <1>4 DEF Leave
  <2>2. \A x \in Workers : RunOK(x)'
    BY <1>1, <1>2, <2>1 DEF ThreadInv, RunOK, Owns
  <2>3. DoneMeansRead'
    BY <1>2, <2>1 DEF ThreadInv, DoneMeansRead, Covered, Readable
  <2> QED BY <1>1, <2>1, <2>2, <2>3 DEF ThreadInv, RowOK
<1> QED BY <1>3, <1>4

LEMMA LeavingSteps ==
  ASSUME ThreadInv, NEW w \in Workers, Skip(w) \/ Finish(w) \/ Fail(w)
  PROVE  ThreadInv'
<1>1. UNCHANGED <<scene, said, eligible, kind, row>>
  BY DEF Skip, Finish, Fail, thread, memory
<1>2. CASE Skip(w)
  <2>1. Leave(w, "done") /\ unread' = (unread \/ Owns(w))
    BY <1>2 DEF Skip
  <2>2. unread' \in BOOLEAN /\ (unread => unread') /\ (Owns(w) => unread')
    BY <2>1
  <2> QED BY <1>1, <2>1, <2>2, Leaves
<1>3. CASE Finish(w)
  <2>1. RunOK(w) /\ unread' = unread /\ unread \in BOOLEAN
    BY <1>3 DEF Finish, ThreadInv
  <2>2. CASE At(w, "RERUN")
    BY <1>1, <1>3, <2>1, <2>2, Leaves DEF Finish
  <2>3. CASE At(w, "ENOUGH") /\ ~At(w, "RERUN")
    <3>1. Leave(w, "done")
      BY <1>3, <2>3 DEF Finish
    <3>2. Owns(w) /\ ~unread' /\ kind = "summary" => Covered
      BY <2>1, <2>3 DEF RunOK, At
    <3> QED BY <1>1, <2>1, <3>1, <3>2, Leaves
  <2> QED BY <1>3, <2>2, <2>3 DEF Finish
<1>4. CASE Fail(w)
  <2>1. unread' = unread /\ unread \in BOOLEAN
    BY <1>4 DEF Fail, ThreadInv
  <2>2. PICK status \in {"failed", "pending"} : Leave(w, status)
    BY <1>4 DEF Fail
  <2> QED BY <1>1, <2>1, <2>2, Leaves
<1> QED BY <1>2, <1>3, <1>4

\* A run goes on; if it wrote the row, it has the lease or the change is noted.
LEMMA Runs ==
  ASSUME ThreadInv, NEW w \in Workers, NEW run \in Run \cup {None}, worker' = [worker EXCEPT ![w] = run],
         UNCHANGED <<scene, said, eligible, kind, job>>, unread' \in BOOLEAN, unread => unread',
         row' \in Evidence \cup {None}, RowOK',
         row' = row \/ Owns(w) \/ unread' \/ kind = "fact", RunOK(w)'
  PROVE  ThreadInv'
<1>1. worker' \in [Workers -> Run \cup {None}] /\ \A x \in Workers \ {w} : worker'[x] = worker[x]
  BY DEF ThreadInv
<1>2. Readable' = Readable
  BY ReachStays DEF Readable
<1>3. ASSUME NEW x \in Workers \ {w} PROVE RunOK(x)'
  <2>1. RunOK(x) /\ (Owns(x)' <=> Owns(x)) /\ (Owns(w) => ~Owns(x))
    BY DEF ThreadInv, Owns
  <2>2. CASE row' = row
    BY <1>1, <1>2, <2>1, <2>2 DEF RunOK, Covered
  <2>3. CASE unread' \/ kind = "fact" \/ Owns(w)
    BY <1>1, <1>2, <2>1, <2>3 DEF RunOK
  <2> QED BY <2>2, <2>3
<1>4. DoneMeansRead'
  BY <1>2, MemoryJobsAssumption DEF ThreadInv, DoneMeansRead, Owns, Readable
<1> QED BY <1>1, <1>3, <1>4 DEF ThreadInv

LEMMA ReadKeeps ==
  ASSUME ThreadInv, NEW w \in Workers, Read(w)
  PROVE  ThreadInv'
<1>1. UNCHANGED <<scene, said, eligible, job, unread, kind, row>> /\ At(w, "CLAIMED")
  BY DEF Read, thread, memory
<1>2. PICK old \in Run : old = worker[w]
  BY <1>1 DEF At, ThreadInv
<1>3. PICK reach \in SUBSET Sources : reach = InReach
  BY ReachIn
<1>4. PICK run : run = [old EXCEPT !.step = "READ", !.sources = reach, !.known = reach]
  OBVIOUS
<1>5. run \in Run /\ run.step = "READ" /\ run.sources = reach /\ run.known = reach
  BY <1>3, <1>4 DEF Run, Steps
<1>6. worker' = [worker EXCEPT ![w] = run]
  BY <1>2, <1>3, <1>4 DEF Read, ThreadInv, Run
<1>7. worker'[w] = run /\ Readable' = Readable /\ Readable \subseteq reach
  BY <1>1, <1>3, <1>6, ReachStays DEF ThreadInv, Readable
<1>8. RunOK(w)'
  BY <1>5, <1>7 DEF RunOK
<1> QED BY <1>1, <1>5, <1>6, <1>8, Runs DEF ThreadInv, RowOK

LEMMA CheckRerunKeeps ==
  ASSUME ThreadInv, NEW w \in Workers, CheckRerun(w)
  PROVE  ThreadInv'
<1>1. UNCHANGED <<scene, said, eligible, job, unread, kind, row>> /\ At(w, "STORED")
  BY DEF CheckRerun, thread, memory
<1>2. PICK old \in Run : old = worker[w]
  BY <1>1 DEF At, ThreadInv
<1>3. PICK step \in {"RERUN", "ENOUGH"} : step = IF job.rerun THEN "RERUN" ELSE "ENOUGH"
  OBVIOUS
<1>4. PICK run : run = [old EXCEPT !.step = step]
  OBVIOUS
<1>5. run \in Run /\ run.step = step
  BY <1>3, <1>4 DEF Run, Steps
<1>6. worker' = [worker EXCEPT ![w] = run]
  BY <1>2, <1>3, <1>4 DEF CheckRerun, ThreadInv, Run
<1>7. worker'[w] = run /\ (Covered' <=> Covered)
  BY <1>1, <1>6, ReachStays DEF ThreadInv, Covered, Readable
<1>8. RunOK(w) /\ worker[w] # None /\ worker[w].step = "STORED" /\ (Owns(w)' <=> Owns(w))
  BY <1>1 DEF ThreadInv, At, Owns
<1>9. RunOK(w)'
  BY <1>1, <1>3, <1>5, <1>7, <1>8 DEF RunOK
<1> QED BY <1>1, <1>5, <1>6, <1>9, Runs DEF ThreadInv, RowOK

LEMMA StoredRun == Stored \in Run /\ Stored # None /\ Stored.step = "STORED"
BY NoneIsNoRow DEF Stored, Run, Steps, Sources

LEMMA StoreSummaryKeeps ==
  ASSUME ThreadInv, NEW w \in Workers, StoreSummary(w)
  PROVE  ThreadInv'
<1>1. UNCHANGED <<scene, said, eligible, job, kind>> /\ At(w, "READ") /\ kind = "summary"
  BY DEF StoreSummary, thread
<1>2. PICK old \in Run : old = worker[w] /\ old # None /\ old.step = "READ"
  BY <1>1 DEF At, ThreadInv
<1>3. PICK cited \in SUBSET Sources, vouched \in BOOLEAN :
        /\ row' = [sources |-> cited, later |-> old.later \cap cited, known |-> old.known, vouched |-> vouched]
        /\ vouched => cited \subseteq old.sources
  <2>1. PICK cited \in Cited(w) \cup {{old.of}} :
          row' = [sources |-> cited, later |-> old.later \cap cited, known |-> old.known,
                  vouched |-> cited \subseteq old.sources]
    BY <1>2 DEF StoreSummary, Horizon
  <2>2. cited \in SUBSET Sources
    BY <1>2, <2>1 DEF Cited, Run
  <2>3. PICK vouched \in BOOLEAN : vouched = (cited \subseteq old.sources)
    OBVIOUS
  <2> QED BY <2>1, <2>2, <2>3
<1>4. /\ row' \in Evidence /\ row' # None /\ row'.sources = cited /\ row'.later = old.later \cap cited
      /\ row'.known = old.known /\ row'.vouched = vouched
  BY <1>3, NoneIsNoRow DEF Evidence, Run
<1>5. RunOK(w) /\ old.sources \ old.later \subseteq old.known
  BY <1>2 DEF ThreadInv, RunOK
<1>6. RowOK'
  BY <1>1, <1>3, <1>4, <1>5 DEF RowOK
<1>7. worker' = [worker EXCEPT ![w] = Stored] /\ worker'[w] = Stored
  BY DEF StoreSummary, ThreadInv
<1>8. unread' \in BOOLEAN /\ (unread => unread') /\ (Owns(w) \/ unread')
  BY DEF StoreSummary, ThreadInv
<1>9. Owns(w) /\ ~unread' /\ ~job.rerun => Covered'
  <2>1. Readable' = Readable /\ (Owns(w) /\ ~unread' /\ ~job.rerun => Readable \subseteq old.known)
    BY <1>1, <1>2, <1>5, <1>8, ReachStays DEF RunOK, Readable
  <2> QED BY <1>4, <2>1 DEF Covered
<1>10. RunOK(w)'
  BY <1>1, <1>7, <1>9, StoredRun DEF RunOK, Owns
<1> QED BY <1>1, <1>4, <1>6, <1>7, <1>8, <1>10, Runs, StoredRun

LEMMA FactKeeps ==
  ASSUME ThreadInv, NEW w \in Workers, StoreFact(w) \/ NoFact(w)
  PROVE  ThreadInv'
<1>1. UNCHANGED <<scene, said, eligible, job, unread, kind>> /\ At(w, "READ") /\ kind = "fact"
  BY DEF StoreFact, NoFact, thread, memory
<1>2. worker' = [worker EXCEPT ![w] = Stored] /\ worker'[w] = Stored
  BY DEF StoreFact, NoFact, ThreadInv
<1>3. RunOK(w)'
  BY <1>1, <1>2, StoredRun DEF RunOK
<1>4. row' \in Evidence \cup {None} /\ RowOK'
  <2>1. CASE NoFact(w)
    BY <2>1 DEF NoFact, memory, ThreadInv, RowOK
  <2>2. CASE StoreFact(w)
    <3>1. PICK old \in Run : old = worker[w] /\ old # None /\ old.step = "READ"
      BY <1>1 DEF At, ThreadInv
    <3>2. old.sources \ old.later \subseteq old.known
      BY <3>1 DEF ThreadInv, RunOK
    <3>3. PICK cited \in SUBSET old.sources :
            /\ cited # {}
            /\ \/ row' = [sources |-> cited, later |-> old.later \cap cited, known |-> old.known \cap cited,
                          vouched |-> TRUE]
               \/ /\ row # None
                  /\ row' = [sources |-> cited \cup row.sources, later |-> old.later \cap (cited \cup row.sources),
                             known |-> (old.known \cap cited) \cup (row.known \ cited), vouched |-> TRUE]
      BY <2>2, <3>1 DEF StoreFact, Cited, Horizon
    <3>4. PICK before \in SUBSET Sources, known \in SUBSET Sources :
            /\ row' = [sources |-> cited \cup before, later |-> old.later \cap (cited \cup before),
                       known |-> (old.known \cap cited) \cup known, vouched |-> TRUE]
      <4>1. CASE row' = [sources |-> cited, later |-> old.later \cap cited, known |-> old.known \cap cited,
                           vouched |-> TRUE]
        <5>1. cited \cup {} = cited /\ (old.known \cap cited) \cup {} = old.known \cap cited /\ {} \in SUBSET Sources
          OBVIOUS
        <5> QED BY <4>1, <5>1
      <4>2. CASE row # None /\ row' = [sources |-> cited \cup row.sources,
                                       later |-> old.later \cap (cited \cup row.sources),
                                       known |-> (old.known \cap cited) \cup (row.known \ cited),
                                       vouched |-> TRUE]
        BY <4>2 DEF ThreadInv, Evidence
      <4> QED BY <3>3, <4>1, <4>2
    <3>5. /\ row' \in Evidence /\ row'.sources = cited \cup before
          /\ row'.later = old.later \cap (cited \cup before) /\ row'.known = (old.known \cap cited) \cup known
      BY <3>4 DEF Evidence, Run
    <3>6. RowOK'
      BY <1>1, <3>2, <3>3, <3>5 DEF RowOK
    <3> QED BY <3>5, <3>6
  <2> QED BY <2>1, <2>2
<1> QED BY <1>1, <1>2, <1>3, <1>4, Runs, StoredRun DEF ThreadInv

LEMMA SetFactStatusKeeps ==
  ASSUME ThreadInv, SetFactStatus
  PROVE  ThreadInv'
<1>1. /\ UNCHANGED <<scene, said, eligible, job, worker, unread, kind>> /\ kind = "fact" /\ row # None
      /\ row' = [row EXCEPT !.later = {}, !.vouched = FALSE]
  BY DEF SetFactStatus, thread, queue
<1>2. PICK no \in BOOLEAN : no = FALSE
  OBVIOUS
<1>3. row' \in Evidence /\ ~row'.vouched
  BY <1>1, <1>2 DEF ThreadInv, Evidence
<1>4. \A w \in Workers : RunOK(w)'
  BY <1>1 DEF ThreadInv, RunOK
<1> QED BY <1>1, <1>3, <1>4 DEF ThreadInv, RowOK, DoneMeansRead

-----------------------------------------------------------------------------
(* The recording *)

LEMMA EnqueueKeeps ==
  ASSUME TapeInv, NEW status \in {"pending", "skipped", "done"}, Enqueue(status)
  PROVE  TapeInv'
<1>1. recording.status = "none" /\ UNCHANGED <<audio, transcriber>>
  BY DEF Enqueue
<1>2. PICK stored \in BOOLEAN : stored = (status = "done")
  OBVIOUS
<1>3. recording' = [recording EXCEPT !.status = status, !.transcript = stored]
  BY <1>2 DEF Enqueue
<1>4. recording' \in Recording /\ recording'.status = status /\ recording'.transcript = stored
  BY <1>3 DEF TapeInv, Recording
<1>5. audio
  BY <1>1 DEF TapeInv
<1>6. \A t \in Transcribers : TranscriberOK(t)'
  BY <1>1 DEF TapeInv, TranscriberOK
<1> QED BY <1>1, <1>2, <1>4, <1>5, <1>6 DEF TapeInv

LEMMA TranscribeKeeps ==
  ASSUME TapeInv, Transcribe
  PROVE  TapeInv'
<1>1. recording.status # "none" /\ UNCHANGED <<audio, transcriber>>
  BY DEF Transcribe
<1>2. 0 \in 0 .. MaxAttempts
  BY MemoryJobsAssumption
<1>3. /\ recording' \in Recording /\ recording'.status = "pending" /\ recording'.transcript = recording.transcript
      /\ recording'.lease = recording.lease
  BY <1>2 DEF Transcribe, TapeInv, Recording
<1>4. \A t \in Transcribers : TranscriberOK(t)'
  BY <1>1, <1>3 DEF TapeInv, TranscriberOK
<1> QED BY <1>1, <1>3, <1>4 DEF TapeInv

LEMMA ClaimRecordingKeeps ==
  ASSUME TapeInv, NEW t \in Transcribers, ClaimRecording(t)
  PROVE  TapeInv'
<1>1. /\ recording.status # "none" /\ audio' = audio
      /\ recording.lease # None => transcriber[recording.lease] = None
  BY DEF ClaimRecording
<1>2. PICK n : n = Count(recording.attempts)
  OBVIOUS
<1>3. n \in 0 .. MaxAttempts
  BY <1>2, Counts DEF TapeInv, Recording
<1>4. recording' = [recording EXCEPT !.status = "transcribing", !.attempts = n, !.lease = t]
  BY <1>2 DEF ClaimRecording, TapeInv, Recording
<1>5. /\ recording' \in Recording /\ recording'.status = "transcribing" /\ recording'.lease = t
      /\ recording'.transcript = recording.transcript
  BY <1>3, <1>4 DEF TapeInv, Recording
<1>6. /\ transcriber' \in [Transcribers -> Transcribing \cup {None}] /\ transcriber'[t] = "CLAIMED"
      /\ \A x \in Transcribers \ {t} : transcriber'[x] = transcriber[x]
  BY DEF ClaimRecording, TapeInv, Transcribing
<1>7. ASSUME NEW x \in Transcribers PROVE TranscriberOK(x)'
  <2>1. TranscriberOK(x)
    BY DEF TapeInv
  <2>2. CASE x = t
    BY <1>5, <1>6, <2>2 DEF TranscriberOK
  <2>3. CASE x # t
    <3>1. transcriber[x] \notin {"CLAIMED", "FETCHED"}
      BY <1>1, <2>1, MemoryJobsAssumption, NoneIsNoRow DEF TranscriberOK, Transcribing
    <3> QED BY <1>5, <1>6, <2>1, <2>3, <3>1 DEF TranscriberOK
  <2> QED BY <2>2, <2>3
<1> QED BY <1>1, <1>5, <1>6, <1>7 DEF TapeInv

\* A transcriber goes on, or stops, and the recording is left as it is.
LEMMA Transcribes ==
  ASSUME TapeInv, NEW t \in Transcribers, NEW at \in Transcribing \cup {None},
         transcriber' = [transcriber EXCEPT ![t] = at], recording' = recording, audio' \in BOOLEAN,
         at \in {"CLAIMED", "FETCHED"} => recording.lease = t /\ recording.status # "none",
         at \in {"COMMITTED", "PROJECTED"} \/ (~audio' /\ audio) =>
           recording.transcript /\ recording.status # "none"
  PROVE  TapeInv'
<1>1. /\ transcriber' \in [Transcribers -> Transcribing \cup {None}] /\ transcriber'[t] = at
      /\ \A x \in Transcribers \ {t} : transcriber'[x] = transcriber[x]
  BY DEF TapeInv
<1>2. ASSUME NEW x \in Transcribers PROVE TranscriberOK(x)'
  <2>1. TranscriberOK(x)
    BY DEF TapeInv
  <2> QED BY <1>1, <2>1 DEF TranscriberOK
<1> QED BY <1>1, <1>2 DEF TapeInv

\* The transcriber that has the lease gives it back, with the transcript or without.
LEMMA GivesBack ==
  ASSUME TapeInv, NEW t \in Transcribers, transcriber[t] \in {"CLAIMED", "FETCHED"},
         NEW status \in {"pending", "failed", "done"}, NEW stored \in BOOLEAN, NEW at \in {"COMMITTED", None},
         recording' = [recording EXCEPT !.status = status, !.transcript = stored, !.lease = None],
         transcriber' = [transcriber EXCEPT ![t] = at], audio' = audio,
         stored \/ (~recording.transcript /\ at = None /\ status # "done")
  PROVE  TapeInv'
<1>1. recording.lease = t
  BY DEF TapeInv, TranscriberOK
<1>2. /\ recording' \in Recording /\ recording'.status = status /\ recording'.transcript = stored
      /\ recording'.lease = None
  BY DEF TapeInv, Recording
<1>3. /\ transcriber' \in [Transcribers -> Transcribing \cup {None}] /\ transcriber'[t] = at
      /\ \A x \in Transcribers \ {t} : transcriber'[x] = transcriber[x]
  BY DEF TapeInv, Transcribing
<1>4. ASSUME NEW x \in Transcribers PROVE TranscriberOK(x)'
  <2>1. TranscriberOK(x)
    BY DEF TapeInv
  <2>2. CASE x = t
    BY <1>2, <1>3, <2>2, NoneIsNoRow DEF TranscriberOK, Transcribing
  <2>3. CASE x # t
    <3>1. transcriber[x] \notin {"CLAIMED", "FETCHED"}
      BY <1>1, <2>1, <2>3 DEF TranscriberOK
    <3> QED BY <1>2, <1>3, <2>1, <2>3, <3>1 DEF TranscriberOK
  <2> QED BY <2>2, <2>3
<1> QED BY <1>2, <1>3, <1>4 DEF TapeInv

LEMMA CommitKeeps ==
  ASSUME TapeInv, NEW t \in Transcribers, Commit(t)
  PROVE  TapeInv'
<1>1. transcriber[t] = "FETCHED" /\ transcriber' = [transcriber EXCEPT ![t] = "COMMITTED"] /\ audio' = audio
  BY DEF Commit
<1>2. recording.lease = t
  BY <1>1 DEF TapeInv, TranscriberOK
<1>3. PICK stored \in BOOLEAN : stored = TRUE
  OBVIOUS
<1>4. recording' = [recording EXCEPT !.status = "done", !.transcript = stored, !.lease = None]
  BY <1>2, <1>3 DEF Commit
<1> QED BY <1>1, <1>3, <1>4, GivesBack

LEMMA FailRecordingKeeps ==
  ASSUME TapeInv, NEW t \in Transcribers, FailRecording(t)
  PROVE  TapeInv'
<1>1. /\ transcriber[t] \in {"CLAIMED", "FETCHED"} /\ transcriber' = [transcriber EXCEPT ![t] = None]
      /\ audio' = audio
  BY DEF FailRecording
<1>2. recording.lease = t
  BY <1>1 DEF TapeInv, TranscriberOK
<1>3. PICK status \in {"failed", "pending"} :
        status = IF recording.attempts = MaxAttempts THEN "failed" ELSE "pending"
  OBVIOUS
<1>4. PICK stored \in BOOLEAN : stored = recording.transcript
  BY DEF TapeInv, Recording
<1>5. recording' = [recording EXCEPT !.status = status, !.transcript = stored, !.lease = None]
  BY <1>2, <1>3, <1>4 DEF FailRecording, TapeInv, Recording
<1> QED BY <1>1, <1>3, <1>4, <1>5, GivesBack

LEMMA TranscriberSteps ==
  ASSUME TapeInv, NEW t \in Transcribers, Fetch(t) \/ Project(t) \/ Cleanup(t)
  PROVE  TapeInv'
<1>1. TranscriberOK(t) /\ audio \in BOOLEAN
  BY DEF TapeInv
<1>2. CASE Fetch(t)
  <2>1. transcriber' = [transcriber EXCEPT ![t] = "FETCHED"] /\ UNCHANGED <<recording, audio>>
    BY <1>2 DEF Fetch
  <2>2. recording.lease = t /\ recording.status # "none"
    BY <1>1, <1>2 DEF Fetch, TranscriberOK
  <2> QED BY <1>1, <2>1, <2>2, Transcribes DEF Transcribing
<1>3. CASE Project(t)
  <2>1. transcriber' = [transcriber EXCEPT ![t] = "PROJECTED"] /\ UNCHANGED <<recording, audio>>
    BY <1>3 DEF Project
  <2>2. recording.transcript /\ recording.status # "none"
    BY <1>1, <1>3 DEF Project, TranscriberOK
  <2> QED BY <1>1, <2>1, <2>2, Transcribes DEF Transcribing
<1>4. CASE Cleanup(t)
  <2>1. transcriber' = [transcriber EXCEPT ![t] = None] /\ recording' = recording /\ audio' \in BOOLEAN
    BY <1>1, <1>4 DEF Cleanup
  <2>2. recording.transcript /\ recording.status # "none"
    BY <1>1, <1>4 DEF Cleanup, Deletable, TranscriberOK
  <2> QED BY <2>1, <2>2, NoneIsNoRow, Transcribes DEF Transcribing
<1> QED BY <1>2, <1>3, <1>4

-----------------------------------------------------------------------------
(* The steps *)

LEMMA TextSteps ==
  ASSUME Inv, \/ LiveTranscript \/ Summarise \/ Judge \/ SetFactStatus
              \/ \E m \in Messages : Write(m)
              \/ \E c \in Sources : Correct(c) \/ Requeue(c)
  PROVE  Inv'
<1>1. UNCHANGED tape
  BY DEF LiveTranscript, Summarise, Judge, Write, Correct, Requeue, SetFactStatus
<1>2. TapeInv'
  BY <1>1, TapeStays DEF Inv
<1>3. Call \in Sources /\ \A m \in Messages : m \in Sources
  BY DEF Sources
<1>4. CASE LiveTranscript \/ Summarise
  BY <1>2, <1>3, <1>4, UpdateKeeps DEF LiveTranscript, Summarise, Inv
<1>5. ASSUME NEW m \in Messages, Write(m) PROVE Inv'
  BY <1>2, <1>3, <1>5, UpdateKeeps DEF Write, Inv
<1> QED BY <1>2, <1>4, <1>5, JudgeKeeps, CorrectKeeps, RequeueKeeps, SetFactStatusKeeps DEF Inv

LEMMA WorkerSteps ==
  ASSUME Inv, NEW w \in Workers, Claim(w) \/ Advance(w)
  PROVE  Inv'
<1>1. UNCHANGED tape
  BY DEF Claim, Advance, Read, Skip, StoreFact, NoFact, StoreSummary, CheckRerun, Finish, Fail
<1>2. ThreadInv'
  BY ClaimKeeps, ReadKeeps, LeavingSteps, FactKeeps, StoreSummaryKeeps, CheckRerunKeeps DEF Inv, Advance
<1> QED BY <1>1, <1>2, TapeStays DEF Inv

LEMMA RecordingSteps ==
  ASSUME Inv, \/ Transcribe \/ RecordingStatus \/ PushRecording
              \/ \E t \in Transcribers : ClaimRecording(t) \/ AdvanceRecording(t)
  PROVE  Inv'
<1>1. TapeInv'
  BY TranscribeKeeps, EnqueueKeeps, ClaimRecordingKeeps, CommitKeeps, FailRecordingKeeps, TranscriberSteps
     DEF Inv, RecordingStatus, PushRecording, AdvanceRecording
<1>2. CASE UNCHANGED <<thread, queue, memory>>
  BY <1>1, <1>2, ThreadStays DEF Inv
<1>3. CASE \E t \in Transcribers : Project(t)
  <2>1. scene' = scene /\ eligible' = eligible /\ Call \in Sources
    BY <1>3 DEF Project, Sources
  <2>2. CASE Update(Call)
    BY <1>1, <2>1, <2>2, UpdateKeeps DEF Inv
  <2>3. CASE UNCHANGED <<said, queue, memory>>
    BY <1>1, <2>1, <2>3, ThreadStays DEF Inv, thread
  <2> QED BY <1>3, <2>2, <2>3 DEF Project
<1> QED BY <1>2, <1>3
        DEF Transcribe, RecordingStatus, PushRecording, Enqueue, ClaimRecording, AdvanceRecording, Fetch, Commit,
            Cleanup, FailRecording

LEMMA CrashKeeps ==
  ASSUME Inv, Crash
  PROVE  Inv'
<1>1. UNCHANGED <<thread, job, unread, memory, recording, audio>>
  BY DEF Crash
<1>2. ASSUME NEW w \in Workers, worker' = [worker EXCEPT ![w] = None], UNCHANGED transcriber
      PROVE  Inv'
  <2>1. UNCHANGED <<scene, said, eligible, kind, job, row>> /\ unread' = unread /\ unread \in BOOLEAN
    BY <1>1 DEF thread, memory, Inv, ThreadInv
  <2>2. worker'[w] = None
    BY <1>2 DEF Inv, ThreadInv
  <2>3. RunOK(w)'
    BY <2>2 DEF RunOK
  <2>4. ThreadInv'
    BY <1>2, <2>1, <2>3, Runs DEF Inv, ThreadInv, RowOK
  <2> QED BY <1>1, <1>2, <2>4, TapeStays DEF Inv, tape
<1>3. ASSUME NEW t \in Transcribers, transcriber' = [transcriber EXCEPT ![t] = None], UNCHANGED worker
      PROVE  Inv'
  <2>1. ThreadInv'
    BY <1>1, <1>3, ThreadStays DEF Inv, queue
  <2>2. TapeInv'
    BY <1>1, <1>3, NoneIsNoRow, Transcribes DEF Inv, TapeInv, Transcribing
  <2> QED BY <2>1, <2>2 DEF Inv
<1> QED BY <1>2, <1>3 DEF Crash

LEMMA Inductive == Inv /\ [Next]_vars => Inv'
<1> SUFFICES ASSUME Inv, [Next]_vars PROVE Inv'
  OBVIOUS
<1>1. CASE UNCHANGED vars
  BY <1>1, ThreadStays, TapeStays DEF Inv, vars, thread, queue, memory, tape
<1>2. CASE Next
  BY <1>2, TextSteps, WorkerSteps, RecordingSteps, CrashKeeps DEF Next, Disturb
<1> QED BY <1>1, <1>2

THEOREM Invariant == Spec => []Inv
BY Initially, Inductive, PTL DEF Spec

-----------------------------------------------------------------------------

\* Every variable keeps its type; the job has a lease exactly while it is processed, and a
\* recording that is done has its transcript.
THEOREM JobTypes == Spec => []TypeOK
<1>1. Inv => TypeOK
  BY DEF Inv, ThreadInv, TapeInv, TypeOK
<1> QED BY <1>1, Invariant, PTL

\* processJob, storeFactVersions and memorySafety.js: what is shown as current was read from the
\* texts as they are, and a job that is done has left nothing out, but for the changes it was not
\* told of.
THEOREM MemoryStaysRead == Spec => []MemoryIsRead
<1>1. Inv => MemoryIsRead
  <2> SUFFICES ASSUME Inv PROVE MemoryIsRead
    OBVIOUS
  <2>1. FreshMeansRead
    BY DEF Inv, ThreadInv, RowOK, FreshMeansRead, Current
  <2> QED BY <2>1 DEF Inv, ThreadInv, MemoryIsRead
<1> QED BY <1>1, Invariant, PTL

\* recordings.js process: no audio is deleted before its transcript is stored, whichever sweeps
\* stop, fail or start over.
THEOREM AudioStays == Spec => []AudioIsKept
<1>1. Inv => AudioIsKept
  BY DEF Inv, TapeInv, AudioIsKept
<1> QED BY <1>1, Invariant, PTL
===============================================================================
