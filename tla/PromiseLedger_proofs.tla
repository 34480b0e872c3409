------------------------ MODULE PromiseLedger_proofs ------------------------
(***************************************************************************)
(* For any number of communications, wordings, sweepers, people and        *)
(* revisions: confirmations stand on terms that were seen, citations       *)
(* follow their sources and promises their citations, and a deleted        *)
(* promise is never written again.                                         *)
(***************************************************************************)
EXTENDS PromiseLedger, SequenceTheorems, TLAPS

\* A sweeper works on a job that was queued; what it found is counted while its commit is open.
WorkerOK(k) ==
  LET w == worker[k] IN
  /\ w.at # "idle" => /\ w.comm \in Comms /\ w.revision \in 1 .. MaxRevision[w.comm]
                      /\ job[<<w.comm, w.revision>>] # None
  /\ w.at = "apply" => open = k
  /\ w.at # "apply" => w.found = {}

\* What a person has read of a promise still are its terms, and the promise still is there.
PersonOK(h) ==
  person[h] # None =>
    /\ Exists(person[h].promise) /\ ~Deleted(person[h].promise)
    /\ person[h].terms = ledger[person[h].promise].terms

\* Evidence is of a revision that the source had; that of its present revision is active.  Only
\* what a person adds may be without a source.
CitedOK(e) ==
  /\ e.key # None => e.comm # None
  /\ e.comm # None => /\ e.revision <= source[e.comm].revision
                      /\ e.revision = source[e.comm].revision => e.active

\* A commit is of the present revision of its source.
OpenOK ==
  open # None => /\ worker[open].at = "apply"
                 /\ worker[open].revision = source[worker[open].comm].revision

\* While a commit is open, what was cited of earlier revisions is retired, unless the extraction
\* was provisional.
RetiredOK ==
  open # None /\ ~worker[open].provisional =>
    \A e \in evidence : e.comm = worker[open].comm /\ e.active => e.revision = worker[open].revision

Backed(p) == \E e \in Of(p) : e.active

\* A promise under review has its support, or the commit that took it is about to withdraw it.
SupportOK(p) ==
  Exists(p) /\ ledger[p].review = "needs_review" =>
    Backed(p) \/ (open # None /\ p \in Unsupported(worker[open]))

SourceOK(c) == source[c].revision <= MaxRevision[c] /\ definitive[c] <= source[c].revision

QueueInv ==
  /\ source \in [Comms -> Source]
  /\ job \in [Jobs -> Job \cup {None}]
  /\ worker \in [Workers -> Worker]
  /\ open \in Workers \cup {None}
  /\ events \in 0 .. MaxEvents
  /\ definitive \in [Comms -> Nat]
  /\ OpenOK
  /\ \A cr \in Jobs : job[cr] # None => (job[cr].holder = None <=> job[cr].status # "processing")
  /\ \A c \in Comms : SourceOK(c)
  /\ \A k \in Workers : WorkerOK(k)

LedgerInv ==
  /\ ledger \in [Promises -> Row \cup {None}]
  /\ person \in [People -> View \cup {None}]
  /\ agreed \in [Promises -> Terms \cup {None}]
  /\ buried \subseteq Comms \X Wordings
  /\ \A h \in People : PersonOK(h)
  /\ ConfirmedMeansSeen

CitationInv ==
  /\ evidence \subseteq Evidence
  /\ \A e \in evidence : CitedOK(e)
  /\ RetiredOK
  /\ \A p \in Promises : SupportOK(p)
  /\ EvidenceNeverGoesBack

Inv == QueueInv /\ LedgerInv /\ CitationInv

-----------------------------------------------------------------------------
(* The queue *)

LEMMA JobsAre ==
  /\ \A c \in Comms : \A r \in 1 .. MaxRevision[c] : <<c, r>> \in Jobs
  /\ \A cr \in Jobs : cr[1] \in Comms /\ cr[2] \in 1 .. MaxRevision[cr[1]] /\ cr = <<cr[1], cr[2]>>
BY LedgerAssumption DEF Jobs

LEMMA IdleWorker == Idle \in Worker /\ Idle.at = "idle" /\ Idle.found = {}
BY DEF Idle, Worker

LEMMA InitQueue == Init => QueueInv
<1> SUFFICES ASSUME Init PROVE QueueInv
  OBVIOUS
<1>1. source \in [Comms -> Source]
  BY DEF Init, Source
<1>2. job \in [Jobs -> Job \cup {None}]
  BY <1>1, JobsAre DEF Init, Job, Queued, Source
<1>3. \A k \in Workers : worker[k] = Idle
  BY DEF Init
<1>4. Idle \in Worker /\ Idle.at = "idle" /\ Idle.found = {}
  BY DEF Idle, Worker
<1>5. worker \in [Workers -> Worker] /\ \A k \in Workers : WorkerOK(k)
  BY <1>3, <1>4 DEF Init, WorkerOK
<1>6. \A cr \in Jobs : job[cr] # None => job[cr].holder = None /\ job[cr].status = "pending"
  BY DEF Init, Queued
<1>7. \A c \in Comms : SourceOK(c)
  <2> SUFFICES ASSUME NEW c \in Comms PROVE SourceOK(c)
    OBVIOUS
  <2>1. source[c].revision = 1 /\ definitive[c] = 0
    BY DEF Init
  <2>2. MaxRevision[c] \in Nat \ {0}
    BY LedgerAssumption
  <2> QED BY <2>1, <2>2 DEF SourceOK
<1>8. open = None /\ events \in 0 .. MaxEvents /\ definitive \in [Comms -> Nat]
  BY LedgerAssumption DEF Init
<1> QED BY <1>1, <1>2, <1>5, <1>6, <1>7, <1>8 DEF QueueInv, OpenOK

\* A job is written, and what the sweepers work on stays.
LEMMA JobWritten ==
  ASSUME QueueInv, NEW c \in Comms, NEW r \in 1 .. MaxRevision[c], NEW j \in Job,
         j.holder = None <=> j.status # "processing",
         job' = [job EXCEPT ![<<c, r>>] = j]
  PROVE  /\ job' \in [Jobs -> Job \cup {None}]
         /\ \A cr \in Jobs : job'[cr] # None => (job'[cr].holder = None <=> job'[cr].status # "processing")
         /\ \A cr \in Jobs : job[cr] # None => job'[cr] # None
         /\ job'[<<c, r>>] = j /\ j # None
<1>1. <<c, r>> \in Jobs
  BY JobsAre
<1>2. j # None
  BY NoneAssumption
<1> QED BY <1>1, <1>2 DEF QueueInv

LEMMA SourceChangesQueue ==
  ASSUME QueueInv, NEW c \in Comms, SourceChanges(c)
  PROVE  QueueInv'
<1>1. PICK text \in SUBSET Wordings, ok \in BOOLEAN :
        source' = [source EXCEPT ![c] = [revision |-> @.revision + 1, text |-> text, ok |-> ok]]
  BY DEF SourceChanges
<1>2. PICK s : s = [revision |-> source[c].revision + 1, text |-> text, ok |-> ok]
  OBVIOUS
<1>3. source[c] \in Source
  BY DEF QueueInv
<1>4. s \in Source /\ s.revision = source[c].revision + 1
  BY <1>2, <1>3 DEF Source
<1>5. source' = [source EXCEPT ![c] = s] /\ source'[c] = s
  BY <1>1, <1>2 DEF QueueInv
<1>6. source' \in [Comms -> Source]
  BY <1>4, <1>5 DEF QueueInv
<1>7. s.revision \in 1 .. MaxRevision[c]
  BY <1>3, <1>4, LedgerAssumption DEF SourceChanges, Source
<1>8. PICK j : j = Queued(s)
  OBVIOUS
<1>9. j \in Job /\ j.holder = None /\ j.status = "pending"
  BY <1>4, <1>8 DEF Queued, Job, Source
<1>10. job' = [job EXCEPT ![<<c, s.revision>>] = j]
  BY <1>5, <1>8 DEF SourceChanges
<1>11. /\ job' \in [Jobs -> Job \cup {None}]
       /\ \A cr \in Jobs : job'[cr] # None => (job'[cr].holder = None <=> job'[cr].status # "processing")
       /\ \A cr \in Jobs : job[cr] # None => job'[cr] # None
  BY <1>7, <1>9, <1>10, JobWritten
<1>12. \A d \in Comms : SourceOK(d)'
  BY <1>3, <1>4, <1>5, <1>7 DEF QueueInv, SourceOK, SourceChanges, history, Source
<1>13. \A k \in Workers : WorkerOK(k)'
  BY <1>11, JobsAre DEF QueueInv, WorkerOK, SourceChanges
<1> QED BY <1>6, <1>11, <1>12, <1>13 DEF QueueInv, OpenOK, SourceChanges, history

\* The job is written while no commit is open; a worker may end.
LEMMA QueueStep ==
  ASSUME QueueInv, UNCHANGED <<source, open, definitive>>, events' \in 0 .. MaxEvents,
         job' \in [Jobs -> Job \cup {None}],
         \A cr \in Jobs : job'[cr] # None => (job'[cr].holder = None <=> job'[cr].status # "processing"),
         \A cr \in Jobs : job[cr] # None => job'[cr] # None,
         open = None, worker' \in [Workers -> Worker],
         \A k \in Workers : worker'[k] = worker[k] \/ WorkerOK(k)'
  PROVE  QueueInv'
<1>1. \A k \in Workers : WorkerOK(k)'
  BY JobsAre DEF QueueInv, WorkerOK
<1>2. \A c \in Comms : SourceOK(c)'
  BY DEF QueueInv, SourceOK
<1> QED BY <1>1, <1>2 DEF QueueInv, OpenOK

LEMMA ReconcileQueue ==
  ASSUME QueueInv, NEW c \in Comms, Reconcile(c)
  PROVE  QueueInv'
<1>1. source[c] \in Source /\ source[c].revision \in 1 .. MaxRevision[c]
  BY LedgerAssumption DEF QueueInv, SourceOK, Source
<1>2. PICK j : j = Queued(source[c])
  OBVIOUS
<1>3. j \in Job /\ j.holder = None /\ j.status = "pending"
  BY <1>1, <1>2 DEF Queued, Job, Source
<1>4. job' = [job EXCEPT ![<<c, source[c].revision>>] = j]
  BY <1>2 DEF Reconcile
<1>5. /\ job' \in [Jobs -> Job \cup {None}]
      /\ \A cr \in Jobs : job'[cr] # None => (job'[cr].holder = None <=> job'[cr].status # "processing")
      /\ \A cr \in Jobs : job[cr] # None => job'[cr] # None
  BY <1>1, <1>3, <1>4, JobWritten
<1> QED BY <1>5, QueueStep DEF Reconcile, history, QueueInv

LEMMA ClaimQueue ==
  ASSUME QueueInv, NEW c \in Comms, NEW r \in 1 .. MaxRevision[c], NEW k \in Workers, Claim(k, c, r)
  PROVE  QueueInv'
<1>1. <<c, r>> \in Jobs /\ r \in Nat
  BY JobsAre, LedgerAssumption
<1>2. PICK i : i = job[<<c, r>>]
  OBVIOUS
<1>3. i \in Job
  BY <1>1, <1>2 DEF Claim, QueueInv
<1>4. PICK j : j = [i EXCEPT !.status = "processing", !.attempts = i.attempts + 1, !.holder = k, !.lapsed = FALSE]
  OBVIOUS
<1>5. j \in Job /\ j.holder = k /\ j.status = "processing"
  <2>1. PICK n \in Nat : n = i.attempts + 1
    BY <1>3 DEF Job
  <2>2. j = [i EXCEPT !.status = "processing", !.attempts = n, !.holder = k, !.lapsed = FALSE]
    BY <1>4, <2>1
  <2> QED BY <1>3, <2>2 DEF Job
<1>6. job' = [job EXCEPT ![<<c, r>>] = j]
  BY <1>2, <1>4 DEF Claim
<1>7. /\ job' \in [Jobs -> Job \cup {None}]
      /\ \A cr \in Jobs : job'[cr] # None => (job'[cr].holder = None <=> job'[cr].status # "processing")
      /\ \A cr \in Jobs : job[cr] # None => job'[cr] # None
      /\ job'[<<c, r>>] # None
  <2>1. j.holder = None <=> j.status # "processing"
    BY <1>5, LedgerAssumption
  <2> QED BY <1>1, <1>5, <1>6, <2>1, JobWritten
<1>8. PICK w : w = [Idle EXCEPT !.at = "read", !.comm = c, !.revision = r]
  OBVIOUS
<1>9. w \in Worker /\ w.at = "read" /\ w.comm = c /\ w.revision = r /\ w.found = {}
  <2>1. PICK z \in Worker : z = Idle /\ z.found = {}
    BY IdleWorker
  <2>2. w = [z EXCEPT !.at = "read", !.comm = c, !.revision = r]
    BY <1>8, <2>1
  <2> QED BY <1>1, <2>1, <2>2 DEF Worker
<1>10. worker' = [worker EXCEPT ![k] = w]
  BY <1>8 DEF Claim
<1>11. worker' \in [Workers -> Worker] /\ \A x \in Workers : worker'[x] = worker[x] \/ WorkerOK(x)'
  BY <1>7, <1>9, <1>10 DEF QueueInv, WorkerOK
<1> QED BY <1>7, <1>11, QueueStep DEF Claim, history, QueueInv

LEMMA LapseQueue ==
  ASSUME QueueInv, NEW c \in Comms, NEW r \in 1 .. MaxRevision[c], Lapse(c, r)
  PROVE  QueueInv'
<1>1. <<c, r>> \in Jobs
  BY JobsAre
<1>2. PICK i : i = job[<<c, r>>]
  OBVIOUS
<1>3. i \in Job /\ i.status = "processing" /\ i.holder # None
  BY <1>1, <1>2 DEF Lapse, QueueInv
<1>4. PICK j : j = [i EXCEPT !.lapsed = TRUE]
  OBVIOUS
<1>5. j \in Job /\ j.holder = i.holder /\ j.status = i.status
  BY <1>3, <1>4 DEF Job
<1>6. job' = [job EXCEPT ![<<c, r>>] = j]
  BY <1>1, <1>2, <1>4 DEF Lapse, QueueInv
<1>7. /\ job' \in [Jobs -> Job \cup {None}]
      /\ \A cr \in Jobs : job'[cr] # None => (job'[cr].holder = None <=> job'[cr].status # "processing")
      /\ \A cr \in Jobs : job[cr] # None => job'[cr] # None
  BY <1>3, <1>5, <1>6, JobWritten
<1>8. events' \in 0 .. MaxEvents
  BY LedgerAssumption DEF Lapse, QueueInv
<1> QED BY <1>7, <1>8, QueueStep DEF Lapse, history, QueueInv

LEMMA RetryQueue ==
  ASSUME QueueInv, NEW c \in Comms, NEW r \in 1 .. MaxRevision[c], Retry(c, r)
  PROVE  QueueInv'
<1>1. <<c, r>> \in Jobs
  BY JobsAre
<1>2. PICK i : i = job[<<c, r>>]
  OBVIOUS
<1>3. i \in Job /\ i.holder = None
  BY <1>1, <1>2 DEF Retry, QueueInv
<1>4. PICK j : j = [i EXCEPT !.status = "pending", !.attempts = 0]
  OBVIOUS
<1>5. j \in Job /\ j.holder = None /\ j.status = "pending"
  BY <1>3, <1>4 DEF Job
<1>6. job' = [job EXCEPT ![<<c, r>>] = j]
  BY <1>2, <1>4 DEF Retry
<1>7. /\ job' \in [Jobs -> Job \cup {None}]
      /\ \A cr \in Jobs : job'[cr] # None => (job'[cr].holder = None <=> job'[cr].status # "processing")
      /\ \A cr \in Jobs : job[cr] # None => job'[cr] # None
  BY <1>5, <1>6, JobWritten
<1> QED BY <1>7, QueueStep DEF Retry, history, QueueInv

LEMMA DiesQueue ==
  ASSUME QueueInv, NEW k \in Workers, Dies(k)
  PROVE  QueueInv'
<1>1. worker' \in [Workers -> Worker] /\ \A x \in Workers : worker'[x] = worker[x] \/ WorkerOK(x)'
  BY IdleWorker DEF Dies, QueueInv, WorkerOK
<1>2. events' \in 0 .. MaxEvents
  BY LedgerAssumption DEF Dies, QueueInv
<1> QED BY <1>1, <1>2, QueueStep DEF Dies, rows, history, QueueInv

LEMMA WorkerRevision ==
  ASSUME QueueInv, NEW k \in Workers, worker[k].at # "idle"
  PROVE  /\ worker[k].comm \in Comms /\ worker[k].revision \in 1 .. MaxRevision[worker[k].comm]
         /\ <<worker[k].comm, worker[k].revision>> \in Jobs
         /\ job[<<worker[k].comm, worker[k].revision>>] \in Job
BY JobsAre DEF QueueInv, WorkerOK

LEMMA ExtractionsTyped ==
  ASSUME NEW text \in SUBSET Wordings
  PROVE  Extractions(text) \subseteq Seq(Item) /\ Fallbacks(text) \subseteq Seq(Item)
<1>1. [key : text, kind : Kinds, target : Existing \cup {None}] \subseteq Item
  BY DEF Item, Existing
<1>2. ASSUME NEW s \in Extractions(text) PROVE s \in Seq(Item)
  <2>1. PICK n \in 0 .. MaxItems : s \in [1 .. n -> [key : text, kind : Kinds, target : Existing \cup {None}]]
    BY DEF Extractions
  <2>2. n \in Nat /\ s \in [1 .. n -> Item]
    BY <1>1, <2>1, LedgerAssumption
  <2> QED BY <2>2, SeqDef
<1> QED BY <1>2 DEF Fallbacks

LEMMA ExtractQueue ==
  ASSUME QueueInv, NEW k \in Workers, Extract(k)
  PROVE  QueueInv'
<1>1. PICK w : w = worker[k]
  OBVIOUS
<1>2. PICK j : j = job[<<w.comm, w.revision>>]
  OBVIOUS
<1>3. w \in Worker /\ w.at = "read" /\ j \in Job /\ w.found = {}
  BY <1>1, <1>2, WorkerRevision DEF Extract, QueueInv, WorkerOK
<1>4. PICK v : /\ worker' = [worker EXCEPT ![k] = v]
               /\ \/ \E items \in Seq(Item), b \in BOOLEAN :
                       v = [w EXCEPT !.at = "commit", !.items = items, !.provisional = b]
                  \/ v = [w EXCEPT !.at = "fail"]
  <2>1. Citable(j) \in SUBSET Wordings
    BY <1>3 DEF Citable, Job
  <2>2. <<>> \in Seq(Item) /\ Extractions(Citable(j)) \subseteq Seq(Item) /\ Fallbacks(Citable(j)) \subseteq Seq(Item)
    BY <2>1, ExtractionsTyped
  <2>3. CASE worker' = [worker EXCEPT ![k].at = "fail"]
    BY <1>1, <2>3 DEF QueueInv
  <2>4. CASE \E items \in Seq(Item), b \in BOOLEAN :
               worker' = [worker EXCEPT ![k] = [w EXCEPT !.at = "commit", !.items = items, !.provisional = b]]
    BY <2>4
  <2> QED BY <1>1, <1>2, <2>2, <2>3, <2>4 DEF Extract
<1>5. v \in Worker /\ v.at \in {"commit", "fail"} /\ v.comm = w.comm /\ v.revision = w.revision /\ v.found = {}
  BY <1>3, <1>4 DEF Worker
<1>6. worker' \in [Workers -> Worker] /\ \A x \in Workers : worker'[x] = worker[x] \/ WorkerOK(x)'
  BY <1>1, <1>3, <1>4, <1>5 DEF QueueInv, WorkerOK, Extract
<1>7. events' \in 0 .. MaxEvents
  <2>1. UNCHANGED events \/ (events < MaxEvents /\ events' = events + 1)
    BY ZenonT(30) DEF Extract
  <2> QED BY <2>1, LedgerAssumption DEF QueueInv
<1> QED BY <1>6, <1>7, QueueStep DEF Extract, history, QueueInv

LEMMA FailQueue ==
  ASSUME QueueInv, NEW k \in Workers, Fail(k)
  PROVE  QueueInv'
<1>1. PICK c, r : c = worker[k].comm /\ r = worker[k].revision
  OBVIOUS
<1>2. c \in Comms /\ r \in 1 .. MaxRevision[c] /\ <<c, r>> \in Jobs /\ job[<<c, r>>] \in Job
  BY <1>1, WorkerRevision DEF Fail
<1>3. PICK i : i = job[<<c, r>>]
  OBVIOUS
<1>4. worker' \in [Workers -> Worker] /\ \A x \in Workers : worker'[x] = worker[x] \/ WorkerOK(x)'
  BY IdleWorker DEF Fail, QueueInv, WorkerOK
<1>5. CASE i.holder # k
  BY <1>1, <1>3, <1>4, <1>5, QueueStep DEF Fail, history, QueueInv
<1>6. CASE i.holder = k
  <2>1. PICK j : j = [i EXCEPT !.status = IF i.attempts >= MaxAttempts THEN "failed" ELSE "pending",
                               !.holder = None, !.lapsed = FALSE]
    OBVIOUS
  <2>2. j \in Job /\ j.holder = None /\ j.status # "processing"
    BY <1>2, <1>3, <2>1 DEF Job
  <2>3. job' = [job EXCEPT ![<<c, r>>] = j]
    BY <1>1, <1>3, <1>6, <2>1 DEF Fail
  <2>4. /\ job' \in [Jobs -> Job \cup {None}]
        /\ \A cr \in Jobs : job'[cr] # None => (job'[cr].holder = None <=> job'[cr].status # "processing")
        /\ \A cr \in Jobs : job[cr] # None => job'[cr] # None
    BY <1>2, <2>2, <2>3, JobWritten
  <2> QED BY <1>4, <2>4, QueueStep DEF Fail, history, QueueInv
<1> QED BY <1>5, <1>6

\* A commit that ends writes the job of its worker.
LEMMA FinishedWrites ==
  ASSUME QueueInv, NEW k \in Workers, worker[k].at # "idle",
         NEW status \in {"pending", "done", "failed"}, Finished(worker[k], status)
  PROVE  /\ job' \in [Jobs -> Job \cup {None}]
         /\ \A cr \in Jobs : job'[cr] # None => (job'[cr].holder = None <=> job'[cr].status # "processing")
         /\ \A cr \in Jobs : job[cr] # None => job'[cr] # None
<1>1. PICK c, r : c = worker[k].comm /\ r = worker[k].revision
  OBVIOUS
<1>2. c \in Comms /\ r \in 1 .. MaxRevision[c] /\ <<c, r>> \in Jobs /\ job[<<c, r>>] \in Job
  BY <1>1, WorkerRevision
<1>3. PICK i \in Job : i = job[<<c, r>>]
  BY <1>2
<1>4. PICK j : j = [i EXCEPT !.status = status, !.holder = None]
  OBVIOUS
<1>5. j \in Job /\ j.holder = None /\ j.status # "processing"
  BY <1>4 DEF Job
<1>6. job' = [job EXCEPT ![<<c, r>>].status = status, ![<<c, r>>].holder = None]
  BY <1>1 DEF Finished
<1>7. job' = [job EXCEPT ![<<c, r>>] = j]
  BY <1>2, <1>3, <1>4, <1>6 DEF QueueInv
<1> QED BY <1>2, <1>5, <1>7, JobWritten

LEMMA CommitRefusedQueue ==
  ASSUME QueueInv, NEW k \in Workers, CommitRefused(k)
  PROVE  QueueInv'
<1>1. PICK w \in Worker : w = worker[k]
  BY DEF QueueInv
<1>2. PICK v : v = [w EXCEPT !.at = "fail"]
  OBVIOUS
<1>3. v \in Worker /\ v.at = "fail" /\ v.comm = w.comm /\ v.revision = w.revision /\ v.found = w.found
  BY <1>2 DEF Worker
<1>4. worker' = [worker EXCEPT ![k] = v]
  BY <1>1, <1>2 DEF CommitRefused, QueueInv
<1>5. worker' \in [Workers -> Worker] /\ \A x \in Workers : worker'[x] = worker[x] \/ WorkerOK(x)'
  BY <1>1, <1>3, <1>4 DEF QueueInv, WorkerOK, CommitRefused
<1> QED BY <1>5, QueueStep DEF CommitRefused, history, QueueInv

LEMMA CommitSupersededQueue ==
  ASSUME QueueInv, NEW k \in Workers, CommitSuperseded(k)
  PROVE  QueueInv'
<1>1. worker' \in [Workers -> Worker] /\ \A x \in Workers : worker'[x] = worker[x] \/ WorkerOK(x)'
  BY IdleWorker DEF CommitSuperseded, QueueInv, WorkerOK
<1>2. /\ job' \in [Jobs -> Job \cup {None}]
      /\ \A cr \in Jobs : job'[cr] # None => (job'[cr].holder = None <=> job'[cr].status # "processing")
      /\ \A cr \in Jobs : job[cr] # None => job'[cr] # None
  BY FinishedWrites DEF CommitSuperseded
<1> QED BY <1>1, <1>2, QueueStep DEF CommitSuperseded, history, QueueInv

\* The commit that opens: its worker, and that its revision is the present one.
LEMMA CommitOpens ==
  ASSUME QueueInv, NEW k \in Workers, Commit(k)
  PROVE  /\ open' = k /\ k # None /\ worker'[k].at = "apply" /\ worker'[k].found = {}
         /\ worker'[k].comm = worker[k].comm /\ worker'[k].revision = worker[k].revision
         /\ worker'[k].provisional = worker[k].provisional
         /\ worker' \in [Workers -> Worker] /\ \A x \in Workers \ {k} : worker'[x] = worker[x]
<1>1. PICK w \in Worker : w = worker[k]
  BY DEF QueueInv
<1>2. PICK v : v = [w EXCEPT !.at = "apply"]
  OBVIOUS
<1>3. /\ v \in Worker /\ v.at = "apply" /\ v.comm = w.comm /\ v.revision = w.revision
      /\ v.found = w.found /\ v.provisional = w.provisional
  BY <1>2 DEF Worker
<1>4. worker' = [worker EXCEPT ![k] = v]
  BY <1>1, <1>2 DEF Commit, QueueInv
<1>5. w.found = {}
  BY <1>1 DEF Commit, QueueInv, WorkerOK
<1> QED BY <1>1, <1>3, <1>4, <1>5, LedgerAssumption DEF QueueInv, Commit

LEMMA CommitQueue ==
  ASSUME QueueInv, NEW k \in Workers, Commit(k)
  PROVE  QueueInv'
<1>1. \A x \in Workers : WorkerOK(x)'
  <2> SUFFICES ASSUME NEW x \in Workers PROVE WorkerOK(x)'
    OBVIOUS
  <2>1. WorkerOK(x) /\ WorkerOK(k) /\ open = None /\ job' = job /\ worker[k].at = "commit"
    BY DEF QueueInv, Commit
  <2>2. CASE x = k
    BY <2>1, <2>2, CommitOpens DEF WorkerOK
  <2>3. CASE x # k
    BY <2>1, <2>3, CommitOpens, LedgerAssumption DEF WorkerOK
  <2> QED BY <2>2, <2>3
<1>2. \A c \in Comms : SourceOK(c)'
  BY DEF QueueInv, SourceOK, Commit, history
<1> QED BY <1>1, <1>2, CommitOpens DEF QueueInv, OpenOK, Commit, Superseded, history

\* What a found promise does to the worker.
LEMMA FoundWrites ==
  ASSUME QueueInv, NEW k \in Workers, worker[k].items # <<>>, NEW p \in Promises, Found(k, p)
  PROVE  /\ worker' \in [Workers -> Worker] /\ \A x \in Workers \ {k} : worker'[x] = worker[x]
         /\ worker'[k].at = worker[k].at /\ worker'[k].comm = worker[k].comm
         /\ worker'[k].revision = worker[k].revision /\ worker'[k].provisional = worker[k].provisional
         /\ worker'[k].found = worker[k].found \cup {p}
<1>1. PICK w \in Worker : w = worker[k]
  BY DEF QueueInv
<1>2. PICK t : t = Tail(w.items)
  OBVIOUS
<1>3. t \in Seq(Item)
  BY <1>1, <1>2, HeadTailProperties DEF Worker
<1>4. PICK f \in SUBSET Promises : f = w.found \cup {p}
  BY DEF Worker
<1>5. PICK v : v = [w EXCEPT !.items = t, !.found = f]
  OBVIOUS
<1>6. /\ v \in Worker /\ v.at = w.at /\ v.comm = w.comm /\ v.revision = w.revision
      /\ v.provisional = w.provisional /\ v.found = f
  BY <1>3, <1>5 DEF Worker
<1>7. worker' = [worker EXCEPT ![k] = v]
  BY <1>1, <1>2, <1>4, <1>5 DEF Found, QueueInv
<1> QED BY <1>1, <1>4, <1>6, <1>7 DEF QueueInv

LEMMA ApplyFinds ==
  ASSUME NEW k \in Workers, Apply(k)
  PROVE  /\ open = k /\ open' = k /\ worker[k].items # <<>>
         /\ UNCHANGED <<source, job, events, agreed, definitive, buried>>
BY DEF Apply, history

LEMMA FoundQueue ==
  ASSUME QueueInv, NEW k \in Workers, Apply(k), NEW p \in Promises, Found(k, p)
  PROVE  QueueInv'
<1>1. \A x \in Workers : WorkerOK(x)'
  <2> SUFFICES ASSUME NEW x \in Workers PROVE WorkerOK(x)'
    OBVIOUS
  <2>1. WorkerOK(x) /\ WorkerOK(k) /\ open = k /\ job' = job /\ worker[k].at = "apply" /\ open' = k
    BY ApplyFinds, LedgerAssumption DEF QueueInv, OpenOK
  <2>2. CASE x = k
    BY <2>1, <2>2, FoundWrites, ApplyFinds DEF WorkerOK
  <2>3. CASE x # k
    BY <2>1, <2>3, FoundWrites, ApplyFinds DEF WorkerOK
  <2> QED BY <2>2, <2>3
<1>2. \A c \in Comms : SourceOK(c)'
  BY ApplyFinds DEF QueueInv, SourceOK
<1> QED BY <1>1, <1>2, FoundWrites, ApplyFinds, LedgerAssumption DEF QueueInv, OpenOK

LEMMA SettleQueue ==
  ASSUME QueueInv, NEW k \in Workers, Settle(k)
  PROVE  QueueInv'
<1>1. worker[k].at = "apply" /\ open = k /\ open' = None /\ k # None
  BY LedgerAssumption DEF Settle, QueueInv, OpenOK
<1>2. PICK status \in {"pending", "done", "failed"} : Finished(worker[k], status)
  BY DEF Settle
<1>3. /\ job' \in [Jobs -> Job \cup {None}]
      /\ \A cr \in Jobs : job'[cr] # None => (job'[cr].holder = None <=> job'[cr].status # "processing")
      /\ \A cr \in Jobs : job[cr] # None => job'[cr] # None
  BY <1>1, <1>2, FinishedWrites
<1>4. worker' = [worker EXCEPT ![k] = Idle] /\ source' = source /\ events' = events
  BY DEF Settle
<1>5. \A x \in Workers : WorkerOK(x)'
  <2> SUFFICES ASSUME NEW x \in Workers PROVE WorkerOK(x)'
    OBVIOUS
  <2>1. WorkerOK(x) /\ (x # k => worker[x].at # "apply")
    BY <1>1 DEF QueueInv, WorkerOK
  <2>2. CASE x = k
    BY <1>4, <2>2, IdleWorker DEF WorkerOK, QueueInv
  <2>3. CASE x # k
    BY <1>3, <1>4, <2>1, <2>3, JobsAre DEF WorkerOK, QueueInv
  <2> QED BY <2>2, <2>3
<1>6. worker[k].revision \in Nat /\ worker[k].comm \in Comms /\ worker[k].revision <= source[worker[k].comm].revision
  <2>1. worker[k].comm \in Comms /\ worker[k].revision \in 1 .. MaxRevision[worker[k].comm]
    BY <1>1, WorkerRevision
  <2>2. MaxRevision[worker[k].comm] \in Nat
    BY <2>1, LedgerAssumption
  <2>3. worker[k].revision = source[worker[k].comm].revision
    BY <1>1 DEF QueueInv, OpenOK
  <2> QED BY <2>1, <2>2, <2>3
<1>7. definitive' = [definitive EXCEPT ![worker[k].comm] = worker[k].revision] \/ definitive' = definitive
  BY DEF Settle
<1>8. definitive' \in [Comms -> Nat] /\ \A c \in Comms : SourceOK(c)'
  BY <1>4, <1>6, <1>7 DEF QueueInv, SourceOK
<1> QED BY <1>1, <1>3, <1>4, <1>5, <1>8, IdleWorker DEF QueueInv, OpenOK

-----------------------------------------------------------------------------
(* The rows *)

LEMMA InitLedger == Init => LedgerInv
BY DEF Init, LedgerInv, PersonOK, ConfirmedMeansSeen, Exists

LEMMA LedgerStays ==
  ASSUME LedgerInv, UNCHANGED <<ledger, person, agreed, buried>>
  PROVE  LedgerInv'
<1>1. \A h \in People : PersonOK(h)'
  BY DEF LedgerInv, PersonOK, Exists, Deleted
<1>2. ConfirmedMeansSeen'
  BY DEF LedgerInv, ConfirmedMeansSeen, Exists
<1> QED BY <1>1, <1>2 DEF LedgerInv

\* Rows are written, and those who had read them have to read them again.
LEMMA LedgerWritten ==
  ASSUME LedgerInv, NEW written \in SUBSET Promises, Revised(written),
         ledger' \in [Promises -> Row \cup {None}],
         \A p \in Promises \ written : ledger'[p] = ledger[p],
         agreed' \in [Promises -> Terms \cup {None}], buried' \subseteq Comms \X Wordings,
         \A p \in Promises : \/ ledger'[p] = ledger[p] /\ agreed'[p] = agreed[p]
                             \/ ledger'[p].review # "confirmed"
                             \/ ledger'[p].terms = agreed'[p]
  PROVE  LedgerInv'
<1>1. person' \in [People -> View \cup {None}]
  BY DEF LedgerInv, Revised
<1>2. ASSUME NEW h \in People PROVE PersonOK(h)'
  <2>1. CASE person'[h] = None
    BY <2>1 DEF PersonOK
  <2>2. CASE person'[h] # None
    <3>1. person'[h] = person[h] /\ person[h] # None /\ person[h].promise \notin written
      BY <2>2 DEF Revised
    <3>2. person[h].promise \in Promises
      BY <3>1 DEF LedgerInv, View
    <3>3. ledger'[person[h].promise] = ledger[person[h].promise]
      BY <3>1, <3>2
    <3> QED BY <3>1, <3>3 DEF LedgerInv, PersonOK, Exists, Deleted
  <2> QED BY <2>1, <2>2
<1>3. ConfirmedMeansSeen'
  BY DEF LedgerInv, ConfirmedMeansSeen, Exists
<1> QED BY <1>1, <1>2, <1>3 DEF LedgerInv

LEMMA ItemTyped ==
  ASSUME QueueInv, NEW k \in Workers, worker[k].items # <<>>
  PROVE  Head(worker[k].items) \in Item /\ Head(worker[k].items).key \in Wordings
<1>1. PICK s \in Seq(Item) : s = worker[k].items
  BY DEF QueueInv, Worker
<1>2. Head(s) \in Item
  BY <1>1, HeadTailProperties
<1> QED BY <1>1, <1>2 DEF Item

LEMMA OriginOf == \A p \in Promises : p # Manual => p \in Comms \X Topics /\ Origin(p) \in Comms /\ Origin(p) = p[1]
BY DEF Promises, Origin

LEMMA NewPromise ==
  ASSUME NEW c \in Comms, NEW key \in Wordings
  PROVE  /\ <<c, Topic[key]>> \in Promises /\ <<c, Topic[key]>> # Manual
         /\ Origin(<<c, Topic[key]>>) = c
BY LedgerAssumption DEF Promises, Origin

LEMMA AmendedTyped ==
  ASSUME NEW p \in Promises, NEW w \in Worker, NEW item \in Item, ledger[p] \in Row
  PROVE  /\ Amended(p, w, item) \in Row
         /\ Amended(p, w, item).review \in {"changed", "needs_review"}
<1>1. PICK row \in Row : row = ledger[p]
  OBVIOUS
<1>2. PICK n \in Nat : n = IF Origin(p) = w.comm THEN w.revision ELSE row.sourceRevision
  BY DEF Row, Worker
<1>3. PICK key \in Wordings \cup {None} : key = IF row.key = None THEN item.key ELSE row.key
  BY DEF Row, Item
<1>4. PICK terms \in Terms : terms = IF Kept(row) THEN row.terms ELSE TermsOf(item)
  BY DEF Row, Item, Terms, TermsOf
<1>5. PICK review \in {"changed", "needs_review"} :
        review = IF row.review = "confirmed" THEN "changed" ELSE "needs_review"
  OBVIOUS
<1>6. Amended(p, w, item) =
        [row EXCEPT !.sourceRevision = n, !.key = key, !.terms = terms, !.review = review]
  BY <1>1, <1>2, <1>3, <1>4, <1>5 DEF Amended
<1> QED BY <1>6 DEF Row

LEMMA WithdrawnTyped ==
  ASSUME NEW p \in Promises, NEW w \in Worker, ledger[p] \in Row
  PROVE  /\ Withdrawn(p, w) \in Row
         /\ Withdrawn(p, w).review \in {"changed", "retracted"}
<1>1. PICK row \in Row : row = ledger[p]
  OBVIOUS
<1>2. PICK n \in Nat : n = IF Origin(p) = w.comm THEN w.revision ELSE row.sourceRevision
  BY DEF Row, Worker
<1>3. PICK review \in {"changed", "retracted"} :
        review = IF row.review \in {"confirmed", "changed"} \/ \E e \in Of(p) : e.active THEN "changed" ELSE "retracted"
  OBVIOUS
<1>4. Withdrawn(p, w) = [row EXCEPT !.sourceRevision = n, !.review = review]
  BY <1>1, <1>2, <1>3 DEF Withdrawn
<1> QED BY <1>4 DEF Row

LEMMA InsertLedger ==
  ASSUME QueueInv, LedgerInv, NEW k \in Workers, Apply(k), Insert(k, Head(worker[k].items))
  PROVE  LedgerInv'
<1>1. PICK item \in Item : item = Head(worker[k].items) /\ item.key \in Wordings
  BY ItemTyped, ApplyFinds
<1>2. PICK c \in Comms, r \in Nat : c = worker[k].comm /\ r = worker[k].revision
  <2>1. worker[k].at = "apply" /\ worker[k] \in Worker
    BY ApplyFinds, LedgerAssumption DEF QueueInv, OpenOK
  <2>2. worker[k].comm \in Comms /\ worker[k].revision \in Nat
    BY <2>1, WorkerRevision DEF Worker
  <2> QED BY <2>2
<1>3. PICK p \in Promises : p = <<c, Topic[item.key]>>
  BY <1>1, <1>2, NewPromise
<1>4. PICK row : row = [key |-> item.key, sourceRevision |-> r, review |-> "needs_review",
                        terms |-> TermsOf(item), edited |-> "no"]
  OBVIOUS
<1>5. row \in Row /\ row.review = "needs_review"
  BY <1>1, <1>2, <1>4 DEF Row, Terms, TermsOf
<1>6. ledger' = [ledger EXCEPT ![p] = IF Exists(p) THEN @ ELSE row] /\ Revised({p})
  BY <1>1, <1>2, <1>3, <1>4 DEF Insert
<1>7. ledger' \in [Promises -> Row \cup {None}]
  BY <1>5, <1>6 DEF LedgerInv
<1>8. \A q \in Promises : ledger'[q] = ledger[q] \/ ledger'[q].review # "confirmed"
  BY <1>5, <1>6 DEF LedgerInv
<1>9. \A q \in Promises \ {p} : ledger'[q] = ledger[q]
  BY <1>6 DEF LedgerInv
<1> QED BY <1>6, <1>7, <1>8, <1>9, ApplyFinds, LedgerWritten DEF LedgerInv

LEMMA AmendLedger ==
  ASSUME QueueInv, LedgerInv, NEW k \in Workers, Apply(k), NEW p \in Promises,
         Amend(k, p, Head(worker[k].items))
  PROVE  LedgerInv' /\ Exists(p)
<1>1. PICK item \in Item : item = Head(worker[k].items)
  BY ItemTyped, ApplyFinds
<1>2. PICK w \in Worker : w = worker[k]
  BY DEF QueueInv
<1>3. Exists(p) /\ ledger[p] \in Row
  BY DEF Amend, Match, Own, Target, Exists, LedgerInv
<1>4. PICK row : row = Amended(p, w, item)
  OBVIOUS
<1>5. row \in Row /\ row.review \in {"changed", "needs_review"}
  BY <1>3, <1>4, AmendedTyped
<1>6. ledger' = [ledger EXCEPT ![p] = row] /\ Revised({p})
  BY <1>1, <1>2, <1>4 DEF Amend
<1>7. ledger' \in [Promises -> Row \cup {None}]
  BY <1>5, <1>6 DEF LedgerInv
<1>8. \A q \in Promises : ledger'[q] = ledger[q] \/ ledger'[q].review # "confirmed"
  BY <1>5, <1>6 DEF LedgerInv
<1>9. \A q \in Promises \ {p} : ledger'[q] = ledger[q]
  BY <1>6 DEF LedgerInv
<1> QED BY <1>3, <1>6, <1>7, <1>8, <1>9, ApplyFinds, LedgerWritten DEF LedgerInv

LEMMA SettleLedger ==
  ASSUME QueueInv, LedgerInv, NEW k \in Workers, Settle(k)
  PROVE  LedgerInv'
<1>1. PICK w \in Worker : w = worker[k]
  BY DEF QueueInv
<1>2. PICK u \in SUBSET Promises : u = Unsupported(w)
  BY DEF Unsupported
<1>3. \A p \in u : ledger[p] \in Row
  BY <1>2 DEF Unsupported, Exists, LedgerInv
<1>4. ledger' = [p \in Promises |-> IF p \in u THEN Withdrawn(p, w) ELSE ledger[p]] /\ Revised(u)
  BY <1>1, <1>2 DEF Settle
<1>5. \A p \in u : ledger'[p] \in Row /\ ledger'[p].review \in {"changed", "retracted"}
  BY <1>3, <1>4, WithdrawnTyped
<1>6. \A p \in Promises \ u : ledger'[p] = ledger[p]
  BY <1>4
<1>7. ledger' \in [Promises -> Row \cup {None}]
  BY <1>4, <1>5, <1>6 DEF LedgerInv
<1>8. \A p \in Promises : ledger'[p] = ledger[p] \/ ledger'[p].review # "confirmed"
  BY <1>5, <1>6
<1>9. agreed' = agreed /\ buried' = buried
  BY DEF Settle
<1> QED BY <1>4, <1>6, <1>7, <1>8, <1>9, LedgerWritten DEF LedgerInv

LEMMA LookLedger ==
  ASSUME LedgerInv, NEW h \in People, NEW p \in Promises, Look(h, p)
  PROVE  LedgerInv'
<1>1. ledger[p] \in Row /\ Exists(p) /\ ~Deleted(p)
  BY DEF Look, Readable, Exists, LedgerInv
<1>2. PICK v : v = [promise |-> p, terms |-> ledger[p].terms, current |-> FALSE]
  OBVIOUS
<1>3. v \in View /\ v.promise = p /\ v.terms = ledger[p].terms
  BY <1>1, <1>2 DEF View, Row
<1>4. person' = [person EXCEPT ![h] = v] /\ UNCHANGED <<ledger, agreed, buried>>
  BY <1>2 DEF Look, rows, history
<1>5. \A x \in People : PersonOK(x)'
  BY <1>1, <1>3, <1>4 DEF LedgerInv, PersonOK, Exists, Deleted
<1>6. ConfirmedMeansSeen'
  BY <1>4 DEF LedgerInv, ConfirmedMeansSeen, Exists
<1> QED BY <1>3, <1>4, <1>5, <1>6 DEF LedgerInv

LEMMA CheckLedger ==
  ASSUME LedgerInv, NEW h \in People, Check(h)
  PROVE  LedgerInv'
<1>1. PICK x \in View : x = person[h] /\ x # None
  BY DEF Check, LedgerInv
<1>2. PICK v : v = [x EXCEPT !.current = TRUE]
  OBVIOUS
<1>3. v \in View /\ v.promise = x.promise /\ v.terms = x.terms
  BY <1>2 DEF View
<1>4. person' = [person EXCEPT ![h] = v] /\ UNCHANGED <<ledger, agreed, buried>>
  BY <1>1, <1>2 DEF Check, rows, history, LedgerInv
<1>5. \A y \in People : PersonOK(y)'
  BY <1>1, <1>3, <1>4 DEF LedgerInv, PersonOK, Exists, Deleted
<1>6. ConfirmedMeansSeen'
  BY <1>4 DEF LedgerInv, ConfirmedMeansSeen, Exists
<1> QED BY <1>3, <1>4, <1>5, <1>6 DEF LedgerInv

\* A decision writes the row that its person has read, and nothing else.
LEMMA DecideLedger ==
  ASSUME LedgerInv, NEW h \in People, person[h] # None, NEW row \in Row, Decide(h, row),
         agreed' \in [Promises -> Terms \cup {None}], buried' \subseteq Comms \X Wordings,
         \A p \in Promises : p # person[h].promise => agreed'[p] = agreed[p],
         \/ row.review = Mine(h).review /\ row.terms = Mine(h).terms
            /\ agreed'[person[h].promise] = agreed[person[h].promise]
         \/ row.review # "confirmed"
         \/ row.terms = agreed'[person[h].promise]
  PROVE  LedgerInv'
<1>1. PICK p \in Promises : p = person[h].promise /\ Exists(p)
  BY DEF LedgerInv, PersonOK, View
<1>2. ledger' = [ledger EXCEPT ![p] = row] /\ Revised({p})
  BY <1>1 DEF Decide
<1>3. ledger' \in [Promises -> Row \cup {None}]
  BY <1>2 DEF LedgerInv
<1>4. ledger'[p] = row /\ \A q \in Promises \ {p} : ledger'[q] = ledger[q]
  BY <1>2 DEF LedgerInv
<1>5. row.review = "confirmed" => row.terms = agreed'[p]
  BY <1>1 DEF Mine, LedgerInv, ConfirmedMeansSeen
<1> QED BY <1>1, <1>2, <1>3, <1>4, <1>5, LedgerWritten

LEMMA MineIsRow ==
  ASSUME LedgerInv, NEW h \in People, person[h] # None
  PROVE  /\ person[h].promise \in Promises /\ person[h].terms \in Terms
         /\ Mine(h) \in Row /\ person[h].terms = Mine(h).terms
BY DEF LedgerInv, PersonOK, View, Mine, Exists

\* Only the review state of a row is written, as by confirm, dismiss and delete.
LEMMA ReviewWritten ==
  ASSUME NEW row \in Row, NEW review \in {"confirmed", "dismissed", "deleted"}
  PROVE  /\ [row EXCEPT !.review = review] \in Row
         /\ [row EXCEPT !.review = review].review = review
         /\ [row EXCEPT !.review = review].terms = row.terms
BY DEF Row

LEMMA ConfirmLedger ==
  ASSUME LedgerInv, NEW h \in People, Confirm(h)
  PROVE  LedgerInv'
<1>1. PICK row : row = [Mine(h) EXCEPT !.review = "confirmed"]
  OBVIOUS
<1>2. row \in Row /\ row.terms = person[h].terms
  BY <1>1, MineIsRow, ReviewWritten DEF Confirm
<1>3. Decide(h, row) /\ Agree(h, person[h].terms) /\ buried' = buried /\ person[h] # None
  BY <1>1 DEF Confirm
<1>4. agreed' = [agreed EXCEPT ![person[h].promise] = person[h].terms]
  BY <1>3 DEF Agree
<1>5. /\ agreed' \in [Promises -> Terms \cup {None}] /\ agreed'[person[h].promise] = person[h].terms
      /\ \A p \in Promises : p # person[h].promise => agreed'[p] = agreed[p]
  BY <1>3, <1>4, MineIsRow DEF LedgerInv
<1> QED BY <1>2, <1>3, <1>5, DecideLedger DEF LedgerInv

LEMMA DismissLedger ==
  ASSUME LedgerInv, NEW h \in People, Dismiss(h)
  PROVE  LedgerInv'
<1>1. PICK row : row = [Mine(h) EXCEPT !.review = "dismissed"]
  OBVIOUS
<1>2. row \in Row /\ row.review # "confirmed"
  BY <1>1, MineIsRow, ReviewWritten DEF Dismiss
<1>3. Decide(h, row) /\ agreed' = agreed /\ buried' = buried /\ person[h] # None
  BY <1>1 DEF Dismiss
<1> QED BY <1>2, <1>3, DecideLedger DEF LedgerInv

LEMMA NoteLedger ==
  ASSUME LedgerInv, NEW h \in People, Note(h) \/ AddEvidence(h)
  PROVE  LedgerInv'
<1>1. Decide(h, Mine(h)) /\ agreed' = agreed /\ buried' = buried /\ person[h] # None
  BY DEF Note, AddEvidence
<1> QED BY <1>1, MineIsRow, DecideLedger DEF LedgerInv

LEMMA DeleteLedger ==
  ASSUME LedgerInv, CitationInv, NEW h \in People, Delete(h)
  PROVE  LedgerInv'
<1>1. PICK row : row = [Mine(h) EXCEPT !.review = "deleted"]
  OBVIOUS
<1>2. row \in Row /\ row.review # "confirmed"
  BY <1>1, MineIsRow, ReviewWritten DEF Delete
<1>3. Decide(h, row) /\ agreed' = agreed /\ person[h] # None
  BY <1>1 DEF Delete
<1>4. buried' \subseteq Comms \X Wordings
  BY DEF Delete, LedgerInv, CitationInv, Of, Evidence, CitedOK
<1> QED BY <1>2, <1>3, <1>4, DecideLedger DEF LedgerInv

LEMMA EditLedger ==
  ASSUME LedgerInv, NEW h \in People, Edit(h)
  PROVE  LedgerInv'
<1>1. CASE Decide(h, [Mine(h) EXCEPT !.review = "confirmed"]) /\ Agree(h, person[h].terms)
  <2>1. PICK row : row = [Mine(h) EXCEPT !.review = "confirmed"]
    OBVIOUS
  <2>2. row \in Row /\ row.terms = person[h].terms
    BY <2>1, MineIsRow, ReviewWritten DEF Edit
  <2>3. Decide(h, row) /\ buried' = buried /\ person[h] # None
    BY <1>1, <2>1 DEF Edit
  <2>4. /\ agreed' \in [Promises -> Terms \cup {None}] /\ agreed'[person[h].promise] = person[h].terms
        /\ \A p \in Promises : p # person[h].promise => agreed'[p] = agreed[p]
    BY <1>1, <2>3, MineIsRow DEF LedgerInv, Agree
  <2> QED BY <2>2, <2>3, <2>4, DecideLedger DEF LedgerInv
<1>2. ASSUME NEW part \in {"terms", "owner"}, NEW review \in {"confirmed", Mine(h).review},
             Decide(h, Patched(Mine(h), h, part, review)), Agree(h, h)
      PROVE  LedgerInv'
  <2>1. PICK row : row = Patched(Mine(h), h, part, review)
    OBVIOUS
  <2>2. PICK old \in Row : old = Mine(h) /\ person[h] # None /\ person[h].promise \in Promises
    BY MineIsRow DEF Edit
  <2>3. PICK edited \in {"no", "terms", "owner"} : edited = IF old.edited = "owner" THEN old.edited ELSE part
    OBVIOUS
  <2>4. row = [old EXCEPT !.review = review, !.terms = h, !.edited = edited]
    BY <2>1, <2>2, <2>3 DEF Patched
  <2>5. row \in Row /\ row.terms = h
    BY <2>2, <2>4 DEF Row, Terms
  <2>6. Decide(h, row) /\ buried' = buried
    BY <1>2, <2>1 DEF Edit
  <2>7. /\ agreed' \in [Promises -> Terms \cup {None}] /\ agreed'[person[h].promise] = h
        /\ \A p \in Promises : p # person[h].promise => agreed'[p] = agreed[p]
    BY <1>2, <2>2 DEF LedgerInv, Agree, Terms
  <2> QED BY <2>2, <2>5, <2>6, <2>7, DecideLedger DEF LedgerInv
<1> QED BY <1>1, <1>2 DEF Edit

LEMMA CreateLedger ==
  ASSUME LedgerInv, NEW h \in People, Create(h)
  PROVE  LedgerInv'
<1>1. PICK row : row = [key |-> None, sourceRevision |-> 0, review |-> "confirmed", terms |-> h, edited |-> "terms"]
  OBVIOUS
<1>2. row \in Row /\ row.review = "confirmed" /\ row.terms = h
  BY <1>1 DEF Row, Terms
<1>3. Manual \in Promises /\ ledger[Manual] = None
  BY DEF Create, Exists, Promises
<1>4. ledger' = [ledger EXCEPT ![Manual] = row] /\ agreed' = [agreed EXCEPT ![Manual] = h]
  BY <1>1 DEF Create
<1>5. UNCHANGED <<person, buried>>
  BY DEF Create
<1>6. ledger' \in [Promises -> Row \cup {None}] /\ agreed' \in [Promises -> Terms \cup {None}]
  BY <1>2, <1>4 DEF LedgerInv, Terms
<1>7. ASSUME NEW x \in People PROVE PersonOK(x)'
  <2>1. person[x] # None => person[x].promise \in Promises /\ person[x].promise # Manual
    BY <1>3 DEF LedgerInv, PersonOK, View, Exists
  <2> QED BY <1>4, <1>5, <2>1 DEF LedgerInv, PersonOK, Exists, Deleted
<1>8. ConfirmedMeansSeen'
  BY <1>2, <1>3, <1>4 DEF LedgerInv, ConfirmedMeansSeen, Exists
<1> QED BY <1>5, <1>6, <1>7, <1>8 DEF LedgerInv

-----------------------------------------------------------------------------
(* Citations *)

LEMMA InitCitations == Init => CitationInv
BY DEF Init, CitationInv, RetiredOK, SupportOK, Exists, EvidenceNeverGoesBack

\* The row p is put up for review by nobody else than the commit that cites it.
Asks(p) == Exists(p) /\ ledger[p].review = "needs_review"

LEMMA CitationsStay ==
  ASSUME CitationInv, open = None, open' = None, UNCHANGED <<source, evidence, definitive>>,
         \A p \in Promises : Asks(p)' => Asks(p)
  PROVE  CitationInv'
<1>1. \A e \in evidence : CitedOK(e)'
  BY DEF CitationInv, CitedOK
<1>2. \A p \in Promises : SupportOK(p)'
  BY DEF CitationInv, SupportOK, Asks, Backed, Of
<1>3. RetiredOK' /\ EvidenceNeverGoesBack'
  BY DEF RetiredOK, EvidenceNeverGoesBack, CitationInv
<1> QED BY <1>1, <1>2, <1>3 DEF CitationInv

LEMMA AskStays ==
  ASSUME UNCHANGED ledger, NEW p
  PROVE  Asks(p)' <=> Asks(p)
BY DEF Asks, Exists

LEMMA SourceChangesCitations ==
  ASSUME QueueInv, CitationInv, NEW c \in Comms, SourceChanges(c)
  PROVE  CitationInv'
<1>1. /\ \A d \in Comms : source[d].revision \in Nat /\ source'[d].revision \in Nat
      /\ \A d \in Comms : d # c => source'[d] = source[d]
      /\ source'[c].revision = source[c].revision + 1
  <2>1. PICK text, ok :
          source' = [source EXCEPT ![c] = [revision |-> @.revision + 1, text |-> text, ok |-> ok]]
    BY DEF SourceChanges
  <2>2. \A d \in Comms : source[d].revision \in Nat
    BY DEF QueueInv, Source
  <2> QED BY <2>1, <2>2 DEF QueueInv
<1>2. open = None /\ open' = None /\ UNCHANGED <<evidence, ledger, definitive>>
  BY DEF SourceChanges, rows, history
<1>3. ASSUME NEW e \in evidence PROVE CitedOK(e)'
  <2>1. CitedOK(e) /\ e.comm \in Comms \cup {None} /\ e.revision \in Nat
    BY DEF CitationInv, Evidence
  <2> QED BY <1>1, <2>1 DEF CitedOK
<1>4. \A p \in Promises : SupportOK(p)'
  BY <1>2 DEF CitationInv, SupportOK, Exists, Backed, Of
<1>5. RetiredOK' /\ EvidenceNeverGoesBack'
  BY <1>2 DEF RetiredOK, EvidenceNeverGoesBack, CitationInv
<1> QED BY <1>2, <1>3, <1>4, <1>5 DEF CitationInv

\* What a retirement makes of a citation.
LEMMA RetiredAre ==
  ASSUME CitationInv, NEW w, NEW e \in Retired(w)
  PROVE  /\ e \in Evidence
         /\ \E x \in evidence : /\ e.promise = x.promise /\ e.comm = x.comm /\ e.revision = x.revision
                                /\ e.key = x.key /\ (e.active => x.active)
                                /\ (x.active => e.active \/ (x.comm = w.comm /\ x.revision # w.revision /\ ~w.provisional))
         /\ ~w.provisional /\ e.comm = w.comm /\ e.active => e.revision = w.revision
<1>1. CASE w.provisional
  BY <1>1 DEF Retired, CitationInv
<1>2. CASE ~w.provisional
  <2>1. PICK x \in evidence : e = IF x.comm = w.comm /\ x.revision # w.revision
                                  THEN [x EXCEPT !.active = FALSE] ELSE x
    BY <1>2 DEF Retired
  <2>2. x \in Evidence
    BY DEF CitationInv
  <2>3. CASE x.comm = w.comm /\ x.revision # w.revision
    <3>1. e = [x EXCEPT !.active = FALSE]
      BY <2>1, <2>3
    <3>2. /\ e \in Evidence /\ e.promise = x.promise /\ e.comm = x.comm /\ e.revision = x.revision
          /\ e.key = x.key /\ ~e.active
      BY <2>2, <3>1 DEF Evidence
    <3> QED BY <1>2, <2>3, <3>2
  <2>4. CASE ~(x.comm = w.comm /\ x.revision # w.revision)
    BY <1>2, <2>1, <2>2, <2>4
  <2> QED BY <2>3, <2>4
<1> QED BY <1>1, <1>2

\* Every citation is still there after a retirement, if not active.
LEMMA RetiredKeeps ==
  ASSUME CitationInv, NEW w, NEW x \in evidence
  PROVE  \E e \in Retired(w) : /\ e.promise = x.promise /\ e.comm = x.comm
                               /\ x.active => \/ e.active
                                              \/ x.comm = w.comm /\ ~w.provisional
<1>1. CASE w.provisional
  BY <1>1 DEF Retired
<1>2. CASE ~w.provisional
  <2>1. PICK e : e = IF x.comm = w.comm /\ x.revision # w.revision THEN [x EXCEPT !.active = FALSE] ELSE x
    OBVIOUS
  <2>2. e \in Retired(w)
    BY <1>2, <2>1 DEF Retired
  <2>3. x \in Evidence
    BY DEF CitationInv
  <2>4. e.promise = x.promise /\ e.comm = x.comm /\ (x.comm # w.comm => e = x)
    BY <2>1, <2>3 DEF Evidence
  <2> QED BY <1>2, <2>2, <2>4
<1> QED BY <1>1, <1>2

LEMMA CommitCitations ==
  ASSUME QueueInv, LedgerInv, CitationInv, NEW k \in Workers, Commit(k)
  PROVE  CitationInv'
<1>1. PICK w : w = worker[k]
  OBVIOUS
<1>2. evidence' = Retired(w) /\ UNCHANGED <<source, ledger, definitive>> /\ open = None
  BY <1>1 DEF Commit, history
<1>3. w.revision = source[w.comm].revision
  BY <1>1 DEF Commit, Superseded
<1>4. evidence' \subseteq Evidence
  BY <1>2, RetiredAre
<1>5. ASSUME NEW e \in evidence' PROVE CitedOK(e)'
  <2>1. PICK x \in evidence :
          /\ e.promise = x.promise /\ e.comm = x.comm /\ e.revision = x.revision /\ e.key = x.key
          /\ x.active => e.active \/ (x.comm = w.comm /\ x.revision # w.revision)
    BY <1>2, RetiredAre
  <2>2. CitedOK(x)
    BY DEF CitationInv
  <2> QED BY <1>2, <1>3, <2>1, <2>2 DEF CitedOK
<1>6. EvidenceNeverGoesBack'
  BY <1>2, RetiredAre DEF EvidenceNeverGoesBack, CitationInv
<1>7. RetiredOK'
  BY <1>1, <1>2, CommitOpens, RetiredAre DEF RetiredOK
<1>8. ASSUME NEW p \in Promises PROVE SupportOK(p)'
  <2> SUFFICES ASSUME Exists(p), ledger[p].review = "needs_review"
               PROVE  Backed(p)' \/ p \in Unsupported(worker[k])'
    BY <1>2, CommitOpens DEF SupportOK, Exists
  <2>1. PICK x \in evidence : x.promise = p /\ x.active
    BY <1>2 DEF CitationInv, SupportOK, Backed, Of
  <2>2. PICK e \in evidence' : e.promise = p /\ e.comm = x.comm /\ (e.active \/ (x.comm = w.comm /\ ~w.provisional))
    BY <1>2, <2>1, RetiredKeeps
  <2>3. CASE e.active
    BY <2>2, <2>3 DEF Backed, Of
  <2>4. CASE x.comm = w.comm /\ ~w.provisional
    BY <1>1, <1>2, <2>2, <2>4, CommitOpens DEF Unsupported, Of, Exists
  <2> QED BY <2>2, <2>3, <2>4
<1> QED BY <1>4, <1>5, <1>6, <1>7, <1>8 DEF CitationInv

\* The worker whose commit is open.
LEMMA Applying ==
  ASSUME QueueInv, NEW k \in Workers, Apply(k)
  PROVE  /\ open = k /\ open' = k /\ k # None /\ worker[k].at = "apply"
         /\ worker[k].comm \in Comms /\ worker[k].comm # None /\ worker[k].revision \in Nat
         /\ worker[k].revision = source[worker[k].comm].revision
         /\ definitive[worker[k].comm] \in Nat
         /\ definitive[worker[k].comm] <= worker[k].revision
<1>1. open = k /\ open' = k /\ k # None /\ worker[k].at = "apply" /\ worker[k] \in Worker
  BY ApplyFinds, LedgerAssumption DEF QueueInv, OpenOK
<1>2. worker[k].comm \in Comms /\ worker[k].revision \in Nat
  BY <1>1, WorkerRevision DEF Worker
<1>3. worker[k].revision = source[worker[k].comm].revision
  BY <1>1 DEF QueueInv, OpenOK
<1> QED BY <1>1, <1>2, <1>3, LedgerAssumption DEF QueueInv, SourceOK

\* A found promise is cited, or was; every other promise is as it was.
LEMMA FoundCitations ==
  ASSUME QueueInv, CitationInv, NEW k \in Workers, Apply(k), NEW p \in Promises, Found(k, p),
         evidence \subseteq evidence',
         \A e \in evidence' \ evidence :
           e \in Evidence /\ e.comm = worker[k].comm /\ e.revision = worker[k].revision /\ e.active,
         \A q \in Promises \ {p} : ledger'[q] = ledger[q],
         Asks(p)' => Backed(p)'
  PROVE  CitationInv'
<1>1. /\ worker'[k].comm = worker[k].comm /\ worker'[k].revision = worker[k].revision
      /\ worker'[k].provisional = worker[k].provisional
      /\ worker'[k].found = worker[k].found \cup {p}
  BY FoundWrites, ApplyFinds
<1>2. UNCHANGED <<source, definitive>>
  BY ApplyFinds
<1>3. evidence' \subseteq Evidence
  BY DEF CitationInv
<1>4. ASSUME NEW e \in evidence' PROVE CitedOK(e)'
  <2>1. CASE e \in evidence
    BY <1>2, <2>1 DEF CitationInv, CitedOK
  <2>2. CASE e \notin evidence
    <3>1. e.comm = worker[k].comm /\ e.revision = worker[k].revision /\ e.active
      BY <2>2
    <3> QED BY <1>2, <3>1, Applying DEF CitedOK
  <2> QED BY <2>1, <2>2
<1>5. EvidenceNeverGoesBack'
  <2> SUFFICES ASSUME NEW e \in evidence', e.active, e.comm # None
               PROVE  e.revision >= definitive[e.comm]
    BY <1>2 DEF EvidenceNeverGoesBack
  <2>1. CASE e \in evidence
    BY <2>1 DEF CitationInv, EvidenceNeverGoesBack
  <2>2. CASE e \notin evidence
    <3>1. e.comm = worker[k].comm /\ e.revision = worker[k].revision
      BY <2>2
    <3> QED BY <3>1, Applying
  <2> QED BY <2>1, <2>2
<1>6. RetiredOK'
  BY <1>1, Applying DEF RetiredOK, CitationInv
<1>7. ASSUME NEW q \in Promises PROVE SupportOK(q)'
  <2>1. CASE q = p
    BY <2>1 DEF SupportOK, Asks
  <2>2. CASE q # p
    <3> SUFFICES ASSUME Exists(q), ledger[q].review = "needs_review"
                 PROVE  Backed(q)' \/ q \in Unsupported(worker[k])'
      BY <2>2, Applying DEF SupportOK, Exists
    <3>1. Backed(q) \/ q \in Unsupported(worker[k])
      BY Applying DEF CitationInv, SupportOK
    <3>2. Backed(q) => Backed(q)'
      BY DEF Backed, Of
    <3>3. q \in Unsupported(worker[k]) => q \in Unsupported(worker[k])'
      BY <1>1, <2>2 DEF Unsupported, Exists, Of
    <3> QED BY <3>1, <3>2, <3>3
  <2> QED BY <2>1, <2>2
<1> QED BY <1>3, <1>4, <1>5, <1>6, <1>7 DEF CitationInv

\* A citation is there, and active, once it was made.
LEMMA CiteCites ==
  ASSUME CitationInv, NEW p \in Promises, NEW w, NEW item \in Item,
         w.comm \in Comms, w.comm # None, w.revision \in Nat, w.revision = source[w.comm].revision
  PROVE  /\ evidence \subseteq Cite(p, w, item)
         /\ \A e \in Cite(p, w, item) \ evidence :
              e \in Evidence /\ e.comm = w.comm /\ e.revision = w.revision /\ e.active
         /\ \E e \in Cite(p, w, item) : e.promise = p /\ e.active
<1>1. CASE \E e \in evidence : Cites(e, p, w, item)
  <2>1. Cite(p, w, item) = evidence
    BY <1>1 DEF Cite
  <2>2. PICK e \in evidence : e.promise = p /\ e.comm = w.comm /\ e.revision = w.revision
    BY <1>1 DEF Cites
  <2>3. e.active
    BY <2>2 DEF CitationInv, CitedOK
  <2> QED BY <2>1, <2>2, <2>3
<1>2. CASE ~\E e \in evidence : Cites(e, p, w, item)
  <2>1. PICK new : new = [promise |-> p, comm |-> w.comm, revision |-> w.revision,
                          key |-> item.key, kind |-> item.kind, active |-> TRUE]
    OBVIOUS
  <2>2. Cite(p, w, item) = evidence \cup {new}
    BY <1>2, <2>1 DEF Cite
  <2>3. new \in Evidence /\ new.promise = p /\ new.comm = w.comm /\ new.revision = w.revision /\ new.active
    BY <2>1 DEF Evidence, Item
  <2> QED BY <2>2, <2>3
<1> QED BY <1>1, <1>2

LEMMA SkipCitations ==
  ASSUME QueueInv, CitationInv, NEW k \in Workers, Apply(k), NEW p \in Promises,
         Skip(k, p, Head(worker[k].items))
  PROVE  CitationInv'
<1>1. Found(k, p) /\ evidence' = evidence /\ ledger' = ledger
  BY DEF Skip, rows
<1>2. ASSUME Asks(p) PROVE Backed(p)
  <2>1. PICK e \in evidence : Cites(e, p, worker[k], Head(worker[k].items))
    BY <1>2 DEF Skip, Repeated, Asks, Deleted
  <2>2. e.promise = p /\ e.active
    BY <2>1, Applying DEF Cites, CitationInv, CitedOK
  <2> QED BY <2>2 DEF Backed, Of
<1>3. Asks(p)' => Backed(p)'
  BY <1>1, <1>2 DEF Asks, Exists, Backed, Of
<1> QED BY <1>1, <1>3, FoundCitations

LEMMA InsertCitations ==
  ASSUME QueueInv, LedgerInv, CitationInv, NEW k \in Workers, Apply(k), Insert(k, Head(worker[k].items))
  PROVE  CitationInv'
<1>1. PICK item \in Item : item = Head(worker[k].items) /\ item.key \in Wordings
  BY ItemTyped, ApplyFinds
<1>2. PICK p \in Promises : p = <<worker[k].comm, Topic[item.key]>>
  BY <1>1, Applying, NewPromise
<1>3. evidence' = Cite(p, worker[k], item) /\ Found(k, p)
  BY <1>1, <1>2 DEF Insert
<1>4. \A q \in Promises \ {p} : ledger'[q] = ledger[q]
  BY <1>1, <1>2 DEF Insert, LedgerInv
<1>5. /\ evidence \subseteq evidence'
      /\ \A e \in evidence' \ evidence :
           e \in Evidence /\ e.comm = worker[k].comm /\ e.revision = worker[k].revision /\ e.active
      /\ \E e \in evidence' : e.promise = p /\ e.active
  BY <1>3, Applying, CiteCites
<1>6. Backed(p)'
  BY <1>5 DEF Backed, Of
<1> QED BY <1>3, <1>4, <1>5, <1>6, FoundCitations

LEMMA AmendCitations ==
  ASSUME QueueInv, LedgerInv, CitationInv, NEW k \in Workers, Apply(k), NEW p \in Promises,
         Amend(k, p, Head(worker[k].items))
  PROVE  CitationInv'
<1>1. PICK item \in Item : item = Head(worker[k].items)
  BY ItemTyped, ApplyFinds
<1>2. evidence' = Cite(p, worker[k], item) /\ Found(k, p)
  BY <1>1 DEF Amend
<1>3. \A q \in Promises \ {p} : ledger'[q] = ledger[q]
  BY DEF Amend, LedgerInv
<1>4. /\ evidence \subseteq evidence'
      /\ \A e \in evidence' \ evidence :
           e \in Evidence /\ e.comm = worker[k].comm /\ e.revision = worker[k].revision /\ e.active
      /\ \E e \in evidence' : e.promise = p /\ e.active
  BY <1>2, Applying, CiteCites
<1>5. Backed(p)'
  BY <1>4 DEF Backed, Of
<1> QED BY <1>2, <1>3, <1>4, <1>5, FoundCitations

\* The commit that closes has withdrawn what lost its support.
LEMMA SettleCitations ==
  ASSUME QueueInv, LedgerInv, CitationInv, NEW k \in Workers, Settle(k)
  PROVE  CitationInv'
<1>1. PICK w \in Worker : w = worker[k] /\ open = k /\ k # None
  BY LedgerAssumption DEF QueueInv, Settle
<1>2. w.comm \in Comms /\ w.revision \in Nat
  BY <1>1, WorkerRevision DEF QueueInv, OpenOK, Worker
<1>3. /\ open' = None /\ UNCHANGED <<source, evidence>>
      /\ definitive' = IF w.provisional THEN definitive ELSE [definitive EXCEPT ![w.comm] = w.revision]
      /\ ledger' = [p \in Promises |-> IF p \in Unsupported(w) THEN Withdrawn(p, w) ELSE ledger[p]]
  BY <1>1 DEF Settle
<1>4. \A e \in evidence : CitedOK(e)'
  BY <1>3 DEF CitationInv, CitedOK
<1>5. RetiredOK'
  BY <1>3 DEF RetiredOK
<1>6. EvidenceNeverGoesBack'
  <2> SUFFICES ASSUME NEW e \in evidence, e.active, e.comm # None
               PROVE  e.revision >= definitive'[e.comm]
    BY <1>3 DEF EvidenceNeverGoesBack
  <2>1. e.revision >= definitive[e.comm] /\ e.comm \in Comms
    BY DEF CitationInv, EvidenceNeverGoesBack, Evidence
  <2>2. CASE w.provisional \/ e.comm # w.comm
    BY <1>2, <1>3, <2>1, <2>2 DEF QueueInv
  <2>3. CASE ~w.provisional /\ e.comm = w.comm
    <3>1. e.revision = w.revision
      BY <1>1, <2>3 DEF CitationInv, RetiredOK
    <3> QED BY <1>2, <1>3, <2>3, <3>1 DEF QueueInv
  <2> QED BY <2>2, <2>3
<1>7. ASSUME NEW p \in Promises PROVE SupportOK(p)'
  <2>1. CASE p \in Unsupported(w)
    <3>1. ledger[p] \in Row
      BY <2>1 DEF Unsupported, Exists, LedgerInv
    <3>2. ledger'[p] = Withdrawn(p, w) /\ Withdrawn(p, w).review # "needs_review"
      BY <1>3, <2>1, <3>1, WithdrawnTyped
    <3> QED BY <3>2 DEF SupportOK
  <2>2. CASE p \notin Unsupported(w)
    <3>1. ledger'[p] = ledger[p]
      BY <1>3, <2>2
    <3> QED BY <1>1, <1>3, <2>2, <3>1 DEF CitationInv, SupportOK, Exists, Backed, Of
  <2> QED BY <2>1, <2>2
<1> QED BY <1>3, <1>4, <1>5, <1>6, <1>7 DEF CitationInv

\* Decisions put no promise up for review.
LEMMA DecideAsks ==
  ASSUME LedgerInv, NEW h \in People, person[h] # None, NEW row, Decide(h, row),
         row.review = "needs_review" => Mine(h).review = "needs_review"
  PROVE  \A p \in Promises : Asks(p)' => Asks(p)
BY DEF Decide, Asks, Exists, LedgerInv, PersonOK, View, Mine

LEMMA DecideCitations ==
  ASSUME LedgerInv, CitationInv, NEW h \in People, person[h] # None, NEW row, Decide(h, row),
         row.review = "needs_review" => Mine(h).review = "needs_review", evidence' = evidence
  PROVE  CitationInv'
BY DecideAsks, CitationsStay DEF Decide

LEMMA PeopleCitations ==
  ASSUME LedgerInv, CitationInv, NEW h \in People,
         Confirm(h) \/ Dismiss(h) \/ Note(h) \/ Edit(h) \/ Delete(h)
  PROVE  CitationInv'
<1>1. person[h] # None /\ evidence' = evidence
  BY DEF Confirm, Dismiss, Note, Edit, Delete
<1>2. ASSUME NEW review \in {"confirmed", "dismissed", "deleted"},
             Decide(h, [Mine(h) EXCEPT !.review = review])
      PROVE  CitationInv'
  <2>1. PICK row : row = [Mine(h) EXCEPT !.review = review]
    OBVIOUS
  <2>2. row.review = review
    BY <1>1, <2>1, MineIsRow, ReviewWritten
  <2> QED BY <1>1, <1>2, <2>1, <2>2, DecideCitations
<1>3. ASSUME Decide(h, Mine(h)) PROVE CitationInv'
  BY <1>1, <1>3, DecideCitations
<1>4. ASSUME NEW part \in {"terms", "owner"}, NEW review \in {"confirmed", Mine(h).review},
             Decide(h, Patched(Mine(h), h, part, review))
      PROVE  CitationInv'
  <2>1. PICK row : row = Patched(Mine(h), h, part, review)
    OBVIOUS
  <2>2. PICK old \in Row : old = Mine(h)
    BY <1>1, MineIsRow
  <2>3. PICK edited : edited = IF old.edited = "owner" THEN old.edited ELSE part
    OBVIOUS
  <2>4. row = [old EXCEPT !.review = review, !.terms = h, !.edited = edited]
    BY <2>1, <2>2, <2>3 DEF Patched
  <2>5. row.review = review
    BY <2>2, <2>4 DEF Row
  <2> QED BY <1>1, <1>4, <2>1, <2>5, DecideCitations
<1> QED BY <1>2, <1>3, <1>4 DEF Confirm, Dismiss, Note, Edit, Delete

LEMMA AddEvidenceCitations ==
  ASSUME QueueInv, LedgerInv, CitationInv, NEW h \in People, AddEvidence(h)
  PROVE  CitationInv'
<1>1. PICK c \in {None} \cup {d \in Comms : Allowed(d)} :
        evidence' = evidence \cup
          {[promise |-> person[h].promise, comm |-> c, key |-> None, kind |-> "human", active |-> TRUE,
            revision |-> IF c = None THEN 0 ELSE source[c].revision]}
  BY DEF AddEvidence
<1>2. PICK r : r = IF c = None THEN 0 ELSE source[c].revision
  OBVIOUS
<1>3. PICK new : new = [promise |-> person[h].promise, comm |-> c, key |-> None, kind |-> "human",
                        active |-> TRUE, revision |-> r]
  OBVIOUS
<1>4. person[h].promise \in Promises /\ r \in Nat /\ (c # None => c \in Comms /\ r = source[c].revision)
  BY <1>2, MineIsRow DEF AddEvidence, QueueInv, Source
<1>5. new \in Evidence /\ new.comm = c /\ new.revision = r /\ new.active /\ new.key = None
  BY <1>3, <1>4 DEF Evidence
<1>6. evidence' = evidence \cup {new}
  BY <1>1, <1>2, <1>3
<1>7. open = None /\ open' = None /\ UNCHANGED <<source, definitive>> /\ person[h] # None /\ Decide(h, Mine(h))
  BY DEF AddEvidence, Decide
<1>8. \A p \in Promises : Asks(p)' => Asks(p)
  BY <1>7, DecideAsks
<1>9. \A e \in evidence' : CitedOK(e)'
  BY <1>4, <1>5, <1>6, <1>7 DEF CitationInv, CitedOK
<1>10. EvidenceNeverGoesBack'
  <2>1. c # None => r >= definitive[c]
    BY <1>4 DEF QueueInv, SourceOK
  <2> QED BY <1>5, <1>6, <1>7, <2>1 DEF CitationInv, EvidenceNeverGoesBack
<1>11. \A p \in Promises : SupportOK(p)'
  BY <1>6, <1>7, <1>8 DEF CitationInv, SupportOK, Asks, Backed, Of
<1>12. RetiredOK'
  BY <1>7 DEF RetiredOK
<1> QED BY <1>5, <1>6, <1>9, <1>10, <1>11, <1>12 DEF CitationInv

LEMMA CreateCitations ==
  ASSUME LedgerInv, CitationInv, NEW h \in People, Create(h)
  PROVE  CitationInv'
<1>1. PICK row : row = [key |-> None, sourceRevision |-> 0, review |-> "confirmed", terms |-> h, edited |-> "terms"]
  OBVIOUS
<1>2. row.review = "confirmed" /\ ledger' = [ledger EXCEPT ![Manual] = row]
  BY <1>1 DEF Create
<1>3. \A p \in Promises : Asks(p)' => Asks(p)
  BY <1>2 DEF Asks, Exists, LedgerInv
<1>4. open = None /\ open' = None /\ UNCHANGED <<source, evidence, definitive>>
  BY DEF Create
<1> QED BY <1>3, <1>4, CitationsStay

-----------------------------------------------------------------------------
(* The invariant *)

LEMMA QueueStays ==
  ASSUME QueueInv, UNCHANGED <<source, job, worker, open, definitive>>, events' \in 0 .. MaxEvents
  PROVE  QueueInv'
<1>1. (\A c \in Comms : SourceOK(c)') /\ (\A k \in Workers : WorkerOK(k)') /\ OpenOK'
  BY DEF QueueInv, SourceOK, WorkerOK, OpenOK
<1> QED BY <1>1 DEF QueueInv

LEMMA JobSteps ==
  ASSUME Inv, NEW c \in Comms, NEW r \in 1 .. MaxRevision[c],
         Lapse(c, r) \/ Retry(c, r) \/ \E k \in Workers : Claim(k, c, r)
  PROVE  Inv'
<1>1. QueueInv'
  BY LapseQueue, RetryQueue, ClaimQueue DEF Inv
<1>2. open = None /\ open' = None /\ UNCHANGED <<source, evidence, definitive, ledger, person, agreed, buried>>
  BY DEF Lapse, Retry, Claim, rows, history
<1>3. LedgerInv'
  BY <1>2, LedgerStays DEF Inv
<1>4. CitationInv'
  BY <1>2, AskStays, CitationsStay DEF Inv
<1> QED BY <1>1, <1>3, <1>4 DEF Inv

LEMMA SourceSteps ==
  ASSUME Inv, NEW c \in Comms, SourceChanges(c) \/ Reconcile(c)
  PROVE  Inv'
<1>1. QueueInv'
  BY SourceChangesQueue, ReconcileQueue DEF Inv
<1>2. open = None /\ open' = None /\ UNCHANGED <<evidence, definitive, ledger, person, agreed, buried>>
  BY DEF SourceChanges, Reconcile, rows, history
<1>3. LedgerInv'
  BY <1>2, LedgerStays DEF Inv
<1>4. CASE SourceChanges(c)
  BY <1>1, <1>3, <1>4, SourceChangesCitations DEF Inv
<1>5. CASE Reconcile(c)
  <2>1. UNCHANGED source
    BY <1>5 DEF Reconcile
  <2>2. CitationInv'
    BY <1>2, <2>1, AskStays, CitationsStay DEF Inv
  <2> QED BY <1>1, <1>3, <2>2 DEF Inv
<1> QED BY <1>4, <1>5

LEMMA WorkerSteps ==
  ASSUME Inv, NEW k \in Workers,
         Extract(k) \/ Fail(k) \/ CommitRefused(k) \/ CommitSuperseded(k) \/ Dies(k)
  PROVE  Inv'
<1>1. QueueInv'
  BY ExtractQueue, FailQueue, CommitRefusedQueue, CommitSupersededQueue, DiesQueue DEF Inv
<1>2. open = None /\ open' = None /\ UNCHANGED <<source, evidence, definitive, ledger, person, agreed, buried>>
  <2>1. CASE Extract(k)
    BY ZenonT(30), <2>1 DEF Extract, rows, history
  <2>2. CASE ~Extract(k)
    BY <2>2 DEF Fail, CommitRefused, CommitSuperseded, Dies, rows, history
  <2> QED BY <2>1, <2>2
<1>3. LedgerInv'
  BY <1>2, LedgerStays DEF Inv
<1>4. CitationInv'
  BY <1>2, AskStays, CitationsStay DEF Inv
<1> QED BY <1>1, <1>3, <1>4 DEF Inv

LEMMA CommitStep ==
  ASSUME Inv, NEW k \in Workers, Commit(k)
  PROVE  Inv'
<1>1. UNCHANGED <<ledger, person, agreed, buried>>
  BY DEF Commit, history
<1> QED BY <1>1, CommitQueue, LedgerStays, CommitCitations DEF Inv

LEMMA ApplyStep ==
  ASSUME Inv, NEW k \in Workers, Apply(k)
  PROVE  Inv'
<1>1. CASE Insert(k, Head(worker[k].items))
  <2>1. PICK p \in Promises : Found(k, p)
    BY <1>1, ItemTyped, Applying, ApplyFinds, NewPromise DEF Insert, Inv
  <2> QED BY <1>1, <2>1, FoundQueue, InsertLedger, InsertCitations DEF Inv
<1>2. ASSUME NEW p \in Promises, Skip(k, p, Head(worker[k].items))
      PROVE  Inv'
  <2>1. Found(k, p) /\ UNCHANGED <<ledger, person, agreed, buried>>
    BY <1>2, ApplyFinds DEF Skip, rows
  <2> QED BY <1>2, <2>1, FoundQueue, LedgerStays, SkipCitations DEF Inv
<1>3. ASSUME NEW p \in Promises, Amend(k, p, Head(worker[k].items))
      PROVE  Inv'
  <2>1. Found(k, p)
    BY <1>3 DEF Amend
  <2> QED BY <1>3, <2>1, FoundQueue, AmendLedger, AmendCitations DEF Inv
<1> QED BY <1>1, <1>2, <1>3 DEF Apply

LEMMA SettleStep ==
  ASSUME Inv, NEW k \in Workers, Settle(k)
  PROVE  Inv'
BY SettleQueue, SettleLedger, SettleCitations DEF Inv

LEMMA LookSteps ==
  ASSUME Inv, NEW h \in People, Check(h) \/ \E p \in Promises : Look(h, p)
  PROVE  Inv'
<1>1. /\ open = None /\ open' = None
      /\ UNCHANGED <<source, job, worker, evidence, definitive, ledger, events>>
  BY DEF Look, Check, rows, history
<1>2. QueueInv'
  BY <1>1, QueueStays DEF Inv, QueueInv
<1>3. LedgerInv'
  BY LookLedger, CheckLedger DEF Inv
<1>4. CitationInv'
  BY <1>1, AskStays, CitationsStay DEF Inv
<1> QED BY <1>2, <1>3, <1>4 DEF Inv

LEMMA Decisions ==
  ASSUME Inv, NEW h \in People,
         Confirm(h) \/ Dismiss(h) \/ Note(h) \/ Edit(h) \/ AddEvidence(h) \/ Delete(h)
  PROVE  Inv'
<1>1. UNCHANGED <<source, job, worker, open, definitive>> /\ events < MaxEvents /\ events' = events + 1
  BY DEF Confirm, Dismiss, Note, Edit, AddEvidence, Delete, Decide
<1>2. events' \in 0 .. MaxEvents
  BY <1>1, LedgerAssumption DEF Inv, QueueInv
<1>3. QueueInv'
  BY <1>1, <1>2, QueueStays DEF Inv
<1>4. LedgerInv'
  BY ConfirmLedger, DismissLedger, NoteLedger, EditLedger, DeleteLedger DEF Inv
<1>5. CitationInv'
  BY PeopleCitations, AddEvidenceCitations DEF Inv
<1> QED BY <1>3, <1>4, <1>5 DEF Inv

LEMMA CreateStep ==
  ASSUME Inv, NEW h \in People, Create(h)
  PROVE  Inv'
<1>1. events' \in 0 .. MaxEvents
  BY LedgerAssumption DEF Create, Inv, QueueInv
<1>2. QueueInv'
  BY <1>1, QueueStays DEF Create, Inv
<1> QED BY <1>2, CreateLedger, CreateCitations DEF Inv

LEMMA Stutter ==
  ASSUME Inv, UNCHANGED vars
  PROVE  Inv'
<1>1. QueueInv' /\ LedgerInv'
  BY QueueStays, LedgerStays DEF vars, Inv, QueueInv
<1>2. (\A e \in evidence : CitedOK(e)') /\ RetiredOK' /\ EvidenceNeverGoesBack'
  BY DEF vars, Inv, CitationInv, CitedOK, RetiredOK, EvidenceNeverGoesBack
<1>3. \A p \in Promises : SupportOK(p)'
  BY DEF vars, Inv, CitationInv, SupportOK, Exists, Backed, Of, Unsupported
<1> QED BY <1>1, <1>2, <1>3 DEF vars, Inv, CitationInv

LEMMA Inductive == Inv /\ [Next]_vars => Inv'
<1> SUFFICES ASSUME Inv, [Next]_vars PROVE Inv'
  OBVIOUS
<1>1. ASSUME NEW c \in Comms, SourceChanges(c) \/ Reconcile(c) PROVE Inv'
  BY <1>1, SourceSteps
<1>2. ASSUME NEW c \in Comms, NEW r \in 1 .. MaxRevision[c],
             Lapse(c, r) \/ Retry(c, r) \/ \E k \in Workers : Claim(k, c, r)
      PROVE  Inv'
  BY <1>2, JobSteps
<1>3. ASSUME NEW k \in Workers, Sweep(k) \/ Dies(k) PROVE Inv'
  BY <1>3, WorkerSteps, CommitStep, ApplyStep, SettleStep DEF Sweep
<1>4. ASSUME NEW h \in People, Check(h) \/ \E p \in Promises : Look(h, p) PROVE Inv'
  BY <1>4, LookSteps
<1>5. ASSUME NEW h \in People,
             Confirm(h) \/ Dismiss(h) \/ Note(h) \/ Edit(h) \/ AddEvidence(h) \/ Delete(h)
      PROVE  Inv'
  BY <1>5, Decisions
<1>6. ASSUME NEW h \in People, Create(h) PROVE Inv'
  BY <1>6, CreateStep
<1>7. CASE UNCHANGED vars
  BY <1>7, Stutter
<1> QED BY <1>1, <1>2, <1>3, <1>4, <1>5, <1>6, <1>7 DEF Next

THEOREM Invariant == Spec => []Inv
<1>1. Init => Inv
  BY InitQueue, InitLedger, InitCitations DEF Inv
<1> QED BY <1>1, Inductive, PTL DEF Spec

-----------------------------------------------------------------------------

\* Every variable keeps its type; a job has a holder exactly while it is processed.
THEOREM LedgerTypes == Spec => []TypeOK
<1>1. Inv => TypeOK
  BY DEF Inv, QueueInv, OpenOK, LedgerInv, CitationInv, TypeOK
<1> QED BY <1>1, Invariant, PTL

\* review_promise: whoever confirms has read, or set, the terms that are confirmed, whatever
\* sweepers and other reviewers did between the read and the decision.
THEOREM ConfirmedAsSeen == Spec => []ConfirmedMeansSeen
<1>1. Inv => ConfirmedMeansSeen
  BY DEF Inv, LedgerInv
<1> QED BY <1>1, Invariant, PTL

\* commit_promise_job: no late job brings back an earlier revision of a source, and no promise
\* is up for review without its support once the commit that took the support is closed.
THEOREM EvidenceKeepsUp == Spec => []EvidenceIsKeptUp
<1>1. Inv => EvidenceIsKeptUp
  BY DEF Inv, CitationInv, SupportOK, Backed, EvidenceIsKeptUp, ReviewIsSupported
<1> QED BY <1>1, Invariant, PTL

-----------------------------------------------------------------------------
(* What no step does to a row *)

\* A deleted row is left alone, and terms that a person edited are only changed by a person.
Keeps(old, new) ==
  /\ new \in Row
  /\ old.review = "deleted" => new = old
  /\ old.edited # "no" => new.edited # "no" /\ (new.terms = old.terms \/ new.terms \in People)
KeepsRow(p) == Exists(p) => Keeps(ledger[p], ledger'[p])

\* One row is written.
LEMMA WriteKeeps ==
  ASSUME LedgerInv, NEW q \in Promises, NEW row, ledger' = [ledger EXCEPT ![q] = row],
         Exists(q) => Keeps(ledger[q], row)
  PROVE  \A p \in Promises : KeepsRow(p)
<1> SUFFICES ASSUME NEW p \in Promises, Exists(p) PROVE Keeps(ledger[p], ledger'[p])
  BY DEF KeepsRow
<1>1. ledger[p] \in Row
  BY DEF LedgerInv, Exists
<1>2. CASE p = q
  BY <1>2 DEF LedgerInv
<1>3. CASE p # q
  BY <1>1, <1>3 DEF LedgerInv, Keeps
<1> QED BY <1>2, <1>3

LEMMA ApplyKeeps ==
  ASSUME Inv, NEW k \in Workers, Apply(k)
  PROVE  \A p \in Promises : KeepsRow(p)
<1>1. PICK item \in Item : item = Head(worker[k].items)
  BY ItemTyped, ApplyFinds DEF Inv
<1>2. CASE Insert(k, item)
  <2>1. PICK q \in Promises : q = <<worker[k].comm, Topic[item.key]>>
    BY Applying, NewPromise DEF Inv, Item
  <2>2. PICK row : ledger' = [ledger EXCEPT ![q] = row] /\ (Exists(q) => row = ledger[q])
    BY <1>2, <2>1 DEF Insert, Exists
  <2>3. Exists(q) => Keeps(ledger[q], row)
    BY <2>2 DEF Inv, LedgerInv, Exists, Keeps
  <2> QED BY <2>2, <2>3, WriteKeeps DEF Inv
<1>3. ASSUME NEW q \in Promises, Amend(k, q, item) PROVE \A p \in Promises : KeepsRow(p)
  <2>1. PICK w \in Worker : w = worker[k]
    BY DEF Inv, QueueInv
  <2>2. PICK row \in Row : row = ledger[q]
    BY <1>1, <1>3, AmendLedger DEF Inv, LedgerInv, Exists
  <2>3. row.review # "deleted"
    BY <1>3, <2>2 DEF Amend, Repeated, Deleted
  <2>4. PICK n \in Nat : n = IF Origin(q) = w.comm THEN w.revision ELSE row.sourceRevision
    BY DEF Row, Worker
  <2>5. PICK key \in Wordings \cup {None} : key = IF row.key = None THEN item.key ELSE row.key
    BY DEF Row, Item
  <2>6. PICK terms \in Terms : terms = IF Kept(row) THEN row.terms ELSE TermsOf(item)
    BY DEF Row, Item, Terms, TermsOf
  <2>7. PICK review \in {"changed", "needs_review"} :
          review = IF row.review = "confirmed" THEN "changed" ELSE "needs_review"
    OBVIOUS
  <2>8. PICK new : new = [row EXCEPT !.sourceRevision = n, !.key = key, !.terms = terms, !.review = review]
    OBVIOUS
  <2>9. ledger' = [ledger EXCEPT ![q] = new]
    BY <1>3, <2>1, <2>2, <2>4, <2>5, <2>6, <2>7, <2>8 DEF Amend, Amended
  <2>10. new \in Row /\ new.edited = row.edited /\ (row.edited # "no" => new.terms = row.terms)
    BY <2>6, <2>8 DEF Row, Kept
  <2>11. Keeps(ledger[q], new)
    BY <2>2, <2>3, <2>10 DEF Keeps
  <2> QED BY <2>9, <2>11, WriteKeeps DEF Inv
<1>4. ASSUME NEW q \in Promises, Skip(k, q, item) PROVE \A p \in Promises : KeepsRow(p)
  BY <1>4 DEF Skip, rows, KeepsRow, Keeps, Exists, Inv, LedgerInv
<1> QED BY <1>1, <1>2, <1>3, <1>4 DEF Apply

LEMMA SettleKeeps ==
  ASSUME Inv, NEW k \in Workers, Settle(k)
  PROVE  \A p \in Promises : KeepsRow(p)
<1> SUFFICES ASSUME NEW p \in Promises, Exists(p) PROVE Keeps(ledger[p], ledger'[p])
  BY DEF KeepsRow
<1>1. PICK w \in Worker : w = worker[k]
  BY DEF Inv, QueueInv
<1>2. PICK row \in Row : row = ledger[p]
  BY DEF Inv, LedgerInv, Exists
<1>3. CASE p \notin Unsupported(w)
  BY <1>1, <1>2, <1>3 DEF Settle, Keeps
<1>4. CASE p \in Unsupported(w)
  <2>1. row.review # "deleted" /\ ledger'[p] = Withdrawn(p, w)
    BY <1>1, <1>2, <1>4 DEF Settle, Unsupported
  <2>2. PICK n \in Nat : n = IF Origin(p) = w.comm THEN w.revision ELSE row.sourceRevision
    BY DEF Row, Worker
  <2>3. PICK review \in {"changed", "retracted"} :
          review = IF row.review \in {"confirmed", "changed"} \/ \E e \in Of(p) : e.active THEN "changed" ELSE "retracted"
    OBVIOUS
  <2>4. ledger'[p] = [row EXCEPT !.sourceRevision = n, !.review = review]
    BY <1>2, <2>1, <2>2, <2>3 DEF Withdrawn
  <2>5. ledger'[p] \in Row /\ ledger'[p].edited = row.edited /\ ledger'[p].terms = row.terms
    BY <2>4 DEF Row
  <2> QED BY <1>2, <2>1, <2>5 DEF Keeps
<1> QED BY <1>3, <1>4

LEMMA DecisionsKeep ==
  ASSUME Inv, NEW h \in People,
         Confirm(h) \/ Dismiss(h) \/ Note(h) \/ Edit(h) \/ AddEvidence(h) \/ Delete(h)
  PROVE  \A p \in Promises : KeepsRow(p)
<1>1. PICK q \in Promises : q = person[h].promise /\ person[h] # None
  BY MineIsRow DEF Inv, Confirm, Dismiss, Note, Edit, AddEvidence, Delete
<1>2. PICK old \in Row : old = Mine(h) /\ old = ledger[q] /\ old.review # "deleted"
  BY <1>1 DEF Inv, LedgerInv, PersonOK, Exists, Deleted, Mine
<1>3. ASSUME NEW row \in Row, Decide(h, row), row.edited = old.edited, row.terms = old.terms
      PROVE  \A p \in Promises : KeepsRow(p)
  BY <1>1, <1>2, <1>3, WriteKeeps DEF Decide, Keeps, Inv
<1>4. ASSUME NEW review \in {"confirmed", "dismissed", "deleted"}, Decide(h, [Mine(h) EXCEPT !.review = review])
      PROVE  \A p \in Promises : KeepsRow(p)
  <2>1. PICK row : row = [old EXCEPT !.review = review]
    OBVIOUS
  <2>2. row \in Row /\ row.edited = old.edited /\ row.terms = old.terms
    BY <2>1 DEF Row
  <2> QED BY <1>2, <1>3, <1>4, <2>1, <2>2
<1>5. ASSUME Decide(h, Mine(h)) PROVE \A p \in Promises : KeepsRow(p)
  BY <1>2, <1>3, <1>5
<1>6. ASSUME NEW part \in {"terms", "owner"}, NEW review \in {"confirmed", Mine(h).review},
             Decide(h, Patched(Mine(h), h, part, review))
      PROVE  \A p \in Promises : KeepsRow(p)
  <2>1. PICK edited \in {"terms", "owner"} : edited = IF old.edited = "owner" THEN old.edited ELSE part
    OBVIOUS
  <2>2. PICK row : row = [old EXCEPT !.review = review, !.terms = h, !.edited = edited]
    OBVIOUS
  <2>3. row = Patched(Mine(h), h, part, review)
    BY <1>2, <2>1, <2>2 DEF Patched
  <2>4. row \in Row /\ row.edited # "no" /\ row.terms \in People
    BY <1>2, <2>2 DEF Row, Terms
  <2> QED BY <1>1, <1>2, <1>6, <2>3, <2>4, WriteKeeps DEF Decide, Keeps, Inv
<1> QED BY <1>4, <1>5, <1>6 DEF Confirm, Dismiss, Note, Edit, AddEvidence, Delete

LEMMA StepKeeps ==
  ASSUME Inv, [Next]_vars
  PROVE  \A p \in Promises : KeepsRow(p)
<1>1. CASE ledger' = ledger
  BY <1>1 DEF KeepsRow, Keeps, Exists, Inv, LedgerInv
<1>2. ASSUME NEW c \in Comms, SourceChanges(c) \/ Reconcile(c) PROVE ledger' = ledger
  BY <1>2 DEF SourceChanges, Reconcile, rows
<1>3. ASSUME NEW c \in Comms, NEW r \in 1 .. MaxRevision[c],
             Lapse(c, r) \/ Retry(c, r) \/ \E k \in Workers : Claim(k, c, r)
      PROVE  ledger' = ledger
  BY <1>3 DEF Lapse, Retry, Claim, rows
<1>4. ASSUME NEW k \in Workers, Extract(k) PROVE ledger' = ledger
  BY ZenonT(30), <1>4 DEF Extract, rows
<1>5. ASSUME NEW k \in Workers, Fail(k) \/ CommitRefused(k) \/ CommitSuperseded(k) \/ Commit(k) \/ Dies(k)
      PROVE  ledger' = ledger
  BY <1>5 DEF Fail, CommitRefused, CommitSuperseded, Commit, Dies, rows
<1>6. ASSUME NEW h \in People, Check(h) \/ \E p \in Promises : Look(h, p) PROVE ledger' = ledger
  BY <1>6 DEF Check, Look, rows
<1>7. ASSUME NEW h \in People, Create(h) PROVE \A p \in Promises : KeepsRow(p)
  <2>1. PICK row : ledger' = [ledger EXCEPT ![Manual] = row]
    BY <1>7 DEF Create
  <2>2. Manual \in Promises /\ ~Exists(Manual)
    BY <1>7 DEF Create, Promises
  <2> QED BY <2>1, <2>2, WriteKeeps DEF Inv
<1>8. CASE UNCHANGED vars
  BY <1>1, <1>8 DEF vars
<1> QED BY <1>1, <1>2, <1>3, <1>4, <1>5, <1>6, <1>7, <1>8, ApplyKeeps, SettleKeeps, DecisionsKeep
        DEF Next, Sweep

\* mutate_promise and commit_promise_job: a promise is never lost, and one that was deleted is
\* never written again, neither by an extraction nor by a person who had read it before.
DeletedForGood ==
  [][\A p \in Promises : Exists(p) => Exists(p)' /\ (Deleted(p) => ledger'[p] = ledger[p])]_vars

THEOREM TombstonesStay == Spec => DeletedForGood
<1>1. Inv /\ [Next]_vars =>
        [\A p \in Promises : Exists(p) => Exists(p)' /\ (Deleted(p) => ledger'[p] = ledger[p])]_vars
  BY StepKeeps, NoneAssumption DEF KeepsRow, Keeps, Exists, Deleted
<1> QED BY <1>1, Invariant, PTL DEF Spec, DeletedForGood

\* commit_promise_job: once a person edited the terms of a promise, only a person changes them,
\* however many extractions, retirements and other decisions follow.
EditsStand ==
  [][\A p \in Promises :
       Exists(p) /\ ledger[p].edited # "no" =>
         ledger'[p].edited # "no" /\ (ledger'[p].terms = ledger[p].terms \/ ledger'[p].terms \in People)]_vars

THEOREM EditedByPeople == Spec => EditsStand
<1>1. Inv /\ [Next]_vars =>
        [\A p \in Promises :
           Exists(p) /\ ledger[p].edited # "no" =>
             ledger'[p].edited # "no" /\ (ledger'[p].terms = ledger[p].terms \/ ledger'[p].terms \in People)]_vars
  BY StepKeeps DEF KeepsRow, Keeps
<1> QED BY <1>1, Invariant, PTL DEF Spec, EditsStand
=============================================================================
