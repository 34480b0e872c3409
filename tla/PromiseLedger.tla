---------------------------- MODULE PromiseLedger ----------------------------
(***************************************************************************)
(* The promise ledger: promises found in communications                    *)
(* (promiseLedger.js), the jobs that read each revision of a source, the   *)
(* SQL functions that commit what a job found and what a person decides    *)
(* (migrations 028, 029 and 035), and the endpoints that call them.        *)
(*                                                                         *)
(* A wording is a sentence of a source that promises something; wordings   *)
(* with one topic get one description.  The rows of one thread and project *)
(* are modelled.  commit_promise_job is one transaction under the lock of  *)
(* the thread: it is several steps here, one per found promise, and while  *)
(* it is open nothing else moves.                                          *)
(***************************************************************************)
EXTENDS Naturals, Sequences

CONSTANTS Comms,       \* communications of the thread
          Wordings,    \* sentences that promise something; a wording is its evidence key
          Topics,      \* what promises are about: their descriptions
          Topic,       \* the topic of each wording
          Workers,     \* sweepers
          People,      \* reviewers
          Manual,      \* the promise a person may enter by hand
          Legacy,      \* communications older than the ledger
          None,
          MaxAttempts, \* attempts before a job is failed (5 in the code)
          MaxRevision, \* bound: revisions of each source
          MaxItems,    \* bound: promises found by one extraction (100 in the code)
          MaxEvents    \* bound: decisions of people, and faults: leases that lapse early,
                       \* workers that die, extractions that fail

ASSUME LedgerAssumption ==
  /\ Topic \in [Wordings -> Topics] /\ Legacy \subseteq Comms
  /\ None \notin Wordings \cup Comms \cup Workers \cup People \cup {Manual}
  /\ Manual \notin Comms \X Topics /\ People \cap Wordings = {}
  /\ MaxAttempts \in Nat \ {0} /\ MaxRevision \in [Comms -> Nat \ {0}]
  /\ MaxItems \in Nat /\ MaxEvents \in Nat

VARIABLES
  source,     \* communications: promise_revision, text, and whether the row may be read
  job,        \* promise_jobs, by communication and revision
  ledger,     \* communication_commitments; one row per communication and description
  evidence,   \* promise_evidence
  worker,     \* processPromiseJob of each sweeper
  open,       \* the worker whose commit is under way
  person,     \* the promise each reviewer has read, while its revision is still the present one
  events,     \* decisions and faults so far
  agreed,     \* history: the terms a person last decided on, by promise
  definitive, \* history: the newest revision of each source that was read for good
  buried      \* history: the citations that deleted promises rested on

vars == <<source, job, ledger, evidence, worker, open, person, events, agreed, definitive, buried>>
rows == <<ledger, evidence>>
history == <<agreed, definitive, buried>>

Jobs == UNION {{<<c, r>> : r \in 1 .. MaxRevision[c]} : c \in Comms}
Promises == (Comms \X Topics) \cup {Manual}
Origin(p) == IF p = Manual THEN None ELSE p[1]

\* Terms are the wording they were extracted from, or the person who edited them.
Terms == Wordings \cup People
Kinds == {"promised", "reaffirmed"}
Item == [key : Wordings, kind : Kinds, target : Promises \cup {None}]
Source == [revision : Nat \ {0}, text : SUBSET Wordings, ok : BOOLEAN]
Row == [key : Wordings \cup {None}, sourceRevision : Nat,
        review : {"needs_review", "confirmed", "changed", "retracted", "dismissed", "deleted"},
        terms : Terms, edited : {"no", "terms", "owner"}]
Evidence == [promise : Promises, comm : Comms \cup {None}, revision : Nat,
             key : Wordings \cup {None}, kind : Kinds \cup {"human"}, active : BOOLEAN]
Job == [status : {"pending", "processing", "done", "failed"}, attempts : Nat,
        holder : Workers \cup {None}, lapsed : BOOLEAN, text : SUBSET Wordings, ok : BOOLEAN]
Worker == [at : {"idle", "read", "commit", "fail", "apply"}, comm : Comms \cup {None},
           revision : Nat, items : Seq(Item), provisional : BOOLEAN, found : SUBSET Promises]
View == [promise : Promises, terms : Terms, current : BOOLEAN]

\* None is none of the rows.
ASSUME NoneAssumption == None \notin Row \cup Job \cup View

TypeOK ==
  /\ source \in [Comms -> Source]
  /\ job \in [Jobs -> Job \cup {None}]
  /\ ledger \in [Promises -> Row \cup {None}]
  /\ evidence \subseteq Evidence
  /\ worker \in [Workers -> Worker]
  /\ open \in Workers \cup {None}
  /\ person \in [People -> View \cup {None}]
  /\ events \in 0 .. MaxEvents
  /\ agreed \in [Promises -> Terms \cup {None}]
  /\ definitive \in [Comms -> Nat]
  /\ buried \subseteq Comms \X Wordings
  /\ open # None => worker[open].at = "apply"
  /\ \A cr \in Jobs : job[cr] # None => (job[cr].holder = None <=> job[cr].status # "processing")

Queued(s) == [status |-> "pending", attempts |-> 0, holder |-> None, lapsed |-> FALSE,
              text |-> s.text, ok |-> s.ok]
Idle == [at |-> "idle", comm |-> None, revision |-> 0, items |-> <<>>, provisional |-> FALSE, found |-> {}]

\* Sources start with all the wordings, so that what can happen to a promise starts at once.
\* A source older than the ledger has no job until the backfill finds it.
Init ==
  /\ source = [c \in Comms |-> [revision |-> 1, text |-> Wordings, ok |-> TRUE]]
  /\ job = [cr \in Jobs |-> IF cr[2] = 1 /\ cr[1] \notin Legacy THEN Queued(source[cr[1]]) ELSE None]
  /\ ledger = [p \in Promises |-> None] /\ evidence = {}
  /\ worker = [k \in Workers |-> Idle] /\ open = None
  /\ person = [h \in People |-> None]
  /\ events = 0
  /\ agreed = [p \in Promises |-> None] /\ definitive = [c \in Comms |-> 0] /\ buried = {}

-----------------------------------------------------------------------------
(* Sources and their jobs *)

\* Every change of a communication makes a revision, and a trigger queues its job.
SourceChanges(c) ==
  /\ open = None /\ source[c].revision < MaxRevision[c]
  /\ \E text \in SUBSET Wordings, ok \in BOOLEAN :
       source' = [source EXCEPT ![c] = [revision |-> @.revision + 1, text |-> text, ok |-> ok]]
  /\ job' = [job EXCEPT ![<<c, source'[c].revision>>] = Queued(source'[c])]
  /\ UNCHANGED <<rows, worker, open, person, events, history>>

\* reconcile_promise_jobs, at every sweep and by the backfill endpoint.
Reconcile(c) ==
  /\ open = None /\ job[<<c, source[c].revision>>] = None
  /\ job' = [job EXCEPT ![<<c, source[c].revision>>] = Queued(source[c])]
  /\ UNCHANGED <<source, rows, worker, open, person, events, history>>

\* claim_promise_job; the number of attempts does not stop a claim.
Claim(k, c, r) ==
  LET j == job[<<c, r>>] IN
  /\ open = None /\ worker[k].at = "idle" /\ j # None
  /\ (j.status = "pending" \/ (j.status = "processing" /\ j.lapsed))
  /\ job' = [job EXCEPT ![<<c, r>>] = [j EXCEPT !.status = "processing", !.attempts = j.attempts + 1,
                                               !.holder = k, !.lapsed = FALSE]]
  /\ worker' = [worker EXCEPT ![k] = [Idle EXCEPT !.at = "read", !.comm = c, !.revision = r]]
  /\ UNCHANGED <<source, rows, open, person, events, history>>

Working(j, c, r) == /\ j.holder # None /\ worker[j.holder].at # "idle"
                    /\ worker[j.holder].comm = c /\ worker[j.holder].revision = r

\* A lease runs out: of a worker that is gone, or (a fault) under one that is slow.
Lapse(c, r) ==
  LET j == job[<<c, r>>] IN
  /\ open = None /\ j # None /\ j.status = "processing" /\ ~j.lapsed
  /\ IF Working(j, c, r) THEN events < MaxEvents /\ events' = events + 1 ELSE UNCHANGED events
  /\ job' = [job EXCEPT ![<<c, r>>].lapsed = TRUE]
  /\ UNCHANGED <<source, rows, worker, open, person, history>>

Dies(k) ==
  /\ open = None /\ worker[k].at # "idle" /\ events < MaxEvents
  /\ events' = events + 1
  /\ worker' = [worker EXCEPT ![k] = Idle]
  /\ UNCHANGED <<source, job, rows, open, person, history>>

\* POST /promises/retry; the faults that fail a job bound it.
Retry(c, r) ==
  LET j == job[<<c, r>>] IN
  /\ open = None /\ j # None /\ j.status = "failed"
  /\ job' = [job EXCEPT ![<<c, r>>] = [j EXCEPT !.status = "pending", !.attempts = 0]]
  /\ UNCHANGED <<source, rows, worker, open, person, events, history>>

-----------------------------------------------------------------------------
(* Extraction *)

Exists(p) == ledger[p] # None
Deleted(p) == ledger[p].review = "deleted"
Of(p) == {e \in evidence : e.promise = p}

\* promiseEligibility: a draft, spam, a failed call, a retracted source are not read.
Excluded(j) == ~j.ok

\* normalizePromiseEvidence: what the speakers of the source said themselves, not what they quote.
Citable(j) == j.text

\* Who promised, and by when, follow from the wording: its speaker and dueInterpretation.
TermsOf(item) == item.key

\* promiseScope and allowedSource: whether a reader may see what rests on the communication.
Allowed(c) == source[c].ok

\* readPromise: the row is not deleted, its communication and some of its evidence may be read.
Readable(p) ==
  /\ Exists(p) /\ ~Deleted(p)
  /\ p # Manual => Allowed(Origin(p))
  /\ Of(p) # {} => \E e \in Of(p) : e.comm # None => Allowed(e.comm)

\* The promises an extraction may refer to; it can match one only to its own promisor.
Existing == {p \in Promises : /\ Readable(p) /\ ledger[p].review \notin {"dismissed", "retracted"}
                              /\ ledger[p].edited # "owner"}

\* What the model may answer: each promise cites a sentence of the text, once.
Extractions(text) ==
  {s \in UNION {[1 .. n -> [key : text, kind : Kinds, target : Existing \cup {None}]] : n \in 0 .. MaxItems} :
     \A i, j \in DOMAIN s : s[i].key = s[j].key => i = j}

\* fallbackPromises: explicit wordings, without targets.
Fallbacks(text) ==
  {s \in Extractions(text) : \A i \in DOMAIN s : s[i].kind = "promised" /\ s[i].target = None}

\* processPromiseJob up to its commit; an excluded source has no promises.
Extract(k) ==
  LET w == worker[k]
      j == job[<<w.comm, w.revision>>]
      Ends(fault) == IF fault THEN events < MaxEvents /\ events' = events + 1 ELSE UNCHANGED events
      Finds(items, provisional) ==
        Ends(provisional) /\ worker' = [worker EXCEPT ![k] = [w EXCEPT !.at = "commit", !.items = items,
                                                  !.provisional = provisional]]
  IN
  /\ open = None /\ w.at = "read"
  /\ \/ Excluded(j) /\ Finds(<<>>, FALSE)
     \/ ~Excluded(j) /\ \E items \in Extractions(Citable(j)) : Finds(items, FALSE)
     \/ ~Excluded(j) /\ \E items \in Fallbacks(Citable(j)) : Finds(items, TRUE)
     \/ Ends(TRUE) /\ worker' = [worker EXCEPT ![k].at = "fail"]
  /\ UNCHANGED <<source, job, rows, open, person, history>>

\* The sweep's catch: it writes only while it holds the lease, even a lapsed one.
Fail(k) ==
  LET w == worker[k]
      j == job[<<w.comm, w.revision>>]
  IN
  /\ open = None /\ w.at = "fail"
  /\ job' = IF j.holder # k THEN job
            ELSE [job EXCEPT ![<<w.comm, w.revision>>] =
                    [j EXCEPT !.status = IF j.attempts >= MaxAttempts THEN "failed" ELSE "pending",
                              !.holder = None, !.lapsed = FALSE]]
  /\ worker' = [worker EXCEPT ![k] = Idle]
  /\ UNCHANGED <<source, rows, open, person, events, history>>

-----------------------------------------------------------------------------
(* commit_promise_job *)

Leased(k) == LET j == job[<<worker[k].comm, worker[k].revision>>]
             IN j.status = "processing" /\ j.holder = k /\ ~j.lapsed

\* Mutant of Superseded: the revision is not compared.
NeverSuperseded(w) == FALSE

\* The source changed after the job was queued.
Superseded(w) == source[w.comm].revision # w.revision

\* Mutant of Finished: the lease stays.
KeepsLease(w, status) == job' = [job EXCEPT ![<<w.comm, w.revision>>].status = status]
Finished(w, status) ==
  job' = [job EXCEPT ![<<w.comm, w.revision>>].status = status,
                     ![<<w.comm, w.revision>>].holder = None]

CommitRefused(k) ==
  /\ open = None /\ worker[k].at = "commit" /\ ~Leased(k)
  /\ worker' = [worker EXCEPT ![k].at = "fail"]
  /\ UNCHANGED <<source, job, rows, open, person, events, history>>

CommitSuperseded(k) ==
  /\ open = None /\ worker[k].at = "commit" /\ Leased(k) /\ Superseded(worker[k])
  /\ Finished(worker[k], "done")
  /\ worker' = [worker EXCEPT ![k] = Idle]
  /\ UNCHANGED <<source, rows, open, person, events, history>>

\* Evidence of earlier revisions of the source retires, unless the extraction is provisional.
Retired(w) ==
  IF w.provisional THEN evidence
  ELSE {IF e.comm = w.comm /\ e.revision # w.revision THEN [e EXCEPT !.active = FALSE] ELSE e : e \in evidence}

Commit(k) ==
  LET w == worker[k] IN
  /\ open = None /\ w.at = "commit" /\ Leased(k) /\ ~Superseded(w)
  /\ open' = k
  /\ worker' = [worker EXCEPT ![k].at = "apply"]
  /\ evidence' = Retired(w)
  /\ UNCHANGED <<source, job, ledger, person, events, history>>

\* The row of the source with this wording or, if deleted, this description; else the target.
Own(w, item) ==
  {p \in Promises : /\ Exists(p) /\ Origin(p) = w.comm
                    /\ (ledger[p].key = item.key \/ (Deleted(p) /\ p[2] = Topic[item.key]))}
Target(item) ==
  {p \in {item.target} \ {None} : /\ Exists(p) /\ ledger[p].edited # "owner"
                                  /\ ledger[p].review # "retracted"}
Match(w, item) == IF Own(w, item) # {} THEN Own(w, item) ELSE Target(item)

Cites(e, p, w, item) == /\ e.promise = p /\ e.comm = w.comm /\ e.revision = w.revision
                        /\ e.key = item.key
Cite(p, w, item) ==
  IF \E e \in evidence : Cites(e, p, w, item) THEN evidence
  ELSE evidence \cup {[promise |-> p, comm |-> w.comm, revision |-> w.revision,
                       key |-> item.key, kind |-> item.kind, active |-> TRUE]}

\* Mutant of Revised: the revision does not rise.
NotRevised(written) == UNCHANGED person

\* A write of a row raises its revision: what people read of it before is stale.
Revised(written) ==
  person' = [h \in People |-> IF person[h] # None /\ person[h].promise \in written THEN None ELSE person[h]]

Found(k, p) == worker' = [worker EXCEPT ![k].items = Tail(@), ![k].found = @ \cup {p}]

\* A deleted promise, or a citation already recorded: nothing is written.
Repeated(p, w, item) ==
  Deleted(p) \/ (\E e \in evidence : Cites(e, p, w, item) /\ e.kind = item.kind)

Skip(k, p, item) ==
  /\ p \in Match(worker[k], item) /\ Repeated(p, worker[k], item)
  /\ Found(k, p)
  /\ UNCHANGED <<rows, person>>

\* A new promise; a row of the same description only gets the citation.
Insert(k, item) ==
  LET w == worker[k]
      p == <<w.comm, Topic[item.key]>>
  IN
  /\ Match(w, item) = {}
  /\ ledger' = [ledger EXCEPT ![p] =
       IF Exists(p) THEN @
       ELSE [key |-> item.key, sourceRevision |-> w.revision,
             review |-> "needs_review", terms |-> TermsOf(item), edited |-> "no"]]
  /\ evidence' = Cite(p, w, item)
  /\ Revised({p})
  /\ Found(k, p)

\* Terms that a person edited, or that are confirmed at this moment, are kept.
Kept(row) == row.edited # "no" \/ row.review = "confirmed"

Amended(p, w, item) ==
  [ledger[p] EXCEPT !.sourceRevision = IF Origin(p) = w.comm THEN w.revision ELSE @,
                    !.key = IF @ = None THEN item.key ELSE @,
                    !.terms = IF Kept(ledger[p]) THEN @ ELSE TermsOf(item),
                    !.review = IF @ = "confirmed" THEN "changed" ELSE "needs_review"]

Amend(k, p, item) ==
  LET w == worker[k] IN
  /\ p \in Match(w, item) /\ ~Repeated(p, w, item)
  /\ ledger' = [ledger EXCEPT ![p] = Amended(p, w, item)]
  /\ evidence' = Cite(p, w, item)
  /\ Revised({p})
  /\ Found(k, p)

Apply(k) ==
  /\ open = k /\ worker[k].items # <<>>
  /\ LET item == Head(worker[k].items) IN
     \/ Insert(k, item)
     \/ \E p \in Promises : Skip(k, p, item) \/ Amend(k, p, item)
  /\ UNCHANGED <<source, job, open, events, history>>

\* Promises that rested on the source and were not found in it again.
Unsupported(w) ==
  {p \in Promises : /\ ~w.provisional /\ Exists(p) /\ p \notin w.found
                    /\ ledger[p].review \notin {"deleted", "retracted"}
                    /\ (Origin(p) = w.comm \/ \E e \in Of(p) : e.comm = w.comm)}

Withdrawn(p, w) ==
  [ledger[p] EXCEPT !.sourceRevision = IF Origin(p) = w.comm THEN w.revision ELSE @,
                    !.review = IF @ \in {"confirmed", "changed"} \/ \E e \in Of(p) : e.active
                               THEN "changed" ELSE "retracted"]

Settle(k) ==
  LET w == worker[k] IN
  /\ open = k /\ w.items = <<>>
  /\ ledger' = [p \in Promises |-> IF p \in Unsupported(w) THEN Withdrawn(p, w) ELSE ledger[p]]
  /\ Revised(Unsupported(w))
  /\ Finished(w, IF ~w.provisional THEN "done"
                 ELSE IF job[<<w.comm, w.revision>>].attempts >= MaxAttempts THEN "failed" ELSE "pending")
  /\ definitive' = IF w.provisional THEN definitive ELSE [definitive EXCEPT ![w.comm] = w.revision]
  /\ worker' = [worker EXCEPT ![k] = Idle]
  /\ open' = None
  /\ UNCHANGED <<source, evidence, events, agreed, buried>>

-----------------------------------------------------------------------------
(* People: a promise is read, and a decision sent with the revision that was read *)

\* source_current: the row rests on the present revision of its communication, and so does
\* some active evidence on that of its own.
Current(p) ==
  p # Manual =>
    /\ ledger[p].sourceRevision = source[Origin(p)].revision
    /\ \E e \in Of(p) : e.active /\ e.comm # None /\ e.revision = source[e.comm].revision

Look(h, p) ==
  /\ open = None /\ events < MaxEvents /\ Readable(p)
  /\ person' = [person EXCEPT ![h] = [promise |-> p, terms |-> ledger[p].terms, current |-> FALSE]]
  /\ UNCHANGED <<source, job, rows, worker, open, events, history>>

\* reviewPromise reads the row again before it confirms.
Check(h) ==
  /\ open = None /\ person[h] # None
  /\ Readable(person[h].promise) /\ Current(person[h].promise)
  /\ person' = [person EXCEPT ![h].current = TRUE]
  /\ UNCHANGED <<source, job, rows, worker, open, events, history>>

\* The SQL functions accept a decision only on the present revision, and raise it.
Decide(h, row) ==
  /\ open = None /\ events < MaxEvents
  /\ ledger' = [ledger EXCEPT ![person[h].promise] = row]
  /\ Revised({person[h].promise})
  /\ events' = events + 1
  /\ UNCHANGED <<source, job, worker, open, definitive>>

Mine(h) == ledger[person[h].promise]
Agree(h, terms) == agreed' = [agreed EXCEPT ![person[h].promise] = terms]

\* confirm and verify_fulfillment are checked against the source once more.
Confirmable(h) ==
  LET p == person[h].promise IN
  /\ person[h].current
  /\ p # Manual => source[Origin(p)].ok /\ source[Origin(p)].revision = ledger[p].sourceRevision

Confirm(h) ==
  /\ person[h] # None /\ Confirmable(h)
  /\ Decide(h, [Mine(h) EXCEPT !.review = "confirmed"])
  /\ Agree(h, person[h].terms)
  /\ UNCHANGED <<evidence, buried>>

Dismiss(h) ==
  /\ person[h] # None /\ Decide(h, [Mine(h) EXCEPT !.review = "dismissed"])
  /\ UNCHANGED <<evidence, agreed, buried>>

\* completion_claimed, cancel and the conditions change nothing that is modelled but the revision.
Note(h) ==
  /\ person[h] # None /\ Decide(h, Mine(h))
  /\ UNCHANGED <<evidence, agreed, buried>>

\* A person who owns a promise keeps it.
Patched(row, h, part, review) ==
  [row EXCEPT !.review = review, !.terms = h, !.edited = IF @ = "owner" THEN @ ELSE part]

\* correct, with a patch or without one; update is a patch that confirms nothing.
Edit(h) ==
  /\ person[h] # None
  /\ \/ /\ Decide(h, [Mine(h) EXCEPT !.review = "confirmed"])
        /\ Agree(h, person[h].terms)
     \/ \E part \in {"terms", "owner"}, review \in {"confirmed", Mine(h).review} :
          /\ Decide(h, Patched(Mine(h), h, part, review))
          /\ Agree(h, h)
  /\ UNCHANGED <<evidence, buried>>

AddEvidence(h) ==
  /\ person[h] # None /\ Decide(h, Mine(h))
  /\ \E c \in {None} \cup {d \in Comms : Allowed(d)} :
       evidence' = evidence \cup
         {[promise |-> person[h].promise, comm |-> c, key |-> None, kind |-> "human", active |-> TRUE,
           revision |-> IF c = None THEN 0 ELSE source[c].revision]}
  /\ UNCHANGED <<agreed, buried>>

Delete(h) ==
  /\ person[h] # None /\ Decide(h, [Mine(h) EXCEPT !.review = "deleted"])
  /\ buried' = buried \cup {<<e.comm, e.key>> : e \in {x \in Of(person[h].promise) : x.key # None}}
  /\ UNCHANGED <<evidence, agreed>>

Create(h) ==
  /\ open = None /\ events < MaxEvents /\ ~Exists(Manual)
  /\ ledger' = [ledger EXCEPT ![Manual] =
       [key |-> None, sourceRevision |-> 0, review |-> "confirmed",
        terms |-> h, edited |-> "terms"]]
  /\ agreed' = [agreed EXCEPT ![Manual] = h]
  /\ events' = events + 1
  /\ UNCHANGED <<source, job, evidence, worker, open, person, definitive, buried>>

-----------------------------------------------------------------------------

Sweep(k) == Extract(k) \/ Fail(k) \/ CommitRefused(k) \/ CommitSuperseded(k) \/ Commit(k) \/ Apply(k) \/ Settle(k)

Next ==
  \/ \E c \in Comms : SourceChanges(c) \/ Reconcile(c)
  \/ \E c \in Comms : \E r \in 1 .. MaxRevision[c] :
       Lapse(c, r) \/ Retry(c, r) \/ \E k \in Workers : Claim(k, c, r)
  \/ \E k \in Workers : Sweep(k) \/ Dies(k)
  \/ \E h \in People : \/ Check(h) \/ Confirm(h) \/ Dismiss(h) \/ Note(h) \/ Edit(h)
                       \/ AddEvidence(h) \/ Delete(h) \/ Create(h)
                       \/ \E p \in Promises : Look(h, p)

Spec == Init /\ [][Next]_vars

-----------------------------------------------------------------------------

\* A confirmed promise has the terms that the person who decided last had read or set, whatever
\* extractions, corrections of its source and other reviewers did in between.
ConfirmedMeansSeen ==
  \A p \in Promises : Exists(p) /\ ledger[p].review = "confirmed" => ledger[p].terms = agreed[p]

\* Active evidence is never older than the last revision of its source that was read for good:
\* a late job of an earlier revision publishes nothing.
EvidenceNeverGoesBack ==
  \A e \in evidence : e.active /\ e.comm # None => e.revision >= definitive[e.comm]

\* A promise is put up for review only while some source, or a person, supports it: the
\* commit that retires the last citation of a promise also withdraws the promise.
ReviewIsSupported ==
  open = None => \A p \in Promises :
    Exists(p) /\ ledger[p].review = "needs_review" => \E e \in Of(p) : e.active

\* Citations follow their sources, and promises their citations.
EvidenceIsKeptUp == EvidenceNeverGoesBack /\ ReviewIsSupported

\* A deleted promise is not made again from what it rested on: no extraction opens a new row
\* with a wording of a source that a deleted promise cited.
TombstonesHold ==
  [][\A p \in Promises \ {Manual} : ledger[p] = None /\ ledger'[p] # None
       => <<Origin(p), ledger'[p].key>> \notin buried]_ledger
=============================================================================
