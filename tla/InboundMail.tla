----------------------------- MODULE InboundMail -----------------------------
(***************************************************************************)
(* Mail that comes in by webhook (emailWebhook.js): a receipt and a job,   *)
(* sweeps that claim jobs by lease, and the writes that turn a message     *)
(* into an e-mail, a communication in a thread, and events; or a delivery  *)
(* report into the state of what was sent.  Meanwhile people correct       *)
(* threads (migration 020), and the workflow owner resolves the Ask that a *)
(* thread may belong to (v1.js, migration 009).                            *)
(*                                                                         *)
(* One tenant and one Ask, asked by the message Sent, whose reply address  *)
(* routes to its thread.  A database function is one step, or two where it *)
(* reads what another one is changing.  Times are left to the scheduler: a *)
(* job that waits for its next attempt is claimed whenever a sweep looks.  *)
(***************************************************************************)
EXTENDS ThreadRanking

CONSTANTS Mails, Reports,     \* webhook events: messages received, and delivery reports
          Mail,               \* what a message says, by message
          Kind,               \* what a report says, by report
          Sent, AskThread,    \* the message that asked, and its thread
          OtherThreads,       \* ids for threads that are made here: bounds their number
          Person,             \* the contact behind an address, None when there is none
          Workers,            \* sweeps that overlap, of one process or of several
          Syncers,            \* syncs of a mailbox, which ingest as sweeps do (MailboxSync)
          Requests,           \* calls of POST /asks/:askId/resolve
          Scenes,             \* which of these take part, and how many things go wrong
          None,
          MaxAttempts         \* MAX_ATTEMPTS

Receipts == Mails \cup Reports
Hands == Workers \cup Syncers
Threads == OtherThreads \cup {AskThread}
Comms == Mails \cup {Sent}
Purposes == {"human_ask", None}

ASSUME InboundMailAssumption ==
  /\ Mails \cap Reports = {} /\ Workers \cap Syncers = {} /\ Sent \notin Receipts
  /\ AskThread \notin OtherThreads /\ MaxAttempts \in Nat \ {0}
  /\ \A m \in Mails : /\ Mail[m].reply \in BOOLEAN /\ Mail[m].human \in BOOLEAN /\ Mail[m].files \in BOOLEAN
                      /\ Mail[m].parent \in Comms \cup {None} /\ Mail[m].from \in DOMAIN Person
  /\ \A d \in Reports : Kind[d] \in {"delivered", "bounced", "opened"}
  /\ \A s \in Scenes : s.asked \subseteq DOMAIN Person /\ s.faults \in Nat /\ s.moves \in Nat

VARIABLES
  scene,       \* one of Scenes
  hook,        \* the provider's delivery of a webhook: "due", "stored" (the receipt is), "answered"
  receipt,     \* webhook_receipts.processing_status
  job,         \* communication_jobs
  worker,      \* a sweep or a sync that ingests: the message it is on, and what it has read
  email,       \* email_messages
  comm,        \* communications
  outbox,      \* outbound_events
  delivery,    \* delivery_status of an outbound message the reports are about
  thread,      \* communication_threads, with the participants
  binding,     \* ask_bindings, the row of the Ask
  request,     \* a resolution, by step
  correction,  \* correct_communication_thread while it runs
  feedback,    \* thread_resolution_feedback, the active rows
  faults,      \* how many more things may go wrong
  moves,       \* how many more corrections people make: a bound
  broken,      \* history: a worker stopped between the writes of a message
  early,       \* history: reports that came before the row of what they report on
  crossed      \* history: the answer was being moved while the Ask was resolved by it

web == <<hook, receipt>>
mail == <<email, comm>>
threads == <<thread, binding, feedback>>
people == <<request, correction, moves>>
history == <<broken, early, crossed>>
vars == <<scene, hook, receipt, job, worker, email, comm, outbox, delivery, thread, binding, request, correction,
          feedback, faults, moves, broken, early, crossed>>

Claims == [of : Receipts, attempts : Nat]   \* a job as it was claimed
Idle == [at |-> "idle", on |-> None, todo |-> {}, wants |-> None, purpose |-> None, thread |-> None, link |-> None,
         verdict |-> None]
Settled == {"done", "failed"}
Topics == {Mail[m].topic : m \in Mails} \cup {"ask", None}

Job == [status : {"none", "pending", "processing"} \cup Settled, attempts : Nat, lease : Workers \cup {None},
        lapsed : BOOLEAN]
Hand == [at : {"idle", "read", "thread", "email", "comm", "files", "announce", "answer", "finish", "settle"},
         on : Claims \cup {None}, todo : SUBSET Claims, wants : Threads \cup {None}, purpose : Purposes,
         thread : Threads \cup {None}, link : {"explicit", "inferred", None}, verdict : {"pending", None} \cup Settled]
Email == [thread : Threads, purpose : Purposes]
Comm == [thread : Threads, purpose : Purposes, link : {"explicit", "inferred", "corrected"}, files : BOOLEAN]
Thread == [status : {"none", "open", "resolved", "closed"}, purpose : Purposes, people : SUBSET DOMAIN Person,
           topic : Topics]
Ask == [status : {"open", "resolved"}, thread : Threads, by : Comms \cup {None}]
Request == [at : {"idle", "checked", "locked", "resolved", "over"}, by : Comms \cup {None}]
Move == [of : Mails, to : Threads, reason : {"other", "wrong_topic"}]
Feedback == [of : Mails, from : Threads, to : Threads, reason : {"other", "wrong_topic"}]

\* None is none of the values it stands beside.
ASSUME NoneIsNoRow ==
  /\ None \notin Claims \cup Email \cup Comm \cup Move
  /\ None \notin Threads \cup Comms \cup Workers \cup Nat \cup {"human_ask", "explicit", "inferred", "pending", "done", "failed"}

TypeOK ==
  /\ scene \in Scenes /\ faults \in Nat /\ moves \in Nat
  /\ hook \in [Receipts -> {"due", "stored", "answered"}]
  /\ receipt \in [Receipts -> {"none", "pending", "processed", "failed"}]
  /\ job \in [Receipts -> Job] /\ worker \in [Hands -> Hand]
  /\ email \in [Comms -> Email \cup {None}] /\ comm \in [Comms -> Comm \cup {None}]
  /\ delivery \in {None, "sent", "delivered", "bounced", "opened"}
  /\ thread \in [Threads -> Thread] /\ binding \in Ask /\ binding.thread = AskThread
  /\ request \in [Requests -> Request] /\ correction \in Move \cup {None} /\ feedback \subseteq Feedback
  /\ broken \subseteq Mails /\ early \subseteq Reports /\ crossed \in BOOLEAN
  \* What is leased is being processed and has its receipt; who is at work has a job, and knows the
  \* thread once there is one.
  /\ \A r \in Receipts : /\ job[r].lease # None <=> job[r].status = "processing"
                         /\ job[r].status # "none" => receipt[r] # "none"
  /\ \A w \in Hands :
       /\ worker[w].at # "idle" => worker[w].on \in Claims \ worker[w].todo
       /\ worker[w].at \in {"email", "comm", "files", "announce", "answer"} /\ worker[w].on.of \in Mails
            => worker[w].thread \in Threads

\* The Ask has been sent to the people of its thread.
Init ==
  /\ scene \in Scenes /\ faults = scene.faults /\ moves = scene.moves
  /\ hook = [r \in Receipts |-> "due"] /\ receipt = [r \in Receipts |-> "none"]
  /\ job = [r \in Receipts |-> [status |-> "none", attempts |-> 0, lease |-> None, lapsed |-> FALSE]]
  /\ worker = [w \in Hands |-> Idle]
  /\ email = [c \in Comms |-> IF c = Sent THEN [thread |-> AskThread, purpose |-> "human_ask"] ELSE None]
  /\ comm = [c \in Comms |-> IF c = Sent
               THEN [thread |-> AskThread, purpose |-> "human_ask", link |-> "explicit", files |-> FALSE] ELSE None]
  /\ outbox = {} /\ delivery = None
  /\ thread = [t \in Threads |-> IF t = AskThread
                 THEN [status |-> "open", purpose |-> "human_ask", people |-> scene.asked, topic |-> "ask"]
                 ELSE [status |-> "none", purpose |-> None, people |-> {}, topic |-> None]]
  /\ binding = [status |-> "open", thread |-> AskThread, by |-> None]
  /\ request = [q \in Requests |-> [at |-> "idle", by |-> None]] /\ correction = None /\ feedback = {}
  /\ broken = {} /\ early = {} /\ crossed = FALSE

Fault == faults > 0 /\ faults' = faults - 1

-----------------------------------------------------------------------------
(* The webhook: queueReceipt *)

\* A redelivery finds the receipt that is there.
Receive(r) ==
  /\ r \in scene.receipts /\ hook[r] = "due" /\ hook' = [hook EXCEPT ![r] = "stored"]
  /\ receipt' = [receipt EXCEPT ![r] = IF @ = "none" THEN "pending" ELSE @]
  /\ UNCHANGED <<scene, job, worker, mail, outbox, delivery, threads, people, faults, history>>

QueueJob(r) ==
  /\ hook[r] = "stored" /\ hook' = [hook EXCEPT ![r] = "answered"]
  /\ job' = [job EXCEPT ![r].status = IF @ = "none" /\ receipt[r] # "processed" THEN "pending" ELSE @]
  /\ UNCHANGED <<scene, receipt, worker, mail, outbox, delivery, threads, people, faults, history>>

\* The process stops between the two writes, or its answer is lost: the provider delivers again.
Redeliver(r) ==
  /\ hook[r] # "due" /\ Fault /\ hook' = [hook EXCEPT ![r] = "due"]
  /\ UNCHANGED <<scene, receipt, job, worker, mail, outbox, delivery, threads, people, history>>

-----------------------------------------------------------------------------
(* Claims: claim_communication_jobs *)

Batch(w) == {worker[w].on} \cup worker[w].todo
Attended(r) == job[r].lease # None /\ worker[job[r].lease].at # "idle"
               /\ \E c \in Batch(job[r].lease) : c.of = r

\* A worker that stopped leaves its lease to lapse; one that is slow may outlive it.
\* Mutant of Claimable: what a stopped worker left is never claimed again.
OnlyPending(r) == job[r].status = "pending"
Claimable(r) == job[r].status = "pending" \/ (job[r].status = "processing" /\ (job[r].lapsed \/ ~Attended(r)))

Lapse(r) ==
  /\ job[r].status = "processing" /\ Attended(r) /\ ~job[r].lapsed /\ Fault
  /\ job' = [job EXCEPT ![r].lapsed = TRUE]
  /\ UNCHANGED <<scene, web, worker, mail, outbox, delivery, threads, people, history>>

On(c, todo) == [Idle EXCEPT !.at = "read", !.on = c, !.todo = todo]
Advance(w) == \* to the next job of the batch
  \/ worker[w].todo = {} /\ worker' = [worker EXCEPT ![w] = Idle]
  \/ \E c \in worker[w].todo : worker' = [worker EXCEPT ![w] = On(c, worker[w].todo \ {c})]

Claim(w) ==
  /\ w \in scene.workers /\ worker[w].at = "idle"
  /\ LET due == {r \in Receipts : Claimable(r)}
         batch == {[of |-> r, attempts |-> job[r].attempts + 1] : r \in due}
     IN /\ job' = [r \in Receipts |-> IF r \in due
                     THEN [status |-> "processing", attempts |-> job[r].attempts + 1, lease |-> w, lapsed |-> FALSE]
                     ELSE job[r]]
        /\ \E c \in batch : worker' = [worker EXCEPT ![w] = On(c, batch \ {c})]
  /\ UNCHANGED <<scene, web, mail, outbox, delivery, threads, people, faults, history>>

At(w, step) == worker[w].at = step
Doing(w) == worker[w].on.of
Go(w, step) == worker' = [worker EXCEPT ![w].at = step]
\* An error is caught for each job: another attempt later, or no more.
Exhausted(w) == worker[w].on.attempts >= MaxAttempts
Refuse(w) == worker' = [worker EXCEPT ![w].at = "finish", ![w].verdict = IF Exhausted(w) THEN "failed" ELSE "pending"]

-----------------------------------------------------------------------------
(* A message: ingestCanonicalInboundEmail *)

Facts(w) == Mail[Doing(w)]
Parent(w) == IF Facts(w).parent = None THEN None ELSE email[Facts(w).parent]
Corrected(c) == comm[c] # None /\ comm[c].link = "corrected"

\* A reply address leads to the thread of the Ask, unless the very message that is answered was
\* moved by a person; else the thread of that message does.
Route(w) == Facts(w).reply /\ (Parent(w) # None => ~Corrected(Facts(w).parent))
Read(w) ==
  /\ At(w, "read") /\ Doing(w) \in Mails
  /\ worker' = [worker EXCEPT ![w] =
       IF email[Doing(w)] # None THEN [@ EXCEPT !.at = "finish", !.verdict = "done"]
       ELSE IF Route(w) THEN [@ EXCEPT !.at = "thread", !.wants = AskThread, !.purpose = "human_ask"]
       ELSE IF Parent(w) # None THEN [@ EXCEPT !.at = "thread", !.wants = Parent(w).thread, !.purpose = Parent(w).purpose]
       ELSE [@ EXCEPT !.at = "thread"]]
  /\ UNCHANGED <<scene, web, job, mail, outbox, delivery, threads, people, faults, history>>

\* The evidence that ties message m to thread t.  Only the sender's address is known here, on one
\* channel, outside of projects.
Contacts(addresses) == {Person[a] : a \in addresses} \ {None}
Applies(f, m) ==
  /\ Mail[f.of].from = Mail[m].from \/ Contacts({Mail[f.of].from}) \cap Contacts({Mail[m].from}) # {}
  /\ f.reason = "wrong_topic" => Mail[f.of].topic = Mail[m].topic
Rejected(m, t) == \E f \in feedback : Applies(f, m) /\ f.from = t /\ f.to # t
EvidenceOf(m, t) ==
  LET mine == Contacts({Mail[m].from}) theirs == Contacts(thread[t].people)
  IN [rejected |-> Rejected(m, t), preferred |-> \E f \in feedback : Applies(f, m) /\ f.to = t,
      identity |-> Mail[m].from \in thread[t].people, people |-> Cardinality(mine \cap theirs),
      named |-> Cardinality(mine), known |-> Cardinality(theirs), project |-> "none", channel |-> "same",
      topics |-> IF thread[t].topic = Mail[m].topic THEN 2 ELSE 0, hours |-> Mail[m].hours,
      ask |-> thread[t].purpose = "human_ask"]
Open(t) == thread[t].status = "open"
Related(m, t) == Mail[m].from \in thread[t].people \/ Contacts({Mail[m].from}) \cap Contacts(thread[t].people) # {}
Candidates(m) == {t \in Threads : Open(t) /\ Related(m, t)}
Ranked(m) == Chosen(Candidates(m), [t \in Candidates(m) |-> EvidenceOf(m, t)])

Unused == {t \in Threads : thread[t].status = "none"}
Fresh == CHOOSE t \in Unused : TRUE
Locked == \E q \in Requests : request[q].at = "locked"

\* A thread that message m enters.
With(row, m, purpose) ==
  [row EXCEPT !.status = "open", !.purpose = purpose, !.topic = Mail[m].topic, !.people = @ \cup {Mail[m].from}]

\* resolveCommunicationThread: one transaction, under the lock of the tenant, that writes the
\* thread and the binding; a resolution of the Ask holds the rows it would write.
Join(w, t, link) ==
  LET purpose == IF worker[w].purpose # None THEN worker[w].purpose ELSE thread[t].purpose
  IN IF purpose = "human_ask" /\ binding.status # "open" THEN Refuse(w) /\ UNCHANGED threads
     ELSE /\ purpose = "human_ask" => ~Locked
          /\ thread' = [thread EXCEPT ![t] = With(@, Doing(w), purpose)]
          /\ binding' = IF purpose = "human_ask" THEN [binding EXCEPT !.thread = t] ELSE binding
          /\ worker' = [worker EXCEPT ![w] = [@ EXCEPT !.at = "email", !.thread = t, !.purpose = purpose, !.link = link]]
          /\ UNCHANGED feedback

ResolveThread(w) ==
  /\ At(w, "thread") /\ correction = None
  /\ LET explicit == worker[w].wants
         bound == worker[w].purpose = "human_ask"
     IN IF \/ explicit # None /\ ~Open(explicit)
           \/ bound /\ (binding.status # "open" \/ explicit # binding.thread)
        THEN Refuse(w) /\ UNCHANGED threads
        ELSE IF explicit # None THEN Join(w, explicit, "explicit")
        ELSE IF Ranked(Doing(w)) # {} THEN \E t \in Ranked(Doing(w)) : Join(w, t, "inferred")
        ELSE Unused # {} /\ Join(w, Fresh, "inferred")
  /\ UNCHANGED <<scene, web, job, mail, outbox, delivery, people, faults, history>>

\* The unique key of the provider's id refuses a second row.
StoreEmail(w) ==
  /\ At(w, "email") /\ UNCHANGED <<scene, web, job, comm, outbox, delivery, threads, people, faults, history>>
  /\ IF email[Doing(w)] # None THEN Refuse(w) /\ UNCHANGED email
     ELSE /\ email' = [email EXCEPT ![Doing(w)] = [thread |-> worker[w].thread, purpose |-> worker[w].purpose]]
          /\ Go(w, "comm")

\* Mutant of Accepts: the trigger lets a communication into a thread that is no longer open.
AnyThread(t, purpose) == TRUE
\* link_communication_thread refuses what would enter a thread, or an Ask, that is over.
Accepts(t, purpose) == Open(t) /\ (purpose = "human_ask" => binding.status = "open")

StoreComm(w) ==
  /\ At(w, "comm") /\ UNCHANGED <<scene, web, job, email, outbox, delivery, feedback, people, faults, early, crossed>>
  /\ LET t == worker[w].thread purpose == worker[w].purpose
     IN /\ purpose = "human_ask" => ~Locked
        /\ IF ~Accepts(t, purpose)
           THEN Refuse(w) /\ broken' = broken \cup {Doing(w)} /\ UNCHANGED <<comm, thread, binding>>
           ELSE /\ comm' = [comm EXCEPT ![Doing(w)] =
                              [thread |-> t, purpose |-> purpose, link |-> worker[w].link, files |-> FALSE]]
                /\ thread' = [thread EXCEPT ![t].purpose = IF purpose = None THEN @ ELSE purpose]
                /\ binding' = IF purpose = "human_ask" THEN [binding EXCEPT !.thread = t] ELSE binding
                /\ Go(w, IF Facts(w).files THEN "files" ELSE "announce") /\ UNCHANGED broken

StoreFiles(w) ==
  /\ At(w, "files") /\ comm' = [comm EXCEPT ![Doing(w)].files = TRUE] /\ Go(w, "announce")
  /\ UNCHANGED <<scene, web, job, email, outbox, delivery, threads, people, faults, history>>

\* Mutant of IsAnswer: an automatic reply counts as a response to the Ask.
ForTheAsk(m, purpose) == purpose = "human_ask"
\* triageEmail: only what a human wrote answers.
IsAnswer(m, purpose) == Mail[m].human /\ purpose = "human_ask"

\* Events carry a dedupe key: the message is announced once, however often that is tried.
Announce(w) ==
  /\ At(w, "announce") /\ Doing(w) \in Mails
  /\ outbox' = outbox \cup {<<"communication.received", Doing(w)>>}
  /\ worker' = [worker EXCEPT ![w] = IF IsAnswer(Doing(w), @.purpose) THEN [@ EXCEPT !.at = "answer"]
                                     ELSE [@ EXCEPT !.at = "finish", !.verdict = "done"]]
  /\ UNCHANGED <<scene, web, job, mail, delivery, threads, people, faults, history>>

AnnounceAnswer(w) ==
  /\ At(w, "answer") /\ outbox' = outbox \cup {<<"ask.response.received", Doing(w)>>}
  /\ worker' = [worker EXCEPT ![w] = [@ EXCEPT !.at = "finish", !.verdict = "done"]]
  /\ UNCHANGED <<scene, web, job, mail, delivery, threads, people, faults, history>>

-----------------------------------------------------------------------------
(* A delivery report: processDelivery *)

\* The row of the outbound message is stored after the provider has it.
StoreSent ==
  /\ scene.receipts \cap Reports # {} /\ delivery = None /\ delivery' = "sent"
  /\ UNCHANGED <<scene, web, job, worker, mail, outbox, threads, people, faults, history>>

Telling == {"delivered", "bounced"}
Report(w) ==
  /\ At(w, "read") /\ Doing(w) \in Reports
  /\ IF delivery = None
     THEN /\ early' = early \cup {Doing(w)} /\ UNCHANGED delivery
          /\ worker' = [worker EXCEPT ![w] = [@ EXCEPT !.at = "finish", !.verdict = "done"]]
     ELSE /\ delivery' = Kind[Doing(w)] /\ UNCHANGED early
          /\ worker' = [worker EXCEPT ![w] = IF Kind[Doing(w)] \in Telling THEN [@ EXCEPT !.at = "announce"]
                                             ELSE [@ EXCEPT !.at = "finish", !.verdict = "done"]]
  /\ UNCHANGED <<scene, web, job, mail, outbox, threads, people, faults, broken, crossed>>

AnnounceReport(w) ==
  /\ At(w, "announce") /\ Doing(w) \in Reports /\ outbox' = outbox \cup {<<Kind[Doing(w)], Sent>>}
  /\ worker' = [worker EXCEPT ![w] = [@ EXCEPT !.at = "finish", !.verdict = "done"]]
  /\ UNCHANGED <<scene, web, job, mail, delivery, threads, people, faults, history>>

-----------------------------------------------------------------------------
(* The end of a job: finishJob *)

\* Mutant of Close: the lease stays on a job that is over.
KeepLease(j, verdict) == [j EXCEPT !.status = verdict, !.lapsed = FALSE]
Close(j, verdict) == [j EXCEPT !.status = verdict, !.lease = None, !.lapsed = FALSE]

\* The job goes only to the worker that has its lease; the receipt is written by any.
Finish(w) ==
  /\ At(w, "finish") /\ Go(w, "settle")
  /\ job' = IF job[Doing(w)].lease = w THEN [job EXCEPT ![Doing(w)] = Close(@, worker[w].verdict)] ELSE job
  /\ UNCHANGED <<scene, web, mail, outbox, delivery, threads, people, faults, history>>

Settle(w) ==
  /\ At(w, "settle") /\ Advance(w)
  /\ receipt' = [receipt EXCEPT ![Doing(w)] = IF worker[w].verdict = "done" THEN "processed" ELSE worker[w].verdict]
  /\ UNCHANGED <<scene, hook, job, mail, outbox, delivery, threads, people, faults, history>>

\* After the row in email_messages another attempt takes the message for a duplicate.
Halfway(w) == At(w, "comm") \/ At(w, "files") \/ At(w, "answer") \/ (At(w, "announce") /\ Doing(w) \in Mails)
Breaks(w) == broken' = IF Halfway(w) THEN broken \cup {Doing(w)} ELSE broken

\* A call fails: the job is put off, or given up when the provider says that it is no use; when
\* that fails too, the sweep ends.
Fail(w) ==
  /\ worker[w].at # "idle" /\ Fault /\ Breaks(w)
  /\ IF worker[w].at \in {"finish", "settle"} /\ worker[w].verdict # "done" THEN worker' = [worker EXCEPT ![w] = Idle]
     ELSE Refuse(w) \/ (At(w, "read") /\ worker' = [worker EXCEPT ![w] = [@ EXCEPT !.at = "finish", !.verdict = "failed"]])
  /\ UNCHANGED <<scene, web, job, mail, outbox, delivery, threads, people, early, crossed>>

Crash(w) ==
  /\ worker[w].at # "idle" /\ Fault /\ Breaks(w) /\ worker' = [worker EXCEPT ![w] = Idle]
  /\ UNCHANGED <<scene, web, job, mail, outbox, delivery, threads, people, early, crossed>>

-----------------------------------------------------------------------------
(* The Ask: POST /asks/:askId/resolve and resolve_communication_ask *)

InAskThread(c) == comm[c] # None /\ comm[c].thread = binding.thread
Answerable(c) == binding.status = "open" /\ InAskThread(c)
Step(q, at, c) == request' = [request EXCEPT ![q] = [at |-> at, by |-> c]]

Check(q, c) ==
  /\ q \in scene.requests /\ request[q].at = "idle" /\ Answerable(c) /\ Step(q, "checked", c)
  /\ UNCHANGED <<scene, web, job, worker, mail, outbox, delivery, threads, correction, moves, faults, history>>

\* The binding is locked and everything is looked at again; that it is resolved already by the same
\* communication is no error.
Lock(q) ==
  /\ request[q].at = "checked" /\ ~Locked
  /\ Step(q, IF Answerable(request[q].by) THEN "locked"
             ELSE IF binding.by = request[q].by THEN "resolved" ELSE "over", request[q].by)
  /\ UNCHANGED <<scene, web, job, worker, mail, outbox, delivery, threads, correction, moves, faults, history>>

\* It waits for a correction that holds its communication or its thread, but does not read again.
Resolve(q) ==
  LET c == request[q].by
  IN /\ request[q].at = "locked" /\ (correction # None => correction.of # c /\ correction.to # binding.thread)
     /\ binding' = [binding EXCEPT !.status = "resolved", !.by = c]
     /\ thread' = [thread EXCEPT ![binding.thread].status = "resolved"]
     /\ crossed' = (comm[c].thread # binding.thread) /\ Step(q, "resolved", c)
     /\ UNCHANGED <<scene, web, job, worker, mail, outbox, delivery, feedback, correction, moves, faults, broken, early>>

\* Two transactions that wait for each other: the database ends one.
Deadlock(q) ==
  /\ request[q].at = "locked" /\ correction # None /\ correction.to = binding.thread
  /\ \/ Step(q, "over", request[q].by) /\ UNCHANGED correction
     \/ correction' = None /\ UNCHANGED request
  /\ UNCHANGED <<scene, web, job, worker, mail, outbox, delivery, threads, moves, faults, history>>

\* No dedupe key: each request that comes so far adds an event.
AnnounceResolved(q) ==
  /\ request[q].at = "resolved" /\ Step(q, "over", request[q].by)
  /\ outbox' = outbox \cup {<<"ask.resolved", q>>}
  /\ UNCHANGED <<scene, web, job, worker, mail, delivery, threads, correction, moves, faults, history>>

-----------------------------------------------------------------------------
(* A person moves a message: POST .../rethread and correct_communication_thread *)

\* Mutant of Movable: what answers an Ask can be moved after the Ask is resolved.
AnyMail(c) == TRUE
Movable(c) == comm[c].purpose = "human_ask" => binding.status = "open"

BeginCorrection(c, to, reason) ==
  /\ moves > 0 /\ moves' = moves - 1 /\ correction = None /\ c \in Mails /\ comm[c] # None /\ Movable(c)
  /\ (to \in Unused /\ to = Fresh) \/ (Open(to) /\ to # comm[c].thread)
  /\ correction' = [of |-> c, to |-> to, reason |-> reason]
  /\ UNCHANGED <<scene, web, job, worker, mail, outbox, delivery, threads, request, faults, history>>

\* The participants that nothing ties to the old thread any more leave it, and it closes when nothing
\* is left in it.
Without(row, left, tied) ==
  [row EXCEPT !.people = {a \in @ : a \in tied \/ Contacts({a}) \cap Contacts(tied) # {}},
              !.status = IF left = {} /\ row.purpose # "human_ask" THEN "closed" ELSE @]

\* The message takes the purpose of its new thread, and one that leaves an Ask loses it.
CommitCorrection ==
  LET c == correction.of to == correction.to from == comm[c].thread
      purpose == IF thread[to].purpose # None THEN thread[to].purpose
                 ELSE IF comm[c].purpose = "human_ask" THEN None ELSE comm[c].purpose
      left == {d \in Comms \ {c} : comm[d] # None /\ comm[d].thread = from}
      tied == UNION {IF d = Sent THEN scene.asked ELSE {Mail[d].from} : d \in left}
  IN /\ correction # None /\ (purpose = "human_ask" => ~Locked) /\ correction' = None
     /\ comm' = [comm EXCEPT ![c] = [@ EXCEPT !.thread = to, !.purpose = purpose, !.link = "corrected"]]
     /\ email' = [email EXCEPT ![c] = [thread |-> to, purpose |-> purpose]]
     /\ thread' = [t \in Threads |-> IF t = to THEN With(thread[t], c, purpose)
                                     ELSE IF t = from THEN Without(thread[t], left, tied) ELSE thread[t]]
     /\ binding' = IF purpose = "human_ask" THEN [binding EXCEPT !.thread = to] ELSE binding
     /\ feedback' = {f \in feedback : f.of # c} \cup {[of |-> c, from |-> from, to |-> to, reason |-> correction.reason]}
     /\ UNCHANGED <<scene, web, job, worker, outbox, delivery, request, moves, faults, history>>

-----------------------------------------------------------------------------

Ingest(w) ==
  Read(w) \/ ResolveThread(w) \/ StoreEmail(w) \/ StoreComm(w) \/ StoreFiles(w) \/ Announce(w) \/ AnnounceAnswer(w)
WorkerStep(w) == Ingest(w) \/ Report(w) \/ AnnounceReport(w) \/ Finish(w) \/ Settle(w)

Next ==
  \/ \E r \in Receipts : Receive(r) \/ QueueJob(r) \/ Redeliver(r) \/ Lapse(r)
  \/ \E w \in Workers : Claim(w) \/ WorkerStep(w) \/ Fail(w) \/ Crash(w)
  \/ StoreSent
  \/ \E q \in Requests : (\E c \in Comms : Check(q, c)) \/ Lock(q) \/ Resolve(q) \/ Deadlock(q) \/ AnnounceResolved(q)
  \/ \E c \in Mails, to \in Threads, reason \in {"other", "wrong_topic"} : BeginCorrection(c, to, reason)
  \/ CommitCorrection

\* The provider delivers until it is answered, sweeps come every 15 s, transactions end.
Fairness ==
  /\ WF_vars(\E r \in Receipts : Receive(r) \/ QueueJob(r))
  /\ \A w \in Workers : WF_vars(Claim(w) \/ WorkerStep(w))
  /\ WF_vars(CommitCorrection \/ \E q \in Requests : Resolve(q) \/ Deadlock(q))

Spec == Init /\ [][Next]_vars /\ Fairness

-----------------------------------------------------------------------------
(* Properties *)

\* A message that is dealt with has its communication, its attachments and its event, and an event
\* for the Ask exactly when a human answered it; a report about a message whose row was there has its
\* event.  It is not so when a worker stopped between the writes: the next one finds the row in
\* email_messages, calls the message a duplicate, and the job is done (emailWebhook.js:143).
Whole(m) ==
  /\ comm[m] # None
  /\ Mail[m].files => comm[m].files
  /\ <<"communication.received", m>> \in outbox
  /\ comm[m].link # "corrected" =>
       (<<"ask.response.received", m>> \in outbox <=> Mail[m].human /\ comm[m].purpose = "human_ask")
InHand(m) == \E w \in Hands : worker[w].at # "idle" /\ Doing(w) = m /\ Halfway(w)
MailIsWhole ==
  /\ \A m \in Mails : job[m].status = "done" => Whole(m) \/ m \in broken \/ InHand(m)
  /\ \A d \in Reports : job[d].status = "done" /\ Kind[d] \in Telling => <<Kind[d], Sent>> \in outbox \/ d \in early

\* A resolved Ask was resolved by a communication in its thread, and what is announced names it; but
\* a correction that takes the answer away while the database function runs goes unnoticed, for the
\* function reads the communication without a lock (009_multi_tenancy.sql:273).
AskKeepsItsAnswer ==
  /\ binding.status = "resolved" => InAskThread(binding.by) \/ crossed
  /\ \A q \in Requests : <<"ask.resolved", q>> \in outbox => binding.status = "resolved" /\ binding.by = request[q].by

\* Once an Ask is resolved no message enters its thread, by mail or by correction, however old the
\* decision that led it there, and the Ask does not open again.
SettledAskIsLeftAlone ==
  [][binding.status = "resolved" =>
       /\ UNCHANGED binding /\ thread'[AskThread].status = "resolved"
       /\ \A c \in Comms : InAskThread(c)' => InAskThread(c)]_vars

\* "Hard human corrections cannot be outweighed by heuristics" (communicationModel.js:184): a thread
\* that a correction rejected for a sender is not chosen by score for what that sender writes.
CorrectionsOutrankScores ==
  [][\A w \in Hands : At(w, "thread") /\ worker[w].wants = None /\ At(w, "email")'
       => ~Rejected(Doing(w), worker'[w].thread)]_vars

\* A webhook whose receipt is stored is dealt with or given up, whatever stops on the way.
EveryMailSettles == <>[](\A r \in Receipts : receipt[r] # "none" => job[r].status \in Settled)
=============================================================================
