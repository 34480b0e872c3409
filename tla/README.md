# Formal models of the communications service

TLA+ models of the parts of the service whose correctness depends on the order of
concurrent, failing and repeated steps, with TLC instances that check them and TLAPS
proofs of the results that matter most.  Every definition is translated from the
JavaScript and SQL of the repository; `PROJECT.json` maps each one to its lines.

## The system

One Node process (possibly several replicas) serves an HTTP API and Twilio, e-mail and
calendar webhooks, bridges telephone audio to a realtime model, and runs sweepers on
timers.  All durable state is in Postgres, reached through a client whose calls return
`{data, error}`: an error is a value, and a caller that does not look at it goes on.
There are no transactions across calls, except inside SQL functions and triggers.  Two
requests, two ticks of a sweeper, or a sweeper and a request interleave at every `await`.

| Component | State | Operations | Talks to |
|---|---|---|---|
| Event outbox (`eventOutbox.js`) | `outbound_events`: status, attempts, lease, dedupe key | enqueue, claim a batch, POST, record the result, requeue | every component enqueues; external receivers |
| Outbound operations (`outboundOperations.js`, `outboundReadiness.js`, routes in `v1.js`, `index.js`) | `outbound_operations`: status, fingerprint, provider id | reserve, dispatch, mark, record, announce, complete | Twilio, mail providers, outbox, call and message rows |
| Call outcome finalizer (`callOutcome.js`) | `calls` outcome columns, `call_outcome_jobs` | queue (trigger), claim, judge, persist, announce, defer, fail | classifier, outbox, summaries |
| Call and message records (`callLog.js`, `smsLog.js`) | `calls`, `messages`, `communications` | upsert rows, status callbacks, transcripts | finalizer (by trigger), outbox |
| Recordings (`recordings.js`) | `recordings`: status, lease | claim, transcribe, project, delete audio | call records, summaries |
| Enrichment (`enrichment.js`) | `communication_enrichment_jobs`, facts, commitments | queue (trigger), claim, extract, store, rerun | memory, promise ledger |
| E-mail ingest (`emailWebhook.js`) | `webhook_receipts`, `communication_jobs`, `email_messages` | queue a receipt, ingest, delivery reports | threads, outbox |
| Mailbox sync (`mailboxService.js`) | `mailbox_sync_state`: cursor, lease | claim, page, ingest, move the cursor | Gmail, Outlook, e-mail ingest |
| Mailbox drafts (`mailboxService.js`) | `mailbox_draft_update_receipts`, draft baselines | claim, update at the provider, verify, finalize, reconcile, recover | Gmail, Outlook |
| Mailbox OAuth (`mailboxOAuth.js`) | connection, one-time state, tokens | start, callback, refresh, revoke | providers |
| Threads (`communicationModel.js`) | threads, identities, links | resolve, link, correct, split | every inbound path |
| Asks (`v1.js`) | `ask_bindings` | bind, resolve | outbox, finalizer |
| Promise ledger (`promiseLedger.js`) | commitments, conditions, evidence jobs | extract, confirm, transition, retract | enrichment, reviews |
| Operational review (`reviewEngine.js`, `reviewActions.js`, `reviewVoice.js`) | sessions, queues, decisions, actions | open, advance, decide, recover, dispatch, receive receipts | promise ledger, outbox, voice |
| Tenants (`tenantLifecycle.js`, `tenantOperations.js`) | tenants, clients, budgets, deletion jobs | create, suspend, export, delete | every claim function filters on active tenants |
| Voice bridge (`index.js`, `voiceTurns.js`, `transcriptDrain.js`) | per-call memory: turn state, pending transcripts | model events, barge-in, tool calls, drain | model socket, Twilio, call records |
| Realtime sessions (`realtimeSessions.js`) | sockets opened before the media stream | preconnect, claim, discard, sweep | model |
| Reception, briefing, HyperFlow voice | per-call memory | schedule, gate, escalate | voice bridge |
| Outbound call config (`outboundCallConfig.js`, `configResolver.js`) | a map of configs by CallSid; the config frozen in an operation | store, take, freeze, restore, claim | voice bridge |
| Config, auth, context, tools, console | caches | read | - |

Hard behaviours: leases that lapse under a running sweep; replicas of one sweeper;
crashes between a side effect and the row that records it; provider calls whose outcome
is unknown; retries by callers; webhooks that are repeated, late or out of order; error
values nobody reads; read-modify-write across awaits; barge-in while a tool call runs.

What makes each component correct:

* outbox - an outcome recorded for an event is one the receiver gave; every event of an
  active tenant settles; no event is posted more often than allowed;
* outbound operations - one billable send per key; the answer to the caller is true; a
  send the provider accepted can be completed;
* finalizer - one terminal event per call, which agrees with the stored outcome; only a
  verified success is evidence; every ended call is announced;
* asks - one resolution, one resolution event;
* enrichment, recordings, promise jobs - no change of the source is lost; nothing is
  deleted before its replacement is stored;
* e-mail ingest and sync - every message ingested once, no cursor moved past a message
  that is not stored;
* drafts - an edit reaches the mailbox at most once, receipts say truly whether it did, and an
  unproven one keeps the draft claimed;
* promises - a confirmed promise has the terms a person has seen; evidence follows its sources;
* reviews - an answer falls on what was asked, settles a finding once, and the session waits
  exactly while it has questions; instructions are counted, carried out and reported truly;
* threads - what a person corrected outranks what is scored; nothing enters an Ask that is over;
* voice - tools run once, one farewell, a goodbye is heard to its end and can be interrupted,
  the transcript is handed over once and is complete up to its cap.

## The modules

| Module | What it is |
|---|---|
| `EventDelivery` | promise of the outbox: pending, then delivered or failed, on evidence |
| `EventOutbox` | the outbox: rows, sweeps, lapses, crashes, requeue |
| `MCEventOutbox` | instance |
| `BillableSend` | promise of an idempotent billable send |
| `OutboundOperation` | reservation, dispatch, marks, records and events of the five send endpoints |
| `MCOutboundOperation` | instance |
| `Outbound_proofs` | proofs about `EventOutbox` and `OutboundOperation`: everything that leaves the service |
| `CallVerdict` | promise about a finished call: judged once, announced as judged |
| `CallOutcome` | trigger, claim, finalizer sweep, its failures, and the writers it races |
| `MCCallOutcome`, `CallOutcome_proofs` | instances; proofs |
| `VoiceCall` | one call on the voice bridge: turns, tools, playback, hang-up, transcript drain |
| `MCVoiceCall` | instance |
| `CallAdmission` | how a media stream comes to serve a call: stored and frozen configurations, the session opened ahead |
| `MCCallAdmission` | instance |
| `VoiceCall_proofs` | proofs about `CallAdmission` and `VoiceCall`: a call from its first webhook to its transcript |
| `MailboxDraft` | one Outlook draft edited in place: claims, receipts, recoveries, reconciliation, and its owner |
| `MCMailboxDraft`, `MailboxDraft_proofs` | instances; proofs |
| `PromiseLedger` | sources, extraction jobs, commits item by item, decisions of people |
| `MCPromiseLedger`, `PromiseLedger_proofs` | instances; proofs |
| `ReviewSessions` | the sessions that a review and its instructions share |
| `OperationalReview` | findings, sessions with their questions, answers, refreshes, lifecycle routes |
| `ReviewInstructions` | the end of a review: instructions, outbox, executor, receipts, summary |
| `MCOperationalReview`, `OperationalReview_proofs` | instance of the review; proofs about both |
| `MemoryJobs` | recordings and their transcripts, enrichment of a thread, memory as it is shown |
| `MCMemoryJobs`, `MemoryJobs_proofs` | instances; proofs |
| `ThreadRanking` | the score of a thread and the choice among threads, a pure algorithm |
| `InboundMail` | webhooks, jobs, the ingestion of a message, delivery reports, corrections, resolution of the Ask |
| `MailboxSync` | composes `InboundMail` with the syncs of a connected mailbox |
| `MCMailboxSync`, `MailboxSync_proofs` | instances; proofs about the composition |

`InboundMail` uses `ThreadRanking`, and `MailboxSync` runs `InboundMail`'s `Ingest` in its syncs.
`ReviewInstructions` goes on where `OperationalReview` ends and has its own small outbox, with
the dispatch switch that `EventOutbox` leaves out.  `MemoryJobs` composes the recordings, the
records of calls and the enrichment by the triggers between them.  The other components meet in
rows, and each module has the writers of the rows it reads.

A handler is cut into one action per `await`, because that is where others interleave;
what runs between two awaits is one step.  `pc`, or the record of a worker, a request
or a sweep, holds the local variables that survive an await, nothing else.  A database error, an exception, a provider
failure or a crash is an explicit alternative of the action; `faults` (in the outbox `mishaps`),
bounded by a constant, counts them in instances.  Time is untimed: a lease lapses, a backoff ends,
a deadline passes as an action of its own, at any moment the code allows.  Payloads,
wording, addresses and authentication are abstracted away.

### EventOutbox

`row[e]` is the `outbound_events` row; `batch[w]` what a sweep claimed and has not posted, with the
attempts it read, `doing[w]` and `result[w]` the event that was posted and its answer, `spent[w]` the
POSTs of the batch.  `Claim` is the SQL function (oldest first, skip what is leased or not due),
`Post` the HTTP call, `RecordOutcome` the update under the lease token, `Requeue` the operator's
endpoint.  History variables (`acked`, `refused`, `tries`) are only read by properties.

### OutboundOperation

`op[k]` is the `outbound_operations` row of an idempotency key, `pc[r]`, `key[r]` and `body[r]`
one HTTP request.  The sequence of steps follows the handlers: inspect, reserve, dispatch
(accepted, rejected, unknown), mark, record the row, record the communication, announce,
complete, answer.
`accepts[k]` says whether the thread and the Ask that the request resolves to would take one more
communication: people close, correct and reopen threads and resolve Asks at any time.  POST /emails
asks (`Resolve`) before it reserves, the others when the provider has accepted already.  `recorded[k]`
is what is stored of a send: its own row, or also its communication, which for a call a trigger makes
that swallows its errors (`RecordCall`).  SMS, voice, e-mail and the two legacy endpoints differ only where the code
differs (which rows are upserted, who announces, what a failure marks), given by the
constants `Sms`, `Email` (the others are calls) and `Legacy`.

### CallOutcome

`call[c]` holds the columns the trigger and the finalizer read, `verdict[c]` and `emitted[c]`
what the finalizer writes, `job[c]` the job with its lease.  `Queued` is the trigger: every
writer of `calls` (`Report`, `DetectMachine`, `SaveTranscript`) includes it.  `Read` is
`processJob` up to its first decision, and so on down to `failJob` (`Fail`, `LastRead`, `Close`,
`GiveUp`).  The transcript rules and the classifier are a choice among the verdicts they can
return for that row.

### VoiceCall

The state of one media stream is in memory and one thread changes it.  `turns`, `active`, `seen`
and `run` are what `createVoiceTurns` closes over: the farewell it waits for, who speaks, what
is deferred, which responses belong to which generation, whose end was handled, and how far the
loop over each one's tool calls has come (a tool is awaited, everything else runs at once).
`line` is the connection to Twilio with `endCall`'s flags, the call limit and the drain timers;
`marks` is the queue of pieces not acknowledged, `twilio` what Twilio has still to play and which
echoes are on their way.  `words` and `drain` are the caller's turns and `createTranscriptDrain`.
The operators named `Handle...` are the cases of `handleOpenAiMessage`; the action of the
provider that sends a message includes its handler.  That loses no behaviour: `requests`, the
messages to the provider, are delivered at any later time, so every crossing of the two
directions is there.  A response has at most one piece of audio.  `Noted` drops what is said beyond
`MaxSegments` (500 in the code); the drain ends with the transcript handed to `saveTranscript`, which
nobody waits for and which forgets its errors.  Tools are those the turn
controller tells apart: `briefing`, `end_call`, and all others (`lookup`).

### CallAdmission

One CallSid, since every map involved is keyed by it, of one of three kinds: from outside, placed by
an operator, or placed with a configuration frozen in its operation.  `stored` is the entry of
`callConfigs`, `pending` that of `realtimeSessions`, `operation` the audit context of the row;
`webhook[w]` and `stream[x]` are handlers cut at the awaits of `restoreOutboundCallConfig`, with
the audit context they read.  `socket[s]` is a socket to the model and what was sent and handled
over it.  `StartSession` is `startOrAdoptSession`.  A restart forgets all but the row.

### MailboxDraft

`draft` is the `mailbox_drafts` row and `receipt[k]` the update receipt of an idempotency key;
`Recovers[k]` names the key whose rejected update `k` recovers after a review.  `req[r]` is a
request, cut at its database and provider calls: `snap` is the draft row it read and `own` the
receipt it acts for, its own or, when a retry finds that a recovery is under way, the recovery's.
`Claim`, `Finalizable`/`Finalizes` and `Releases` are the SQL functions.  `flight[k]` is the PATCH
of a key, which the provider applies or refuses at any time after it was sent, whether or not
anybody waits.  All updates set one field, so `provider` is a version and one content.  An answer
outside the deterministic statuses, a lost answer and a failed read after the PATCH are all
`Unsettled`; a request that ends without another write is `Dies`.  A read that only decides whether to
go on is folded into the next step (the receipt that recovery reads first, the receipt an
insert collided with), which loses no behaviour since a row that is decided on is never deleted.

### PromiseLedger

`source[c]` is a communication with its `promise_revision`, `job` the `promise_jobs` of each
revision, `ledger` and `evidence` the rows the SQL functions keep.  The commit of an extraction
locks and works through the items one after the other (`Commit`, `Apply`, `Settle`): while it is
`open` no decision of a person can write, but both read at any time.  A wording stands for terms
and a topic for what makes two wordings the same promise; the model and the fallback may find any
part of a text.  A person decides under the revision that was read.  Left out: due dates,
conditions, observed states, corrected associations, listing.

### OperationalReview and ReviewInstructions

`finding`, `object`, `promise` are the rows, `model` the one request to the language model under
way with the receipt it was given, `session[s]` the row of a session with its queue.  A session's
row has a revision which every write raises; the model has it as the set of calls that have read
the present row and are forgotten when it is written.  `Refreshed` is the SQL function that drops and
renews questions, `Decide` the one that records an answer with all it changes.  Of a briefing only
what raises questions is there.  In `ReviewInstructions` `event` is the outbox row of an
instruction, `work` what the executor does, `receipts` its results on their way, `dispatch` the
switch of the deployment.

### MemoryJobs

A scene says which texts a thread has, in which order they occurred and how many a run reads (30 in
the code: the newest, `InReach`), and which sweeps run.  `job` and `recording` are the leased
rows, `worker` and `transcriber` the sweeps by step, `row` what is kept (the summary, or a fact)
with its sources.  A moment that the code keeps (the evidence horizon, the time of a read) is the
set of sources that were updated since, so that updates need no bound.  `SetFactStatus` is the endpoint that sets the status of a fact, and its
time with it.

### InboundMail, ThreadRanking and MailboxSync

`hook`, `receipt` and `job` are the delivery of a webhook and its rows; `worker[w]` is a sweep on
one message of its batch, by step, with what it has read.  `Read`, `ResolveThread`, `StoreEmail`,
`StoreComm`, `StoreFiles`, `Announce`, `AnnounceAnswer` are the awaits of
`ingestCanonicalInboundEmail`; a refusal of the database or of the thread resolution goes to the
end of the job (`Refuse`).  `ResolveThread` ranks with `ThreadRanking`, which gives the weights,
threshold and margin of the code.  `request[q]` is a resolution of the Ask in two steps under a row
lock, `correction` the SQL function that moves a message, which two transactions can dead-lock
with.  In `MailboxSync` `inbox` is the order in which messages arrived and a cursor the number it
has passed, as both Gmail's history ids and Graph's delta links do; `sync[s]` is a sync by step.
A sync ingests with the same actions as a worker, so the two cannot drift apart.  A scene's `garbled`
messages are those the normalization refuses, which a sync skips.  Left out: reply
routes that expire, projects, several Asks, the edits of a thread's register, the bound of 1000
messages of a list, and labels other than INBOX.

## What the runs check

| Run | Instance | Shows |
|---|---|---|
| `outbox` | 3 events, of which two share a dedupe key and are watched; 2 sweeps with a batch of 2; 2 attempts; 1 requeue; 1 fault | `OutcomesAreEarned` (delivered, failed and counted attempts were); every event settles; implements `EventDelivery` |
| `outbound` | an SMS, a call or an e-mail; 2 requests; 2 bodies; 2 faults; a thread that closes and reopens at any time | `SendsAreAccountedFor` (one dispatch per key, true answers, completed is announced); an accepted call is completed by retries once its thread takes it for good; implements `BillableSend` |
| `outcome` | 1 call with an Ask; 2 sweeps; 2 attempts; 3 faults; 2 reports; a lease outlives its sweep | `OneStoryIsTold` (one event, which agrees with the outcome; only success is evidence); every end is announced; implements `CallVerdict` |
| `voice` | 2 responses, 2 turns of the caller, 1 repeated report; responses with a briefing tool or `end_call`; any hang-up or lost socket, or the call limit, or a late handshake | `CallIsHonest` (tools run once; goodbyes are heard and can be taken back, but for a timer the code loses; transcripts are complete up to their cap); `CallEnds` |
| `admission` | 1 call of each kind; 1 request to place it; 2 webhooks; 2 streams; 2 sockets with 1 message each; 1 restart or database error | `StreamsGetTheirOwn` (a frozen configuration serves one stream; sessions are handed over exactly); none stays behind unclaimed |
| `drafts` | 2 edits, one with a recovery; 2 requests at a time, 4 in all; 1 edit by the owner; 1 failed database call | `EditsAreAccountedFor` (an unproven PATCH keeps its claim; receipts tell the truth; an edit is applied at most once) |
| `promises` | a source with 2 revisions and 2 wordings of one promise; 2 sweepers; 1 person; 2 decisions or faults | confirmed promises have the terms that were seen; evidence never goes back and reviews are supported |
| `promises_tombstone` (violation) | 2 sources with one promise, which is deleted | the next revision of the second source makes it again |
| `review` | 1 communication edited once; 2 sessions of 1 owner with 2 questions; 1 request to the model; 1 write of another; five kinds of findings | answers fit what was asked; a finding is settled once; a session waits exactly while it has a question |
| `instructions` | 1 session, 2 instructions, 2 attempts of the outbox, 2 switches of dispatch, tenant or evidence | nothing is left out of the summary, results stay, replaced instructions are not carried out; every clear instruction settles |
| `jobs` | 6 scenes over a message and a recorded call, 2 sweeps of either kind, room for both texts in a run or for the newer one, unbounded updates, corrections and crashes | memory shown as current is; audio outlives its transcription; jobs that are done have read what is in reach; every job settles |
| `inbox` | 10 scenes: replies under two sweeps with a resolution and a correction; an automatic reply and two resolutions; three messages without a thread and two corrections; two delivery reports; Gmail with a reconnection, a removal or a correction; Gmail and Outlook under two syncs; Gmail with an answer to an Ask that is resolved; Gmail and Outlook with a message that cannot be normalized | no mail is lost but for named cases; a resolved Ask keeps its answer and is left alone; corrections outrank scores; all mail settles |

Bounds.  The interesting histories need two actors on one object and one or two faults: a
second sweep or request that takes over from, or overtakes, the first, and a crash or an
error between two of its steps.  Instances have two of each actor, two attempts (so that there
is a retry, and a last attempt), and up to three faults; two objects where the actors could
confuse them.  Calls are independent of each other but for the sweep that claims them, so
`outcome` has one.  `MaxReports`, `MaxRequeues`, `MaxResponses`, `MaxTurns` and `MaxRepeats`
bound the environment.  On the voice bridge two responses are enough for one to be spoken,
closing or calling tools while the other one ends; one turn of the caller interrupts the first, and a
second one is had where two farewells were asked for or nothing was answered yet, which is what it
takes to lose a drain timer and to meet it again.  `MCVoiceCall` says which combinations an instance
leaves out (`MCInit`, `Bounded`).  One segment is the cap at its boundary, and so is one text in reach
of an enrichment run.  An instance of `outbound` has one operation in each behaviour, any of the
three kinds: operations share nothing.  Two webhooks and two streams are
a handshake and its replay, two sockets the one opened ahead and the one opened instead.
Of a draft, four requests are an update, its recovery, a retry and an edit of somebody else.
Two revisions of a source give an early job a later one to race; two sessions give an answer one
that was asked the same.  `OtherThreads` bounds the threads that mail can start (five, more than
the messages of a scene need), `moves` the corrections, removals and reconnections of a scene, and
`faults` the lapses, failures and crashes; scenes have what can meet, not everything at once.
Constants that are pure bounds are commented as such; the proofs hold for all
of their values, and cover what an instance leaves out: the legacy endpoints, leases
that lapse at any time, any number of operations and calls, more responses and turns.

Fairness.  Sweepers are intervals that start for ever, and a sweep always runs to its end
(or dies), so steps of a sweep are weakly fair and a claim, which may be disabled again and
again by another sweep's lease, is strongly fair.  Clocks move, so lapses, backoffs and
deadlines are weakly fair.  Callers' retries are assumed only for the liveness property of
`outbound`: the API's documentation tells callers to retry with the same key; it is stated for calls
whose thread takes them for good from some time on, since a closed thread refuses the record of a call
that was placed as often as it is tried.  Faults are
finite; `EveryEndIsAnnounced` is stated for fewer faults than attempts.  On the voice bridge
only timers and the close handler are fair: the caller, the tools, Twilio's echoes and the
provider owe nothing.  Of the admission only the sweeper is fair.  Enrichment and recording sweeps
come every 15 s and each step of theirs is bounded by a timeout; `EveryJobSettles` is stated for
threads that are left alone, since every change starts the job again.  The executor of instructions
is assumed to work and to repeat what was not accepted, as its contract says; dispatch and tenant
only where the property says that they are on for good.  Mail providers deliver a webhook until it
is answered; a mailbox is synced again and again, by pushes and by the reconciliation that
docs/API_REFERENCE.md:619 speaks of.

Overlap.  `drafts` assumes that a client waits for an answer (or its request dies) before it sends
the same edit again, which the code does not enforce; the hazard at `mailboxService.js:1106` says
what happens otherwise.  Requests for different edits overlap freely.
`OneApplyPerEdit`, and for recoveries `UnprovenClaimStays`, need no such assumption.

Named exceptions.  Where the code breaks what a property is about in one known way, the property
names that way by a history variable and claims that there is no other: `broken` (a worker stopped
between the writes of a message), `early` (a report before its row), `crossed` (the answer was moved
while the Ask was resolved), `passed` and `refused` (below, for mailboxes), `unread` (a change that
no enrichment worker was told of, or of which text is in reach), `vouched` (a fact whose status was set, a
summary that cites nothing), a scene's `garbled` messages, `IsStored` (a call whose communication the
trigger failed to make), and the drain timer whose handle was overwritten in
`InterruptionRevokesClose`.  Each exception was checked to be needed: without it TLC finds
the counterexample.

Deadlock is not checked where a system may stop: when the bounded faults, reports, requests or
turns of an instance are used up and all work is done.

## What is proved

For every number of events, keys, calls, sweeps, requests, attempts and faults.  The property that a
run checks is often the conjunction of several; it is proved from a theorem for each of its parts.

* `Outbound_proofs`, first about `EventOutbox`: types; a recorded outcome is earned; attempts are
  real; the outbox implements `EventDelivery`.  The inductive invariant adds to these what a sweep
  holding an answer knows (`AnswerIsCounted`, `Earned`): the update under the lease token can then
  only write what was answered to that very claim.
* `Outbound_proofs`, then about `OutboundOperation`: at most one dispatch per key, success is told of
  what the provider accepted and is stored (of a call, at least the call), rejection is true, completed
  is announced, and the handlers implement `BillableSend`.
  `Exclusive` says that while an operation is only reserved, the request that reserved it is alone
  with it; `StepIsEarned` what each step presupposes, `StatusIsEarned` what a status says about the
  provider.  None of the properties is inductive without them: that a second request must not
  dispatch depends on nobody being before `dispatch` on an operation that left `reserved`.
* `CallOutcome_proofs`: types and one terminal event per call whatever the leases do; and,
  assuming that a lease outlives its sweep (`LeaseOutlivesWork`), that the event states the
  stored outcome, that only a success is evidence, and that the finalizer implements
  `CallVerdict`.  `SInv` ties a sweep under way to the live lease of its call, from which no
  two sweeps work on one call, and what it has written so far (`Sound`).  The assumption is
  needed: the update that stores the outcome is not guarded by the lease.
* `VoiceCall_proofs`: for any number of responses, turns and repeated reports: types (and so that
  a transcript is handed over at most once), tools run once, goodbyes are heard before the line is hung
  up, an interrupted goodbye ends the call neither by its playback nor by its timer unless the timer's
  handle was overwritten, nothing known is lost up to the cap of segments.  `Current` says that the
  response being generated has not been reported as ended; `Loops` ties the count of tools
  started to the position of their loop; `Closing` that every pending hang-up belongs to a
  closing; `Playback` that what Twilio has not played is marked, and that no echo on its way is
  of a piece still buffered - without it an echo of a cleared piece could empty the queue of marks;
  `Known` that until the drain has finished every turn begun is accounted for.
* `VoiceCall_proofs`, of the admission of a call: types, one stream for a frozen configuration, exact handover of sessions.
  `Claims` adds that whoever is about to write a claim has read the row unclaimed: with the
  compare-and-set of the update, only the first of them gets in.  `Well` and `Ready` say how far a
  socket is configured, and that the one in the map has kept all that was sent over it.
* `MailboxDraft_proofs`: types, an unproven PATCH keeps its claim, true receipts, one PATCH per
  edit with all its recoveries, whether or not requests overlap.  The invariant adds that a claim
  has the draft's revision as its base and a settled receipt an older one (`RowOK`), that a
  recovered edit is `Dead` - unsent, and nobody left who would send it - and shares its base with
  every recovery (`LinkOK`), and that what a request read is not newer than the draft (`ReadOK`).
  From these: a live PATCH of a sibling either claims the draft or has moved it past the base
  (`Siblings`), so nothing else of the edit can claim, send, or be settled by reading it back.
* `PromiseLedger_proofs`: types; a confirmed promise has terms that its confirmer read or set;
  evidence is kept up.  Of steps, beyond what the runs ask: a deleted row is never written again
  (`DeletedForGood`) and edited terms are changed by people only (`EditsStand`).  `LedgerInv` says
  that what a person has read is still what the row says while the revision is the one read;
  `QueueInv` that a commit under way is of the present revision of its source, which is what makes
  a late job harmless; `CitationInv` that outside a commit the citations of earlier revisions are
  retired unless provisional, and that what lost its support is up for withdrawal.
* `OperationalReview_proofs`, of the review: types; answers fit what was asked; a finding is settled
  once; a session is in review exactly while it has a question.  The invariant has a part for each
  kind of row and one for each kind of call.  Two carry the argument: a question asked at a revision
  of its promise still states its terms, or the promise only followed an extraction since; and what a
  call checked is true of the session as it is, because every write of the session forgets the calls
  that read it (the revision in the update's condition).
* `OperationalReview_proofs`, of the instructions: types; the summary counts every one, a settled one
  shows what the executor did and keeps it, a replaced one is not carried out.  `InstructionsInv`
  relates an instruction to its event, what the executor did with it, and the receipts on their way,
  which are repeated and late: each says what was done, so in any order they settle it the same way.
* `MemoryJobs_proofs`: types; a job that is done has read what is in reach, and what is shown as current and
  vouched for was read from its sources as they are; audio outlives its transcription.  `ThreadInv`: a worker that
  has the lease, and was neither asked to run again nor overtaken by a change it cannot see, has read
  everything in reach, and so has what it stored; that a communication more can only push another out
  of reach (`NewestOfMore`) is what lets the call become eligible unnoticed.  `TapeInv`: a transcriber that has not committed has the
  lease, and one that has, stored the transcript.
* `MailboxSync_proofs`, of `InboundMail` and the syncs together: types, `NoMailIsLost`,
  `AskKeepsItsAnswer`, `SettledAskIsLeftAlone`, `CorrectionsOutrankScores`.  `Core` is about workers and
  syncs, which ingest with the same steps: what each knows of its message, that only one of them is
  between the writes of a message, and that a row in `email_messages` is whole, in hand or `broken`.
  `Asked` is about the Ask: binding and thread are open or resolved together, one request is inside
  the locked resolution, and a correction that holds the answer began before.  `Cursors` is about
  the mailbox: no list of a sync leaves out what moving the cursor will pass.

Assumptions on constants are the named ASSUMEs of the modules; each is evaluated in the
instances.

Only model-checked: every liveness property (`EveryEventSettles`, `CallReplayReconciles`,
`EveryEndIsAnnounced`, `CallEnds`, `NoSessionIsLeft`, `EveryInstructionSettles`, `EveryJobSettles`,
`AllMailSettles`), since the provers have neither fairness nor ENABLED; and what `ThreadRanking`
computes, of which `MailboxSync_proofs` uses only that it ranks the threads it is given without those
excluded.  Every invariant and every action property of the passing runs is a theorem.

## Disagreements found

A run that ends in a counterexample, with the text it contradicts in `PROJECT.json`:
`promises_tombstone`, a deleted promise that comes back: the counterexample ends with the insert of a
promise from its second source after the person deleted the one from the first.

Further ones were met while modelling and are steps of the models; properties are stated so that
they hold beside them:

* a batch of the outbox outlives its leases, and two sweeps hold one event (docs/API_REFERENCE.md:1078);
* the catch block of the e-mail route writes failed over completed (`v1.js:957`), which is why
  `ImplementsBillableSend` is claimed of calls and SMS only;
* an SMS or an e-mail whose row is stored before a failure is never completed by a replay
  (`smsLog.js:126`, `v1.js:899`);
* POST /calls looks at the thread and the Ask only after the provider has accepted the call: when they
  are closed or do not match, `recordCall` throws as often as the caller retries, and the operation is
  never completed (`callLog.js:89`, `communicationModel.js:571`);
* a call is answered with success though its communication is missing: the trigger swallows its errors
  and the update that follows does not look at how many rows it touched
  (`migrations/008_call_outcomes.sql:142`, `callLog.js:151`);
* a second farewell arms a drain timer over the handle of the first (`index.js:1322`), which no
  interruption clears any more: it hangs up on a caller who took the goodbye back, against
  test/voiceTurns.test.js:101;
* what is said after the 500th segment of a call is dropped (`index.js:1063`), and an error of
  `saveTranscript` is forgotten (`callLog.js:215`);
* the last read of a call fails and its job is closed without an event (`callOutcome.js:278`); with as
  many faults as attempts, `failJob` also gives up on an outcome that is stored and not announced;
* a tool that returns late arms a drain timer after the call (`index.js:936`);
* a draft update that a retry has completed becomes uncertain and blocks the draft
  (`mailboxService.js:1319`);
* a worker that stops after the row in `email_messages` leaves a message that its next attempt calls a
  duplicate (`emailWebhook.js:143`): no communication, no event;
* the Ask is resolved by a communication that a correction is moving away
  (`migrations/009_multi_tenancy.sql:272`);
* a late delivered hides a bounce (`emailWebhook.js:326`);
* a renewed watch gives the cursor a history id of after the messages were listed
  (`mailboxService.js:363`), and connecting a Gmail mailbox again one of now while the old last success
  stays (`mailboxService.js:195`): mail that arrived in between is never read;
* a message that cannot be normalized is counted as skipped and the cursor passes it
  (`mailboxService.js:342`, `mailboxService.js:413`);
* a message that ingestion refuses, as an answer to an Ask that is over, fails every sync of its
  mailbox from then on (`mailboxService.js:347`; by webhook such a message is given up);
* a change between the look for a rerun and the end of an enrichment run is not read
  (`enrichment.js:325`);
* an enrichment run reads the newest 30 communications of its thread (`enrichment.js:301`): a change of
  an older text is queued and never read, and when a correction brings one into reach nothing is queued;
* a summary that cites nothing stands on the communication of its job, which the model may not have
  been given (`enrichment.js:311`);
* setting the status of a fact makes it as new as that, so it is shown as current though a source has
  changed since it was read (`v1.js:1413`);
* a correction to eligible queues no enrichment (`v1.js:663`).

Seen and not in the models: two active facts for one key after a crash between insert and supersede;
a merged fact keeps a source edited since; a manual retry of a recording whose audio was deleted
ends as failed.

## Plan

The model is complete as planned, and so are the proofs of what the runs check of states and steps.
What is left to prove, in order:

1. action properties that no run checks and the invariants at hand give: that an outcome once
   announced, a completed operation and a settled receipt of a draft stay as they are;
2. that `MailboxSync` without a mailbox is `InboundMail`, so that what is proved of the composition
   is a theorem of the webhook path alone;
3. lemmas about the choice of `ThreadRanking`: whom it prefers, and that a tie chooses nobody.

## Not modelled

Audio, prompts, HTML, provider HTTP details and cryptography are data or I/O without a protocol;
authentication filters requests before any state changes; migrations run once.  OAuth states, e-mail
policies and tenants change by single statements or transactions with no step in between.  The
creation of a draft follows the pattern of `OutboundOperation` (a row reserved under the key, a retry
only of what failed before the provider was called).  Reception, briefings and HyperFlow are prompts and
tools on top of the voice bridge.  Search and the assembly of memory only read.  `PROJECT.json` says
for each component what is left out of it.
