------------------------------ MODULE MemoryJobs ------------------------------
(***************************************************************************)
(* The background jobs that turn what was said into memory.  A recording   *)
(* is transcribed (recordings.js) and projected on its call; the trigger   *)
(* on the call's communication queues the enrichment of the thread, as it  *)
(* does for a message (migration 009); an enrichment worker reads the      *)
(* thread, asks the model, and stores a summary and facts with the sources *)
(* they rest on (enrichment.js); memorySafety.js decides, when they are    *)
(* shown, whether the sources still are what the worker saw.               *)
(*                                                                         *)
(* One thread.  A moment that is kept (claimed_at as the evidence horizon, *)
(* the time of a read) is the set of sources updated since, so "updated    *)
(* after the horizon" is membership, and updates need no bound.  Of what is *)
(* derived the model keeps one row, the summary of the thread or a fact:   *)
(* each stands on its own sources.  Promises are in PromiseLedger.         *)
(***************************************************************************)
EXTENDS Naturals, FiniteSets

CONSTANTS Messages, Call,  \* the communications of the thread; the call is recorded
          Workers,         \* enrichment sweeps, one in each process
          Transcribers,    \* recording sweeps, one in each process
          Scenes,          \* what there is: texts and when they occurred, the processes that sweep
                           \* either queue, and how many texts a run reads (30 in the code)
          None,
          MaxAttempts      \* MAX_ATTEMPTS of either queue

Sources == Messages \cup {Call}

ASSUME MemoryJobsAssumption ==
  /\ IsFiniteSet(Messages) /\ Call \notin Messages /\ None \notin Sources \cup Workers \cup Transcribers
  /\ Scenes \subseteq [texts : SUBSET Sources, workers : SUBSET Workers, transcribers : SUBSET Transcribers,
                       occurred : [Sources -> Nat], limit : Nat \ {0}]
  /\ MaxAttempts \in Nat \ {0}

VARIABLES
  scene,      \* one of Scenes
  said,       \* communications with a body or a summary
  eligible,   \* memory_eligible
  job,        \* communication_enrichment_jobs, the row of the thread
  worker,     \* processJob of a sweep, by step
  kind,       \* the row that is kept: the "summary" of communication_threads, or a "fact"
  row,        \* and what it rests on
  recording,  \* the row in recordings
  audio,      \* the provider still has the audio
  transcriber,\* process of a sweep, by step
  unread      \* history: there is a change that no worker was told of

thread == <<scene, said, eligible>>
memory == <<kind, row>>
queue == <<job, worker, unread>>
tape == <<recording, audio, transcriber>>
vars == <<scene, said, eligible, job, worker, kind, row, recording, audio, transcriber, unread>>

\* later: updated since the horizon; known: read, and not updated since; vouched (history): the
\* sources are among those that were read, and the time is that of the run
Evidence == [sources : SUBSET Sources, later : SUBSET Sources, known : SUBSET Sources, vouched : BOOLEAN]
Steps == {"CLAIMED", "READ", "STORED", "ENOUGH", "RERUN"}
Run == [step : Steps, of : Sources, sources : SUBSET Sources, later : SUBSET Sources,
        known : SUBSET Sources]

Job == [status : {"none", "pending", "processing", "done", "failed"}, of : Sources, rerun : BOOLEAN,
        attempts : 0 .. MaxAttempts, lease : Workers \cup {None}]
Recording == [status : {"none", "pending", "skipped", "transcribing", "done", "failed"},
              transcript : BOOLEAN, attempts : 0 .. MaxAttempts, lease : Transcribers \cup {None}]
Transcribing == {"CLAIMED", "FETCHED", "COMMITTED", "PROJECTED"}

\* None is none of the rows and steps.
ASSUME NoneIsNoRow == None \notin Evidence \cup Run \cup Transcribing

TypeOK ==
  /\ scene \in Scenes /\ said \subseteq Sources /\ eligible \subseteq Sources
  /\ job \in Job /\ worker \in [Workers -> Run \cup {None}]
  /\ kind \in {"summary", "fact"} /\ row \in Evidence \cup {None}
  /\ recording \in Recording /\ audio \in BOOLEAN /\ unread \in BOOLEAN
  /\ transcriber \in [Transcribers -> Transcribing \cup {None}]
  \* What is leased is being processed, and what is done has its transcript.
  /\ (job.lease # None <=> job.status = "processing") /\ (recording.status = "done" => recording.transcript)

Init ==
  /\ scene \in Scenes /\ said = {} /\ eligible = Messages
  /\ job = [status |-> "none", of |-> Call, rerun |-> FALSE, attempts |-> 0, lease |-> None]
  /\ worker = [w \in Workers |-> None] /\ kind \in {"summary", "fact"} /\ row = None
  /\ recording = [status |-> "none", transcript |-> FALSE, attempts |-> 0, lease |-> None]
  /\ audio = TRUE /\ transcriber = [t \in Transcribers |-> None] /\ unread = FALSE

-----------------------------------------------------------------------------
(* Communications, and the trigger that queues the thread *)

\* What a run reads: the communications that are eligible, but for the older ones of too many.  A
\* message is in the thread with its text, the call before its own.
Newest(S) == {c \in S : Cardinality({d \in S : scene.occurred[d] > scene.occurred[c]}) < scene.limit}
InReach == Newest(eligible \cap (said \cup {Call}))

Processing == job.status = "processing"
At(w, s) == worker[w] # None /\ worker[w].step = s
Owns(w) == job.lease = w

\* updated_at of c is now after every moment that is kept, of a run and of what it derived.
Touch(c) ==
  /\ worker' = [w \in Workers |-> IF At(w, "CLAIMED") \/ At(w, "READ")
       THEN [worker[w] EXCEPT !.later = @ \cup {c}, !.known = @ \ {c}] ELSE worker[w]]
  /\ row' = IF row = None THEN None
            ELSE [row EXCEPT !.later = @ \cup ({c} \cap row.sources), !.known = @ \ {c}]
  /\ UNCHANGED kind

Rerun == Processing

\* queue_communication_enrichment, after an update of the body or the summary; the worker that has
\* looked for a rerun will clear the one that is asked for now.
Queue(c) ==
  /\ job' = [job EXCEPT !.of = c, !.rerun = Rerun, !.status = IF Processing THEN @ ELSE "pending",
                        !.attempts = IF Processing THEN @ ELSE 0]
  /\ unread' = (unread \/ \E w \in Workers : Owns(w) /\ At(w, "ENOUGH"))

\* A text that is stored, stored again, or summarised.
Update(c) ==
  /\ said' = said \cup {c} /\ Touch(c)
  /\ IF c \in eligible' THEN Queue(c) ELSE UNCHANGED <<job, unread>>

Write(m) == m \in scene.texts /\ UNCHANGED eligible /\ Update(m) /\ UNCHANGED <<scene, tape>>

\* The transcript a live session wrote itself, when it closes.
LiveTranscript ==
  /\ Call \in scene.texts \ said /\ UNCHANGED eligible /\ Update(Call) /\ UNCHANGED <<scene, tape>>

\* summariseCall, from the sweep of the recordings or the outcome finalizer
Summarise ==
  /\ Call \in said /\ Call \in eligible
  /\ UNCHANGED eligible /\ Update(Call) /\ UNCHANGED <<scene, tape>>

\* The outcome of the call is verified: what was said becomes evidence.
Judge ==
  /\ Call \notin eligible /\ eligible' = eligible \cup {Call}
  /\ IF Call \in said THEN Update(Call) ELSE UNCHANGED <<said, queue, memory>>
  /\ UNCHANGED <<scene, tape>>

\* POST /communications/:id/disposition updates neither body nor summary: nothing is queued, also
\* not for the older text that comes into reach.
Correct(c) ==
  /\ c \in said /\ Touch(c) /\ UNCHANGED <<scene, said, job, tape>>
  /\ eligible' \in {eligible \cup {c}, eligible \ {c}}
  /\ unread' = (unread \/ ~(InReach' \cap said \subseteq InReach \ {c}))

\* POST /facts/:factId/status: the fact is as new as this, though no source was read.  Once
\* retracted it may be made active again.
SetFactStatus ==
  /\ kind = "fact" /\ row # None /\ row' = [row EXCEPT !.later = {}, !.vouched = FALSE]
  /\ UNCHANGED <<thread, queue, kind, tape>>

\* POST /communications/:id/enrich: the job is pending again, also under a worker.
Requeue(c) ==
  /\ c \in eligible \cap said
  /\ job' = [status |-> "pending", of |-> c, rerun |-> FALSE, attempts |-> 0, lease |-> None]
  /\ UNCHANGED <<thread, worker, unread, memory, tape>>

-----------------------------------------------------------------------------
(* The enrichment worker *)

\* A count of attempts is compared with its limit only.
Count(n) == IF n < MaxAttempts THEN n + 1 ELSE n

\* Mutant of Claimable: a job that a worker left behind is not taken up.
OnlyPending == job.status = "pending"
\* A lease is longer than a run, so it lapses when its worker stopped.
Claimable == job.status = "pending" \/ (Processing /\ worker[job.lease] = None)

\* claim_enrichment_job
Claim(w) ==
  /\ w \in scene.workers /\ worker[w] = None /\ Claimable
  /\ job' = [job EXCEPT !.status = "processing", !.attempts = Count(@), !.lease = w, !.rerun = FALSE]
  /\ worker' = [worker EXCEPT ![w] =
       [step |-> "CLAIMED", of |-> job.of, sources |-> {}, later |-> {}, known |-> {}]]
  /\ unread' = FALSE
  /\ UNCHANGED <<thread, memory, tape>>

\* Mutant of Leave: the lease is not given back.
KeepLease(w, status) ==
  /\ worker' = [worker EXCEPT ![w] = None]
  /\ job' = IF Owns(w) THEN [job EXCEPT !.status = status] ELSE job
\* The last update of a run counts when the worker still has the lease.
Leave(w, status) ==
  /\ worker' = [worker EXCEPT ![w] = None]
  /\ job' = IF Owns(w) THEN [job EXCEPT !.status = status, !.lease = None] ELSE job

\* processJob: the communication, then its thread
Read(w) ==
  /\ At(w, "CLAIMED") /\ worker[w].of \in eligible
  /\ worker' = [worker EXCEPT ![w].step = "READ", ![w].sources = InReach, ![w].known = InReach]
  /\ UNCHANGED <<thread, job, unread, memory, tape>>

\* The one communication is not eligible: the job is done, whatever else waits in the thread.
Skip(w) ==
  /\ At(w, "CLAIMED") /\ worker[w].of \notin eligible
  /\ Leave(w, "done") /\ unread' = (unread \/ Owns(w))
  /\ UNCHANGED <<thread, memory, tape>>

\* fail, after an error of the model or of the database
Fail(w) ==
  /\ worker[w] # None /\ Leave(w, IF job.attempts = MaxAttempts THEN "failed" ELSE "pending")
  /\ UNCHANGED <<thread, unread, memory, tape>>

\* Mutant of Horizon: what is derived is as new as its write.
WriteTime(w) == {}
\* evidenceAt: when the job was claimed, before anything was read
Horizon(w) == worker[w].later

\* What was derived is in its row now, and nothing of the run matters but that.
Stored == [step |-> "STORED", of |-> Call, sources |-> {}, later |-> {}, known |-> {}]

\* The sources the model cites, of those it was given.
Cited(w) == (SUBSET worker[w].sources) \ {{}}

\* storeFactVersions: sources without text do not count; a fact whose text is found again gains the sources that were cited, with the
\* horizon of this run; another text is a fact of its own.
StoreFact(w) ==
  /\ kind = "fact" /\ At(w, "READ")
  /\ \E cited \in Cited(w) :
       /\ cited \subseteq said
       /\ \/ row' = [sources |-> cited, later |-> Horizon(w) \cap cited, known |-> worker[w].known \cap cited,
                     vouched |-> TRUE]
          \/ /\ row # None
             /\ row' = [sources |-> cited \cup row.sources, later |-> Horizon(w) \cap (cited \cup row.sources),
                        known |-> (worker[w].known \cap cited) \cup (row.known \ cited), vouched |-> TRUE]
  /\ worker' = [worker EXCEPT ![w] = Stored]
  /\ UNCHANGED <<thread, job, unread, kind, tape>>

\* The summary of the thread; a worker that has lost its lease stores it too.  When the model cites
\* nothing, the communication of the job stands as the source, were it out of reach.
StoreSummary(w) ==
  /\ kind = "summary" /\ At(w, "READ")
  /\ \E cited \in Cited(w) \cup {{worker[w].of}} :
       row' = [sources |-> cited, later |-> Horizon(w) \cap cited, known |-> worker[w].known,
               vouched |-> cited \subseteq worker[w].sources]
  /\ worker' = [worker EXCEPT ![w] = Stored]
  /\ unread' = (unread \/ ~Owns(w))
  /\ UNCHANGED <<thread, job, kind, tape>>

\* The model found no fact.
NoFact(w) ==
  /\ kind = "fact" /\ At(w, "READ") /\ worker' = [worker EXCEPT ![w] = Stored]
  /\ UNCHANGED <<thread, job, unread, memory, tape>>

CheckRerun(w) ==
  /\ At(w, "STORED")
  /\ worker' = [worker EXCEPT ![w].step = IF job.rerun THEN "RERUN" ELSE "ENOUGH"]
  /\ UNCHANGED <<thread, job, unread, memory, tape>>

Finish(w) ==
  /\ At(w, "ENOUGH") \/ At(w, "RERUN")
  /\ Leave(w, IF At(w, "RERUN") THEN "pending" ELSE "done")
  /\ UNCHANGED <<thread, unread, memory, tape>>

-----------------------------------------------------------------------------
(* Recordings *)

\* enqueueRecording: a recording that is known already is left as it is.
Enqueue(status) ==
  /\ scene.transcribers # {} /\ recording.status = "none"
  /\ recording' = [recording EXCEPT !.status = status, !.transcript = (status = "done")]
  /\ UNCHANGED <<thread, queue, memory, audio, transcriber>>

\* /recording-status: completed, or absent
RecordingStatus == Enqueue("pending") \/ Enqueue("skipped")

\* POST /recordings, with audio to fetch or with the transcript
PushRecording == Enqueue("pending") \/ Enqueue("done")

\* POST /recordings/:id/transcribe: the lease stays.
Transcribe ==
  /\ recording.status # "none"
  /\ recording' = [recording EXCEPT !.status = "pending", !.attempts = 0]
  /\ UNCHANGED <<thread, queue, memory, audio, transcriber>>

ClaimRecording(t) ==
  /\ t \in scene.transcribers /\ transcriber[t] = None /\ recording.status \in {"pending", "transcribing"}
  /\ recording.lease # None => transcriber[recording.lease] = None
  /\ recording' = [recording EXCEPT !.status = "transcribing", !.attempts = Count(@), !.lease = t]
  /\ transcriber' = [transcriber EXCEPT ![t] = "CLAIMED"]
  /\ UNCHANGED <<thread, queue, memory, audio>>

\* The audio is fetched and transcribed; there must be some, with speech in it.
Fetch(t) ==
  /\ transcriber[t] = "CLAIMED" /\ audio
  /\ transcriber' = [transcriber EXCEPT ![t] = "FETCHED"]
  /\ UNCHANGED <<thread, queue, memory, recording, audio>>

FailRecording(t) ==
  /\ transcriber[t] \in {"CLAIMED", "FETCHED"}
  /\ transcriber' = [transcriber EXCEPT ![t] = None]
  /\ recording' = IF recording.lease # t THEN recording
                  ELSE [recording EXCEPT !.status = IF recording.attempts = MaxAttempts THEN "failed" ELSE "pending",
                                         !.lease = None]
  /\ UNCHANGED <<thread, queue, memory, audio>>

Commit(t) ==
  /\ transcriber[t] = "FETCHED"
  /\ transcriber' = [transcriber EXCEPT ![t] = "COMMITTED"]
  /\ recording' = IF recording.lease # t THEN recording
                  ELSE [recording EXCEPT !.status = "done", !.transcript = TRUE, !.lease = None]
  /\ UNCHANGED <<thread, queue, memory, audio>>

\* saveTranscript: an error is logged and forgotten.
Project(t) ==
  /\ transcriber[t] = "COMMITTED"
  /\ transcriber' = [transcriber EXCEPT ![t] = "PROJECTED"] /\ UNCHANGED <<scene, eligible, recording, audio>>
  /\ Update(Call) \/ UNCHANGED <<said, queue, memory>>

\* Mutant of Deletable: the audio is deleted once it was fetched.
OnceFetched(t) == transcriber[t] \in {"FETCHED", "COMMITTED", "PROJECTED"}
Deletable(t) == transcriber[t] = "PROJECTED"

\* The audio of a Twilio recording is deleted; not every source does, and it may fail.
Cleanup(t) ==
  /\ Deletable(t) /\ transcriber' = [transcriber EXCEPT ![t] = None]
  /\ audio' \in {audio, FALSE}
  /\ UNCHANGED <<thread, queue, memory, recording>>

-----------------------------------------------------------------------------

\* The process stops; its leases lapse, as nobody renews them.
Crash ==
  /\ \/ \E w \in Workers : /\ worker[w] # None /\ worker' = [worker EXCEPT ![w] = None]
                           /\ UNCHANGED transcriber
     \/ \E t \in Transcribers : /\ transcriber[t] # None
                                /\ transcriber' = [transcriber EXCEPT ![t] = None] /\ UNCHANGED worker
  /\ UNCHANGED <<thread, job, unread, memory, recording, audio>>

Advance(w) ==
  \/ Read(w) \/ Skip(w) \/ StoreFact(w) \/ NoFact(w) \/ StoreSummary(w)
  \/ CheckRerun(w) \/ Finish(w) \/ Fail(w)
AdvanceRecording(t) == Fetch(t) \/ Commit(t) \/ Project(t) \/ Cleanup(t) \/ FailRecording(t)

\* What people, callers and carriers do, and the process that stops.
Disturb ==
  \/ LiveTranscript \/ Summarise \/ Judge \/ SetFactStatus \/ Transcribe \/ Crash
  \/ \E m \in Messages : Write(m)
  \/ \E c \in Sources : Correct(c) \/ Requeue(c)

Next ==
  \/ Disturb \/ RecordingStatus \/ PushRecording
  \/ \E w \in Workers : Claim(w) \/ Advance(w)
  \/ \E t \in Transcribers : ClaimRecording(t) \/ AdvanceRecording(t)

\* Sweeps run every 15 s, and every call of a run is bounded by a timeout.
Fairness ==
  /\ \A w \in Workers : WF_vars(Claim(w)) /\ WF_vars(Advance(w))
  /\ \A t \in Transcribers : WF_vars(ClaimRecording(t)) /\ WF_vars(AdvanceRecording(t))
Spec == Init /\ [][Next]_vars /\ Fairness

-----------------------------------------------------------------------------

\* memorySafety.js current: every source is allowed and was not updated after the horizon.
Current(d) == d.sources \subseteq eligible /\ d.sources \cap d.later = {}

\* What is shown as current was read from texts as they are now: all of those behind the summary,
\* and one at least behind a fact, whose sources may have been collected over several runs.  Two
\* are shown that were not: a fact whose status was set, as that renews its time, and a summary
\* that cites nothing and stands on a communication of its job that was out of reach.
FreshMeansRead ==
  row # None /\ row.vouched => (Current(row) =>
    IF kind = "summary" THEN row.sources \subseteq row.known ELSE row.sources \cap row.known # {})

\* The audio is deleted when its transcript is stored, and not before, whoever runs and stops.
AudioIsKept == ~audio => recording.transcript

\* When the job is done the summary has read every text that is in reach, as it is now, unless the
\* change came after the worker had looked for one or was a correction, the run was skipped, or
\* another run stored over it.  An older text that changes is queued, and never read.
DoneMeansRead ==
  kind = "summary" /\ job.status = "done" /\ ~unread =>
    row # None /\ InReach \cap said \subseteq row.known

\* The memory of a thread is what its texts say: neither newer than what was read, nor behind it.
MemoryIsRead == FreshMeansRead /\ DoneMeansRead

LeftAlone == <>[][~Disturb]_vars
\* Once the thread is left alone, a job that waits is done or has failed at last.
EveryJobSettles ==
  LeftAlone => /\ job.status = "pending" /\ scene.workers # {} ~> job.status \in {"done", "failed"}
               /\ recording.status = "pending" ~> recording.status \in {"done", "failed"}
=============================================================================
