---------------------------- MODULE CallOutcome ----------------------------
(***************************************************************************)
(* The durable finalizer of calls (callOutcome.js, migration 008): Twilio  *)
(* reports and transcripts queue a job per call, sweeps claim jobs under a *)
(* lease, judge the call, store the outcome, announce it once, and answer  *)
(* an Ask or summarise a successful call.                                  *)
(*                                                                         *)
(* Every await of a sweep is a step of its own; a database call or the     *)
(* classifier may fail at it, the process may die between any two, and     *)
(* sweeps overlap (they start every five seconds).                         *)
(***************************************************************************)
EXTENDS Naturals, Sequences

CONSTANTS Calls,
          Asks,              \* the calls that carry a Human Ask
          Workers,           \* sweeps that may be under way at once
          None,
          MaxAttempts,       \* MAX_ATTEMPTS
          LeaseOutlivesWork, \* a lease lapses only when its sweep is gone
          MaxFaults,         \* bound: failed database or model calls, crashes
          MaxReports         \* bound: Twilio reports per call

ASSUME OutcomeAssumption ==
  /\ Asks \subseteq Calls
  /\ None \notin Calls \cup Workers
  /\ MaxAttempts \in Nat \ {0} /\ MaxFaults \in Nat /\ MaxReports \in Nat
  /\ LeaseOutlivesWork \in BOOLEAN

VARIABLES call,     \* the columns of calls the finalizer reads
          verdict,  \* calls.business_status
          emitted,  \* calls.terminal_event_emitted_at is set
          job,      \* call_outcome_jobs
          terminal, \* the outcomes that the terminal events in the outbox state
          answered, \* ask.response.received is in the outbox
          remembered, \* a summary or history line was written
          sweep,    \* what each sweep is doing
          faults, reports

vars == <<call, verdict, emitted, job, terminal, answered, remembered, sweep, faults, reports>>
callVars == <<call, verdict, emitted>>
events == <<terminal, answered, remembered>>
bounds == <<faults, reports>>

Outcomes == {"success", "failed"}
Ended == {"completed", "unreached"}  \* unreached: busy, no-answer, failed, canceled
CallRow == [status : Ended \cup {"live"}, transcript : BOOLEAN, machine : BOOLEAN, late : BOOLEAN]
Job == [status : {"absent", "pending", "processing", "done", "failed"}, attempts : 0..MaxAttempts,
        due : BOOLEAN, lease : Workers \cup {None}, live : BOOLEAN]
Steps == {"idle", "read", "classify", "persist", "announce", "answer", "mark", "summarise",
          "finish", "defer", "fail", "last_read", "close", "give_up"}
Sweep == [pc : Steps, call : Calls \cup {None}, outcome : Outcomes \cup {None},
          attempts : 0..MaxAttempts, last : BOOLEAN]
Idle == [pc |-> "idle", call |-> None, outcome |-> None, attempts |-> 0, last |-> FALSE]

TypeOK ==
  /\ call \in [Calls -> CallRow]
  /\ verdict \in [Calls -> Outcomes \cup {"pending"}]
  /\ emitted \in [Calls -> BOOLEAN]
  /\ job \in [Calls -> Job]
  /\ terminal \in [Calls -> Seq(Outcomes)]
  /\ answered \in [Calls -> BOOLEAN] /\ remembered \in [Calls -> BOOLEAN]
  /\ sweep \in [Workers -> Sweep]
  /\ faults \in 0..MaxFaults
  /\ reports \in [Calls -> 0..MaxReports]

Init ==
  /\ call = [c \in Calls |-> [status |-> "live", transcript |-> FALSE, machine |-> FALSE, late |-> FALSE]]
  /\ verdict = [c \in Calls |-> "pending"]
  /\ emitted = [c \in Calls |-> FALSE]
  /\ job = [c \in Calls |-> [status |-> "absent", attempts |-> 0, due |-> FALSE,
                             lease |-> None, live |-> FALSE]]
  /\ terminal = [c \in Calls |-> <<>>]
  /\ answered = [c \in Calls |-> FALSE] /\ remembered = [c \in Calls |-> FALSE]
  /\ sweep = [w \in Workers |-> Idle]
  /\ faults = 0
  /\ reports = [c \in Calls |-> 0]

Fault == faults < MaxFaults /\ faults' = faults + 1 /\ UNCHANGED reports

-----------------------------------------------------------------------------
\* The trigger on calls: an ended call without an outcome has a job that is due.
\* (rerun_requested, which it also sets, is never read.)
Queued(c, row) ==
  IF row.status \in Ended /\ verdict[c] = "pending"
  THEN job' = [job EXCEPT ![c] =
                 IF @.status = "processing" THEN [@ EXCEPT !.due = TRUE]
                 ELSE [@ EXCEPT !.status = "pending", !.attempts = 0, !.due = TRUE]]
  ELSE UNCHANGED job

UpdateCall(c, row) ==
  /\ call' = [call EXCEPT ![c] = row]
  /\ Queued(c, row)
  /\ UNCHANGED <<verdict, emitted, events, sweep, faults>>

\* A status callback; the last one to arrive wins, in whatever order they were sent.
Report(c, s) ==
  /\ reports[c] < MaxReports
  /\ reports' = [reports EXCEPT ![c] = @ + 1]
  /\ UpdateCall(c, [call[c] EXCEPT !.status = s, !.late = IF s \in Ended THEN FALSE ELSE @])

DetectMachine(c) ==
  /\ ~call[c].machine
  /\ UpdateCall(c, [call[c] EXCEPT !.machine = TRUE]) /\ UNCHANGED reports

SaveTranscript(c) ==
  /\ ~call[c].transcript
  /\ UpdateCall(c, [call[c] EXCEPT !.transcript = TRUE]) /\ UNCHANGED reports

\* The wait for a transcript ends; a job's next attempt becomes due; a lease lapses.
TranscriptDeadline(c) ==
  /\ reports[c] > 0 /\ ~call[c].late
  /\ call' = [call EXCEPT ![c].late = TRUE]
  /\ UNCHANGED <<verdict, emitted, job, events, sweep, bounds>>
BecomeDue(c) ==
  /\ job[c].status \in {"pending", "processing"} /\ ~job[c].due
  /\ job' = [job EXCEPT ![c].due = TRUE]
  /\ UNCHANGED <<callVars, events, sweep, bounds>>
LeaseLapse(c) ==
  /\ job[c].live
  /\ LeaseOutlivesWork => \A w \in Workers : ~(job[c].lease = w /\ sweep[w].call = c)
  /\ job' = [job EXCEPT ![c].live = FALSE]
  /\ UNCHANGED <<callVars, events, sweep, bounds>>

-----------------------------------------------------------------------------
\* Mutant: the disposition is stored for the outcome.
JudgeDisposition(w, outcome) ==
  sweep' = [sweep EXCEPT ![w].pc = "persist",
                         ![w].outcome = IF outcome = "failed" THEN "unclassified" ELSE outcome]

Goto(w, step) == sweep' = [sweep EXCEPT ![w].pc = step]
Judge(w, outcome) == sweep' = [sweep EXCEPT ![w].pc = "persist", ![w].outcome = outcome]
Stop(w) == sweep' = [sweep EXCEPT ![w] = Idle]

\* An error goes to failJob; one of failJob's own last judgement, to its end.
Throw(w) == Goto(w, IF sweep[w].last THEN "give_up" ELSE "fail")

\* Mutant: claims ignore the lease.
UnleasedAlways(c) == TRUE

\* Mutant: a lease never lapses.
UnleasedOnRelease(c) == job[c].lease = None

Unleased(c) == job[c].lease = None \/ ~job[c].live

\* claim_call_outcome_job: also a processing job whose lease has lapsed.
Claim(w, c) ==
  /\ sweep[w].pc = "idle"
  /\ job[c].status \in {"pending", "processing"} /\ job[c].due /\ Unleased(c)
  /\ LET n == IF job[c].attempts < MaxAttempts THEN job[c].attempts + 1 ELSE MaxAttempts IN
     /\ job' = [job EXCEPT ![c] = [@ EXCEPT !.status = "processing", !.attempts = n,
                                            !.lease = w, !.live = TRUE]]
     /\ sweep' = [sweep EXCEPT ![w] = [Idle EXCEPT !.pc = "read", !.call = c, !.attempts = n]]
  /\ UNCHANGED <<callVars, events, bounds>>

\* processJob reads the call and goes by what it has read.
Read(w) ==
  /\ sweep[w].pc = "read"
  /\ LET c == sweep[w].call  row == call[c] IN
     \/ /\ verdict[c] \in Outcomes
        /\ IF emitted[c] THEN Goto(w, "finish") ELSE Judge(w, verdict[c])
        /\ UNCHANGED bounds
     \/ /\ verdict[c] = "pending"
        /\ \/ (row.status = "unreached" \/ row.machine) /\ Judge(w, "failed")
           \/ /\ row.status # "unreached" /\ ~row.machine
              /\ \/ ~row.transcript /\ ~row.late /\ Goto(w, "defer")
                 \/ ~row.transcript /\ row.late /\ Judge(w, "failed")
                 \/ row.transcript /\ Judge(w, "failed") \* a rule on the text, or unclassified
                 \/ row.transcript /\ row.status = "completed" /\ Goto(w, "classify")
        /\ UNCHANGED bounds
     \/ Fault /\ Throw(w)
  /\ UNCHANGED <<callVars, job, events>>

Classify(w) ==
  /\ sweep[w].pc = "classify"
  /\ \/ \E outcome \in Outcomes : Judge(w, outcome) /\ UNCHANGED bounds
     \/ Fault /\ Throw(w)
  /\ UNCHANGED <<callVars, job, events>>

\* persistCallOutcome, which is run again for an outcome not yet announced.
\* Its first update does not look at the outcome that may be there.
Persist(w) ==
  /\ sweep[w].pc = "persist"
  /\ \/ /\ verdict' = [verdict EXCEPT ![sweep[w].call] = sweep[w].outcome]
        /\ Goto(w, "announce") /\ UNCHANGED bounds
     \/ Fault /\ Throw(w) /\ UNCHANGED verdict
  /\ UNCHANGED <<call, emitted, job, events>>

\* enqueueEvent with dedupe key call-terminal:<communication>.
Deduped(c, outcome) == terminal' = [terminal EXCEPT ![c] = IF @ = <<>> THEN <<outcome>> ELSE @]

Announce(w) ==
  /\ sweep[w].pc = "announce"
  /\ LET c == sweep[w].call  success == sweep[w].outcome = "success" IN
     \/ /\ Deduped(c, sweep[w].outcome)
        /\ Goto(w, IF success /\ c \in Asks THEN "answer" ELSE "mark")
        /\ UNCHANGED bounds
     \/ Fault /\ Throw(w) /\ UNCHANGED terminal
  /\ UNCHANGED <<callVars, job, answered, remembered>>

AnswerAsk(w) ==
  /\ sweep[w].pc = "answer"
  /\ \/ answered' = [answered EXCEPT ![sweep[w].call] = TRUE] /\ Goto(w, "mark") /\ UNCHANGED bounds
     \/ Fault /\ Throw(w) /\ UNCHANGED answered
  /\ UNCHANGED <<callVars, job, terminal, remembered>>

Mark(w) ==
  /\ sweep[w].pc = "mark"
  /\ \/ /\ emitted' = [emitted EXCEPT ![sweep[w].call] = TRUE]
        /\ Goto(w, IF sweep[w].outcome = "success" THEN "summarise" ELSE "finish")
        /\ UNCHANGED bounds
     \/ Fault /\ Throw(w) /\ UNCHANGED emitted
  /\ UNCHANGED <<call, verdict, job, events>>

\* Mutant: a transcript is enough to summarise a call.
MaySummariseAny(c) == call[c].transcript

\* summariseCall: only a verified success may enter the contact's history.
MaySummarise(c) == call[c].transcript /\ verdict[c] = "success"

\* It swallows its errors.
Summarise(w) ==
  /\ sweep[w].pc = "summarise"
  /\ \/ MaySummarise(sweep[w].call) /\ remembered' = [remembered EXCEPT ![sweep[w].call] = TRUE]
     \/ UNCHANGED remembered
  /\ Goto(w, "finish")
  /\ UNCHANGED <<callVars, job, terminal, answered, bounds>>

\* The live session and the recordings sweeper also summarise calls.
SummariseElsewhere(c) ==
  /\ MaySummarise(c) /\ ~remembered[c]
  /\ remembered' = [remembered EXCEPT ![c] = TRUE]
  /\ UNCHANGED <<callVars, job, terminal, answered, sweep, bounds>>

\* An update of the job takes effect only under the sweep's own lease.
Release(w, status, attempts, due) ==
  LET c == sweep[w].call IN
  IF job[c].lease = w
  THEN job' = [job EXCEPT ![c] = [status |-> status, attempts |-> attempts, due |-> due,
                                  lease |-> None, live |-> FALSE]]
  ELSE UNCHANGED job

Attempts(w) == job[sweep[w].call].attempts

Finish(w) ==
  /\ sweep[w].pc = "finish"
  /\ \/ Release(w, "done", Attempts(w), job[sweep[w].call].due) /\ Stop(w) /\ UNCHANGED bounds
     \/ Fault /\ Throw(w) /\ UNCHANGED job
  /\ UNCHANGED <<callVars, events>>

Defer(w) ==
  /\ sweep[w].pc = "defer"
  /\ \/ Release(w, "pending", 0, FALSE) /\ Stop(w) /\ UNCHANGED bounds
     \/ Fault /\ Throw(w) /\ UNCHANGED job
  /\ UNCHANGED <<callVars, events>>

\* failJob: try again later, or judge the call after the last attempt.  The
\* error of the update that puts the job back is ignored.
Fail(w) ==
  /\ sweep[w].pc = "fail"
  /\ \/ /\ sweep[w].attempts < MaxAttempts
        /\ \/ Release(w, "pending", Attempts(w), FALSE) /\ UNCHANGED bounds
           \/ Fault /\ UNCHANGED job
        /\ Stop(w)
     \/ /\ sweep[w].attempts = MaxAttempts
        /\ Goto(w, "last_read")
        /\ UNCHANGED <<job, bounds>>
  /\ UNCHANGED <<callVars, events>>

\* The read's error is not looked at: without a row the job is finished.
LastRead(w) ==
  /\ sweep[w].pc = "last_read"
  /\ LET c == sweep[w].call IN
     \/ /\ IF verdict[c] = "pending"
           THEN sweep' = [sweep EXCEPT ![w] = [@ EXCEPT !.pc = "persist", !.outcome = "failed",
                                                        !.last = TRUE]]
           ELSE Goto(w, IF emitted[c] THEN "close" ELSE "give_up")
        /\ UNCHANGED bounds
     \/ Fault /\ Goto(w, "close")
  /\ UNCHANGED <<callVars, job, events>>

\* Errors of these two end the sweep, and leave the job to its lease.
Close(w) ==
  /\ sweep[w].pc = "close"
  /\ \/ Release(w, "done", Attempts(w), job[sweep[w].call].due) /\ UNCHANGED bounds
     \/ Fault /\ UNCHANGED job
  /\ Stop(w)
  /\ UNCHANGED <<callVars, events>>
GiveUp(w) ==
  /\ sweep[w].pc = "give_up"
  /\ \/ Release(w, "failed", Attempts(w), job[sweep[w].call].due) /\ UNCHANGED bounds
     \/ Fault /\ UNCHANGED job
  /\ Stop(w)
  /\ UNCHANGED <<callVars, events>>

Crash(w) ==
  /\ sweep[w].pc # "idle"
  /\ Fault /\ Stop(w)
  /\ UNCHANGED <<callVars, job, events>>

Work(w) ==
  \/ Read(w) \/ Classify(w) \/ Persist(w) \/ Announce(w) \/ AnswerAsk(w) \/ Mark(w)
  \/ Summarise(w) \/ Finish(w) \/ Defer(w) \/ Fail(w) \/ LastRead(w) \/ Close(w) \/ GiveUp(w)

Next ==
  \/ \E c \in Calls : \/ \E s \in Ended \cup {"live"} : Report(c, s)
                      \/ DetectMachine(c) \/ SaveTranscript(c) \/ TranscriptDeadline(c)
                      \/ BecomeDue(c) \/ LeaseLapse(c) \/ SummariseElsewhere(c)
  \/ \E w \in Workers : Work(w) \/ Crash(w) \/ \E c \in Calls : Claim(w, c)

Spec == Init /\ [][Next]_vars

\* Sweeps run to their end and start for ever; clocks run.
FairSpec ==
  /\ Spec
  /\ \A w \in Workers : WF_vars(Work(w))
  /\ \A c \in Calls : /\ SF_vars(\E w \in Workers : Claim(w, c))
                      /\ WF_vars(TranscriptDeadline(c)) /\ WF_vars(BecomeDue(c))
                      /\ WF_vars(LeaseLapse(c))

-----------------------------------------------------------------------------
\* One terminal event per call is in the outbox, although a sweep that resumes,
\* or overlaps with, another enqueues it again.
OneTerminalEvent == \A c \in Calls : Len(terminal[c]) <= 1

\* The event other systems act on states the outcome the call is stored with,
\* through crashes, retries and reports that arrive late or out of order.
States(sent, outcome) == \A i \in DOMAIN sent : sent[i] = outcome
EventMatchesOutcome == \A c \in Calls : States(terminal[c], verdict[c])

\* Only a call that is a success answers its Ask or enters the history of a
\* contact ("Failed voice attempts ... cannot feed semantic memory", 008:2).
OnlySuccessIsEvidence ==
  \A c \in Calls : answered[c] \/ remembered[c] => verdict[c] = "success"

\* What others learn of a call is one event, the outcome that is stored, and evidence of nothing else.
OneStoryIsTold == OneTerminalEvent /\ EventMatchesOutcome /\ OnlySuccessIsEvidence

\* The finalizer implements CallVerdict.
Verdict == INSTANCE CallVerdict WITH announced <- terminal
ImplementsVerdict == Verdict!Spec

\* An ended call gets its terminal event, through fewer faults than attempts.
EveryEndIsAnnounced ==
  \A c \in Calls : call[c].status \in Ended ~> terminal[c] # <<>> \/ faults >= MaxAttempts
=============================================================================
