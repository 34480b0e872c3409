------------------------- MODULE CallOutcome_proofs -------------------------
(***************************************************************************)
(* For any number of calls, sweeps, faults and reports: one terminal event *)
(* per call, whatever the leases do; and, while a lease outlives the work  *)
(* it covers, an event that states the outcome stored with the call.       *)
(***************************************************************************)
EXTENDS CallOutcome, TLAPS

Deciding == {"persist", "announce", "answer", "mark", "summarise"}

\* A sweep that is under way has a call, and an outcome once it has judged it.
Engaged(s) == /\ s.pc # "idle" => s.call \in Calls
              /\ s.pc \in Deciding => s.outcome \in Outcomes

TInv == /\ TypeOK
        /\ \A w \in Workers : Engaged(sweep[w])
        /\ \A c \in Calls : terminal[c] = <<>> \/ \E o \in Outcomes : terminal[c] = <<o>>

\* Sequences of one terminal event, or none.
LEMMA OneEvent ==
  /\ \A o \in Outcomes : <<o>> \in Seq(Outcomes) /\ Len(<<o>>) <= 1
  /\ Len(<<>>) <= 1
  /\ \A v : States(<<>>, v) /\ States(<<v>>, v)
  /\ \A o, v : States(<<o>>, v) => o = v
BY DEF States

SweepsTyped == /\ sweep \in [Workers -> Sweep]
               /\ \A w \in Workers : Engaged(sweep[w])

LEMMA MoveTyped ==
  ASSUME SweepsTyped, NEW w \in Workers, NEW s \in Sweep, Engaged(s),
         sweep' = [sweep EXCEPT ![w] = s]
  PROVE  SweepsTyped'
BY DEF SweepsTyped

LEMMA GotoTyped ==
  ASSUME SweepsTyped, NEW w \in Workers, NEW step \in Steps, sweep[w].pc # "idle",
         step \in Deciding => sweep[w].outcome \in Outcomes, Goto(w, step)
  PROVE  SweepsTyped'
<1> DEFINE s == [sweep[w] EXCEPT !.pc = step]
<1>1. sweep[w] \in Sweep
  BY DEF SweepsTyped
<1>2. s \in Sweep /\ s.pc = step /\ s.call = sweep[w].call /\ s.outcome = sweep[w].outcome
  BY <1>1 DEF Sweep
<1>3. Engaged(s)
  BY <1>2 DEF Engaged, SweepsTyped
<1>4. sweep' = [sweep EXCEPT ![w] = s]
  BY DEF Goto
<1> QED
  BY <1>2, <1>3, <1>4, MoveTyped

LEMMA JudgeTyped ==
  ASSUME SweepsTyped, NEW w \in Workers, NEW o \in Outcomes, sweep[w].pc # "idle", Judge(w, o)
  PROVE  SweepsTyped'
<1> DEFINE s == [sweep[w] EXCEPT !.pc = "persist", !.outcome = o]
<1>1. sweep[w] \in Sweep
  BY DEF SweepsTyped
<1>2. s \in Sweep /\ s.pc = "persist" /\ s.call = sweep[w].call /\ s.outcome = o
  BY <1>1 DEF Sweep, Steps
<1>3. Engaged(s)
  BY <1>2 DEF Engaged, SweepsTyped
<1>4. sweep' = [sweep EXCEPT ![w] = s]
  BY DEF Judge
<1> QED
  BY <1>2, <1>3, <1>4, MoveTyped

LEMMA IdleTyped == Idle \in Sweep /\ Engaged(Idle)
BY OutcomeAssumption DEF Idle, Sweep, Steps, Engaged, Deciding

LEMMA StopTyped ==
  ASSUME SweepsTyped, NEW w \in Workers, Stop(w)
  PROVE  SweepsTyped'
BY IdleTyped, MoveTyped DEF Stop

LEMMA ThrowTyped ==
  ASSUME SweepsTyped, NEW w \in Workers, sweep[w].pc # "idle", Throw(w)
  PROVE  SweepsTyped'
BY GotoTyped DEF Throw, Steps, Deciding

JobsTyped == job \in [Calls -> Job]

LEMMA ReleaseTyped ==
  ASSUME JobsTyped, NEW w \in Workers, sweep[w].call \in Calls,
         NEW st \in {"pending", "done", "failed"}, NEW n \in 0..MaxAttempts, NEW due \in BOOLEAN,
         Release(w, st, n, due)
  PROVE  JobsTyped'
<1> DEFINE new == [status |-> st, attempts |-> n, due |-> due, lease |-> None, live |-> FALSE]
<1>1. new \in Job
  BY DEF Job
<1>2. job' = job \/ job' = [job EXCEPT ![sweep[w].call] = new]
  BY DEF Release
<1> QED
  BY <1>1, <1>2 DEF JobsTyped

LEMMA QueuedTyped ==
  ASSUME JobsTyped, NEW c \in Calls, NEW row, Queued(c, row)
  PROVE  JobsTyped'
<1> DEFINE new == IF job[c].status = "processing" THEN [job[c] EXCEPT !.due = TRUE]
                  ELSE [job[c] EXCEPT !.status = "pending", !.attempts = 0, !.due = TRUE]
<1>1. job[c] \in Job
  BY DEF JobsTyped
<1>2. new \in Job
  <2>1. 0 \in 0..MaxAttempts
    BY OutcomeAssumption
  <2>2. [job[c] EXCEPT !.due = TRUE] \in Job
    BY <1>1 DEF Job
  <2>3. [job[c] EXCEPT !.status = "pending", !.attempts = 0, !.due = TRUE] \in Job
    BY <1>1, <2>1 DEF Job
  <2> QED
    BY <2>2, <2>3
<1>3. job' = job \/ job' = [job EXCEPT ![c] = new]
  BY DEF Queued
<1> QED
  BY <1>2, <1>3 DEF JobsTyped

EventsTyped ==
  /\ terminal \in [Calls -> Seq(Outcomes)]
  /\ answered \in [Calls -> BOOLEAN] /\ remembered \in [Calls -> BOOLEAN]
  /\ \A c \in Calls : terminal[c] = <<>> \/ \E o \in Outcomes : terminal[c] = <<o>>

CallsTyped ==
  /\ call \in [Calls -> CallRow]
  /\ verdict \in [Calls -> Outcomes \cup {"pending"}]
  /\ emitted \in [Calls -> BOOLEAN]

BoundsTyped == faults \in 0..MaxFaults /\ reports \in [Calls -> 0..MaxReports]

Typed == SweepsTyped /\ JobsTyped /\ EventsTyped /\ CallsTyped /\ BoundsTyped

LEMMA TInvParts == (TInv <=> Typed) /\ (TInv' <=> Typed')
BY DEF Typed, TInv, TypeOK, SweepsTyped, JobsTyped, EventsTyped, CallsTyped, BoundsTyped

\* Whatever a step leaves alone keeps its type.
LEMMA Frame ==
  /\ SweepsTyped /\ UNCHANGED sweep => SweepsTyped'
  /\ JobsTyped /\ UNCHANGED job => JobsTyped'
  /\ EventsTyped /\ UNCHANGED events => EventsTyped'
  /\ CallsTyped /\ UNCHANGED callVars => CallsTyped'
  /\ BoundsTyped /\ (UNCHANGED bounds \/ Fault) => BoundsTyped'
BY OutcomeAssumption DEF SweepsTyped, Engaged, JobsTyped, EventsTyped, CallsTyped, BoundsTyped,
   events, callVars, bounds, Fault

LEMMA InitTInv == Init => TInv
<1> SUFFICES ASSUME Init PROVE TInv
  OBVIOUS
<1>1. SweepsTyped
  BY IdleTyped DEF Init, SweepsTyped
<1>2. JobsTyped
  BY OutcomeAssumption DEF Init, JobsTyped, Job
<1>3. EventsTyped /\ BoundsTyped
  BY OutcomeAssumption DEF Init, EventsTyped, BoundsTyped
<1>4. CallsTyped
  BY DEF Init, CallsTyped, CallRow, Ended
<1> QED
  BY <1>1, <1>2, <1>3, <1>4, TInvParts DEF Typed

\* A change to the call queues its job and keeps the rest.
LEMMA UpdateCallTyped ==
  ASSUME TInv, NEW c \in Calls, NEW row \in CallRow, UpdateCall(c, row), BoundsTyped'
  PROVE  TInv'
<1>1. SweepsTyped' /\ EventsTyped'
  BY TInvParts, Frame DEF Typed, UpdateCall
<1>2. JobsTyped'
  BY TInvParts, QueuedTyped DEF Typed, UpdateCall
<1>3. CallsTyped'
  BY TInvParts DEF Typed, UpdateCall, CallsTyped
<1> QED
  BY <1>1, <1>2, <1>3, TInvParts DEF Typed

LEMMA CallChangesTyped ==
  ASSUME TInv, NEW c \in Calls,
         \/ \E s \in Ended \cup {"live"} : Report(c, s)
         \/ DetectMachine(c) \/ SaveTranscript(c) \/ TranscriptDeadline(c)
         \/ BecomeDue(c) \/ LeaseLapse(c) \/ SummariseElsewhere(c)
  PROVE  TInv'
<1>0. /\ SweepsTyped /\ JobsTyped /\ EventsTyped /\ CallsTyped /\ BoundsTyped
      /\ call[c] \in CallRow /\ job[c] \in Job
  BY TInvParts DEF Typed, CallsTyped, JobsTyped
<1>1. ASSUME NEW s \in Ended \cup {"live"}, Report(c, s) PROVE TInv'
  <2> DEFINE row == [call[c] EXCEPT !.status = s, !.late = IF s \in Ended THEN FALSE ELSE @]
  <2>1. row \in CallRow
    BY <1>0 DEF CallRow
  <2>2. BoundsTyped'
    <3>1. reports[c] + 1 \in 0..MaxReports
      <4>1. reports[c] \in 0..MaxReports /\ reports[c] < MaxReports
        BY <1>0, <1>1 DEF Report, BoundsTyped
      <4> QED
        BY <4>1, OutcomeAssumption
    <3>2. reports' = [reports EXCEPT ![c] = reports[c] + 1] /\ faults' = faults
      BY <1>1 DEF Report, UpdateCall
    <3> QED
      BY <1>0, <3>1, <3>2 DEF BoundsTyped
  <2> QED
    BY <1>1, <2>1, <2>2, UpdateCallTyped DEF Report
<1>2. ASSUME DetectMachine(c) PROVE TInv'
  <2>1. [call[c] EXCEPT !.machine = TRUE] \in CallRow
    BY <1>0 DEF CallRow
  <2>2. BoundsTyped'
    BY <1>0, <1>2 DEF DetectMachine, UpdateCall, BoundsTyped
  <2> QED
    BY <1>2, <2>1, <2>2, UpdateCallTyped DEF DetectMachine
<1>3. ASSUME SaveTranscript(c) PROVE TInv'
  <2>1. [call[c] EXCEPT !.transcript = TRUE] \in CallRow
    BY <1>0 DEF CallRow
  <2>2. BoundsTyped'
    BY <1>0, <1>3 DEF SaveTranscript, UpdateCall, BoundsTyped
  <2> QED
    BY <1>3, <2>1, <2>2, UpdateCallTyped DEF SaveTranscript
<1>4. ASSUME TranscriptDeadline(c) PROVE TInv'
  <2>1. [call[c] EXCEPT !.late = TRUE] \in CallRow
    BY <1>0 DEF CallRow
  <2>2. CallsTyped'
    BY <1>0, <1>4, <2>1 DEF TranscriptDeadline, CallsTyped
  <2> QED
    BY <1>0, <1>4, <2>2, Frame, TInvParts DEF Typed, TranscriptDeadline
<1>5. ASSUME BecomeDue(c) \/ LeaseLapse(c) PROVE TInv'
  <2>1. [job[c] EXCEPT !.due = TRUE] \in Job /\ [job[c] EXCEPT !.live = FALSE] \in Job
    BY <1>0 DEF Job
  <2>2. JobsTyped'
    BY <1>0, <1>5, <2>1 DEF BecomeDue, LeaseLapse, JobsTyped
  <2> QED
    BY <1>0, <1>5, <2>2, Frame, TInvParts DEF Typed, BecomeDue, LeaseLapse
<1>6. ASSUME SummariseElsewhere(c) PROVE TInv'
  <2>1. EventsTyped'
    BY <1>0, <1>6 DEF SummariseElsewhere, EventsTyped
  <2> QED
    BY <1>0, <1>6, <2>1, Frame, TInvParts DEF Typed, SummariseElsewhere
<1> QED
  BY <1>1, <1>2, <1>3, <1>4, <1>5, <1>6

LEMMA ClaimTyped ==
  ASSUME TInv, NEW w \in Workers, NEW c \in Calls, Claim(w, c)
  PROVE  TInv'
<1> DEFINE n == IF job[c].attempts < MaxAttempts THEN job[c].attempts + 1 ELSE MaxAttempts
           new == [job[c] EXCEPT !.status = "processing", !.attempts = n, !.lease = w, !.live = TRUE]
           s == [Idle EXCEPT !.pc = "read", !.call = c, !.attempts = n]
<1>0. /\ SweepsTyped /\ JobsTyped /\ EventsTyped /\ CallsTyped /\ BoundsTyped /\ job[c] \in Job
  BY TInvParts DEF Typed, JobsTyped
<1>1. n \in 0..MaxAttempts
  BY <1>0, OutcomeAssumption DEF Job
<1>2. new \in Job
  BY <1>0, <1>1 DEF Job
<1>3. s \in Sweep /\ Engaged(s)
  BY <1>1 DEF Idle, Sweep, Steps, Engaged, Deciding
<1>4. job' = [job EXCEPT ![c] = new] /\ sweep' = [sweep EXCEPT ![w] = s]
  BY DEF Claim
<1>5. JobsTyped'
  BY <1>0, <1>2, <1>4 DEF JobsTyped
<1>6. SweepsTyped'
  BY <1>0, <1>3, <1>4, MoveTyped
<1> HIDE DEF n, new, s
<1> QED
  BY <1>0, <1>5, <1>6, Frame, TInvParts DEF Typed, Claim

LEMMA WorkTyped ==
  ASSUME TInv, NEW w \in Workers, Work(w) \/ Crash(w)
  PROVE  TInv'
<1>0. /\ SweepsTyped /\ JobsTyped /\ EventsTyped /\ CallsTyped /\ BoundsTyped
      /\ sweep[w] \in Sweep /\ Engaged(sweep[w])
  BY TInvParts DEF Typed, SweepsTyped
<1>1. CASE sweep[w].pc = "idle"
  BY <1>1 DEF Work, Read, Classify, Persist, Announce, AnswerAsk, Mark, Summarise, Finish, Defer,
              Fail, LastRead, Close, GiveUp, Crash
<1>2. CASE sweep[w].pc # "idle"
  <2> DEFINE c == sweep[w].call
  <2>1. c \in Calls /\ job[c] \in Job /\ Attempts(w) \in 0..MaxAttempts /\ job[c].due \in BOOLEAN
    BY <1>0, <1>2 DEF Engaged, JobsTyped, Attempts, Job
  <2>2. /\ \A step \in Steps \ Deciding : Goto(w, step) => SweepsTyped'
        /\ \A step \in Steps : sweep[w].pc \in Deciding /\ Goto(w, step) => SweepsTyped'
        /\ \A o \in Outcomes : Judge(w, o) => SweepsTyped'
        /\ Throw(w) => SweepsTyped'
        /\ Stop(w) => SweepsTyped'
    BY <1>0, <1>2, GotoTyped, JudgeTyped, ThrowTyped, StopTyped DEF Engaged
  <2>3. \A st \in {"pending", "done", "failed"}, n \in 0..MaxAttempts, due \in BOOLEAN :
          Release(w, st, n, due) => JobsTyped'
    BY <1>0, <2>1, ReleaseTyped
  <2>4. 0 \in 0..MaxAttempts /\ TRUE \in BOOLEAN /\ FALSE \in BOOLEAN
    BY OutcomeAssumption
  <2>5. CASE Read(w)
    <3>1. SweepsTyped'
      BY <2>2, <2>5 DEF Read, Steps, Deciding, Outcomes
    <3>2. BoundsTyped'
      BY <1>0, <2>5, Frame DEF Read
    <3> QED
      BY <1>0, <2>5, <3>1, <3>2, Frame, TInvParts DEF Typed, Read
  <2>6. CASE Classify(w)
    <3>1. SweepsTyped' /\ BoundsTyped'
      BY <1>0, <2>2, <2>6, Frame DEF Classify
    <3> QED
      BY <1>0, <2>6, <3>1, Frame, TInvParts DEF Typed, Classify
  <2>7. CASE Persist(w)
    <3>1. SweepsTyped' /\ BoundsTyped'
      BY <1>0, <2>2, <2>7, Frame DEF Persist, Steps, Deciding
    <3>2. CallsTyped'
      BY <1>0, <2>1, <2>7 DEF Persist, CallsTyped, Engaged, Deciding
    <3> QED
      BY <1>0, <2>7, <3>1, <3>2, Frame, TInvParts DEF Typed, Persist
  <2>8. CASE Announce(w)
    <3>1. SweepsTyped' /\ BoundsTyped'
      BY <1>0, <2>2, <2>8, Frame DEF Announce, Steps, Deciding
    <3>2. sweep[w].outcome \in Outcomes
      BY <1>0, <2>8 DEF Announce, Engaged, Deciding
    <3>3. EventsTyped'
      <4> DEFINE one == <<sweep[w].outcome>>
      <4>1. one \in Seq(Outcomes)
        BY <3>2, OneEvent
      <4>2. one = <<sweep[w].outcome>>
        OBVIOUS
      <4> HIDE DEF one
      <4>3. /\ terminal' = terminal \/ terminal' = [terminal EXCEPT ![c] = one]
            /\ UNCHANGED <<answered, remembered>>
        BY <1>0, <2>1, <2>8, <4>2 DEF Announce, Deduped, EventsTyped
      <4>4. CASE terminal' = terminal
        BY <1>0, <4>3, <4>4 DEF EventsTyped
      <4>5. CASE terminal' = [terminal EXCEPT ![c] = one]
        <5>1. terminal' \in [Calls -> Seq(Outcomes)]
          BY <1>0, <4>1, <4>5 DEF EventsTyped
        <5>2. ASSUME NEW d \in Calls
              PROVE  terminal'[d] = <<>> \/ \E o \in Outcomes : terminal'[d] = <<o>>
          BY <1>0, <3>2, <4>2, <4>5 DEF EventsTyped
        <5> QED
          BY <1>0, <4>3, <5>1, <5>2 DEF EventsTyped
      <4> QED
        BY <4>3, <4>4, <4>5
    <3> QED
      BY <1>0, <2>8, <3>1, <3>3, Frame, TInvParts DEF Typed, Announce, callVars
  <2>9. CASE AnswerAsk(w) \/ Summarise(w)
    <3>1. SweepsTyped' /\ BoundsTyped'
      BY <1>0, <2>2, <2>9, Frame DEF AnswerAsk, Summarise, Steps, Deciding
    <3>2. EventsTyped'
      BY <1>0, <2>1, <2>9 DEF AnswerAsk, Summarise, EventsTyped
    <3> QED
      BY <1>0, <2>9, <3>1, <3>2, Frame, TInvParts DEF Typed, AnswerAsk, Summarise
  <2>10. CASE Mark(w)
    <3>1. SweepsTyped' /\ BoundsTyped'
      BY <1>0, <2>2, <2>10, Frame DEF Mark, Steps, Deciding
    <3>2. CallsTyped'
      BY <1>0, <2>1, <2>10 DEF Mark, CallsTyped
    <3> QED
      BY <1>0, <2>10, <3>1, <3>2, Frame, TInvParts DEF Typed, Mark
  <2>11. CASE Finish(w) \/ Defer(w) \/ Close(w) \/ GiveUp(w)
    <3>1. SweepsTyped' /\ BoundsTyped'
      BY <1>0, <2>2, <2>11, Frame DEF Finish, Defer, Close, GiveUp
    <3>2. JobsTyped'
      BY <1>0, <2>1, <2>3, <2>4, <2>11, Frame DEF Finish, Defer, Close, GiveUp
    <3> QED
      BY <1>0, <2>11, <3>1, <3>2, Frame, TInvParts DEF Typed, Finish, Defer, Close, GiveUp
  <2>12. CASE Fail(w)
    <3>1. SweepsTyped' /\ BoundsTyped'
      BY <1>0, <2>2, <2>12, Frame DEF Fail, Steps, Deciding
    <3>2. JobsTyped'
      BY <1>0, <2>1, <2>3, <2>4, <2>12, Frame DEF Fail
    <3> QED
      BY <1>0, <2>12, <3>1, <3>2, Frame, TInvParts DEF Typed, Fail
  <2>13. CASE LastRead(w)
    <3> DEFINE s == [sweep[w] EXCEPT !.pc = "persist", !.outcome = "failed", !.last = TRUE]
    <3>1. s \in Sweep /\ Engaged(s)
      BY <1>0, <2>1 DEF Sweep, Steps, Outcomes, Engaged
    <3>2. sweep' = [sweep EXCEPT ![w] = s] => SweepsTyped'
      BY <1>0, <3>1, MoveTyped
    <3>3. SweepsTyped' /\ BoundsTyped'
      BY <1>0, <2>2, <2>13, <3>2, Frame DEF LastRead, Steps, Deciding
    <3> QED
      BY <1>0, <2>13, <3>3, Frame, TInvParts DEF Typed, LastRead
  <2>14. CASE Crash(w)
    BY <1>0, <2>2, <2>14, Frame, TInvParts DEF Typed, Crash
  <2> QED
    BY <2>5, <2>6, <2>7, <2>8, <2>9, <2>10, <2>11, <2>12, <2>13, <2>14 DEF Work
<1> QED
  BY <1>1, <1>2

LEMMA NextTInv == TInv /\ [Next]_vars => TInv'
<1> SUFFICES ASSUME TInv, [Next]_vars PROVE TInv'
  OBVIOUS
<1>1. CASE UNCHANGED vars
  BY <1>1, Frame, TInvParts DEF Typed, vars, events, callVars, bounds
<1>2. CASE Next
  BY <1>2, CallChangesTyped, ClaimTyped, WorkTyped DEF Next
<1> QED
  BY <1>1, <1>2

\* The part of the invariant that holds whatever the leases do.
THEOREM OutcomeTInv == Spec => []TInv
BY InitTInv, NextTInv, PTL DEF Spec

\* Calls, jobs, events and sweeps keep their types.
THEOREM OutcomeTypeOK == Spec => []TypeOK
<1>1. TInv => TypeOK
  BY DEF TInv
<1> QED
  BY <1>1, OutcomeTInv, PTL

\* At most one terminal event per call, even when sweeps overlap on a call
\* because a lease lapsed under the first of them.
THEOREM OutcomeOneTerminalEvent == Spec => []OneTerminalEvent
<1>1. TInv => OneTerminalEvent
  BY OneEvent DEF TInv, OneTerminalEvent
<1> QED
  BY <1>1, OutcomeTInv, PTL

-----------------------------------------------------------------------------
(* While a lease outlives the work it covers. *)

\* What sweep s, which works on a call with verdict v and terminal events t, knows of them.
Sound(s, v, t) ==
  /\ s.pc = "classify" => v = "pending"
  /\ s.pc = "persist" => v \in {"pending", s.outcome}
  /\ s.pc \in {"announce", "answer", "mark", "summarise"} => v = s.outcome
  /\ s.pc = "answer" => t = <<"success">>

\* A sweep under way holds the live lease of its call; events agree with the
\* outcome that is stored.
SInv ==
  /\ \A w \in Workers : sweep[w].pc # "idle" =>
       LET c == sweep[w].call IN
       /\ job[c].lease = w /\ job[c].live
       /\ Sound(sweep[w], verdict[c], terminal[c])
  /\ EventMatchesOutcome
  /\ OnlySuccessIsEvidence

\* A step of one sweep that touches only its own call, and leaves it sound.
LEMMA WorkPreserves ==
  ASSUME TInv, TInv', SInv, NEW w \in Workers, NEW c \in Calls, NEW s,
         \/ sweep[w].pc # "idle" /\ sweep[w].call = c
         \/ Unleased(c),
         sweep' = [sweep EXCEPT ![w] = s],
         s.pc # "idle" => /\ s.call = c /\ job'[c].lease = w /\ job'[c].live
                          /\ Sound(s, verdict'[c], terminal'[c]),
         \A d \in Calls \ {c} :
           /\ job'[d] = job[d] /\ verdict'[d] = verdict[d] /\ terminal'[d] = terminal[d]
           /\ answered'[d] = answered[d] /\ remembered'[d] = remembered[d],
         States(terminal'[c], verdict'[c]),
         answered'[c] \/ remembered'[c] => verdict'[c] = "success"
  PROVE  SInv'
<1>1. ASSUME NEW v \in Workers, sweep'[v].pc # "idle"
      PROVE  LET d == sweep'[v].call IN
             /\ job'[d].lease = v /\ job'[d].live
             /\ Sound(sweep'[v], verdict'[d], terminal'[d])
  <2>1. CASE v = w
    <3>1. sweep'[v] = s
      BY <2>1 DEF TInv, TypeOK
    <3> QED
      BY <1>1, <2>1, <3>1
  <2>2. CASE v # w
    <3> DEFINE d == sweep[v].call
    <3>1. sweep'[v] = sweep[v]
      BY <2>2 DEF TInv, TypeOK
    <3>2. d \in Calls /\ job[d].lease = v /\ job[d].live /\ Sound(sweep[v], verdict[d], terminal[d])
      BY <1>1, <3>1 DEF TInv, Engaged, SInv
    <3>3. d # c
      BY <1>1, <2>2, <3>1, <3>2, OutcomeAssumption DEF SInv, Unleased
    <3> QED
      BY <3>1, <3>2, <3>3
  <2> QED
    BY <2>1, <2>2
<1>2. EventMatchesOutcome'
  BY DEF SInv, EventMatchesOutcome
<1>3. OnlySuccessIsEvidence'
  BY DEF SInv, OnlySuccessIsEvidence
<1> QED
  BY <1>1, <1>2, <1>3 DEF SInv

\* Reports, clocks and other summarisers do not disturb what sweeps know.
LEMMA CallChangesPreserve ==
  ASSUME TInv, SInv, LeaseOutlivesWork, NEW c \in Calls,
         \/ \E s \in Ended \cup {"live"} : Report(c, s)
         \/ DetectMachine(c) \/ SaveTranscript(c) \/ TranscriptDeadline(c)
         \/ BecomeDue(c) \/ LeaseLapse(c) \/ SummariseElsewhere(c)
  PROVE  SInv'
<1>1. /\ UNCHANGED <<verdict, terminal, answered, sweep>>
      /\ \A d \in Calls : remembered'[d] => remembered[d] \/ verdict[d] = "success"
  BY DEF Report, DetectMachine, SaveTranscript, UpdateCall, TranscriptDeadline, BecomeDue,
         LeaseLapse, SummariseElsewhere, MaySummarise, callVars, events, TInv, TypeOK
<1>2. ASSUME NEW w \in Workers, sweep[w].pc # "idle"
      PROVE  job'[sweep[w].call].lease = w /\ job'[sweep[w].call].live
  <2> DEFINE d == sweep[w].call
  <2>1. d \in Calls /\ job[d].lease = w /\ job[d].live /\ job[c] \in Job /\ job \in [Calls -> Job]
    BY <1>2 DEF TInv, TypeOK, Engaged, SInv
  <2>2. CASE job' = job
    BY <2>1, <2>2
  <2>3. ASSUME NEW row, Queued(c, row) PROVE job'[d].lease = w /\ job'[d].live
    <3> DEFINE new == IF job[c].status = "processing" THEN [job[c] EXCEPT !.due = TRUE]
                      ELSE [job[c] EXCEPT !.status = "pending", !.attempts = 0, !.due = TRUE]
    <3>1. new.lease = job[c].lease /\ new.live = job[c].live
      BY <2>1 DEF Job
    <3>2. job' = job \/ job' = [job EXCEPT ![c] = new]
      BY <2>3 DEF Queued
    <3> HIDE DEF new
    <3> QED
      BY <2>1, <3>1, <3>2
  <2>4. CASE BecomeDue(c)
    BY <2>1, <2>4 DEF BecomeDue, Job
  <2>5. CASE LeaseLapse(c)
    <3>0. \A v \in Workers : ~(job[c].lease = v /\ sweep[v].call = c)
      BY <2>5, Zenon DEF LeaseLapse
    <3>1. c # d
      BY <2>1, <3>0
    <3> QED
      BY <2>1, <2>5, <3>1 DEF LeaseLapse
  <2> QED
    BY <2>2, <2>3, <2>4, <2>5 DEF Report, DetectMachine, SaveTranscript, UpdateCall,
       TranscriptDeadline, SummariseElsewhere
<1> QED
  BY <1>1, <1>2 DEF SInv, EventMatchesOutcome, OnlySuccessIsEvidence

LEMMA ClaimPreserves ==
  ASSUME TInv, TInv', SInv, NEW w \in Workers, NEW c \in Calls, Claim(w, c)
  PROVE  SInv'
<1> DEFINE n == IF job[c].attempts < MaxAttempts THEN job[c].attempts + 1 ELSE MaxAttempts
           new == [job[c] EXCEPT !.status = "processing", !.attempts = n, !.lease = w, !.live = TRUE]
           s == [Idle EXCEPT !.pc = "read", !.call = c, !.attempts = n]
<1>1. /\ job' = [job EXCEPT ![c] = new] /\ sweep' = [sweep EXCEPT ![w] = s]
      /\ UNCHANGED <<verdict, terminal, answered, remembered>> /\ Unleased(c)
  BY DEF Claim, callVars, events
<1>2. new.lease = w /\ new.live
  BY DEF TInv, TypeOK, Job
<1>3. s.pc = "read" /\ s.call = c
  BY DEF Idle
<1> HIDE DEF n, new, s
<1>4. job'[c] = new /\ \A d \in Calls \ {c} : job'[d] = job[d]
  BY <1>1 DEF TInv, TypeOK
<1>5. /\ s.pc # "idle" => /\ s.call = c /\ job'[c].lease = w /\ job'[c].live
                          /\ Sound(s, verdict'[c], terminal'[c])
      /\ States(terminal'[c], verdict'[c])
      /\ answered'[c] \/ remembered'[c] => verdict'[c] = "success"
  BY <1>1, <1>2, <1>3, <1>4 DEF Sound, SInv, EventMatchesOutcome, OnlySuccessIsEvidence
<1>6. \A d \in Calls \ {c} :
        /\ job'[d] = job[d] /\ verdict'[d] = verdict[d] /\ terminal'[d] = terminal[d]
        /\ answered'[d] = answered[d] /\ remembered'[d] = remembered[d]
  BY <1>1, <1>4
<1>7. sweep' = [sweep EXCEPT ![w] = s] /\ Unleased(c)
  BY <1>1
<1> HIDE <1>1, <1>4
<1> QED
  BY <1>5, <1>6, <1>7, WorkPreserves

\* The sweep moves on; the call it works on keeps its outcome and its events.
LEMMA QuietPreserves ==
  ASSUME TInv, TInv', SInv, NEW w \in Workers, NEW s, sweep[w].pc # "idle",
         sweep' = [sweep EXCEPT ![w] = s],
         UNCHANGED <<verdict, terminal, answered, remembered>>,
         \/ s.pc = "idle" /\ \A d \in Calls \ {sweep[w].call} : job'[d] = job[d]
         \/ s.call = sweep[w].call /\ UNCHANGED job
            /\ Sound(s, verdict[s.call], terminal[s.call])
  PROVE  SInv'
<1> DEFINE c == sweep[w].call
<1>1. c \in Calls
  BY DEF TInv, Engaged
<1>2. /\ s.pc # "idle" => /\ s.call = c /\ job'[c].lease = w /\ job'[c].live
                          /\ Sound(s, verdict'[c], terminal'[c])
      /\ States(terminal'[c], verdict'[c])
      /\ answered'[c] \/ remembered'[c] => verdict'[c] = "success"
      /\ \A d \in Calls \ {c} : job'[d] = job[d]
  BY <1>1 DEF SInv, EventMatchesOutcome, OnlySuccessIsEvidence
<1> HIDE DEF c
<1> QED
  BY <1>1, <1>2, WorkPreserves DEF c

Critical == {"classify", "persist", "announce", "answer", "mark", "summarise"}
Held == UNCHANGED <<verdict, terminal, answered, remembered>>

LEMMA GotoPreserves ==
  ASSUME TInv, TInv', SInv, NEW w \in Workers, sweep[w].pc # "idle", Held, UNCHANGED job,
         NEW step \in Steps, Goto(w, step),
         \/ step \notin Critical
         \/ step = "classify" /\ verdict[sweep[w].call] = "pending"
  PROVE  SInv'
<1> DEFINE s == [sweep[w] EXCEPT !.pc = step]
<1>1. sweep[w] \in Sweep
  BY DEF TInv, TypeOK
<1>2. s.pc = step /\ s.call = sweep[w].call /\ s.outcome = sweep[w].outcome
  BY <1>1 DEF Sweep
<1>3. sweep' = [sweep EXCEPT ![w] = s]
  BY DEF Goto
<1> HIDE DEF s
<1>4. Sound(s, verdict[s.call], terminal[s.call])
  BY <1>2 DEF Sound, Critical
<1> QED
  BY <1>2, <1>3, <1>4, QuietPreserves DEF Held

LEMMA ThrowPreserves ==
  ASSUME TInv, TInv', SInv, NEW w \in Workers, sweep[w].pc # "idle", Held, UNCHANGED job, Throw(w)
  PROVE  SInv'
<1>1. "give_up" \in Steps \ Critical /\ "fail" \in Steps \ Critical
  BY DEF Steps, Critical
<1> QED
  BY <1>1, GotoPreserves DEF Throw

LEMMA JudgePreserves ==
  ASSUME TInv, TInv', SInv, NEW w \in Workers, sweep[w].pc # "idle", Held, UNCHANGED job,
         NEW s, sweep' = [sweep EXCEPT ![w] = s], s.pc = "persist", s.call = sweep[w].call,
         verdict[s.call] \in {"pending", s.outcome}
  PROVE  SInv'
BY QuietPreserves DEF Held, Sound

LEMMA StopPreserves ==
  ASSUME TInv, TInv', SInv, NEW w \in Workers, sweep[w].pc # "idle", Held, Stop(w),
         UNCHANGED job \/ \E st, n, due : Release(w, st, n, due)
  PROVE  SInv'
<1>1. \A d \in Calls \ {sweep[w].call} : job'[d] = job[d]
  BY DEF Release, TInv, TypeOK
<1>2. Idle.pc = "idle"
  BY DEF Idle
<1>3. sweep' = [sweep EXCEPT ![w] = Idle]
  BY DEF Stop
<1> QED
  BY <1>1, <1>2, <1>3, QuietPreserves DEF Held

\* A step that writes the outcome or an event of the sweep's own call.
LEMMA AdvancePreserves ==
  ASSUME TInv, TInv', SInv, NEW w \in Workers, sweep[w].pc # "idle", UNCHANGED job,
         NEW step \in Steps \ {"classify", "persist"}, Goto(w, step),
         NEW c \in Calls, c = sweep[w].call,
         \A d \in Calls \ {c} :
           /\ verdict'[d] = verdict[d] /\ terminal'[d] = terminal[d]
           /\ answered'[d] = answered[d] /\ remembered'[d] = remembered[d],
         step \in Critical => verdict'[c] = sweep[w].outcome,
         step = "answer" => terminal'[c] = <<"success">>,
         States(terminal'[c], verdict'[c]),
         answered'[c] \/ remembered'[c] => verdict'[c] = "success"
  PROVE  SInv'
<1> DEFINE s == [sweep[w] EXCEPT !.pc = step]
<1>1. s.pc = step /\ s.call = c /\ s.outcome = sweep[w].outcome
  BY DEF TInv, TypeOK, Sweep
<1>2. sweep' = [sweep EXCEPT ![w] = s]
  BY DEF Goto
<1> HIDE DEF s
<1>3. Sound(s, verdict'[c], terminal'[c])
  BY <1>1 DEF Sound, Critical
<1>4. job'[c].lease = w /\ job'[c].live
  BY DEF SInv
<1>5. \A d \in Calls \ {c} :
        /\ job'[d] = job[d] /\ verdict'[d] = verdict[d] /\ terminal'[d] = terminal[d]
        /\ answered'[d] = answered[d] /\ remembered'[d] = remembered[d]
  OBVIOUS
<1>6. s.pc # "idle" => /\ s.call = c /\ job'[c].lease = w /\ job'[c].live
                      /\ Sound(s, verdict'[c], terminal'[c])
  BY <1>1, <1>3, <1>4
<1> QED
  BY <1>2, <1>5, <1>6, WorkPreserves

LEMMA PersistPreserves ==
  ASSUME TInv, TInv', SInv, NEW w \in Workers, Persist(w)
  PROVE  SInv'
<1> DEFINE c == sweep[w].call
<1>1. /\ c \in Calls /\ sweep[w].pc # "idle" /\ verdict[c] \in {"pending", sweep[w].outcome}
      /\ States(terminal[c], verdict[c]) /\ terminal[c] \in Seq(Outcomes)
      /\ (terminal[c] = <<>> \/ \E o \in Outcomes : terminal[c] = <<o>>)
      /\ answered[c] \/ remembered[c] => verdict[c] = "success"
  BY DEF Persist, TInv, TypeOK, Engaged, SInv, Sound, EventMatchesOutcome, OnlySuccessIsEvidence
<1>2. UNCHANGED <<job, terminal, answered, remembered>>
  BY DEF Persist, events
<1>3. CASE Throw(w) /\ UNCHANGED verdict
  BY <1>1, <1>2, <1>3, ThrowPreserves DEF Held
<1>4. CASE Goto(w, "announce") /\ verdict' = [verdict EXCEPT ![c] = sweep[w].outcome]
  <2>1. verdict'[c] = sweep[w].outcome /\ \A d \in Calls \ {c} : verdict'[d] = verdict[d]
    BY <1>1, <1>4 DEF TInv, TypeOK
  <2>2. States(terminal'[c], verdict'[c]) /\ (answered'[c] \/ remembered'[c] => verdict'[c] = "success")
    <3>1. CASE verdict[c] = sweep[w].outcome
      BY <1>1, <1>2, <2>1, <3>1
    <3>2. CASE verdict[c] = "pending"
      <4>1. "pending" \notin Outcomes
        BY DEF Outcomes
      <4>2. ASSUME NEW o \in Outcomes, terminal[c] = <<o>> PROVE FALSE
        BY <1>1, <3>2, <4>1, <4>2, OneEvent
      <4>3. terminal[c] = <<>>
        BY <1>1, <4>2
      <4>4. States(terminal'[c], verdict'[c])
        <5>1. terminal'[c] = <<>>
          BY <1>2, <4>3
        <5>2. States(<<>>, verdict'[c])
          BY OneEvent
        <5> QED
          BY <5>1, <5>2, Zenon
      <4> QED
        BY <1>1, <1>2, <3>2, <4>4
    <3> QED
      BY <1>1, <3>1, <3>2
  <2>3. "announce" \in Steps \ {"classify", "persist"}
    BY DEF Steps
  <2> HIDE DEF c
  <2> QED
    BY <1>1, <1>2, <1>4, <2>1, <2>2, <2>3, AdvancePreserves DEF c
<1> QED
  BY <1>3, <1>4 DEF Persist

LEMMA AnnouncePreserves ==
  ASSUME TInv, TInv', SInv, NEW w \in Workers, Announce(w)
  PROVE  SInv'
<1> DEFINE c == sweep[w].call
<1>1. /\ c \in Calls /\ sweep[w].pc # "idle" /\ verdict[c] = sweep[w].outcome
      /\ States(terminal[c], verdict[c])
      /\ answered[c] \/ remembered[c] => verdict[c] = "success"
  BY DEF Announce, TInv, TypeOK, Engaged, SInv, Sound, EventMatchesOutcome, OnlySuccessIsEvidence
<1>2. UNCHANGED <<job, verdict, answered, remembered>>
  BY DEF Announce, callVars
<1>3. CASE Throw(w) /\ UNCHANGED terminal
  BY <1>1, <1>2, <1>3, ThrowPreserves DEF Held
<1>4. ASSUME NEW step \in {"answer", "mark"}, Goto(w, step), Deduped(c, sweep[w].outcome),
             step = "answer" => sweep[w].outcome = "success"
      PROVE  SInv'
  <2>1. /\ terminal'[c] = <<verdict[c]>>
        /\ \A d \in Calls \ {c} : terminal'[d] = terminal[d]
    <3>1. terminal[c] = <<>> \/ terminal[c] = <<verdict[c]>>
      <4>1. PICK t : t = terminal[c] /\ (t = <<>> \/ \E o \in Outcomes : t = <<o>>)
        BY <1>1 DEF TInv
      <4>2. ASSUME NEW o \in Outcomes, t = <<o>> PROVE t = <<verdict[c]>>
        BY <1>1, <4>1, <4>2, OneEvent
      <4> QED
        BY <4>1, <4>2
    <3>2. terminal \in [Calls -> Seq(Outcomes)]
      BY DEF TInv, TypeOK
    <3> QED
      BY <1>1, <1>4, <3>1, <3>2 DEF Deduped
  <2>2. step \in Steps \ {"classify", "persist"}
    BY <1>4 DEF Steps
  <2>3. States(terminal'[c], verdict'[c])
    BY <1>2, <2>1, OneEvent
  <2> HIDE DEF c
  <2> QED
    BY <1>1, <1>2, <1>4, <2>1, <2>2, <2>3, AdvancePreserves DEF c
<1> QED
  BY <1>3, <1>4 DEF Announce

LEMMA EvidencePreserves ==
  ASSUME TInv, TInv', SInv, NEW w \in Workers, AnswerAsk(w) \/ Mark(w) \/ Summarise(w)
  PROVE  SInv'
<1> DEFINE c == sweep[w].call
<1>0. sweep[w].pc \in {"answer", "mark", "summarise"} /\ UNCHANGED <<verdict, terminal>>
  BY DEF AnswerAsk, Mark, Summarise, callVars, events
<1>1. /\ c \in Calls /\ sweep[w].pc # "idle" /\ verdict[c] = sweep[w].outcome
      /\ States(terminal[c], verdict[c]) /\ UNCHANGED <<verdict, terminal>>
      /\ (sweep[w].pc = "answer" => verdict[c] = "success")
      /\ answered[c] \/ remembered[c] => verdict[c] = "success"
  <2>1. /\ c \in Calls /\ sweep[w].pc # "idle" /\ verdict[c] = sweep[w].outcome
        /\ States(terminal[c], verdict[c])
        /\ (sweep[w].pc = "answer" => terminal[c] = <<"success">>)
        /\ (answered[c] \/ remembered[c] => verdict[c] = "success")
    BY <1>0 DEF TInv, Engaged, SInv, Sound, EventMatchesOutcome, OnlySuccessIsEvidence
  <2>2. terminal[c] = <<"success">> => verdict[c] = "success"
    BY <2>1, OneEvent
  <2> QED
    BY <1>0, <2>1, <2>2
<1>2. CASE Throw(w) /\ UNCHANGED <<answered, remembered, job>>
  BY <1>1, <1>2, ThrowPreserves DEF Held
<1>3. ASSUME NEW step \in {"mark", "summarise", "finish"}, Goto(w, step), UNCHANGED job,
             \A d \in Calls \ {c} : answered'[d] = answered[d] /\ remembered'[d] = remembered[d],
             answered'[c] \/ remembered'[c] => verdict[c] = "success"
      PROVE  SInv'
  <2>1. step \in Steps \ {"classify", "persist"} /\ step # "answer"
    BY <1>3 DEF Steps
  <2> HIDE DEF c
  <2> QED
    BY <1>1, <1>3, <2>1, AdvancePreserves DEF c
<1>4. CASE AnswerAsk(w)
  BY <1>1, <1>2, <1>3, <1>4 DEF AnswerAsk, callVars, TInv, TypeOK
<1>5. CASE Mark(w)
  BY <1>1, <1>2, <1>3, <1>5 DEF Mark, events
<1>6. CASE Summarise(w)
  BY <1>1, <1>2, <1>3, <1>6 DEF Summarise, callVars, MaySummarise, TInv, TypeOK
<1> QED
  BY <1>4, <1>5, <1>6

LEMMA WorkStepPreserves ==
  ASSUME TInv, TInv', SInv, NEW w \in Workers, Work(w) \/ Crash(w)
  PROVE  SInv'
<1>1. sweep[w].pc # "idle"
  BY DEF Work, Read, Classify, Persist, Announce, AnswerAsk, Mark, Summarise, Finish, Defer,
         Fail, LastRead, Close, GiveUp, Crash
<1>2. CASE Read(w)
  <2>1. Held /\ UNCHANGED job
    BY <1>2 DEF Read, Held, callVars, events
  <2>2. ASSUME NEW o \in Outcomes, Judge(w, o), verdict[sweep[w].call] \in {"pending", o} PROVE SInv'
    <3> DEFINE s == [sweep[w] EXCEPT !.pc = "persist", !.outcome = o]
    <3>1. s.pc = "persist" /\ s.call = sweep[w].call /\ s.outcome = o
      BY DEF TInv, TypeOK, Sweep
    <3> QED
      BY <1>1, <2>1, <2>2, <3>1, JudgePreserves DEF Judge
  <2>3. ASSUME NEW step \in {"finish", "defer"}, Goto(w, step) PROVE SInv'
    BY <1>1, <2>1, <2>3, GotoPreserves DEF Steps, Critical
  <2>4. ASSUME Goto(w, "classify"), verdict[sweep[w].call] = "pending" PROVE SInv'
    BY <1>1, <2>1, <2>4, GotoPreserves DEF Steps
  <2> QED
    BY <1>1, <1>2, <2>1, <2>2, <2>3, <2>4, ThrowPreserves DEF Read, Outcomes
<1>3. CASE Classify(w)
  <2>1. Held /\ UNCHANGED job /\ verdict[sweep[w].call] = "pending"
    BY <1>1, <1>3 DEF Classify, Held, callVars, events, SInv, Sound
  <2>2. ASSUME NEW o \in Outcomes, Judge(w, o) PROVE SInv'
    <3> DEFINE s == [sweep[w] EXCEPT !.pc = "persist", !.outcome = o]
    <3>1. s.pc = "persist" /\ s.call = sweep[w].call
      BY DEF TInv, TypeOK, Sweep
    <3> QED
      BY <1>1, <2>1, <2>2, <3>1, JudgePreserves DEF Judge
  <2> QED
    BY <1>1, <1>3, <2>1, <2>2, ThrowPreserves DEF Classify
<1>4. CASE Finish(w) \/ Defer(w) \/ Close(w) \/ GiveUp(w) \/ Crash(w)
  <2>1. Held
    BY <1>4 DEF Finish, Defer, Close, GiveUp, Crash, Held, callVars, events
  <2>2. \/ Throw(w) /\ UNCHANGED job
        \/ Stop(w) /\ (UNCHANGED job \/ \E st, n, due : Release(w, st, n, due))
    BY <1>4 DEF Finish, Defer, Close, GiveUp, Crash
  <2> QED
    BY <1>1, <2>1, <2>2, ThrowPreserves, StopPreserves
<1>5. CASE Fail(w)
  <2>1. Held
    BY <1>5 DEF Fail, Held, callVars, events
  <2>2. \/ Goto(w, "last_read") /\ UNCHANGED job
        \/ Stop(w) /\ (UNCHANGED job \/ \E st, n, due : Release(w, st, n, due))
    BY <1>5 DEF Fail
  <2> QED
    BY <1>1, <2>1, <2>2, GotoPreserves, StopPreserves DEF Steps, Critical
<1>6. CASE LastRead(w)
  <2>1. Held /\ UNCHANGED job
    BY <1>6 DEF LastRead, Held, callVars, events
  <2>2. ASSUME NEW step \in {"close", "give_up"}, Goto(w, step) PROVE SInv'
    BY <1>1, <2>1, <2>2, GotoPreserves DEF Steps, Critical
  <2> DEFINE s == [sweep[w] EXCEPT !.pc = "persist", !.outcome = "failed", !.last = TRUE]
  <2>3. s.pc = "persist" /\ s.call = sweep[w].call
    BY DEF TInv, TypeOK, Sweep
  <2>4. ASSUME sweep' = [sweep EXCEPT ![w] = s], verdict[sweep[w].call] = "pending" PROVE SInv'
    <3> HIDE DEF s
    <3> QED
      BY <1>1, <2>1, <2>3, <2>4, JudgePreserves
  <2> QED
    BY <1>6, <2>2, <2>4 DEF LastRead
<1> QED
  BY <1>2, <1>3, <1>4, <1>5, <1>6, PersistPreserves, AnnouncePreserves, EvidencePreserves DEF Work

LEMMA NextSInv == LeaseOutlivesWork /\ TInv /\ TInv' /\ SInv /\ [Next]_vars => SInv'
<1> SUFFICES ASSUME LeaseOutlivesWork, TInv, TInv', SInv, [Next]_vars PROVE SInv'
  OBVIOUS
<1>1. CASE UNCHANGED vars
  BY <1>1 DEF vars, events, callVars, SInv, EventMatchesOutcome, OnlySuccessIsEvidence
<1>2. CASE Next
  BY <1>2, CallChangesPreserve, ClaimPreserves, WorkStepPreserves DEF Next
<1> QED
  BY <1>1, <1>2

LEMMA InitSInv == Init => SInv
<1> SUFFICES ASSUME Init PROVE SInv
  OBVIOUS
<1>1. \A w \in Workers : sweep[w].pc = "idle"
  BY DEF Init, Idle
<1>2. \A c \in Calls : terminal[c] = <<>> /\ ~answered[c] /\ ~remembered[c]
  BY DEF Init
<1> QED
  BY <1>1, <1>2, OneEvent DEF SInv, EventMatchesOutcome, OnlySuccessIsEvidence

\* The inductive invariant of the finalizer, under leases that outlive their work.
THEOREM OutcomeInvariant == ASSUME LeaseOutlivesWork PROVE Spec => [](TInv /\ SInv)
<1>1. SInv /\ TInv /\ TInv' /\ [Next]_vars => SInv'
  BY NextSInv
<1> QED
  BY <1>1, InitSInv, InitTInv, NextTInv, PTL DEF Spec

\* The terminal event states the outcome the call is stored with.
THEOREM OutcomeEventMatches == ASSUME LeaseOutlivesWork PROVE Spec => []EventMatchesOutcome
<1>1. SInv => EventMatchesOutcome
  BY DEF SInv
<1> QED
  BY <1>1, OutcomeInvariant, PTL

\* Only a verified success answers an Ask or feeds a contact's history.
THEOREM OutcomeOnlySuccessIsEvidence ==
  ASSUME LeaseOutlivesWork PROVE Spec => []OnlySuccessIsEvidence
<1>1. SInv => OnlySuccessIsEvidence
  BY DEF SInv
<1> QED
  BY <1>1, OutcomeInvariant, PTL

-----------------------------------------------------------------------------
\* Each step of the finalizer is a step of CallVerdict or changes nothing it speaks of.
LEMMA StepMaps ==
  ASSUME TInv, SInv, [Next]_vars
  PROVE  [Verdict!Next]_(Verdict!cvars)
<1> DEFINE shown == <<verdict, terminal, answered, remembered>>
<1>1. CASE UNCHANGED shown
  BY <1>1 DEF Verdict!cvars
<1>2. ASSUME NEW w \in Workers, Persist(w) PROVE [Verdict!Next]_(Verdict!cvars)
  <2> DEFINE c == sweep[w].call
  <2>1. c \in Calls /\ sweep[w].outcome \in Outcomes /\ verdict[c] \in {"pending", sweep[w].outcome}
    BY <1>2 DEF Persist, TInv, Engaged, Deciding, SInv, Sound
  <2>2. UNCHANGED <<terminal, answered, remembered>>
    BY <1>2 DEF Persist, events
  <2>3. CASE verdict' = verdict
    BY <1>1, <2>2, <2>3
  <2>4. CASE verdict' = [verdict EXCEPT ![c] = sweep[w].outcome] /\ verdict[c] = "pending"
    <3>1. Verdict!Judge(c)
      BY <2>1, <2>2, <2>4 DEF Verdict!Judge, Outcomes
    <3> QED
      BY <2>1, <3>1 DEF Verdict!Next
  <2>5. CASE verdict' = [verdict EXCEPT ![c] = sweep[w].outcome] /\ verdict[c] = sweep[w].outcome
    <3>1. verdict' = verdict
      BY <2>5 DEF TInv, TypeOK
    <3> QED
      BY <2>3, <3>1
  <2> QED
    BY <1>2, <2>1, <2>3, <2>4, <2>5 DEF Persist
<1>3. ASSUME NEW w \in Workers, Announce(w) PROVE [Verdict!Next]_(Verdict!cvars)
  <2> DEFINE c == sweep[w].call
  <2>1. c \in Calls /\ sweep[w].outcome \in Outcomes /\ verdict[c] = sweep[w].outcome
    BY <1>3 DEF Announce, TInv, Engaged, Deciding, SInv, Sound
  <2>2. UNCHANGED <<verdict, answered, remembered>>
    BY <1>3 DEF Announce, callVars
  <2>3. CASE terminal' = terminal
    BY <1>1, <2>2, <2>3
  <2>4. CASE terminal' = [terminal EXCEPT ![c] = <<sweep[w].outcome>>] /\ terminal[c] = <<>>
    <3>1. verdict[c] # "pending"
      BY <2>1 DEF Outcomes
    <3>2. Verdict!Announce(c)
      BY <2>1, <2>2, <2>4, <3>1 DEF Verdict!Announce
    <3> QED
      BY <2>1, <3>2 DEF Verdict!Next
  <2>5. Deduped(c, sweep[w].outcome) =>
          \/ terminal' = terminal
          \/ terminal' = [terminal EXCEPT ![c] = <<sweep[w].outcome>>] /\ terminal[c] = <<>>
    BY DEF Deduped, TInv, TypeOK
  <2> QED
    BY <1>3, <2>3, <2>4, <2>5 DEF Announce
<1>4. ASSUME NEW w \in Workers, AnswerAsk(w) PROVE [Verdict!Next]_(Verdict!cvars)
  <2> DEFINE c == sweep[w].call
  <2>1. c \in Calls /\ terminal[c] = <<"success">>
    BY <1>4 DEF AnswerAsk, TInv, Engaged, SInv, Sound
  <2>2. UNCHANGED <<verdict, terminal, remembered>>
    BY <1>4 DEF AnswerAsk, callVars
  <2>3. CASE answered' = [answered EXCEPT ![c] = TRUE]
    <3>1. Verdict!Answer(c)
      BY <2>1, <2>2, <2>3 DEF Verdict!Answer
    <3> QED
      BY <2>1, <3>1 DEF Verdict!Next
  <2> QED
    BY <1>1, <1>4, <2>2, <2>3 DEF AnswerAsk
<1>5. ASSUME NEW c \in Calls, MaySummarise(c), remembered' = [remembered EXCEPT ![c] = TRUE],
             UNCHANGED <<verdict, terminal, answered>>
      PROVE  [Verdict!Next]_(Verdict!cvars)
  <2>1. Verdict!Remember(c)
    BY <1>5 DEF Verdict!Remember, MaySummarise
  <2> QED
    BY <2>1 DEF Verdict!Next
<1>6. ASSUME NEW w \in Workers, Summarise(w) PROVE [Verdict!Next]_(Verdict!cvars)
  <2>1. sweep[w].call \in Calls
    BY <1>6 DEF Summarise, TInv, Engaged
  <2> QED
    BY <1>1, <1>5, <1>6, <2>1 DEF Summarise, callVars
<1>7. ASSUME NEW c \in Calls, SummariseElsewhere(c) PROVE [Verdict!Next]_(Verdict!cvars)
  BY <1>5, <1>7 DEF SummariseElsewhere, callVars
<1>8. CASE UNCHANGED vars
  BY <1>1, <1>8 DEF vars, callVars, events
<1>9. ASSUME NEW c \in Calls,
             \/ \E s \in Ended \cup {"live"} : Report(c, s)
             \/ DetectMachine(c) \/ SaveTranscript(c) \/ TranscriptDeadline(c)
             \/ BecomeDue(c) \/ LeaseLapse(c)
      PROVE  UNCHANGED shown
  BY <1>9 DEF Report, DetectMachine, SaveTranscript, UpdateCall, TranscriptDeadline, BecomeDue,
              LeaseLapse, callVars, events
<1>10. ASSUME NEW w \in Workers,
              \/ Read(w) \/ Classify(w) \/ Mark(w) \/ Finish(w) \/ Defer(w) \/ Fail(w)
              \/ LastRead(w) \/ Close(w) \/ GiveUp(w) \/ Crash(w) \/ \E c \in Calls : Claim(w, c)
       PROVE  UNCHANGED shown
  BY <1>10 DEF Read, Classify, Mark, Finish, Defer, Fail, LastRead, Close, GiveUp, Crash, Claim,
               callVars, events
<1> HIDE DEF shown
<1> QED
  BY <1>1, <1>2, <1>3, <1>4, <1>6, <1>7, <1>8, <1>9, <1>10 DEF Next, Work

\* The finalizer keeps the promise the rest of the system is given about a call.
THEOREM OutcomeImplementsVerdict == ASSUME LeaseOutlivesWork PROVE Spec => ImplementsVerdict
<1>1. Init => Verdict!Init
  BY DEF Init, Verdict!Init
<1>2. TInv /\ SInv /\ [Next]_vars => [Verdict!Next]_(Verdict!cvars)
  BY StepMaps
<1> QED
  BY <1>1, <1>2, OutcomeInvariant, PTL DEF Spec, ImplementsVerdict, Verdict!Spec

\* While a lease outlives its sweep: one terminal event, which states the stored outcome, and
\* evidence from successes alone.
THEOREM OutcomeOneStory == ASSUME LeaseOutlivesWork PROVE Spec => []OneStoryIsTold
<1>1. Spec => []OneTerminalEvent
  BY OutcomeOneTerminalEvent
<1>2. Spec => []EventMatchesOutcome
  BY OutcomeEventMatches
<1>3. Spec => []OnlySuccessIsEvidence
  BY OutcomeOnlySuccessIsEvidence
<1> QED
  BY <1>1, <1>2, <1>3, PTL DEF OneStoryIsTold
=============================================================================
