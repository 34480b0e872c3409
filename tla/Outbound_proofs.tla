--------------------------- MODULE Outbound_proofs --------------------------
(***************************************************************************)
(* What the service sends out, proved: events through the outbox to their  *)
(* receiver (EventOutbox), and billable sends to a provider                *)
(* (OutboundOperation).                                                    *)
(***************************************************************************)
EXTENDS EventOutbox, OutboundOperation, FiniteSetTheorems, TLAPS

-----------------------------------------------------------------------------
(* The outcomes of the event outbox are earned, for any number of events   *)
(* and sweeps, any batch size, any retry budget, and leases that lapse at  *)
(* any time.                                                               *)

\* While a row carries a sweep's token, the sweep's copy of it is current.
LeaseIsCurrent ==
  \A w \in Workers, e \in Events :
    row[e].lease = w /\ batch[w][e] # Null =>
      /\ batch[w][e] = row[e].attempts
      /\ row[e].status \in Open

\* The answer a sweep holds is one of its batch, and as long as the token is
\* the sweep's the answer belongs to a try counted since the last requeue.
AnswerIsCounted ==
  \A w \in Workers : doing[w] # Null =>
    /\ batch[w][doing[w]] # Null
    /\ result[w] \in Results
    /\ row[doing[w]].lease = w =>
         /\ row[doing[w]].attempts + 1 <= tries[doing[w]]
         /\ result[w] = "ok" => acked[doing[w]]
         /\ result[w] = "permanent" => refused[doing[w]]

OutboxInv ==
        /\ OutboxTypeOK
        /\ LeaseIsCurrent
        /\ AnswerIsCounted
        /\ AttemptsAreReal
        /\ DeliveredIsEarned
        /\ FailedIsEarned

\* The initial state satisfies the inductive invariant.
LEMMA InitOutboxInv == OutboxInit => OutboxInv
<1> SUFFICES ASSUME OutboxInit PROVE OutboxInv
  OBVIOUS
<1> USE OutboxAssumption DEF OutboxInit
<1>1. OutboxTypeOK
  BY DEF OutboxTypeOK, Row, Absent, NoBatch, Open
<1>2. LeaseIsCurrent /\ AnswerIsCounted
  BY DEF LeaseIsCurrent, AnswerIsCounted, NoBatch
<1>3. AttemptsAreReal /\ DeliveredIsEarned /\ FailedIsEarned
  BY DEF AttemptsAreReal, DeliveredIsEarned, FailedIsEarned, Absent, Open
<1> QED
  BY <1>1, <1>2, <1>3 DEF OutboxInv

\* Guarded updates and outcomes stay within the table's type.
LEMMA UpdateTyped ==
  ASSUME row \in [Events -> Row], NEW w, NEW e \in Events, NEW new \in Row,
         UpdateUnderToken(w, e, new)
  PROVE  row' \in [Events -> Row]
<1>1. CASE row[e].lease = w
  BY <1>1 DEF UpdateUnderToken
<1>2. CASE row[e].lease # w
  BY <1>2 DEF UpdateUnderToken
<1> QED
  BY <1>1, <1>2

\* The row an answer leads to (eventOutbox.js 149-162) is a row of the table.
LEMMA OutcomeTyped ==
  ASSUME row \in [Events -> Row], NEW w, NEW e \in Events, batch[w][e] \in Nat
  PROVE  Outcome(w, e) \in Row
<1>1. ASSUME NEW n \in Nat, NEW s \in {"retrying", "delivered", "failed"}
      PROVE  Settled(e, n, s) \in Row
  <2>1. row[e] \in Row
    OBVIOUS
  <2> DEFINE due == s = "delivered" /\ row[e].due
  <2>2. due \in BOOLEAN
    OBVIOUS
  <2>3. Settled(e, n, s) = [row[e] EXCEPT !.status = s, !.attempts = n, !.due = due,
                                          !.lease = Null, !.live = FALSE]
    BY DEF Settled
  <2> HIDE DEF due
  <2> QED
    BY <2>1, <2>2, <2>3 DEF Row, Open
<1>2. batch[w][e] + 1 \in Nat
  OBVIOUS
<1> QED
  BY <1>1, <1>2 DEF Outcome

\* Every step of the outbox preserves the type invariant.
LEMMA OutboxNextTypeOK == OutboxTypeOK /\ AnswerIsCounted /\ [OutboxNext]_outboxVars => OutboxTypeOK'
<1> SUFFICES ASSUME OutboxTypeOK, AnswerIsCounted, [OutboxNext]_outboxVars PROVE OutboxTypeOK'
  OBVIOUS
<1> USE OutboxAssumption DEF OutboxTypeOK
<1>1. ASSUME NEW e \in Events, Enqueue(e) PROVE OutboxTypeOK'
  <2>1. Cardinality(Stored) + 1 \in Nat
    <3>1. Stored \in SUBSET Events
      BY DEF Stored
    <3>2. IsFiniteSet(Stored)
      BY <3>1, FS_Subset, OutboxAssumption
    <3>3. Cardinality(Stored) \in Nat
      BY <3>2, FS_CardinalityType
    <3> QED
      BY <3>3
  <2>2. row' \in [Events -> Row]
    BY <1>1, <2>1 DEF Enqueue, Row, Absent, Open
  <2> QED
    BY <1>1, <2>2 DEF Enqueue, sweepVars, sinceQueued
<1>2. ASSUME NEW e \in Events, Requeue(e) PROVE OutboxTypeOK'
  <2>1. row[e] \in Row
    OBVIOUS
  <2>2. [row[e] EXCEPT !.status = "pending", !.attempts = 0, !.due = TRUE,
                       !.lease = Null, !.live = FALSE] \in Row
    BY <2>1 DEF Row, Open
  <2>3. row' \in [Events -> Row]
    BY <1>2, <2>2 DEF Requeue
  <2> QED
    BY <1>2, <2>3 DEF Requeue, sweepVars
<1>3. ASSUME NEW e \in Events, BecomeDue(e) PROVE OutboxTypeOK'
  <2>1. row[e] \in Row
    OBVIOUS
  <2>2. [row[e] EXCEPT !.due = TRUE] \in Row
    BY <2>1 DEF Row
  <2>3. row' \in [Events -> Row]
    BY <1>3, <2>2 DEF BecomeDue
  <2> QED
    BY <1>3, <2>3 DEF BecomeDue, sweepVars, sinceQueued
<1>4. ASSUME NEW e \in Events, LeaseLapse(e) PROVE OutboxTypeOK'
  <2>1. row[e] \in Row
    OBVIOUS
  <2>2. [row[e] EXCEPT !.live = FALSE] \in Row
    BY <2>1 DEF Row
  <2>3. row' \in [Events -> Row]
    BY <1>4, <2>2 DEF LeaseLapse
  <2> QED
    BY <1>4, <2>3 DEF LeaseLapse, sweepVars, sinceQueued
<1>5. ASSUME NEW w \in Workers, Claim(w) PROVE OutboxTypeOK'
  <2>1. PICK b \in SUBSET Claimable :
          /\ row' = [e \in Events |-> IF e \in b THEN [row[e] EXCEPT !.lease = w, !.live = TRUE]
                                                 ELSE row[e]]
          /\ batch' = [batch EXCEPT ![w] = [e \in Events |-> IF e \in b THEN row[e].attempts ELSE Null]]
    BY <1>5 DEF Claim
  <2>2. row' \in [Events -> Row]
    <3>1. ASSUME NEW e \in Events PROVE row'[e] \in Row
      <4>1. row[e] \in Row
        OBVIOUS
      <4>2. [row[e] EXCEPT !.lease = w, !.live = TRUE] \in Row
        BY <4>1 DEF Row
      <4> QED
        BY <2>1, <4>1, <4>2
    <3> QED
      BY <2>1, <3>1
  <2>3. batch' \in [Workers -> [Events -> Nat \cup {Null}]]
    <3>1. \A e \in Events : row[e].attempts \in Nat
      BY DEF Row
    <3> QED
      BY <2>1, <3>1
  <2> QED
    BY <1>5, <2>2, <2>3 DEF Claim, sinceQueued
<1>6. ASSUME NEW w \in Workers, RecordOutcome(w) PROVE OutboxTypeOK'
  <2>1. doing[w] \in Events
    BY <1>6 DEF RecordOutcome
  <2>2. ASSUME UpdateUnderToken(w, doing[w], Outcome(w, doing[w])), batch[w][doing[w]] \in Nat
        PROVE row' \in [Events -> Row]
    BY <2>1, <2>2, UpdateTyped, OutcomeTyped
  <2>3. batch[w][doing[w]] \in Nat
    BY <1>6, <2>1 DEF RecordOutcome, AnswerIsCounted
  <2>4. row' \in [Events -> Row]
    BY <1>6, <2>2, <2>3 DEF RecordOutcome, UpdateLost
  <2> QED
    BY <1>6, <2>1, <2>4 DEF RecordOutcome, UpdateLost, Finish, sinceQueued
<1>7. ASSUME NEW w \in Workers, SweepCrash(w) PROVE OutboxTypeOK'
  BY <1>7 DEF SweepCrash, NoBatch, sinceQueued
<1>8. ASSUME NEW w \in Workers, NEW e \in Events, HoldBack(w, e) PROVE OutboxTypeOK'
  <2> DEFINE new == [row[e] EXCEPT !.status = "pending", !.due = FALSE,
                                   !.lease = Null, !.live = FALSE]
  <2>0. row[e] \in Row
    OBVIOUS
  <2>1. new \in Row
    BY <2>0 DEF Row, Open
  <2>2. UpdateUnderToken(w, e, new) \/ UNCHANGED row
    BY <1>8 DEF HoldBack, UpdateLost
  <2>3. row' \in [Events -> Row]
    BY <2>1, <2>2, UpdateTyped
  <2> QED
    BY <1>8, <2>3 DEF HoldBack, UpdateLost, Finish, Todo, sinceQueued
<1>9. ASSUME NEW w \in Workers, NEW e \in Events, NEW r \in Results, Post(w, e, r) PROVE OutboxTypeOK'
  <2>1. tries' \in [Events -> 0..MaxAttempts + 1]
    BY <1>9 DEF Post, AtMost
  <2>2. spent' \in [Workers -> Nat]
    BY <1>9 DEF Post, AtMost
  <2> QED
    BY <1>9, <2>1, <2>2 DEF Post
<1>10. CASE SetTenantStatus
  BY <1>10 DEF SetTenantStatus, sweepVars, sinceQueued
<1>11. CASE UNCHANGED outboxVars
  BY <1>11 DEF outboxVars
<1> QED
  BY <1>1, <1>2, <1>3, <1>4, <1>5, <1>6, <1>7, <1>8, <1>9, <1>10, <1>11 DEF OutboxNext

Earned == /\ LeaseIsCurrent
          /\ AnswerIsCounted
          /\ AttemptsAreReal
          /\ DeliveredIsEarned
          /\ FailedIsEarned

\* Steps that only move clocks or the tenant's status preserve the invariant.
LEMMA ClockKeepsEarned ==
  ASSUME OutboxInv, UNCHANGED <<batch, doing, result, sinceQueued>>,
         \A e \in Events : /\ row'[e].status = row[e].status
                           /\ row'[e].attempts = row[e].attempts
                           /\ row'[e].lease = row[e].lease
  PROVE  Earned'
<1> USE DEF OutboxInv, OutboxTypeOK, sinceQueued
<1>1. LeaseIsCurrent'
  BY DEF LeaseIsCurrent
<1>2. AnswerIsCounted'
  BY DEF AnswerIsCounted
<1>3. AttemptsAreReal' /\ DeliveredIsEarned' /\ FailedIsEarned'
  BY DEF AttemptsAreReal, DeliveredIsEarned, FailedIsEarned
<1> QED
  BY <1>1, <1>2, <1>3 DEF Earned

\* A row that is written gives up its lease: the sweeps' claims on the others
\* are as before, whatever sweep w has dropped from its batch.
LEMMA WriteKeepsEarned ==
  ASSUME OutboxInv, OutboxTypeOK', NEW e \in Events, NEW new \in Row,
         row' = [row EXCEPT ![e] = new], new.lease = Null,
         \A w \in Workers, f \in Events : batch'[w][f] \in {batch[w][f], Null},
         \A w \in Workers : doing'[w] # Null =>
            doing'[w] = doing[w] /\ result'[w] = result[w] /\ batch'[w][doing[w]] = batch[w][doing[w]],
         \A f \in Events \ {e} : tries'[f] = tries[f] /\ acked'[f] = acked[f] /\ refused'[f] = refused[f],
         new.attempts <= tries'[e],
         new.status \in Open => new.attempts < MaxAttempts,
         new.status = "delivered" => acked'[e],
         new.status = "failed" => refused'[e] \/ tries'[e] >= MaxAttempts
  PROVE  Earned'
<1> USE OutboxAssumption DEF OutboxInv, OutboxTypeOK
<1>1. row'[e] = new /\ \A f \in Events \ {e} : row'[f] = row[f]
  OBVIOUS
<1>2. LeaseIsCurrent'
  BY <1>1 DEF LeaseIsCurrent
<1>3. AnswerIsCounted'
  BY <1>1 DEF AnswerIsCounted
<1>4. AttemptsAreReal' /\ DeliveredIsEarned' /\ FailedIsEarned'
  BY <1>1 DEF AttemptsAreReal, DeliveredIsEarned, FailedIsEarned
<1> QED
  BY <1>2, <1>3, <1>4 DEF Earned

\* A sweep that drops rows from its batch without writing them.
LEMMA DropKeepsEarned ==
  ASSUME OutboxInv, UNCHANGED <<row, sinceQueued>>,
         \A w \in Workers, f \in Events : batch'[w][f] \in {batch[w][f], Null},
         \A w \in Workers : doing'[w] # Null =>
            doing'[w] = doing[w] /\ result'[w] = result[w] /\ batch'[w][doing[w]] = batch[w][doing[w]]
  PROVE  Earned'
<1> USE DEF OutboxInv, OutboxTypeOK, sinceQueued
<1>1. LeaseIsCurrent'
  BY DEF LeaseIsCurrent
<1>2. AnswerIsCounted'
  BY DEF AnswerIsCounted
<1>3. AttemptsAreReal' /\ DeliveredIsEarned' /\ FailedIsEarned'
  BY DEF AttemptsAreReal, DeliveredIsEarned, FailedIsEarned
<1> QED
  BY <1>1, <1>2, <1>3 DEF Earned

\* What the handling of one row of a batch does to the sweeps.
LEMMA FinishDrops ==
  ASSUME OutboxTypeOK, NEW w \in Workers, NEW e \in Events, Finish(w, e),
         \/ doing[w] = Null /\ UNCHANGED <<doing, result>>
         \/ doing' = [doing EXCEPT ![w] = Null] /\ result' = [result EXCEPT ![w] = Null]
  PROVE  /\ \A v \in Workers, f \in Events : batch'[v][f] \in {batch[v][f], Null}
         /\ \A v \in Workers : doing'[v] # Null =>
              doing'[v] = doing[v] /\ result'[v] = result[v] /\ batch'[v][doing[v]] = batch[v][doing[v]]
<1> USE DEF OutboxTypeOK, Finish
<1>1. \A v \in Workers, f \in Events : batch'[v][f] \in {batch[v][f], Null}
  OBVIOUS
<1>2. \A v \in Workers : v # w => batch'[v] = batch[v] /\ doing'[v] = doing[v] /\ result'[v] = result[v]
  OBVIOUS
<1>3. doing'[w] = Null
  OBVIOUS
<1> QED
  BY <1>1, <1>2, <1>3

\* Every step of the outbox keeps outcomes earned.
LEMMA NextEarned == OutboxInv /\ OutboxTypeOK' /\ [OutboxNext]_outboxVars => Earned'
<1> SUFFICES ASSUME OutboxInv, OutboxTypeOK', [OutboxNext]_outboxVars PROVE Earned'
  OBVIOUS
<1> USE OutboxAssumption DEF OutboxInv
<1>1. ASSUME NEW e \in Events, Enqueue(e) PROVE Earned'
  <2>1. row'[e] \in Row /\ row' = [row EXCEPT ![e] = row'[e]]
    BY <1>1 DEF Enqueue, OutboxTypeOK
  <2>2. row'[e].lease = Null /\ row'[e].attempts = 0 /\ row'[e].status = "pending"
    BY <1>1 DEF Enqueue, Absent, OutboxTypeOK
  <2>3. UNCHANGED <<sweepVars, sinceQueued>>
    BY <1>1 DEF Enqueue
  <2>4. tries'[e] >= 0 /\ tries'[e] \in Nat
    BY DEF OutboxTypeOK
  <2> QED
    BY <2>1, <2>2, <2>3, <2>4, WriteKeepsEarned DEF sweepVars, sinceQueued
<1>2. ASSUME NEW e \in Events, Requeue(e) PROVE Earned'
  <2>1. row'[e] \in Row /\ row' = [row EXCEPT ![e] = row'[e]]
    BY <1>2 DEF Requeue, OutboxTypeOK
  <2>2. row'[e].lease = Null /\ row'[e].attempts = 0 /\ row'[e].status = "pending"
    <3>1. row[e] \in Row
      BY DEF OutboxTypeOK
    <3> QED
      BY <1>2, <3>1 DEF Requeue, OutboxTypeOK, Row
  <2>3. UNCHANGED sweepVars
    BY <1>2 DEF Requeue
  <2>4. /\ tries'[e] = 0
        /\ \A f \in Events \ {e} : tries'[f] = tries[f] /\ acked'[f] = acked[f] /\ refused'[f] = refused[f]
    BY <1>2 DEF Requeue, OutboxTypeOK
  <2> QED
    BY <2>1, <2>2, <2>3, <2>4, WriteKeepsEarned DEF sweepVars
<1>3. ASSUME NEW e \in Events, BecomeDue(e) \/ LeaseLapse(e) PROVE Earned'
  <2>1. row[e] \in Row
    BY DEF OutboxTypeOK
  <2>2. \A f \in Events : /\ row'[f].status = row[f].status
                          /\ row'[f].attempts = row[f].attempts
                          /\ row'[f].lease = row[f].lease
    <3>1. row' = [row EXCEPT ![e] = [row[e] EXCEPT !.due = TRUE]]
            \/ row' = [row EXCEPT ![e] = [row[e] EXCEPT !.live = FALSE]]
      BY <1>3 DEF BecomeDue, LeaseLapse
    <3>2. row'[e] = [row[e] EXCEPT !.due = TRUE] \/ row'[e] = [row[e] EXCEPT !.live = FALSE]
      BY <3>1 DEF OutboxTypeOK
    <3>3. \A f \in Events \ {e} : row'[f] = row[f]
      BY <3>1 DEF OutboxTypeOK
    <3> QED
      BY <2>1, <3>2, <3>3 DEF Row
  <2> QED
    BY <1>3, <2>2, ClockKeepsEarned DEF BecomeDue, LeaseLapse, sweepVars, sinceQueued
<1>4. ASSUME NEW w \in Workers, SweepCrash(w) PROVE Earned'
  BY <1>4, DropKeepsEarned DEF SweepCrash, NoBatch, OutboxTypeOK
<1>5. CASE SetTenantStatus
  BY <1>5, ClockKeepsEarned DEF SetTenantStatus, sweepVars, sinceQueued
<1>6. CASE UNCHANGED outboxVars
  BY <1>6, ClockKeepsEarned DEF outboxVars, sinceQueued
<1>7. ASSUME NEW w \in Workers, Claim(w) PROVE Earned'
  <2>1. PICK b \in SUBSET Claimable :
          /\ row' = [e \in Events |-> IF e \in b THEN [row[e] EXCEPT !.lease = w, !.live = TRUE]
                                                 ELSE row[e]]
          /\ batch' = [batch EXCEPT ![w] = [e \in Events |-> IF e \in b THEN row[e].attempts ELSE Null]]
    BY <1>7 DEF Claim
  <2>2. UNCHANGED <<doing, result, tries, acked, refused>> /\ \A e \in Events : batch[w][e] = Null
    BY <1>7 DEF Claim, Todo, sinceQueued
  <2>3. \A e \in Events : row[e] \in Row
    BY DEF OutboxTypeOK
  <2>4. \A e \in Events :
          /\ row'[e].status = row[e].status /\ row'[e].attempts = row[e].attempts
          /\ row'[e].lease = IF e \in b THEN w ELSE row[e].lease
    BY <2>1, <2>3 DEF Row
  <2>5. \A v \in Workers, e \in Events :
          batch'[v][e] = IF v # w THEN batch[v][e] ELSE IF e \in b THEN row[e].attempts ELSE Null
    BY <2>1 DEF OutboxTypeOK
  <2>6. \A e \in b : e \in Events /\ row[e].status \in Open
    BY DEF Claimable
  <2>7. LeaseIsCurrent'
    BY <2>4, <2>5, <2>6 DEF LeaseIsCurrent
  <2>8. doing[w] = Null
    BY <2>2 DEF AnswerIsCounted, OutboxTypeOK
  <2>9. AnswerIsCounted'
    <3>1. ASSUME NEW v \in Workers, doing'[v] # Null
          PROVE  /\ v # w /\ doing[v] \in Events /\ doing'[v] = doing[v] /\ result'[v] = result[v]
                 /\ row'[doing[v]].lease = v => row[doing[v]].lease = v
                 /\ row'[doing[v]].attempts = row[doing[v]].attempts
                 /\ batch'[v][doing[v]] = batch[v][doing[v]]
      BY <2>2, <2>4, <2>5, <2>8, <3>1 DEF OutboxTypeOK
    <3> QED
      BY <2>2, <3>1 DEF AnswerIsCounted
  <2>10. AttemptsAreReal' /\ DeliveredIsEarned' /\ FailedIsEarned'
    BY <2>2, <2>4 DEF AttemptsAreReal, DeliveredIsEarned, FailedIsEarned
  <2> QED
    BY <2>7, <2>9, <2>10 DEF Earned
<1>8. ASSUME NEW w \in Workers, NEW e \in Events, HoldBack(w, e) PROVE Earned'
  <2> DEFINE new == [row[e] EXCEPT !.status = "pending", !.due = FALSE,
                                   !.lease = Null, !.live = FALSE]
  <2>1. row[e] \in Row /\ batch[w][e] # Null
    BY <1>8 DEF HoldBack, OutboxTypeOK, Todo
  <2>2. new \in Row /\ new.lease = Null /\ new.attempts = row[e].attempts /\ new.status = "pending"
    BY <2>1 DEF Row, Open
  <2>3. /\ \A v \in Workers, f \in Events : batch'[v][f] \in {batch[v][f], Null}
        /\ \A v \in Workers : doing'[v] # Null =>
             doing'[v] = doing[v] /\ result'[v] = result[v] /\ batch'[v][doing[v]] = batch[v][doing[v]]
    BY <1>8, FinishDrops DEF HoldBack
  <2>4. UNCHANGED sinceQueued
    BY <1>8 DEF HoldBack
  <2> HIDE DEF new
  <2>5. CASE UNCHANGED row
    BY <2>3, <2>4, <2>5, DropKeepsEarned
  <2>6. CASE row[e].lease = w /\ row' = [row EXCEPT ![e] = new]
    <3>1. row[e].attempts <= tries[e] /\ row[e].attempts < MaxAttempts
      BY <2>1, <2>6 DEF LeaseIsCurrent, AttemptsAreReal
    <3> QED
      BY <2>2, <2>3, <2>4, <2>6, <3>1, WriteKeepsEarned DEF sinceQueued
  <2> QED
    BY <1>8, <2>5, <2>6 DEF HoldBack, UpdateUnderToken, UpdateLost, new
<1>9. ASSUME NEW w \in Workers, RecordOutcome(w) PROVE Earned'
  <2> DEFINE e == doing[w]
             new == Outcome(w, e)
  <2>1. e \in Events /\ batch[w][e] # Null /\ batch[w][e] \in Nat /\ result[w] \in Results
    BY <1>9 DEF RecordOutcome, AnswerIsCounted, OutboxTypeOK
  <2>2. new \in Row
    BY <2>1, OutcomeTyped DEF OutboxTypeOK
  <2>3. /\ \A v \in Workers, f \in Events : batch'[v][f] \in {batch[v][f], Null}
        /\ \A v \in Workers : doing'[v] # Null =>
             doing'[v] = doing[v] /\ result'[v] = result[v] /\ batch'[v][doing[v]] = batch[v][doing[v]]
    BY <1>9, <2>1, FinishDrops DEF RecordOutcome
  <2>4. UNCHANGED sinceQueued
    BY <1>9 DEF RecordOutcome
  <2>5. CASE UNCHANGED row
    BY <2>3, <2>4, <2>5, DropKeepsEarned
  <2>6. CASE row[e].lease = w /\ row' = [row EXCEPT ![e] = new]
    <3>1. /\ batch[w][e] = row[e].attempts
          /\ row[e].attempts + 1 <= tries[e]
          /\ result[w] = "ok" => acked[e]
          /\ result[w] = "permanent" => refused[e]
      BY <1>9, <2>1, <2>6 DEF RecordOutcome, LeaseIsCurrent, AnswerIsCounted
    <3>2. /\ new.lease = Null /\ new.attempts = row[e].attempts + 1
          /\ new.status = IF result[w] = "ok" THEN "delivered"
                          ELSE IF row[e].attempts + 1 >= MaxAttempts \/ result[w] = "permanent"
                               THEN "failed" ELSE "retrying"
      <4>1. row[e] \in Row
        BY <2>1 DEF OutboxTypeOK
      <4> QED
        BY <3>1, <4>1 DEF Outcome, Settled, Row
    <3>3. /\ new.status \in Open => new.attempts < MaxAttempts
          /\ new.status = "delivered" => acked[e]
          /\ new.status = "failed" => refused[e] \/ tries[e] >= MaxAttempts
      <4>1. row[e].attempts \in Nat /\ tries[e] \in Nat
        BY <2>1 DEF OutboxTypeOK, Row
      <4> QED
        BY <3>1, <3>2, <4>1 DEF Open
    <3> HIDE DEF e, new
    <3> QED
      BY <2>1, <2>2, <2>3, <2>4, <2>6, <3>1, <3>2, <3>3, WriteKeepsEarned DEF sinceQueued
  <2> QED
    BY <1>9, <2>5, <2>6 DEF RecordOutcome, UpdateUnderToken, UpdateLost
<1>10. ASSUME NEW w \in Workers, NEW e \in Events, NEW r \in Results, Post(w, e, r) PROVE Earned'
  <2>1. UNCHANGED <<row, batch>> /\ batch[w][e] # Null
    BY <1>10 DEF Post, Todo
  <2>2. \A f \in Events : tries[f] <= tries'[f] /\ (acked[f] => acked'[f]) /\ (refused[f] => refused'[f])
    BY <1>10 DEF Post, AtMost, OutboxTypeOK
  <2>3. /\ row[e].attempts < MaxAttempts => row[e].attempts + 1 <= tries'[e]
        /\ r = "ok" => acked'[e]
        /\ r = "permanent" => refused'[e]
    <3>1. row[e].attempts \in Nat /\ row[e].attempts <= tries[e]
      BY DEF OutboxTypeOK, Row, AttemptsAreReal
    <3>2. /\ tries[e] \in Nat
          /\ tries'[e] = IF tries[e] + 1 > MaxAttempts + 1 THEN MaxAttempts + 1 ELSE tries[e] + 1
      BY <1>10 DEF Post, AtMost, OutboxTypeOK
    <3>3. (r = "ok" => acked'[e]) /\ (r = "permanent" => refused'[e])
      BY <1>10 DEF Post, OutboxTypeOK
    <3> QED
      BY <3>1, <3>2, <3>3
  <2>4. LeaseIsCurrent'
    BY <2>1 DEF LeaseIsCurrent
  <2>5. AnswerIsCounted'
    <3>1. ASSUME NEW v \in Workers, doing'[v] # Null, v # w
          PROVE  doing'[v] = doing[v] /\ result'[v] = result[v]
      BY <1>10, <3>1 DEF Post, OutboxTypeOK
    <3>2. doing'[w] = e /\ result'[w] = r
      BY <1>10 DEF Post, OutboxTypeOK
    <3>3. row[e].lease = w => row[e].attempts < MaxAttempts
      BY <2>1 DEF LeaseIsCurrent, AttemptsAreReal
    <3>4. \A f \in Events : row[f].attempts \in Nat /\ tries[f] \in Nat /\ tries'[f] \in Nat
      BY DEF OutboxTypeOK, Row
    <3>5. ASSUME NEW v \in Workers, doing'[v] # Null, v # w
          PROVE  /\ batch'[v][doing'[v]] # Null /\ result'[v] \in Results
                 /\ row'[doing'[v]].lease = v =>
                      /\ row'[doing'[v]].attempts + 1 <= tries'[doing'[v]]
                      /\ result'[v] = "ok" => acked'[doing'[v]]
                      /\ result'[v] = "permanent" => refused'[doing'[v]]
      <4>1. doing[v] \in Events
        BY <3>1, <3>5 DEF OutboxTypeOK
      <4> QED
        BY <2>1, <2>2, <3>1, <3>4, <3>5, <4>1 DEF AnswerIsCounted
    <3> QED
      BY <2>1, <2>3, <3>2, <3>3, <3>5 DEF AnswerIsCounted
  <2>6. AttemptsAreReal' /\ DeliveredIsEarned' /\ FailedIsEarned'
    <3>1. \A f \in Events : row[f].attempts \in Nat /\ tries[f] \in Nat /\ tries'[f] \in Nat
      BY DEF OutboxTypeOK, Row
    <3> QED
      BY <2>1, <2>2, <3>1 DEF AttemptsAreReal, DeliveredIsEarned, FailedIsEarned
  <2> QED
    BY <2>4, <2>5, <2>6 DEF Earned
<1> QED
  BY <1>1, <1>2, <1>3, <1>4, <1>5, <1>6, <1>7, <1>8, <1>9, <1>10 DEF OutboxNext

\* The invariant holds in every reachable state of the outbox.
THEOREM OutboxInvariant == OutboxSpec => []OutboxInv
<1>1. OutboxInv /\ [OutboxNext]_outboxVars => OutboxInv'
  BY OutboxNextTypeOK, NextEarned DEF OutboxInv, Earned
<1> QED
  BY InitOutboxInv, <1>1, PTL DEF OutboxSpec

\* The tables and the sweeps always have their types.
THEOREM OutboxTypes == OutboxSpec => []OutboxTypeOK
<1>1. OutboxInv => OutboxTypeOK
  BY DEF OutboxInv
<1> QED
  BY OutboxInvariant, <1>1, PTL

\* A row is closed as delivered only on a 2xx answer to a POST begun since the
\* row was last queued (eventOutbox.js 146-152).
THEOREM OutboxDeliveredIsEarned == OutboxSpec => []DeliveredIsEarned
<1>1. OutboxInv => DeliveredIsEarned
  BY DEF OutboxInv
<1> QED
  BY OutboxInvariant, <1>1, PTL

\* A row is closed as failed only after a permanent refusal or the whole retry
\* budget since it was last queued (eventOutbox.js 153-162).
THEOREM OutboxFailedIsEarned == OutboxSpec => []FailedIsEarned
<1>1. OutboxInv => FailedIsEarned
  BY DEF OutboxInv
<1> QED
  BY OutboxInvariant, <1>1, PTL

\* Recorded attempts were made, and no open row has used up its budget.
THEOREM OutboxAttemptsAreReal == OutboxSpec => []AttemptsAreReal
<1>1. OutboxInv => AttemptsAreReal
  BY DEF OutboxInv
<1> QED
  BY OutboxInvariant, <1>1, PTL

-----------------------------------------------------------------------------
\* The outbox implements EventDelivery.

\* A sweep's batch holds stored rows only: rows are never deleted.
BatchIsStored == \A w \in Workers, e \in Events : batch[w][e] # Null => row[e].status # "absent"

\* Every step of the outbox keeps the batches within the stored rows.
LEMMA NextBatchIsStored == OutboxInv /\ BatchIsStored /\ [OutboxNext]_outboxVars => BatchIsStored'
<1> SUFFICES ASSUME OutboxInv, BatchIsStored, [OutboxNext]_outboxVars PROVE BatchIsStored'
  OBVIOUS
<1> USE DEF OutboxInv, BatchIsStored
<1>0. \A e \in Events : row[e] \in Row
  BY DEF OutboxTypeOK
<1>1. ASSUME \A e \in Events : row'[e].status = "absent" => row[e].status = "absent",
             \A w \in Workers, e \in Events : batch'[w][e] \in {batch[w][e], Null}
      PROVE  BatchIsStored'
  BY <1>1
<1>2. ASSUME NEW e \in Events, NEW new, row' = [row EXCEPT ![e] = new], new.status # "absent"
      PROVE  \A f \in Events : row'[f].status = "absent" => row[f].status = "absent"
  BY <1>2 DEF OutboxTypeOK
<1>3. ASSUME NEW e \in Events, Enqueue(e) \/ Requeue(e) \/ BecomeDue(e) \/ LeaseLapse(e) PROVE BatchIsStored'
  <2>1. \A f \in Events \ {e} : row'[f] = row[f]
    BY <1>3 DEF Enqueue, Requeue, BecomeDue, LeaseLapse, OutboxTypeOK
  <2>2. row'[e].status = "absent" => row[e].status = "absent"
    <3>1. CASE Enqueue(e)
      BY <3>1 DEF Enqueue, Absent, OutboxTypeOK
    <3>2. CASE Requeue(e)
      <4>1. row'[e] = [row[e] EXCEPT !.status = "pending", !.attempts = 0, !.due = TRUE,
                                     !.lease = Null, !.live = FALSE]
        BY <3>2 DEF Requeue, OutboxTypeOK
      <4> QED
        BY <1>0, <4>1 DEF Row
    <3>3. CASE BecomeDue(e) \/ LeaseLapse(e)
      <4>1. row'[e] \in {[row[e] EXCEPT !.due = TRUE], [row[e] EXCEPT !.live = FALSE]}
        BY <3>3 DEF BecomeDue, LeaseLapse, OutboxTypeOK
      <4> QED
        BY <1>0, <4>1 DEF Row
    <3> QED
      BY <1>3, <3>1, <3>2, <3>3
  <2>4. \A f \in Events : row'[f].status = "absent" => row[f].status = "absent"
    BY <2>1, <2>2
  <2>3. UNCHANGED batch
    BY <1>3 DEF Enqueue, Requeue, BecomeDue, LeaseLapse, sweepVars
  <2> QED
    BY <1>1, <2>4, <2>3
<1>4. ASSUME NEW w \in Workers, Claim(w) PROVE BatchIsStored'
  <2>1. PICK b \in SUBSET Claimable :
          /\ row' = [e \in Events |-> IF e \in b THEN [row[e] EXCEPT !.lease = w, !.live = TRUE]
                                                 ELSE row[e]]
          /\ batch' = [batch EXCEPT ![w] = [e \in Events |-> IF e \in b THEN row[e].attempts ELSE Null]]
    BY <1>4 DEF Claim
  <2>2. \A e \in Events : row'[e].status = row[e].status
    BY <1>0, <2>1 DEF Row
  <2>3. \A e \in b : row[e].status # "absent"
    BY DEF Claimable, Open
  <2> QED
    BY <2>1, <2>2, <2>3 DEF OutboxTypeOK
<1>5. ASSUME NEW w \in Workers, NEW e \in Events, HoldBack(w, e) PROVE BatchIsStored'
  <2> DEFINE new == [row[e] EXCEPT !.status = "pending", !.due = FALSE, !.lease = Null, !.live = FALSE]
  <2>1. new.status # "absent"
    BY <1>0 DEF Row
  <2>2. \A f \in Events : row'[f].status = "absent" => row[f].status = "absent"
    BY <1>2, <1>5, <2>1 DEF HoldBack, UpdateUnderToken, UpdateLost
  <2>3. \A v \in Workers, f \in Events : batch'[v][f] \in {batch[v][f], Null}
    BY <1>5 DEF HoldBack, Finish, OutboxTypeOK
  <2> QED
    BY <1>1, <2>2, <2>3
<1>6. ASSUME NEW w \in Workers, RecordOutcome(w) PROVE BatchIsStored'
  <2>1. doing[w] \in Events
    BY <1>6 DEF RecordOutcome, OutboxTypeOK
  <2>2. Outcome(w, doing[w]).status # "absent"
    BY <1>0, <2>1 DEF Outcome, Settled, Row
  <2>3. \A f \in Events : row'[f].status = "absent" => row[f].status = "absent"
    BY <1>2, <1>6, <2>1, <2>2 DEF RecordOutcome, UpdateUnderToken, UpdateLost
  <2>4. \A v \in Workers, f \in Events : batch'[v][f] \in {batch[v][f], Null}
    BY <1>6, <2>1 DEF RecordOutcome, Finish, OutboxTypeOK
  <2> QED
    BY <1>1, <2>3, <2>4
<1>7. ASSUME NEW w \in Workers, SweepCrash(w) PROVE BatchIsStored'
  BY <1>1, <1>7 DEF SweepCrash, NoBatch, OutboxTypeOK
<1>8. ASSUME NEW w \in Workers, NEW e \in Events, NEW r \in Results, Post(w, e, r) PROVE BatchIsStored'
  BY <1>8 DEF Post
<1>9. CASE SetTenantStatus
  BY <1>9 DEF SetTenantStatus, sweepVars
<1>10. CASE UNCHANGED outboxVars
  BY <1>10 DEF outboxVars
<1> QED
  BY <1>3, <1>4, <1>5, <1>6, <1>7, <1>8, <1>9, <1>10 DEF OutboxNext

\* Writing one row changes the abstract state of that event only.
LEMMA WriteMaps ==
  ASSUME OutboxTypeOK, NEW e \in Events, NEW new, row' = [row EXCEPT ![e] = new]
  PROVE  DState' = [DState EXCEPT ![e] = Abs(new.status)]
<1>1. \A f \in Events : row'[f] = IF f = e THEN new ELSE row[f]
  BY DEF OutboxTypeOK
<1>2. \A f \in Events : Abs(row'[f].status) = IF f = e THEN Abs(new.status) ELSE Abs(row[f].status)
  BY <1>1 DEF Abs
<1>3. DState' = [f \in Events |-> Abs(row'[f].status)]
  BY DEF DState, Abs
<1>4. DState = [f \in Events |-> Abs(row[f].status)]
  BY DEF DState
<1> HIDE DEF Abs, DState
<1> QED
  BY <1>2, <1>3, <1>4

\* Every step of the outbox is a step of the promise or invisible to it.
LEMMA StepRefines == OutboxInv /\ BatchIsStored /\ [OutboxNext]_outboxVars => [Delivery!Next]_(Delivery!dvars)
<1> SUFFICES ASSUME OutboxInv, BatchIsStored, [OutboxNext]_outboxVars PROVE Delivery!Next \/ UNCHANGED Delivery!dvars
  OBVIOUS
<1> USE OutboxAssumption DEF OutboxInv
<1>0. \A e \in Events : row[e] \in Row
  BY DEF OutboxTypeOK
<1>1. ASSUME NEW e \in Events, Enqueue(e) PROVE Delivery!Next
  <2>1. row[e].status = "absent" /\ UNCHANGED <<tries, acked, refused>>
    BY <1>1 DEF Enqueue, Stored, sinceQueued
  <2> DEFINE new == [Absent EXCEPT !.status = "pending", !.due = TRUE, !.born = Cardinality(Stored) + 1]
  <2>2. row' = [row EXCEPT ![e] = new] /\ new.status = "pending"
    BY <1>1 DEF Enqueue, Absent
  <2>3. DState[e] = "absent" /\ DState' = [DState EXCEPT ![e] = "open"]
    BY <2>1, <2>2, WriteMaps DEF DState, Abs, Open
  <2>4. Delivery!Publish(e)
    BY <2>1, <2>3 DEF Delivery!Publish, DState, Abs
  <2> QED
    BY <2>4 DEF Delivery!Next
<1>2. ASSUME NEW e \in Events, Requeue(e) PROVE Delivery!Next
  <2>1. row[e].status # "absent"
    BY <1>2 DEF Requeue, Stored
  <2> DEFINE new == [row[e] EXCEPT !.status = "pending", !.attempts = 0, !.due = TRUE,
                                   !.lease = Null, !.live = FALSE]
  <2>2. row' = [row EXCEPT ![e] = new] /\ new.status = "pending"
    BY <1>0, <1>2 DEF Requeue, Row
  <2>3. DState[e] # "absent" /\ DState' = [DState EXCEPT ![e] = "open"]
    BY <2>1, <2>2, WriteMaps DEF DState, Abs, Open
  <2>4. Delivery!Restart(e)
    BY <1>2, <2>3 DEF Requeue, Delivery!Restart, DState, Abs
  <2> QED
    BY <2>4 DEF Delivery!Next
<1>3. ASSUME UNCHANGED sinceQueued, \A e \in Events : row'[e].status = row[e].status
      PROVE  UNCHANGED Delivery!dvars
  BY <1>3 DEF Delivery!dvars, sinceQueued, DState
<1>4. ASSUME NEW e \in Events, BecomeDue(e) \/ LeaseLapse(e) PROVE UNCHANGED Delivery!dvars
  <2>1. PICK new : row' = [row EXCEPT ![e] = new] /\ new.status = row[e].status
    BY <1>0, <1>4 DEF BecomeDue, LeaseLapse, Row
  <2>2. \A f \in Events : row'[f].status = row[f].status
    BY <2>1 DEF OutboxTypeOK
  <2> QED
    BY <1>3, <1>4, <2>2 DEF BecomeDue, LeaseLapse
<1>5. ASSUME NEW w \in Workers, Claim(w) PROVE UNCHANGED Delivery!dvars
  <2>1. PICK b \in SUBSET Claimable :
          row' = [e \in Events |-> IF e \in b THEN [row[e] EXCEPT !.lease = w, !.live = TRUE] ELSE row[e]]
    BY <1>5 DEF Claim
  <2>2. \A f \in Events : row'[f].status = row[f].status
    BY <1>0, <2>1 DEF Row
  <2> QED
    BY <1>3, <1>5, <2>2 DEF Claim
<1>6. ASSUME NEW w \in Workers, NEW e \in Events, HoldBack(w, e) PROVE UNCHANGED Delivery!dvars
  <2>1. CASE UNCHANGED row
    BY <1>3, <1>6, <2>1 DEF HoldBack
  <2>2. CASE row[e].lease = w /\ \E new : row' = [row EXCEPT ![e] = new] /\ new.status = "pending"
    <3>1. row[e].status \in Open
      BY <1>6, <2>2 DEF HoldBack, Todo, LeaseIsCurrent
    <3>2. DState' = DState
      BY <2>2, <3>1, WriteMaps DEF DState, Abs, Open
    <3> QED
      BY <1>6, <3>2 DEF HoldBack, Delivery!dvars, sinceQueued
  <2>3. [row[e] EXCEPT !.status = "pending", !.due = FALSE, !.lease = Null, !.live = FALSE].status = "pending"
    BY <1>0 DEF Row
  <2> QED
    BY <1>6, <2>1, <2>2, <2>3 DEF HoldBack, UpdateUnderToken, UpdateLost
<1>7. ASSUME NEW w \in Workers, RecordOutcome(w) PROVE Delivery!Next \/ UNCHANGED Delivery!dvars
  <2> DEFINE e == doing[w]
             new == Outcome(w, e)
  <2>1. e \in Events /\ UNCHANGED <<tries, acked, refused>>
    BY <1>7 DEF RecordOutcome, OutboxTypeOK, sinceQueued
  <2>2. CASE UNCHANGED row
    BY <1>3, <1>7, <2>2 DEF RecordOutcome
  <2>3. CASE row[e].lease = w /\ row' = [row EXCEPT ![e] = new]
    <3>1. /\ batch[w][e] = row[e].attempts /\ row[e].status \in Open
          /\ row[e].attempts + 1 <= tries[e]
          /\ result[w] = "ok" => acked[e]
          /\ result[w] = "permanent" => refused[e]
      BY <1>7, <2>1, <2>3 DEF RecordOutcome, LeaseIsCurrent, AnswerIsCounted
    <3>2. new.status = IF result[w] = "ok" THEN "delivered"
                       ELSE IF row[e].attempts + 1 >= MaxAttempts \/ result[w] = "permanent"
                            THEN "failed" ELSE "retrying"
      <4>1. row[e] \in Row
        BY <1>0, <2>1
      <4> QED
        BY <3>1, <4>1 DEF Outcome, Settled, Row
    <3>3. row[e].attempts \in Nat /\ tries[e] \in Nat
      BY <1>0, <2>1 DEF OutboxTypeOK, Row
    <3> HIDE DEF e, new
    <3>4. DState[e] = "open" /\ DState' = [DState EXCEPT ![e] = Abs(new.status)]
      BY <2>1, <2>3, <3>1, WriteMaps DEF DState, Abs
    <3>5. CASE new.status = "delivered"
      <4>1. acked[e] /\ DState' = [DState EXCEPT ![e] = "delivered"]
        BY <3>1, <3>2, <3>4, <3>5 DEF Abs, Open
      <4>2. Delivery!Deliver(e)
        BY <2>1, <3>4, <4>1 DEF Delivery!Deliver, DState, Abs
      <4> QED
        BY <2>1, <4>2 DEF Delivery!Next
    <3>6. CASE new.status = "failed"
      <4>1. refused[e] \/ tries[e] >= MaxAttempts
        BY <3>1, <3>2, <3>3, <3>6
      <4>2. DState' = [DState EXCEPT ![e] = "failed"]
        BY <3>4, <3>6 DEF Abs, Open
      <4>3. Delivery!GiveUp(e)
        BY <2>1, <3>4, <4>1, <4>2 DEF Delivery!GiveUp, DState, Abs
      <4> QED
        BY <2>1, <4>3 DEF Delivery!Next
    <3>7. CASE new.status = "retrying"
      <4>1. DState' = DState
        BY <3>4, <3>7 DEF Abs, Open, DState
      <4> QED
        BY <2>1, <4>1 DEF Delivery!dvars
    <3> QED
      BY <3>2, <3>5, <3>6, <3>7
  <2> QED
    BY <1>7, <2>2, <2>3 DEF RecordOutcome, UpdateUnderToken, UpdateLost
<1>8. ASSUME NEW w \in Workers, NEW e \in Events, NEW r \in Results, Post(w, e, r) PROVE Delivery!Next
  <2>1. DState[e] # "absent" /\ UNCHANGED DState
    BY <1>8 DEF Post, Todo, BatchIsStored, DState, Abs
  <2>2. tries' = [tries EXCEPT ![e] = IF tries[e] > MaxAttempts THEN tries[e] ELSE tries[e] + 1]
    <3>1. tries[e] \in Nat
      BY DEF OutboxTypeOK
    <3>2. AtMost(tries[e] + 1, MaxAttempts + 1) = IF tries[e] > MaxAttempts THEN tries[e] ELSE tries[e] + 1
      BY <3>1 DEF AtMost, OutboxTypeOK
    <3> QED
      BY <1>8, <3>2 DEF Post
  <2>3. ASSUME r = "ok" PROVE Delivery!Try(e)
    <3>1. acked' = [acked EXCEPT ![e] = TRUE] /\ refused' = refused
      BY <1>8, <2>3 DEF Post, OutboxTypeOK
    <3> QED
      BY <2>1, <2>2, <3>1 DEF Delivery!Try
  <2>4. ASSUME r = "permanent" PROVE Delivery!Try(e)
    <3>1. acked' = acked /\ refused' = [refused EXCEPT ![e] = TRUE]
      BY <1>8, <2>4 DEF Post, OutboxTypeOK
    <3> QED
      BY <2>1, <2>2, <3>1 DEF Delivery!Try
  <2>5. ASSUME r = "retryable" PROVE Delivery!Try(e)
    <3>1. acked' = acked /\ refused' = refused
      BY <1>8, <2>5 DEF Post, OutboxTypeOK
    <3> QED
      BY <2>1, <2>2, <3>1 DEF Delivery!Try
  <2>6. Delivery!Try(e)
    BY <2>3, <2>4, <2>5 DEF Results
  <2> QED
    BY <2>6 DEF Delivery!Next
<1>9. ASSUME NEW w \in Workers, SweepCrash(w) PROVE UNCHANGED Delivery!dvars
  BY <1>3, <1>9 DEF SweepCrash
<1>10. CASE SetTenantStatus
  BY <1>3, <1>10 DEF SetTenantStatus
<1>11. CASE UNCHANGED outboxVars
  BY <1>3, <1>11 DEF outboxVars, sinceQueued
<1> QED
  BY <1>1, <1>2, <1>4, <1>5, <1>6, <1>7, <1>8, <1>9, <1>10, <1>11 DEF OutboxNext

\* The outbox implements EventDelivery: whatever the interleaving, crashes and
\* lapsed leases, producers see a queue that closes an event only when it may.
THEOREM OutboxImplementsDelivery == OutboxSpec => ImplementsDelivery
<1>1. OutboxInit => Delivery!Init
  BY DEF OutboxInit, Absent, Delivery!Init, DState, Abs, Open
<1>2. OutboxInit => BatchIsStored
  BY DEF OutboxInit, NoBatch, BatchIsStored
<1> QED
  BY <1>1, <1>2, StepRefines, NextBatchIsStored, OutboxInvariant, PTL
     DEF OutboxSpec, ImplementsDelivery, Delivery!Spec

\* Whatever a row says of its event (delivered, failed, so many attempts) was earned by POSTs that
\* were made since it was last queued.
THEOREM OutboxOutcomesAreEarned == OutboxSpec => []OutcomesAreEarned
BY OutboxDeliveredIsEarned, OutboxFailedIsEarned, OutboxAttemptsAreReal, PTL DEF OutcomesAreEarned

-----------------------------------------------------------------------------
(* One billable send per key, and answers that are true, for any number of *)
(* operations, concurrent requests, fingerprints and faults.               *)

Working(r) == /\ pc[r] \notin {"idle", "inspect", "reserve"}
              /\ pc[r] = "resolve" => key[r] \notin Email
Recording == {"record", "record_communication", "announce_created", "announce_sent", "complete"}

\* Nobody works on a key that is not reserved yet, and while it is only
\* reserved the request that reserved it is the only one that does.
Exclusive ==
  /\ \A r \in Requests : Working(r) =>
       key[r] \in Keys /\ op[key[r]].status # "absent"
  /\ \A r1, r2 \in Requests :
       Working(r1) /\ Working(r2) /\ key[r1] = key[r2] /\ op[key[r1]].status = "reserved" => r1 = r2

\* What a request knows at the step it has reached.
StepIsEarned(r) ==
  LET k == key[r] IN
    /\ pc[r] # "idle" => k \in Keys
    /\ pc[r] \in {"dispatch", "mark_sent", "mark_rejected"} => op[k].status = "reserved"
    /\ pc[r] = "dispatch" => calls[k] = 0 /\ accepted[k] = 0
    /\ pc[r] = "mark_rejected" => k \in Twilio /\ accepted[k] = 0
    /\ pc[r] \in {"mark_failed", "record_communication"} => k \in Email
    /\ pc[r] \in Recording \cup {"mark_sent"} => accepted[k] = 1
    /\ pc[r] \in Recording /\ k \in Twilio => op[k].status \in {"provider_sent", "completed"}
    /\ pc[r] = "resolve" /\ k \in Twilio =>
         accepted[k] = 1 /\ op[k].status \in {"provider_sent", "completed"}
    /\ pc[r] \in {"announce_created", "announce_sent", "complete"} => IsStored(k)
    /\ pc[r] \in {"announce_sent", "complete"} /\ k \in Twilio \ Legacy => events[k].created > 0
    /\ pc[r] = "complete" /\ k \notin Legacy => events[k].sent > 0

\* What the status of an operation says about the provider and the caller.
StatusIsEarned(k) ==
  /\ op[k].status = "absent" => calls[k] = 0 /\ accepted[k] = 0 /\ told[k] = {}
  /\ op[k].status \in {"provider_sent", "completed"} => accepted[k] = 1
  /\ op[k].status = "failed" /\ k \in Twilio => accepted[k] = 0
  /\ op[k].status = "completed" =>
       /\ IsStored(k)
       /\ k \notin Legacy => events[k].sent > 0 /\ (k \in Twilio => events[k].created > 0)
  /\ calls[k] <= 1 /\ accepted[k] <= calls[k]
  /\ "success" \in told[k] => accepted[k] = 1 /\ IsStored(k)
  /\ "rejected" \in told[k] /\ k \in Twilio => op[k].status = "failed"

IInv == /\ TypeOK
        /\ Exclusive
        /\ \A r \in Requests : StepIsEarned(r)
        /\ \A k \in Keys : StatusIsEarned(k)

Operation == [status : Statuses, hash : Bodies \cup {None}]
Announced == [created : 0..2, sent : 0..2]

\* Cap stays within its bound and never loses a first occurrence.
LEMMA CapBound == \A n \in 0..2 : Cap(n) \in 0..2 /\ Cap(n) > 0 /\ Cap(0) = 1
BY DEF Cap

\* markOutbound writes the status of one operation and nothing else of it.
LEMMA StatusWritten ==
  ASSUME op \in [Keys -> Operation], NEW k \in Keys, NEW s \in Statuses, SetStatus(k, s)
  PROVE  /\ op' \in [Keys -> Operation]
         /\ op'[k].status = s
         /\ \A j \in Keys \ {k} : op'[j] = op[j]
<1> DEFINE new == [op[k] EXCEPT !.status = s]
<1>1. op[k] \in Operation
  OBVIOUS
<1>2. new \in Operation /\ new.status = s
  BY <1>1 DEF Operation
<1>3. op' = [op EXCEPT ![k] = new]
  BY DEF SetStatus
<1> HIDE DEF new
<1> QED
  BY <1>2, <1>3

\* A step of request r moves no other request.
Frame(r) ==
  /\ pc' \in [Requests -> Steps]
  /\ key' \in [Requests -> Keys \cup {None}]
  /\ body' \in [Requests -> Bodies \cup {None}]
  /\ \A q \in Requests \ {r} : pc'[q] = pc[q] /\ key'[q] = key[q]

\* A request that goes on keeps its key; one that answers is gone; one that
\* throws does either, and goes on only in the e-mail handler.
LEMMA Moved ==
  ASSUME TypeOK, NEW r \in Requests, NEW step \in Steps, Goto(r, step)
  PROVE  Frame(r) /\ pc'[r] = step /\ key'[r] = key[r]
BY DEF Goto, TypeOK, Frame
LEMMA Gone ==
  ASSUME TypeOK, NEW r \in Requests, Answer(r)
  PROVE  Frame(r) /\ pc'[r] = "idle"
BY DEF Answer, TypeOK, Frame, Steps
LEMMA Thrown ==
  ASSUME TypeOK, NEW r \in Requests, Throw(r)
  PROVE  /\ Frame(r)
         /\ \/ pc'[r] = "idle"
            \/ pc'[r] = "mark_failed" /\ key'[r] = key[r] /\ key[r] \in Email
<1>1. "mark_failed" \in Steps
  BY DEF Steps
<1> QED
  BY <1>1, Moved, Gone DEF Throw

\* A step that leaves the operation, its rows and its history alone and ends
\* the request, or throws, preserves the invariant.
LEMMA LeavingPreserves ==
  ASSUME IInv, NEW r \in Requests, Answer(r) \/ (Working(r) /\ Throw(r)),
         faults' \in 0..MaxFaults, UNCHANGED <<op, recorded, events, accepts, history>>
  PROVE  IInv'
<1>1. /\ Frame(r)
      /\ \/ pc'[r] = "idle"
         \/ pc'[r] = "mark_failed" /\ key'[r] = key[r] /\ key[r] \in Email /\ Working(r)
  BY Thrown, Gone DEF IInv
<1>2. TypeOK'
  BY <1>1 DEF IInv, TypeOK, history, Frame
<1>3. Exclusive'
  BY <1>1 DEF IInv, Exclusive, Working, Frame
<1>4. ASSUME NEW q \in Requests PROVE StepIsEarned(q)'
  <2>1. CASE q = r
    <3>1. Email \subseteq Keys
      BY OutboundAssumption
    <3> QED
      BY <1>1, <2>1, <3>1 DEF StepIsEarned, Recording
  <2>2. CASE q # r
    <3>1. pc'[q] = pc[q] /\ key'[q] = key[q] /\ StepIsEarned(q)
      BY <1>1, <2>2 DEF IInv, Frame
    <3> QED
      BY <3>1 DEF StepIsEarned, IsStored, history
  <2> QED
    BY <2>1, <2>2
<1>5. ASSUME NEW k \in Keys PROVE StatusIsEarned(k)'
  BY DEF IInv, StatusIsEarned, IsStored, history
<1> QED
  BY <1>2, <1>3, <1>4, <1>5 DEF IInv

\* A step touches one operation only.
Only(k) ==
  \A j \in Keys \ {k} : /\ op'[j] = op[j] /\ recorded'[j] = recorded[j] /\ events'[j] = events[j]
                        /\ calls'[j] = calls[j] /\ accepted'[j] = accepted[j] /\ told'[j] = told[j]

\* Once the operation is past "reserved", it loses nothing others rely on.
Keeps(k) ==
  /\ op'[k].status # "absent"
  /\ op'[k].status = "reserved" => op[k].status = "reserved"
  /\ op[k].status # "reserved" =>
       /\ accepted'[k] = accepted[k]
       /\ k \in Twilio /\ op[k].status \in {"provider_sent", "completed"} =>
            op'[k].status \in {"provider_sent", "completed"}
       /\ IsStored(k) => IsStored(k)'
       /\ events[k].created > 0 => events'[k].created > 0
       /\ events[k].sent > 0 => events'[k].sent > 0

\* A step of a request that works on its operation, or finds it past
\* "reserved", preserves the invariant if it does for the request itself and
\* its operation.
LEMMA WorkPreserves ==
  ASSUME IInv, TypeOK', NEW r \in Requests, Frame(r), NEW k \in Keys, k = key[r],
         Working(r) \/ op[k].status # "reserved", pc'[r] = "idle" \/ key'[r] = k,
         Only(k), Keeps(k), StepIsEarned(r)', StatusIsEarned(k)'
  PROVE  IInv'
<1>2. Exclusive'
  <2>1. ASSUME NEW q \in Requests, Working(q)'
        PROVE  key'[q] \in Keys /\ op'[key'[q]].status # "absent"
    <3>1. CASE key'[q] = k
      BY <3>1 DEF Keeps
    <3>2. CASE key'[q] # k
      <4>1. Working(q) /\ key'[q] = key[q]
        BY <2>1, <3>2 DEF Working, Frame
      <4>2. key[q] \in Keys \ {k} /\ op[key[q]].status # "absent"
        BY <3>2, <4>1 DEF IInv, Exclusive
      <4> QED
        BY <4>1, <4>2 DEF Only
    <3> QED
      BY <3>1, <3>2
  <2>2. ASSUME NEW q1 \in Requests, NEW q2 \in Requests, Working(q1)', Working(q2)',
               key'[q1] = key'[q2], op'[key'[q1]].status = "reserved"
        PROVE  q1 = q2
    <3>1. CASE key'[q1] = k
      <4>1. op[k].status = "reserved" /\ Working(r)
        BY <2>2, <3>1 DEF Keeps
      <4>2. Working(q1) /\ key[q1] = k /\ Working(q2) /\ key[q2] = k
        BY <2>2, <3>1, <4>1 DEF Working, Frame
      <4> QED
        BY <4>1, <4>2 DEF IInv, Exclusive
    <3>2. CASE key'[q1] # k
      <4>1. /\ Working(q1) /\ key'[q1] = key[q1]
            /\ Working(q2) /\ key'[q2] = key[q2]
        BY <2>2, <3>2 DEF Working, Frame
      <4>2. key[q1] \in Keys \ {k}
        BY <3>2, <4>1 DEF IInv, Exclusive
      <4>3. op[key[q1]].status = "reserved" /\ key[q1] = key[q2]
        BY <2>2, <4>1, <4>2 DEF Only
      <4> QED
        BY <4>1, <4>3 DEF IInv, Exclusive
    <3> QED
      BY <3>1, <3>2
  <2>3. \A q \in Requests : Working(q)' => key'[q] \in Keys /\ op'[key'[q]].status # "absent"
    BY <2>1
  <2>4. \A q1, q2 \in Requests :
          Working(q1)' /\ Working(q2)' /\ key'[q1] = key'[q2] /\ op'[key'[q1]].status = "reserved"
            => q1 = q2
    BY <2>2
  <2> QED
    BY <2>3, <2>4 DEF Exclusive
<1>3. ASSUME NEW q \in Requests, q # r PROVE StepIsEarned(q)'
  <2>1. pc'[q] = pc[q] /\ key'[q] = key[q] /\ StepIsEarned(q)
    BY <1>3 DEF IInv, Frame
  <2>2. CASE key[q] # key[r]
    <3>1. CASE pc[q] = "idle"
      BY <2>1, <3>1 DEF StepIsEarned, Recording
    <3>2. CASE pc[q] # "idle"
      <4>1. key[q] \in Keys \ {key[r]}
        BY <2>1, <2>2, <3>2 DEF StepIsEarned
      <4> QED
        BY <2>1, <4>1 DEF StepIsEarned, IsStored, Only
    <3> QED
      BY <3>1, <3>2
  <2>3. CASE key[q] = key[r]
    <3>1. CASE ~Working(q)
      BY <2>1, <3>1 DEF StepIsEarned, Working, Recording, Twilio
    <3>2. CASE Working(q)
      <4>1. op[key[q]].status # "reserved"
        BY <1>3, <2>3, <3>2 DEF IInv, Exclusive
      <4> QED
        BY <2>1, <2>3, <4>1 DEF StepIsEarned, Keeps
    <3> QED
      BY <3>1, <3>2
  <2> QED
    BY <2>2, <2>3
<1>4. ASSUME NEW j \in Keys, j # k PROVE StatusIsEarned(j)'
  BY <1>4 DEF IInv, StatusIsEarned, IsStored, Only
<1> QED
  BY <1>2, <1>3, <1>4 DEF IInv

\* A step of a request that waits, and changes nothing but its own place,
\* preserves the invariant.
LEMMA WaitingPreserves ==
  ASSUME IInv, NEW r \in Requests, Frame(r), key'[r] \in Keys,
         pc'[r] \in {"inspect", "reserve"} \/ (pc'[r] = "resolve" /\ key'[r] \in Email),
         faults' \in 0..MaxFaults, UNCHANGED <<op, recorded, events, accepts, history>>
  PROVE  IInv'
<1>1. TypeOK'
  BY DEF IInv, TypeOK, history, Frame
<1>2. Exclusive'
  BY DEF IInv, Exclusive, Working, Frame
<1>3. ASSUME NEW q \in Requests PROVE StepIsEarned(q)'
  <2>1. CASE q = r
    BY <2>1 DEF StepIsEarned, Recording, Twilio
  <2>2. CASE q # r
    <3>1. pc'[q] = pc[q] /\ key'[q] = key[q] /\ StepIsEarned(q)
      BY <2>2 DEF IInv, Frame
    <3> QED
      BY <3>1 DEF StepIsEarned, IsStored, history
  <2> QED
    BY <2>1, <2>2
<1>4. ASSUME NEW k \in Keys PROVE StatusIsEarned(k)'
  BY DEF IInv, StatusIsEarned, IsStored, history
<1> QED
  BY <1>1, <1>2, <1>3, <1>4 DEF IInv

\* reserve_outbound_operation: the request that inserts the row has it alone.
LEMMA ClaimPreserves ==
  ASSUME IInv, NEW r \in Requests, NEW k \in Keys, k = key[r], pc[r] = "reserve",
         op[k].status = "absent", Goto(r, "dispatch"),
         op' = [op EXCEPT ![k] = [status |-> "reserved", hash |-> body[r]]],
         UNCHANGED <<recorded, events, accepts, faults, history>>
  PROVE  IInv'
<1>1. Frame(r) /\ pc'[r] = "dispatch" /\ key'[r] = k
  BY Moved DEF IInv, Steps
<1>2. TypeOK'
  <2>1. op' \in [Keys -> Operation]
    BY DEF IInv, TypeOK, Operation, Statuses
  <2> QED
    BY <1>1, <2>1 DEF IInv, TypeOK, Operation, history, Frame
<1>3. op'[k].status = "reserved" /\ \A j \in Keys \ {k} : op'[j] = op[j]
  BY DEF IInv, TypeOK
<1>4. \A q \in Requests : Working(q) => key[q] \in Keys \ {k}
  BY DEF IInv, Exclusive
<1>5. Exclusive'
  <2>1. \A q \in Requests \ {r} : Working(q)' =>
          Working(q) /\ key'[q] = key[q] /\ key[q] \in Keys \ {k} /\ op'[key[q]] = op[key[q]]
    BY <1>1, <1>3, <1>4 DEF Working, Frame
  <2>2. \A q \in Requests : Working(q)' => key'[q] \in Keys /\ op'[key'[q]].status # "absent"
    BY <1>1, <1>3, <2>1 DEF IInv, Exclusive
  <2>3. \A q1, q2 \in Requests :
          Working(q1)' /\ Working(q2)' /\ key'[q1] = key'[q2] /\ op'[key'[q1]].status = "reserved"
            => q1 = q2
    BY <1>1, <1>3, <2>1 DEF IInv, Exclusive
  <2> QED
    BY <2>2, <2>3 DEF Exclusive
<1>6. ASSUME NEW q \in Requests PROVE StepIsEarned(q)'
  <2>1. CASE q = r
    BY <1>1, <1>3, <2>1 DEF IInv, StatusIsEarned, StepIsEarned, Recording, history
  <2>2. CASE q # r
    <3>1. pc'[q] = pc[q] /\ key'[q] = key[q] /\ StepIsEarned(q)
      BY <1>1, <2>2 DEF IInv, Frame
    <3>2. CASE Working(q)
      <4>1. op'[key[q]] = op[key[q]]
        BY <1>3, <1>4, <3>2
      <4> QED
        BY <3>1, <4>1 DEF StepIsEarned, IsStored, history
    <3>3. CASE ~Working(q)
      BY <3>1, <3>3 DEF StepIsEarned, Working, Recording, Twilio
    <3> QED
      BY <3>2, <3>3
  <2> QED
    BY <2>1, <2>2
<1>7. ASSUME NEW j \in Keys PROVE StatusIsEarned(j)'
  <2>1. StatusIsEarned(j)
    BY DEF IInv
  <2>2. CASE j = k
    <3>1. told[k] = {} /\ calls[k] = 0 /\ accepted[k] = 0
      BY <2>1, <2>2 DEF StatusIsEarned
    <3> QED
      BY <1>3, <2>2, <3>1 DEF StatusIsEarned, history
  <2>3. CASE j # k
    <3>1. op'[j] = op[j]
      BY <1>3, <2>3
    <3> QED
      BY <2>1, <3>1 DEF StatusIsEarned, IsStored, history
  <2> QED
    BY <2>2, <2>3
<1> QED
  BY <1>2, <1>5, <1>6, <1>7 DEF IInv

\* An answer that only tells the caller what the status already says.
LEMMA TellPreserves ==
  ASSUME IInv, NEW r \in Requests, NEW k \in Keys, k = key[r], Answer(r),
         NEW what \in {"success", "rejected"}, Tell(k, what),
         op[k].status = IF what = "success" THEN "completed" ELSE "failed",
         UNCHANGED <<op, recorded, events, accepts, faults, calls, accepted>>
  PROVE  IInv'
<1>1. Frame(r) /\ pc'[r] = "idle"
  BY Gone DEF IInv
<1>2. TypeOK'
  BY <1>1 DEF IInv, TypeOK, Frame, Tell
<1>3. told'[k] = told[k] \cup {what} /\ \A j \in Keys \ {k} : told'[j] = told[j]
  BY DEF IInv, TypeOK, Tell
<1>4. Only(k) /\ Keeps(k)
  BY <1>3 DEF Only, Keeps, IsStored
<1>5. StepIsEarned(r)'
  BY <1>1 DEF StepIsEarned, Recording
<1>6. StatusIsEarned(k)'
  <2>1. StatusIsEarned(k)
    BY DEF IInv
  <2> QED
    BY <1>3, <2>1 DEF StatusIsEarned, IsStored
<1> QED
  BY <1>1, <1>2, <1>4, <1>5, <1>6, WorkPreserves

\* The reservation step, with every way an existing operation is answered.
LEMMA ReservePreserves ==
  ASSUME IInv, NEW r \in Requests, NEW k \in Keys, k = key[r], Reserve(r)
  PROVE  IInv'
<1>1. StepIsEarned(r) /\ StatusIsEarned(k) /\ TypeOK
  BY DEF IInv
<1>2. CASE /\ op[k].status = "absent" /\ Goto(r, "dispatch")
           /\ op' = [op EXCEPT ![k] = [status |-> "reserved", hash |-> body[r]]]
           /\ UNCHANGED <<faults, told>>
  BY <1>1, <1>2, ClaimPreserves DEF Reserve, history
<1>3. CASE Answer(r) /\ faults' \in 0..MaxFaults /\ UNCHANGED <<op, told>>
  BY <1>1, <1>3, LeavingPreserves DEF Reserve, history
<1>4. CASE /\ op[k].status # "absent" /\ AfterReserve(r, op[k].status)
           /\ UNCHANGED <<op, faults>>
  <2>0. faults' \in 0..MaxFaults
    BY <1>1, <1>4 DEF TypeOK
  <2>1. CASE op[k].status = "completed"
    BY <1>1, <1>4, <2>1, TellPreserves DEF Reserve, AfterReserve
  <2>2. CASE op[k].status = "reserved"
    BY <1>1, <1>4, <2>0, <2>2, LeavingPreserves DEF Reserve, AfterReserve, history
  <2>3. CASE op[k].status = "failed" /\ k \notin Email
    BY <1>1, <1>4, <2>3, TellPreserves DEF Reserve, AfterReserve
  <2>4. ASSUME NEW step \in {"resolve", "record", "mark_failed"}, Goto(r, step), UNCHANGED told,
               step = "resolve" => op[k].status = "provider_sent" /\ k \notin Email,
               step = "record" => op[k].status = "provider_sent",
               step = "mark_failed" => op[k].status = "failed" /\ k \in Email
        PROVE  IInv'
    <3>1. Frame(r) /\ pc'[r] = step /\ key'[r] = k
      BY <1>1, <2>4, Moved DEF Steps
    <3>2. UNCHANGED <<op, recorded, events, accepts, faults, calls, accepted, told>>
      BY <1>4, <2>4 DEF Reserve
    <3>3. TypeOK'
      BY <1>1, <3>1, <3>2 DEF TypeOK, Frame
    <3>4. Only(k) /\ Keeps(k) /\ op[k].status # "reserved"
      BY <1>4, <2>4, <3>2 DEF Only, Keeps, IsStored
    <3>5. StepIsEarned(r)'
      BY <1>1, <2>4, <3>1, <3>2 DEF StepIsEarned, StatusIsEarned, Recording
    <3>6. StatusIsEarned(k)'
      BY <1>1, <3>2 DEF StatusIsEarned, IsStored
    <3> QED
      BY <3>1, <3>3, <3>4, <3>5, <3>6, WorkPreserves
  <2>5. CASE op[k].status = "provider_sent"
    BY <1>4, <2>4, <2>5 DEF AfterReserve, GotoStoring
  <2>6. CASE op[k].status = "failed" /\ k \in Email
    BY <1>4, <2>4, <2>6 DEF AfterReserve
  <2>7. op[k].status \in Statuses
    BY <1>1 DEF TypeOK
  <2> QED
    BY <1>4, <2>1, <2>2, <2>3, <2>5, <2>6, <2>7 DEF Statuses
<1>5. Fault => faults' \in 0..MaxFaults
  BY <1>1, OutboundAssumption DEF Fault, TypeOK
<1>6. UNCHANGED faults => faults' \in 0..MaxFaults
  BY <1>1 DEF TypeOK
<1> QED
  BY <1>2, <1>3, <1>4, <1>5, <1>6 DEF Reserve

\* A bounded fault keeps the count of faults in range.
LEMMA FaultTyped == ASSUME TypeOK, Fault \/ UNCHANGED faults PROVE faults' \in 0..MaxFaults
BY OutboundAssumption DEF Fault, TypeOK

\* The provider call: one that is accepted, or may have been, is the first.
LEMMA DispatchPreserves ==
  ASSUME IInv, NEW r \in Requests, NEW k \in Keys, k = key[r], Dispatch(r)
  PROVE  IInv'
<1>1. /\ TypeOK /\ StepIsEarned(r) /\ StatusIsEarned(k) /\ Working(r)
      /\ op[k].status = "reserved" /\ calls[k] = 0 /\ accepted[k] = 0
  BY DEF IInv, Dispatch, StepIsEarned, Working
<1>2. calls'[k] = 1 /\ calls' \in [Keys -> 0..2] /\ \A j \in Keys \ {k} : calls'[j] = calls[j]
  BY <1>1, CapBound DEF Dispatch, TypeOK
<1>3. /\ accepted' \in [Keys -> 0..2] /\ accepted'[k] \in {0, 1}
      /\ \A j \in Keys \ {k} : accepted'[j] = accepted[j]
  BY <1>1, CapBound DEF Dispatch, TypeOK
<1>4. /\ Frame(r)
      /\ \/ pc'[r] = "idle"
         \/ pc'[r] = "mark_failed" /\ key'[r] = k /\ k \in Email
         \/ pc'[r] = "mark_sent" /\ key'[r] = k /\ accepted'[k] = 1
         \/ pc'[r] = "mark_rejected" /\ key'[r] = k /\ k \in Twilio /\ accepted'[k] = 0
  <2>1. CASE Throw(r)
    BY <1>1, <2>1, Thrown
  <2>2. CASE Goto(r, "mark_sent") /\ accepted' = [accepted EXCEPT ![k] = Cap(@)]
    <3>1. accepted'[k] = 1
      BY <1>1, <2>2, CapBound DEF TypeOK
    <3> QED
      BY <1>1, <2>2, <3>1, Moved DEF Steps
  <2>3. CASE Goto(r, "mark_rejected") /\ k \notin Email /\ UNCHANGED accepted
    BY <1>1, <2>3, Moved DEF Steps, Twilio
  <2> QED
    BY <2>1, <2>2, <2>3 DEF Dispatch
<1>5. TypeOK'
  BY <1>1, <1>2, <1>3, <1>4 DEF TypeOK, Dispatch, Frame
<1>6. Only(k) /\ Keeps(k)
  BY <1>1, <1>2, <1>3 DEF Only, Keeps, Dispatch
<1>7. StepIsEarned(r)'
  BY <1>1, <1>4 DEF StepIsEarned, Recording, Dispatch
<1>8. StatusIsEarned(k)'
  BY <1>1, <1>2, <1>3 DEF StatusIsEarned, Dispatch
<1> QED
  BY <1>1, <1>4, <1>5, <1>6, <1>7, <1>8, WorkPreserves

\* markOutbound after the provider's answer and in the e-mail catch block.
LEMMA MarkPreserves ==
  ASSUME IInv, NEW r \in Requests, NEW k \in Keys, k = key[r],
         MarkSent(r) \/ MarkRejected(r) \/ MarkFailed(r)
  PROVE  IInv'
<1>1. /\ TypeOK /\ StepIsEarned(r) /\ StatusIsEarned(k) /\ Working(r) /\ op \in [Keys -> Operation]
  BY DEF IInv, MarkSent, MarkRejected, MarkFailed, Working, TypeOK, Operation
<1>2. CASE /\ (MarkSent(r) /\ Throw(r)) \/ ((MarkRejected(r) \/ MarkFailed(r)) /\ Answer(r))
           /\ UNCHANGED <<op, told>>
  BY <1>1, <1>2, FaultTyped, LeavingPreserves DEF MarkSent, MarkRejected, MarkFailed, history
<1>3. CASE MarkSent(r) /\ SetStatus(k, "provider_sent") /\ GotoStoring(r) /\ UNCHANGED faults
  <2>1. /\ op' \in [Keys -> Operation] /\ op'[k].status = "provider_sent"
        /\ \A j \in Keys \ {k} : op'[j] = op[j]
    BY <1>1, <1>3, StatusWritten DEF Statuses
  <2>2. Frame(r) /\ pc'[r] \in {"resolve", "record"} /\ key'[r] = k
    BY <1>1, <1>3, Moved DEF Steps, GotoStoring
  <2>3. pc[r] = "mark_sent" /\ UNCHANGED <<recorded, events, accepts, faults, calls, accepted, told>>
    BY <1>3 DEF MarkSent, history
  <2>4. TypeOK'
    BY <1>1, <2>1, <2>2, <2>3 DEF TypeOK, Operation, Frame
  <2>5. op[k].status = "reserved" /\ accepted[k] = 1
    BY <1>1, <2>3 DEF StepIsEarned
  <2>6. Only(k) /\ Keeps(k)
    BY <2>1, <2>3, <2>5 DEF Only, Keeps
  <2>7. StepIsEarned(r)'
    BY <2>1, <2>2, <2>3, <2>5 DEF StepIsEarned, Recording
  <2>8. StatusIsEarned(k)'
    BY <1>1, <2>1, <2>3, <2>5 DEF StatusIsEarned, IsStored
  <2> QED
    BY <1>1, <2>2, <2>4, <2>6, <2>7, <2>8, WorkPreserves
<1>4. CASE /\ MarkRejected(r) \/ MarkFailed(r)
           /\ SetStatus(k, "failed") /\ UNCHANGED faults
           /\ MarkRejected(r) => Tell(k, "rejected")
           /\ MarkFailed(r) => UNCHANGED told
  <2>1. /\ op' \in [Keys -> Operation] /\ op'[k].status = "failed"
        /\ \A j \in Keys \ {k} : op'[j] = op[j]
    BY <1>1, <1>4, StatusWritten DEF Statuses
  <2>2. Frame(r) /\ pc'[r] = "idle"
    BY <1>1, <1>4, Gone DEF MarkRejected, MarkFailed
  <2>3. /\ UNCHANGED <<recorded, events, accepts, faults, calls, accepted>>
        /\ \/ k \in Twilio /\ accepted[k] = 0 /\ op[k].status = "reserved"
           \/ k \in Email /\ told' = told
        /\ told' \in [Keys -> SUBSET {"success", "rejected"}]
        /\ told'[k] \in {told[k], told[k] \cup {"rejected"}}
        /\ \A j \in Keys \ {k} : told'[j] = told[j]
    <3>1. CASE MarkRejected(r)
      BY <1>1, <1>4, <3>1 DEF MarkRejected, StepIsEarned, Tell, TypeOK
    <3>2. CASE MarkFailed(r)
      BY <1>1, <1>4, <3>2 DEF MarkFailed, StepIsEarned, TypeOK, history
    <3> QED
      BY <1>4, <3>1, <3>2
  <2>4. k \in Email => k \notin Twilio
    BY DEF Twilio
  <2>5. TypeOK'
    BY <1>1, <2>1, <2>2, <2>3 DEF TypeOK, Operation, Frame
  <2>6. Only(k) /\ Keeps(k)
    BY <2>1, <2>3, <2>4 DEF Only, Keeps, IsStored
  <2>7. StepIsEarned(r)'
    BY <2>2 DEF StepIsEarned, Recording
  <2>8. StatusIsEarned(k)'
    BY <1>1, <2>1, <2>3, <2>4 DEF StatusIsEarned, IsStored
  <2> QED
    BY <1>1, <2>2, <2>5, <2>6, <2>7, <2>8, WorkPreserves
<1> QED
  BY <1>2, <1>3, <1>4 DEF MarkSent, MarkRejected, MarkFailed, history

\* The resolution of the thread: before the reservation of an e-mail, after the
\* provider's answer of a call or an SMS.
LEMMA ResolvePreserves ==
  ASSUME IInv, NEW r \in Requests, NEW k \in Keys, k = key[r], Resolve(r)
  PROVE  IInv'
<1>1. TypeOK /\ StepIsEarned(r) /\ StatusIsEarned(k)
  BY DEF IInv
<1>2. /\ pc[r] = "resolve" /\ faults' \in 0..MaxFaults
      /\ UNCHANGED <<op, recorded, events, accepts, history>>
  BY <1>1, FaultTyped DEF Resolve
<1>3. CASE Answer(r)
  BY <1>2, <1>3, LeavingPreserves
<1>4. CASE k \in Email /\ Goto(r, "reserve")
  <2>1. Frame(r) /\ pc'[r] = "reserve" /\ key'[r] \in Keys
    BY <1>1, <1>4, Moved DEF Steps
  <2> QED
    BY <1>2, <2>1, WaitingPreserves
<1>5. CASE k \notin Email /\ Goto(r, "record")
  <2>1. Frame(r) /\ pc'[r] = "record" /\ key'[r] = k
    BY <1>1, <1>5, Moved DEF Steps
  <2>2. TypeOK'
    BY <1>1, <1>2, <2>1 DEF TypeOK, Frame, history
  <2>3. Working(r) /\ op[k].status \in {"provider_sent", "completed"} /\ accepted[k] = 1
    BY <1>1, <1>2, <1>5 DEF Working, StepIsEarned, Twilio
  <2>4. Only(k) /\ Keeps(k)
    BY <1>2, <2>3 DEF Only, Keeps, IsStored, history
  <2>5. StepIsEarned(r)'
    BY <1>2, <2>1, <2>3 DEF StepIsEarned, Recording, history
  <2>6. StatusIsEarned(k)'
    BY <1>1, <1>2 DEF StatusIsEarned, IsStored, history
  <2> QED
    BY <2>1, <2>2, <2>3, <2>4, <2>5, <2>6, WorkPreserves
<1> QED
  BY <1>3, <1>4, <1>5 DEF Resolve

\* Rows and events: a step after the provider's answer only adds to them.
LEMMA RecordPreserves ==
  ASSUME IInv, NEW r \in Requests, NEW k \in Keys, k = key[r],
         NEW step \in {"record_communication", "announce_created", "announce_sent", "complete"},
         pc[r] \in Recording, Goto(r, step) \/ Throw(r), faults' \in 0..MaxFaults,
         UNCHANGED <<op, accepts, history>>,
         recorded' \in [Keys -> {"nothing", "message", "communication"}],
         events' \in [Keys -> Announced],
         \A j \in Keys \ {k} : recorded'[j] = recorded[j] /\ events'[j] = events[j],
         IsStored(k) => IsStored(k)',
         events[k].created > 0 => events'[k].created > 0,
         events[k].sent > 0 => events'[k].sent > 0,
         step = "record_communication" => k \in Email,
         step # "record_communication" /\ Goto(r, step) => IsStored(k)',
         step \in {"announce_sent", "complete"} /\ Goto(r, step) /\ k \in Twilio \ Legacy =>
            events'[k].created > 0,
         step = "complete" /\ Goto(r, step) /\ k \notin Legacy => events'[k].sent > 0
  PROVE  IInv'
<1>1. /\ TypeOK /\ StepIsEarned(r) /\ StatusIsEarned(k) /\ Working(r) /\ accepted[k] = 1
      /\ k \in Twilio => op[k].status \in {"provider_sent", "completed"}
  BY DEF IInv, Working, StepIsEarned, Recording
<1>2. /\ Frame(r)
      /\ \/ pc'[r] = "idle"
         \/ pc'[r] = "mark_failed" /\ key'[r] = k /\ k \in Email
         \/ pc'[r] = step /\ key'[r] = k /\ Goto(r, step)
  BY <1>1, Moved, Thrown DEF Steps
<1>3. TypeOK'
  BY <1>1, <1>2 DEF TypeOK, Frame, history, Announced
<1>4. op[k].status # "absent" /\ k \in Keys
  BY <1>1 DEF IInv, Exclusive
<1>5. Only(k) /\ Keeps(k)
  BY <1>4 DEF Only, Keeps, history
<1>6. StepIsEarned(r)'
  BY <1>1, <1>2 DEF StepIsEarned, Recording, history
<1>7. StatusIsEarned(k)'
  BY <1>1 DEF StatusIsEarned, history
<1> QED
  BY <1>1, <1>2, <1>3, <1>5, <1>6, <1>7, WorkPreserves

\* The final mark, which answers the caller.
LEMMA CompletePreserves ==
  ASSUME IInv, NEW r \in Requests, NEW k \in Keys, k = key[r], Complete(r)
  PROVE  IInv'
<1>1. /\ TypeOK /\ StepIsEarned(r) /\ StatusIsEarned(k) /\ Working(r) /\ op \in [Keys -> Operation]
      /\ op[k].status # "absent"
  BY DEF IInv, Complete, Working, TypeOK, Operation, Exclusive
<1>2. CASE Throw(r) /\ Fault /\ UNCHANGED <<op, told>>
  BY <1>1, <1>2, FaultTyped, LeavingPreserves DEF Complete, history
<1>3. CASE SetStatus(k, "completed") /\ Tell(k, "success") /\ Answer(r) /\ UNCHANGED faults
  <2>1. /\ op' \in [Keys -> Operation] /\ op'[k].status = "completed"
        /\ \A j \in Keys \ {k} : op'[j] = op[j]
    BY <1>1, <1>3, StatusWritten DEF Statuses
  <2>2. Frame(r) /\ pc'[r] = "idle"
    BY <1>1, <1>3, Gone
  <2>3. /\ UNCHANGED <<recorded, events, accepts, faults, calls, accepted>>
        /\ told' \in [Keys -> SUBSET {"success", "rejected"}]
        /\ told'[k] = told[k] \cup {"success"}
        /\ \A j \in Keys \ {k} : told'[j] = told[j]
    BY <1>1, <1>3 DEF Complete, Tell, TypeOK
  <2>4. /\ accepted[k] = 1 /\ IsStored(k)
        /\ k \notin Legacy => events[k].sent > 0 /\ (k \in Twilio => events[k].created > 0)
        /\ k \in Twilio => op[k].status \in {"provider_sent", "completed"}
    BY <1>1 DEF Complete, StepIsEarned, Recording
  <2>5. TypeOK'
    BY <1>1, <2>1, <2>2, <2>3 DEF TypeOK, Operation, Frame
  <2>6. Only(k) /\ Keeps(k)
    BY <2>1, <2>3 DEF Only, Keeps, IsStored
  <2>7. StepIsEarned(r)'
    BY <2>2 DEF StepIsEarned, Recording
  <2>8. StatusIsEarned(k)'
    BY <1>1, <2>1, <2>3, <2>4 DEF StatusIsEarned, IsStored
  <2> QED
    BY <1>1, <2>2, <2>5, <2>6, <2>7, <2>8, WorkPreserves
<1> QED
  BY <1>2, <1>3 DEF Complete

\* The steps that store the message and announce it preserve the invariant.
LEMMA StoringPreserves ==
  ASSUME IInv, NEW r \in Requests, NEW k \in Keys, k = key[r],
         Record(r) \/ RecordCommunication(r) \/ AnnounceCreated(r) \/ AnnounceSent(r)
  PROVE  IInv'
<1>1. /\ TypeOK /\ StepIsEarned(r) /\ Working(r) /\ pc[r] \in Recording
      /\ faults' \in 0..MaxFaults /\ UNCHANGED <<op, accepts, history>>
  BY FaultTyped DEF IInv, Record, RecordSms, RecordEmail, RecordCall, RecordCommunication,
                 AnnounceCreated, AnnounceSent, Working, Recording
<1>2. recorded \in [Keys -> {"nothing", "message", "communication"}] /\ events \in [Keys -> Announced]
  BY <1>1 DEF TypeOK, Announced
<1>3. CASE Throw(r) /\ UNCHANGED <<recorded, events>>
  BY <1>1, <1>3, LeavingPreserves
<1>4. CASE Record(r) /\ ~(Throw(r) /\ UNCHANGED <<recorded, events>>)
  <2> DEFINE step == IF k \in Email THEN "record_communication"
                     ELSE IF k \in Legacy THEN "complete" ELSE "announce_created"
  <2>1. PICK what \in {"nothing", "message", "communication"} :
          /\ recorded' = [recorded EXCEPT ![k] = what] /\ UNCHANGED events
          /\ Goto(r, step) \/ Throw(r)
          /\ k \in Email => recorded[k] = "nothing"
          /\ recorded[k] = "communication" => what = "communication"
          /\ recorded[k] = "message" => what # "nothing"
          /\ Goto(r, step) /\ k \notin Email =>
               what = "communication" \/ (what = "message" /\ k \in Twilio \ Sms)
    <3>1. CASE RecordSms(r)
      BY <1>1, <1>2, <1>4, <3>1 DEF Record, RecordSms, AfterRecord
    <3>2. CASE RecordEmail(r)
      BY <1>1, <1>2, <1>4, <3>2 DEF Record, RecordEmail, AfterRecord
    <3>3. CASE RecordCall(r)
      <4>1. recorded[k] \in {"nothing", "message", "communication"} /\ k \notin Email
        BY <1>2, <3>3 DEF RecordCall, Twilio
      <4>2. UNCHANGED events /\ (Goto(r, step) \/ Throw(r)) /\ k \in Twilio \ Sms
        BY <1>4, <3>3 DEF Record, RecordCall, AfterRecord
      <4>3. CASE recorded' = [recorded EXCEPT ![k] = "communication"]
        BY <4>1, <4>2, <4>3
      <4>4. CASE recorded' = [recorded EXCEPT ![k] = IF @ = "nothing" THEN "message" ELSE @]
        <5>1. CASE recorded[k] = "nothing"
          BY <4>1, <4>2, <4>4, <5>1
        <5>2. CASE recorded[k] # "nothing"
          BY <4>1, <4>2, <4>4, <5>2
        <5> QED
          BY <5>1, <5>2
      <4> QED
        BY <3>3, <4>3, <4>4 DEF RecordCall
    <3>4. CASE \E what \in {"message", "communication"} :
                 /\ Throw(r) /\ recorded[k] = "nothing"
                 /\ recorded' = [recorded EXCEPT ![k] = what]
                 /\ k \in Sms => what = "communication"
      <4>1. PICK what \in {"message", "communication"} :
              /\ Throw(r) /\ recorded[k] = "nothing"
              /\ recorded' = [recorded EXCEPT ![k] = what]
              /\ k \in Sms => what = "communication"
        BY <3>4
      <4>2. UNCHANGED events /\ (k \in Keys \ Email => k \in Twilio)
        BY <1>4 DEF Record, Twilio
      <4> QED
        BY <4>1, <4>2
    <3>5. Sms \cap Email = {}
      BY OutboundAssumption
    <3>6. CASE /\ Throw(r) /\ recorded[k] = "nothing" /\ (k \in Sms => accepts[k])
               /\ recorded' = [recorded EXCEPT ![k] =
                    IF k \in Email \/ ~accepts[k] THEN "message" ELSE "communication"]
      BY <3>4, <3>5, <3>6
    <3> QED
      BY <1>4, <3>1, <3>2, <3>3, <3>6 DEF Record
  <2>2. /\ recorded'[k] = what /\ recorded' \in [Keys -> {"nothing", "message", "communication"}]
        /\ \A j \in Keys \ {k} : recorded'[j] = recorded[j]
    BY <1>2, <2>1
  <2>3. IsStored(k) => IsStored(k)'
    BY <2>1, <2>2 DEF IsStored, Twilio
  <2>4. Goto(r, step) /\ k \notin Email => IsStored(k)'
    BY <2>1, <2>2 DEF IsStored
  <2>5. k \in Email => k \notin Twilio
    BY DEF Twilio
  <2> QED
    BY <1>1, <1>2, <2>1, <2>2, <2>3, <2>4, <2>5, RecordPreserves
<1>5. CASE RecordCommunication(r) /\ ~(Throw(r) /\ UNCHANGED <<recorded, events>>)
  <2>1. /\ recorded' = [recorded EXCEPT ![k] = "communication"] /\ UNCHANGED events
        /\ Goto(r, "announce_sent") /\ k \in Email
    BY <1>1, <1>5 DEF RecordCommunication, StepIsEarned
  <2>3. IsStored(k)'
    BY <1>2, <2>1 DEF IsStored
  <2>2. k \notin Twilio
    BY <2>1 DEF Twilio
  <2> QED
    BY <1>1, <1>2, <2>1, <2>2, <2>3, RecordPreserves
<1>6. CASE AnnounceCreated(r) /\ ~(Throw(r) /\ UNCHANGED <<recorded, events>>)
  <2> DEFINE new == [events[k] EXCEPT !.created = Cap(@)]
  <2>1. events' = [events EXCEPT ![k] = new] /\ UNCHANGED recorded /\ Goto(r, "announce_sent")
    BY <1>6 DEF AnnounceCreated
  <2>2. new \in Announced /\ new.created > 0 /\ new.sent = events[k].sent
    <3>1. events[k] \in Announced
      BY <1>2
    <3> QED
      BY <3>1, CapBound DEF Announced
  <2>3. IsStored(k)
    BY <1>1, <1>6 DEF AnnounceCreated, StepIsEarned
  <2> HIDE DEF new
  <2>4. events'[k] = new /\ events' \in [Keys -> Announced] /\ \A j \in Keys \ {k} : events'[j] = events[j]
    BY <1>2, <2>1, <2>2
  <2>5. IsStored(k)'
    BY <2>1, <2>3 DEF IsStored
  <2> QED
    BY <1>1, <1>2, <2>1, <2>2, <2>4, <2>5, RecordPreserves
<1>7. CASE AnnounceSent(r) /\ ~(Throw(r) /\ UNCHANGED <<recorded, events>>)
  <2> DEFINE new == [events[k] EXCEPT !.sent = IF k \in Email THEN 1 ELSE Cap(@)]
  <2>1. events' = [events EXCEPT ![k] = new] /\ UNCHANGED recorded /\ Goto(r, "complete")
    BY <1>7 DEF AnnounceSent
  <2>2. new \in Announced /\ new.sent > 0 /\ new.created = events[k].created
    <3>1. events[k] \in Announced
      BY <1>2
    <3> QED
      BY <3>1, CapBound DEF Announced
  <2>3. IsStored(k) /\ (k \in Twilio \ Legacy => events[k].created > 0)
    BY <1>1, <1>7 DEF AnnounceSent, StepIsEarned
  <2> HIDE DEF new
  <2>4. events'[k] = new /\ events' \in [Keys -> Announced] /\ \A j \in Keys \ {k} : events'[j] = events[j]
    BY <1>2, <2>1, <2>2
  <2>5. IsStored(k)'
    BY <2>1, <2>3 DEF IsStored
  <2> QED
    BY <1>1, <1>2, <2>1, <2>2, <2>3, <2>4, <2>5, RecordPreserves
<1> QED
  BY <1>1, <1>3, <1>4, <1>5, <1>6, <1>7

\* Every step of every request preserves the invariant.
LEMMA NextIInv == IInv /\ [Next]_vars => IInv'
<1> SUFFICES ASSUME IInv, [Next]_vars PROVE IInv'
  OBVIOUS
<1>1. ASSUME NEW r \in Requests, NEW k \in Keys, NEW b \in Bodies, Arrive(r, k, b) PROVE IInv'
  <2>1. /\ Frame(r) /\ key'[r] = k
        /\ pc'[r] = "inspect" \/ (pc'[r] = "resolve" /\ k \in Email)
    BY <1>1 DEF IInv, TypeOK, Arrive, Frame, Steps
  <2>2. faults' \in 0..MaxFaults
    BY <1>1 DEF IInv, TypeOK, Arrive
  <2> QED
    BY <1>1, <2>1, <2>2, WaitingPreserves DEF Arrive
<1>2. ASSUME NEW r \in Requests, Crash(r) PROVE IInv'
  BY <1>2, FaultTyped, LeavingPreserves DEF Crash, IInv
<1>5. ASSUME NEW k \in Keys, ThreadChanges(k) PROVE IInv'
  <2>1. TypeOK'
    BY <1>5 DEF IInv, TypeOK, ThreadChanges, request, history
  <2>2. Exclusive'
    BY <1>5 DEF IInv, Exclusive, Working, ThreadChanges, request
  <2>3. ASSUME NEW q \in Requests PROVE StepIsEarned(q)'
    BY <1>5 DEF IInv, StepIsEarned, IsStored, ThreadChanges, request, history
  <2>4. ASSUME NEW j \in Keys PROVE StatusIsEarned(j)'
    BY <1>5 DEF IInv, StatusIsEarned, IsStored, ThreadChanges, history
  <2> QED
    BY <2>1, <2>2, <2>3, <2>4 DEF IInv
<1>3. ASSUME NEW r \in Requests, Step(r) PROVE IInv'
  <2>1. pc[r] # "idle" /\ key[r] \in Keys
    <3>1. pc[r] # "idle"
      BY <1>3 DEF Step, Inspect, Resolve, Reserve, Withhold, Dispatch, MarkSent, MarkRejected, MarkFailed,
                  Record, RecordCommunication, AnnounceCreated, AnnounceSent, Complete
    <3> QED
      BY <3>1 DEF IInv, StepIsEarned
  <2>2. CASE Inspect(r)
    <3>1. faults' \in 0..MaxFaults
      BY <2>2, FaultTyped DEF Inspect, IInv
    <3>2. CASE Answer(r)
      BY <2>2, <3>1, <3>2, LeavingPreserves DEF Inspect
    <3>3. CASE Goto(r, "reserve")
      <4>1. Frame(r) /\ pc'[r] = "reserve" /\ key'[r] \in Keys
        BY <2>1, <3>3, Moved DEF IInv, Steps
      <4> QED
        BY <2>2, <3>1, <4>1, WaitingPreserves DEF Inspect
    <3> QED
      BY <2>2, <3>2, <3>3 DEF Inspect
  <2>3. CASE Withhold(r)
    BY <2>3, FaultTyped, LeavingPreserves DEF Withhold, Working, IInv
  <2> QED
    BY <1>3, <2>1, <2>2, <2>3, ResolvePreserves, ReservePreserves, DispatchPreserves, MarkPreserves,
       StoringPreserves, CompletePreserves DEF Step
<1>4. CASE UNCHANGED vars
  <2>1. TypeOK'
    BY <1>4 DEF IInv, TypeOK, vars
  <2>2. Exclusive'
    BY <1>4 DEF IInv, Exclusive, Working, vars
  <2>3. ASSUME NEW q \in Requests PROVE StepIsEarned(q)'
    BY <1>4 DEF IInv, StepIsEarned, IsStored, vars
  <2>4. ASSUME NEW k \in Keys PROVE StatusIsEarned(k)'
    BY <1>4 DEF IInv, StatusIsEarned, IsStored, vars
  <2> QED
    BY <2>1, <2>2, <2>3, <2>4 DEF IInv
<1> QED
  BY <1>1, <1>2, <1>3, <1>4, <1>5 DEF Next

\* No request has come yet.
LEMMA InitIInv == Init => IInv
<1> SUFFICES ASSUME Init PROVE IInv
  OBVIOUS
<1>1. TypeOK
  BY OutboundAssumption DEF Init, TypeOK, Statuses, Steps
<1>2. Exclusive
  BY DEF Init, Exclusive, Working
<1>3. ASSUME NEW q \in Requests PROVE StepIsEarned(q)
  BY DEF Init, StepIsEarned, Recording
<1>4. ASSUME NEW k \in Keys PROVE StatusIsEarned(k)
  BY DEF Init, StatusIsEarned
<1> QED
  BY <1>1, <1>2, <1>3, <1>4 DEF IInv

\* The invariant holds throughout, with any number of concurrent requests.
THEOREM OutboundInvariant == Spec => []IInv
BY InitIInv, NextIInv, PTL DEF Spec

\* Operations, requests and their history keep their types.
THEOREM OutboundTypeOK == Spec => []TypeOK
<1>1. IInv => TypeOK
  BY DEF IInv
<1> QED
  BY <1>1, OutboundInvariant, PTL

\* One idempotency key makes at most one billable provider call, however many
\* requests carry it (outboundOperations.js 13-62).
THEOREM OutboundAtMostOneDispatch == Spec => []AtMostOneDispatch
<1>1. IInv => AtMostOneDispatch
  BY DEF IInv, AtMostOneDispatch, StatusIsEarned
<1> QED
  BY <1>1, OutboundInvariant, PTL

\* The caller is told of success only when the provider accepted the send and it is
\* stored: an SMS or an e-mail with its communication, a call at least as a call.
THEOREM OutboundSuccessIsReal == Spec => []SuccessIsReal
<1>1. IInv => SuccessIsReal
  BY DEF IInv, SuccessIsReal, StatusIsEarned
<1> QED
  BY <1>1, OutboundInvariant, PTL

\* A rejected message or call has not been sent (outboundReadiness.js 34-52).
THEOREM OutboundRejectionIsFinal == Spec => []RejectionIsFinal
<1>1. IInv => RejectionIsFinal
  BY DEF IInv, RejectionIsFinal, StatusIsEarned, Twilio
<1> QED
  BY <1>1, OutboundInvariant, PTL

\* A completed operation has its events in the outbox.
THEOREM OutboundCompletedIsAnnounced == Spec => []CompletedIsAnnounced
<1>1. IInv => CompletedIsAnnounced
  BY DEF IInv, CompletedIsAnnounced, StatusIsEarned
<1> QED
  BY <1>1, OutboundInvariant, PTL

-----------------------------------------------------------------------------
(* The Twilio operations implement BillableSend.                           *)

\* A change of one operation's status is a change of one abstract phase.
LEMMA PhaseMaps ==
  ASSUME NEW k \in Twilio, NEW s, op'[k].status = s, \A j \in Keys \ {k} : op'[j] = op[j]
  PROVE  BPhase' = [BPhase EXCEPT ![k] = s]
BY DEF BPhase, Twilio

\* A step that changes none of these, or only an e-mail's, is not seen.
LEMMA Unseen ==
  ASSUME \A k \in Twilio : op'[k].status = op[k].status /\ accepted'[k] = accepted[k] /\ told'[k] = told[k]
  PROVE  UNCHANGED Billable!bvars
BY DEF Billable!bvars, BPhase, BAccepted, BTold

\* An answer about a settled operation repeats the abstract one.
LEMMA TellMaps ==
  ASSUME IInv, NEW k \in Keys, NEW what \in {"success", "rejected"}, Tell(k, what),
         op[k].status = IF what = "success" THEN "completed" ELSE "failed",
         UNCHANGED <<op, accepted>>
  PROVE  [Billable!Next]_(Billable!bvars)
<1>1. TypeOK /\ StatusIsEarned(k) /\ told'[k] = told[k] \cup {what} /\ \A j \in Keys \ {k} : told'[j] = told[j]
  BY DEF IInv, TypeOK, Tell
<1>2. CASE k \notin Twilio
  <2>1. \A j \in Twilio : told'[j] = told[j]
    BY <1>1, <1>2 DEF Twilio
  <2> QED
    BY <2>1, Unseen
<1>3. CASE k \in Twilio
  <2>1. /\ BTold' = [BTold EXCEPT ![k] = @ \cup {what}] /\ BPhase' = BPhase /\ BAccepted' = BAccepted
        /\ BPhase' = [BPhase EXCEPT ![k] = op[k].status] /\ BPhase[k] = op[k].status
        /\ BAccepted[k] = accepted[k]
    BY <1>1, <1>3 DEF BTold, BPhase, BAccepted, Twilio
  <2>2. CASE what = "success"
    <3>1. Billable!Succeed(k)
      BY <2>1, <2>2 DEF Billable!Succeed
    <3> QED
      BY <1>3, <3>1 DEF Billable!Next
  <2>3. CASE what = "rejected"
    <3>1. accepted[k] = 0
      BY <1>1, <1>3, <2>3 DEF StatusIsEarned
    <3>2. Billable!Reject(k)
      BY <2>1, <2>3, <3>1 DEF Billable!Reject
    <3> QED
      BY <1>3, <3>2 DEF Billable!Next
  <2> QED
    BY <2>2, <2>3
<1> QED
  BY <1>2, <1>3

\* Each step of a request is a step of its operation's promise, or unseen.
LEMMA StepMaps ==
  ASSUME IInv, NEW r \in Requests, NEW k \in Keys, k = key[r], Step(r)
  PROVE  [Billable!Next]_(Billable!bvars)
<1>0. /\ TypeOK /\ StepIsEarned(r) /\ StatusIsEarned(k) /\ op \in [Keys -> Operation]
      /\ k \in Twilio <=> k \notin Email
  BY DEF IInv, TypeOK, Operation, Twilio
<1>1. CASE UNCHANGED <<op, accepted, told>>
  BY <1>1, Unseen
<1>2. CASE Reserve(r)
  <2>1. CASE op[k].status = "absent" /\ op' = [op EXCEPT ![k] = [status |-> "reserved", hash |-> body[r]]]
             /\ UNCHANGED told
    <3>1. op'[k].status = "reserved" /\ \A j \in Keys \ {k} : op'[j] = op[j]
      BY <1>0, <2>1 DEF TypeOK
    <3>2. UNCHANGED accepted
      BY <1>2 DEF Reserve
    <3>3. CASE k \in Twilio
      <4>1. BPhase' = [BPhase EXCEPT ![k] = "reserved"]
        BY <3>1, <3>3, PhaseMaps
      <4>2. Billable!Take(k)
        BY <2>1, <3>2, <3>3, <4>1 DEF Billable!Take, BPhase, BAccepted, BTold
      <4> QED
        BY <3>3, <4>2 DEF Billable!Next
    <3>4. CASE k \notin Twilio
      <4>1. \A j \in Twilio : op'[j] = op[j]
        BY <3>1, <3>4 DEF Twilio
      <4> QED
        BY <2>1, <3>2, <4>1, Unseen
    <3> QED
      BY <3>3, <3>4
  <2>2. CASE AfterReserve(r, op[k].status) /\ op[k].status # "absent" /\ UNCHANGED op
    <3>1. UNCHANGED <<op, accepted>>
      BY <1>2, <2>2 DEF Reserve
    <3>2. op[k].status \in Statuses \ {"absent"}
      BY <1>0, <2>2 DEF TypeOK
    <3>3. CASE UNCHANGED told
      BY <3>1, <3>3, Unseen
    <3>4. CASE op[k].status = "completed" /\ Tell(k, "success")
      BY <3>1, <3>4, TellMaps
    <3>5. CASE op[k].status = "failed" /\ Tell(k, "rejected")
      BY <3>1, <3>5, TellMaps
    <3> QED
      BY <2>2, <3>2, <3>3, <3>4, <3>5 DEF AfterReserve, Statuses
  <2> QED
    BY <1>1, <1>2, <2>1, <2>2 DEF Reserve
<1>3. CASE Dispatch(r)
  <2>1. UNCHANGED <<op, told>> /\ op[k].status = "reserved" /\ accepted[k] = 0
    BY <1>0, <1>3 DEF Dispatch, StepIsEarned
  <2>2. CASE UNCHANGED accepted
    BY <2>1, <2>2, Unseen
  <2>3. CASE accepted' = [accepted EXCEPT ![k] = Cap(@)]
    <3>1. accepted'[k] = 1 /\ \A j \in Keys \ {k} : accepted'[j] = accepted[j]
      BY <1>0, <2>1, <2>3, CapBound DEF TypeOK
    <3>2. CASE k \in Twilio
      <4>1. BAccepted' = [BAccepted EXCEPT ![k] = 1]
        BY <3>1, <3>2 DEF BAccepted, Twilio
      <4>2. Billable!Accept(k)
        BY <2>1, <3>2, <4>1 DEF Billable!Accept, BPhase, BAccepted, BTold
      <4> QED
        BY <3>2, <4>2 DEF Billable!Next
    <3>3. CASE k \notin Twilio
      <4>1. \A j \in Twilio : accepted'[j] = accepted[j]
        BY <3>1, <3>3 DEF Twilio
      <4> QED
        BY <2>1, <4>1, Unseen
    <3> QED
      BY <3>2, <3>3
  <2> QED
    BY <1>3, <2>2, <2>3 DEF Dispatch
<1>4. ASSUME NEW s \in Statuses, SetStatus(k, s), UNCHANGED accepted,
             \/ MarkSent(r) /\ s = "provider_sent" /\ UNCHANGED told
             \/ MarkRejected(r) /\ s = "failed" /\ Tell(k, "rejected")
             \/ MarkFailed(r) /\ s = "failed" /\ UNCHANGED told
             \/ Complete(r) /\ s = "completed" /\ Tell(k, "success")
      PROVE  [Billable!Next]_(Billable!bvars)
  <2>1. op'[k].status = s /\ \A j \in Keys \ {k} : op'[j] = op[j]
    BY <1>0, <1>4, StatusWritten
  <2>2. CASE k \notin Twilio
    <3>1. \A j \in Twilio : op'[j] = op[j] /\ told'[j] = told[j]
      BY <1>0, <1>4, <2>1, <2>2 DEF Twilio, Tell, TypeOK
    <3> QED
      BY <1>4, <3>1, Unseen
  <2>3. CASE k \in Twilio
    <3>1. BPhase' = [BPhase EXCEPT ![k] = s] /\ BAccepted' = BAccepted
      BY <1>4, <2>1, <2>3, PhaseMaps DEF BAccepted
    <3>2. ASSUME NEW what, Tell(k, what) PROVE BTold' = [BTold EXCEPT ![k] = @ \cup {what}]
      BY <1>0, <2>3, <3>2 DEF BTold, Tell, Twilio, TypeOK
    <3>3. BPhase[k] = op[k].status /\ BAccepted[k] = accepted[k]
      BY <2>3 DEF BPhase, BAccepted
    <3>4. CASE MarkSent(r) /\ s = "provider_sent" /\ UNCHANGED told
      <4>1. Billable!NoteSent(k)
        BY <1>0, <3>1, <3>3, <3>4 DEF Billable!NoteSent, StepIsEarned, MarkSent, Recording, BTold
      <4> QED
        BY <2>3, <4>1 DEF Billable!Next
    <3>5. CASE MarkRejected(r) /\ s = "failed" /\ Tell(k, "rejected")
      <4>1. Billable!Reject(k)
        BY <1>0, <3>1, <3>2, <3>3, <3>5 DEF Billable!Reject, StepIsEarned, MarkRejected
      <4> QED
        BY <2>3, <4>1 DEF Billable!Next
    <3>6. CASE Complete(r) /\ s = "completed" /\ Tell(k, "success")
      <4>1. op[k].status \in {"provider_sent", "completed"}
        BY <1>0, <2>3, <3>6 DEF Complete, StepIsEarned, Recording
      <4>2. Billable!Succeed(k)
        BY <3>1, <3>2, <3>3, <3>6, <4>1 DEF Billable!Succeed
      <4> QED
        BY <2>3, <4>2 DEF Billable!Next
    <3>7. ~MarkFailed(r)
      BY <1>0, <2>3 DEF MarkFailed, StepIsEarned
    <3> QED
      BY <1>4, <3>4, <3>5, <3>6, <3>7
  <2> QED
    BY <2>2, <2>3
<1>5. CASE MarkSent(r) \/ MarkRejected(r) \/ MarkFailed(r) \/ Complete(r)
  BY <1>1, <1>4, <1>5 DEF MarkSent, MarkRejected, MarkFailed, Complete, history, Statuses
<1>6. CASE Inspect(r) \/ Resolve(r) \/ Withhold(r) \/ Record(r) \/ RecordCommunication(r)
           \/ AnnounceCreated(r) \/ AnnounceSent(r)
  BY <1>1, <1>6 DEF Inspect, Resolve, Withhold, Record, RecordCommunication, AnnounceCreated, AnnounceSent,
     history
<1> QED
  BY <1>2, <1>3, <1>5, <1>6 DEF Step

\* The Twilio handlers implement the promise of an idempotent billable send.
THEOREM OutboundImplementsBillableSend == Spec => ImplementsBillableSend
<1>1. Init => Billable!Init
  BY DEF Init, Billable!Init, BPhase, BAccepted, BTold, Twilio
<1>2. IInv /\ [Next]_vars => [Billable!Next]_(Billable!bvars)
  <2> SUFFICES ASSUME IInv, [Next]_vars PROVE [Billable!Next]_(Billable!bvars)
    OBVIOUS
  <2>1. CASE UNCHANGED <<op, accepted, told>>
    BY <2>1, Unseen
  <2>2. ASSUME NEW r \in Requests, Step(r) PROVE [Billable!Next]_(Billable!bvars)
    <3>1. pc[r] # "idle"
      BY <2>2 DEF Step, Inspect, Resolve, Reserve, Withhold, Dispatch, MarkSent, MarkRejected, MarkFailed,
                  Record, RecordCommunication, AnnounceCreated, AnnounceSent, Complete
    <3>2. key[r] \in Keys
      BY <3>1 DEF IInv, StepIsEarned
    <3> QED
      BY <2>2, <3>2, StepMaps
  <2> QED
    BY <2>1, <2>2 DEF Next, Arrive, Crash, ThreadChanges, vars, history
<1> QED
  BY <1>1, <1>2, OutboundInvariant, PTL DEF Spec, ImplementsBillableSend, Billable!Spec

\* However many requests carry a key: one send at most, and success, rejection and completion are
\* told only of what happened.
THEOREM OutboundSendsAreAccountedFor == Spec => []SendsAreAccountedFor
BY OutboundAtMostOneDispatch, OutboundSuccessIsReal, OutboundRejectionIsFinal, OutboundCompletedIsAnnounced,
   PTL DEF SendsAreAccountedFor
=============================================================================
