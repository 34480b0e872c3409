---------------------------- MODULE EventOutbox ----------------------------
(***************************************************************************)
(* The durable event outbox (eventOutbox.js, claim_outbound_events): rows  *)
(* of outbound_events are claimed under a lease by overlapping sweeps,     *)
(* POSTed one by one to the receiver, and the outcome is written back      *)
(* under the lease token.                                                  *)
(*                                                                         *)
(* A sweep handles a row at most once per batch, so the random lease token *)
(* of a claim is named by the sweep that drew it: row[e].lease = w while   *)
(* the row carries the token of w's latest claim.                          *)
(*                                                                         *)
(* Time is abstract: "due" stands for next_attempt_at <= now() and "live"  *)
(* for lease_expires_at >= now().  A POST takes 15 s at most and the lease *)
(* lasts 60: while its sweep is alive, a lease lapses only once the sweep  *)
(* is through with LeasePosts POSTs of the batch (3 in the code, with room *)
(* for the updates between them).                                          *)
(***************************************************************************)
EXTENDS Naturals, FiniteSets

CONSTANTS Events,        \* event ids that callers may store
          Workers,       \* sweeps in flight, over all service instances
          Null,          \* SQL null
          KeyOf,         \* dedupe key of an event, or Null
          ReviewEvents,  \* events of type review.action.requested
          DispatchOn,    \* REVIEW_ACTION_DISPATCH_ENABLED = 'true'
          MaxAttempts,   \* MAX_ATTEMPTS
          BatchSize,     \* BATCH_SIZE
          LeasePosts,    \* POSTs that fit in one lease
          MaxRequeues,   \* bound: operator requeues
          MaxMishaps     \* bound: crashes and failed result updates

ASSUME OutboxAssumption ==
  /\ IsFiniteSet(Events)
  /\ Null \notin Events \cup Workers \cup Nat
  /\ ReviewEvents \subseteq Events
  /\ DispatchOn \in BOOLEAN
  /\ MaxAttempts \in Nat \ {0} /\ BatchSize \in Nat \ {0}
  /\ LeasePosts \in Nat /\ MaxRequeues \in Nat /\ MaxMishaps \in Nat

VARIABLES row,       \* the outbound_events table
          batch,     \* per sweep and row: attempts as read by the claim, or
                     \* Null if the row is not (or no longer) in its batch
          doing,     \* the row whose POST has been answered, or Null
          result,    \* that answer
          spent,     \* POSTs the sweep has begun for this batch
          active,    \* the tenant's status is 'active'
          requeues, mishaps,
          tries, acked, refused   \* history since the row was (re)queued

outboxVars == <<row, batch, doing, result, spent, active, requeues, mishaps,
          tries, acked, refused>>

Open == {"pending", "retrying"}
Results == {"ok", "retryable", "permanent"}

Row == [status : Open \cup {"absent", "delivered", "failed"},
        attempts : Nat, born : Nat, due : BOOLEAN,
        lease : Workers \cup {Null}, live : BOOLEAN]

OutboxTypeOK ==
  /\ row \in [Events -> Row]
  /\ batch \in [Workers -> [Events -> Nat \cup {Null}]]
  /\ doing \in [Workers -> Events \cup {Null}]
  /\ result \in [Workers -> Results \cup {Null}]
  /\ spent \in [Workers -> Nat]
  /\ active \in BOOLEAN
  /\ requeues \in 0..MaxRequeues
  /\ mishaps \in 0..MaxMishaps
  /\ tries \in [Events -> 0..MaxAttempts + 1]
  /\ acked \in [Events -> BOOLEAN]
  /\ refused \in [Events -> BOOLEAN]

Absent == [status |-> "absent", attempts |-> 0, born |-> 0, due |-> FALSE,
           lease |-> Null, live |-> FALSE]

NoBatch == [e \in Events |-> Null]
Todo(w) == {e \in Events : batch[w][e] # Null}

OutboxInit ==
  /\ row = [e \in Events |-> Absent]
  /\ batch = [w \in Workers |-> NoBatch]
  /\ doing = [w \in Workers |-> Null]
  /\ result = [w \in Workers |-> Null]
  /\ spent = [w \in Workers |-> 0]
  /\ active = TRUE
  /\ requeues = 0 /\ mishaps = 0
  /\ tries = [e \in Events |-> 0]
  /\ acked = [e \in Events |-> FALSE]
  /\ refused = [e \in Events |-> FALSE]

sweepVars == <<batch, doing, result, spent>>
sinceQueued == <<tries, acked, refused>>

Stored == {e \in Events : row[e].status # "absent"}
KeyTaken(e) == KeyOf[e] # Null /\ \E f \in Stored : KeyOf[f] = KeyOf[e]

\* enqueueEvent: the upsert on (tenant_id, dedupe_key) ignores a duplicate,
\* which leaves the table alone.
Enqueue(e) ==
  /\ e \notin Stored
  /\ ~KeyTaken(e)
  /\ row' = [row EXCEPT ![e] = [Absent EXCEPT !.status = "pending", !.due = TRUE,
                                 !.born = Cardinality(Stored) + 1]]
  /\ UNCHANGED <<sweepVars, active, requeues, mishaps, sinceQueued>>

\* Mutant: a lease is honoured for ever.
UnleasedNeverLapses(e) == row[e].lease = Null

Unleased(e) == row[e].lease = Null \/ ~row[e].live
Claimable == {e \in Events : active /\ row[e].status \in Open /\ row[e].due /\ Unleased(e)}

\* The first BatchSize claimable rows by created_at.
OldestBatch(b) ==
  /\ b # {} /\ b \subseteq Claimable
  /\ Cardinality(b) <= BatchSize
  /\ \A e \in Claimable \ b : /\ Cardinality(b) = BatchSize
                              /\ \A f \in b : row[f].born <= row[e].born

\* claim_outbound_events: lease the batch and return the rows as they are.
Claim(w) ==
  /\ Todo(w) = {}
  /\ \E b \in SUBSET Claimable :
       /\ OldestBatch(b)
       /\ row' = [e \in Events |-> IF e \in b THEN [row[e] EXCEPT !.lease = w, !.live = TRUE]
                                              ELSE row[e]]
       /\ batch' = [batch EXCEPT ![w] = [e \in Events |-> IF e \in b THEN row[e].attempts ELSE Null]]
  /\ UNCHANGED <<doing, result, spent, active, requeues, mishaps, sinceQueued>>

Held(e) == e \in ReviewEvents /\ ~DispatchOn

\* Mutant: the result is written whoever holds the row.
UpdateWithoutToken(w, e, new) == row' = [row EXCEPT ![e] = new]

\* An update of the row that carries w's token: ".eq('lease_token', ...)".
UpdateUnderToken(w, e, new) ==
  row' = IF row[e].lease = w THEN [row EXCEPT ![e] = new] ELSE row

\* The update is refused by the database; its error is not looked at.
UpdateLost == /\ mishaps < MaxMishaps
              /\ mishaps' = mishaps + 1
              /\ UNCHANGED row

\* The sweep is through with e; the count of POSTs dies with the batch.
Finish(w, e) ==
  /\ batch' = [batch EXCEPT ![w][e] = Null]
  /\ spent' = IF Todo(w) = {e} THEN [spent EXCEPT ![w] = 0] ELSE spent

\* A review action while dispatch is disabled goes back for a minute.
HoldBack(w, e) ==
  /\ e \in Todo(w) /\ doing[w] = Null /\ Held(e)
  /\ \/ /\ UpdateUnderToken(w, e, [row[e] EXCEPT !.status = "pending", !.due = FALSE,
                                                 !.lease = Null, !.live = FALSE])
        /\ UNCHANGED mishaps
     \/ UpdateLost
  /\ Finish(w, e)
  /\ UNCHANGED <<doing, result, active, requeues, sinceQueued>>

AtMost(n, bound) == IF n > bound THEN bound ELSE n

\* assertFetchable and the POST.  A retryable failure (timeout, 5xx, refused
\* address) leaves open whether the receiver has seen the event.
Post(w, e, r) ==
  /\ e \in Todo(w) /\ doing[w] = Null /\ ~Held(e)
  /\ doing' = [doing EXCEPT ![w] = e]
  /\ result' = [result EXCEPT ![w] = r]
  /\ spent' = [spent EXCEPT ![w] = AtMost(@ + 1, LeasePosts + 1)]
  /\ tries' = [tries EXCEPT ![e] = AtMost(@ + 1, MaxAttempts + 1)]
  /\ acked' = [acked EXCEPT ![e] = @ \/ r = "ok"]
  /\ refused' = [refused EXCEPT ![e] = @ \/ r = "permanent"]
  /\ UNCHANGED <<row, batch, active, requeues, mishaps>>

Settled(e, n, s) == [row[e] EXCEPT !.status = s, !.attempts = n,
                                   !.due = (s = "delivered" /\ @),
                                   !.lease = Null, !.live = FALSE]

\* Mutants: a status outside the table's CHECK, and an attempt too few.
OutcomeExhausted(w, e) == Settled(e, batch[w][e] + 1, "exhausted")
OutcomeTooSoon(w, e) ==
  LET n == batch[w][e] + 1 IN
  IF result[w] = "ok" THEN Settled(e, n, "delivered")
  ELSE Settled(e, n, IF n + 1 >= MaxAttempts THEN "failed" ELSE "retrying")

\* The row after an answer: attempts come from the claim.
Outcome(w, e) ==
  LET n == batch[w][e] + 1 IN
  IF result[w] = "ok" THEN Settled(e, n, "delivered")
  ELSE IF n >= MaxAttempts \/ result[w] = "permanent" THEN Settled(e, n, "failed")
  ELSE Settled(e, n, "retrying")

RecordOutcome(w) ==
  /\ doing[w] # Null
  /\ \/ UpdateUnderToken(w, doing[w], Outcome(w, doing[w])) /\ UNCHANGED mishaps
     \/ UpdateLost
  /\ Finish(w, doing[w])
  /\ doing' = [doing EXCEPT ![w] = Null]
  /\ result' = [result EXCEPT ![w] = Null]
  /\ UNCHANGED <<active, requeues, sinceQueued>>

\* The process dies: the batch is forgotten, the leases stay in the table.
SweepCrash(w) ==
  /\ Todo(w) # {} /\ mishaps < MaxMishaps
  /\ mishaps' = mishaps + 1
  /\ batch' = [batch EXCEPT ![w] = NoBatch]
  /\ spent' = [spent EXCEPT ![w] = 0]
  /\ doing' = [doing EXCEPT ![w] = Null]
  /\ result' = [result EXCEPT ![w] = Null]
  /\ UNCHANGED <<row, active, requeues, sinceQueued>>

\* POST /v1/events/:eventId/requeue, whatever the row's status or lease.
Requeue(e) ==
  /\ e \in Stored /\ requeues < MaxRequeues
  /\ requeues' = requeues + 1
  /\ row' = [row EXCEPT ![e] = [@ EXCEPT !.status = "pending", !.attempts = 0, !.due = TRUE,
                                         !.lease = Null, !.live = FALSE]]
  /\ tries' = [tries EXCEPT ![e] = 0]
  /\ acked' = [acked EXCEPT ![e] = FALSE]
  /\ refused' = [refused EXCEPT ![e] = FALSE]
  /\ UNCHANGED <<sweepVars, active, mishaps>>

\* Time passes: the backoff ends, or the lease runs out.
BecomeDue(e) ==
  /\ row[e].status \in Open /\ ~row[e].due
  /\ row' = [row EXCEPT ![e].due = TRUE]
  /\ UNCHANGED <<sweepVars, active, requeues, mishaps, sinceQueued>>

LeaseLapse(e) ==
  /\ row[e].live
  /\ LET w == row[e].lease IN
       \/ e \notin Todo(w)
       \/ spent[w] > LeasePosts
       \/ spent[w] = LeasePosts /\ doing[w] = Null
  /\ row' = [row EXCEPT ![e].live = FALSE]
  /\ UNCHANGED <<sweepVars, active, requeues, mishaps, sinceQueued>>

\* The tenant is suspended or restored by its lifecycle operations.
SetTenantStatus ==
  /\ active' = ~active
  /\ UNCHANGED <<row, sweepVars, requeues, mishaps, sinceQueued>>

OutboxNext ==
  \/ \E e \in Events : Enqueue(e) \/ Requeue(e) \/ BecomeDue(e) \/ LeaseLapse(e)
  \/ \E w \in Workers : Claim(w) \/ RecordOutcome(w) \/ SweepCrash(w)
  \/ \E w \in Workers, e \in Events : HoldBack(w, e) \/ \E r \in Results : Post(w, e, r)
  \/ SetTenantStatus

OutboxSpec == OutboxInit /\ [][OutboxNext]_outboxVars

\* The interval timer keeps sweeping, a sweep never stops half way unless the
\* process dies, every POST ends within its timeout, and time passes.
Fairness ==
  /\ \A w \in Workers :
       /\ WF_outboxVars(Claim(w))
       /\ WF_outboxVars(RecordOutcome(w))
       /\ WF_outboxVars(\E e \in Events : HoldBack(w, e) \/ \E r \in Results : Post(w, e, r))
  /\ \A e \in Events : WF_outboxVars(BecomeDue(e)) /\ WF_outboxVars(LeaseLapse(e))

OutboxFairSpec == OutboxSpec /\ Fairness

-----------------------------------------------------------------------------
\* A row is closed as delivered only on a 2xx, and as failed only after a
\* permanent refusal or MAX_ATTEMPTS tries, of a POST begun since the row was
\* last (re)queued: answers that arrive for an older lease, or for a POST that
\* an operator's requeue has overtaken, close nothing (eventOutbox.js 146-162).
DeliveredIsEarned == \A e \in Events : row[e].status = "delivered" => acked[e]

FailedIsEarned ==
  \A e \in Events : row[e].status = "failed" => refused[e] \/ tries[e] >= MaxAttempts

\* No row waits for ever with its retry budget used up, and no recorded attempt
\* was not made, even when claims overlap and updates are lost.
AttemptsAreReal ==
  \A e \in Events :
    /\ row[e].attempts <= tries[e]
    /\ row[e].status \in Open => row[e].attempts < MaxAttempts

\* What the row says of an event was earned by POSTs that were made.
OutcomesAreEarned == DeliveredIsEarned /\ FailedIsEarned /\ AttemptsAreReal

\* Crashes, lost updates and lapsed leases delay rows but never strand one:
\* unless the tenant is suspended, the outbox always gets to a moment at which
\* every stored event that is not held back is delivered or failed.
EveryEventSettles ==
  []<>(active => \A e \in Events : row[e].status \in Open => Held(e))

\* The outbox implements the promise of EventDelivery: pending and retrying are
\* both "open", a claim is invisible, and every write of an outcome is a Deliver,
\* a GiveUp or a stutter, whatever the interleaving of the sweeps.
Abs(status) == IF status \in Open THEN "open" ELSE status
DState == [e \in Events |-> Abs(row[e].status)]
Delivery == INSTANCE EventDelivery WITH state <- DState

ImplementsDelivery == Delivery!Spec
=============================================================================
