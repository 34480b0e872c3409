--------------------------- MODULE OperationalReview ---------------------------
(***************************************************************************)
(* The owner's review: findings of the classifier and of the evaluators    *)
(* (operationalIntelligence.js), the sessions that put them as questions   *)
(* and record the answers (reviewEngine.js, reviewVoice.js), the           *)
(* instructions given at the end (reviewActions.js), the routes            *)
(* (operationalRoutes.js), and the SQL functions beneath them (migrations  *)
(* 030 to 036).                                                            *)
(*                                                                         *)
(* A communication has at most one promise and one expected deliverable,   *)
(* named by the communication.  The row of a session carries a revision    *)
(* that every write raises and every answer must match: here a write       *)
(* forgets the call that is under way.  Promises have their revisions,     *)
(* since questions follow some of their changes and not others.            *)
(***************************************************************************)
EXTENDS ReviewSessions, Naturals, FiniteSets

CONSTANTS Comms,       \* communications
          Owners,
          Owner,       \* the owner of each session
          Kinds,       \* kinds of findings
          Acts,        \* decisions sent to the lifecycle routes
          Corrections, \* operations of a correction
          MaxRevision, \* bound: revisions of each communication
          MaxItems,    \* bound: questions of a session (max_items in the code)
          MaxRequests, \* bound: requests to the model that are answered
          MaxChanges   \* bound: snoozes that end, and writes of others

AllKinds == {"PROMISE", "CHANGE", "CANCELLATION", "DEPENDENCY", "FULFILMENT_EVIDENCE",
             "EXPECTED_DELIVERABLE", "ARRIVAL"}

ASSUME ReviewAssumption ==
  /\ Owner \in [Sessions -> Owners] /\ Kinds \subseteq AllKinds
  /\ Acts \subseteq {"confirm", "verify_fulfillment", "cancel", "reopen", "supersede", "reject_fulfilment"}
  /\ Corrections \subseteq {"update", "condition_update", "reopen", "supersede"}
  /\ MaxRevision \in [Comms -> Nat \ {0}] /\ MaxItems \in Nat \ {0} /\ MaxRequests \in Nat /\ MaxChanges \in Nat
  /\ None \notin Comms

VARIABLES
  source,    \* communications: promise_revision, and whether it may be read
  promise,   \* communication_commitments, by the communication they were made in
  object,    \* operational_objects, by communication
  finding,   \* operational_candidates, by communication, revision and kind
  receipts,  \* operational_classifications: the requests that were answered
  model,     \* the classification or evaluation under way
  session,   \* review_sessions
  call,      \* the answer or the step of each session that was checked and is not yet stored
  task,      \* review_tasks, by owner and question
  followed,  \* responses: the revisions of each promise that an accepted condition moved on
  allowed,   \* owners whose binding still grants the review
  changes,   \* writes of others so far
  answers    \* history: what each answer was about, and what it found

vars == <<source, promise, object, finding, receipts, model, session, call, task, followed, allowed,
          changes, answers>>

FindingIds == UNION {{<<c, r, k>> : r \in 1 .. MaxRevision[c], k \in Kinds} : c \in Comms}
\* A question is named by its finding, its promise or its object.
Ids == FindingIds \cup ({"promise", "object"} \X Comms)
Operations == {"confirm", "verify_fulfillment", "cancel", "correct", "condition_update", "acknowledge"}

Promise == [revision : Nat, terms : Nat, sourceRevision : Nat,
            review : {"needs_review", "confirmed", "dismissed"},
            observed : {"promised", "completion_claimed", "fulfilled", "cancelled", "superseded"},
            condition : {"none", "pending", "satisfied"}]
Object == [status : {"OPEN", "FULFILLED", "CANCELLED"}, revision : Nat, sourceRevision : Nat]
Finding == [status : {"PENDING", "ACCEPTED", "REJECTED"}, of : Comms \cup {None},
            revision : Nat, terms : Nat, patch : BOOLEAN]
Requests == [comm : Comms, sourceRevision : Nat, of : {"promise", "object", None},
             on : Comms, revision : Nat, terms : Nat, known : SUBSET Comms]
Item == [promise : Comms \cup {None}, object : Comms \cup {None}, operation : Operations \cup {None},
         expected : Nat, clarify : BOOLEAN, terms : Nat,
         status : {"PENDING", "RESOLVED", "DEFERRED", "STALE"}]
Stages == {"BRIEFING", "REVIEW", "NEXT_ACTIONS"}
Answer == [by : Sessions, question : Ids, asked : Nat \X Nat, found : Nat \X Nat, settles : BOOLEAN]

\* A column that is null is told from every row and from every value.
ASSUME NoneAssumption ==
  None \notin Promise \cup Object \cup Finding \cup Operations \cup {"promise", "object"}

TypeOK ==
  /\ source \in [Comms -> [revision : Nat, ok : BOOLEAN]]
  /\ promise \in [Comms -> Promise \cup {None}]
  /\ object \in [Comms -> Object \cup {None}]
  /\ finding \in [FindingIds -> Finding \cup {None}]
  /\ model \in Requests \cup {None} /\ receipts \subseteq Requests
  /\ \A s \in Sessions : session[s] # None =>
       /\ session[s].stage \in Stages
       /\ DOMAIN session[s].queue \subseteq Ids /\ Cardinality(DOMAIN session[s].queue) <= MaxItems
       /\ \A i \in DOMAIN session[s].queue : session[s].queue[i] \in Item
  /\ \A s \in Sessions : call[s] # None => session[s] # None
  /\ task \in [Owners \X Ids -> [status : {"RESOLVED", "DISMISSED", "SNOOZED"}, revision : Nat] \cup {None}]
  /\ followed \in [Comms -> SUBSET Nat]
  /\ allowed \subseteq Owners /\ changes \in 0 .. MaxChanges
  /\ \A a \in answers : a \in Answer

Open(c, revision, terms) == [status |-> "PENDING", of |-> c, revision |-> revision, terms |-> terms, patch |-> TRUE]

\* A promise as it is found in a revision of its communication.
Found(sourceRevision, review, condition) ==
  [revision |-> 1, terms |-> 1, sourceRevision |-> sourceRevision, review |-> review,
   observed |-> "promised", condition |-> condition]

\* Where a communication may stand: it has a promise to confirm, or a confirmed one under a
\* condition, with evidence for both; or a deliverable that is waited for, and a promise found.
Scenes ==
  {[promise |-> Found(1, "needs_review", "none"), waited |-> FALSE, findings |-> {}],
   [promise |-> Found(1, "confirmed", "pending"), waited |-> FALSE,
    findings |-> {"DEPENDENCY", "FULFILMENT_EVIDENCE"}],
   [promise |-> None, waited |-> TRUE, findings |-> {"PROMISE"}]}

Init ==
  /\ source = [c \in Comms |-> [revision |-> 1, ok |-> TRUE]]
  /\ \E scene \in [Comms -> Scenes] :
       /\ promise = [c \in Comms |-> scene[c].promise]
       /\ object = [c \in Comms |->
            IF scene[c].waited THEN [status |-> "OPEN", revision |-> 1, sourceRevision |-> 1] ELSE None]
       /\ finding = [f \in FindingIds |->
            IF f[2] = 1 /\ f[3] \in scene[f[1]].findings
            THEN IF f[3] = "PROMISE" THEN Open(None, 0, 0) ELSE Open(f[1], 1, 1) ELSE None]
  /\ model = None /\ receipts = {}
  /\ session = [s \in Sessions |-> None] /\ call = [s \in Sessions |-> None]
  /\ task = [oi \in Owners \X Ids |-> None] /\ followed = [c \in Comms |-> {}]
  /\ allowed = Owners /\ changes = 0 /\ answers = {}

-----------------------------------------------------------------------------
(* What others do meanwhile *)

Change == changes < MaxChanges /\ changes' = changes + 1

SourceChanges(c) ==
  /\ Change /\ source[c].revision < MaxRevision[c]
  /\ \E ok \in BOOLEAN : source' = [source EXCEPT ![c] = [revision |-> @.revision + 1, ok |-> ok]]
  /\ UNCHANGED <<promise, object, finding, receipts, model, session, call, task, followed, allowed, answers>>

Revise(p) == [p EXCEPT !.revision = @ + 1]

\* The lifecycle routes: fulfilment needs a current source and no pending condition.
Current(c) == promise[c].sourceRevision = source[c].revision
Confirms(p) == [Revise(p) EXCEPT !.review = "confirmed"]
Transition(c, act) ==
  LET p == promise[c] IN
  CASE act = "confirm" -> Confirms(p)
    [] act = "verify_fulfillment" -> [Confirms(p) EXCEPT !.observed = "fulfilled"]
    [] act = "cancel" -> [Revise(p) EXCEPT !.observed = "cancelled"]
    [] act \in {"reopen", "reject_fulfilment"} -> [Confirms(p) EXCEPT !.observed = "promised"]
    [] act = "supersede" -> [Confirms(p) EXCEPT !.observed = "superseded"]
    [] act = "dismiss" -> [Revise(p) EXCEPT !.review = "dismissed"]
Possible(c, act) ==
  /\ act \in {"confirm", "verify_fulfillment"} => source[c].ok /\ Current(c)
  /\ act = "verify_fulfillment" => promise[c].condition # "pending"

LifecycleRoute(c) ==
  /\ Change /\ promise[c] # None /\ source[c].ok
  /\ \E act \in Acts :
       /\ Possible(c, act)
       /\ promise' = [promise EXCEPT ![c] = Transition(c, act)]
  /\ UNCHANGED <<source, object, finding, receipts, model, session, call, task, followed, allowed, answers>>

\* The ledger: an edit of the terms, a claim of completion, an extraction of the present source.
LedgerWrites(c) ==
  /\ Change /\ source[c].ok
  /\ promise' \in {[promise EXCEPT ![c] = p] :
       p \in IF promise[c] = None
             THEN {Found(source[c].revision, "needs_review", "none")}
             ELSE {[Revise(promise[c]) EXCEPT !.terms = @ + 1],
                   [Revise(promise[c]) EXCEPT !.observed = "completion_claimed"],
                   [Revise(promise[c]) EXCEPT !.sourceRevision = source[c].revision]}}
  /\ UNCHANGED <<source, object, finding, receipts, model, session, call, task, followed, allowed, answers>>

Resolved(o, status) == [o EXCEPT !.revision = @ + 1, !.status = status]

\* POST /operational-objects/:id/resolve
ResolveObject(c) ==
  /\ Change /\ object[c] # None /\ source[c].ok /\ object[c].sourceRevision = source[c].revision
  /\ \E status \in {"OPEN", "FULFILLED", "CANCELLED"} :
       object' = [object EXCEPT ![c] = Resolved(@, status)]
  /\ UNCHANGED <<source, promise, finding, receipts, model, session, call, task, followed, allowed, answers>>

\* POST /review/owners disables the binding of an owner.
Revoke(o) ==
  /\ Change /\ o \in allowed /\ allowed' = allowed \ {o}
  /\ UNCHANGED <<source, promise, object, finding, receipts, model, session, call, task, followed, answers>>

SnoozeEnds(o, i) ==
  /\ Change /\ task[<<o, i>>] # None /\ task[<<o, i>>].status = "SNOOZED"
  /\ task' = [task EXCEPT ![<<o, i>>] = None]
  /\ UNCHANGED <<source, promise, object, finding, receipts, model, session, call, followed, allowed, answers>>

-----------------------------------------------------------------------------
(* Findings *)

\* source_current: what rests on this revision of the communication may be read.
Fresh(c, r) == source[c].ok /\ source[c].revision = r

\* readPromise
Readable(c) == promise[c] # None /\ source[c].ok

\* A request is made of the source and of what it is compared with, at their revisions.
Request(c, of, on, revision, terms, known) ==
  [comm |-> c, sourceRevision |-> source[c].revision, of |-> of, on |-> on,
   revision |-> revision, terms |-> terms, known |-> known]
\* The receipt keeps what names the request.
Receipt(request) == [request EXCEPT !.terms = 0, !.known = {}]
\* An answered request returns its receipt; the model is called outside of any transaction.
Ask(request) ==
  /\ model = None /\ Cardinality(receipts) < MaxRequests /\ source[request.comm].ok
  /\ Receipt(request) \notin receipts
  /\ model' = request
  /\ UNCHANGED <<source, promise, object, finding, receipts, session, call, task, followed, allowed, changes, answers>>

\* POST /classifications, up to the call of the model
Classify(c) == Ask(Request(c, None, c, 0, 0, {x \in Comms : Readable(x)}))
\* POST /promises/:id/evaluate
Evaluate(c, on) ==
  /\ Readable(on) /\ Current(on)
  /\ Ask(Request(c, "promise", on, promise[on].revision, promise[on].terms,
                 {x \in {on} : promise[x].condition = "pending"}))
\* POST /operational-objects/:id/evaluate
EvaluateArrival(c, on) ==
  /\ object[on] # None /\ object[on].status = "OPEN" /\ Fresh(on, object[on].sourceRevision)
  /\ Ask(Request(c, "object", on, object[on].revision, 0, {}))

\* What the answer of the model becomes; a change may be found without saying what it changes.
New(of) == Open(of, model.revision, model.terms)
Vague(of) == [New(of) EXCEPT !.patch = FALSE]
Classified ==
  {<<k, New(of)>> : k \in Kinds \cap {"PROMISE", "CHANGE", "CANCELLATION", "EXPECTED_DELIVERABLE"},
                    of \in model.known \cup {None}}
  \cup {<<k, Vague(of)>> : k \in Kinds \cap {"CHANGE"}, of \in model.known}
Evaluated ==
  {<<k, New(model.on)>> : k \in Kinds \cap
     (IF model.known # {} THEN {"DEPENDENCY", "FULFILMENT_EVIDENCE"} ELSE {"FULFILMENT_EVIDENCE"})}
Arrivals == {<<k, New(model.on)>> : k \in Kinds \cap {"ARRIVAL"}}
Results == CASE model.of = None -> Classified
             [] model.of = "promise" -> Evaluated
             [] model.of = "object" -> Arrivals

\* A finding of the same kind is replaced only if it is open and of an earlier revision.
Upsert(f, new) ==
  IF finding[f] = None \/ (finding[f].status = "PENDING" /\ new.revision > finding[f].revision)
  THEN [finding EXCEPT ![f] = new] ELSE finding

\* store_operational_classification locks the source and refuses a revision that has passed.
Store ==
  /\ model # None /\ model' = None
  /\ IF Fresh(model.comm, model.sourceRevision)
     THEN /\ receipts' = receipts \cup {Receipt(model)}
          /\ finding' \in {finding} \cup {Upsert(<<model.comm, model.sourceRevision, result[1]>>, result[2]) :
                                             result \in Results}
     ELSE UNCHANGED <<receipts, finding>>
  /\ UNCHANGED <<source, promise, object, session, call, task, followed, allowed, changes, answers>>

-----------------------------------------------------------------------------
(* The briefing and its questions *)

Lifecycle(p) ==
  IF p.observed = "fulfilled" THEN "FULFILLED"
  ELSE IF p.observed = "cancelled" \/ p.review = "dismissed" THEN "CANCELLED"
  ELSE IF p.observed = "superseded" THEN "SUPERSEDED"
  ELSE IF p.observed = "completion_claimed" THEN "FULFILMENT_SUSPECTED"
  ELSE IF p.review # "confirmed" THEN "PROPOSED"
  ELSE IF p.condition = "pending" THEN "CONDITION_PENDING"
  ELSE "OPEN"

\* The promises of a briefing.
Listed == {c \in Comms : Readable(c) /\ Current(c) /\ promise[c].review # "dismissed"}
Active == {c \in Listed : Lifecycle(promise[c]) \notin {"FULFILLED", "CANCELLED", "SUPERSEDED"}}

Visible ==
  {f \in FindingIds : LET g == finding[f] IN
     /\ g # None /\ g.status = "PENDING" /\ Fresh(f[1], f[2])
     /\ g.of # None =>
          IF f[3] = "ARRIVAL"
          THEN object[g.of].status = "OPEN" /\ Fresh(g.of, object[g.of].sourceRevision)
          ELSE Readable(g.of)}

Operation(kind, c) ==
  CASE kind \in {"FULFILMENT_EVIDENCE", "ARRIVAL"} -> "verify_fulfillment"
    [] kind = "CANCELLATION" -> "cancel"
    [] kind = "CHANGE" -> "correct"
    [] kind = "DEPENDENCY" -> "condition_update"
    [] kind = "PROMISE" /\ c # None /\ promise[c].review # "confirmed" -> "confirm"
    [] OTHER -> "acknowledge"

\* Mutant of Expected: the question is put at the present revision.
AtPresent(g, c) == IF c = None THEN g.revision ELSE promise[c].revision
\* An evaluation is answered at the revision of the promise it has read.
Expected(g, c) == IF g.revision # 0 THEN g.revision ELSE IF c # None THEN promise[c].revision ELSE 0

FindingItem(f) ==
  LET g == finding[f]
      c == IF f[3] # "ARRIVAL" /\ g.of \in Listed THEN g.of ELSE None
  IN [promise |-> c, object |-> IF f[3] = "ARRIVAL" THEN g.of ELSE None,
      operation |-> Operation(f[3], c), expected |-> Expected(g, c),
      clarify |-> f[3] = "CHANGE" /\ ~g.patch,
      terms |-> IF g.terms # 0 THEN g.terms ELSE IF c # None THEN promise[c].terms ELSE 0, status |-> "PENDING"]

\* A promise has a question of its own when no finding asks about it and none was rejected.
PromiseItem(c) ==
  [promise |-> c, object |-> None, expected |-> promise[c].revision, clarify |-> FALSE,
   operation |-> CASE Lifecycle(promise[c]) = "FULFILMENT_SUSPECTED" -> "verify_fulfillment"
                   [] Lifecycle(promise[c]) = "PROPOSED" -> "confirm"
                   [] OTHER -> "acknowledge",
   terms |-> promise[c].terms, status |-> "PENDING"]
Asked(c, overdue) ==
  /\ Lifecycle(promise[c]) \in {"FULFILMENT_SUSPECTED", "PROPOSED"} \cup (IF overdue THEN {"OPEN"} ELSE {})
  /\ ~ \E f \in FindingIds : /\ finding[f] # None /\ f[1] = c /\ f[3] = "PROMISE"
                             /\ f[2] = promise[c].sourceRevision /\ finding[f].status = "REJECTED"
  /\ ~ \E f \in Visible : FindingItem(f).promise = c \/ (f[1] = c /\ f[3] = "PROMISE")

ObjectItem(c) ==
  [promise |-> None, object |-> c, expected |-> object[c].revision, clarify |-> FALSE,
   operation |-> None, terms |-> 0, status |-> "PENDING"]
Overdue(c) == /\ object[c] # None /\ object[c].status = "OPEN" /\ Fresh(c, object[c].sourceRevision)
              /\ ~ \E f \in Visible : f[3] = "ARRIVAL" /\ finding[f].of = c

\* A question that was settled, dismissed or snoozed waits for a change of its promise.
Hidden(o, i, q) ==
  LET t == task[<<o, i>>] IN t # None /\ (t.revision = 0 \/ t.revision = q.expected)

Questions(o, overdue) ==
  LET all == [i \in Visible \cup ({"promise"} \X {c \in Active : Asked(c, overdue)})
                            \cup ({"object"} \X {c \in Comms : overdue /\ Overdue(c)}) |->
                IF i \in Visible THEN FindingItem(i)
                ELSE IF i[1] = "promise" THEN PromiseItem(i[2]) ELSE ObjectItem(i[2])]
  IN [i \in {j \in DOMAIN all : ~Hidden(o, j, all[j])} |-> all[i]]

\* Mutant of Raised: max_items is not applied.
AllRaised(all) == {DOMAIN all}
\* Which questions come first depends on dates and on the policy of the tenant.
Raised(all) == {first \in SUBSET DOMAIN all :
                  /\ Cardinality(first) <= MaxItems
                  /\ first = DOMAIN all \/ Cardinality(first) = MaxItems}

\* reviewIdentity and currentSessionScope: the binding of the owner, read at every call
Granted(s) == Owner[s] \in allowed

\* POST /review/sessions; a repeated request finds its session.
CreateSession(s) ==
  /\ session[s] = None /\ Granted(s)
  /\ \E overdue \in BOOLEAN :
       LET all == Questions(Owner[s], overdue) IN
       \E first \in Raised(all) :
         session' = [session EXCEPT ![s] = [stage |-> "BRIEFING", queue |-> [i \in first |-> all[i]]]]
  /\ UNCHANGED <<source, promise, object, finding, receipts, model, call, task, followed, allowed, changes, answers>>

-----------------------------------------------------------------------------
(* session(): the evidence is verified, then refresh_review_session *)

Queue(s) == session[s].queue
Pending(q) == {i \in DOMAIN q : q[i].status = "PENDING"}

Verified(s) ==
  /\ session[s] # None /\ Granted(s)
  /\ \A i \in DOMAIN Queue(s) : LET q == Queue(s)[i] IN
       /\ q.promise # None => Readable(q.promise) /\ Current(q.promise)
       /\ q.object # None => Fresh(q.object, object[q.object].sourceRevision)
       /\ i \in FindingIds => Fresh(i[1], i[2])

\* Mutant of Follows: a question follows every change of its promise.
FollowsAll(q) == TRUE
\* A question follows the conditions that were accepted in any session, and nothing else.
Follows(q) == \A r \in q.expected .. promise[q.promise].revision - 1 : r \in followed[q.promise]

Refreshed(s, i) ==
  LET q == Queue(s)[i]
      t == task[<<Owner[s], i>>]
  IN
  IF q.status # "PENDING" THEN q
  ELSE IF i \in FindingIds /\ finding[i].status # "PENDING" THEN [q EXCEPT !.status = "RESOLVED"]
  ELSE IF t # None /\ t.status = "SNOOZED" THEN [q EXCEPT !.status = "DEFERRED"]
  ELSE IF q.promise = None THEN q
  ELSE IF Follows(q) THEN [q EXCEPT !.expected = promise[q.promise].revision]
  ELSE [q EXCEPT !.status = "STALE"]

\* Mutant of Write: the revision of the session is not compared.
Overwrite(s, stage, queue) ==
  session' = [session EXCEPT ![s] = [stage |-> stage, queue |-> queue]] /\ UNCHANGED call
\* A write of the row raises its revision: the call that was checked before it fails.
Write(s, stage, queue) ==
  /\ session' = [session EXCEPT ![s] = [stage |-> stage, queue |-> queue]]
  /\ call' = [call EXCEPT ![s] = None]

AfterReview(queue) == IF Pending(queue) = {} THEN "NEXT_ACTIONS" ELSE "REVIEW"

RefreshedQueue(s) == [i \in DOMAIN Queue(s) |-> Refreshed(s, i)]
UpToDate(s) == Verified(s) /\ RefreshedQueue(s) = Queue(s)

\* GET /review/sessions/:id, and the first step of every other call.
Refresh(s) ==
  /\ Verified(s) /\ ~UpToDate(s)
  /\ Write(s, IF session[s].stage = "REVIEW" THEN AfterReview(RefreshedQueue(s)) ELSE session[s].stage,
           RefreshedQueue(s))
  /\ UNCHANGED <<source, promise, object, finding, receipts, model, task, followed, allowed, changes, answers>>

-----------------------------------------------------------------------------
(* The session leaves its briefing; the stages after the review are in ReviewInstructions *)

Step(to) == [does |-> "step", to |-> to]
Calls(s, does) == call[s] # None /\ call[s].does = does

\* advance, up to its update
CheckAdvance(s) ==
  /\ session[s] # None /\ session[s].stage = "BRIEFING" /\ UpToDate(s)
  /\ call' = [call EXCEPT ![s] = Step(AfterReview(Queue(s)))]
  /\ UNCHANGED <<source, promise, object, finding, receipts, model, session, task, followed, allowed, changes, answers>>

Advance(s) ==
  /\ Calls(s, "step")
  /\ Write(s, call[s].to, Queue(s))
  /\ UNCHANGED <<source, promise, object, finding, receipts, model, task, followed, allowed, changes, answers>>

-----------------------------------------------------------------------------
(* Answers *)

Reply(i) == [does |-> "reply", item |-> i]

\* validateCorrection
Correctable(q) == q.promise # None

\* respond, up to respond_operational_review.  The intent is a part of the request; nothing
\* before the transaction depends on it but the two conditions repeated there.
CheckAnswer(s, i) ==
  /\ session[s].stage = "REVIEW" /\ UpToDate(s)
  /\ i \in FindingIds => i \in Visible
  /\ call' = [call EXCEPT ![s] = Reply(i)]
  /\ UNCHANGED <<source, promise, object, finding, receipts, model, session, task, followed, allowed, changes, answers>>

\* Mutant of StillOpen: the status of the finding is not read under its lock.
EvenIfSettled(i) == i \in FindingIds => Fresh(i[1], i[2])
\* The finding is locked: it must be open, and its source unchanged.
StillOpen(i) == i \in FindingIds => finding[i].status = "PENDING" /\ Fresh(i[1], i[2])
Unmoved(q) ==
  /\ q.object # None => /\ object[q.object].revision = q.expected
                        /\ Fresh(q.object, object[q.object].sourceRevision)
  /\ q.promise # None => promise[q.promise].revision = q.expected

\* What an accepted or rejected question does to its promise; None if it does nothing.
Act(i, q, intent) ==
  CASE intent = "ACCEPT" -> IF q.operation = "acknowledge" THEN None ELSE q.operation
    [] intent = "REJECT" /\ i \notin FindingIds ->
         IF q.operation = "confirm" THEN "dismiss"
         ELSE IF q.operation = "verify_fulfillment" THEN "reject_fulfilment" ELSE None
    [] OTHER -> None

Corrected(p, act) ==
  CASE act \in {"update", "correct"} -> [Revise(p) EXCEPT !.terms = @ + 1]
    [] act = "condition_update" -> [Revise(p) EXCEPT !.condition = "satisfied"]
    [] act = "evidence_add" -> Revise(p)

\* The promise after the answer.
Outcome(i, q, r) ==
  LET p == promise[q.promise]
      act == CASE r.intent = "PARTIAL" -> "evidence_add"
               [] r.intent = "CORRECT" -> r.act
               [] OTHER -> Act(i, q, r.intent)
  IN IF act = None THEN p
     ELSE IF act \in {"update", "correct", "condition_update", "evidence_add"} THEN Corrected(p, act)
     ELSE Transition(q.promise, act)

\* The promise of an accepted finding: the row with its wording, confirmed, or a new one.
Promised(c) ==
  IF promise[c] = None
  THEN [Found(source[c].revision, "confirmed", "none") EXCEPT !.revision = 2]
  ELSE IF promise[c].review = "confirmed" THEN promise[c] ELSE Confirms(promise[c])

ToConfirm(c) == IF promise[c] = None THEN FALSE ELSE promise[c].review # "confirmed"
Makes(i, q) == i \in FindingIds /\ q.promise = None /\ i[3] = "PROMISE"
Tracks(i, q) == i \in FindingIds /\ q.promise = None /\ q.object = None /\ i[3] # "PROMISE"

\* Mutant of Dependent: other questions on the promise go on.
GoesOn(q, r) == "PENDING"
\* Other questions on the promise follow the answer, unless it changed what they ask.
Dependent(q, r) ==
  IF r.intent = "CORRECT" \/ q.operation \in {"cancel", "verify_fulfillment", "correct"}
  THEN "STALE" ELSE "PENDING"

Answered(s, r, next) ==
  LET q == Queue(s)[r.item] IN
  [j \in DOMAIN Queue(s) |-> LET other == Queue(s)[j] IN
     IF j = r.item
     THEN [other EXCEPT !.status = IF r.intent \in {"DEFER", "PARTIAL"} THEN "DEFERRED" ELSE "RESOLVED"]
     ELSE IF /\ other.status = "PENDING" /\ r.intent # "DEFER"
             /\ q.promise # None /\ other.promise = q.promise /\ next # q.expected
             /\ other.expected = q.expected
     THEN [other EXCEPT !.expected = next, !.status = Dependent(q, r)]
     ELSE other]

Tasked(s, r, next) ==
  task' = [task EXCEPT ![<<Owner[s], r.item>>] =
    [status |-> IF r.intent = "REJECT" THEN "DISMISSED"
                ELSE IF r.intent \in {"DEFER", "PARTIAL"} THEN "SNOOZED" ELSE "RESOLVED",
     revision |-> next]]

\* An answer that decides nothing now: DEFER, and SNOOZE, which says for how long.
Postpone(s) ==
  /\ Calls(s, "reply")
  /\ LET r == [item |-> call[s].item, intent |-> "DEFER"]
     IN Write(s, AfterReview(Answered(s, r, 0)), Answered(s, r, 0)) /\ Tasked(s, r, 0)
  /\ UNCHANGED <<source, promise, object, finding, receipts, model, followed, allowed, changes, answers>>

\* respond_operational_review: the decision, its question and its history in one transaction.
Decide(s, intent, act) ==
  LET i == call[s].item
      r == [item |-> i, intent |-> intent, act |-> act]
      q == Queue(s)[i]
      next == IF q.promise = None THEN 0 ELSE promise'[q.promise].revision
  IN
  /\ Calls(s, "reply")
  /\ q.clarify => intent # "ACCEPT"
  /\ StillOpen(i) /\ Unmoved(q)
  /\ intent \in {"PARTIAL", "CORRECT"} => Correctable(q)
  /\ r.intent = "ACCEPT" /\ q.promise # None => Possible(q.promise, q.operation)
  /\ r.intent = "ACCEPT" /\ Makes(i, q) /\ ToConfirm(i[1]) => Possible(i[1], "confirm")
  /\ promise' = IF q.promise # None THEN [promise EXCEPT ![q.promise] = Outcome(i, q, r)]
                ELSE IF r.intent = "ACCEPT" /\ Makes(i, q) THEN [promise EXCEPT ![i[1]] = Promised(i[1])]
                ELSE promise
  /\ object' = IF r.intent # "ACCEPT" \/ q.promise # None THEN object
               ELSE IF q.object # None
               THEN [object EXCEPT ![q.object] = Resolved(@, "FULFILLED")]
               ELSE IF Tracks(i, q) /\ i[3] = "EXPECTED_DELIVERABLE" /\ object[i[1]] = None
               THEN [object EXCEPT ![i[1]] = [status |-> "OPEN", revision |-> 1, sourceRevision |-> i[2]]]
               ELSE object
  /\ finding' = IF i \in FindingIds /\ r.intent # "PARTIAL"
                THEN [finding EXCEPT ![i].status = IF r.intent = "REJECT" THEN "REJECTED" ELSE "ACCEPTED"]
                ELSE finding
  /\ followed' = IF r.intent = "ACCEPT" /\ q.promise # None /\ q.operation = "condition_update"
                 THEN [followed EXCEPT ![q.promise] = @ \cup {q.expected}] ELSE followed
  /\ Write(s, AfterReview(Answered(s, r, next)), Answered(s, r, next))
  /\ Tasked(s, r, next)
  /\ answers' = answers \cup
       {[by |-> s, question |-> i, settles |-> i \in FindingIds /\ r.intent # "PARTIAL",
         asked |-> <<q.terms, IF i \in FindingIds THEN i[2] ELSE 0>>,
         found |-> <<IF q.promise = None THEN q.terms ELSE promise[q.promise].terms,
                     IF i \in FindingIds THEN source[i[1]].revision ELSE 0>>]}
  /\ UNCHANGED <<source, receipts, model, allowed, changes>>

-----------------------------------------------------------------------------

Next ==
  \/ \E c \in Comms : SourceChanges(c) \/ LifecycleRoute(c) \/ LedgerWrites(c) \/ ResolveObject(c)
  \/ \E o \in Owners : Revoke(o) \/ \E i \in Ids : SnoozeEnds(o, i)
  \/ \E c \in Comms : Classify(c) \/ \E on \in Comms : Evaluate(c, on) \/ EvaluateArrival(c, on)
  \/ Store
  \/ \E s \in Sessions : CreateSession(s) \/ Refresh(s) \/ CheckAdvance(s) \/ Advance(s)
                         \/ Postpone(s)
                         \/ \E intent \in {"ACCEPT", "REJECT", "PARTIAL"} : Decide(s, intent, None)
                         \/ \E act \in Corrections : Decide(s, "CORRECT", act)
  \/ \E s \in {x \in Sessions : session[x] # None} : \E i \in Pending(Queue(s)) : CheckAnswer(s, i)

Spec == Init /\ [][Next]_vars

-----------------------------------------------------------------------------

\* An answer is recorded only against the terms its question was about and the revision of the
\* communication it cites, though evaluations, other sessions and the ledger write meanwhile.
AnswersFitTheQuestion == \A a \in answers : a.asked = a.found

\* However many sessions ask about it, a finding is settled by one answer.
FindingsSettleOnce ==
  \A a, b \in answers : a.settles /\ b.settles /\ a.question = b.question => a = b

\* A session never waits for an answer it has no question for, and never leaves a question behind.
StageFitsQueue ==
  \A s \in Sessions : session[s] # None /\ session[s].stage # "BRIEFING" =>
    (session[s].stage = "REVIEW" <=> Pending(Queue(s)) # {})
=============================================================================
