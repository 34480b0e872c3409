----------------------- MODULE OperationalReview_proofs -----------------------
(***************************************************************************)
(* For any number of communications, sessions, owners, revisions and       *)
(* writes of others: answers are recorded against what was asked, a        *)
(* finding is settled once, and a session is in review exactly while it    *)
(* has a question.  The second part is about ReviewInstructions, for any   *)
(* number of sessions, instructions, attempts of the outbox and switches:  *)
(* the summary counts every instruction, and what is shown of a settled    *)
(* one is what the executor did.                                           *)
(***************************************************************************)
EXTENDS OperationalReview, ReviewInstructions, TLAPS

Queues == UNION {[D -> Item] : D \in {E \in SUBSET Ids : Cardinality(E) <= MaxItems}}
SessionRow == [stage : Stages, queue : Queues]
Move == [does : {"step"}, to : {"REVIEW", "NEXT_ACTIONS"}]
Said == [does : {"reply"}, item : Ids]
Task == [status : {"RESOLVED", "DISMISSED", "SNOOZED"}, revision : Nat]

Typed ==
  /\ source \in [Comms -> [revision : Nat, ok : BOOLEAN]]
  /\ promise \in [Comms -> Promise \cup {None}]
  /\ object \in [Comms -> Object \cup {None}]
  /\ finding \in [FindingIds -> Finding \cup {None}]
  /\ model \in Requests \cup {None} /\ receipts \subseteq Requests
  /\ session \in [Sessions -> SessionRow \cup {None}]
  /\ call \in [Sessions -> Move \cup Said \cup {None}]
  /\ task \in [Owners \X Ids -> Task \cup {None}]
  /\ followed \in [Comms -> SUBSET Nat]
  /\ allowed \subseteq Owners /\ changes \in 0 .. MaxChanges
  /\ answers \subseteq Answer

\* A question asked at a revision of the promise, when it had these terms: if the promise has
\* only followed since, they still are its terms.
Same(c, revision, terms) ==
  /\ promise[c] # None /\ revision <= promise[c].revision
  /\ (\A r \in Nat : revision <= r /\ r < promise[c].revision => r \in followed[c])
       => promise[c].terms = terms

PromiseOK(c) ==
  /\ promise[c] # None => promise[c].revision > 0 /\ promise[c].terms > 0
  /\ \A r \in followed[c] : promise[c] # None /\ r < promise[c].revision

\* What an evaluation was asked, and found, of a promise or of an object.
About(kind, of, revision, terms) ==
  IF kind = "ARRIVAL" THEN of # None /\ object[of] # None
  ELSE /\ revision = 0 <=> terms = 0
       /\ revision # 0 => of # None /\ Same(of, revision, terms)

FindingOK(f) == finding[f] # None => About(f[3], finding[f].of, finding[f].revision, finding[f].terms)

ModelOK ==
  model # None =>
    /\ model.of = None => model.revision = 0 /\ model.terms = 0
    /\ model.of = "promise" => model.revision # 0 /\ model.terms # 0 /\ Same(model.on, model.revision, model.terms)
    /\ model.of = "object" => object[model.on] # None

ItemOK(q) ==
  /\ q.promise # None /\ q.status = "PENDING" => Same(q.promise, q.expected, q.terms)
  /\ q.object # None => object[q.object] # None

\* What was checked is about the session as it is: every write of it forgets the call.
CallOK(s) ==
  call[s] # None =>
    /\ session[s] # None
    /\ call[s].does = "step" => call[s].to = AfterReview(Queue(s))
    /\ call[s].does = "reply" => call[s].item \in Pending(Queue(s))

SessionOK(s) ==
  session[s] # None =>
    \A i \in DOMAIN Queue(s) : /\ ItemOK(Queue(s)[i])
                               /\ i \in FindingIds => finding[i] # None

AnswerOK(a) ==
  /\ a.asked = a.found
  /\ a.settles => /\ a.question \in FindingIds
                  /\ finding[a.question] # None /\ finding[a.question].status # "PENDING"

Inv ==
  /\ Typed
  /\ \A c \in Comms : PromiseOK(c)
  /\ \A f \in FindingIds : FindingOK(f)
  /\ ModelOK
  /\ \A s \in Sessions : SessionOK(s) /\ CallOK(s)
  /\ StageFitsQueue
  /\ \A a \in answers : AnswerOK(a)
  /\ FindingsSettleOnce

-----------------------------------------------------------------------------
(* Types *)

Lifecycles == {"confirm", "verify_fulfillment", "cancel", "reopen", "supersede", "reject_fulfilment", "dismiss"}

\* A write of a promise: its revision rises by one.
Written(p, q) == q \in Promise /\ q.revision = p.revision + 1 /\ q.terms >= p.terms

LEMMA ReviseWrites ==
  ASSUME NEW p \in Promise
  PROVE  Revise(p) \in Promise /\ Revise(p).revision = p.revision + 1 /\ Revise(p).terms = p.terms
BY DEF Revise, Promise

LEMMA TransitionWrites ==
  ASSUME NEW c \in Comms, promise[c] \in Promise, NEW act \in Lifecycles
  PROVE  Written(promise[c], Transition(c, act)) /\ Transition(c, act).terms = promise[c].terms
<1> DEFINE p == promise[c]
           r == Revise(p)
           k == Confirms(p)
           Good(x) == x \in Promise /\ x.revision = p.revision + 1 /\ x.terms = p.terms
<1>1. Good(r)
  BY ReviseWrites
<1> HIDE DEF r
<1>2. k = [r EXCEPT !.review = "confirmed"]
  BY DEF Confirms, r
<1> HIDE DEF k
<1>3. Good(k)
  BY <1>1, <1>2 DEF Promise
<1>4. \A o \in {"promised", "fulfilled", "cancelled", "superseded"} :
        Good([k EXCEPT !.observed = o]) /\ Good([r EXCEPT !.observed = o])
  BY <1>1, <1>3 DEF Promise
<1>5. Good([r EXCEPT !.review = "dismissed"])
  BY <1>1 DEF Promise
<1> HIDE DEF Good
<1>6. Good(Transition(c, act))
  <2>1. act = "confirm" => Transition(c, act) = k
    BY DEF Transition, k
  <2>2. act = "verify_fulfillment" => Transition(c, act) = [k EXCEPT !.observed = "fulfilled"]
    BY DEF Transition, k
  <2>3. act = "cancel" => Transition(c, act) = [r EXCEPT !.observed = "cancelled"]
    BY DEF Transition, r
  <2>4. act \in {"reopen", "reject_fulfilment"} => Transition(c, act) = [k EXCEPT !.observed = "promised"]
    BY DEF Transition, k
  <2>5. act = "supersede" => Transition(c, act) = [k EXCEPT !.observed = "superseded"]
    BY DEF Transition, k
  <2>6. act = "dismiss" => Transition(c, act) = [r EXCEPT !.review = "dismissed"]
    BY DEF Transition, r
  <2> QED BY <1>3, <1>4, <1>5, <2>1, <2>2, <2>3, <2>4, <2>5, <2>6 DEF Lifecycles
<1>7. p.terms \in Nat
  BY DEF Promise
<1> QED BY <1>6, <1>7 DEF Good, Written

LEMMA CorrectedWrites ==
  ASSUME NEW p \in Promise, NEW act \in {"update", "correct", "condition_update", "evidence_add"}
  PROVE  Written(p, Corrected(p, act))
         /\ (act \in {"condition_update", "evidence_add"} => Corrected(p, act).terms = p.terms)
<1> DEFINE r == Revise(p)
<1>1. r \in Promise /\ r.revision = p.revision + 1 /\ r.terms = p.terms /\ p.terms \in Nat
  BY ReviseWrites DEF Promise
<1> HIDE DEF r
<1>2. /\ [r EXCEPT !.terms = @ + 1] \in Promise /\ [r EXCEPT !.terms = @ + 1].revision = p.revision + 1
      /\ [r EXCEPT !.terms = @ + 1].terms = p.terms + 1
  BY <1>1 DEF Promise
<1>3. /\ [r EXCEPT !.condition = "satisfied"] \in Promise
      /\ [r EXCEPT !.condition = "satisfied"].revision = p.revision + 1
      /\ [r EXCEPT !.condition = "satisfied"].terms = p.terms
  BY <1>1 DEF Promise
<1>4. Corrected(p, act) = IF act \in {"update", "correct"} THEN [r EXCEPT !.terms = @ + 1]
                          ELSE IF act = "condition_update" THEN [r EXCEPT !.condition = "satisfied"] ELSE r
  BY DEF Corrected, r
<1> QED BY <1>1, <1>2, <1>3, <1>4 DEF Written

LEMMA IdParts ==
  ASSUME NEW f \in FindingIds
  PROVE  f[1] \in Comms /\ f[2] \in Nat \ {0} /\ f[3] \in Kinds /\ f = <<f[1], f[2], f[3]>>
BY ReviewAssumption DEF FindingIds

LEMMA OtherIds ==
  ASSUME NEW i \in {"promise", "object"} \X Comms
  PROVE  i \notin FindingIds
BY DEF FindingIds

LEMMA QueueForm ==
  ASSUME NEW q \in Queues
  PROVE  /\ DOMAIN q \subseteq Ids /\ Cardinality(DOMAIN q) <= MaxItems
         /\ \A i \in DOMAIN q : q[i] \in Item
BY DEF Queues

\* The other way about.
LEMMA QueueMade ==
  ASSUME NEW D \in SUBSET Ids, Cardinality(D) <= MaxItems, NEW q \in [D -> Item]
  PROVE  q \in Queues /\ DOMAIN q = D
BY DEF Queues

-----------------------------------------------------------------------------
(* What every step leaves true of the rows it does not write *)

StageOK(s) ==
  session[s] # None /\ session[s].stage # "BRIEFING" =>
    (session[s].stage = "REVIEW" <=> Pending(Queue(s)) # {})

\* A promise is left alone, made, or written once; only a condition that leaves its terms as
\* they were has its revision followed.
Moves(c) ==
  \/ promise'[c] = promise[c] /\ followed'[c] = followed[c]
  \/ /\ promise[c] = None /\ followed'[c] = followed[c]
     /\ promise'[c] \in Promise /\ promise'[c].revision > 0 /\ promise'[c].terms > 0
  \/ /\ promise[c] # None /\ Written(promise[c], promise'[c])
     /\ \/ followed'[c] = followed[c]
        \/ /\ followed'[c] = followed[c] \cup {promise[c].revision}
           /\ promise'[c].terms = promise[c].terms

ObjectStays(c) == object[c] # None => object'[c] # None

\* Once settled, a finding stays settled, and none is forgotten.
FindingStays(f) ==
  finding[f] # None => finding'[f] # None /\ (finding[f].status # "PENDING" => finding'[f].status # "PENDING")

LEMMA MoveKeeps ==
  ASSUME Typed, NEW c \in Comms, PromiseOK(c), Moves(c)
  PROVE  PromiseOK(c)' /\ \A v, t \in Nat : Same(c, v, t) => Same(c, v, t)'
<1> DEFINE p == promise[c]
           n == promise'[c]
<1>1. p = None \/ (p \in Promise /\ p.revision \in Nat /\ p.terms \in Nat)
  BY DEF Typed, Promise
<1>2. followed[c] \in SUBSET Nat
  BY DEF Typed
<1>3. n \in Promise => n # None /\ n.revision \in Nat /\ n.terms \in Nat
  BY NoneAssumption DEF Promise
<1>4. CASE n = p /\ followed'[c] = followed[c]
  BY <1>4 DEF PromiseOK, Same
<1>5. CASE /\ p = None /\ followed'[c] = followed[c]
           /\ n \in Promise /\ n.revision > 0 /\ n.terms > 0
  BY <1>2, <1>3, <1>5 DEF PromiseOK, Same
<1>6. CASE p # None /\ Written(p, n)
  <2>1. n \in Promise /\ n # None /\ n.revision = p.revision + 1 /\ n.terms >= p.terms
    BY <1>3, <1>6 DEF Written
  <2>2. CASE followed'[c] = followed[c]
    <3>1. PromiseOK(c)'
      BY <1>1, <1>2, <1>3, <1>6, <2>1, <2>2 DEF PromiseOK
    <3>2. ASSUME NEW v \in Nat, NEW t \in Nat, Same(c, v, t)
          PROVE  Same(c, v, t)'
      <4>1. v <= p.revision /\ p.revision \in Nat /\ p.revision < n.revision /\ p.revision \notin followed'[c]
        BY <1>1, <1>6, <2>1, <2>2, <3>2 DEF PromiseOK, Same
      <4> QED BY <1>3, <2>1, <4>1 DEF Same
    <3> QED BY <3>1, <3>2
  <2>3. CASE followed'[c] = followed[c] \cup {p.revision} /\ n.terms = p.terms
    <3>1. PromiseOK(c)'
      BY <1>1, <1>2, <1>3, <1>6, <2>1, <2>3 DEF PromiseOK
    <3>2. ASSUME NEW v \in Nat, NEW t \in Nat, Same(c, v, t)
          PROVE  Same(c, v, t)'
      <4>1. v <= p.revision /\ v <= n.revision
        BY <1>1, <1>6, <2>1, <3>2 DEF Same
      <4>2. ASSUME \A r \in Nat : v <= r /\ r < n.revision => r \in followed'[c]
            PROVE  n.terms = t
        <5>1. \A r \in Nat : v <= r /\ r < p.revision => r \in followed[c]
          BY <1>1, <1>6, <2>1, <2>3, <4>2
        <5> QED BY <2>3, <3>2, <5>1 DEF Same
      <4> QED BY <2>1, <4>1, <4>2 DEF Same
    <3> QED BY <3>1, <3>2
  <2> QED BY <1>6, <2>2, <2>3 DEF Moves, Written, PromiseOK
<1> QED BY <1>4, <1>5, <1>6 DEF Moves

\* Each part of Inv holds of a row that a step does not write.
LEMMA Stays ==
  ASSUME Inv, Typed', \A c \in Comms : Moves(c) /\ ObjectStays(c), \A f \in FindingIds : FindingStays(f)
  PROVE  /\ \A c \in Comms : PromiseOK(c)' /\ \A v, t \in Nat : Same(c, v, t) => Same(c, v, t)'
         /\ \A f \in FindingIds : finding'[f] = finding[f] => FindingOK(f)'
         /\ model' = model => ModelOK'
         /\ \A q \in Item : ItemOK(q) => ItemOK(q)'
         /\ \A s \in Sessions : session'[s] = session[s] =>
              SessionOK(s)' /\ StageOK(s)' /\ (call'[s] = call[s] => CallOK(s)')
         /\ \A a \in answers : AnswerOK(a)'
<1>1. \A c \in Comms : PromiseOK(c)' /\ \A v, t \in Nat : Same(c, v, t) => Same(c, v, t)'
  BY MoveKeeps DEF Inv
<1>2. ASSUME NEW f \in FindingIds, finding'[f] = finding[f]
      PROVE  FindingOK(f)'
  <2>1. CASE finding[f] = None
    BY <1>2, <2>1 DEF FindingOK
  <2>2. CASE finding[f] # None
    <3> DEFINE g == finding[f]
    <3>1. g.of \in Comms \cup {None} /\ g.revision \in Nat /\ g.terms \in Nat
      BY <2>2 DEF Inv, Typed, Finding
    <3>2. About(f[3], g.of, g.revision, g.terms)
      BY <2>2 DEF Inv, FindingOK
    <3>3. About(f[3], g.of, g.revision, g.terms)'
      BY <1>1, <1>2, <3>1, <3>2 DEF About, ObjectStays
    <3> QED BY <1>2, <3>3 DEF FindingOK
  <2> QED BY <2>1, <2>2
<1>3. model' = model => ModelOK'
  <2> SUFFICES ASSUME model' = model, model # None
               PROVE  ModelOK'
    BY DEF ModelOK
  <2>1. model.on \in Comms /\ model.revision \in Nat /\ model.terms \in Nat
    BY DEF Inv, Typed, Requests
  <2> QED BY <1>1, <2>1 DEF Inv, ModelOK, ObjectStays
<1>4. ASSUME NEW q \in Item, ItemOK(q)
      PROVE  ItemOK(q)'
  <2>1. /\ q.promise \in Comms \cup {None} /\ q.object \in Comms \cup {None}
        /\ q.expected \in Nat /\ q.terms \in Nat
    BY DEF Item
  <2> QED BY <1>1, <1>4, <2>1 DEF ItemOK, ObjectStays
<1>5. ASSUME NEW s \in Sessions, session'[s] = session[s]
      PROVE  SessionOK(s)' /\ StageOK(s)' /\ (call'[s] = call[s] => CallOK(s)')
  <2>1. Queue(s)' = Queue(s)
    BY <1>5 DEF Queue
  <2>2. StageOK(s)'
    BY <1>5, <2>1 DEF Inv, StageFitsQueue, StageOK, Pending
  <2>3. call'[s] = call[s] => CallOK(s)'
    BY <1>5, <2>1 DEF Inv, CallOK, AfterReview, Pending
  <2>4. SessionOK(s)'
    <3> SUFFICES ASSUME session[s] # None, NEW i \in DOMAIN Queue(s)
                 PROVE  ItemOK(Queue(s)[i])' /\ (i \in FindingIds => finding'[i] # None)
      BY <1>5, <2>1 DEF SessionOK
    <3>1. Queue(s)[i] \in Item
      BY QueueForm DEF Inv, Typed, SessionRow, Queue
    <3>2. ItemOK(Queue(s)[i]) /\ (i \in FindingIds => finding[i] # None)
      BY DEF Inv, SessionOK
    <3> QED BY <1>4, <2>1, <3>1, <3>2 DEF FindingStays
  <2> QED BY <2>2, <2>3, <2>4
<1>6. ASSUME NEW a \in answers
      PROVE  AnswerOK(a)'
  <2>1. AnswerOK(a)
    BY DEF Inv
  <2> QED BY <2>1 DEF AnswerOK, FindingStays
<1> QED BY <1>1, <1>2, <1>3, <1>4, <1>5, <1>6

-----------------------------------------------------------------------------
(* Three kinds of steps: on the rows, on one session, and of an answer *)

LEMMA RowsStep ==
  ASSUME Inv, Typed', \A c \in Comms : Moves(c) /\ ObjectStays(c), \A f \in FindingIds : FindingStays(f),
         UNCHANGED <<session, call, answers>>, \A f \in FindingIds : FindingOK(f)', ModelOK'
  PROVE  Inv'
<1>1. \A s \in Sessions : SessionOK(s)' /\ StageOK(s)' /\ CallOK(s)'
  BY Stays
<1>2. \A a \in answers' : AnswerOK(a)'
  BY Stays
<1>3. StageFitsQueue'
  BY <1>1 DEF StageFitsQueue, StageOK
<1>4. FindingsSettleOnce'
  BY DEF Inv, FindingsSettleOnce
<1> QED BY Stays, <1>1, <1>2, <1>3, <1>4 DEF Inv

LEMMA OthersStep ==
  ASSUME Inv, Typed', \A c \in Comms : Moves(c) /\ ObjectStays(c),
         UNCHANGED <<finding, model, session, call, answers>>
  PROVE  Inv'
<1>1. \A f \in FindingIds : FindingStays(f)
  BY DEF FindingStays
<1> QED BY Stays, RowsStep, <1>1

LEMMA SessionStep ==
  ASSUME Inv, Typed', UNCHANGED <<promise, object, finding, model, followed, answers>>,
         NEW s \in Sessions, SessionOK(s)', StageOK(s)', CallOK(s)',
         \A t \in Sessions \ {s} : session'[t] = session[t] /\ call'[t] = call[t]
  PROVE  Inv'
<1>1. \A c \in Comms : Moves(c) /\ ObjectStays(c)
  BY DEF Moves, ObjectStays
<1>2. \A f \in FindingIds : FindingStays(f)
  BY DEF FindingStays
<1>3. \A t \in Sessions : SessionOK(t)' /\ StageOK(t)' /\ CallOK(t)'
  <2> TAKE t \in Sessions
  <2>1. CASE t = s
    BY <2>1
  <2>2. CASE t # s
    BY Stays, <1>1, <1>2, <2>2
  <2> QED BY <2>1, <2>2
<1>4. StageFitsQueue'
  BY <1>3 DEF StageFitsQueue, StageOK
<1>5. FindingsSettleOnce' /\ \A a \in answers' : AnswerOK(a)'
  BY Stays, <1>1, <1>2 DEF Inv, FindingsSettleOnce
<1> QED BY Stays, <1>1, <1>2, <1>3, <1>4, <1>5 DEF Inv

\* A write of a session whose questions are in order.
LEMMA Writes ==
  ASSUME Typed, NEW s \in Sessions, NEW level \in Stages, NEW queue \in Queues,
         Write(s, level, queue),
         \A i \in DOMAIN queue : ItemOK(queue[i])' /\ (i \in FindingIds => finding'[i] # None),
         level # "BRIEFING" => (level = "REVIEW" <=> Pending(queue) # {})
  PROVE  /\ session' \in [Sessions -> SessionRow \cup {None}]
         /\ call' \in [Sessions -> Move \cup Said \cup {None}]
         /\ SessionOK(s)' /\ StageOK(s)' /\ CallOK(s)'
         /\ \A t \in Sessions \ {s} : session'[t] = session[t] /\ call'[t] = call[t]
<1>1. /\ session' = [session EXCEPT ![s] = [stage |-> level, queue |-> queue]]
      /\ call' = [call EXCEPT ![s] = None]
  BY DEF Write
<1>2. [stage |-> level, queue |-> queue] \in SessionRow
  BY DEF SessionRow
<1>3. /\ session' \in [Sessions -> SessionRow \cup {None}]
      /\ call' \in [Sessions -> Move \cup Said \cup {None}]
  BY <1>1, <1>2 DEF Typed
<1>4. session'[s] = [stage |-> level, queue |-> queue] /\ call'[s] = None
  BY <1>1 DEF Typed
<1>5. Queue(s)' = queue /\ session'[s].stage = level
  BY <1>4 DEF Queue
<1>6. Pending(Queue(s))' = Pending(queue)
  BY <1>5 DEF Pending
<1>7. SessionOK(s)' /\ StageOK(s)' /\ CallOK(s)'
  BY <1>4, <1>5, <1>6 DEF SessionOK, StageOK, CallOK
<1>8. \A t \in Sessions \ {s} : session'[t] = session[t] /\ call'[t] = call[t]
  BY <1>1 DEF Typed
<1> QED BY <1>3, <1>7, <1>8

LEMMA AfterReviewFits ==
  ASSUME NEW queue
  PROVE  /\ AfterReview(queue) \in {"REVIEW", "NEXT_ACTIONS"}
         /\ AfterReview(queue) = "REVIEW" <=> Pending(queue) # {}
BY DEF AfterReview

-----------------------------------------------------------------------------
(* What others do meanwhile *)

LEMMA SourceChangesKeeps ==
  ASSUME Inv, NEW c \in Comms, SourceChanges(c)
  PROVE  Inv'
<1>1. source' \in [Comms -> [revision : Nat, ok : BOOLEAN]]
  BY DEF Inv, Typed, SourceChanges
<1>2. Typed'
  BY <1>1, ReviewAssumption DEF Inv, Typed, SourceChanges, Change
<1>3. \A x \in Comms : Moves(x) /\ ObjectStays(x)
  BY DEF SourceChanges, Moves, ObjectStays
<1> QED BY <1>2, <1>3, OthersStep DEF SourceChanges

\* Steps that write one promise.
LEMMA PromiseStep ==
  ASSUME Inv, NEW c \in Comms, NEW p \in Promise, Change, promise' = [promise EXCEPT ![c] = p],
         IF promise[c] = None THEN p.revision > 0 /\ p.terms > 0 ELSE Written(promise[c], p),
         UNCHANGED <<source, object, finding, receipts, model, session, call, task, followed, allowed, answers>>
  PROVE  Inv'
<1>1. promise' \in [Comms -> Promise \cup {None}]
  BY DEF Inv, Typed
<1>2. Typed'
  BY <1>1, ReviewAssumption DEF Inv, Typed, Change
<1>3. \A x \in Comms : Moves(x) /\ ObjectStays(x)
  BY DEF Inv, Typed, Moves, ObjectStays
<1> QED BY <1>2, <1>3, OthersStep

LEMMA LifecycleRouteKeeps ==
  ASSUME Inv, NEW c \in Comms, LifecycleRoute(c)
  PROVE  Inv'
<1>1. PICK act \in Acts : promise' = [promise EXCEPT ![c] = Transition(c, act)]
  BY DEF LifecycleRoute
<1>2. act \in Lifecycles /\ promise[c] # None /\ promise[c] \in Promise
  BY ReviewAssumption DEF LifecycleRoute, Lifecycles, Inv, Typed
<1>3. PICK p : p = Transition(c, act)
  OBVIOUS
<1>4. Written(promise[c], p) /\ p \in Promise
  BY <1>2, <1>3, TransitionWrites DEF Written
<1> QED BY <1>1, <1>2, <1>3, <1>4, PromiseStep DEF LifecycleRoute

LEMMA FoundTyped ==
  ASSUME NEW v \in Nat, NEW review \in {"needs_review", "confirmed"}, NEW condition \in {"none", "pending"}
  PROVE  /\ Found(v, review, condition) \in Promise
         /\ Found(v, review, condition).revision = 1 /\ Found(v, review, condition).terms = 1
BY DEF Found, Promise

LEMMA LedgerWritesKeeps ==
  ASSUME Inv, NEW c \in Comms, LedgerWrites(c)
  PROVE  Inv'
<1>1. source[c].revision \in Nat
  BY DEF Inv, Typed
<1>2. CASE promise[c] = None
  <2>1. PICK p : p = Found(source[c].revision, "needs_review", "none")
    OBVIOUS
  <2>2. p \in Promise /\ p.revision = 1 /\ p.terms = 1
    BY <1>1, <2>1, FoundTyped
  <2>3. promise' = [promise EXCEPT ![c] = p]
    BY <1>2, <2>1 DEF LedgerWrites
  <2>4. IF promise[c] = None THEN p.revision > 0 /\ p.terms > 0 ELSE Written(promise[c], p)
    BY <1>2, <2>2
  <2>5. /\ Change
        /\ UNCHANGED <<source, object, finding, receipts, model, session, call, task, followed, allowed, answers>>
    BY DEF LedgerWrites
  <2> QED BY <2>2, <2>3, <2>4, <2>5, PromiseStep
<1>3. CASE promise[c] # None
  <2>1. promise[c] \in Promise
    BY <1>3 DEF Inv, Typed
  <2> DEFINE r == Revise(promise[c])
  <2>2. r \in Promise /\ r.revision = promise[c].revision + 1 /\ r.terms = promise[c].terms /\ r.terms \in Nat
    BY <2>1, ReviseWrites DEF Promise
  <2>3. PICK p : /\ p \in {[r EXCEPT !.terms = @ + 1], [r EXCEPT !.observed = "completion_claimed"],
                           [r EXCEPT !.sourceRevision = source[c].revision]}
                 /\ promise' = [promise EXCEPT ![c] = p]
    BY <1>3 DEF LedgerWrites
  <2> HIDE DEF r
  <2>4. p \in Promise /\ Written(promise[c], p)
    BY <1>1, <2>2, <2>3 DEF Written, Promise
  <2> QED BY <1>3, <2>3, <2>4, PromiseStep DEF LedgerWrites
<1> QED BY <1>2, <1>3

LEMMA ResolvedTyped ==
  ASSUME NEW o \in Object, NEW status \in {"OPEN", "FULFILLED", "CANCELLED"}
  PROVE  Resolved(o, status) \in Object
<1> DEFINE x == [o EXCEPT !.revision = @ + 1]
<1>1. x \in Object
  BY DEF Object
<1>2. Resolved(o, status) = [x EXCEPT !.status = status]
  BY DEF Resolved
<1> HIDE DEF x
<1> QED BY <1>1, <1>2 DEF Object

LEMMA ResolveObjectKeeps ==
  ASSUME Inv, NEW c \in Comms, ResolveObject(c)
  PROVE  Inv'
<1>1. PICK status \in {"OPEN", "FULFILLED", "CANCELLED"} :
        object' = [object EXCEPT ![c] = Resolved(@, status)]
  BY DEF ResolveObject
<1>2. object[c] \in Object
  BY DEF ResolveObject, Inv, Typed
<1>3. PICK g : g = Resolved(object[c], status)
  OBVIOUS
<1>4. g \in Object
  BY <1>2, <1>3, ResolvedTyped
<1>5. object' = [object EXCEPT ![c] = g]
  BY <1>1, <1>3
<1>6. object' \in [Comms -> Object \cup {None}]
  BY <1>4, <1>5 DEF Inv, Typed
<1>7. Typed'
  BY <1>6, ReviewAssumption DEF ResolveObject, Inv, Typed, Change
<1>8. \A x \in Comms : Moves(x) /\ ObjectStays(x)
  BY <1>4, <1>5, NoneAssumption DEF ResolveObject, Inv, Typed, Moves, ObjectStays
<1> QED BY <1>7, <1>8, OthersStep DEF ResolveObject

LEMMA RevokeKeeps ==
  ASSUME Inv, NEW o \in Owners, Revoke(o)
  PROVE  Inv'
<1>1. Typed'
  BY ReviewAssumption DEF Revoke, Inv, Typed, Change
<1>2. \A x \in Comms : Moves(x) /\ ObjectStays(x)
  BY DEF Revoke, Moves, ObjectStays
<1> QED BY <1>1, <1>2, OthersStep DEF Revoke

LEMMA SnoozeEndsKeeps ==
  ASSUME Inv, NEW o \in Owners, NEW i \in Ids, SnoozeEnds(o, i)
  PROVE  Inv'
<1>1. Typed'
  BY ReviewAssumption DEF SnoozeEnds, Inv, Typed, Change
<1>2. \A x \in Comms : Moves(x) /\ ObjectStays(x)
  BY DEF SnoozeEnds, Moves, ObjectStays
<1> QED BY <1>1, <1>2, OthersStep DEF SnoozeEnds

-----------------------------------------------------------------------------
(* Findings *)

LEMMA AskKeeps ==
  ASSUME Inv, NEW request \in Requests, Ask(request),
         request.of = None => request.revision = 0 /\ request.terms = 0,
         request.of = "promise" => /\ request.revision # 0 /\ request.terms # 0
                                   /\ Same(request.on, request.revision, request.terms),
         request.of = "object" => object[request.on] # None
  PROVE  Inv'
<1>1. Typed'
  BY DEF Ask, Inv, Typed
<1>2. ModelOK'
  BY DEF Ask, ModelOK, Same
<1>3. \A c \in Comms : Moves(c) /\ ObjectStays(c)
  BY DEF Ask, Moves, ObjectStays
<1>4. \A f \in FindingIds : FindingStays(f)
  BY DEF Ask, FindingStays
<1>5. \A f \in FindingIds : FindingOK(f)'
  BY <1>1, <1>3, <1>4, Stays DEF Ask
<1> QED BY <1>1, <1>2, <1>3, <1>4, <1>5, RowsStep DEF Ask

LEMMA RequestTyped ==
  ASSUME Typed, NEW c \in Comms, NEW of \in {"promise", "object", None}, NEW on \in Comms,
         NEW revision \in Nat, NEW terms \in Nat, NEW known \in SUBSET Comms
  PROVE  /\ Request(c, of, on, revision, terms, known) \in Requests
         /\ Request(c, of, on, revision, terms, known).of = of
         /\ Request(c, of, on, revision, terms, known).on = on
         /\ Request(c, of, on, revision, terms, known).revision = revision
         /\ Request(c, of, on, revision, terms, known).terms = terms
<1>1. source[c].revision \in Nat
  BY DEF Typed
<1> QED BY <1>1 DEF Request, Requests

LEMMA ClassifyKeeps ==
  ASSUME Inv, NEW c \in Comms, Classify(c)
  PROVE  Inv'
<1>1. PICK known \in SUBSET Comms : known = {x \in Comms : Readable(x)}
  OBVIOUS
<1>2. PICK request : request = Request(c, None, c, 0, 0, known)
  OBVIOUS
<1>3. Ask(request)
  BY <1>1, <1>2 DEF Classify
<1>4. /\ request \in Requests /\ request.of = None /\ request.revision = 0 /\ request.terms = 0
  BY <1>2, RequestTyped DEF Inv
<1> QED BY <1>3, <1>4, AskKeeps, NoneAssumption

LEMMA EvaluateKeeps ==
  ASSUME Inv, NEW c \in Comms, NEW on \in Comms, Evaluate(c, on)
  PROVE  Inv'
<1>1. PICK known \in SUBSET Comms : known = {x \in {on} : promise[x].condition = "pending"}
  OBVIOUS
<1>2. promise[on] # None /\ promise[on] \in Promise
  BY DEF Evaluate, Readable, Inv, Typed
<1>3. PICK v, t \in Nat : v = promise[on].revision /\ t = promise[on].terms
  BY <1>2 DEF Promise
<1>4. v # 0 /\ t # 0
  BY <1>2, <1>3 DEF Inv, PromiseOK
<1>5. Same(on, v, t)
  BY <1>2, <1>3 DEF Same
<1>6. PICK request : request = Request(c, "promise", on, v, t, known)
  OBVIOUS
<1>7. Ask(request)
  BY <1>1, <1>3, <1>6 DEF Evaluate
<1>8. /\ request \in Requests /\ request.of = "promise" /\ request.on = on
      /\ request.revision = v /\ request.terms = t
  BY <1>6, RequestTyped DEF Inv
<1> QED BY <1>4, <1>5, <1>7, <1>8, AskKeeps, NoneAssumption

LEMMA EvaluateArrivalKeeps ==
  ASSUME Inv, NEW c \in Comms, NEW on \in Comms, EvaluateArrival(c, on)
  PROVE  Inv'
<1>1. object[on] # None /\ object[on] \in Object
  BY DEF EvaluateArrival, Inv, Typed
<1>2. PICK v \in Nat : v = object[on].revision
  BY <1>1 DEF Object
<1>3. PICK request : request = Request(c, "object", on, v, 0, {})
  OBVIOUS
<1>4. Ask(request)
  BY <1>2, <1>3 DEF EvaluateArrival
<1>5. request \in Requests /\ request.of = "object" /\ request.on = on
  BY <1>3, RequestTyped DEF Inv
<1> QED BY <1>1, <1>4, <1>5, AskKeeps, NoneAssumption

LEMMA NewTyped ==
  ASSUME Typed, model # None, NEW of \in Comms \cup {None}, NEW g \in {New(of), Vague(of)}
  PROVE  /\ g \in Finding /\ g.of = of /\ g.status = "PENDING"
         /\ g.revision = model.revision /\ g.terms = model.terms
<1>1. model.revision \in Nat /\ model.terms \in Nat
  BY DEF Typed, Requests
<1>2. /\ New(of) \in Finding /\ New(of).of = of /\ New(of).status = "PENDING"
      /\ New(of).revision = model.revision /\ New(of).terms = model.terms
  BY <1>1 DEF New, Open, Finding
<1>3. /\ Vague(of) \in Finding /\ Vague(of).of = of /\ Vague(of).status = "PENDING"
      /\ Vague(of).revision = model.revision /\ Vague(of).terms = model.terms
  BY <1>2 DEF Vague, Finding
<1> QED BY <1>2, <1>3

\* What the answer of the model becomes is about what it was asked.
LEMMA ResultsFit ==
  ASSUME Inv, model # None, NEW result \in Results
  PROVE  /\ result[1] \in Kinds /\ result[2] \in Finding /\ result[2].status = "PENDING"
         /\ About(result[1], result[2].of, result[2].revision, result[2].terms)
<1>1. /\ model.of \in {"promise", "object", None} /\ model.on \in Comms /\ model.known \subseteq Comms
      /\ model.on # None
  BY ReviewAssumption DEF Inv, Typed, Requests
<1>2. CASE model.of = None
  <2>1. result \in Classified
    BY <1>2, NoneAssumption DEF Results
  <2>2. PICK k \in Kinds \ {"ARRIVAL"}, of \in Comms \cup {None} :
          result = <<k, New(of)>> \/ result = <<k, Vague(of)>>
    BY <1>1, <2>1 DEF Classified
  <2>3. model.revision = 0 /\ model.terms = 0
    BY <1>2 DEF Inv, ModelOK
  <2> QED BY <2>2, <2>3, NewTyped DEF About, Inv
<1>3. CASE model.of = "promise"
  <2>1. PICK k \in Kinds \ {"ARRIVAL"} : result = <<k, New(model.on)>>
    BY <1>3, NoneAssumption DEF Results, Evaluated
  <2>2. model.revision # 0 /\ model.terms # 0 /\ Same(model.on, model.revision, model.terms)
    BY <1>3 DEF Inv, ModelOK
  <2> QED BY <1>1, <2>1, <2>2, NewTyped DEF About, Inv
<1>4. CASE model.of = "object"
  <2>1. PICK k \in Kinds : k = "ARRIVAL" /\ result = <<k, New(model.on)>>
    BY <1>4, NoneAssumption DEF Results, Arrivals
  <2>2. object[model.on] # None
    BY <1>4 DEF Inv, ModelOK
  <2> QED BY <1>1, <2>1, <2>2, NewTyped DEF About, Inv
<1> QED BY <1>1, <1>2, <1>3, <1>4

LEMMA StoreKeeps ==
  ASSUME Inv, Store
  PROVE  Inv'
<1>1. /\ model # None /\ model \in Requests /\ model' = None
      /\ UNCHANGED <<source, promise, object, session, call, task, followed, allowed, changes, answers>>
  BY DEF Store, Inv, Typed
<1>2. Receipt(model) \in Requests
  BY <1>1 DEF Receipt, Requests
<1>3. receipts' \subseteq Requests
  BY <1>2 DEF Store, Inv, Typed
<1>4. \A c \in Comms : Moves(c) /\ ObjectStays(c)
  BY <1>1 DEF Moves, ObjectStays
<1>5. ModelOK'
  BY <1>1 DEF ModelOK
<1>6. CASE finding' = finding
  <2>1. Typed'
    BY <1>1, <1>3, <1>6 DEF Inv, Typed
  <2>2. \A f \in FindingIds : FindingStays(f)
    BY <1>6 DEF FindingStays
  <2>3. \A f \in FindingIds : FindingOK(f)'
    BY <1>4, <1>6, <2>1, <2>2, Stays
  <2> QED BY <1>1, <1>4, <1>5, <2>1, <2>2, <2>3, RowsStep
<1>7. CASE finding' # finding
  <2>1. PICK result \in Results : finding' = Upsert(<<model.comm, model.sourceRevision, result[1]>>, result[2])
    BY <1>7 DEF Store
  <2>2. PICK f, new, k : f = <<model.comm, model.sourceRevision, k>> /\ k = result[1] /\ new = result[2]
    OBVIOUS
  <2>3. /\ new \in Finding /\ new.status = "PENDING" /\ About(k, new.of, new.revision, new.terms)
        /\ new.of \in Comms \cup {None} /\ new # None
    BY <1>1, <2>2, ResultsFit, NoneAssumption DEF Finding
  <2>4. /\ finding[f] = None \/ finding[f].status = "PENDING"
        /\ finding' = [finding EXCEPT ![f] = new]
    BY <1>7, <2>1, <2>2 DEF Upsert
  <2>5. Typed'
    BY <1>1, <1>3, <2>3, <2>4 DEF Inv, Typed
  <2>6. \A g \in FindingIds : FindingStays(g)
    BY <2>3, <2>4 DEF FindingStays, Inv, Typed
  <2>7. About(k, new.of, new.revision, new.terms)'
    BY <1>1, <2>3 DEF About, Same
  <2>8. ASSUME NEW g \in FindingIds
        PROVE  FindingOK(g)'
    <3>1. CASE g = f
      <4>1. finding'[g] = new /\ g[3] = k
        BY <2>2, <2>4, <3>1 DEF Inv, Typed
      <4> QED BY <2>7, <4>1 DEF FindingOK
    <3>2. CASE g # f
      <4>1. finding'[g] = finding[g]
        BY <2>4, <3>2 DEF Inv, Typed
      <4> QED BY <1>4, <2>5, <2>6, <4>1, Stays
    <3> QED BY <3>1, <3>2
  <2> QED BY <1>1, <1>4, <1>5, <2>5, <2>6, <2>8, RowsStep
<1> QED BY <1>6, <1>7

-----------------------------------------------------------------------------
(* The questions of a briefing *)

LEMMA FindingItemFits ==
  ASSUME Inv, NEW f \in Visible
  PROVE  FindingItem(f) \in Item /\ ItemOK(FindingItem(f))
<1> DEFINE g == finding[f]
<1>1. /\ f \in FindingIds /\ g # None /\ g \in Finding /\ About(f[3], g.of, g.revision, g.terms)
  BY DEF Visible, Inv, Typed, FindingOK
<1>2. g.of \in Comms \cup {None} /\ g.revision \in Nat /\ g.terms \in Nat
  BY <1>1 DEF Finding
<1>3. PICK c : c = IF f[3] # "ARRIVAL" /\ g.of \in Listed THEN g.of ELSE None
  OBVIOUS
<1>4. PICK o : o = IF f[3] = "ARRIVAL" THEN g.of ELSE None
  OBVIOUS
<1>5. PICK v : v = Expected(g, c)
  OBVIOUS
<1>6. PICK t : t = IF g.terms # 0 THEN g.terms ELSE IF c # None THEN promise[c].terms ELSE 0
  OBVIOUS
<1>7. PICK clarify \in BOOLEAN : clarify = (f[3] = "CHANGE" /\ ~g.patch)
  OBVIOUS
<1>8. FindingItem(f) = [promise |-> c, object |-> o, operation |-> Operation(f[3], c), expected |-> v,
                        clarify |-> clarify, terms |-> t, status |-> "PENDING"]
  BY <1>3, <1>4, <1>5, <1>6, <1>7 DEF FindingItem
<1>9. c \in Comms \cup {None} /\ o \in Comms \cup {None}
  BY <1>2, <1>3, <1>4
<1>10. c # None => /\ c \in Comms /\ c = g.of /\ f[3] # "ARRIVAL" /\ promise[c] # None /\ promise[c] \in Promise
                   /\ promise[c].revision \in Nat /\ promise[c].terms \in Nat
  BY <1>2, <1>3 DEF Listed, Readable, Inv, Typed, Promise
<1>11. v \in Nat /\ t \in Nat
  BY <1>2, <1>5, <1>6, <1>10 DEF Expected
<1>12. Operation(f[3], c) \in Operations
  BY DEF Operation, Operations
<1>13. FindingItem(f) \in Item
  BY <1>8, <1>9, <1>11, <1>12 DEF Item
<1>14. c # None => Same(c, v, t)
  <2> SUFFICES ASSUME c # None
               PROVE  Same(c, v, t)
    OBVIOUS
  <2>1. CASE g.revision # 0
    BY <1>1, <1>2, <1>5, <1>6, <1>10, <2>1 DEF About, Expected
  <2>2. CASE g.revision = 0
    <3>1. v = promise[c].revision /\ t = promise[c].terms
      BY <1>1, <1>2, <1>5, <1>6, <1>10, <2>2 DEF About, Expected
    <3> QED BY <1>10, <3>1 DEF Same
  <2> QED BY <2>1, <2>2
<1>15. o # None => object[o] # None
  BY <1>1, <1>4 DEF About
<1> QED BY <1>8, <1>13, <1>14, <1>15 DEF ItemOK

LEMMA PromiseItemFits ==
  ASSUME Inv, NEW c \in Comms, Readable(c)
  PROVE  PromiseItem(c) \in Item /\ ItemOK(PromiseItem(c))
<1>1. c # None /\ promise[c] # None /\ promise[c] \in Promise
  BY ReviewAssumption DEF Readable, Inv, Typed
<1>2. PICK v, t \in Nat : v = promise[c].revision /\ t = promise[c].terms
  BY <1>1 DEF Promise
<1>3. PICK operation \in Operations :
        PromiseItem(c) = [promise |-> c, object |-> None, expected |-> v, clarify |-> FALSE,
                          operation |-> operation, terms |-> t, status |-> "PENDING"]
  BY <1>2 DEF PromiseItem, Operations
<1>4. Same(c, v, t)
  BY <1>1, <1>2 DEF Same
<1> QED BY <1>1, <1>3, <1>4 DEF Item, ItemOK

LEMMA ObjectItemFits ==
  ASSUME Inv, NEW c \in Comms, object[c] # None
  PROVE  ObjectItem(c) \in Item /\ ItemOK(ObjectItem(c))
<1>1. object[c].revision \in Nat
  BY DEF Inv, Typed, Object
<1> QED BY <1>1 DEF ObjectItem, Item, ItemOK

LEMMA QuestionsFit ==
  ASSUME Inv, NEW o \in Owners, NEW overdue \in BOOLEAN, NEW i \in DOMAIN Questions(o, overdue)
  PROVE  /\ i \in Ids /\ Questions(o, overdue)[i] \in Item /\ ItemOK(Questions(o, overdue)[i])
         /\ i \in FindingIds => finding[i] # None
<1> DEFINE promises == {c \in Active : Asked(c, overdue)}
           objects == {c \in Comms : overdue /\ Overdue(c)}
           all == [j \in Visible \cup ({"promise"} \X promises) \cup ({"object"} \X objects) |->
                     IF j \in Visible THEN FindingItem(j)
                     ELSE IF j[1] = "promise" THEN PromiseItem(j[2]) ELSE ObjectItem(j[2])]
<1>1. Questions(o, overdue) = [j \in {k \in DOMAIN all : ~Hidden(o, k, all[k])} |-> all[j]]
  BY DEF Questions
<1>2. /\ i \in Visible \cup ({"promise"} \X promises) \cup ({"object"} \X objects)
      /\ Questions(o, overdue)[i] =
           IF i \in Visible THEN FindingItem(i)
           ELSE IF i[1] = "promise" THEN PromiseItem(i[2]) ELSE ObjectItem(i[2])
  BY <1>1
<1>3. PICK q : q = Questions(o, overdue)[i]
  OBVIOUS
<1>4. CASE i \in Visible
  <2>1. q = FindingItem(i) /\ i \in FindingIds /\ finding[i] # None
    BY <1>2, <1>3, <1>4 DEF Visible
  <2> QED BY <1>3, <1>4, <2>1, FindingItemFits DEF Ids
<1>5. CASE i \notin Visible /\ i \in {"promise"} \X promises
  <2>1. i[1] = "promise" /\ i[2] \in Comms /\ Readable(i[2])
    BY <1>5 DEF Active, Listed
  <2>2. q = PromiseItem(i[2])
    BY <1>2, <1>3, <1>5, <2>1
  <2>3. i \in {"promise", "object"} \X Comms
    BY <1>5, <2>1
  <2> QED BY <1>3, <2>1, <2>2, <2>3, PromiseItemFits, OtherIds DEF Ids
<1>6. CASE i \notin Visible /\ i \in {"object"} \X objects
  <2>1. i[1] = "object" /\ i[2] \in Comms /\ object[i[2]] # None
    BY <1>6 DEF Overdue
  <2>2. q = ObjectItem(i[2])
    BY <1>2, <1>3, <1>6, <2>1
  <2>3. i \in {"promise", "object"} \X Comms
    BY <1>6, <2>1
  <2> QED BY <1>3, <2>1, <2>2, <2>3, ObjectItemFits, OtherIds DEF Ids
<1> QED BY <1>2, <1>4, <1>5, <1>6

LEMMA CreateSessionKeeps ==
  ASSUME Inv, NEW s \in Sessions, CreateSession(s)
  PROVE  Inv'
<1>1. /\ session[s] = None /\ call[s] = None
      /\ UNCHANGED <<source, promise, object, finding, receipts, model, call, task, followed, allowed,
                     changes, answers>>
  BY DEF CreateSession, Inv, CallOK
<1>2. Owner[s] \in Owners
  BY ReviewAssumption
<1>3. PICK overdue \in BOOLEAN : \E first \in Raised(Questions(Owner[s], overdue)) :
        session' = [session EXCEPT ![s] =
          [stage |-> "BRIEFING", queue |-> [i \in first |-> Questions(Owner[s], overdue)[i]]]]
  BY DEF CreateSession
<1>4. PICK all : all = Questions(Owner[s], overdue)
  OBVIOUS
<1>5. PICK first \in Raised(all) :
        session' = [session EXCEPT ![s] = [stage |-> "BRIEFING", queue |-> [i \in first |-> all[i]]]]
  BY <1>3, <1>4
<1>6. \A i \in DOMAIN all : i \in Ids /\ all[i] \in Item /\ ItemOK(all[i]) /\ (i \in FindingIds => finding[i] # None)
  BY <1>2, <1>4, QuestionsFit
<1>7. first \subseteq DOMAIN all /\ Cardinality(first) <= MaxItems
  BY DEF Raised
<1>8. PICK queue : queue = [i \in first |-> all[i]]
  OBVIOUS
<1>9. queue \in [first -> Item] /\ first \in SUBSET Ids
  BY <1>6, <1>7, <1>8
<1>10. queue \in Queues /\ DOMAIN queue = first
  BY <1>7, <1>9, QueueMade
<1>11. [stage |-> "BRIEFING", queue |-> queue] \in SessionRow
  BY <1>10 DEF SessionRow, Stages
<1>12. session' = [session EXCEPT ![s] = [stage |-> "BRIEFING", queue |-> queue]]
  BY <1>5, <1>8
<1>13. Typed'
  BY <1>1, <1>11, <1>12 DEF Inv, Typed
<1>14. session'[s] = [stage |-> "BRIEFING", queue |-> queue]
  BY <1>12 DEF Inv, Typed
<1>15. SessionOK(s)'
  <2>1. Queue(s)' = queue
    BY <1>14 DEF Queue
  <2>2. \A i \in first : ItemOK(all[i])'
    BY <1>1, <1>6, <1>7 DEF ItemOK, Same
  <2>3. \A i \in first : queue[i] = all[i] /\ (i \in FindingIds => finding'[i] # None)
    BY <1>1, <1>6, <1>7, <1>8
  <2> QED BY <1>10, <2>1, <2>2, <2>3 DEF SessionOK
<1>16. StageOK(s)' /\ CallOK(s)'
  BY <1>1, <1>14 DEF StageOK, CallOK
<1>17. \A t \in Sessions \ {s} : session'[t] = session[t] /\ call'[t] = call[t]
  BY <1>1, <1>12 DEF Inv, Typed
<1> QED BY <1>1, <1>13, <1>15, <1>16, <1>17, SessionStep

-----------------------------------------------------------------------------
(* Sessions *)

LEMMA QueueTyped ==
  ASSUME Typed, NEW s \in Sessions, session[s] # None
  PROVE  /\ session[s] \in SessionRow /\ Queue(s) \in Queues /\ session[s].stage \in Stages
         /\ DOMAIN Queue(s) \in SUBSET Ids /\ Cardinality(DOMAIN Queue(s)) <= MaxItems
         /\ \A i \in DOMAIN Queue(s) : Queue(s)[i] \in Item
<1>1. session[s] \in SessionRow
  BY DEF Typed
<1>2. Queue(s) \in Queues /\ session[s].stage \in Stages
  BY <1>1 DEF SessionRow, Queue
<1> QED BY <1>1, <1>2, QueueForm

LEMMA RefreshedFits ==
  ASSUME Inv, NEW s \in Sessions, session[s] # None, NEW i \in DOMAIN Queue(s)
  PROVE  /\ Refreshed(s, i) \in Item /\ ItemOK(Refreshed(s, i))
         /\ Queue(s)[i].status # "PENDING" => Refreshed(s, i) = Queue(s)[i]
<1>1. PICK q \in Item : q = Queue(s)[i] /\ ItemOK(q)
  BY QueueTyped DEF Inv, SessionOK
<1>2. CASE q.status # "PENDING"
  <2>1. Refreshed(s, i) = q
    BY <1>1, <1>2 DEF Refreshed
  <2> QED BY <1>1, <2>1
<1>3. CASE q.status = "PENDING"
  <2>1. PICK x : x = Refreshed(s, i)
    OBVIOUS
  <2>2. \/ \E status \in {"RESOLVED", "DEFERRED", "STALE"} : x = [q EXCEPT !.status = status]
        \/ /\ q.promise # None /\ Follows(q)
           /\ x = [q EXCEPT !.expected = promise[q.promise].revision]
        \/ x = q
    BY <1>1, <1>3, <2>1 DEF Refreshed
  <2>3. CASE \E status \in {"RESOLVED", "DEFERRED", "STALE"} : x = [q EXCEPT !.status = status]
    <3>1. PICK status \in {"RESOLVED", "DEFERRED", "STALE"} : x = [q EXCEPT !.status = status]
      BY <2>3
    <3>2. x \in Item /\ x.status # "PENDING" /\ x.object = q.object
      BY <3>1 DEF Item
    <3> QED BY <1>1, <1>3, <2>1, <3>2 DEF ItemOK
  <2>4. CASE q.promise # None /\ Follows(q) /\ x = [q EXCEPT !.expected = promise[q.promise].revision]
    <3>1. Same(q.promise, q.expected, q.terms)
      BY <1>1, <1>3, <2>4 DEF ItemOK
    <3>2. q.promise \in Comms /\ q.expected \in Nat /\ q.terms \in Nat
      BY <2>4 DEF Item
    <3>3. promise[q.promise] # None /\ promise[q.promise].revision \in Nat
      BY <3>1, <3>2 DEF Same, Inv, Typed, Promise
    <3>4. promise[q.promise].terms = q.terms
      BY <2>4, <3>1, <3>2, <3>3 DEF Same, Follows
    <3>5. /\ x \in Item /\ x.promise = q.promise /\ x.object = q.object /\ x.terms = q.terms
          /\ x.expected = promise[q.promise].revision
      BY <2>4, <3>3 DEF Item
    <3>6. Same(x.promise, x.expected, x.terms)
      BY <3>3, <3>4, <3>5 DEF Same
    <3> QED BY <1>1, <1>3, <2>1, <3>5, <3>6 DEF ItemOK
  <2>5. CASE x = q
    BY <1>1, <1>3, <2>1, <2>5
  <2> QED BY <2>2, <2>3, <2>4, <2>5
<1> QED BY <1>1, <1>2, <1>3

\* A write of one session that leaves every row as it is.
LEMMA SessionWriteKeeps ==
  ASSUME Inv, NEW s \in Sessions, NEW level \in Stages, NEW queue \in Queues,
         Write(s, level, queue),
         \A i \in DOMAIN queue : ItemOK(queue[i]) /\ (i \in FindingIds => finding[i] # None),
         level # "BRIEFING" => (level = "REVIEW" <=> Pending(queue) # {}),
         UNCHANGED <<source, promise, object, finding, receipts, model, followed, allowed, changes, answers>>,
         task' \in [Owners \X Ids -> Task \cup {None}]
  PROVE  Inv'
<1>1. \A i \in DOMAIN queue : ItemOK(queue[i])' /\ (i \in FindingIds => finding'[i] # None)
  BY DEF ItemOK, Same
<1>2. /\ session' \in [Sessions -> SessionRow \cup {None}]
      /\ call' \in [Sessions -> Move \cup Said \cup {None}]
      /\ SessionOK(s)' /\ StageOK(s)' /\ CallOK(s)'
      /\ \A t \in Sessions \ {s} : session'[t] = session[t] /\ call'[t] = call[t]
  BY <1>1, Writes DEF Inv
<1>3. Typed'
  BY <1>2 DEF Inv, Typed
<1> QED BY <1>2, <1>3, SessionStep

LEMMA RefreshKeeps ==
  ASSUME Inv, NEW s \in Sessions, Refresh(s)
  PROVE  Inv'
<1>1. session[s] # None
  BY DEF Refresh, Verified
<1>2. /\ session[s].stage \in Stages /\ DOMAIN Queue(s) \in SUBSET Ids
      /\ Cardinality(DOMAIN Queue(s)) <= MaxItems
  BY <1>1, QueueTyped DEF Inv
<1>3. PICK queue : queue = RefreshedQueue(s)
  OBVIOUS
<1>4. queue \in [DOMAIN Queue(s) -> Item]
  BY <1>1, <1>3, RefreshedFits DEF RefreshedQueue
<1>5. queue \in Queues /\ DOMAIN queue = DOMAIN Queue(s)
  BY <1>2, <1>4, QueueMade
<1>6. \A i \in DOMAIN queue : ItemOK(queue[i]) /\ (i \in FindingIds => finding[i] # None)
  BY <1>1, <1>3, <1>5, RefreshedFits DEF RefreshedQueue, Inv, SessionOK
<1>7. PICK level : level = IF session[s].stage = "REVIEW" THEN AfterReview(queue) ELSE session[s].stage
  OBVIOUS
<1>8. level \in Stages
  BY <1>2, <1>7, AfterReviewFits DEF Stages
<1>9. level # "BRIEFING" => (level = "REVIEW" <=> Pending(queue) # {})
  <2>1. CASE session[s].stage = "REVIEW"
    BY <1>7, <2>1, AfterReviewFits
  <2>2. CASE session[s].stage # "REVIEW" /\ level # "BRIEFING"
    <3>1. Pending(Queue(s)) = {}
      BY <1>1, <1>7, <2>2 DEF Inv, StageFitsQueue
    <3>2. Pending(queue) = {}
      BY <1>1, <1>3, <1>5, <3>1, RefreshedFits DEF Pending, RefreshedQueue
    <3> QED BY <1>7, <2>2, <3>2
  <2> QED BY <2>1, <2>2
<1>10. Write(s, level, queue)
  BY <1>3, <1>7 DEF Refresh
<1>11. /\ UNCHANGED <<source, promise, object, finding, receipts, model, followed, allowed, changes, answers>>
       /\ task' \in [Owners \X Ids -> Task \cup {None}]
  BY DEF Refresh, Inv, Typed
<1> QED BY <1>5, <1>6, <1>8, <1>9, <1>10, <1>11, SessionWriteKeeps

\* What a call has checked is noted.
LEMMA CallStep ==
  ASSUME Inv, NEW s \in Sessions, NEW r \in Move \cup Said, session[s] # None,
         call' = [call EXCEPT ![s] = r],
         r \in Move => r.to = AfterReview(Queue(s)),
         r \in Said => r.item \in Pending(Queue(s)),
         UNCHANGED <<source, promise, object, finding, receipts, model, session, task, followed, allowed,
                     changes, answers>>
  PROVE  Inv'
<1>1. Typed'
  BY DEF Inv, Typed
<1>2. call'[s] = r /\ \A t \in Sessions \ {s} : call'[t] = call[t]
  BY DEF Inv, Typed
<1>3. Queue(s)' = Queue(s)
  BY DEF Queue
<1>4. CallOK(s)'
  <2>1. r.does = "step" => r \in Move
    BY DEF Move, Said
  <2>2. r.does = "reply" => r \in Said
    BY DEF Move, Said
  <2>3. Pending(Queue(s))' = Pending(Queue(s)) /\ AfterReview(Queue(s))' = AfterReview(Queue(s))
    BY <1>3 DEF Pending, AfterReview
  <2> QED BY <1>2, <2>1, <2>2, <2>3 DEF CallOK
<1>5. \A c \in Comms : Moves(c) /\ ObjectStays(c)
  BY DEF Moves, ObjectStays
<1>6. \A f \in FindingIds : FindingStays(f)
  BY DEF FindingStays
<1>7. SessionOK(s)' /\ StageOK(s)'
  BY <1>1, <1>5, <1>6, Stays
<1> QED BY <1>1, <1>2, <1>4, <1>7, SessionStep

LEMMA CheckAdvanceKeeps ==
  ASSUME Inv, NEW s \in Sessions, CheckAdvance(s)
  PROVE  Inv'
<1>1. PICK r : r = Step(AfterReview(Queue(s)))
  OBVIOUS
<1>2. r \in Move /\ r \notin Said /\ r.to = AfterReview(Queue(s))
  BY <1>1, AfterReviewFits DEF Step, Move, Said
<1> QED BY <1>1, <1>2, CallStep DEF CheckAdvance

LEMMA CheckAnswerKeeps ==
  ASSUME Inv, NEW s \in Sessions, session[s] # None, NEW i \in Pending(Queue(s)), CheckAnswer(s, i)
  PROVE  Inv'
<1>1. i \in Ids
  BY QueueTyped DEF Pending, Inv
<1>2. PICK r : r = Reply(i)
  OBVIOUS
<1>3. r \in Said /\ r \notin Move /\ r.item = i
  BY <1>1, <1>2 DEF Reply, Move, Said
<1> QED BY <1>2, <1>3, CallStep DEF CheckAnswer

LEMMA AdvanceKeeps ==
  ASSUME Inv, NEW s \in Sessions, Advance(s)
  PROVE  Inv'
<1>1. session[s] # None /\ call[s].to = AfterReview(Queue(s))
  BY DEF Advance, Calls, Inv, CallOK
<1>2. PICK level, queue : level = call[s].to /\ queue = Queue(s)
  OBVIOUS
<1>3. level \in Stages /\ (level = "REVIEW" <=> Pending(queue) # {})
  BY <1>1, <1>2, AfterReviewFits DEF Stages
<1>4. queue \in Queues
  BY <1>1, <1>2, QueueTyped DEF Inv
<1>5. \A i \in DOMAIN queue : ItemOK(queue[i]) /\ (i \in FindingIds => finding[i] # None)
  BY <1>1, <1>2 DEF Inv, SessionOK
<1>6. Write(s, level, queue)
  BY <1>2 DEF Advance
<1>7. /\ UNCHANGED <<source, promise, object, finding, receipts, model, followed, allowed, changes, answers>>
      /\ task' \in [Owners \X Ids -> Task \cup {None}]
  BY DEF Advance, Inv, Typed
<1> QED BY <1>3, <1>4, <1>5, <1>6, <1>7, SessionWriteKeeps

-----------------------------------------------------------------------------
(* Answers *)

Intents == {"ACCEPT", "REJECT", "PARTIAL", "CORRECT", "DEFER"}

\* An answer leaves its promise alone or writes it once; what other questions may follow leaves
\* the terms as they were.
LEMMA OutcomeWrites ==
  ASSUME NEW q \in Item, q.promise \in Comms, promise[q.promise] \in Promise, NEW i, NEW r,
         r.intent \in Intents \ {"DEFER"}, r.intent = "CORRECT" => r.act \in Corrections
  PROVE  LET p == promise[q.promise]
             n == Outcome(i, q, r)
         IN /\ n = p \/ Written(p, n)
            /\ Dependent(q, r) = "PENDING" => n.terms = p.terms
            /\ r.intent = "ACCEPT" /\ q.operation = "condition_update" => Written(p, n) /\ n.terms = p.terms
<1> DEFINE p == promise[q.promise]
           n == Outcome(i, q, r)
           Edits == {"update", "correct", "condition_update", "evidence_add"}
<1>1. PICK act : act = CASE r.intent = "PARTIAL" -> "evidence_add"
                        [] r.intent = "CORRECT" -> r.act
                        [] OTHER -> Act(i, q, r.intent)
  OBVIOUS
<1>2. n = IF act = None THEN p
          ELSE IF act \in Edits THEN Corrected(p, act) ELSE Transition(q.promise, act)
  BY <1>1 DEF Outcome
<1>3. q.operation \in Operations \cup {None}
  BY DEF Item
<1>4. /\ act \in Edits \cup Lifecycles \cup {None}
      /\ act \in {"update", "correct"} /\ act # None => Dependent(q, r) # "PENDING"
      /\ r.intent = "ACCEPT" /\ q.operation = "condition_update" => act = "condition_update" /\ act # None
  <2>1. CASE r.intent = "PARTIAL"
    BY <1>1, <2>1 DEF Lifecycles
  <2>2. CASE r.intent = "CORRECT"
    <3>1. act = r.act /\ act \in {"update", "condition_update", "reopen", "supersede"}
      BY <1>1, <2>2, ReviewAssumption
    <3>2. Dependent(q, r) # "PENDING"
      BY <2>2 DEF Dependent
    <3> QED BY <2>2, <3>1, <3>2 DEF Lifecycles
  <2>3. CASE r.intent = "ACCEPT"
    <3>1. act = IF q.operation = "acknowledge" THEN None ELSE q.operation
      BY <1>1, <2>3 DEF Act
    <3> QED BY <1>3, <2>3, <3>1, NoneAssumption DEF Lifecycles, Operations, Dependent
  <2>4. CASE r.intent = "REJECT"
    <3>1. act \in {"dismiss", "reject_fulfilment", None}
      BY <1>1, <2>4 DEF Act
    <3> QED BY <2>4, <3>1 DEF Lifecycles
  <2> QED BY <2>1, <2>2, <2>3, <2>4 DEF Intents
<1>5. CASE act = None
  BY <1>2, <1>4, <1>5
<1>6. CASE act # None /\ act \in Edits
  <2>1. n = Corrected(p, act)
    BY <1>2, <1>6
  <2>2. Written(p, n) /\ (act \in {"condition_update", "evidence_add"} => n.terms = p.terms)
    BY <1>6, <2>1, CorrectedWrites
  <2> HIDE DEF n
  <2> QED BY <1>4, <1>6, <2>2 DEF n
<1>7. CASE act # None /\ act \notin Edits
  <2>1. n = Transition(q.promise, act) /\ act \in Lifecycles
    BY <1>2, <1>4, <1>7
  <2>2. Written(p, n) /\ n.terms = p.terms
    BY <2>1, TransitionWrites
  <2> HIDE DEF n
  <2> QED BY <2>2 DEF n
<1> QED BY <1>5, <1>6, <1>7

LEMMA PromisedWrites ==
  ASSUME Inv, NEW c \in Comms
  PROVE  LET n == Promised(c) IN
         IF promise[c] = None THEN n \in Promise /\ n.revision > 0 /\ n.terms > 0
         ELSE n = promise[c] \/ Written(promise[c], n)
<1> DEFINE n == Promised(c)
<1>1. CASE promise[c] = None
  <2>1. PICK x : x = Found(source[c].revision, "confirmed", "none")
    OBVIOUS
  <2>2. x \in Promise /\ x.revision = 1 /\ x.terms = 1
    BY <2>1, FoundTyped DEF Inv, Typed
  <2>3. n = [x EXCEPT !.revision = 2]
    BY <1>1, <2>1 DEF Promised
  <2>4. n \in Promise /\ n.revision = 2 /\ n.terms = 1
    BY <2>2, <2>3 DEF Promise
  <2> HIDE DEF n
  <2>5. n \in Promise /\ n.revision > 0 /\ n.terms > 0
    BY <2>4
  <2> QED BY <1>1, <2>5 DEF n
<1>2. CASE promise[c] # None
  <2>1. promise[c] \in Promise
    BY <1>2 DEF Inv, Typed
  <2>2. Transition(c, "confirm") = Confirms(promise[c])
    BY DEF Transition
  <2>3. Written(promise[c], Confirms(promise[c]))
    BY <2>1, <2>2, TransitionWrites DEF Lifecycles
  <2> QED BY <1>2, <2>3 DEF Promised
<1> QED BY <1>1, <1>2

\* What an answer makes of a question of its session: it is no longer open, or as it was, or it
\* follows the answer to another question about its promise.
Settled(a, other) == a.status # "PENDING" /\ a.object = other.object
Goes(a, other, q, r, next) ==
  /\ other.status = "PENDING" /\ q.promise # None /\ other.promise = q.promise
  /\ other.expected = q.expected /\ Dependent(q, r) = "PENDING"
  /\ a.promise = other.promise /\ a.object = other.object /\ a.terms = other.terms /\ a.expected = next

LEMMA AnsweredFits ==
  ASSUME Typed, NEW s \in Sessions, session[s] # None, NEW i \in Pending(Queue(s)), NEW r, r.item = i,
         r.intent \in Intents, NEW next \in Nat
  PROVE  /\ Answered(s, r, next) \in Queues /\ DOMAIN Answered(s, r, next) = DOMAIN Queue(s)
         /\ \A j \in DOMAIN Queue(s) :
              \/ Settled(Answered(s, r, next)[j], Queue(s)[j])
              \/ Answered(s, r, next)[j] = Queue(s)[j]
              \/ r.intent # "DEFER" /\ Goes(Answered(s, r, next)[j], Queue(s)[j], Queue(s)[i], r, next)
<1> DEFINE D == DOMAIN Queue(s)
           queue == Answered(s, r, next)
<1>1. D \in SUBSET Ids /\ Cardinality(D) <= MaxItems /\ \A j \in D : Queue(s)[j] \in Item
  BY QueueTyped
<1>2. PICK q \in Item : q = Queue(s)[i]
  BY <1>1 DEF Pending
<1>3. DOMAIN queue = D /\ queue = [j \in D |-> queue[j]]
  BY DEF Answered
<1>4. ASSUME NEW j \in D
      PROVE  /\ queue[j] \in Item
             /\ \/ Settled(queue[j], Queue(s)[j])
                \/ queue[j] = Queue(s)[j]
                \/ r.intent # "DEFER" /\ Goes(queue[j], Queue(s)[j], q, r, next)
  <2>1. PICK other \in Item : other = Queue(s)[j]
    BY <1>1
  <2>2. PICK a : a = queue[j]
    OBVIOUS
  <2> DEFINE Follower == /\ other.status = "PENDING" /\ r.intent # "DEFER"
                         /\ q.promise # None /\ other.promise = q.promise /\ next # q.expected
                         /\ other.expected = q.expected
  <2>3. CASE j = i
    <3>1. PICK status \in {"DEFERRED", "RESOLVED"} : a = [other EXCEPT !.status = status]
      BY <2>1, <2>2, <2>3 DEF Answered
    <3>2. a \in Item /\ a.status # "PENDING" /\ a.object = other.object
      BY <3>1 DEF Item
    <3> QED BY <2>1, <2>2, <3>2 DEF Settled
  <2>4. CASE j # i /\ Follower
    <3>1. a = [other EXCEPT !.expected = next, !.status = Dependent(q, r)]
      BY <1>2, <2>1, <2>2, <2>4 DEF Answered
    <3>2. PICK x : x = [other EXCEPT !.expected = next]
      OBVIOUS
    <3>3. /\ x \in Item /\ x.promise = other.promise /\ x.object = other.object /\ x.terms = other.terms
          /\ x.expected = next
      BY <3>2 DEF Item
    <3>4. a = [x EXCEPT !.status = Dependent(q, r)]
      BY <3>1, <3>2
    <3>5. Dependent(q, r) \in {"STALE", "PENDING"}
      BY DEF Dependent
    <3>6. /\ a \in Item /\ a.promise = other.promise /\ a.object = other.object /\ a.terms = other.terms
          /\ a.expected = next /\ a.status = Dependent(q, r)
      BY <3>3, <3>4, <3>5 DEF Item
    <3>7. Settled(a, other) \/ Goes(a, other, q, r, next)
      BY <2>4, <3>6 DEF Settled, Goes
    <3> QED BY <2>1, <2>2, <2>4, <3>6, <3>7
  <2>5. CASE j # i /\ ~Follower
    <3>1. a = other
      BY <1>2, <2>1, <2>2, <2>5 DEF Answered
    <3> QED BY <2>1, <2>2, <3>1
  <2> QED BY <2>3, <2>4, <2>5
<1>5. queue \in [D -> Item]
  BY <1>3, <1>4
<1>6. queue \in Queues
  BY <1>1, <1>5, QueueMade
<1> QED BY <1>2, <1>3, <1>4, <1>6

LEMMA TaskedTyped ==
  ASSUME Typed, NEW s \in Sessions, NEW r, r.item \in Ids, NEW next \in Nat, Tasked(s, r, next)
  PROVE  task' \in [Owners \X Ids -> Task \cup {None}]
<1>1. PICK status \in {"RESOLVED", "DISMISSED", "SNOOZED"} :
        task' = [task EXCEPT ![<<Owner[s], r.item>>] = [status |-> status, revision |-> next]]
  BY DEF Tasked
<1>2. [status |-> status, revision |-> next] \in Task
  BY DEF Task
<1> QED BY <1>1, <1>2 DEF Typed

LEMMA PostponeKeeps ==
  ASSUME Inv, NEW s \in Sessions, Postpone(s)
  PROVE  Inv'
<1>1. session[s] # None /\ call[s].item \in Pending(Queue(s))
  BY DEF Postpone, Calls, Inv, CallOK
<1>2. PICK i \in Pending(Queue(s)) : i = call[s].item
  BY <1>1
<1>3. PICK r : r = [item |-> i, intent |-> "DEFER"]
  OBVIOUS
<1>4. PICK queue : queue = Answered(s, r, 0)
  OBVIOUS
<1>5. PICK level : level = AfterReview(queue)
  OBVIOUS
<1>6. r.item = i /\ r.intent = "DEFER" /\ r.intent \in Intents
  BY <1>3 DEF Intents
<1>7. /\ queue \in Queues /\ DOMAIN queue = DOMAIN Queue(s)
      /\ \A j \in DOMAIN Queue(s) : Settled(queue[j], Queue(s)[j]) \/ queue[j] = Queue(s)[j]
  BY <1>1, <1>4, <1>6, AnsweredFits DEF Inv
<1>8. \A j \in DOMAIN queue : ItemOK(queue[j]) /\ (j \in FindingIds => finding[j] # None)
  BY <1>1, <1>7 DEF Inv, SessionOK, ItemOK, Settled
<1>9. level \in Stages /\ (level = "REVIEW" <=> Pending(queue) # {})
  BY <1>5, AfterReviewFits DEF Stages
<1>10. Write(s, level, queue) /\ Tasked(s, r, 0)
  BY <1>2, <1>3, <1>4, <1>5 DEF Postpone
<1>11. i \in Ids
  BY <1>1, QueueTyped DEF Inv, Pending
<1>12. task' \in [Owners \X Ids -> Task \cup {None}]
  BY <1>6, <1>10, <1>11, TaskedTyped DEF Inv
<1>13. UNCHANGED <<source, promise, object, finding, receipts, model, followed, allowed, changes, answers>>
  BY DEF Postpone
<1> QED BY <1>7, <1>8, <1>9, <1>10, <1>12, <1>13, SessionWriteKeeps

LEMMA DecideKeeps ==
  ASSUME Inv, NEW s \in Sessions, NEW intent \in Intents \ {"DEFER"}, NEW act,
         intent = "CORRECT" => act \in Corrections, Decide(s, intent, act)
  PROVE  Inv'
<1>1. session[s] # None /\ call[s].item \in Pending(Queue(s))
  BY DEF Decide, Calls, Inv, CallOK
<1>2. PICK i \in Pending(Queue(s)) : i = call[s].item
  BY <1>1
<1>3. PICK q : q = Queue(s)[i]
  OBVIOUS
<1>4. PICK r : r = [item |-> i, intent |-> intent, act |-> act]
  OBVIOUS
<1>5. PICK next : next = IF q.promise = None THEN 0 ELSE promise'[q.promise].revision
  OBVIOUS
<1>6. PICK queue : queue = Answered(s, r, next)
  OBVIOUS
<1>7. r.item = i /\ r.intent = intent /\ r.act = act
  BY <1>4
\* What the decision has read under its locks.
<1>8. /\ i \in Ids /\ i \in DOMAIN Queue(s) /\ q \in Item /\ q.status = "PENDING" /\ ItemOK(q)
      /\ i \in FindingIds => finding[i] # None
  BY <1>1, <1>3, QueueTyped DEF Inv, SessionOK, Pending
<1>9. StillOpen(i) /\ Unmoved(q)
  BY <1>2, <1>3 DEF Decide
<1>10. /\ q.promise \in Comms \cup {None} /\ q.object \in Comms \cup {None}
       /\ q.expected \in Nat /\ q.terms \in Nat
  BY <1>8 DEF Item
<1>11. q.promise # None =>
         /\ q.promise \in Comms /\ promise[q.promise] # None /\ promise[q.promise] \in Promise
         /\ promise[q.promise].revision = q.expected /\ promise[q.promise].terms = q.terms
  <2> SUFFICES ASSUME q.promise # None
               PROVE  /\ q.promise \in Comms /\ promise[q.promise] # None /\ promise[q.promise] \in Promise
                      /\ promise[q.promise].revision = q.expected /\ promise[q.promise].terms = q.terms
    OBVIOUS
  <2>1. Same(q.promise, q.expected, q.terms) /\ promise[q.promise].revision = q.expected
    BY <1>8, <1>9 DEF ItemOK, Unmoved
  <2> QED BY <1>10, <2>1 DEF Same, Inv, Typed
\* What it writes.
<1>12. promise' = IF q.promise # None THEN [promise EXCEPT ![q.promise] = Outcome(i, q, r)]
                  ELSE IF intent = "ACCEPT" /\ Makes(i, q) THEN [promise EXCEPT ![i[1]] = Promised(i[1])]
                  ELSE promise
  BY <1>2, <1>3, <1>4 DEF Decide
<1>13. followed' = IF intent = "ACCEPT" /\ q.promise # None /\ q.operation = "condition_update"
                   THEN [followed EXCEPT ![q.promise] = @ \cup {q.expected}] ELSE followed
  BY <1>2, <1>3, <1>4 DEF Decide
<1>14. object' = IF intent # "ACCEPT" \/ q.promise # None THEN object
                 ELSE IF q.object # None
                 THEN [object EXCEPT ![q.object] = Resolved(@, "FULFILLED")]
                 ELSE IF Tracks(i, q) /\ i[3] = "EXPECTED_DELIVERABLE" /\ object[i[1]] = None
                 THEN [object EXCEPT ![i[1]] = [status |-> "OPEN", revision |-> 1, sourceRevision |-> i[2]]]
                 ELSE object
  BY <1>2, <1>3, <1>4 DEF Decide
<1>15. finding' = IF i \in FindingIds /\ intent # "PARTIAL"
                  THEN [finding EXCEPT ![i].status = IF intent = "REJECT" THEN "REJECTED" ELSE "ACCEPTED"]
                  ELSE finding
  BY <1>2, <1>3, <1>4 DEF Decide
<1>16. Write(s, AfterReview(queue), queue) /\ Tasked(s, r, next)
  <2> DEFINE i0 == call[s].item
             r0 == [item |-> i0, intent |-> intent, act |-> act]
             q0 == Queue(s)[i0]
             n0 == IF q0.promise = None THEN 0 ELSE promise'[q0.promise].revision
  <2>1. Write(s, AfterReview(Answered(s, r0, n0)), Answered(s, r0, n0)) /\ Tasked(s, r0, n0)
    BY DEF Decide
  <2>2. r0 = r /\ n0 = next
    BY <1>2, <1>3, <1>4, <1>5
  <2> HIDE DEF r0, n0
  <2> QED BY <1>6, <2>1, <2>2
<1>17. answers' = answers \cup
         {[by |-> s, question |-> i, settles |-> i \in FindingIds /\ intent # "PARTIAL",
           asked |-> <<q.terms, IF i \in FindingIds THEN i[2] ELSE 0>>,
           found |-> <<IF q.promise = None THEN q.terms ELSE promise[q.promise].terms,
                       IF i \in FindingIds THEN source[i[1]].revision ELSE 0>>]}
  BY <1>2, <1>3, <1>4 DEF Decide
<1>18. UNCHANGED <<source, receipts, model, allowed, changes>>
  BY DEF Decide
\* The promise.
<1>19. /\ promise' \in [Comms -> Promise \cup {None}] /\ followed' \in [Comms -> SUBSET Nat]
       /\ \A c \in Comms : Moves(c)
       /\ q.promise # None => next \in Nat /\ promise'[q.promise] \in Promise
                              /\ promise'[q.promise].revision = next
       /\ q.promise # None /\ Dependent(q, r) = "PENDING" => promise'[q.promise].terms = q.terms
  <2>1. CASE q.promise # None
    <3>1. PICK c, p, n : c = q.promise /\ p = promise[c] /\ n = Outcome(i, q, r)
      OBVIOUS
    <3>2. c \in Comms /\ c # None /\ p \in Promise /\ p # None /\ p.revision = q.expected /\ p.terms = q.terms
      BY <1>11, <2>1, <3>1
    <3>3. r.intent \in Intents \ {"DEFER"} /\ (r.intent = "CORRECT" => r.act \in Corrections)
      BY <1>7
    <3>4. /\ n = p \/ Written(p, n)
          /\ Dependent(q, r) = "PENDING" => n.terms = p.terms
          /\ intent = "ACCEPT" /\ q.operation = "condition_update" => Written(p, n) /\ n.terms = p.terms
      <4> HIDE <1>12
      <4> QED BY <1>7, <1>8, <3>1, <3>2, <3>3, OutcomeWrites
    <3>5. n \in Promise
      BY <3>2, <3>4 DEF Written
    <3>6. promise' = [promise EXCEPT ![c] = n]
      BY <1>12, <2>1, <3>1
    <3>7. promise' \in [Comms -> Promise \cup {None}] /\ promise'[c] = n
      BY <3>2, <3>5, <3>6 DEF Inv, Typed
    <3>8. followed' \in [Comms -> SUBSET Nat]
      BY <1>10, <1>13 DEF Inv, Typed
    <3>9. ASSUME NEW x \in Comms
          PROVE  Moves(x)
      <4>1. CASE x # c
        <5>1. promise'[x] = promise[x] /\ followed'[x] = followed[x]
          BY <1>13, <3>1, <3>6, <4>1 DEF Inv, Typed
        <5> QED BY <5>1 DEF Moves
      <4>2. CASE x = c /\ intent = "ACCEPT" /\ q.operation = "condition_update"
        <5>1. followed'[x] = followed[x] \cup {p.revision}
          BY <1>13, <2>1, <3>1, <3>2, <4>2 DEF Inv, Typed
        <5> QED BY <3>1, <3>2, <3>4, <3>7, <4>2, <5>1 DEF Moves
      <4>3. CASE x = c /\ ~(intent = "ACCEPT" /\ q.operation = "condition_update")
        <5>1. followed'[x] = followed[x]
          BY <1>13, <4>3
        <5> QED BY <3>1, <3>2, <3>4, <3>7, <4>3, <5>1 DEF Moves
      <4> QED BY <4>1, <4>2, <4>3
    <3>10. next = n.revision /\ next \in Nat
      BY <1>5, <2>1, <3>1, <3>5, <3>7 DEF Promise
    <3> QED BY <3>1, <3>2, <3>4, <3>5, <3>7, <3>8, <3>9, <3>10
  <2>2. CASE q.promise = None /\ intent = "ACCEPT" /\ Makes(i, q)
    <3>0. PICK c \in Comms : c = i[1]
      BY <2>2, IdParts DEF Makes
    <3>1. PICK n : n = Promised(c) /\ c = i[1]
      BY <3>0
    <3>2. IF promise[c] = None THEN n \in Promise /\ n.revision > 0 /\ n.terms > 0
          ELSE n = promise[c] \/ Written(promise[c], n)
      BY <3>1, PromisedWrites
    <3>3. n \in Promise
      BY <3>2 DEF Written, Inv, Typed
    <3>4. promise' = [promise EXCEPT ![c] = n] /\ followed' = followed
      BY <1>12, <1>13, <2>2, <3>1
    <3>5. promise' \in [Comms -> Promise \cup {None}]
      BY <3>3, <3>4 DEF Inv, Typed
    <3>6. \A x \in Comms : Moves(x)
      BY <3>2, <3>4 DEF Moves, Inv, Typed
    <3> QED BY <2>2, <3>4, <3>5, <3>6 DEF Inv, Typed
  <2>3. CASE q.promise = None /\ ~(intent = "ACCEPT" /\ Makes(i, q))
    BY <1>12, <1>13, <2>3 DEF Moves, Inv, Typed
  <2> QED BY <2>1, <2>2, <2>3
<1>20. next \in Nat
  BY <1>5, <1>19
\* The object.
<1>21. object' \in [Comms -> Object \cup {None}] /\ \A c \in Comms : ObjectStays(c)
  <2>1. CASE q.object # None /\ object' = [object EXCEPT ![q.object] = Resolved(@, "FULFILLED")]
    <3>0. PICK c \in Comms : c = q.object
      BY <1>10, <2>1
    <3>1. PICK o : o = Resolved(object[c], "FULFILLED") /\ c = q.object
      BY <3>0
    <3>2. object[c] \in Object
      BY <1>8, <2>1, <3>1 DEF ItemOK, Inv, Typed
    <3>3. o \in Object /\ o # None /\ object' = [object EXCEPT ![c] = o]
      BY <2>1, <3>1, <3>2, ResolvedTyped, NoneAssumption
    <3> QED BY <3>3 DEF ObjectStays, Inv, Typed
  <2>2. CASE /\ i \in FindingIds
             /\ object' = [object EXCEPT ![i[1]] = [status |-> "OPEN", revision |-> 1, sourceRevision |-> i[2]]]
    <3>1. PICK c, o : c = i[1] /\ o = [status |-> "OPEN", revision |-> 1, sourceRevision |-> i[2]]
      OBVIOUS
    <3>2. o \in Object
      BY <2>2, <3>1, IdParts DEF Object
    <3>3. o # None /\ object' = [object EXCEPT ![c] = o]
      BY <2>2, <3>1, <3>2, NoneAssumption
    <3> QED BY <3>2, <3>3 DEF ObjectStays, Inv, Typed
  <2>3. CASE object' = object
    BY <2>3 DEF ObjectStays, Inv, Typed
  <2> QED BY <1>14, <2>1, <2>2, <2>3 DEF Tracks
\* The finding.
<1>22. i \in FindingIds => finding[i] \in Finding /\ finding[i] # None /\ finding[i].status = "PENDING"
  BY <1>8, <1>9 DEF StillOpen, Inv, Typed
<1>23. /\ finding' \in [FindingIds -> Finding \cup {None}] /\ \A f \in FindingIds : FindingStays(f)
       /\ \A f \in FindingIds \ {i} : finding'[f] = finding[f]
       /\ i \in FindingIds =>
            /\ finding'[i] # None /\ finding'[i].of = finding[i].of
            /\ finding'[i].revision = finding[i].revision /\ finding'[i].terms = finding[i].terms
            /\ intent # "PARTIAL" => finding'[i].status # "PENDING"
  <2>1. CASE i \in FindingIds /\ intent # "PARTIAL"
    <3>1. PICK status : /\ status \in {"REJECTED", "ACCEPTED"}
                        /\ finding' = [finding EXCEPT ![i].status = status]
      BY <1>15, <2>1
    <3>2. PICK g : g = [finding[i] EXCEPT !.status = status]
      OBVIOUS
    <3>3. /\ g \in Finding /\ g # None /\ g.status # "PENDING" /\ g.of = finding[i].of
          /\ g.revision = finding[i].revision /\ g.terms = finding[i].terms
      BY <1>22, <2>1, <3>1, <3>2, NoneAssumption DEF Finding
    <3>4. finding' = [finding EXCEPT ![i] = g]
      BY <3>1, <3>2
    <3>5. finding' \in [FindingIds -> Finding \cup {None}] /\ finding'[i] = g
      BY <2>1, <3>3, <3>4 DEF Inv, Typed
    <3>6. \A f \in FindingIds \ {i} : finding'[f] = finding[f]
      BY <3>4 DEF Inv, Typed
    <3> QED BY <3>3, <3>5, <3>6 DEF FindingStays
  <2>2. CASE ~(i \in FindingIds /\ intent # "PARTIAL")
    <3>1. finding' = finding
      BY <1>15, <2>2
    <3> QED BY <1>8, <2>2, <3>1 DEF FindingStays, Inv, Typed
  <2> QED BY <2>1, <2>2
\* The session.
<1>24. \A c \in Comms : \A v, t \in Nat : Same(c, v, t) => Same(c, v, t)'
  BY <1>19, MoveKeeps DEF Inv
<1>25. /\ queue \in Queues /\ DOMAIN queue = DOMAIN Queue(s)
       /\ \A j \in DOMAIN Queue(s) : \/ Settled(queue[j], Queue(s)[j]) \/ queue[j] = Queue(s)[j]
                                     \/ Goes(queue[j], Queue(s)[j], q, r, next)
  BY <1>1, <1>3, <1>6, <1>7, <1>20, AnsweredFits DEF Inv
<1>26. \A j \in DOMAIN queue : ItemOK(queue[j])' /\ (j \in FindingIds => finding'[j] # None)
  <2> TAKE j \in DOMAIN queue
  <2>1. PICK other, a : other = Queue(s)[j] /\ a = queue[j]
    OBVIOUS
  <2>2. /\ other \in Item /\ ItemOK(other) /\ (j \in FindingIds => finding[j] # None)
        /\ Settled(a, other) \/ a = other \/ Goes(a, other, q, r, next)
    BY <1>1, <1>25, <2>1, QueueTyped DEF Inv, SessionOK
  <2>3. /\ other.promise \in Comms \cup {None} /\ other.object \in Comms \cup {None}
        /\ other.expected \in Nat /\ other.terms \in Nat
    BY <2>2 DEF Item
  <2>4. other.object # None => object'[other.object] # None
    BY <1>21, <2>2, <2>3 DEF ItemOK, ObjectStays
  <2>5. ItemOK(a)'
    <3>1. CASE Settled(a, other)
      BY <2>4, <3>1 DEF ItemOK, Settled
    <3>2. CASE a = other
      BY <1>24, <2>2, <2>3, <2>4, <3>2 DEF ItemOK
    <3>3. CASE Goes(a, other, q, r, next)
      <4>1. /\ q.promise # None /\ a.promise = q.promise /\ a.terms = other.terms /\ a.expected = next
            /\ a.object = other.object /\ Dependent(q, r) = "PENDING"
        BY <3>3 DEF Goes
      <4>2. Same(q.promise, q.expected, other.terms)
        BY <2>2, <3>3 DEF Goes, ItemOK
      <4>3. other.terms = q.terms
        BY <1>10, <1>11, <4>1, <4>2 DEF Same
      <4>4. /\ promise'[q.promise].terms = q.terms /\ promise'[q.promise].revision = next
            /\ promise'[q.promise] # None
        BY <1>19, <4>1, NoneAssumption
      <4>5. Same(a.promise, a.expected, a.terms)'
        BY <1>20, <4>1, <4>3, <4>4 DEF Same
      <4> QED BY <2>4, <4>1, <4>5 DEF ItemOK
    <3> QED BY <2>2, <3>1, <3>2, <3>3
  <2>6. j \in FindingIds => finding'[j] # None
    BY <1>23, <2>2
  <2> QED BY <2>1, <2>5, <2>6
<1>27. PICK level \in Stages : level = AfterReview(queue) /\ (level = "REVIEW" <=> Pending(queue) # {})
  BY AfterReviewFits DEF Stages
<1>28. /\ session' \in [Sessions -> SessionRow \cup {None}]
       /\ call' \in [Sessions -> Move \cup Said \cup {None}]
       /\ SessionOK(s)' /\ StageOK(s)' /\ CallOK(s)'
       /\ \A t \in Sessions \ {s} : session'[t] = session[t] /\ call'[t] = call[t]
  BY <1>16, <1>25, <1>26, <1>27, Writes DEF Inv
<1>29. task' \in [Owners \X Ids -> Task \cup {None}]
  BY <1>7, <1>8, <1>16, <1>20, TaskedTyped DEF Inv
\* The answer.
<1>30. PICK a, settles : /\ settles \in BOOLEAN /\ settles = (i \in FindingIds /\ intent # "PARTIAL")
                         /\ a = [by |-> s, question |-> i, settles |-> settles,
                                 asked |-> <<q.terms, IF i \in FindingIds THEN i[2] ELSE 0>>,
                                 found |-> <<IF q.promise = None THEN q.terms ELSE promise[q.promise].terms,
                                             IF i \in FindingIds THEN source[i[1]].revision ELSE 0>>]
  OBVIOUS
<1>31. answers' = answers \cup {a}
  BY <1>17, <1>30
<1>32. PICK t, v \in Nat : /\ t = q.terms /\ v = IF i \in FindingIds THEN i[2] ELSE 0
  BY <1>10, IdParts
<1>33. a = [by |-> s, question |-> i, settles |-> settles, asked |-> <<t, v>>, found |-> <<t, v>>]
  BY <1>9, <1>11, <1>30, <1>32 DEF StillOpen, Fresh
<1>34. a \in Answer /\ a.question = i /\ a.asked = a.found /\ a.settles = settles
  BY <1>8, <1>30, <1>32, <1>33 DEF Answer
<1>35. Typed'
  BY <1>18, <1>19, <1>21, <1>23, <1>28, <1>29, <1>31, <1>34 DEF Inv, Typed
<1>36. \A f \in FindingIds : FindingOK(f)'
  <2> TAKE f \in FindingIds
  <2>1. CASE f # i
    BY <1>19, <1>21, <1>23, <1>35, <2>1, Stays
  <2>2. CASE f = i
    <3>1. PICK of, w, u : of = finding[i].of /\ w = finding[i].revision /\ u = finding[i].terms
      OBVIOUS
    <3>2. of \in Comms \cup {None} /\ w \in Nat /\ u \in Nat /\ About(f[3], of, w, u)
      BY <1>22, <2>2, <3>1 DEF Finding, Inv, FindingOK
    <3>3. About(f[3], of, w, u)'
      BY <1>21, <1>24, <3>2 DEF About, ObjectStays
    <3> QED BY <1>23, <2>2, <3>1, <3>3 DEF FindingOK
  <2> QED BY <2>1, <2>2
<1>37. \A c \in Comms : PromiseOK(c)'
  BY <1>19, <1>21, <1>23, <1>35, Stays
<1>38. ModelOK'
  BY <1>18, <1>19, <1>21, <1>23, <1>35, Stays
<1>39. \A x \in Sessions : SessionOK(x)' /\ StageOK(x)' /\ CallOK(x)'
  <2> TAKE x \in Sessions
  <2>1. CASE x = s
    BY <1>28, <2>1
  <2>2. CASE x # s
    BY <1>19, <1>21, <1>23, <1>28, <1>35, <2>2, Stays
  <2> QED BY <2>1, <2>2
<1>40. StageFitsQueue'
  BY <1>39 DEF StageFitsQueue, StageOK
<1>41. \A b \in answers' : AnswerOK(b)'
  <2>1. AnswerOK(a)'
    <3>1. a.settles => i \in FindingIds /\ intent # "PARTIAL"
      BY <1>30, <1>34
    <3> QED BY <1>23, <1>34, <3>1 DEF AnswerOK
  <2>2. \A b \in answers : AnswerOK(b)'
    BY <1>19, <1>21, <1>23, <1>35, Stays
  <2> QED BY <1>31, <2>1, <2>2
\* A finding that was settled before is no longer open, and this one was.
<1>42. FindingsSettleOnce'
  <2>1. ASSUME NEW b \in answers, b.settles, b.question = a.question, a.settles
        PROVE  FALSE
    <3>1. i \in FindingIds /\ b.question = i
      BY <1>30, <1>34, <2>1
    <3>2. finding[i].status # "PENDING"
      BY <2>1, <3>1 DEF Inv, AnswerOK
    <3> QED BY <1>22, <3>1, <3>2
  <2>2. FindingsSettleOnce
    BY DEF Inv
  <2> QED BY <1>31, <2>1, <2>2 DEF FindingsSettleOnce
<1> QED BY <1>35, <1>36, <1>37, <1>38, <1>39, <1>40, <1>41, <1>42 DEF Inv

-----------------------------------------------------------------------------
(* The theorems *)

LEMMA InitHolds ==
  ASSUME Init
  PROVE  Inv
<1>1. PICK scene \in [Comms -> Scenes] :
        /\ promise = [c \in Comms |-> scene[c].promise]
        /\ object = [c \in Comms |->
             IF scene[c].waited THEN [status |-> "OPEN", revision |-> 1, sourceRevision |-> 1] ELSE None]
        /\ finding = [f \in FindingIds |->
             IF f[2] = 1 /\ f[3] \in scene[f[1]].findings
             THEN IF f[3] = "PROMISE" THEN Open(None, 0, 0) ELSE Open(f[1], 1, 1) ELSE None]
  BY DEF Init
<1>2. \A c \in Comms : /\ promise[c] = None \/ /\ promise[c] \in Promise /\ promise[c] # None
                                               /\ promise[c].revision = 1 /\ promise[c].terms = 1
                       /\ scene[c].findings \subseteq {"PROMISE", "DEPENDENCY", "FULFILMENT_EVIDENCE"}
                       /\ scene[c].findings # {} => "PROMISE" \in scene[c].findings \/ promise[c] # None
  <2> TAKE c \in Comms
  <2>1. PICK x : x = scene[c]
    OBVIOUS
  <2>2. \/ x.promise = Found(1, "needs_review", "none") /\ x.findings = {}
        \/ /\ x.promise = Found(1, "confirmed", "pending")
           /\ x.findings = {"DEPENDENCY", "FULFILMENT_EVIDENCE"}
        \/ x.promise = None /\ x.findings = {"PROMISE"}
    BY <2>1 DEF Scenes
  <2>3. promise[c] = x.promise
    BY <1>1, <2>1
  <2>4. \A p \in {Found(1, "needs_review", "none"), Found(1, "confirmed", "pending")} :
          p \in Promise /\ p # None /\ p.revision = 1 /\ p.terms = 1
    BY FoundTyped, NoneAssumption
  <2> QED BY <2>1, <2>2, <2>3, <2>4
<1>3. \A c \in Comms : "PROMISE" \in scene[c].findings => scene[c].findings = {"PROMISE"}
  BY DEF Scenes
<1>4. object \in [Comms -> Object \cup {None}]
  BY <1>1 DEF Object
<1>5. \A c \in Comms \cup {None}, v \in Nat, t \in Nat :
        Open(c, v, t) \in Finding /\ Open(c, v, t).of = c /\ Open(c, v, t).revision = v /\ Open(c, v, t).terms = t
  BY DEF Open, Finding
<1>6. ASSUME NEW f \in FindingIds
      PROVE  finding[f] \in Finding \cup {None} /\ FindingOK(f)
  <2>1. f[1] \in Comms /\ f[1] # None
    BY IdParts, ReviewAssumption
  <2>2. CASE finding[f] = None
    BY <2>2 DEF FindingOK
  <2>3. CASE f[3] \in scene[f[1]].findings /\ f[3] = "PROMISE" /\ finding[f] = Open(None, 0, 0)
    <3>1. finding[f] \in Finding /\ finding[f].revision = 0 /\ finding[f].terms = 0
      <4>1. Open(None, 0, 0) \in Finding /\ Open(None, 0, 0).revision = 0 /\ Open(None, 0, 0).terms = 0
        BY DEF Open, Finding
      <4> QED BY <2>3, <4>1
    <3>2. About(f[3], finding[f].of, finding[f].revision, finding[f].terms)
      BY <2>3, <3>1 DEF About
    <3> QED BY <3>1, <3>2 DEF FindingOK
  <2>4. CASE f[3] \in scene[f[1]].findings /\ f[3] # "PROMISE" /\ finding[f] = Open(f[1], 1, 1)
    <3>1. /\ promise[f[1]] \in Promise /\ promise[f[1]] # None /\ f[3] # "ARRIVAL"
          /\ promise[f[1]].revision = 1 /\ promise[f[1]].terms = 1
      BY <1>2, <1>3, <2>1, <2>4
    <3>2. Same(f[1], 1, 1)
      BY <3>1 DEF Same
    <3> QED BY <1>5, <2>1, <2>4, <3>1, <3>2 DEF FindingOK, About
  <2> QED BY <1>1, <2>2, <2>3, <2>4
<1>7. finding \in [FindingIds -> Finding \cup {None}]
  BY <1>1, <1>6
<1>8. promise \in [Comms -> Promise \cup {None}]
  BY <1>1, <1>2
<1>9. Typed
  BY <1>4, <1>7, <1>8, ReviewAssumption DEF Init, Typed
<1>10. \A c \in Comms : PromiseOK(c)
  BY <1>2 DEF Init, PromiseOK
<1> QED BY <1>6, <1>9, <1>10 DEF Init, Inv, ModelOK, SessionOK, CallOK, StageFitsQueue, FindingsSettleOnce

LEMMA NextKeeps ==
  ASSUME Inv, [Next]_vars
  PROVE  Inv'
<1>1. CASE UNCHANGED vars
  <2>1. Typed'
    BY <1>1 DEF vars, Inv, Typed
  <2>2. \A c \in Comms : Moves(c) /\ ObjectStays(c)
    BY <1>1 DEF vars, Moves, ObjectStays
  <2> QED BY <1>1, <2>1, <2>2, OthersStep DEF vars
<1>2. CASE \E c \in Comms : SourceChanges(c) \/ LifecycleRoute(c) \/ LedgerWrites(c) \/ ResolveObject(c)
  BY <1>2, SourceChangesKeeps, LifecycleRouteKeeps, LedgerWritesKeeps, ResolveObjectKeeps
<1>3. CASE \E o \in Owners : Revoke(o) \/ \E i \in Ids : SnoozeEnds(o, i)
  BY <1>3, RevokeKeeps, SnoozeEndsKeeps
<1>4. CASE \E c \in Comms : Classify(c) \/ \E on \in Comms : Evaluate(c, on) \/ EvaluateArrival(c, on)
  BY <1>4, ClassifyKeeps, EvaluateKeeps, EvaluateArrivalKeeps
<1>5. CASE Store
  BY <1>5, StoreKeeps
<1>6. CASE \E s \in Sessions : CreateSession(s) \/ Refresh(s) \/ CheckAdvance(s) \/ Advance(s) \/ Postpone(s)
  BY <1>6, CreateSessionKeeps, RefreshKeeps, CheckAdvanceKeeps, AdvanceKeeps, PostponeKeeps
<1>7. CASE \E s \in Sessions : \E intent \in {"ACCEPT", "REJECT", "PARTIAL"} : Decide(s, intent, None)
  BY <1>7, DecideKeeps DEF Intents
<1>8. CASE \E s \in Sessions : \E act \in Corrections : Decide(s, "CORRECT", act)
  BY <1>8, DecideKeeps DEF Intents
<1>9. CASE \E s \in {x \in Sessions : session[x] # None} : \E i \in Pending(Queue(s)) : CheckAnswer(s, i)
  BY <1>9, CheckAnswerKeeps
<1> QED BY <1>1, <1>2, <1>3, <1>4, <1>5, <1>6, <1>7, <1>8, <1>9 DEF Next

LEMMA TypedChecks ==
  ASSUME Inv
  PROVE  TypeOK
<1>1. \A s \in Sessions : session[s] # None =>
        /\ session[s].stage \in Stages
        /\ DOMAIN session[s].queue \subseteq Ids /\ Cardinality(DOMAIN session[s].queue) <= MaxItems
        /\ \A i \in DOMAIN session[s].queue : session[s].queue[i] \in Item
  BY QueueTyped DEF Inv, Queue
<1>2. \A s \in Sessions : call[s] # None => session[s] # None
  BY DEF Inv, CallOK
<1> QED BY <1>1, <1>2 DEF Inv, Typed, TypeOK, Task

LEMMA AnswersChecked ==
  ASSUME Inv
  PROVE  AnswersFitTheQuestion
BY DEF Inv, AnswerOK, AnswersFitTheQuestion

\* The rows, the questions of every session and the calls under way have the types they are
\* written with, and no session has more questions than it may.
THEOREM ReviewTypes == Spec => []TypeOK
<1>1. Init => Inv
  BY InitHolds
<1>2. Inv /\ [Next]_vars => Inv'
  BY NextKeeps
<1>3. Inv => TypeOK
  BY TypedChecks
<1> QED BY <1>1, <1>2, <1>3, PTL DEF Spec

\* Whatever evaluations, other sessions and the ledger write meanwhile, an answer is recorded
\* only against the terms that were asked about and the revision of the communication cited.
THEOREM AnswersFit == Spec => []AnswersFitTheQuestion
<1>1. Init => Inv
  BY InitHolds
<1>2. Inv /\ [Next]_vars => Inv'
  BY NextKeeps
<1>3. Inv => AnswersFitTheQuestion
  BY AnswersChecked
<1> QED BY <1>1, <1>2, <1>3, PTL DEF Spec

\* A finding is settled by one answer, though any number of sessions ask about it.
THEOREM SettledOnce == Spec => []FindingsSettleOnce
<1>1. Init => Inv
  BY InitHolds
<1>2. Inv /\ [Next]_vars => Inv'
  BY NextKeeps
<1>3. Inv => FindingsSettleOnce
  BY DEF Inv
<1> QED BY <1>1, <1>2, <1>3, PTL DEF Spec

\* A session is in review exactly while a question of it is open, once its briefing is over.
THEOREM StagesFit == Spec => []StageFitsQueue
<1>1. Init => Inv
  BY InitHolds
<1>2. Inv /\ [Next]_vars => Inv'
  BY NextKeeps
<1>3. Inv => StageFitsQueue
  BY DEF Inv
<1> QED BY <1>1, <1>2, <1>3, PTL DEF Spec

-----------------------------------------------------------------------------
(* The instructions at the end of a review *)

\* An instruction, its event in the outbox, and what the executor does with it.
InstructionOK(a) ==
  /\ action[a] = None => event[a] = None
  /\ event[a] # None /\ event[a].open => event[a].attempts < MaxAttempts
  /\ work[a] # None => event[a] # None
  /\ action[a] # None =>
       /\ event[a] # None <=> action[a].status \in {"QUEUED", "RUNNING"} \/ action[a].receipt # None
       /\ action[a].status = "NEEDS_CLARIFICATION" => action[a].receipt = None
       /\ action[a].status \in Terminal =>
            IF action[a].receipt = None THEN action[a].status = "CANCELLED" /\ Replaced(a)
            ELSE ~Replaced(a) /\ work[a] = action[a].status
  /\ Replaced(a) => action[a] # None /\ action[a].status = "CANCELLED" /\ action[a].receipt = None

\* A receipt says what the executor did, or that it had begun.
ResultOK(a) ==
  /\ <<a, "RUNNING">> \in results => work[a] # None
  /\ \A outcome \in Terminal : <<a, outcome>> \in results => work[a] = outcome

\* The instructions do not change between the check of a step and the step.
StepOK(s) == /\ step[s] # None => step[s] = Of(s)
             /\ stage[s] # "NEXT_ACTIONS" => told[s] = Of(s)

InstructionsTyped ==
  /\ stage \in [Sessions -> {"NEXT_ACTIONS", "SUMMARY", "COMPLETED"}] /\ usable \subseteq Sessions
  /\ step \in [Sessions -> (SUBSET Actions) \cup {None}]
  /\ action \in [Actions -> Action \cup {None}]
  /\ event \in [Actions -> Event \cup {None}]
  /\ work \in [Actions -> Terminal \cup {"RUNNING", None}]
  /\ results \subseteq Actions \X (Terminal \cup {"RUNNING"})
  /\ dispatch \in BOOLEAN /\ active \in BOOLEAN /\ switches \in 0 .. MaxSwitches
  /\ told \in [Sessions -> SUBSET Actions]

InstructionsInv ==
  /\ InstructionsTyped
  /\ \A a \in Actions : InstructionOK(a) /\ ResultOK(a)
  /\ \A s \in Sessions : StepOK(s)

LEMMA InstructionsInitially == InstructionsInit => InstructionsInv
<1> SUFFICES ASSUME InstructionsInit PROVE InstructionsInv
  OBVIOUS
<1>1. InstructionsTyped
  BY InstructionsAssumption DEF InstructionsInit, InstructionsTyped
<1>2. \A a \in Actions : InstructionOK(a) /\ ResultOK(a)
  BY DEF InstructionsInit, InstructionOK, ResultOK, Replaced
<1>3. \A s \in Sessions : StepOK(s)
  BY DEF InstructionsInit, StepOK
<1> QED BY <1>1, <1>2, <1>3 DEF InstructionsInv

\* Steps of the session and of what is around it leave the instructions alone.
LEMMA InstructionsStay ==
  ASSUME InstructionsInv, UNCHANGED <<action, event, work, results>>
  PROVE  (\A a \in Actions : InstructionOK(a)' /\ ResultOK(a)') /\ (\A s \in Sessions : Of(s)' = Of(s))
<1>1. \A a \in Actions : Replaced(a)' <=> Replaced(a)
  BY DEF Replaced
<1> QED BY <1>1 DEF InstructionsInv, InstructionOK, ResultOK, Of

\* The instructions of a session stay, and with them what its step and its summary say.
LEMMA StepsStay ==
  ASSUME InstructionsInv, UNCHANGED <<stage, step, told>>, \A s \in Sessions : Of(s)' = Of(s)
  PROVE  \A s \in Sessions : StepOK(s)'
BY DEF InstructionsInv, StepOK

LEMMA SessionSteps ==
  ASSUME InstructionsInv, NEW s \in Sessions, CheckStep(s) \/ TakeStep(s)
  PROVE  InstructionsInv'
<1>1. UNCHANGED <<usable, action, event, work, results, dispatch, active, switches>>
  BY DEF CheckStep, TakeStep
<1>2. (\A a \in Actions : InstructionOK(a)' /\ ResultOK(a)') /\ (\A x \in Sessions : Of(x)' = Of(x))
  BY <1>1, InstructionsStay
<1>3. Of(s) \in SUBSET Actions
  BY DEF Of
<1>4. CASE CheckStep(s)
  <2>1. step' = [step EXCEPT ![s] = Of(s)] /\ UNCHANGED <<stage, told>>
    BY <1>4 DEF CheckStep
  <2>2. InstructionsTyped'
    BY <1>1, <1>3, <2>1 DEF InstructionsInv, InstructionsTyped
  <2>3. \A x \in Sessions : StepOK(x)'
    BY <1>2, <2>1 DEF InstructionsInv, InstructionsTyped, StepOK
  <2> QED BY <1>2, <2>2, <2>3 DEF InstructionsInv
<1>5. CASE TakeStep(s)
  <2>1. /\ step[s] \in SUBSET Actions /\ step[s] = Of(s)
        /\ told' = [told EXCEPT ![s] = step[s]] /\ step' = [step EXCEPT ![s] = None]
    BY <1>5 DEF TakeStep, InstructionsInv, InstructionsTyped, StepOK
  <2>2. PICK next \in {"SUMMARY", "COMPLETED"} : stage' = [stage EXCEPT ![s] = next]
    BY <1>5 DEF TakeStep
  <2>3. InstructionsTyped'
    BY <1>1, <2>1, <2>2 DEF InstructionsInv, InstructionsTyped
  <2>4. \A x \in Sessions : StepOK(x)'
    BY <1>2, <2>1, <2>2 DEF InstructionsInv, InstructionsTyped, StepOK
  <2> QED BY <1>2, <2>3, <2>4 DEF InstructionsInv
<1> QED BY <1>4, <1>5

LEMMA SwitchSteps ==
  ASSUME InstructionsInv, Restart \/ TenantChanges \/ \E s \in Sessions : EvidenceChanges(s)
  PROVE  InstructionsInv'
<1>1. UNCHANGED <<stage, step, action, event, work, results, told>>
  BY DEF Restart, TenantChanges, EvidenceChanges
<1>2. switches' \in 0 .. MaxSwitches
  BY InstructionsAssumption DEF Restart, TenantChanges, EvidenceChanges, Switch, InstructionsInv, InstructionsTyped
<1>3. dispatch' \in BOOLEAN /\ active' \in BOOLEAN /\ usable' \subseteq Sessions
  BY DEF Restart, TenantChanges, EvidenceChanges, InstructionsInv, InstructionsTyped
<1>4. InstructionsTyped'
  BY <1>1, <1>2, <1>3 DEF InstructionsInv, InstructionsTyped
<1> QED BY <1>1, <1>4, InstructionsStay, StepsStay DEF InstructionsInv

\* The event of an instruction that is announced.
LEMMA NewEvent ==
  ASSUME NEW e, e = [attempts |-> 0, open |-> TRUE]
  PROVE  e \in Event /\ e # None /\ e.attempts = 0 /\ 0 < MaxAttempts
<1>1. 0 \in 0 .. MaxAttempts /\ 0 < MaxAttempts
  BY InstructionsAssumption
<1>2. e \in Event
  BY <1>1, Zenon DEF Event
<1> QED BY <1>1, <1>2, NoneIsNoRow

\* One instruction is written, and its event.
LEMMA InstructionWritten ==
  ASSUME InstructionsInv, NEW a \in Actions, action[a] # None, NEW row \in Action,
         row.session = action[a].session, row.replaces = action[a].replaces,
         action' = [action EXCEPT ![a] = row]
  PROVE  /\ action' \in [Actions -> Action \cup {None}]
         /\ \A x \in Actions : action'[x] # None <=> action[x] # None
         /\ \A x \in Actions : Replaced(x)' <=> Replaced(x)
         /\ \A s \in Sessions : Of(s)' = Of(s)
<1>1. row # None
  BY NoneIsNoRow
<1>2. action' \in [Actions -> Action \cup {None}] /\ action'[a] = row
      /\ \A x \in Actions \ {a} : action'[x] = action[x]
  BY DEF InstructionsInv, InstructionsTyped
<1>3. \A x \in Actions : Replaced(x)' <=> Replaced(x)
  BY <1>1, <1>2 DEF Replaced
<1>4. \A s \in Sessions : Of(s)' = Of(s)
  BY <1>1, <1>2 DEF Of
<1> QED BY <1>1, <1>2, <1>3, <1>4

LEMMA DispatchReadyKeeps ==
  ASSUME InstructionsInv, NEW a \in Actions, DispatchReady(a)
  PROVE  InstructionsInv'
<1>1. PICK old \in Action : old = action[a] /\ old # None /\ old.status = "READY"
  BY DEF DispatchReady, Dispatchable, Waits, InstructionsInv, InstructionsTyped
<1>2. PICK row : row = [old EXCEPT !.status = "QUEUED"]
  OBVIOUS
<1>3. /\ row \in Action /\ row.status = "QUEUED" /\ row.receipt = old.receipt
      /\ row.session = old.session /\ row.replaces = old.replaces
  BY <1>2 DEF Action
<1>4. action' = [action EXCEPT ![a] = row]
  BY <1>1, <1>2 DEF DispatchReady, InstructionsInv, InstructionsTyped
<1>5. PICK e : e = [attempts |-> 0, open |-> TRUE]
  OBVIOUS
<1>6. e \in Event /\ e # None /\ e.attempts = 0 /\ 0 < MaxAttempts
  BY <1>5, NewEvent
<1>7. event' = [event EXCEPT ![a] = e] /\ UNCHANGED <<stage, usable, step, work, results, dispatch, active, switches, told>>
  BY <1>5 DEF DispatchReady
<1>8. /\ action' \in [Actions -> Action \cup {None}]
      /\ \A x \in Actions : action'[x] # None <=> action[x] # None
      /\ \A x \in Actions : Replaced(x)' <=> Replaced(x)
      /\ \A s \in Sessions : Of(s)' = Of(s)
  BY <1>1, <1>3, <1>4, InstructionWritten
<1>9. InstructionsTyped'
  BY <1>6, <1>7, <1>8 DEF InstructionsInv, InstructionsTyped
<1>10. ASSUME NEW x \in Actions PROVE InstructionOK(x)'
  <2>1. InstructionOK(x)
    BY DEF InstructionsInv
  <2>2. CASE x = a
    <3>1. action'[x] = row /\ event'[x] = e /\ work'[x] = work[x]
      BY <1>4, <1>7, <2>2 DEF InstructionsInv, InstructionsTyped
    <3>2. ~Replaced(x)
      BY <1>1, <2>1, <2>2 DEF InstructionOK
    <3> QED BY <1>1, <1>3, <1>6, <1>8, <2>1, <2>2, <3>1, <3>2 DEF InstructionOK, Terminal
  <2>3. CASE x # a
    <3>1. action'[x] = action[x] /\ event'[x] = event[x] /\ work'[x] = work[x]
      BY <1>4, <1>7, <2>3 DEF InstructionsInv, InstructionsTyped
    <3> QED BY <1>8, <2>1, <3>1 DEF InstructionOK
  <2> QED BY <2>2, <2>3
<1>11. \A x \in Actions : ResultOK(x)'
  BY <1>7 DEF InstructionsInv, ResultOK
<1> QED BY <1>7, <1>8, <1>9, <1>10, <1>11, StepsStay DEF InstructionsInv

LEMMA AttemptKeeps ==
  ASSUME InstructionsInv, NEW a \in Actions, Attempt(a)
  PROVE  InstructionsInv'
<1>1. PICK old \in Event : old = event[a] /\ old # None /\ old.open /\ old.attempts < MaxAttempts
  BY DEF Attempt, InstructionsInv, InstructionsTyped, InstructionOK
<1>2. PICK open \in BOOLEAN :
        /\ event' = [event EXCEPT ![a] = [attempts |-> old.attempts + 1, open |-> open]]
        /\ open => old.attempts + 1 < MaxAttempts
  BY <1>1 DEF Attempt, InstructionsInv, InstructionsTyped
<1>3. work' = work \/ (work[a] = None /\ work' = [work EXCEPT ![a] = "RUNNING"])
  BY DEF Attempt
<1>4. results' = results \cup {<<x, work'[x]>> : x \in {y \in {a} : work'[y] = "RUNNING"}}
      /\ UNCHANGED <<stage, usable, step, action, dispatch, active, switches, told>>
  BY DEF Attempt
<1>5. PICK e : e = [attempts |-> old.attempts + 1, open |-> open]
  OBVIOUS
<1>6. e \in Event /\ e # None /\ (e.open => e.attempts < MaxAttempts)
  BY <1>1, <1>2, <1>5, InstructionsAssumption, NoneIsNoRow DEF Event
<1>7. event' = [event EXCEPT ![a] = e]
  BY <1>2, <1>5
<1>8. work' \in [Actions -> Terminal \cup {"RUNNING", None}]
      /\ \A x \in Actions : work'[x] # work[x] => x = a /\ work[a] = None /\ work'[a] = "RUNNING"
  BY <1>3 DEF InstructionsInv, InstructionsTyped
<1>9. results' = results \/ (work'[a] = "RUNNING" /\ results' = results \cup {<<a, "RUNNING">>})
  <2>1. CASE work'[a] = "RUNNING"
    BY <1>4, <2>1
  <2>2. CASE work'[a] # "RUNNING"
    BY <1>4, <2>2
  <2> QED BY <2>1, <2>2
<1>10. InstructionsTyped'
  <2>1. event' \in [Actions -> Event \cup {None}]
    BY <1>6, <1>7 DEF InstructionsInv, InstructionsTyped
  <2>2. results' \subseteq Actions \X (Terminal \cup {"RUNNING"})
    BY <1>9 DEF InstructionsInv, InstructionsTyped
  <2> QED BY <1>4, <1>8, <2>1, <2>2 DEF InstructionsInv, InstructionsTyped
<1>11. (\A x \in Actions : Replaced(x)' <=> Replaced(x)) /\ (\A s \in Sessions : Of(s)' = Of(s))
  BY <1>4 DEF Replaced, Of
<1>12. ASSUME NEW x \in Actions PROVE InstructionOK(x)'
  <2>1. InstructionOK(x) /\ action'[x] = action[x]
    BY <1>4 DEF InstructionsInv
  <2>2. CASE x = a
    <3>1. event'[x] = e /\ event[x] # None
      BY <1>1, <1>7, <2>2 DEF InstructionsInv, InstructionsTyped
    <3>2. action[x] # None /\ (action[x].status \in {"QUEUED", "RUNNING"} \/ action[x].receipt # None)
      BY <2>1, <3>1 DEF InstructionOK
    <3>3. ~Replaced(x)
      BY <2>1, <3>2 DEF InstructionOK
    <3>4. action[x].status \in Terminal => action[x].receipt # None /\ work'[x] = action[x].status
      <4>1. SUFFICES ASSUME action[x].status \in Terminal
                     PROVE  action[x].receipt # None /\ work'[x] = action[x].status
        OBVIOUS
      <4>2. action[x].receipt # None /\ work[x] = action[x].status
        BY <2>1, <3>2, <3>3, <4>1 DEF InstructionOK
      <4>3. work[x] # None
        BY <4>1, <4>2, NoneIsNoRow
      <4> QED BY <1>8, <2>2, <4>2, <4>3
    <3> QED BY <1>6, <1>11, <2>1, <3>1, <3>2, <3>3, <3>4 DEF InstructionOK
  <2>3. CASE x # a
    <3>1. event'[x] = event[x] /\ work'[x] = work[x]
      BY <1>7, <1>8, <2>3 DEF InstructionsInv, InstructionsTyped
    <3> QED BY <1>11, <2>1, <3>1 DEF InstructionOK
  <2> QED BY <2>2, <2>3
<1>13. ASSUME NEW x \in Actions PROVE ResultOK(x)'
  <2>1. ResultOK(x)
    BY DEF InstructionsInv
  <2>2. "RUNNING" # None /\ \A outcome \in Terminal : outcome # None /\ outcome # "RUNNING"
    BY NoneIsNoRow DEF Terminal
  <2> QED BY <1>8, <1>9, <2>1, <2>2 DEF ResultOK
<1> QED BY <1>4, <1>10, <1>11, <1>12, <1>13, StepsStay DEF InstructionsInv

LEMMA ExecuteKeeps ==
  ASSUME InstructionsInv, NEW a \in Actions, Execute(a)
  PROVE  InstructionsInv'
<1>1. PICK outcome \in Terminal :
        work' = [work EXCEPT ![a] = outcome] /\ results' = results \cup {<<a, outcome>>}
  BY DEF Execute
<1>2. work[a] = "RUNNING" /\ UNCHANGED <<stage, usable, step, action, event, dispatch, active, switches, told>>
  BY DEF Execute
<1>3. "RUNNING" # None /\ \A x \in Terminal : x # None /\ x # "RUNNING"
  BY NoneIsNoRow DEF Terminal
<1>4. InstructionsTyped'
  BY <1>1, <1>2 DEF InstructionsInv, InstructionsTyped
<1>5. (\A x \in Actions : Replaced(x)' <=> Replaced(x)) /\ (\A s \in Sessions : Of(s)' = Of(s))
  BY <1>2 DEF Replaced, Of
<1>6. ASSUME NEW x \in Actions PROVE InstructionOK(x)'
  <2>1. InstructionOK(x) /\ action'[x] = action[x] /\ event'[x] = event[x]
    BY <1>2 DEF InstructionsInv
  <2>2. work'[x] = work[x] \/ (x = a /\ work[x] = "RUNNING")
    BY <1>1, <1>2 DEF InstructionsInv, InstructionsTyped
  <2> QED BY <1>3, <1>5, <2>1, <2>2 DEF InstructionOK
<1>7. ASSUME NEW x \in Actions PROVE ResultOK(x)'
  <2>1. ResultOK(x)
    BY DEF InstructionsInv
  <2>2. CASE x = a
    <3>1. work'[x] = outcome /\ \A y \in Terminal : <<x, y>> \notin results
      BY <1>1, <1>2, <1>3, <2>1, <2>2 DEF InstructionsInv, InstructionsTyped, ResultOK
    <3> QED BY <1>1, <1>3, <3>1 DEF ResultOK
  <2>3. CASE x # a
    BY <1>1, <2>1, <2>3 DEF InstructionsInv, InstructionsTyped, ResultOK
  <2> QED BY <2>2, <2>3
<1> QED BY <1>2, <1>4, <1>5, <1>6, <1>7, StepsStay DEF InstructionsInv

LEMMA ReportKeeps ==
  ASSUME InstructionsInv, NEW a \in Actions, NEW status \in Terminal \cup {"RUNNING"}, Report(a, status)
  PROVE  InstructionsInv'
<1>1. <<a, status>> \in results /\ action[a] # None /\ action[a].status \in {"QUEUED", "RUNNING"}
  <2>1. InstructionOK(a)
    BY DEF InstructionsInv
  <2>2. work[a] # None
    BY NoneIsNoRow DEF Report, InstructionsInv, ResultOK
  <2> QED BY <2>1, <2>2 DEF Report, Reportable, InstructionOK
<1>2. PICK old \in Action : old = action[a]
  BY <1>1 DEF InstructionsInv, InstructionsTyped
<1>3. PICK row : row = [old EXCEPT !.status = status, !.receipt = status]
  OBVIOUS
<1>4. /\ row \in Action /\ row.status = status /\ row.receipt = status /\ row.receipt # None
      /\ row.session = old.session /\ row.replaces = old.replaces
  BY <1>3, NoneIsNoRow DEF Action
<1>5. action' = [action EXCEPT ![a] = row]
  BY <1>2, <1>3 DEF Report, InstructionsInv, InstructionsTyped
<1>6. UNCHANGED <<stage, usable, step, event, work, results, dispatch, active, switches, told>>
  BY DEF Report
<1>7. /\ action' \in [Actions -> Action \cup {None}]
      /\ \A x \in Actions : action'[x] # None <=> action[x] # None
      /\ \A x \in Actions : Replaced(x)' <=> Replaced(x)
      /\ \A s \in Sessions : Of(s)' = Of(s)
  BY <1>1, <1>2, <1>4, <1>5, InstructionWritten
<1>8. InstructionsTyped'
  BY <1>6, <1>7 DEF InstructionsInv, InstructionsTyped
<1>9. ASSUME NEW x \in Actions PROVE InstructionOK(x)'
  <2>1. InstructionOK(x)
    BY DEF InstructionsInv
  <2>2. CASE x = a
    <3>1. action'[x] = row /\ event'[x] = event[x] /\ work'[x] = work[x]
      BY <1>5, <1>6, <2>2 DEF InstructionsInv, InstructionsTyped
    <3>2. ~Replaced(x) /\ event[x] # None
      BY <1>1, <2>1, <2>2 DEF InstructionOK, Terminal
    <3>3. status \in Terminal => work[x] = status
      BY <1>1, <2>2 DEF InstructionsInv, ResultOK
    <3> QED BY <1>4, <1>7, <2>1, <3>1, <3>2, <3>3 DEF InstructionOK, Terminal
  <2>3. CASE x # a
    <3>1. action'[x] = action[x] /\ event'[x] = event[x] /\ work'[x] = work[x]
      BY <1>5, <1>6, <2>3 DEF InstructionsInv, InstructionsTyped
    <3> QED BY <1>7, <2>1, <3>1 DEF InstructionOK
  <2> QED BY <2>2, <2>3
<1>10. \A x \in Actions : ResultOK(x)'
  BY <1>6 DEF InstructionsInv, ResultOK
<1> QED BY <1>6, <1>7, <1>8, <1>9, <1>10, StepsStay DEF InstructionsInv

LEMMA AddActionKeeps ==
  ASSUME InstructionsInv, NEW s \in Sessions, NEW a \in Actions, NEW b \in Actions \cup {None}, AddAction(s, a, b)
  PROVE  InstructionsInv'
<1>1. action[a] = None /\ event[a] = None /\ stage[s] = "NEXT_ACTIONS" /\ step' = [step EXCEPT ![s] = None]
      /\ UNCHANGED <<stage, usable, work, results, dispatch, active, switches, told>>
  BY DEF AddAction, Raise, InstructionsInv, InstructionOK
<1>2. PICK status \in {"NEEDS_CLARIFICATION", "QUEUED", "READY"} :
        /\ action' = [x \in Actions |->
             IF x = a THEN [session |-> s, replaces |-> b, receipt |-> None, status |-> status]
             ELSE IF x = b THEN [action[x] EXCEPT !.status = "CANCELLED"] ELSE action[x]]
        /\ event' = IF status = "QUEUED" THEN [event EXCEPT ![a] = [attempts |-> 0, open |-> TRUE]] ELSE event
  BY DEF AddAction, Statuses
<1>3. PICK new : new = [session |-> s, replaces |-> b, receipt |-> None, status |-> status]
  OBVIOUS
<1>4. new \in Action /\ new # None /\ new.status = status /\ new.session = s /\ new.replaces = b /\ new.receipt = None
  BY <1>3, NoneIsNoRow DEF Action
<1>5. b # None => b \in Actions /\ b # a /\ action[b] \in Action /\ action[b].status = "NEEDS_CLARIFICATION"
                  /\ action[b].session = s /\ action[b].receipt = None
  BY <1>1 DEF AddAction, Replaceable, Of, InstructionsInv, InstructionsTyped, InstructionOK
<1>6. action'[a] = new
  BY <1>2, <1>3
<1>7. \A x \in Actions : x # a /\ x # b => action'[x] = action[x]
  BY <1>2
<1>8. b # None => /\ action'[b] \in Action /\ action'[b] # None /\ action'[b].status = "CANCELLED"
                  /\ action'[b].session = s /\ action'[b].receipt = None
                  /\ action'[b].replaces = action[b].replaces
  <2> SUFFICES ASSUME b # None
               PROVE  /\ action'[b] \in Action /\ action'[b] # None /\ action'[b].status = "CANCELLED"
                      /\ action'[b].session = s /\ action'[b].receipt = None
                      /\ action'[b].replaces = action[b].replaces
    OBVIOUS
  <2>1. PICK old \in Action : old = action[b]
    BY <1>5
  <2>2. PICK row : row = [old EXCEPT !.status = "CANCELLED"]
    OBVIOUS
  <2>3. row \in Action /\ row.status = "CANCELLED" /\ row.session = old.session /\ row.receipt = old.receipt
        /\ row.replaces = old.replaces
    BY <2>2 DEF Action, Terminal
  <2>4. action'[b] = row
    BY <1>2, <1>5, <2>1, <2>2
  <2> QED BY <1>5, <2>1, <2>3, <2>4, NoneIsNoRow
<1>9. action' \in [Actions -> Action \cup {None}]
  <2>1. ASSUME NEW x \in Actions PROVE action'[x] \in Action \cup {None}
    <3>1. CASE x = a
      BY <1>4, <1>6, <3>1
    <3>2. CASE x = b
      BY <1>5, <1>8, <3>2, InstructionsAssumption
    <3>3. CASE x # a /\ x # b
      BY <1>7, <3>3 DEF InstructionsInv, InstructionsTyped
    <3> QED BY <3>1, <3>2, <3>3
  <2> QED BY <1>2, <2>1
<1>10. PICK e : e = [attempts |-> 0, open |-> TRUE]
  OBVIOUS
<1>11. e \in Event /\ e # None /\ e.attempts = 0 /\ 0 < MaxAttempts
  BY <1>10, NewEvent
<1>12. event' = IF status = "QUEUED" THEN [event EXCEPT ![a] = e] ELSE event
  BY <1>2, <1>10
<1>13. InstructionsTyped'
  BY <1>1, <1>9, <1>11, <1>12 DEF InstructionsInv, InstructionsTyped
<1>14. \A x \in Actions : Replaced(x)' <=> Replaced(x) \/ x = b
  <2> SUFFICES ASSUME NEW x \in Actions PROVE Replaced(x)' <=> Replaced(x) \/ x = b
    OBVIOUS
  <2>1. \A y \in Actions : (action'[y] # None /\ action'[y].replaces = x)
                             <=> (action[y] # None /\ action[y].replaces = x) \/ (y = a /\ x = b)
    <3> SUFFICES ASSUME NEW y \in Actions
                 PROVE  (action'[y] # None /\ action'[y].replaces = x)
                          <=> (action[y] # None /\ action[y].replaces = x) \/ (y = a /\ x = b)
      OBVIOUS
    <3>1. CASE y = a
      BY <1>1, <1>4, <1>6, <3>1
    <3>2. CASE y = b /\ b # None
      BY <1>5, <1>8, <3>2, NoneIsNoRow
    <3>3. CASE y # a /\ y # b
      BY <1>7, <3>3
    <3> QED BY <3>1, <3>2, <3>3, InstructionsAssumption
  <2> QED BY <2>1 DEF Replaced
<1>15. ASSUME NEW x \in Actions PROVE InstructionOK(x)'
  <2>1. InstructionOK(x) /\ work'[x] = work[x]
    BY <1>1 DEF InstructionsInv
  <2>2. CASE x = a
    <3>1. ~Replaced(x) /\ work[x] = None /\ x # b
      BY <1>1, <1>5, <2>1, <2>2, InstructionsAssumption DEF InstructionOK
    <3>2. event'[x] = IF status = "QUEUED" THEN e ELSE None
      BY <1>1, <1>12, <2>2 DEF InstructionsInv, InstructionsTyped
    <3> QED BY <1>4, <1>6, <1>11, <1>14, <2>1, <2>2, <3>1, <3>2 DEF InstructionOK, Terminal
  <2>3. CASE x = b
    <3>1. b # None /\ event'[x] = event[x] /\ x # a
      BY <1>5, <1>12, <2>3, InstructionsAssumption DEF InstructionsInv, InstructionsTyped
    <3>2. event[x] = None
      BY <1>5, <2>1, <2>3, <3>1, NoneIsNoRow DEF InstructionOK
    <3> QED BY <1>8, <1>14, <2>1, <2>3, <3>1, <3>2 DEF InstructionOK, Terminal
  <2>4. CASE x # a /\ x # b
    <3>1. event'[x] = event[x] /\ action'[x] = action[x]
      BY <1>7, <1>12, <2>4 DEF InstructionsInv, InstructionsTyped
    <3> QED BY <1>14, <2>1, <2>4, <3>1 DEF InstructionOK
  <2> QED BY <2>2, <2>3, <2>4
<1>16. \A x \in Actions : ResultOK(x)'
  BY <1>1 DEF InstructionsInv, ResultOK
<1>17. ASSUME NEW y \in Sessions \ {s} PROVE Of(y)' = Of(y)
  <2>1. ASSUME NEW x \in Actions
        PROVE  (action'[x] # None /\ action'[x].session = y) <=> (action[x] # None /\ action[x].session = y)
    <3>1. CASE x = a
      BY <1>1, <1>4, <1>6, <3>1
    <3>2. CASE x = b
      BY <1>5, <1>8, <3>2, InstructionsAssumption
    <3>3. CASE x # a /\ x # b
      BY <1>7, <3>3
    <3> QED BY <3>1, <3>2, <3>3
  <2> QED BY <2>1 DEF Of
<1>18. \A y \in Sessions : StepOK(y)'
  BY <1>1, <1>17 DEF InstructionsInv, InstructionsTyped, StepOK
<1> QED BY <1>13, <1>15, <1>16, <1>18 DEF InstructionsInv

LEMMA InstructionsInductive == InstructionsInv /\ [InstructionsNext]_instructionVars => InstructionsInv'
<1>1. ASSUME InstructionsInv, UNCHANGED instructionVars PROVE InstructionsInv'
  <2>1. InstructionsTyped'
    BY <1>1 DEF InstructionsInv, InstructionsTyped, instructionVars
  <2> QED BY <1>1, <2>1, InstructionsStay, StepsStay DEF InstructionsInv, instructionVars
<1> QED BY <1>1, SessionSteps, SwitchSteps, DispatchReadyKeeps, AttemptKeeps, ExecuteKeeps, ReportKeeps, AddActionKeeps
        DEF InstructionsNext

THEOREM InstructionsInvariant == InstructionsSpec => []InstructionsInv
BY InstructionsInitially, InstructionsInductive, PTL DEF InstructionsSpec

\* Every variable keeps its type, announced instructions have an event, and one that is
\* cancelled has a receipt or a replacement.
THEOREM InstructionTypes == InstructionsSpec => []InstructionsTypeOK
<1>1. InstructionsInv => InstructionsTypeOK
  <2> SUFFICES ASSUME InstructionsInv PROVE InstructionsTypeOK
    OBVIOUS
  <2>1. \A a \in Actions : InstructionOK(a)
    BY DEF InstructionsInv
  <2>2. \A a \in Actions : action[a] # None =>
       /\ (event[a] # None <=> action[a].status \in {"QUEUED", "RUNNING"} \/ action[a].receipt # None)
       /\ (action[a].status = "CANCELLED" /\ action[a].receipt = None =>
             \E b \in Actions : action[b] # None /\ action[b].replaces = a)
    BY <2>1 DEF InstructionOK, Replaced, Terminal
  <2> QED BY <2>2 DEF InstructionsInv, InstructionsTyped, InstructionsTypeOK
<1> QED BY <1>1, InstructionsInvariant, PTL

\* queue_review_action, record_review_action_result and advance: the summary counts every
\* instruction, what is shown of a settled one is what the executor did, and it stays so.
THEOREM InstructionsStand == InstructionsSpec => InstructionsAreKept
<1>1. InstructionsInv => SummaryIsComplete
  BY DEF InstructionsInv, StepOK, SummaryIsComplete
<1>2. InstructionsInv => \A a \in Actions : Closed(a) => work[a] = IF Replaced(a) THEN None ELSE action[a].status
  <2> SUFFICES ASSUME InstructionsInv, NEW a \in Actions, Closed(a)
               PROVE  work[a] = IF Replaced(a) THEN None ELSE action[a].status
    OBVIOUS
  <2>1. InstructionOK(a) /\ action[a].status \in Terminal /\ action[a] # None
    BY DEF InstructionsInv, Closed
  <2>2. CASE action[a].receipt = None
    BY <2>1, <2>2 DEF InstructionOK, Terminal
  <2>3. CASE action[a].receipt # None
    BY <2>1, <2>3 DEF InstructionOK
  <2> QED BY <2>2, <2>3
<1>3. InstructionsInv /\ [InstructionsNext]_instructionVars =>
        [\A a \in Actions : Closed(a) => action'[a] = action[a]]_instructionVars
  <2> SUFFICES ASSUME InstructionsInv, InstructionsNext, NEW a \in Actions, Closed(a)
               PROVE  action'[a] = action[a]
    OBVIOUS
  <2>1. action[a] # None /\ action[a].status \in {"SUCCEEDED", "FAILED", "CANCELLED"}
    BY DEF Closed, Terminal
  <2>2. ASSUME NEW x \in Actions, DispatchReady(x) \/ Attempt(x) \/ Execute(x)
                                   \/ \E status \in Terminal \cup {"RUNNING"} : Report(x, status)
        PROVE  action'[a] = action[a]
    BY <2>1, <2>2 DEF DispatchReady, Dispatchable, Waits, Attempt, Execute, Report, Reportable,
                      InstructionsInv, InstructionsTyped
  <2>3. ASSUME NEW s \in Sessions, NEW x \in Actions, NEW b \in Actions \cup {None}, AddAction(s, x, b)
        PROVE  action'[a] = action[a]
    BY <2>1, <2>3, InstructionsAssumption DEF AddAction, Replaceable
  <2>4. ASSUME NEW s \in Sessions, CheckStep(s) \/ TakeStep(s) \/ EvidenceChanges(s)
        PROVE  action'[a] = action[a]
    BY <2>4 DEF CheckStep, TakeStep, EvidenceChanges
  <2>5. CASE Restart \/ TenantChanges
    BY <2>5 DEF Restart, TenantChanges
  <2> QED BY <2>2, <2>3, <2>4, <2>5 DEF InstructionsNext
<1> QED BY <1>1, <1>2, <1>3, InstructionsInvariant, PTL DEF InstructionsSpec, InstructionsAreKept, OutcomeIsKept
===============================================================================
