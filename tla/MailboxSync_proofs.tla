------------------------- MODULE MailboxSync_proofs -------------------------
(***************************************************************************)
(* Mail that comes in, by webhook or by a connected mailbox, proved for    *)
(* any messages, sweeps, syncs, resolutions, corrections and faults.       *)
(*                                                                         *)
(* The inductive invariant Inv has three parts.  Core is about the rows    *)
(* and about what each hand (a sweep or a sync that ingests) knows: a hand *)
(* between the writes of a message is the only one there, and what it      *)
(* remembers fits the rows; a row in email_messages stands for a message   *)
(* that is whole, in such a hand, or broken.  Asked is about the Ask, its  *)
(* resolutions and the correction that runs.  Cursors says what the stored *)
(* cursor and each sync's list leave behind them.                          *)
(***************************************************************************)
EXTENDS MailboxSync, TLAPS

-----------------------------------------------------------------------------
(* Types, and what each step of a hand makes of it *)

WebTyped ==
  /\ hook \in [Receipts -> {"due", "stored", "answered"}]
  /\ receipt \in [Receipts -> {"none", "pending", "processed", "failed"}]
  /\ job \in [Receipts -> Job]
HandsTyped == worker \in [Hands -> Hand]
MailTyped == email \in [Comms -> Email \cup {None}] /\ comm \in [Comms -> Comm \cup {None}]
ThreadsTyped == thread \in [Threads -> Thread] /\ binding \in Ask /\ feedback \subseteq Feedback
PeopleTyped == request \in [Requests -> Request] /\ correction \in Move \cup {None} /\ moves \in Nat
RestTyped ==
  /\ scene \in Scenes /\ faults \in Nat /\ delivery \in {None, "sent", "delivered", "bounced", "opened"}
  /\ broken \subseteq Mails /\ early \subseteq Reports /\ crossed \in BOOLEAN
Typed == WebTyped /\ HandsTyped /\ MailTyped /\ ThreadsTyped /\ PeopleTyped /\ RestTyped

Moved(w, h) == worker' = [worker EXCEPT ![w] = h]

LEMMA MovedAt ==
  ASSUME HandsTyped, NEW w \in Hands, NEW h \in Hand, Moved(w, h)
  PROVE  HandsTyped' /\ worker'[w] = h /\ \A v \in Hands \ {w} : worker'[v] = worker[v]
BY DEF HandsTyped, Moved

LEMMA HandFields ==
  ASSUME HandsTyped, NEW w \in Hands
  PROVE  worker[w] \in Hand
BY DEF HandsTyped

\* The steps of a hand, as the record it becomes.
LEMMA Goes ==
  ASSUME HandsTyped, NEW w \in Hands,
         NEW step \in {"idle", "read", "thread", "email", "comm", "files", "announce", "answer", "finish", "settle"},
         Go(w, step)
  PROVE  /\ [worker[w] EXCEPT !.at = step] \in Hand
         /\ Moved(w, [worker[w] EXCEPT !.at = step])
<1>1. PICK h \in Hand : h = worker[w]
  BY HandFields
<1> QED BY <1>1 DEF Go, Moved, Hand, HandsTyped

LEMMA Refuses ==
  ASSUME HandsTyped, NEW w \in Hands, Refuse(w)
  PROVE  \E verdict \in {"failed", "pending"} :
           /\ [worker[w] EXCEPT !.at = "finish", !.verdict = verdict] \in Hand
           /\ Moved(w, [worker[w] EXCEPT !.at = "finish", !.verdict = verdict])
<1>1. PICK h \in Hand : h = worker[w]
  BY HandFields
<1>2. PICK verdict \in {"failed", "pending"} : verdict = IF Exhausted(w) THEN "failed" ELSE "pending"
  OBVIOUS
<1>3. [worker[w] EXCEPT !.at = "finish", !.verdict = verdict] \in Hand
  BY <1>1 DEF Hand, Settled
<1> QED BY <1>2, <1>3 DEF Refuse, Moved, HandsTyped

LEMMA OnTyped ==
  ASSUME NEW c \in Claims, NEW todo \in SUBSET Claims
  PROVE  /\ On(c, todo) \in Hand
         /\ On(c, todo).at = "read" /\ On(c, todo).on = c /\ On(c, todo).todo = todo /\ On(c, todo).verdict = None
         /\ On(c, todo).wants = None /\ On(c, todo).purpose = None
BY DEF On, Idle, Hand, Purposes

LEMMA IdleTyped == Idle \in Hand /\ Idle.at = "idle"
BY DEF Idle, Hand, Purposes

LEMMA Advances ==
  ASSUME HandsTyped, NEW w \in Hands, Advance(w)
  PROVE  \E h \in Hand : Moved(w, h) /\ (h = Idle \/ \E c \in worker[w].todo : h = On(c, worker[w].todo \ {c}))
<1>1. PICK k \in Hand : k = worker[w]
  BY HandFields
<1>2. k.todo \subseteq Claims
  BY DEF Hand
<1>3. CASE worker[w].todo = {} /\ worker' = [worker EXCEPT ![w] = Idle]
  BY <1>3, IdleTyped DEF Moved
<1>4. ASSUME NEW c \in worker[w].todo, worker' = [worker EXCEPT ![w] = On(c, worker[w].todo \ {c})]
      PROVE  \E h \in Hand : Moved(w, h) /\ \E d \in worker[w].todo : h = On(d, worker[w].todo \ {d})
  BY <1>1, <1>2, <1>4, OnTyped DEF Moved
<1> QED BY <1>3, <1>4 DEF Advance

LEMMA ReceiveTyped ==
  ASSUME Typed, NEW r \in Receipts, Receive(r)
  PROVE  Typed'
<1>1. WebTyped'
  BY DEF Typed, WebTyped, Receive
<1> QED BY <1>1 DEF Typed, Receive, HandsTyped, MailTyped, ThreadsTyped, PeopleTyped, RestTyped, mail, threads, people, history

LEMMA QueueJobTyped ==
  ASSUME Typed, NEW r \in Receipts, QueueJob(r)
  PROVE  Typed'
<1>1. WebTyped'
  <2>1. PICK j \in Job : j = job[r]
    BY DEF Typed, WebTyped
  <2>2. PICK s \in {"none", "pending", "processing"} \cup Settled : s = IF j.status = "none" /\ receipt[r] # "processed" THEN "pending" ELSE j.status
    BY DEF Job
  <2>3. [j EXCEPT !.status = s] \in Job /\ job' = [job EXCEPT ![r] = [j EXCEPT !.status = s]]
    BY <2>1, <2>2 DEF Job, QueueJob, Typed, WebTyped
  <2> QED BY <2>3 DEF Typed, WebTyped, QueueJob
<1> QED BY <1>1 DEF Typed, QueueJob, HandsTyped, MailTyped, ThreadsTyped, PeopleTyped, RestTyped, mail, threads, people, history

LEMMA FaultTyped ==
  ASSUME Typed, Fault
  PROVE  faults' \in Nat
BY DEF Typed, RestTyped, Fault

LEMMA RedeliverTyped ==
  ASSUME Typed, NEW r \in Receipts, Redeliver(r)
  PROVE  Typed'
<1>1. WebTyped'
  BY DEF Typed, WebTyped, Redeliver
<1>2. faults' \in Nat
  BY FaultTyped DEF Redeliver
<1> QED BY <1>1, <1>2 DEF Typed, Redeliver, HandsTyped, MailTyped, ThreadsTyped, PeopleTyped, RestTyped, mail, threads, people, history

LEMMA LapseTyped ==
  ASSUME Typed, NEW r \in Receipts, Lapse(r)
  PROVE  Typed'
<1>1. WebTyped'
  <2>1. PICK j \in Job : j = job[r]
    BY DEF Typed, WebTyped
  <2>2. [j EXCEPT !.lapsed = TRUE] \in Job
    BY DEF Job
  <2> QED BY <2>1, <2>2 DEF Typed, WebTyped, Lapse, web
<1>2. faults' \in Nat
  BY FaultTyped DEF Lapse
<1> QED BY <1>1, <1>2 DEF Typed, Lapse, HandsTyped, MailTyped, ThreadsTyped, PeopleTyped, RestTyped, mail, threads, people, history

LEMMA Claimed ==
  ASSUME Typed, NEW w \in Workers, Claim(w)
  PROVE  /\ WebTyped'
         /\ \E c \in Claims, todo \in SUBSET Claims : c \notin todo /\ Moved(w, On(c, todo))
         /\ \A r \in Receipts : job'[r] = job[r] \/ (job'[r].status = "processing" /\ job'[r].lease = w /\ job[r].status # "none")
<1> DEFINE due == {r \in Receipts : Claimable(r)}
           batch == {[of |-> r, attempts |-> job[r].attempts + 1] : r \in due}
           taken(r) == [status |-> "processing", attempts |-> job[r].attempts + 1, lease |-> w, lapsed |-> FALSE]
<1>1. \A r \in Receipts : job[r] \in Job /\ job[r].attempts + 1 \in Nat
  BY DEF Typed, WebTyped, Job
<1>2. batch \subseteq Claims
  BY <1>1 DEF Claims
<1>3. \A r \in Receipts : taken(r) \in Job
  BY <1>1 DEF Job
<1>4. job' = [r \in Receipts |-> IF r \in due THEN taken(r) ELSE job[r]]
  BY DEF Claim
<1>5. PICK c \in batch : worker' = [worker EXCEPT ![w] = On(c, batch \ {c})]
  BY DEF Claim
<1>6. WebTyped'
  BY <1>1, <1>3, <1>4 DEF Typed, WebTyped, Claim, web
<1>7. \E d \in Claims, todo \in SUBSET Claims : d \notin todo /\ Moved(w, On(d, todo))
  <2> HIDE DEF batch
  <2> QED BY <1>2, <1>5 DEF Moved
<1>8. \A r \in due : job[r].status # "none"
  BY DEF Claimable
<1> HIDE DEF due
<1> QED BY <1>4, <1>6, <1>7, <1>8

LEMMA ClaimTyped ==
  ASSUME Typed, NEW w \in Workers, Claim(w)
  PROVE  Typed'
<1>1. HandsTyped'
  BY Claimed, OnTyped, MovedAt DEF Typed, Hands
<1> QED BY <1>1, Claimed DEF Typed, Claim, MailTyped, ThreadsTyped, PeopleTyped, RestTyped, mail, threads, people, history
Same(h, k) == h.on = k.on /\ h.todo = k.todo

LEMMA Reads ==
  ASSUME Typed, NEW w \in Hands, Read(w)
  PROVE  /\ Doing(w) \in Mails
         /\ \E h \in Hand : /\ Moved(w, h) /\ Same(h, worker[w])
                            /\ \/ h.at = "finish" /\ h.verdict = "done" /\ email[Doing(w)] # None
                               \/ /\ h.at = "thread" /\ email[Doing(w)] = None
                                  /\ h.wants # None \/ h.purpose = worker[w].purpose
<1>1. PICK k \in Hand : k = worker[w]
  BY HandFields DEF Typed
<1>2. Doing(w) \in Mails
  BY DEF Read
<1>3. CASE email[Doing(w)] # None
  <2>1. PICK h \in Hand : h = [k EXCEPT !.at = "finish", !.verdict = "done"]
    BY DEF Hand, Settled
  <2>2. h.at = "finish" /\ h.verdict = "done" /\ Same(h, k)
    BY <2>1 DEF Hand, Same
  <2>3. Moved(w, h)
    BY <1>1, <1>3, <2>1 DEF Read, Moved
  <2> QED BY <1>1, <1>2, <1>3, <2>2, <2>3
<1>4. CASE email[Doing(w)] = None /\ Route(w)
  <2>1. AskThread \in Threads /\ "human_ask" \in Purposes /\ AskThread # None
    BY NoneIsNoRow DEF Threads, Purposes
  <2>2. PICK h \in Hand : h = [k EXCEPT !.at = "thread", !.wants = AskThread, !.purpose = "human_ask"]
    BY <2>1 DEF Hand
  <2>3. h.at = "thread" /\ h.wants # None /\ Same(h, k)
    BY <2>1, <2>2 DEF Hand, Same
  <2>4. Moved(w, h)
    BY <1>1, <1>4, <2>2 DEF Read, Moved
  <2> QED BY <1>1, <1>2, <1>4, <2>3, <2>4
<1>5. CASE email[Doing(w)] = None /\ ~Route(w) /\ Parent(w) # None
  <2>1. Parent(w) \in Email
    BY <1>2, <1>5, InboundMailAssumption DEF Parent, Facts, Typed, MailTyped
  <2>2. Parent(w).thread \in Threads /\ Parent(w).purpose \in Purposes /\ Parent(w).thread # None
    BY <2>1, NoneIsNoRow DEF Email
  <2>3. PICK t \in Threads, p \in Purposes : t = Parent(w).thread /\ p = Parent(w).purpose /\ t # None
    BY <2>2
  <2>4. PICK h \in Hand : h = [k EXCEPT !.at = "thread", !.wants = t, !.purpose = p]
    BY DEF Hand
  <2>5. h.at = "thread" /\ h.wants # None /\ Same(h, k)
    BY <2>3, <2>4 DEF Hand, Same
  <2>6. Moved(w, h)
    BY <1>1, <1>5, <2>3, <2>4 DEF Read, Moved
  <2> QED BY <1>1, <1>2, <1>5, <2>5, <2>6
<1>6. CASE email[Doing(w)] = None /\ ~Route(w) /\ Parent(w) = None
  <2>1. PICK h \in Hand : h = [k EXCEPT !.at = "thread"]
    BY DEF Hand
  <2>2. h.at = "thread" /\ h.purpose = k.purpose /\ Same(h, k)
    BY <2>1 DEF Hand, Same
  <2>3. Moved(w, h)
    BY <1>1, <1>6, <2>1 DEF Read, Moved
  <2> QED BY <1>1, <1>2, <1>6, <2>2, <2>3
<1> QED BY <1>2, <1>3, <1>4, <1>5, <1>6

LEMMA ReadTyped ==
  ASSUME Typed, NEW w \in Hands, Read(w)
  PROVE  Typed'
<1>1. HandsTyped'
  BY Reads, MovedAt DEF Typed
<1> QED BY <1>1 DEF Typed, Read, WebTyped, MailTyped, ThreadsTyped, PeopleTyped, RestTyped, web, mail, threads, people, history

\* What a transaction that resolves the thread writes.
Entered(w, t, p, link) ==
  /\ Moved(w, [worker[w] EXCEPT !.at = "email", !.thread = t, !.purpose = p, !.link = link])
  /\ [worker[w] EXCEPT !.at = "email", !.thread = t, !.purpose = p, !.link = link] \in Hand
  /\ p = IF worker[w].purpose # None THEN worker[w].purpose ELSE thread[t].purpose
  /\ p = "human_ask" => binding.status = "open" /\ ~Locked
  /\ thread' \in [Threads -> Thread] /\ \A u \in Threads \ {t} : thread'[u] = thread[u]
  /\ thread'[t].status = "open" /\ thread'[t].purpose = p
  /\ binding' = IF p = "human_ask" THEN [binding EXCEPT !.thread = t] ELSE binding
  /\ feedback' = feedback
  /\ worker[w].purpose = "human_ask" /\ worker[w].wants # None => t = binding.thread
  /\ worker[w].wants # None => t = worker[w].wants
  /\ worker[w].wants = None => t \in Ranked(Doing(w)) \/ thread[t].status = "none"

LEMMA WithTyped ==
  ASSUME NEW u \in Thread, NEW m \in Mails, NEW p \in Purposes
  PROVE  With(u, m, p) \in Thread /\ With(u, m, p).status = "open" /\ With(u, m, p).purpose = p
<1>1. PICK topic \in Topics, from \in DOMAIN Person : topic = Mail[m].topic /\ from = Mail[m].from
  BY InboundMailAssumption DEF Topics
<1>2. PICK whose \in SUBSET DOMAIN Person : whose = u.people \cup {from}
  BY DEF Thread
<1>3. With(u, m, p) = [u EXCEPT !.status = "open", !.purpose = p, !.topic = topic, !.people = whose]
  BY <1>1, <1>2 DEF With, Thread
<1> QED BY <1>3 DEF Thread

LEMMA Joins ==
  ASSUME Typed, NEW w \in Hands, NEW t \in Threads, NEW link \in {"explicit", "inferred"}, Doing(w) \in Mails,
         Join(w, t, link),
         worker[w].purpose = "human_ask" /\ worker[w].wants # None => t = binding.thread,
         worker[w].wants # None => t = worker[w].wants,
         worker[w].wants = None => t \in Ranked(Doing(w)) \/ thread[t].status = "none"
  PROVE  \/ Refuse(w) /\ UNCHANGED threads
         \/ \E p \in Purposes : Entered(w, t, p, link)
<1>1. PICK k \in Hand : k = worker[w]
  BY HandFields DEF Typed
<1>2. PICK u \in Thread : u = thread[t]
  BY DEF Typed, ThreadsTyped
<1>3. k.purpose \in Purposes /\ u.purpose \in Purposes
  BY DEF Hand, Thread
<1>4. PICK p \in Purposes : p = IF k.purpose # None THEN k.purpose ELSE u.purpose
  BY <1>3
<1>5. CASE p = "human_ask" /\ binding.status # "open"
  BY <1>1, <1>2, <1>4, <1>5 DEF Join
<1>6. CASE ~(p = "human_ask" /\ binding.status # "open")
  <2>1. PICK h \in Hand : h = [k EXCEPT !.at = "email", !.thread = t, !.purpose = p, !.link = link]
    BY DEF Hand
  <2>2. PICK after \in Thread : after = With(u, Doing(w), p) /\ after.status = "open" /\ after.purpose = p
    BY WithTyped
  <2>3. /\ p = "human_ask" => ~Locked
        /\ binding' = IF p = "human_ask" THEN [binding EXCEPT !.thread = t] ELSE binding
        /\ feedback' = feedback
    BY <1>1, <1>2, <1>4, <1>6 DEF Join
  <2>4. thread' = [thread EXCEPT ![t] = after]
    BY <1>1, <1>2, <1>4, <1>6, <2>2 DEF Join
  <2>5. Moved(w, h)
    BY <1>1, <1>2, <1>4, <1>6, <2>1 DEF Join, Moved
  <2>6. thread' \in [Threads -> Thread] /\ thread'[t] = after /\ \A v \in Threads \ {t} : thread'[v] = thread[v]
    BY <2>4 DEF Typed, ThreadsTyped
  <2> QED BY <1>1, <1>2, <1>4, <1>6, <2>1, <2>2, <2>3, <2>5, <2>6 DEF Entered
<1> QED BY <1>5, <1>6

LEMMA Resolves ==
  ASSUME Typed, NEW w \in Hands, ResolveThread(w), Doing(w) \in Mails
  PROVE  \/ Refuse(w) /\ UNCHANGED threads
         \/ \E t \in Threads, p \in Purposes, link \in {"explicit", "inferred"} : Entered(w, t, p, link)
<1>1. PICK k \in Hand : k = worker[w]
  BY HandFields DEF Typed
<1> DEFINE explicit == worker[w].wants
           bound == worker[w].purpose = "human_ask"
           over == \/ explicit # None /\ ~Open(explicit)
                   \/ bound /\ (binding.status # "open" \/ explicit # binding.thread)
<1>2. CASE over
  BY <1>2 DEF ResolveThread
<1>3. CASE ~over /\ explicit # None
  <2>1. explicit \in Threads
    BY <1>1, <1>3 DEF Hand
  <2>2. Join(w, explicit, "explicit") /\ (bound => explicit = binding.thread)
    BY <1>3 DEF ResolveThread
  <2> QED BY <1>3, <2>1, <2>2, Joins
<1>4. CASE ~over /\ explicit = None /\ Ranked(Doing(w)) # {}
  <2>1. PICK t \in Ranked(Doing(w)) : Join(w, t, "inferred")
    BY <1>4 DEF ResolveThread
  <2>2. t \in Threads
    BY DEF Ranked, Chosen, Candidates
  <2> QED BY <1>4, <2>1, <2>2, Joins
<1>5. CASE ~over /\ explicit = None /\ Ranked(Doing(w)) = {}
  <2>1. Fresh \in Unused /\ Join(w, Fresh, "inferred")
    BY <1>5 DEF ResolveThread, Fresh
  <2>2. Fresh \in Threads /\ thread[Fresh].status = "none"
    BY <2>1 DEF Unused
  <2> QED BY <1>5, <2>1, <2>2, Joins
<1> QED BY <1>2, <1>3, <1>4, <1>5

LEMMA ThreadsFrame == UNCHANGED threads /\ ThreadsTyped => ThreadsTyped'
BY DEF threads, ThreadsTyped

LEMMA EnteredTyped ==
  ASSUME Typed, NEW w \in Hands, NEW t \in Threads, NEW p \in Purposes, NEW link \in {"explicit", "inferred"},
         Entered(w, t, p, link)
  PROVE  HandsTyped' /\ ThreadsTyped'
<1>1. HandsTyped'
  BY MovedAt DEF Entered, Typed
<1>2. thread' \in [Threads -> Thread]
  BY DEF Entered, Typed, ThreadsTyped
<1>3. binding' \in Ask
  <2>1. PICK b \in Ask : b = binding
    BY DEF Typed, ThreadsTyped
  <2>2. [b EXCEPT !.thread = t] \in Ask
    BY DEF Ask
  <2> QED BY <2>1, <2>2 DEF Entered
<1> QED BY <1>1, <1>2, <1>3 DEF Entered, Typed, ThreadsTyped

LEMMA ResolveThreadTyped ==
  ASSUME Typed, NEW w \in Hands, ResolveThread(w), Doing(w) \in Mails
  PROVE  Typed'
<1>1. HandsTyped' /\ ThreadsTyped'
  BY Resolves, EnteredTyped, Refuses, MovedAt, ThreadsFrame DEF Typed
<1> QED BY <1>1 DEF Typed, ResolveThread, WebTyped, MailTyped, PeopleTyped, RestTyped, web, mail, people, history

-----------------------------------------------------------------------------
(* What each hand knows *)

Wrote == {"comm", "files", "answer"}
\* The row in email_messages is there, the last event is not.
HalfAt(h) == h.at \in Wrote \/ (h.at = "announce" /\ h.on.of \in Mails)
HandOK(h) ==
  /\ h.at # "idle" => h.on \in Claims \ h.todo
  /\ h.at \in Wrote \cup {"thread", "email"} => h.on.of \in Mails
  /\ h.at = "read" => h.purpose = None
  /\ (h.at = "thread" /\ h.purpose = "human_ask") => h.wants # None
  /\ h.at \in {"finish", "settle"} => h.verdict # None
\* It has resolved the thread; nothing but the Ask's messages are in the Ask's.
Placed(h) ==
  /\ h.thread \in Threads /\ h.link # None
  /\ h.purpose = "human_ask" <=> h.thread = AskThread
  /\ thread[h.thread].status # "none"

LEMMA StoreEmails ==
  ASSUME Typed, NEW w \in Hands, StoreEmail(w), Doing(w) \in Mails, Placed(worker[w])
  PROVE  \/ Refuse(w) /\ UNCHANGED email
         \/ /\ email[Doing(w)] = None /\ Go(w, "comm")
            /\ \E row \in Email : /\ row.thread = worker[w].thread /\ row.purpose = worker[w].purpose
                                  /\ email' = [email EXCEPT ![Doing(w)] = row]
<1>1. PICK k \in Hand : k = worker[w]
  BY HandFields DEF Typed
<1>2. k.thread \in Threads /\ k.purpose \in Purposes
  BY <1>1 DEF Hand, Placed
<1>3. PICK row \in Email : row = [thread |-> k.thread, purpose |-> k.purpose]
  BY <1>2 DEF Email
<1> QED BY <1>1, <1>3 DEF StoreEmail, Email

LEMMA StoreEmailTyped ==
  ASSUME Typed, NEW w \in Hands, StoreEmail(w), Doing(w) \in Mails, Placed(worker[w])
  PROVE  Typed'
<1>1. HandsTyped'
  BY StoreEmails, Refuses, Goes, MovedAt DEF Typed
<1>2. email' \in [Comms -> Email \cup {None}] /\ comm' = comm
  BY StoreEmails DEF Typed, MailTyped, StoreEmail
<1> QED BY <1>1, <1>2 DEF Typed, StoreEmail, WebTyped, MailTyped, ThreadsTyped, PeopleTyped, RestTyped, web, threads, people, history

\* What the trigger lets in, and what it makes of the thread and of the Ask.
Linked(w) ==
  LET t == worker[w].thread p == worker[w].purpose
  IN /\ Accepts(t, p) /\ (p = "human_ask" => ~Locked)
     /\ \E row \in Comm : /\ row.thread = t /\ row.purpose = p /\ row.link = worker[w].link /\ ~row.files
                          /\ comm' = [comm EXCEPT ![Doing(w)] = row]
     /\ thread' \in [Threads -> Thread] /\ \A u \in Threads \ {t} : thread'[u] = thread[u]
     /\ thread'[t].status = thread[t].status
     /\ thread'[t].purpose = IF p = None THEN thread[t].purpose ELSE p
     /\ binding' = IF p = "human_ask" THEN [binding EXCEPT !.thread = t] ELSE binding
     /\ Go(w, IF Facts(w).files THEN "files" ELSE "announce") /\ broken' = broken

LEMMA StoreComms ==
  ASSUME Typed, NEW w \in Hands, StoreComm(w), Doing(w) \in Mails, Placed(worker[w])
  PROVE  \/ Refuse(w) /\ broken' = broken \cup {Doing(w)} /\ UNCHANGED <<comm, thread, binding>>
         \/ Linked(w)
<1>1. PICK k \in Hand : k = worker[w]
  BY HandFields DEF Typed
<1>2. k.thread \in Threads /\ k.purpose \in Purposes /\ k.link \in {"explicit", "inferred"}
  BY <1>1 DEF Hand, Placed
<1>3. PICK t \in Threads, p \in Purposes, link \in {"explicit", "inferred"} :
        t = worker[w].thread /\ p = worker[w].purpose /\ link = worker[w].link
  BY <1>1, <1>2
<1>4. PICK u \in Thread : u = thread[t]
  BY DEF Typed, ThreadsTyped
<1>5. CASE ~Accepts(t, p)
  BY <1>3, <1>5 DEF StoreComm
<1>6. CASE Accepts(t, p)
  <2>1. PICK row \in Comm : row = [thread |-> t, purpose |-> p, link |-> link, files |-> FALSE]
    BY DEF Comm
  <2>2. row.thread = t /\ row.purpose = p /\ row.link = link /\ ~row.files
    BY <2>1
  <2>3. comm' = [comm EXCEPT ![Doing(w)] = row]
    BY <1>3, <1>6, <2>1 DEF StoreComm
  <2>4. PICK q \in Purposes : q = IF p = None THEN u.purpose ELSE p
    BY DEF Thread
  <2>5. PICK after \in Thread : after = [u EXCEPT !.purpose = q]
    BY DEF Thread
  <2>6. after.status = u.status /\ after.purpose = q
    BY <2>5 DEF Thread
  <2>7. thread' = [thread EXCEPT ![t] = after]
    BY <1>3, <1>4, <1>6, <2>4, <2>5 DEF StoreComm, Typed, ThreadsTyped
  <2>8. thread' \in [Threads -> Thread] /\ thread'[t] = after /\ \A v \in Threads \ {t} : thread'[v] = thread[v]
    BY <2>7 DEF Typed, ThreadsTyped
  <2>9. /\ p = "human_ask" => ~Locked
        /\ binding' = IF p = "human_ask" THEN [binding EXCEPT !.thread = t] ELSE binding
        /\ Go(w, IF Facts(w).files THEN "files" ELSE "announce") /\ broken' = broken
    BY <1>3, <1>6 DEF StoreComm
  <2> QED BY <1>3, <1>4, <1>6, <2>2, <2>3, <2>4, <2>6, <2>8, <2>9 DEF Linked
<1> QED BY <1>5, <1>6

LEMMA StoreCommTyped ==
  ASSUME Typed, NEW w \in Hands, StoreComm(w), Doing(w) \in Mails, Placed(worker[w])
  PROVE  Typed'
<1>1. CASE Refuse(w) /\ broken' = broken \cup {Doing(w)} /\ UNCHANGED <<comm, thread, binding>>
  <2>1. HandsTyped' /\ broken' \subseteq Mails
    BY <1>1, Refuses, MovedAt DEF Typed, RestTyped
  <2> QED BY <1>1, <2>1 DEF Typed, StoreComm, WebTyped, MailTyped, ThreadsTyped, PeopleTyped, RestTyped, web, people
<1>2. CASE Linked(w)
  <2>1. HandsTyped'
    BY <1>2, Goes, MovedAt DEF Typed, Linked
  <2>2. comm' \in [Comms -> Comm \cup {None}]
    BY <1>2 DEF Typed, MailTyped, Linked
  <2>3. binding' \in Ask
    <3>1. PICK b \in Ask : b = binding
      BY DEF Typed, ThreadsTyped
    <3>2. PICK t \in Threads : t = worker[w].thread
      BY DEF Placed
    <3>3. [b EXCEPT !.thread = t] \in Ask
      BY DEF Ask
    <3> QED BY <1>2, <3>1, <3>2, <3>3 DEF Linked
  <2>4. thread' \in [Threads -> Thread] /\ broken' = broken
    BY <1>2 DEF Linked
  <2> QED BY <2>1, <2>2, <2>3, <2>4 DEF Typed, StoreComm, WebTyped, MailTyped, ThreadsTyped, PeopleTyped, RestTyped, web, people
<1> QED BY <1>1, <1>2, StoreComms

LEMMA StoreFilesTyped ==
  ASSUME Typed, NEW w \in Hands, StoreFiles(w), Doing(w) \in Mails, comm[Doing(w)] # None
  PROVE  /\ Typed'
         /\ \E row \in Comm : /\ comm' = [comm EXCEPT ![Doing(w)] = row] /\ row.files
                              /\ row.thread = comm[Doing(w)].thread /\ row.purpose = comm[Doing(w)].purpose
                              /\ row.link = comm[Doing(w)].link
<1>1. HandsTyped'
  BY Goes, MovedAt DEF Typed, StoreFiles
<1>2. PICK before \in Comm : before = comm[Doing(w)]
  BY DEF Typed, MailTyped, Comms
<1>3. PICK row \in Comm : row = [before EXCEPT !.files = TRUE]
  BY DEF Comm
<1>4. row.files /\ row.thread = before.thread /\ row.purpose = before.purpose /\ row.link = before.link
  BY <1>3 DEF Comm
<1>5. comm' = [comm EXCEPT ![Doing(w)] = row]
  BY <1>2, <1>3 DEF StoreFiles
<1>6. MailTyped'
  BY <1>5 DEF Typed, MailTyped, StoreFiles
<1>7. Typed'
  BY <1>1, <1>6 DEF Typed, StoreFiles, WebTyped, ThreadsTyped, PeopleTyped, RestTyped, web, threads, people, history
<1> QED BY <1>2, <1>4, <1>5, <1>7

\* A hand that is through with its message, for now.
Through(w) ==
  /\ [worker[w] EXCEPT !.at = "finish", !.verdict = "done"] \in Hand
  /\ Moved(w, [worker[w] EXCEPT !.at = "finish", !.verdict = "done"])
Through0(w) == worker' = [worker EXCEPT ![w] = [@ EXCEPT !.at = "finish", !.verdict = "done"]]

LEMMA ThroughTyped ==
  ASSUME HandsTyped, NEW w \in Hands, Through0(w)
  PROVE  Through(w)
<1>1. PICK k \in Hand : k = worker[w]
  BY HandFields
<1>2. [k EXCEPT !.at = "finish", !.verdict = "done"] \in Hand
  BY DEF Hand, Settled
<1>3. Moved(w, [k EXCEPT !.at = "finish", !.verdict = "done"])
  BY <1>1 DEF Through0, Moved
<1> QED BY <1>1, <1>2, <1>3 DEF Through

LEMMA Announces ==
  ASSUME Typed, NEW w \in Hands, Announce(w)
  PROVE  IF IsAnswer(Doing(w), worker[w].purpose) THEN Go(w, "answer") ELSE Through(w)
<1>1. CASE IsAnswer(Doing(w), worker[w].purpose)
  BY <1>1 DEF Announce, Go, Typed, HandsTyped
<1>2. CASE ~IsAnswer(Doing(w), worker[w].purpose)
  <2>1. Through0(w)
    BY <1>2 DEF Announce, Through0, Typed, HandsTyped
  <2> QED BY <1>2, <2>1, ThroughTyped DEF Typed
<1> QED BY <1>1, <1>2

LEMMA ThroughKept ==
  ASSUME HandsTyped, NEW w \in Hands, Through(w)
  PROVE  HandsTyped'
BY MovedAt DEF Through

LEMMA AnnounceTyped ==
  ASSUME Typed, NEW w \in Hands, Announce(w)
  PROVE  Typed'
<1>1. HandsTyped'
  BY Announces, ThroughKept, Goes, MovedAt DEF Typed
<1> QED BY <1>1 DEF Typed, Announce, WebTyped, MailTyped, ThreadsTyped, PeopleTyped, RestTyped, web, mail, threads, people, history

LEMMA AnnounceAnswerTyped ==
  ASSUME Typed, NEW w \in Hands, AnnounceAnswer(w)
  PROVE  Typed' /\ Through(w)
<1>1. Through(w)
  BY ThroughTyped DEF AnnounceAnswer, Through0, Typed
<1>2. HandsTyped'
  BY <1>1, ThroughKept DEF Typed
<1> QED BY <1>1, <1>2 DEF Typed, AnnounceAnswer, WebTyped, MailTyped, ThreadsTyped, PeopleTyped, RestTyped, web, mail, threads, people, history

LEMMA StoreSentTyped ==
  ASSUME Typed, StoreSent
  PROVE  Typed'
BY DEF Typed, StoreSent, WebTyped, HandsTyped, MailTyped, ThreadsTyped, PeopleTyped, RestTyped, web, mail, threads, people, history

LEMMA ReportEffect ==
  ASSUME Typed, NEW w \in Hands, Report(w)
  PROVE  /\ Doing(w) \in Reports
         /\ \/ early' = early \cup {Doing(w)} /\ Through(w)
            \/ early' = early /\ Kind[Doing(w)] \in Telling /\ Go(w, "announce")
            \/ early' = early /\ Kind[Doing(w)] \notin Telling /\ Through(w)
<1>1. CASE delivery = None
  BY <1>1, ThroughTyped DEF Report, Through0, Typed
<1>2. CASE delivery # None /\ Kind[Doing(w)] \in Telling
  BY <1>2 DEF Report, Go, Typed, HandsTyped
<1>3. CASE delivery # None /\ Kind[Doing(w)] \notin Telling
  <2>1. Through0(w)
    BY <1>3 DEF Report, Through0, Typed, HandsTyped
  <2> QED BY <1>3, <2>1, ThroughTyped DEF Report, Typed
<1> QED BY <1>1, <1>2, <1>3 DEF Report

LEMMA ReportTyped ==
  ASSUME Typed, NEW w \in Hands, Report(w)
  PROVE  Typed'
<1>1. HandsTyped' /\ early' \subseteq Reports
  BY ReportEffect, ThroughKept, Goes, MovedAt DEF Typed, RestTyped
<1>2. delivery' \in {None, "sent", "delivered", "bounced", "opened"}
  BY ReportEffect, InboundMailAssumption DEF Report, Typed, RestTyped
<1> QED BY <1>1, <1>2 DEF Typed, Report, WebTyped, MailTyped, ThreadsTyped, PeopleTyped, RestTyped, web, mail, threads, people

LEMMA AnnounceReportTyped ==
  ASSUME Typed, NEW w \in Hands, AnnounceReport(w)
  PROVE  Typed' /\ Through(w)
<1>1. Through(w)
  BY ThroughTyped DEF AnnounceReport, Through0, Typed
<1>2. HandsTyped'
  BY <1>1, ThroughKept DEF Typed
<1> QED BY <1>1, <1>2 DEF Typed, AnnounceReport, WebTyped, MailTyped, ThreadsTyped, PeopleTyped, RestTyped, web, mail, threads, people, history

LEMMA Finishes ==
  ASSUME Typed, NEW w \in Hands, Finish(w), Doing(w) \in Receipts, worker[w].verdict # None
  PROVE  /\ Go(w, "settle")
         /\ \/ job' = job
            \/ \E j \in Job : /\ job' = [job EXCEPT ![Doing(w)] = j] /\ j.lease = None /\ j.status = worker[w].verdict
                              /\ job[Doing(w)].lease = w /\ j.status \notin {"processing", "none"}
<1>1. PICK k \in Hand : k = worker[w]
  BY HandFields DEF Typed
<1>2. PICK verdict \in {"pending"} \cup Settled : verdict = worker[w].verdict
  BY <1>1 DEF Hand
<1>3. PICK i \in Job : i = job[Doing(w)]
  BY DEF Typed, WebTyped
<1>4. PICK j \in Job : j = [i EXCEPT !.status = verdict, !.lease = None, !.lapsed = FALSE]
  BY DEF Job
<1>5. j.lease = None /\ j.status = verdict /\ j.status \notin {"processing", "none"}
  BY <1>4 DEF Job, Settled
<1>6. CASE job[Doing(w)].lease = w
  <2>1. job' = [job EXCEPT ![Doing(w)] = j]
    BY <1>2, <1>3, <1>4, <1>6 DEF Finish, Close
  <2> QED BY <1>2, <1>5, <1>6, <2>1 DEF Finish
<1>7. CASE job[Doing(w)].lease # w
  BY <1>7 DEF Finish
<1> QED BY <1>6, <1>7

LEMMA FinishTyped ==
  ASSUME Typed, NEW w \in Hands, Finish(w), Doing(w) \in Receipts, worker[w].verdict # None
  PROVE  Typed'
<1>1. HandsTyped'
  BY Finishes, Goes, MovedAt DEF Typed
<1>2. job' \in [Receipts -> Job]
  BY Finishes DEF Typed, WebTyped
<1> QED BY <1>1, <1>2 DEF Typed, Finish, WebTyped, MailTyped, ThreadsTyped, PeopleTyped, RestTyped, web, mail, threads, people, history

LEMMA SettleTyped ==
  ASSUME Typed, NEW w \in Hands, Settle(w), Doing(w) \in Receipts, worker[w].verdict # None
  PROVE  /\ Typed' /\ \A r \in Receipts : receipt[r] # "none" => receipt'[r] # "none"
         /\ receipt'[Doing(w)] # "none"
<1>1. HandsTyped'
  BY Advances, MovedAt DEF Typed, Settle
<1>2. PICK k \in Hand : k = worker[w]
  BY HandFields DEF Typed
<1>3. PICK verdict \in {"pending"} \cup Settled : verdict = worker[w].verdict
  BY <1>2 DEF Hand
<1>4. PICK state \in {"pending", "processed", "failed"} : state = IF verdict = "done" THEN "processed" ELSE verdict
  BY DEF Settled
<1>5. receipt' = [receipt EXCEPT ![Doing(w)] = state]
  BY <1>3, <1>4 DEF Settle
<1>6. WebTyped' /\ \A r \in Receipts : receipt[r] # "none" => receipt'[r] # "none"
  BY <1>5 DEF Typed, WebTyped, Settle
<1>7. receipt'[Doing(w)] # "none"
  BY <1>5 DEF Typed, WebTyped
<1> QED BY <1>1, <1>6, <1>7 DEF Typed, Settle, MailTyped, ThreadsTyped, PeopleTyped, RestTyped, mail, threads, people, history

LEMMA BreaksTyped ==
  ASSUME Typed, NEW w \in Hands, Breaks(w), worker[w].on.of \in Mails \/ At(w, "idle") \/ ~Halfway(w)
  PROVE  broken' \subseteq Mails /\ broken \subseteq broken' /\ (Halfway(w) => Doing(w) \in broken')
BY DEF Typed, RestTyped, Breaks, Halfway, At, Doing

\* A hand that stops, or gives up on its message.
Stops(w) ==
  \/ Moved(w, Idle)
  \/ \E verdict \in {"failed", "pending"} :
       /\ [worker[w] EXCEPT !.at = "finish", !.verdict = verdict] \in Hand
       /\ Moved(w, [worker[w] EXCEPT !.at = "finish", !.verdict = verdict])

LEMMA Fails ==
  ASSUME HandsTyped, NEW w \in Hands, Fail(w)
  PROVE  Stops(w)
<1>1. CASE worker' = [worker EXCEPT ![w] = Idle]
  BY <1>1 DEF Stops, Moved
<1>2. CASE Refuse(w)
  BY <1>2, Refuses DEF Stops
<1>3. CASE At(w, "read") /\ worker' = [worker EXCEPT ![w] = [@ EXCEPT !.at = "finish", !.verdict = "failed"]]
  <2>1. PICK k \in Hand : k = worker[w]
    BY HandFields
  <2>2. [k EXCEPT !.at = "finish", !.verdict = "failed"] \in Hand
    BY DEF Hand, Settled
  <2>3. Moved(w, [k EXCEPT !.at = "finish", !.verdict = "failed"])
    BY <1>3, <2>1 DEF Moved
  <2> QED BY <2>1, <2>2, <2>3 DEF Stops
<1> QED BY <1>1, <1>2, <1>3 DEF Fail

LEMMA StopsTyped ==
  ASSUME HandsTyped, NEW w \in Hands, Stops(w)
  PROVE  HandsTyped'
BY IdleTyped, MovedAt DEF Stops

LEMMA FailTyped ==
  ASSUME Typed, NEW w \in Hands, Fail(w), Halfway(w) => Doing(w) \in Mails
  PROVE  Typed'
<1>1. HandsTyped' /\ broken' \subseteq Mails
  BY Fails, StopsTyped, BreaksTyped DEF Typed, Fail, Doing
<1>2. faults' \in Nat
  BY FaultTyped DEF Fail
<1> QED BY <1>1, <1>2 DEF Typed, Fail, WebTyped, MailTyped, ThreadsTyped, PeopleTyped, RestTyped, web, mail, threads, people

LEMMA CrashTyped ==
  ASSUME Typed, NEW w \in Hands, Crash(w), Halfway(w) => Doing(w) \in Mails
  PROVE  Typed' /\ Stops(w)
<1>1. Stops(w)
  BY DEF Crash, Stops, Moved
<1>2. HandsTyped' /\ broken' \subseteq Mails
  BY <1>1, StopsTyped, BreaksTyped DEF Typed, Crash, Doing
<1>3. faults' \in Nat
  BY FaultTyped DEF Crash
<1> QED BY <1>1, <1>2, <1>3 DEF Typed, Crash, WebTyped, MailTyped, ThreadsTyped, PeopleTyped, RestTyped, web, mail, threads, people

-----------------------------------------------------------------------------
(* The Ask, and people *)

LEMMA Asks ==
  ASSUME Typed, NEW q \in Requests, NEW at \in {"idle", "checked", "locked", "resolved", "over"},
         NEW c \in Comms \cup {None}, Step(q, at, c)
  PROVE  /\ request' \in [Requests -> Request] /\ request'[q].at = at /\ request'[q].by = c
         /\ \A p \in Requests \ {q} : request'[p] = request[p]
<1>1. PICK r \in Request : r = [at |-> at, by |-> c]
  BY DEF Request
<1>2. r.at = at /\ r.by = c
  BY <1>1
<1> QED BY <1>1, <1>2 DEF Typed, PeopleTyped, Step

LEMMA RequestBy ==
  ASSUME Typed, NEW q \in Requests
  PROVE  request[q].by \in Comms \cup {None} /\ request[q].at \in {"idle", "checked", "locked", "resolved", "over"}
BY DEF Typed, PeopleTyped, Request

LEMMA CheckTyped ==
  ASSUME Typed, NEW q \in Requests, NEW c \in Comms, Check(q, c)
  PROVE  Typed'
<1>1. request' \in [Requests -> Request]
  BY Asks DEF Check
<1> QED BY <1>1 DEF Typed, Check, WebTyped, HandsTyped, MailTyped, ThreadsTyped, PeopleTyped, RestTyped, web, mail, threads, history

LEMMA LockTyped ==
  ASSUME Typed, NEW q \in Requests, Lock(q)
  PROVE  Typed'
<1>1. request' \in [Requests -> Request]
  BY Asks, RequestBy DEF Lock
<1> QED BY <1>1 DEF Typed, Lock, WebTyped, HandsTyped, MailTyped, ThreadsTyped, PeopleTyped, RestTyped, web, mail, threads, history

\* The Ask is resolved by c.
Answered(q, c) ==
  /\ \A t \in Threads \ {binding.thread} : thread'[t] = thread[t]
  /\ thread'[binding.thread].status = "resolved" /\ thread'[binding.thread].purpose = thread[binding.thread].purpose
  /\ binding'.status = "resolved" /\ binding'.thread = binding.thread /\ binding'.by = c
  /\ crossed' = (comm[c].thread # binding.thread) /\ Step(q, "resolved", c)

LEMMA ResolveTyped ==
  ASSUME Typed, NEW q \in Requests, Resolve(q), request[q].by # None
  PROVE  Typed' /\ Answered(q, request[q].by)
<1>1. PICK c \in Comms : c = request[q].by
  BY RequestBy
<1>2. PICK b \in Ask, t \in Threads : b = binding /\ t = binding.thread
  BY DEF Typed, ThreadsTyped, Ask
<1>3. PICK u \in Thread : u = thread[t]
  BY DEF Typed, ThreadsTyped
<1>4. PICK a \in Ask : a = [b EXCEPT !.status = "resolved", !.by = c]
  BY DEF Ask
<1>5. a.status = "resolved" /\ a.thread = b.thread /\ a.by = c
  BY <1>4 DEF Ask
<1>6. PICK v \in Thread : v = [u EXCEPT !.status = "resolved"]
  BY DEF Thread
<1>7. v.status = "resolved" /\ v.purpose = u.purpose
  BY <1>6 DEF Thread
<1>8. binding' = a /\ thread' = [thread EXCEPT ![t] = v]
  BY <1>1, <1>2, <1>3, <1>4, <1>6 DEF Resolve
<1>9. Answered(q, c)
  BY <1>1, <1>2, <1>3, <1>5, <1>7, <1>8 DEF Answered, Resolve, Typed, ThreadsTyped
<1>10. request' \in [Requests -> Request] /\ crossed' \in BOOLEAN
  BY <1>1, Asks DEF Resolve
<1>11. ThreadsTyped'
  BY <1>8 DEF Typed, ThreadsTyped, Resolve
<1> QED BY <1>1, <1>9, <1>10, <1>11 DEF Typed, Resolve, WebTyped, HandsTyped, MailTyped, PeopleTyped, RestTyped, web, mail

LEMMA DeadlockTyped ==
  ASSUME Typed, NEW q \in Requests, Deadlock(q)
  PROVE  Typed'
<1>1. request' \in [Requests -> Request] /\ correction' \in Move \cup {None}
  BY Asks, RequestBy DEF Deadlock, Typed, PeopleTyped
<1> QED BY <1>1 DEF Typed, Deadlock, WebTyped, HandsTyped, MailTyped, ThreadsTyped, PeopleTyped, RestTyped, web, mail, threads, history

LEMMA AnnounceResolvedTyped ==
  ASSUME Typed, NEW q \in Requests, AnnounceResolved(q)
  PROVE  Typed'
<1>1. request' \in [Requests -> Request]
  BY Asks, RequestBy DEF AnnounceResolved
<1> QED BY <1>1 DEF Typed, AnnounceResolved, WebTyped, HandsTyped, MailTyped, ThreadsTyped, PeopleTyped, RestTyped, web, mail, threads, history

LEMMA BeginCorrectionTyped ==
  ASSUME Typed, NEW c \in Mails, NEW to \in Threads, NEW reason \in {"other", "wrong_topic"}, BeginCorrection(c, to, reason)
  PROVE  /\ Typed' /\ correction'.of = c /\ correction'.to = to
<1>1. PICK m \in Move : m = [of |-> c, to |-> to, reason |-> reason]
  BY DEF Move
<1>2. correction' = m /\ m.of = c /\ m.to = to
  BY <1>1 DEF BeginCorrection
<1>3. moves' \in Nat
  BY DEF BeginCorrection, Typed, PeopleTyped
<1> QED BY <1>2, <1>3 DEF Typed, BeginCorrection, WebTyped, HandsTyped, MailTyped, ThreadsTyped, PeopleTyped, RestTyped, web, mail, threads, history

\* Message c is moved to thread `to`, and takes its purpose.
Rethreaded(c, to, purpose) ==
  LET from == comm[c].thread
  IN /\ from \in Threads
     /\ purpose = IF thread[to].purpose # None THEN thread[to].purpose
                  ELSE IF comm[c].purpose = "human_ask" THEN None ELSE comm[c].purpose
     /\ purpose = "human_ask" => ~Locked
     /\ \E row \in Comm : /\ row.thread = to /\ row.purpose = purpose /\ row.link = "corrected"
                          /\ row.files = comm[c].files /\ comm' = [comm EXCEPT ![c] = row]
     /\ \E row \in Email : row.thread = to /\ row.purpose = purpose /\ email' = [email EXCEPT ![c] = row]
     /\ thread' \in [Threads -> Thread] /\ \A t \in Threads \ {from, to} : thread'[t] = thread[t]
     /\ thread'[to].status = "open" /\ thread'[to].purpose = purpose
     /\ from # to => /\ thread'[from].purpose = thread[from].purpose
                     /\ \/ thread'[from].status = thread[from].status
                        \/ thread[from].purpose # "human_ask" /\ thread'[from].status = "closed"
     /\ binding' = IF purpose = "human_ask" THEN [binding EXCEPT !.thread = to] ELSE binding
     /\ feedback' \subseteq Feedback /\ \A f \in feedback' : f \in feedback \/ f.from = from

LEMMA WithoutTyped ==
  ASSUME NEW u \in Thread, NEW left, NEW tied
  PROVE  /\ Without(u, left, tied) \in Thread /\ Without(u, left, tied).purpose = u.purpose
         /\ \/ Without(u, left, tied).status = u.status
            \/ u.purpose # "human_ask" /\ Without(u, left, tied).status = "closed"
<1>1. PICK whose \in SUBSET DOMAIN Person :
        whose = {a \in u.people : a \in tied \/ Contacts({a}) \cap Contacts(tied) # {}}
  BY DEF Thread
<1>2. PICK status \in {"none", "open", "resolved", "closed"} :
        status = IF left = {} /\ u.purpose # "human_ask" THEN "closed" ELSE u.status
  BY DEF Thread
<1>3. Without(u, left, tied) = [u EXCEPT !.people = whose, !.status = status]
  BY <1>1, <1>2 DEF Without, Thread
<1>4. [u EXCEPT !.people = whose, !.status = status] \in Thread
  BY DEF Thread
<1>5. /\ [u EXCEPT !.people = whose, !.status = status].purpose = u.purpose
      /\ [u EXCEPT !.people = whose, !.status = status].status = status
  BY DEF Thread
<1> QED BY <1>2, <1>3, <1>4, <1>5

LEMMA CommitCorrectionTyped ==
  ASSUME Typed, CommitCorrection, correction \in Move, comm[correction.of] # None
  PROVE  Typed' /\ \E purpose \in Purposes : Rethreaded(correction.of, correction.to, purpose)
<1>1. PICK c \in Mails, to \in Threads, reason \in {"other", "wrong_topic"} :
        c = correction.of /\ to = correction.to /\ reason = correction.reason
  BY DEF Move
<1>2. PICK before \in Comm : before = comm[c]
  BY <1>1 DEF Typed, MailTyped, Comms
<1>3. PICK from \in Threads : from = before.thread
  BY DEF Comm
<1>4. PICK u \in Thread, v \in Thread : u = thread[from] /\ v = thread[to]
  BY DEF Typed, ThreadsTyped
<1>5. PICK purpose \in Purposes : purpose = IF v.purpose # None THEN v.purpose
                                           ELSE IF before.purpose = "human_ask" THEN None ELSE before.purpose
  BY DEF Thread, Comm, Purposes
<1>6. PICK row \in Comm : row = [before EXCEPT !.thread = to, !.purpose = purpose, !.link = "corrected"]
  BY DEF Comm
<1>7. row.thread = to /\ row.purpose = purpose /\ row.link = "corrected" /\ row.files = before.files
  BY <1>6 DEF Comm
<1>8. PICK e \in Email : e = [thread |-> to, purpose |-> purpose]
  BY DEF Email
<1>9. PICK f \in Feedback : f = [of |-> c, from |-> from, to |-> to, reason |-> reason]
  BY DEF Feedback
<1> DEFINE left == {d \in Comms \ {c} : comm[d] # None /\ comm[d].thread = from}
           tied == UNION {IF d = Sent THEN scene.asked ELSE {Mail[d].from} : d \in left}
<1>10. /\ purpose = "human_ask" => ~Locked
       /\ correction' = None /\ comm' = [comm EXCEPT ![c] = row]
       /\ email' = [email EXCEPT ![c] = e]
       /\ binding' = IF purpose = "human_ask" THEN [binding EXCEPT !.thread = to] ELSE binding
       /\ feedback' = {g \in feedback : g.of # c} \cup {f}
  BY <1>1, <1>2, <1>3, <1>4, <1>5, <1>6, <1>8, <1>9 DEF CommitCorrection
<1>11. thread' = [t \in Threads |-> IF t = to THEN With(thread[t], c, purpose)
                                    ELSE IF t = from THEN Without(thread[t], left, tied) ELSE thread[t]]
  BY <1>1, <1>2, <1>3, <1>4, <1>5 DEF CommitCorrection
<1> HIDE DEF left, tied
<1>12. PICK x \in Thread : /\ x = Without(u, left, tied) /\ x.purpose = u.purpose
                           /\ x.status = u.status \/ (u.purpose # "human_ask" /\ x.status = "closed")
  BY WithoutTyped
<1>13. PICK y \in Thread : y = With(v, c, purpose) /\ y.status = "open" /\ y.purpose = purpose
  BY WithTyped
<1>14. /\ thread' \in [Threads -> Thread] /\ thread'[to] = y /\ (from # to => thread'[from] = x)
       /\ \A t \in Threads \ {from, to} : thread'[t] = thread[t]
  <2>1. thread' = [t \in Threads |-> IF t = to THEN y ELSE IF t = from THEN x ELSE thread[t]]
    BY <1>4, <1>11, <1>12, <1>13
  <2> QED BY <2>1 DEF Typed, ThreadsTyped
<1>16. f.from = from
  BY <1>9
<1>17. feedback' \subseteq Feedback /\ \A g \in feedback' : g \in feedback \/ g.from = from
  BY <1>10, <1>16 DEF Typed, ThreadsTyped
<1>18. e.thread = to /\ e.purpose = purpose
  BY <1>8
<1>19. Rethreaded(c, to, purpose)
  BY <1>2, <1>3, <1>4, <1>5, <1>7, <1>10, <1>12, <1>13, <1>14, <1>17, <1>18 DEF Rethreaded
<1>20. MailTyped'
  BY <1>10 DEF Typed, MailTyped, Comms
<1>21. binding' \in Ask
  <2>1. PICK b \in Ask : b = binding
    BY DEF Typed, ThreadsTyped
  <2>2. [b EXCEPT !.thread = to] \in Ask
    BY DEF Ask
  <2> QED BY <1>10, <2>1, <2>2
<1>22. ThreadsTyped' /\ PeopleTyped'
  BY <1>10, <1>14, <1>17, <1>21 DEF Typed, ThreadsTyped, PeopleTyped, CommitCorrection
<1> QED BY <1>1, <1>19, <1>20, <1>22 DEF Typed, CommitCorrection, WebTyped, HandsTyped, RestTyped, web, history

-----------------------------------------------------------------------------
(* Rows, and who is between two of them *)

\* Hands know what they need to; the Ask's thread, and only that, is for the Ask.
Working == \A w \in Hands : HandOK(worker[w]) /\ (worker[w].at = "email" \/ HalfAt(worker[w]) => Placed(worker[w]))
Jobs ==
  \A r \in Receipts : /\ job[r].lease # None <=> job[r].status = "processing"
                      /\ job[r].status # "none" => receipt[r] # "none"
                      /\ hook[r] # "due" => receipt[r] # "none"

InPlace(row) == row.purpose = "human_ask" <=> row.thread = AskThread
Purposed == binding.thread = AskThread /\ \A t \in Threads : thread[t].purpose = "human_ask" <=> t = AskThread
\* A row lies in a thread that exists, and in the Ask's exactly when it has the Ask's purpose; a
\* communication, or an answer announced, has its row in email_messages.
RowsFit ==
  /\ \A c \in Comms : /\ email[c] # None => InPlace(email[c]) /\ thread[email[c].thread].status # "none"
                      /\ comm[c] # None => InPlace(comm[c]) /\ thread[comm[c].thread].status # "none" /\ email[c] # None
  /\ \A f \in feedback : thread[f.from].status # "none"
  /\ correction # None => comm[correction.of] # None
  /\ \A m \in Mails : <<"ask.response.received", m>> \in outbox => email[m] # None

\* What a hand between the writes of a message may rely on; no two are between those of one message.
HalfOK(h) ==
  LET m == h.on.of
  IN /\ email[m] # None /\ <<"ask.response.received", m>> \notin outbox
     /\ h.at = "comm" => comm[m] = None
     /\ h.at # "comm" => comm[m] # None /\ (comm[m].link = "corrected" \/ comm[m].purpose = h.purpose)
     /\ h.at \in {"announce", "answer"} => (Mail[m].files => comm[m].files)
     /\ h.at = "answer" => <<"communication.received", m>> \in outbox /\ IsAnswer(m, h.purpose)
Half ==
  /\ \A w \in Hands : HalfAt(worker[w]) => HalfOK(worker[w])
  /\ \A v, w \in Hands : HalfAt(worker[v]) /\ HalfAt(worker[w]) /\ worker[v].on.of = worker[w].on.of => v = w

Held(m) == \E w \in Hands : HalfAt(worker[w]) /\ worker[w].on.of = m
\* A message that is in email_messages is whole, in hand or broken.
Told == \A m \in Mails : email[m] # None => Whole(m) \/ m \in broken \/ Held(m)

\* A job that is over, or is being closed as done, was done.
Dealt(r) ==
  /\ r \in Mails => email[r] # None
  /\ r \in Reports /\ Kind[r] \in Telling => <<Kind[r], Sent>> \in outbox \/ r \in early
Dealing ==
  /\ \A r \in Receipts : job[r].status = "done" => Dealt(r)
  /\ \A w \in Hands : worker[w].at \in {"finish", "settle"} /\ worker[w].verdict = "done" => Dealt(worker[w].on.of)

Core == Typed /\ Working /\ Jobs /\ Purposed /\ RowsFit /\ Half /\ Told /\ Dealing

\* Nothing that was written goes away.
Grows ==
  /\ \A t \in Threads : thread[t].status # "none" => thread'[t].status # "none"
  /\ \A c \in Comms : (email[c] # None => email'[c] # None) /\ (comm[c] # None => comm'[c] # None)
  /\ outbox \subseteq outbox' /\ early \subseteq early' /\ broken \subseteq broken'
SameRows == email' = email /\ comm' = comm /\ \A m \in Mails : <<"ask.response.received", m>> \in outbox' => <<"ask.response.received", m>> \in outbox
SameButOf(m) ==
  /\ \A c \in Comms \ {m} : email'[c] = email[c] /\ comm'[c] = comm[c]
  /\ \A n \in Mails \ {m} : <<"ask.response.received", n>> \in outbox' => <<"ask.response.received", n>> \in outbox

LEMMA HalfKnown ==
  ASSUME Working, NEW w \in Hands
  PROVE  /\ Halfway(w) <=> HalfAt(worker[w])
         /\ worker[w].at # "idle" => Doing(w) \in Receipts
         /\ HalfAt(worker[w]) \/ worker[w].at \in {"thread", "email"} => Doing(w) \in Mails
         /\ HalfAt(worker[w]) \/ worker[w].at = "email" => Placed(worker[w])
BY DEF Working, HandOK, Halfway, HalfAt, At, Doing, Wrote, Claims

LEMMA WorkingStep ==
  ASSUME HandsTyped, Working, Grows, NEW w \in Hands, NEW h \in Hand, Moved(w, h), HandOK(h),
         h.at = "email" \/ HalfAt(h) => Placed(h)'
  PROVE  Working'
<1> SUFFICES ASSUME NEW v \in Hands
             PROVE  (HandOK(worker[v]) /\ (worker[v].at = "email" \/ HalfAt(worker[v]) => Placed(worker[v])))'
  BY DEF Working
<1>1. CASE v = w
  BY <1>1, MovedAt DEF HandOK, HalfAt, Placed
<1>2. CASE v # w
  BY <1>2, MovedAt DEF Working, Grows, HandOK, HalfAt, Placed
<1> QED BY <1>1, <1>2

LEMMA WorkingStays ==
  ASSUME Working, Grows, worker' = worker
  PROVE  Working'
BY DEF Working, Grows, HandOK, HalfAt, Placed

LEMMA HalfQuiet ==
  ASSUME HandsTyped, Half, SameRows, Grows, NEW w \in Hands, NEW h \in Hand, Moved(w, h), ~HalfAt(h), Working
  PROVE  Half'
<1>1. \A v \in Hands : HalfAt(worker[v]) => worker[v].on.of \in Mails
  BY DEF Working, HandOK, HalfAt, Wrote
<1>2. \A v \in Hands : HalfAt(worker'[v]) => v # w /\ worker'[v] = worker[v]
  BY MovedAt
<1>3. ASSUME NEW v \in Hands, HalfAt(worker'[v])
      PROVE  HalfOK(worker[v])'
  BY <1>1, <1>2, <1>3 DEF Half, HalfOK, SameRows, Grows
<1> QED BY <1>2, <1>3 DEF Half, HalfAt

LEMMA HalfStays ==
  ASSUME Half, SameRows, Grows, worker' = worker, Working
  PROVE  Half'
<1>1. \A v \in Hands : HalfAt(worker[v]) => worker[v].on.of \in Mails
  BY DEF Working, HandOK, HalfAt, Wrote
<1>2. ASSUME NEW v \in Hands, HalfAt(worker[v])
      PROVE  HalfOK(worker[v])'
  BY <1>1, <1>2 DEF Half, HalfOK, SameRows, Grows
<1> QED BY <1>2 DEF Half, HalfAt

\* No other hand is at the message.
Alone(w) == HalfAt(worker[w]) \/ email[Doing(w)] = None
LEMMA AloneIs ==
  ASSUME Half, NEW w \in Hands, Alone(w)
  PROVE  \A v \in Hands \ {w} : HalfAt(worker[v]) => worker[v].on.of # Doing(w)
BY DEF Half, Alone, HalfOK, Doing

LEMMA HalfWrites ==
  ASSUME HandsTyped, Half, Working, Grows, NEW w \in Hands, NEW h \in Hand, Moved(w, h), Alone(w), SameButOf(Doing(w)),
         HalfAt(h) => h.on.of = Doing(w) /\ HalfOK(h)'
  PROVE  Half'
<1>1. \A v \in Hands : HalfAt(worker[v]) => worker[v].on.of \in Mails
  BY DEF Working, HandOK, HalfAt, Wrote
<1>2. \A v \in Hands \ {w} : worker'[v] = worker[v] /\ (HalfAt(worker[v]) => worker[v].on.of # Doing(w))
  BY MovedAt, AloneIs
<1>3. worker'[w] = h
  BY MovedAt
<1>4. ASSUME NEW v \in Hands \ {w}, HalfAt(worker[v])
      PROVE  HalfOK(worker[v])'
  BY <1>1, <1>2, <1>4 DEF Half, HalfOK, SameButOf, Grows, Comms
<1>5. ASSUME NEW v \in Hands, HalfAt(worker[v])'
      PROVE  HalfOK(worker[v])'
  <2>1. CASE v = w
    BY <1>3, <1>5, <2>1 DEF HalfAt, HalfOK
  <2>2. CASE v # w
    BY <1>2, <1>4, <1>5, <2>2 DEF HalfAt
  <2> QED BY <2>1, <2>2
<1>6. ASSUME NEW u \in Hands, NEW v \in Hands, HalfAt(worker[u])', HalfAt(worker[v])', worker'[u].on.of = worker'[v].on.of
      PROVE  u = v
  <2>1. CASE u = w \/ v = w
    BY <1>2, <1>3, <1>6, <2>1 DEF HalfAt
  <2>2. CASE u # w /\ v # w
    BY <1>2, <1>6, <2>2 DEF Half, HalfAt
  <2> QED BY <2>1, <2>2
<1> QED BY <1>5, <1>6 DEF Half

\* A message that is whole stays so, unless a hand is between its last events.
LEMMA WholeStays ==
  ASSUME NEW m \in Mails, Whole(m), comm'[m] = comm[m], outbox \subseteq outbox',
         <<"ask.response.received", m>> \in outbox' => <<"ask.response.received", m>> \in outbox
  PROVE  Whole(m)'
BY DEF Whole

LEMMA ToldQuiet ==
  ASSUME HandsTyped, Told, SameRows, Grows, NEW w \in Hands, NEW h \in Hand, Moved(w, h), ~HalfAt(worker[w])
  PROVE  Told'
<1> SUFFICES ASSUME NEW m \in Mails, email[m] # None
             PROVE  Whole(m)' \/ m \in broken' \/ Held(m)'
  BY DEF Told, SameRows
<1>1. CASE Whole(m)
  BY <1>1, WholeStays DEF SameRows, Grows
<1>2. CASE m \in broken
  BY <1>2 DEF Grows
<1>3. CASE Held(m)
  BY <1>3, MovedAt DEF Held, HalfAt
<1> QED BY <1>1, <1>2, <1>3 DEF Told

LEMMA ToldStays ==
  ASSUME Told, SameRows, Grows, worker' = worker
  PROVE  Told'
<1> SUFFICES ASSUME NEW m \in Mails, email[m] # None
             PROVE  Whole(m)' \/ m \in broken' \/ Held(m)'
  BY DEF Told, SameRows
<1>1. CASE Whole(m)
  BY <1>1, WholeStays DEF SameRows, Grows
<1>2. CASE m \in broken
  BY <1>2 DEF Grows
<1>3. CASE Held(m)
  BY <1>3 DEF Held, HalfAt
<1> QED BY <1>1, <1>2, <1>3 DEF Told

LEMMA ToldWrites ==
  ASSUME HandsTyped, Told, Grows, NEW w \in Hands, NEW h \in Hand, Moved(w, h), NEW d \in Mails, d = Doing(w),
         SameButOf(d), Whole(d)' \/ d \in broken' \/ (HalfAt(h) /\ h.on.of = d)
  PROVE  Told'
<1> SUFFICES ASSUME NEW m \in Mails, email'[m] # None
             PROVE  Whole(m)' \/ m \in broken' \/ Held(m)'
  BY DEF Told
<1>1. CASE m = d
  BY <1>1, MovedAt DEF Held, HalfAt
<1>2. CASE m # d
  <2>1. email[m] # None /\ comm'[m] = comm[m]
    BY <1>2 DEF SameButOf, Comms
  <2>2. CASE Whole(m)
    BY <1>2, <2>1, <2>2, WholeStays DEF SameButOf, Grows
  <2>3. CASE m \in broken
    BY <2>3 DEF Grows
  <2>4. CASE Held(m)
    BY <1>2, <2>4, MovedAt DEF Held, HalfAt, Doing
  <2> QED BY <2>1, <2>2, <2>3, <2>4 DEF Told
<1> QED BY <1>1, <1>2

LEMMA DealtStays ==
  ASSUME Grows, NEW r \in Receipts, Dealt(r)
  PROVE  Dealt(r)'
BY DEF Grows, Dealt, Comms

LEMMA DealingStep ==
  ASSUME HandsTyped, Working, Dealing, Grows, NEW w \in Hands, NEW h \in Hand, Moved(w, h),
         \A r \in Receipts : job'[r].status = "done" => job[r].status = "done" \/ Dealt(r),
         h.at \in {"finish", "settle"} /\ h.verdict = "done" => Dealt(h.on.of)'
  PROVE  Dealing'
<1>1. ASSUME NEW r \in Receipts, job'[r].status = "done"
      PROVE  Dealt(r)'
  BY <1>1, DealtStays DEF Dealing
<1>2. ASSUME NEW v \in Hands, worker'[v].at \in {"finish", "settle"}, worker'[v].verdict = "done"
      PROVE  Dealt(worker[v].on.of)'
  <2>1. CASE v = w
    BY <1>2, <2>1, MovedAt DEF Dealt
  <2>2. CASE v # w
    <3>1. worker'[v] = worker[v]
      BY <2>2, MovedAt
    <3>2. PICK r \in Receipts : r = worker[v].on.of
      BY <1>2, <3>1, HalfKnown DEF Doing
    <3>3. Dealt(r)'
      BY <1>2, <3>1, <3>2, DealtStays DEF Dealing
    <3> QED BY <3>1, <3>2, <3>3 DEF Dealt
  <2> QED BY <2>1, <2>2
<1> QED BY <1>1, <1>2 DEF Dealing

LEMMA DealingStays ==
  ASSUME Working, Dealing, Grows, worker' = worker,
         \A r \in Receipts : job'[r].status = "done" => job[r].status = "done" \/ Dealt(r)
  PROVE  Dealing'
<1>1. ASSUME NEW r \in Receipts, job'[r].status = "done"
      PROVE  Dealt(r)'
  BY <1>1, DealtStays DEF Dealing
<1>2. ASSUME NEW v \in Hands, worker[v].at \in {"finish", "settle"}, worker[v].verdict = "done"
      PROVE  Dealt(worker[v].on.of)'
  <2>1. PICK r \in Receipts : r = worker[v].on.of
    BY <1>2, HalfKnown DEF Doing
  <2>2. Dealt(r)'
    BY <1>2, <2>1, DealtStays DEF Dealing
  <2> QED BY <2>1, <2>2 DEF Dealt
<1> QED BY <1>1, <1>2 DEF Dealing

-----------------------------------------------------------------------------
(* What a step leaves *)

LEMMA MailsApart == \A m \in Mails : m \in Receipts /\ m \in Comms /\ m \notin Reports
BY InboundMailAssumption DEF Receipts, Comms

LEMMA JobsStay ==
  ASSUME Jobs, UNCHANGED <<hook, job>>, \A r \in Receipts : receipt[r] # "none" => receipt'[r] # "none"
  PROVE  Jobs'
BY DEF Jobs

LEMMA RowsStay ==
  ASSUME Purposed, RowsFit, UNCHANGED <<email, comm, thread, binding, feedback>>, correction' \in {correction, None},
         \A m \in Mails : <<"ask.response.received", m>> \in outbox' => <<"ask.response.received", m>> \in outbox
  PROVE  Purposed' /\ RowsFit'
BY DEF Purposed, RowsFit, InPlace

LEMMA GrowsSame ==
  ASSUME UNCHANGED <<email, comm, thread>>, outbox \subseteq outbox', early \subseteq early', broken \subseteq broken'
  PROVE  Grows
BY DEF Grows

LEMMA StillCore ==
  ASSUME Core, Typed', Jobs', Purposed', RowsFit', Grows, SameRows, worker' = worker,
         \A r \in Receipts : job'[r].status = "done" => job[r].status = "done"
  PROVE  Core'
<1>1. Working' /\ Half' /\ Told' /\ Dealing'
  BY WorkingStays, HalfStays, ToldStays, DealingStays DEF Core
<1> QED BY <1>1 DEF Core

LEMMA QuietCore ==
  ASSUME Core, Typed', Jobs', Purposed', RowsFit', Grows, SameRows, NEW w \in Hands, NEW h \in Hand, Moved(w, h),
         ~HalfAt(worker[w]), ~HalfAt(h), HandOK(h), h.at = "email" => Placed(h)',
         \A r \in Receipts : job'[r].status = "done" => job[r].status = "done" \/ Dealt(r),
         h.at \in {"finish", "settle"} /\ h.verdict = "done" => Dealt(h.on.of)'
  PROVE  Core'
<1>1. HandsTyped
  BY DEF Core, Typed
<1>2. Working' /\ Half' /\ Told' /\ Dealing'
  BY <1>1, WorkingStep, HalfQuiet, ToldQuiet, DealingStep DEF Core
<1> QED BY <1>2 DEF Core

LEMMA WriteCore ==
  ASSUME Core, Typed', Jobs', Purposed', RowsFit', Grows, NEW w \in Hands, NEW h \in Hand, Moved(w, h),
         NEW d \in Mails, d = Doing(w), Alone(w), SameButOf(d), HandOK(h), HalfAt(h) => Placed(h)', h.at # "email",
         HalfAt(h) => h.on.of = d /\ HalfOK(h)', Whole(d)' \/ d \in broken' \/ HalfAt(h), job' = job,
         h.at \in {"finish", "settle"} /\ h.verdict = "done" => h.on.of = d /\ email'[d] # None
  PROVE  Core'
<1>1. HandsTyped
  BY DEF Core, Typed
<1>2. Working'
  BY <1>1, WorkingStep DEF Core
<1>3. Half'
  BY <1>1, HalfWrites DEF Core
<1>4. Told'
  BY <1>1, ToldWrites DEF Core
<1>5. h.at \in {"finish", "settle"} /\ h.verdict = "done" => Dealt(h.on.of)'
  BY MailsApart DEF Dealt
<1>6. Dealing'
  BY <1>1, <1>5, DealingStep DEF Core
<1> QED BY <1>2, <1>3, <1>4, <1>6 DEF Core

\* At the step it is, a hand has no row of its message to lose.
LEMMA NotHalf ==
  ASSUME Working, NEW w \in Hands,
         \/ worker[w].at \in {"idle", "read", "thread", "email", "finish", "settle"}
         \/ worker[w].at = "announce" /\ Doing(w) \in Reports
  PROVE  ~HalfAt(worker[w])
BY MailsApart DEF HalfAt, Wrote, Doing

LEMMA ReceiveCore ==
  ASSUME Core, NEW r \in Receipts, Receive(r)
  PROVE  Core' /\ Grows
<1>1. Typed'
  BY ReceiveTyped DEF Core
<1>2. Jobs'
  BY DEF Core, Jobs, Receive, Typed, WebTyped
<1>3. Grows /\ SameRows /\ Purposed' /\ RowsFit'
  BY RowsStay, GrowsSame DEF Core, Receive, SameRows, mail, threads, people, history
<1> QED BY <1>1, <1>2, <1>3, StillCore DEF Receive

LEMMA QueueJobCore ==
  ASSUME Core, NEW r \in Receipts, QueueJob(r)
  PROVE  Core' /\ Grows
<1>1. Typed'
  BY QueueJobTyped DEF Core
<1>2. PICK j \in Job : j = job[r]
  BY DEF Core, Typed, WebTyped
<1>3. PICK s \in {"none", "pending", "processing"} \cup Settled :
        s = IF j.status = "none" /\ receipt[r] # "processed" THEN "pending" ELSE j.status
  BY DEF Job
<1>4. PICK i \in Job : i = [j EXCEPT !.status = s]
  BY DEF Job
<1>5. i.status = s /\ i.lease = j.lease
  BY <1>4 DEF Job
<1>6. job' = [job EXCEPT ![r] = i] /\ hook' = [hook EXCEPT ![r] = "answered"] /\ receipt' = receipt /\ hook[r] = "stored"
  BY <1>2, <1>3, <1>4 DEF QueueJob
<1>7. /\ \A p \in Receipts \ {r} : job'[p] = job[p] /\ hook'[p] = hook[p]
      /\ job'[r] = i
  BY <1>6 DEF Core, Typed, WebTyped
<1>8. Jobs'
  <2> SUFFICES ASSUME NEW p \in Receipts
               PROVE  (/\ job[p].lease # None <=> job[p].status = "processing"
                       /\ job[p].status # "none" => receipt[p] # "none"
                       /\ hook[p] # "due" => receipt[p] # "none")'
    BY DEF Jobs
  <2>1. CASE p = r
    BY <1>2, <1>3, <1>5, <1>6, <1>7, <2>1 DEF Core, Jobs
  <2>2. CASE p # r
    BY <1>6, <1>7, <2>2 DEF Core, Jobs
  <2> QED BY <2>1, <2>2
<1>9. \A p \in Receipts : job'[p].status = "done" => job[p].status = "done"
  BY <1>2, <1>3, <1>5, <1>7
<1>10. Grows /\ SameRows /\ Purposed' /\ RowsFit'
  BY RowsStay, GrowsSame DEF Core, QueueJob, SameRows, mail, threads, people, history
<1> QED BY <1>1, <1>8, <1>9, <1>10, StillCore DEF QueueJob

LEMMA RedeliverCore ==
  ASSUME Core, NEW r \in Receipts, Redeliver(r)
  PROVE  Core' /\ Grows
<1>1. Typed'
  BY RedeliverTyped DEF Core
<1>2. Jobs'
  BY DEF Core, Jobs, Redeliver, Typed, WebTyped
<1>3. Grows /\ SameRows /\ Purposed' /\ RowsFit'
  BY RowsStay, GrowsSame DEF Core, Redeliver, SameRows, mail, threads, people, history
<1> QED BY <1>1, <1>2, <1>3, StillCore DEF Redeliver

LEMMA LapseCore ==
  ASSUME Core, NEW r \in Receipts, Lapse(r)
  PROVE  Core' /\ Grows
<1>1. Typed'
  BY LapseTyped DEF Core
<1>2. PICK j \in Job : j = job[r]
  BY DEF Core, Typed, WebTyped
<1>3. PICK i \in Job : i = [j EXCEPT !.lapsed = TRUE]
  BY DEF Job
<1>4. i.status = j.status /\ i.lease = j.lease
  BY <1>3 DEF Job
<1>5. job' = [job EXCEPT ![r] = i]
  BY <1>2, <1>3 DEF Lapse
<1>6. \A p \in Receipts : job'[p].status = job[p].status /\ job'[p].lease = job[p].lease
  BY <1>2, <1>4, <1>5 DEF Core, Typed, WebTyped
<1>7. Jobs'
  BY <1>6 DEF Core, Jobs, Lapse, web
<1>8. Grows /\ SameRows /\ Purposed' /\ RowsFit'
  BY RowsStay, GrowsSame DEF Core, Lapse, SameRows, mail, threads, people, history
<1> QED BY <1>1, <1>6, <1>7, <1>8, StillCore DEF Lapse

LEMMA ClaimCore ==
  ASSUME Core, NEW w \in Workers, Claim(w)
  PROVE  Core' /\ Grows
<1>1. Typed' /\ w \in Hands
  BY ClaimTyped DEF Core, Hands
<1>2. PICK c \in Claims, todo \in SUBSET Claims : c \notin todo /\ Moved(w, On(c, todo))
  BY Claimed DEF Core
<1>3. PICK h \in Hand : /\ h = On(c, todo) /\ h.at = "read" /\ h.on = c /\ h.todo = todo /\ h.purpose = None
  BY OnTyped
<1>4. HandOK(h) /\ ~HalfAt(h)
  BY <1>2, <1>3 DEF HandOK, HalfAt, Wrote
<1>5. ~HalfAt(worker[w])
  BY <1>1, NotHalf DEF Core, Claim
<1>6. \A r \in Receipts : job'[r] = job[r] \/ (job'[r].status = "processing" /\ job'[r].lease = w /\ job[r].status # "none")
  BY Claimed DEF Core
<1>7. Jobs'
  BY <1>6, NoneIsNoRow DEF Core, Jobs, Claim, web
<1>8. Grows /\ SameRows /\ Purposed' /\ RowsFit'
  BY RowsStay, GrowsSame DEF Core, Claim, SameRows, mail, threads, people, history
<1>9. \A r \in Receipts : job'[r].status = "done" => job[r].status = "done"
  BY <1>6
<1> QED BY <1>1, <1>2, <1>3, <1>4, <1>5, <1>7, <1>8, <1>9, QuietCore

LEMMA ReadCore ==
  ASSUME Core, NEW w \in Hands, Read(w)
  PROVE  Core' /\ Grows
<1>1. Typed'
  BY ReadTyped DEF Core
<1>2. Doing(w) \in Mails
  BY Reads DEF Core
<1>3. PICK h \in Hand : /\ Moved(w, h) /\ Same(h, worker[w])
                        /\ \/ h.at = "finish" /\ h.verdict = "done" /\ email[Doing(w)] # None
                           \/ /\ h.at = "thread" /\ email[Doing(w)] = None
                              /\ h.wants # None \/ h.purpose = worker[w].purpose
  BY Reads DEF Core
<1>4. worker[w].at = "read" /\ HandOK(worker[w])
  BY DEF Read, At, Core, Working
<1>5. HandOK(h) /\ ~HalfAt(h)
  <2>1. h.on = worker[w].on /\ h.todo = worker[w].todo /\ h.at \in {"finish", "thread"}
    BY <1>3 DEF Same
  <2>2. h.on \in Claims \ h.todo /\ h.on.of \in Mails
    BY <1>2, <1>4, <2>1 DEF HandOK, Doing
  <2>3. h.at = "thread" /\ h.purpose = "human_ask" => h.wants # None
    BY <1>3, <1>4, NoneIsNoRow DEF HandOK
  <2>4. h.at = "finish" => h.verdict # None
    BY <1>3, NoneIsNoRow
  <2> QED BY <2>1, <2>2, <2>3, <2>4 DEF HandOK, HalfAt, Wrote
<1>6. ~HalfAt(worker[w])
  BY <1>4, NotHalf DEF Core
<1>7. Grows /\ SameRows /\ Purposed' /\ RowsFit' /\ Jobs'
  BY RowsStay, GrowsSame, JobsStay DEF Core, Read, SameRows, web, mail, threads, people, history
<1>8. h.at \in {"finish", "settle"} /\ h.verdict = "done" => Dealt(h.on.of)'
  <2>1. PICK m \in Mails : m = Doing(w)
    BY <1>2
  <2>2. h.on.of = m
    BY <1>3, <2>1 DEF Same, Doing
  <2>3. h.at = "finish" => email'[m] # None
    BY <1>3, <1>7, <2>1 DEF SameRows
  <2> QED BY <1>3, <2>2, <2>3, MailsApart DEF Dealt
<1> QED BY <1>1, <1>3, <1>5, <1>6, <1>7, <1>8, QuietCore DEF Read

\* A refusal, or a verdict that is not done: the message is let go of.
LetGo(h, k) == Same(h, k) /\ h.at = "finish" /\ h.verdict \in {"failed", "pending"}

LEMMA RefuseIs ==
  ASSUME HandsTyped, NEW w \in Hands, Refuse(w)
  PROVE  \E h \in Hand : Moved(w, h) /\ LetGo(h, worker[w])
<1>1. PICK k \in Hand : k = worker[w]
  BY HandFields
<1>2. PICK verdict \in {"failed", "pending"} : Moved(w, [k EXCEPT !.at = "finish", !.verdict = verdict])
  BY <1>1, Refuses
<1>3. PICK h \in Hand : h = [k EXCEPT !.at = "finish", !.verdict = verdict]
  BY DEF Hand, Settled
<1>4. LetGo(h, k)
  BY <1>3 DEF LetGo, Same, Hand
<1> QED BY <1>1, <1>2, <1>3, <1>4

LEMMA LetGoOK ==
  ASSUME NEW k \in Hand, HandOK(k), k.at # "idle", NEW h \in Hand, LetGo(h, k)
  PROVE  HandOK(h) /\ ~HalfAt(h) /\ h.at = "finish" /\ h.verdict # "done"
BY NoneIsNoRow DEF HandOK, HalfAt, Wrote, LetGo, Same

LEMMA GoIs ==
  ASSUME HandsTyped, NEW w \in Hands,
         NEW step \in {"idle", "read", "thread", "email", "comm", "files", "announce", "answer", "finish", "settle"},
         Go(w, step)
  PROVE  \E h \in Hand : /\ Moved(w, h) /\ Same(h, worker[w]) /\ h.at = step /\ h.purpose = worker[w].purpose
                         /\ h.thread = worker[w].thread /\ h.link = worker[w].link /\ h.verdict = worker[w].verdict
<1>1. PICK k \in Hand : k = worker[w]
  BY HandFields
<1>2. PICK h \in Hand : h = [k EXCEPT !.at = step]
  BY <1>1, Goes
<1>3. Same(h, k) /\ h.at = step /\ h.purpose = k.purpose /\ h.thread = k.thread /\ h.link = k.link /\ h.verdict = k.verdict
  BY <1>2 DEF Hand, Same
<1> QED BY <1>1, <1>2, <1>3, Goes

LEMMA ThroughIs ==
  ASSUME HandsTyped, NEW w \in Hands, Through(w)
  PROVE  \E h \in Hand : Moved(w, h) /\ Same(h, worker[w]) /\ h.at = "finish" /\ h.verdict = "done"
<1>1. PICK k \in Hand : k = worker[w]
  BY HandFields
<1>2. PICK h \in Hand : h = [k EXCEPT !.at = "finish", !.verdict = "done"]
  BY <1>1 DEF Through
<1>3. Same(h, k) /\ h.at = "finish" /\ h.verdict = "done"
  BY <1>2 DEF Hand, Same
<1> QED BY <1>1, <1>2, <1>3 DEF Through

LEMMA ResolveThreadCore ==
  ASSUME Core, NEW w \in Hands, ResolveThread(w)
  PROVE  Core' /\ Grows
<1>1. worker[w].at = "thread" /\ HandOK(worker[w]) /\ Doing(w) \in Mails /\ HandsTyped
  BY DEF Core, ResolveThread, At, Working, HandOK, Doing, Typed
<1>2. Typed' /\ ~HalfAt(worker[w])
  BY <1>1, ResolveThreadTyped, NotHalf DEF Core
<1>3. SameRows /\ Jobs'
  BY JobsStay DEF Core, ResolveThread, SameRows, mail, web
<1>4. CASE Refuse(w) /\ UNCHANGED threads
  <2>1. PICK h \in Hand : Moved(w, h) /\ LetGo(h, worker[w])
    BY <1>1, <1>4, RefuseIs
  <2>2. worker[w] \in Hand
    BY <1>1, HandFields
  <2>3. HandOK(h) /\ ~HalfAt(h) /\ h.at = "finish" /\ h.verdict # "done"
    BY <1>1, <2>1, <2>2, LetGoOK
  <2>4. Grows /\ Purposed' /\ RowsFit'
    BY <1>4, RowsStay, GrowsSame DEF Core, ResolveThread, mail, threads, people, history
  <2> QED BY <1>2, <1>3, <2>1, <2>3, <2>4, QuietCore DEF ResolveThread
<1>5. ASSUME NEW t \in Threads, NEW p \in Purposes, NEW link \in {"explicit", "inferred"}, Entered(w, t, p, link)
      PROVE  Core' /\ Grows
  <2>1. PICK k \in Hand : k = worker[w]
    BY <1>1, HandFields
  <2>2. PICK h \in Hand : h = [k EXCEPT !.at = "email", !.thread = t, !.purpose = p, !.link = link]
    BY <1>5, <2>1 DEF Entered
  <2>3. Same(h, k) /\ h.at = "email" /\ h.thread = t /\ h.purpose = p /\ h.link = link
    BY <2>2 DEF Hand, Same
  <2>4. Moved(w, h)
    BY <1>5, <2>1, <2>2 DEF Entered
  <2>5. p = "human_ask" <=> t = AskThread
    <3>1. k.purpose \in {"human_ask", None} /\ thread[t].purpose = "human_ask" <=> t = AskThread
      BY DEF Hand, Purposes, Core, Purposed
    <3>2. CASE k.purpose = "human_ask"
      BY <1>1, <1>5, <2>1, <3>2, NoneIsNoRow DEF HandOK, Entered, Core, Purposed
    <3>3. CASE k.purpose = None
      BY <1>5, <2>1, <3>3 DEF Entered, Core, Purposed
    <3> QED BY <3>2, <3>3 DEF Hand, Purposes
  <2>6. Grows
    <3>1. thread'[t].status = "open" /\ \A u \in Threads \ {t} : thread'[u] = thread[u]
      BY <1>5 DEF Entered
    <3>2. \A u \in Threads : thread[u].status # "none" => thread'[u].status # "none"
      BY <3>1
    <3> QED BY <3>2 DEF Grows, ResolveThread, mail, history
  <2>7. Purposed'
    <3>1. PICK b \in Ask : b = binding
      BY DEF Core, Typed, ThreadsTyped
    <3>2. binding'.thread = AskThread
      BY <1>5, <2>5, <3>1 DEF Entered, Core, Purposed, Ask
    <3>3. \A u \in Threads : thread'[u].purpose = "human_ask" <=> u = AskThread
      BY <1>5, <2>5 DEF Entered, Core, Purposed
    <3> QED BY <3>2, <3>3 DEF Purposed
  <2>8. RowsFit'
    <3>1. /\ UNCHANGED <<email, comm, outbox, correction>> /\ feedback' = feedback
          /\ \A c \in Comms : (email[c] # None => email[c].thread \in Threads) /\ (comm[c] # None => comm[c].thread \in Threads)
          /\ \A f \in feedback : f.from \in Threads
      BY <1>5 DEF ResolveThread, mail, people, Entered, Core, Typed, MailTyped, ThreadsTyped, Email, Comm, Feedback
    <3> QED BY <2>6, <3>1 DEF Core, RowsFit, InPlace, Grows
  <2>9. HandOK(h) /\ ~HalfAt(h)
    BY <1>1, <2>1, <2>3 DEF HandOK, HalfAt, Wrote, Same, Doing
  <2>10. Placed(h)'
    BY <1>5, <2>3, <2>5, NoneIsNoRow DEF Placed, Entered
  <2> QED BY <1>2, <1>3, <2>3, <2>4, <2>6, <2>7, <2>8, <2>9, <2>10, QuietCore DEF ResolveThread
<1> QED BY <1>1, <1>4, <1>5, Resolves DEF Core

LEMMA AskedRows ==
  ASSUME Core, NEW m \in Mails, NEW row \in Email, email' = [email EXCEPT ![m] = row], InPlace(row),
         thread[row.thread].status # "none", UNCHANGED <<comm, thread, binding, feedback, correction, outbox>>
  PROVE  Purposed' /\ RowsFit'
<1>1. email'[m] = row /\ row # None /\ \A c \in Comms \ {m} : email'[c] = email[c]
  BY NoneIsNoRow DEF Core, Typed, MailTyped, Comms
<1>2. ASSUME NEW c \in Comms
      PROVE  /\ email'[c] # None => InPlace(email'[c]) /\ thread[email'[c].thread].status # "none"
             /\ comm[c] # None => InPlace(comm[c]) /\ thread[comm[c].thread].status # "none" /\ email'[c] # None
  BY <1>1 DEF Core, RowsFit
<1>3. \A n \in Mails : <<"ask.response.received", n>> \in outbox => email'[n] # None
  BY <1>1 DEF Core, RowsFit, Comms
<1> QED BY <1>2, <1>3 DEF Core, Purposed, RowsFit, InPlace

LEMMA StoreEmailCore ==
  ASSUME Core, NEW w \in Hands, StoreEmail(w)
  PROVE  Core' /\ Grows
<1>1. /\ worker[w].at = "email" /\ HandOK(worker[w]) /\ Doing(w) \in Mails /\ HandsTyped /\ Placed(worker[w])
      /\ worker[w] \in Hand /\ Typed
  BY HandFields DEF Core, StoreEmail, At, Working, HandOK, Doing, Typed
<1>2. Typed' /\ ~HalfAt(worker[w])
  BY <1>1, StoreEmailTyped, NotHalf DEF Core
<1>3. Jobs'
  BY JobsStay DEF Core, StoreEmail, web
<1>4. CASE Refuse(w) /\ UNCHANGED email
  <2>1. PICK h \in Hand : Moved(w, h) /\ LetGo(h, worker[w])
    BY <1>1, <1>4, RefuseIs
  <2>2. HandOK(h) /\ ~HalfAt(h) /\ h.at = "finish" /\ h.verdict # "done"
    BY <1>1, <2>1, LetGoOK
  <2>3. Grows /\ SameRows /\ Purposed' /\ RowsFit'
    BY <1>4, RowsStay, GrowsSame DEF Core, StoreEmail, SameRows, threads, people, history
  <2> QED BY <1>2, <1>3, <2>1, <2>2, <2>3, QuietCore DEF StoreEmail
<1>5. CASE /\ email[Doing(w)] = None /\ Go(w, "comm")
           /\ \E row \in Email : /\ row.thread = worker[w].thread /\ row.purpose = worker[w].purpose
                                 /\ email' = [email EXCEPT ![Doing(w)] = row]
  <2>1. PICK m \in Mails : m = Doing(w)
    BY <1>1
  <2>2. PICK row \in Email : /\ row.thread = worker[w].thread /\ row.purpose = worker[w].purpose
                             /\ email' = [email EXCEPT ![m] = row]
    BY <1>5, <2>1
  <2>3. PICK h \in Hand : /\ Moved(w, h) /\ Same(h, worker[w]) /\ h.at = "comm" /\ h.purpose = worker[w].purpose
                          /\ h.thread = worker[w].thread /\ h.link = worker[w].link
    BY <1>1, <1>5, GoIs
  <2>4. Purposed' /\ RowsFit'
    BY <1>1, <2>2, AskedRows DEF Placed, InPlace, StoreEmail, threads, people
  <2>5. email'[m] = row /\ row # None /\ \A c \in Comms \ {m} : email'[c] = email[c]
    BY <2>2, NoneIsNoRow DEF Core, Typed, MailTyped, Comms
  <2>6. Grows /\ SameButOf(m)
    BY <2>5 DEF Grows, SameButOf, StoreEmail, threads, history
  <2>7. HandOK(h) /\ HalfAt(h) /\ h.on.of = m
    BY <1>1, <2>1, <2>3 DEF HandOK, HalfAt, Wrote, Same, Doing
  <2>8. Placed(h)'
    BY <1>1, <2>3 DEF Placed, StoreEmail, threads
  <2>9. HalfOK(h)'
    <3>1. comm[m] = None /\ <<"ask.response.received", m>> \notin outbox
      BY <1>5, <2>1, MailsApart DEF Core, RowsFit
    <3> QED BY <2>3, <2>5, <2>7, <3>1 DEF HalfOK, StoreEmail
  <2>10. Alone(w)
    BY <1>5 DEF Alone
  <2> QED BY <1>2, <1>3, <2>1, <2>3, <2>4, <2>6, <2>7, <2>8, <2>9, <2>10, WriteCore DEF StoreEmail
<1> QED BY <1>1, <1>4, <1>5, StoreEmails

LEMMA StoreCommCore ==
  ASSUME Core, NEW w \in Hands, StoreComm(w)
  PROVE  Core' /\ Grows
<1>1. /\ worker[w].at = "comm" /\ HalfAt(worker[w]) /\ HandOK(worker[w]) /\ Doing(w) \in Mails /\ HandsTyped
      /\ Placed(worker[w]) /\ worker[w] \in Hand /\ Typed /\ HalfOK(worker[w])
  BY HandFields DEF Core, StoreComm, At, Working, HandOK, HalfAt, Wrote, Doing, Typed, Half
<1>2. Typed' /\ Alone(w)
  BY <1>1, StoreCommTyped DEF Alone
<1>3. Jobs'
  BY JobsStay DEF Core, StoreComm, web
<1>4. PICK m \in Mails : m = Doing(w)
  BY <1>1
<1>5. comm[m] = None /\ email[m] # None /\ <<"ask.response.received", m>> \notin outbox
  BY <1>1, <1>4 DEF HalfOK, Doing
<1>6. CASE Refuse(w) /\ broken' = broken \cup {Doing(w)} /\ UNCHANGED <<comm, thread, binding>>
  <2>1. PICK h \in Hand : Moved(w, h) /\ LetGo(h, worker[w])
    BY <1>1, <1>6, RefuseIs
  <2>2. HandOK(h) /\ ~HalfAt(h) /\ h.at = "finish" /\ h.verdict # "done"
    BY <1>1, <2>1, LetGoOK
  <2>3. Grows /\ SameButOf(m) /\ Purposed' /\ RowsFit'
    BY <1>6, RowsStay, GrowsSame DEF Core, StoreComm, SameButOf, people
  <2> QED BY <1>2, <1>3, <1>4, <1>6, <2>1, <2>2, <2>3, WriteCore DEF StoreComm
<1>7. CASE Linked(w)
  <2>1. PICK t \in Threads, p \in Purposes : t = worker[w].thread /\ p = worker[w].purpose
    BY <1>1 DEF Hand, Placed
  <2>2. p = "human_ask" <=> t = AskThread
    BY <1>1, <2>1 DEF Placed
  <2>3. PICK row \in Comm : /\ row.thread = t /\ row.purpose = p /\ row.link = worker[w].link /\ ~row.files
                            /\ comm' = [comm EXCEPT ![m] = row]
    BY <1>4, <1>7, <2>1 DEF Linked
  <2>4. comm'[m] = row /\ row # None /\ \A c \in Comms \ {m} : comm'[c] = comm[c]
    BY <2>3, NoneIsNoRow DEF Core, Typed, MailTyped, Comms
  <2>5. PICK step \in {"files", "announce"} : step = (IF Facts(w).files THEN "files" ELSE "announce") /\ Go(w, step)
    BY <1>7 DEF Linked
  <2>6. PICK h \in Hand : /\ Moved(w, h) /\ Same(h, worker[w]) /\ h.at = step /\ h.purpose = worker[w].purpose
                          /\ h.thread = worker[w].thread /\ h.link = worker[w].link
    BY <1>1, <2>5, GoIs
  <2>7. /\ \A u \in Threads \ {t} : thread'[u] = thread[u]
        /\ thread'[t].status = thread[t].status /\ thread'[t].purpose = IF p = None THEN thread[t].purpose ELSE p
        /\ binding' = IF p = "human_ask" THEN [binding EXCEPT !.thread = t] ELSE binding
    BY <1>7, <2>1 DEF Linked
  <2>8. \A u \in Threads : thread'[u].status = thread[u].status
    BY <2>7
  <2>9. Purposed'
    <3>1. PICK b \in Ask : b = binding
      BY DEF Core, Typed, ThreadsTyped
    <3>2. binding'.thread = AskThread
      BY <2>2, <2>7, <3>1 DEF Core, Purposed, Ask
    <3>3. thread'[t].purpose = "human_ask" <=> t = AskThread
      BY <2>2, <2>7 DEF Core, Purposed, Purposes
    <3>4. \A u \in Threads : thread'[u].purpose = "human_ask" <=> u = AskThread
      BY <2>7, <3>3 DEF Core, Purposed
    <3> QED BY <3>2, <3>4 DEF Purposed
  <2>10. RowsFit'
    <3>1. UNCHANGED <<email, feedback, correction, outbox>>
      BY DEF StoreComm, people
    <3>2. /\ \A c \in Comms : (email[c] # None => email[c].thread \in Threads) /\ (comm'[c] # None => comm'[c].thread \in Threads)
          /\ \A f \in feedback : f.from \in Threads
      BY <1>2 DEF Core, Typed, MailTyped, ThreadsTyped, Email, Comm, Feedback
    <3>3. InPlace(row) /\ thread[row.thread].status # "none"
      BY <1>1, <2>1, <2>2, <2>3 DEF InPlace, Placed
    <3>4. ASSUME NEW c \in Comms, comm'[c] # None
          PROVE  InPlace(comm'[c]) /\ thread[comm'[c].thread].status # "none" /\ email[c] # None
      BY <1>5, <2>4, <3>3, <3>4 DEF Core, RowsFit
    <3>5. correction # None => comm'[correction.of] # None
      BY <2>4 DEF Core, RowsFit, Typed, PeopleTyped, Move, Comms
    <3> QED BY <2>8, <3>1, <3>2, <3>4, <3>5 DEF Core, RowsFit, InPlace
  <2>11. Grows /\ SameButOf(m)
    BY <1>7, <2>4, <2>8 DEF Grows, SameButOf, StoreComm, Linked
  <2>12. HandOK(h) /\ HalfAt(h) /\ h.on.of = m
    BY <1>1, <1>4, <2>6 DEF HandOK, HalfAt, Wrote, Same, Doing
  <2>13. Placed(h)'
    BY <1>1, <2>6, <2>8 DEF Placed
  <2>14. HalfOK(h)'
    <3>1. row.purpose = h.purpose
      BY <2>1, <2>3, <2>6
    <3>2. h.at = "announce" => ~Mail[m].files
      BY <1>4, <2>5, <2>6, InboundMailAssumption DEF Facts
    <3> QED BY <1>5, <2>4, <2>6, <2>12, <3>1, <3>2 DEF HalfOK, StoreComm
  <2> QED BY <1>2, <1>3, <1>4, <2>6, <2>9, <2>10, <2>11, <2>12, <2>13, <2>14, WriteCore DEF StoreComm
<1> QED BY <1>1, <1>6, <1>7, StoreComms

\* The hand of a step between the row and the last event.
LEMMA HalfHand ==
  ASSUME Core, NEW w \in Hands, worker[w].at \in {"files", "answer"} \/ (worker[w].at = "announce" /\ Doing(w) \in Mails)
  PROVE  /\ HandsTyped /\ HandOK(worker[w]) /\ HalfAt(worker[w]) /\ Doing(w) \in Mails /\ Placed(worker[w])
         /\ HalfOK(worker[w]) /\ Alone(w) /\ comm[Doing(w)] # None /\ email[Doing(w)] # None
BY DEF Core, Typed, Working, HandOK, HalfAt, Wrote, Half, HalfOK, Alone, Doing

LEMMA StoreFilesCore ==
  ASSUME Core, NEW w \in Hands, StoreFiles(w)
  PROVE  Core' /\ Grows
<1>1. /\ HandsTyped /\ HandOK(worker[w]) /\ HalfAt(worker[w]) /\ Doing(w) \in Mails /\ Placed(worker[w])
      /\ HalfOK(worker[w]) /\ Alone(w) /\ comm[Doing(w)] # None /\ email[Doing(w)] # None /\ worker[w].at = "files"
  BY HalfHand DEF StoreFiles, At
<1>2. PICK m \in Mails : m = Doing(w)
  BY <1>1
<1>3. Typed' /\ \E row \in Comm : /\ comm' = [comm EXCEPT ![m] = row] /\ row.files
                                  /\ row.thread = comm[m].thread /\ row.purpose = comm[m].purpose /\ row.link = comm[m].link
  BY <1>1, <1>2, StoreFilesTyped DEF Core
<1>4. PICK row \in Comm : /\ comm' = [comm EXCEPT ![m] = row] /\ row.files
                          /\ row.thread = comm[m].thread /\ row.purpose = comm[m].purpose /\ row.link = comm[m].link
  BY <1>3
<1>5. comm'[m] = row /\ row # None /\ \A c \in Comms \ {m} : comm'[c] = comm[c]
  BY <1>4, NoneIsNoRow DEF Core, Typed, MailTyped, Comms
<1>6. PICK h \in Hand : /\ Moved(w, h) /\ Same(h, worker[w]) /\ h.at = "announce" /\ h.purpose = worker[w].purpose
                        /\ h.thread = worker[w].thread /\ h.link = worker[w].link
  BY <1>1, GoIs DEF StoreFiles
<1>7. Jobs'
  BY JobsStay DEF Core, StoreFiles, web
<1>8. Purposed' /\ RowsFit'
  <2>1. UNCHANGED <<email, thread, binding, feedback, correction, outbox>>
    BY DEF StoreFiles, threads, people
  <2>2. InPlace(row) /\ thread[row.thread].status # "none" /\ email[m] # None
    BY <1>1, <1>2, <1>4, MailsApart DEF Core, RowsFit, InPlace
  <2>3. ASSUME NEW c \in Comms, comm'[c] # None
        PROVE  InPlace(comm'[c]) /\ thread[comm'[c].thread].status # "none" /\ email[c] # None
    BY <1>5, <2>2, <2>3 DEF Core, RowsFit
  <2>4. correction # None => comm'[correction.of] # None
    BY <1>5 DEF Core, RowsFit, Typed, PeopleTyped, Move, Comms
  <2> QED BY <2>1, <2>3, <2>4 DEF Core, Purposed, RowsFit, InPlace
<1>9. Grows /\ SameButOf(m)
  BY <1>5 DEF Grows, SameButOf, StoreFiles, threads, history
<1>10. HandOK(h) /\ HalfAt(h) /\ h.on.of = m
  BY <1>1, <1>2, <1>6 DEF HandOK, HalfAt, Same, Doing, Wrote
<1>11. Placed(h)'
  BY <1>1, <1>6 DEF Placed, StoreFiles, threads
<1>12. HalfOK(h)'
  <2>1. row.link = "corrected" \/ row.purpose = h.purpose
    BY <1>1, <1>2, <1>4, <1>6 DEF HalfOK, Doing
  <2>2. email[m] # None /\ <<"ask.response.received", m>> \notin outbox
    BY <1>1, <1>2 DEF HalfOK, Doing
  <2> QED BY <1>4, <1>5, <1>6, <1>10, <2>1, <2>2 DEF HalfOK, StoreFiles
<1> QED BY <1>1, <1>2, <1>3, <1>6, <1>7, <1>8, <1>9, <1>10, <1>11, <1>12, WriteCore DEF StoreFiles

LEMMA AnnounceCore ==
  ASSUME Core, NEW w \in Hands, Announce(w)
  PROVE  Core' /\ Grows
<1>1. /\ HandsTyped /\ HandOK(worker[w]) /\ HalfAt(worker[w]) /\ Doing(w) \in Mails /\ Placed(worker[w])
      /\ HalfOK(worker[w]) /\ Alone(w) /\ comm[Doing(w)] # None /\ email[Doing(w)] # None /\ worker[w].at = "announce"
      /\ Typed' /\ Typed
  BY HalfHand, AnnounceTyped DEF Announce, At, Core
<1>2. PICK m \in Mails : m = Doing(w)
  BY <1>1
<1>3. outbox' = outbox \cup {<<"communication.received", m>>} /\ UNCHANGED <<email, comm, thread, binding, feedback, correction, early, broken, job>>
  BY <1>2 DEF Announce, mail, threads, people, history
<1>4. \A n \in Mails : <<"ask.response.received", n>> \in outbox' => <<"ask.response.received", n>> \in outbox
  BY <1>3
<1>5. Grows /\ SameButOf(m) /\ Purposed' /\ RowsFit' /\ Jobs'
  BY <1>3, <1>4, GrowsSame, RowsStay, JobsStay DEF SameButOf, Core, Announce, web
<1>6. /\ comm[m].link = "corrected" \/ comm[m].purpose = worker[w].purpose
      /\ Mail[m].files => comm[m].files
      /\ <<"ask.response.received", m>> \notin outbox' /\ comm[m] # None /\ email[m] # None
  BY <1>1, <1>2, <1>4 DEF HalfOK, Doing
<1>7. CASE IsAnswer(m, worker[w].purpose)
  <2>1. Go(w, "answer")
    BY <1>1, <1>2, <1>7, Announces DEF Core
  <2>2. PICK h \in Hand : /\ Moved(w, h) /\ Same(h, worker[w]) /\ h.at = "answer" /\ h.purpose = worker[w].purpose
                          /\ h.thread = worker[w].thread /\ h.link = worker[w].link
    BY <1>1, <2>1, GoIs
  <2>3. HandOK(h) /\ HalfAt(h) /\ h.on.of = m
    BY <1>1, <1>2, <2>2 DEF HandOK, HalfAt, Same, Doing, Wrote
  <2>4. Placed(h)'
    BY <1>1, <1>3, <2>2 DEF Placed
  <2>5. HalfOK(h)'
    BY <1>3, <1>6, <1>7, <2>2, <2>3 DEF HalfOK, IsAnswer
  <2> QED BY <1>1, <1>2, <1>3, <1>5, <2>2, <2>3, <2>4, <2>5, WriteCore
<1>8. CASE ~IsAnswer(m, worker[w].purpose)
  <2>1. Through(w)
    BY <1>1, <1>2, <1>8, Announces DEF Core
  <2>2. PICK h \in Hand : Moved(w, h) /\ Same(h, worker[w]) /\ h.at = "finish" /\ h.verdict = "done"
    BY <1>1, <2>1, ThroughIs
  <2>3. HandOK(h) /\ ~HalfAt(h) /\ h.on.of = m
    BY <1>1, <1>2, <2>2, NoneIsNoRow DEF HandOK, HalfAt, Same, Doing, Wrote
  <2>4. Whole(m)'
    BY <1>3, <1>6, <1>8 DEF Whole, IsAnswer
  <2> QED BY <1>1, <1>2, <1>3, <1>5, <1>6, <2>2, <2>3, <2>4, WriteCore
<1> QED BY <1>7, <1>8

LEMMA AnnounceAnswerCore ==
  ASSUME Core, NEW w \in Hands, AnnounceAnswer(w)
  PROVE  Core' /\ Grows
<1>1. /\ HandsTyped /\ HandOK(worker[w]) /\ HalfAt(worker[w]) /\ Doing(w) \in Mails /\ Placed(worker[w])
      /\ HalfOK(worker[w]) /\ Alone(w) /\ comm[Doing(w)] # None /\ email[Doing(w)] # None /\ worker[w].at = "answer"
      /\ Typed' /\ Through(w)
  BY HalfHand, AnnounceAnswerTyped DEF AnnounceAnswer, At, Core
<1>2. PICK m \in Mails : m = Doing(w)
  BY <1>1
<1>3. outbox' = outbox \cup {<<"ask.response.received", m>>} /\ UNCHANGED <<email, comm, thread, binding, feedback, correction, early, broken, job>>
  BY <1>2 DEF AnnounceAnswer, mail, threads, people, history
<1>4. \A n \in Mails \ {m} : <<"ask.response.received", n>> \in outbox' => <<"ask.response.received", n>> \in outbox
  BY <1>3
<1>5. Grows /\ SameButOf(m) /\ Jobs'
  BY <1>3, <1>4, GrowsSame, JobsStay DEF SameButOf, Core, AnnounceAnswer, web
<1>6. /\ comm[m].link = "corrected" \/ comm[m].purpose = worker[w].purpose
      /\ Mail[m].files => comm[m].files
      /\ <<"communication.received", m>> \in outbox /\ IsAnswer(m, worker[w].purpose)
      /\ comm[m] # None /\ email[m] # None
  BY <1>1, <1>2 DEF HalfOK, Doing
<1>7. Purposed' /\ RowsFit'
  BY <1>3, <1>4, <1>6 DEF Core, Purposed, RowsFit, InPlace
<1>8. PICK h \in Hand : Moved(w, h) /\ Same(h, worker[w]) /\ h.at = "finish" /\ h.verdict = "done"
  BY <1>1, ThroughIs
<1>9. HandOK(h) /\ ~HalfAt(h) /\ h.on.of = m
  BY <1>1, <1>2, <1>8, NoneIsNoRow DEF HandOK, HalfAt, Same, Doing, Wrote
<1>10. Whole(m)'
  BY <1>3, <1>6 DEF Whole, IsAnswer
<1> QED BY <1>1, <1>2, <1>3, <1>5, <1>6, <1>7, <1>8, <1>9, <1>10, WriteCore

LEMMA StoreSentCore ==
  ASSUME Core, StoreSent
  PROVE  Core' /\ Grows
<1>1. Typed'
  BY StoreSentTyped DEF Core
<1>2. Grows /\ SameRows /\ Purposed' /\ RowsFit' /\ Jobs'
  BY RowsStay, GrowsSame, JobsStay DEF Core, StoreSent, SameRows, web, mail, threads, people, history
<1> QED BY <1>1, <1>2, StillCore DEF StoreSent

LEMMA ReportCore ==
  ASSUME Core, NEW w \in Hands, Report(w)
  PROVE  Core' /\ Grows
<1>1. Typed' /\ HandsTyped /\ worker[w].at = "read" /\ HandOK(worker[w]) /\ Typed
  BY ReportTyped DEF Core, Typed, Working, Report, At
<1>2. PICK d \in Reports : d = Doing(w)
  BY ReportEffect DEF Core
<1>3. ~HalfAt(worker[w])
  BY <1>1, NotHalf DEF Core
<1>4. early \subseteq early' /\ broken' = broken /\ outbox' = outbox
  BY <1>1, ReportEffect DEF Report
<1>5. Grows /\ SameRows /\ Purposed' /\ RowsFit' /\ Jobs'
  BY <1>4, RowsStay, GrowsSame, JobsStay DEF Core, Report, SameRows, web, mail, threads, people
<1>6. d \notin Mails /\ d \in Receipts
  BY InboundMailAssumption DEF Receipts
<1>7. CASE early' = early /\ Kind[d] \in Telling /\ Go(w, "announce")
  <2>1. PICK h \in Hand : Moved(w, h) /\ Same(h, worker[w]) /\ h.at = "announce"
    BY <1>1, <1>7, GoIs
  <2>2. HandOK(h) /\ ~HalfAt(h)
    BY <1>1, <1>2, <1>6, <2>1 DEF HandOK, HalfAt, Same, Doing, Wrote
  <2> QED BY <1>1, <1>3, <1>5, <2>1, <2>2, QuietCore DEF Report
<1>8. CASE Through(w) /\ (d \in early' \/ Kind[d] \notin Telling)
  <2>1. PICK h \in Hand : Moved(w, h) /\ Same(h, worker[w]) /\ h.at = "finish" /\ h.verdict = "done"
    BY <1>1, <1>8, ThroughIs
  <2>2. HandOK(h) /\ ~HalfAt(h) /\ h.on.of = d
    BY <1>1, <1>2, <2>1, NoneIsNoRow DEF HandOK, HalfAt, Same, Doing, Wrote
  <2>3. Dealt(h.on.of)'
    BY <1>6, <1>8, <2>2 DEF Dealt
  <2> QED BY <1>1, <1>3, <1>5, <2>1, <2>2, <2>3, QuietCore DEF Report
<1> QED BY <1>1, <1>2, <1>7, <1>8, ReportEffect

LEMMA AnnounceReportCore ==
  ASSUME Core, NEW w \in Hands, AnnounceReport(w)
  PROVE  Core' /\ Grows
<1>1. Typed' /\ Through(w) /\ HandsTyped /\ worker[w].at = "announce" /\ HandOK(worker[w])
  BY AnnounceReportTyped DEF Core, Typed, Working, AnnounceReport, At
<1>2. PICK d \in Reports : d = Doing(w)
  BY DEF AnnounceReport
<1>3. ~HalfAt(worker[w])
  BY <1>1, <1>2, NotHalf DEF Core
<1>4. outbox' = outbox \cup {<<Kind[d], Sent>>} /\ Kind[d] # "ask.response.received"
  BY <1>2, InboundMailAssumption DEF AnnounceReport
<1>5. Grows /\ SameRows /\ Purposed' /\ RowsFit' /\ Jobs'
  BY <1>4, RowsStay, GrowsSame, JobsStay DEF Core, AnnounceReport, SameRows, web, mail, threads, people, history
<1>6. PICK h \in Hand : Moved(w, h) /\ Same(h, worker[w]) /\ h.at = "finish" /\ h.verdict = "done"
  BY <1>1, ThroughIs
<1>7. HandOK(h) /\ ~HalfAt(h) /\ h.on.of = d
  BY <1>1, <1>2, <1>6, NoneIsNoRow DEF HandOK, HalfAt, Same, Doing, Wrote
<1>8. Dealt(h.on.of)'
  BY <1>4, <1>7, InboundMailAssumption DEF Dealt
<1> QED BY <1>1, <1>3, <1>5, <1>6, <1>7, <1>8, QuietCore DEF AnnounceReport

LEMMA FinishCore ==
  ASSUME Core, NEW w \in Workers, Finish(w)
  PROVE  Core' /\ Grows
<1>0. w \in Hands /\ w # None
  BY NoneIsNoRow DEF Hands
<1>1. /\ HandsTyped /\ worker[w].at = "finish" /\ HandOK(worker[w]) /\ Doing(w) \in Receipts /\ worker[w].verdict # None
      /\ Typed
  BY <1>0, HalfKnown DEF Core, Typed, Working, Finish, At, HandOK
<1>2. Typed' /\ ~HalfAt(worker[w])
  BY <1>0, <1>1, FinishTyped, NotHalf DEF Core
<1>3. PICK r \in Receipts : r = Doing(w)
  BY <1>1
<1>4. PICK h \in Hand : Moved(w, h) /\ Same(h, worker[w]) /\ h.at = "settle" /\ h.verdict = worker[w].verdict
  BY <1>0, <1>1, GoIs DEF Finish
<1>5. HandOK(h) /\ ~HalfAt(h) /\ h.on.of = r
  BY <1>1, <1>3, <1>4 DEF HandOK, HalfAt, Same, Doing, Wrote
<1>6. Grows /\ SameRows /\ Purposed' /\ RowsFit'
  BY RowsStay, GrowsSame DEF Core, Finish, SameRows, mail, threads, people, history
<1>7. worker[w].verdict = "done" => Dealt(r)
  BY <1>0, <1>1, <1>3 DEF Core, Dealing, Doing
<1>8. CASE job' = job
  <2>1. Jobs'
    BY <1>8, JobsStay DEF Core, Finish, web
  <2>2. h.verdict = "done" => Dealt(h.on.of)'
    <3>1. h.verdict = "done" => Dealt(r)'
      BY <1>4, <1>6, <1>7, DealtStays
    <3> QED BY <1>5, <3>1 DEF Dealt
  <2> QED BY <1>0, <1>2, <1>4, <1>5, <1>6, <1>8, <2>1, <2>2, QuietCore
<1>9. ASSUME NEW j \in Job, job' = [job EXCEPT ![r] = j], j.lease = None, j.status = worker[w].verdict,
             job[r].lease = w, j.status \notin {"processing", "none"}
      PROVE  Core' /\ Grows
  <2>1. job'[r] = j /\ \A p \in Receipts \ {r} : job'[p] = job[p]
    BY <1>9 DEF Core, Typed, WebTyped
  <2>3. Jobs'
    <3>1. job[r].status = "processing" /\ receipt[r] # "none"
      BY <1>0, <1>9 DEF Core, Jobs
    <3> QED BY <1>9, <2>1, <3>1 DEF Core, Jobs, Finish, web
  <2>4. \A p \in Receipts : job'[p].status = "done" => job[p].status = "done" \/ Dealt(p)
    BY <1>7, <1>9, <2>1
  <2>5. h.verdict = "done" => Dealt(h.on.of)'
    <3>1. h.verdict = "done" => Dealt(r)'
      BY <1>4, <1>6, <1>7, DealtStays
    <3> QED BY <1>5, <3>1 DEF Dealt
  <2> QED BY <1>0, <1>2, <1>4, <1>5, <1>6, <2>3, <2>4, <2>5, QuietCore
<1> QED BY <1>0, <1>1, <1>3, <1>8, <1>9, Finishes

LEMMA SettleCore ==
  ASSUME Core, NEW w \in Hands, Settle(w)
  PROVE  Core' /\ Grows
<1>1. /\ HandsTyped /\ worker[w].at = "settle" /\ HandOK(worker[w]) /\ Doing(w) \in Receipts /\ worker[w].verdict # None
      /\ Typed
  BY HalfKnown DEF Core, Typed, Working, Settle, At, HandOK
<1>2. Typed' /\ ~HalfAt(worker[w]) /\ \A r \in Receipts : receipt[r] # "none" => receipt'[r] # "none"
  BY <1>1, SettleTyped, NotHalf DEF Core
<1>3. Grows /\ SameRows /\ Purposed' /\ RowsFit' /\ Jobs'
  BY <1>2, RowsStay, GrowsSame, JobsStay DEF Core, Settle, SameRows, mail, threads, people, history
<1>4. PICK h \in Hand : Moved(w, h) /\ (h = Idle \/ \E c \in worker[w].todo : h = On(c, worker[w].todo \ {c}))
  BY <1>1, Advances DEF Settle
<1>5. HandOK(h) /\ ~HalfAt(h) /\ h.at \notin {"email", "finish", "settle"}
  <2>1. CASE h = Idle
    BY <2>1 DEF Idle, HandOK, HalfAt, Wrote
  <2>2. CASE h # Idle
    <3>1. PICK k \in Hand : k = worker[w]
      BY <1>1, HandFields
    <3>2. PICK c \in Claims, todo \in SUBSET Claims : c \notin todo /\ h = On(c, todo)
      BY <1>4, <2>2, <3>1 DEF Hand
    <3>3. h.at = "read" /\ h.on = c /\ h.todo = todo /\ h.purpose = None
      BY <3>2, OnTyped
    <3> QED BY <3>2, <3>3 DEF HandOK, HalfAt, Wrote
  <2> QED BY <2>1, <2>2
<1> QED BY <1>2, <1>3, <1>4, <1>5, QuietCore DEF Settle

LEMMA StopsIs ==
  ASSUME HandsTyped, NEW w \in Hands, Stops(w), worker[w].at # "idle", HandOK(worker[w])
  PROVE  \E h \in Hand : /\ Moved(w, h) /\ HandOK(h) /\ ~HalfAt(h) /\ h.at \in {"idle", "finish"}
                         /\ h.at = "finish" => h.verdict # "done"
<1>1. CASE Moved(w, Idle)
  BY <1>1, IdleTyped DEF HandOK, HalfAt, Wrote
<1>2. ASSUME NEW verdict \in {"failed", "pending"},
             Moved(w, [worker[w] EXCEPT !.at = "finish", !.verdict = verdict])
      PROVE  \E h \in Hand : Moved(w, h) /\ LetGo(h, worker[w])
  <2>1. PICK k \in Hand : k = worker[w]
    BY HandFields
  <2>2. PICK h \in Hand : h = [k EXCEPT !.at = "finish", !.verdict = verdict]
    BY DEF Hand, Settled
  <2>3. LetGo(h, k)
    BY <2>2 DEF LetGo, Same, Hand
  <2> QED BY <1>2, <2>1, <2>2, <2>3
<1>3. worker[w] \in Hand
  BY HandFields
<1>4. ASSUME NEW h \in Hand, Moved(w, h), LetGo(h, worker[w])
      PROVE  HandOK(h) /\ ~HalfAt(h) /\ h.at \in {"idle", "finish"} /\ h.verdict # "done"
  BY <1>3, <1>4, LetGoOK
<1> QED BY <1>1, <1>2, <1>4 DEF Stops

\* Whatever stops a hand, what it had begun is broken.
LEMMA StopsCore ==
  ASSUME Core, NEW w \in Hands, Stops(w), Breaks(w), worker[w].at # "idle", Typed', Jobs',
         UNCHANGED <<email, comm, thread, binding, feedback, correction, outbox, early, job>>
  PROVE  Core' /\ Grows
<1>1. HandsTyped /\ HandOK(worker[w]) /\ Typed
  BY DEF Core, Typed, Working
<1>2. Halfway(w) <=> HalfAt(worker[w])
  BY HalfKnown DEF Core
<1>3. PICK h \in Hand : /\ Moved(w, h) /\ HandOK(h) /\ ~HalfAt(h) /\ h.at \in {"idle", "finish"}
                        /\ h.at = "finish" => h.verdict # "done"
  BY <1>1, StopsIs
<1>4. broken \subseteq broken' /\ (HalfAt(worker[w]) => Doing(w) \in broken')
  BY <1>2 DEF Breaks
<1>5. Grows /\ SameRows /\ Purposed' /\ RowsFit'
  BY <1>4, RowsStay, GrowsSame DEF Core, SameRows
<1>6. CASE ~HalfAt(worker[w])
  BY <1>3, <1>5, <1>6, QuietCore
<1>7. CASE HalfAt(worker[w])
  <2>1. PICK m \in Mails : m = Doing(w)
    BY <1>7, HalfKnown DEF Core
  <2>2. SameButOf(m) /\ Alone(w) /\ m \in broken'
    BY <1>4, <1>7, <2>1 DEF SameButOf, Alone
  <2> QED BY <1>3, <1>5, <2>1, <2>2, WriteCore
<1> QED BY <1>6, <1>7

LEMMA FailCore ==
  ASSUME Core, NEW w \in Hands, Fail(w)
  PROVE  Core' /\ Grows
<1>1. Typed'
  BY FailTyped, HalfKnown DEF Core
<1>2. Jobs' /\ Stops(w)
  BY JobsStay, Fails DEF Core, Typed, Fail, web
<1> QED BY <1>1, <1>2, StopsCore DEF Fail, mail, threads, people

LEMMA CrashCore ==
  ASSUME Core, NEW w \in Hands, Crash(w)
  PROVE  Core' /\ Grows
<1>1. Typed' /\ Stops(w)
  BY CrashTyped, HalfKnown DEF Core
<1>2. Jobs'
  BY JobsStay DEF Core, Crash, web
<1> QED BY <1>1, <1>2, StopsCore DEF Crash, mail, threads, people

LEMMA CheckCore ==
  ASSUME Core, NEW q \in Requests, NEW c \in Comms, Check(q, c)
  PROVE  Core' /\ Grows
<1>1. Typed'
  BY CheckTyped DEF Core
<1>2. Grows /\ SameRows /\ Purposed' /\ RowsFit' /\ Jobs'
  BY RowsStay, GrowsSame, JobsStay DEF Core, Check, SameRows, web, mail, threads, history
<1> QED BY <1>1, <1>2, StillCore DEF Check

LEMMA LockCore ==
  ASSUME Core, NEW q \in Requests, Lock(q)
  PROVE  Core' /\ Grows
<1>1. Typed'
  BY LockTyped DEF Core
<1>2. Grows /\ SameRows /\ Purposed' /\ RowsFit' /\ Jobs'
  BY RowsStay, GrowsSame, JobsStay DEF Core, Lock, SameRows, web, mail, threads, history
<1> QED BY <1>1, <1>2, StillCore DEF Lock

LEMMA ResolveCore ==
  ASSUME Core, NEW q \in Requests, Resolve(q), request[q].by # None
  PROVE  Core' /\ Grows
<1>1. Typed' /\ Answered(q, request[q].by)
  BY ResolveTyped DEF Core
<1>2. binding.thread = AskThread /\ AskThread \in Threads
  BY DEF Core, Purposed, Threads
<1>3. UNCHANGED <<email, comm, feedback, correction, outbox, early, broken, job, worker, web>>
  BY DEF Resolve, mail
<1>4. \A t \in Threads : /\ thread'[t].purpose = thread[t].purpose
                         /\ thread[t].status # "none" => thread'[t].status # "none"
  BY <1>1, <1>2 DEF Answered
<1>5. Grows /\ SameRows /\ Jobs'
  BY <1>3, <1>4, JobsStay DEF Core, Grows, SameRows, web
<1>6. Purposed'
  BY <1>1, <1>2, <1>4 DEF Answered, Core, Purposed
<1>7. RowsFit'
  <2>1. /\ \A c \in Comms : (email[c] # None => email[c].thread \in Threads) /\ (comm[c] # None => comm[c].thread \in Threads)
        /\ \A f \in feedback : f.from \in Threads
    BY DEF Core, Typed, MailTyped, ThreadsTyped, Email, Comm, Feedback
  <2> QED BY <1>3, <1>4, <2>1 DEF Core, RowsFit, InPlace
<1> QED BY <1>1, <1>3, <1>5, <1>6, <1>7, StillCore

LEMMA DeadlockCore ==
  ASSUME Core, NEW q \in Requests, Deadlock(q)
  PROVE  Core' /\ Grows
<1>1. Typed'
  BY DeadlockTyped DEF Core
<1>2. correction' \in {correction, None}
  BY DEF Deadlock
<1>3. Grows /\ SameRows /\ Purposed' /\ RowsFit' /\ Jobs'
  BY <1>2, RowsStay, GrowsSame, JobsStay DEF Core, Deadlock, SameRows, web, mail, threads, history
<1> QED BY <1>1, <1>3, StillCore DEF Deadlock

LEMMA AnnounceResolvedCore ==
  ASSUME Core, NEW q \in Requests, AnnounceResolved(q)
  PROVE  Core' /\ Grows
<1>1. Typed'
  BY AnnounceResolvedTyped DEF Core
<1>2. \A m \in Mails : <<"ask.response.received", m>> \in outbox' => <<"ask.response.received", m>> \in outbox
  BY DEF AnnounceResolved
<1>3. Grows /\ SameRows /\ Purposed' /\ RowsFit' /\ Jobs'
  BY <1>2, RowsStay, GrowsSame, JobsStay DEF Core, AnnounceResolved, SameRows, web, mail, threads, history
<1> QED BY <1>1, <1>3, StillCore DEF AnnounceResolved

LEMMA BeginCorrectionCore ==
  ASSUME Core, NEW c \in Mails, NEW to \in Threads, NEW reason \in {"other", "wrong_topic"}, BeginCorrection(c, to, reason)
  PROVE  Core' /\ Grows
<1>1. Typed' /\ correction'.of = c
  BY BeginCorrectionTyped DEF Core
<1>2. UNCHANGED <<email, comm, thread, binding, feedback, outbox, early, broken, job, worker, web>>
  BY DEF BeginCorrection, web, mail, threads, history
<1>3. comm'[c] # None
  BY DEF BeginCorrection, mail
<1>4. Purposed' /\ RowsFit'
  BY <1>1, <1>2, <1>3 DEF Core, Purposed, RowsFit, InPlace
<1>5. Grows /\ SameRows /\ Jobs'
  BY <1>2, GrowsSame, JobsStay DEF Core, SameRows, web
<1> QED BY <1>1, <1>2, <1>4, <1>5, StillCore

LEMMA CommitCorrectionCore ==
  ASSUME Core, CommitCorrection
  PROVE  Core' /\ Grows
<1>1. correction \in Move /\ comm[correction.of] # None
  BY DEF Core, RowsFit, Typed, PeopleTyped, CommitCorrection
<1>2. Typed' /\ Typed
  BY <1>1, CommitCorrectionTyped DEF Core
<1>3. PICK m \in Mails, to \in Threads : m = correction.of /\ to = correction.to
  BY <1>1 DEF Move
<1>4. PICK purpose \in Purposes : Rethreaded(m, to, purpose)
  BY <1>1, <1>2, <1>3, CommitCorrectionTyped
<1>5. PICK from \in Threads : from = comm[m].thread
  BY <1>4 DEF Rethreaded
<1>6. m \in Comms /\ comm[m] # None /\ email[m] # None /\ InPlace(comm[m]) /\ thread[from].status # "none"
  BY <1>1, <1>3, <1>5, MailsApart DEF Core, RowsFit
<1>7. purpose = "human_ask" <=> to = AskThread
  <2>1. thread[to].purpose = "human_ask" <=> to = AskThread
    BY DEF Core, Purposed
  <2>2. purpose = IF thread[to].purpose # None THEN thread[to].purpose
                  ELSE IF comm[m].purpose = "human_ask" THEN None ELSE comm[m].purpose
    BY <1>4 DEF Rethreaded
  <2> QED BY <2>1, <2>2, NoneIsNoRow
<1>8. PICK row \in Comm : /\ row.thread = to /\ row.purpose = purpose /\ row.link = "corrected"
                          /\ row.files = comm[m].files /\ comm' = [comm EXCEPT ![m] = row]
  BY <1>4 DEF Rethreaded
<1>9. PICK letter \in Email : letter.thread = to /\ letter.purpose = purpose /\ email' = [email EXCEPT ![m] = letter]
  BY <1>4 DEF Rethreaded
<1>10. /\ comm'[m] = row /\ row # None /\ email'[m] = letter /\ letter # None
       /\ \A c \in Comms \ {m} : comm'[c] = comm[c] /\ email'[c] = email[c]
  BY <1>2, <1>6, <1>8, <1>9, NoneIsNoRow DEF Typed, MailTyped
<1>11. UNCHANGED <<worker, job, outbox, web, early, broken>> /\ correction' = None
  BY DEF CommitCorrection, web, history
<1>12. \A t \in Threads : thread[t].status # "none" => thread'[t].status # "none"
  BY <1>4, <1>5 DEF Rethreaded
<1>13. thread'[to].status = "open" /\ feedback' \subseteq Feedback /\ \A f \in feedback' : f \in feedback \/ f.from = from
  BY <1>4, <1>5 DEF Rethreaded
<1>14. Grows
  BY <1>6, <1>10, <1>11, <1>12 DEF Grows
<1>15. Purposed'
  <2>1. PICK b \in Ask : b = binding
    BY <1>2 DEF Typed, ThreadsTyped
  <2>2. binding'.thread = AskThread
    BY <1>4, <1>7, <2>1 DEF Rethreaded, Core, Purposed, Ask
  <2>3. \A t \in Threads : thread'[t].purpose = "human_ask" <=> t = AskThread
    BY <1>4, <1>5, <1>7 DEF Rethreaded, Core, Purposed
  <2> QED BY <2>2, <2>3 DEF Purposed
<1>16. RowsFit'
  <2>1. /\ \A c \in Comms : (email[c] # None => email[c].thread \in Threads) /\ (comm[c] # None => comm[c].thread \in Threads)
        /\ \A f \in feedback : f.from \in Threads
    BY <1>2 DEF Typed, MailTyped, ThreadsTyped, Email, Comm, Feedback
  <2>2. InPlace(row) /\ InPlace(letter)
    BY <1>7, <1>8, <1>9 DEF InPlace
  <2>3. ASSUME NEW c \in Comms
        PROVE  /\ email'[c] # None => InPlace(email'[c]) /\ thread'[email'[c].thread].status # "none"
               /\ comm'[c] # None => InPlace(comm'[c]) /\ thread'[comm'[c].thread].status # "none" /\ email'[c] # None
    <3>1. CASE c = m
      BY <1>8, <1>9, <1>10, <1>13, <2>2, <3>1
    <3>2. CASE c # m
      BY <1>10, <1>12, <2>1, <3>2 DEF Core, RowsFit
    <3> QED BY <3>1, <3>2
  <2>4. \A f \in feedback' : thread'[f.from].status # "none"
    BY <1>6, <1>12, <1>13, <2>1 DEF Core, RowsFit
  <2>5. \A n \in Mails : <<"ask.response.received", n>> \in outbox => email'[n] # None
    BY <1>10, MailsApart DEF Core, RowsFit
  <2> QED BY <1>11, <2>3, <2>4, <2>5 DEF RowsFit, InPlace
<1>17. Jobs'
  BY <1>11, JobsStay DEF Core, web
<1>18. Working'
  BY <1>11, <1>14, WorkingStays DEF Core
<1>19. Half'
  <2>1. ASSUME NEW w \in Hands, HalfAt(worker[w])
        PROVE  HalfOK(worker[w])'
    <3>1. worker[w].on.of \in Mails /\ HalfOK(worker[w])
      BY <2>1, HalfKnown DEF Core, Half, Doing
    <3>2. CASE worker[w].on.of = m
      BY <1>6, <1>8, <1>10, <1>11, <3>1, <3>2 DEF HalfOK
    <3>3. CASE worker[w].on.of # m
      BY <1>10, <1>11, <3>1, <3>3, MailsApart DEF HalfOK
    <3> QED BY <3>2, <3>3
  <2> QED BY <1>11, <2>1 DEF Core, Half, HalfAt
<1>20. Told'
  <2> SUFFICES ASSUME NEW n \in Mails, email'[n] # None
               PROVE  Whole(n)' \/ n \in broken' \/ Held(n)'
    BY DEF Told
  <2>1. CASE n = m
    <3>1. CASE Whole(m)
      BY <1>8, <1>10, <1>11, <2>1, <3>1 DEF Whole
    <3>2. CASE Held(m) \/ m \in broken
      BY <1>11, <2>1, <3>2 DEF Held, HalfAt
    <3> QED BY <1>6, <3>1, <3>2 DEF Core, Told
  <2>2. CASE n # m
    <3>1. email[n] # None /\ comm'[n] = comm[n]
      BY <1>10, <2>2, MailsApart
    <3>2. CASE Whole(n)
      BY <1>11, <3>1, <3>2, WholeStays
    <3>3. CASE Held(n) \/ n \in broken
      BY <1>11, <3>3 DEF Held, HalfAt
    <3> QED BY <3>1, <3>2, <3>3 DEF Core, Told
  <2> QED BY <2>1, <2>2
<1>21. Dealing'
  BY <1>11, <1>14, DealingStays DEF Core
<1> QED BY <1>2, <1>14, <1>15, <1>16, <1>17, <1>18, <1>19, <1>20, <1>21 DEF Core

-----------------------------------------------------------------------------
(* The Ask and its answer *)

\* The binding and the Ask's thread are open or resolved together, the one with the answer; a
\* correction that holds the answer began before the Ask was resolved.
AskState ==
  /\ thread[AskThread].status = binding.status
  /\ binding.status = "resolved" <=> binding.by # None
  /\ binding.by # None => InAskThread(binding.by) \/ crossed
  /\ correction # None /\ correction.to = AskThread => binding.status = "open"
  /\ correction # None /\ correction.of = binding.by => crossed
\* At most one resolution holds the binding, and what is announced is what was resolved.
RequestOK(q) ==
  /\ request[q].at \in {"checked", "locked", "resolved"} => request[q].by \in Comms /\ comm[request[q].by] # None
  /\ request[q].at = "locked" => binding.status = "open" /\ \A p \in Requests : request[p].at = "locked" => p = q
  /\ request[q].at = "resolved" => binding.by = request[q].by
  /\ <<"ask.resolved", q>> \in outbox => request[q].at = "over" /\ binding.by # None /\ binding.by = request[q].by
Asked == AskState /\ \A q \in Requests : RequestOK(q)

\* What the step does to an Ask that is resolved: nothing.
LeavesAsk == binding.status = "resolved" => UNCHANGED binding /\ \A c \in Comms : InAskThread(c)' => InAskThread(c)

LEMMA AskTyped ==
  ASSUME Core
  PROVE  /\ binding \in Ask /\ binding.status \in {"open", "resolved"} /\ binding.thread = AskThread
         /\ binding.by \in Comms \cup {None} /\ AskThread \in Threads
BY DEF Core, Typed, ThreadsTyped, Ask, Purposed, Threads

\* Nothing but mail that stays where it is.
LEMMA AskedStays ==
  ASSUME Core, Asked, UNCHANGED <<binding, request, correction, crossed>>,
         thread'[AskThread].status = thread[AskThread].status,
         \A c \in Comms : comm[c] # None => comm'[c] # None /\ comm'[c].thread = comm[c].thread,
         \A q \in Requests : <<"ask.resolved", q>> \in outbox' => <<"ask.resolved", q>> \in outbox
  PROVE  Asked'
<1>1. AskState'
  BY AskTyped DEF Asked, AskState, InAskThread
<1>2. ASSUME NEW q \in Requests
      PROVE  RequestOK(q)'
  BY <1>2 DEF Asked, RequestOK
<1> QED BY <1>1, <1>2 DEF Asked

LEMMA AskedSame ==
  ASSUME Core, Asked, UNCHANGED <<comm, thread, binding, request, correction, crossed>>,
         \A q \in Requests : <<"ask.resolved", q>> \in outbox' => <<"ask.resolved", q>> \in outbox
  PROVE  Asked' /\ LeavesAsk
<1>1. Asked'
  BY AskedStays DEF Asked
<1> QED BY <1>1 DEF LeavesAsk, InAskThread

LEMMA ResolveThreadAsked ==
  ASSUME Core, Asked, NEW w \in Hands, ResolveThread(w)
  PROVE  Asked' /\ LeavesAsk
<1>1. worker[w].at = "thread" /\ HandOK(worker[w]) /\ Doing(w) \in Mails /\ Typed
  BY DEF Core, ResolveThread, At, Working, HandOK, Doing
<1>2. UNCHANGED <<comm, outbox, request, correction, crossed>>
  BY DEF ResolveThread, mail, people, history
<1>3. CASE UNCHANGED threads
  BY <1>2, <1>3, AskedSame DEF threads
<1>4. ASSUME NEW t \in Threads, NEW p \in Purposes, NEW link \in {"explicit", "inferred"}, Entered(w, t, p, link)
      PROVE  Asked' /\ LeavesAsk
  <2>1. PICK k \in Hand : k = worker[w]
    BY <1>1, HandFields DEF Typed
  <2>2. p = "human_ask" <=> t = AskThread
    <3>1. thread[t].purpose = "human_ask" <=> t = AskThread
      BY DEF Core, Purposed
    <3>2. CASE k.purpose = "human_ask"
      BY <1>1, <1>4, <2>1, <3>2, NoneIsNoRow DEF HandOK, Entered, Core, Purposed
    <3>3. CASE k.purpose = None
      BY <1>4, <2>1, <3>1, <3>3 DEF Entered
    <3> QED BY <3>2, <3>3 DEF Hand, Purposes
  <2>3. PICK b \in Ask : b = binding /\ b.thread = AskThread
    BY AskTyped
  <2>4. binding' = binding
    <3>1. [b EXCEPT !.thread = AskThread] = b
      BY <2>3 DEF Ask
    <3>2. CASE p = "human_ask"
      BY <1>4, <2>2, <2>3, <3>1, <3>2 DEF Entered
    <3>3. CASE p # "human_ask"
      BY <1>4, <3>3 DEF Entered
    <3> QED BY <3>2, <3>3
  <2>5. thread'[AskThread].status = thread[AskThread].status
    <3>1. CASE t = AskThread
      BY <1>4, <2>2, <3>1 DEF Entered, Asked, AskState
    <3>2. CASE t # AskThread
      BY <1>4, <3>2, AskTyped DEF Entered
    <3> QED BY <3>1, <3>2
  <2>6. Asked'
    BY <1>2, <2>4, <2>5, AskedStays
  <2> QED BY <1>2, <2>4, <2>6 DEF LeavesAsk, InAskThread
<1> QED BY <1>1, <1>3, <1>4, Resolves

LEMMA StoreCommAsked ==
  ASSUME Core, Asked, NEW w \in Hands, StoreComm(w)
  PROVE  Asked' /\ LeavesAsk
<1>1. /\ worker[w].at = "comm" /\ HalfAt(worker[w]) /\ HandOK(worker[w]) /\ Doing(w) \in Mails
      /\ Placed(worker[w]) /\ worker[w] \in Hand /\ Typed /\ HalfOK(worker[w])
  BY HandFields DEF Core, StoreComm, At, Working, HandOK, HalfAt, Wrote, Doing, Typed, Half
<1>2. UNCHANGED <<outbox, request, correction, crossed>>
  BY DEF StoreComm, people
<1>3. CASE UNCHANGED <<comm, thread, binding>>
  BY <1>2, <1>3, AskedSame
<1>4. CASE Linked(w)
  <2>1. PICK t \in Threads, p \in Purposes : t = worker[w].thread /\ p = worker[w].purpose /\ (p = "human_ask" <=> t = AskThread)
    BY <1>1 DEF Hand, Placed
  <2>2. PICK m \in Mails : m = Doing(w) /\ comm[m] = None
    BY <1>1 DEF HalfOK, Doing
  <2>3. PICK row \in Comm : row.thread = t /\ comm' = [comm EXCEPT ![m] = row]
    BY <1>4, <2>1, <2>2 DEF Linked
  <2>4. comm'[m] = row /\ row # None /\ \A c \in Comms \ {m} : comm'[c] = comm[c]
    BY <1>1, <2>3, NoneIsNoRow DEF Typed, MailTyped, Comms
  <2>5. PICK b \in Ask : b = binding /\ b.thread = AskThread
    BY AskTyped
  <2>6. binding' = binding
    <3>1. [b EXCEPT !.thread = AskThread] = b
      BY <2>5 DEF Ask
    <3>2. CASE p = "human_ask"
      BY <1>4, <2>1, <2>5, <3>1, <3>2 DEF Linked
    <3>3. CASE p # "human_ask"
      BY <1>4, <2>1, <3>3 DEF Linked
    <3> QED BY <3>2, <3>3
  <2>7. thread'[AskThread].status = thread[AskThread].status
    BY <1>4, <2>1, AskTyped DEF Linked
  <2>8. \A c \in Comms : comm[c] # None => comm'[c] # None /\ comm'[c].thread = comm[c].thread
    BY <2>2, <2>4
  <2>9. Asked'
    BY <1>2, <2>6, <2>7, <2>8, AskedStays
  <2>10. t = AskThread => binding.status = "open"
    BY <1>4, <2>1 DEF Linked, Accepts
  <2> QED BY <2>3, <2>4, <2>5, <2>6, <2>9, <2>10 DEF LeavesAsk, InAskThread
<1> QED BY <1>1, <1>3, <1>4, StoreComms

LEMMA StoreFilesAsked ==
  ASSUME Core, Asked, NEW w \in Hands, StoreFiles(w)
  PROVE  Asked' /\ LeavesAsk
<1>1. Typed /\ Doing(w) \in Mails /\ comm[Doing(w)] # None
  BY HalfHand DEF Core, StoreFiles, At
<1>2. PICK m \in Mails : m = Doing(w)
  BY <1>1
<1>3. PICK row \in Comm : row.thread = comm[m].thread /\ comm' = [comm EXCEPT ![m] = row]
  BY <1>1, <1>2, StoreFilesTyped
<1>4. comm'[m] = row /\ row # None /\ \A c \in Comms \ {m} : comm'[c] = comm[c]
  BY <1>1, <1>3, NoneIsNoRow DEF Typed, MailTyped, Comms
<1>5. UNCHANGED <<thread, binding, outbox, request, correction, crossed>>
  BY DEF StoreFiles, threads, people, history
<1>6. \A c \in Comms : comm[c] # None => comm'[c] # None /\ comm'[c].thread = comm[c].thread
  BY <1>3, <1>4
<1>7. Asked'
  BY <1>5, <1>6, AskedStays
<1>8. \A c \in Comms : InAskThread(c)' => InAskThread(c)
  BY <1>1, <1>2, <1>3, <1>4, <1>5 DEF InAskThread
<1> QED BY <1>5, <1>7, <1>8 DEF LeavesAsk

\* A step of a resolution that only decides what comes next.
LEMMA StepAsked ==
  ASSUME Core, Asked, NEW q \in Requests, NEW at \in {"idle", "checked", "locked", "resolved", "over"},
         NEW c \in Comms, Step(q, at, c), comm[c] # None, UNCHANGED <<comm, thread, binding, correction, crossed>>,
         at = "locked" => binding.status = "open" /\ ~Locked,
         at = "resolved" => binding.by = c,
         <<"ask.resolved", q>> \in outbox' => at = "over" /\ binding.by = c,
         \A p \in Requests \ {q} : <<"ask.resolved", p>> \in outbox' => <<"ask.resolved", p>> \in outbox
  PROVE  Asked' /\ LeavesAsk
<1>1. /\ request'[q].at = at /\ request'[q].by = c
      /\ \A p \in Requests \ {q} : request'[p] = request[p]
  BY Asks DEF Core
<1>2. AskState'
  BY AskTyped DEF Asked, AskState, InAskThread
<1>3. c # None
  BY NoneIsNoRow
<1>4. RequestOK(q)'
  <2>1. at = "locked" => \A p \in Requests : request'[p].at = "locked" => p = q
    BY <1>1 DEF Locked
  <2> QED BY <1>1, <1>3, <2>1 DEF RequestOK
<1>5. ASSUME NEW p \in Requests \ {q}
      PROVE  RequestOK(p)'
  <2>1. RequestOK(p)
    BY DEF Asked
  <2>2. request[p].at = "locked" => at # "locked" /\ \A r \in Requests : request'[r].at = "locked" => r = p
    BY <1>1, <2>1 DEF Locked, RequestOK
  <2> QED BY <1>1, <2>1, <2>2 DEF RequestOK
<1> QED BY <1>2, <1>4, <1>5 DEF Asked, LeavesAsk, InAskThread

LEMMA CheckAsked ==
  ASSUME Core, Asked, NEW q \in Requests, NEW c \in Comms, Check(q, c)
  PROVE  Asked' /\ LeavesAsk
<1>1. comm[c] # None /\ request[q].at = "idle" /\ Step(q, "checked", c)
  BY DEF Check, Answerable, InAskThread
<1>2. UNCHANGED <<comm, thread, binding, outbox, correction, crossed>>
  BY DEF Check, mail, threads, history
<1>3. <<"ask.resolved", q>> \notin outbox
  BY <1>1 DEF Asked, RequestOK
<1> QED BY <1>1, <1>2, <1>3, StepAsked

LEMMA LockAsked ==
  ASSUME Core, Asked, NEW q \in Requests, Lock(q)
  PROVE  Asked' /\ LeavesAsk
<1>1. PICK c \in Comms : c = request[q].by /\ comm[c] # None
  BY DEF Lock, Asked, RequestOK
<1>2. PICK at \in {"locked", "resolved", "over"} :
        at = IF Answerable(c) THEN "locked" ELSE IF binding.by = c THEN "resolved" ELSE "over"
  OBVIOUS
<1>3. Step(q, at, c) /\ ~Locked /\ request[q].at = "checked"
  BY <1>1, <1>2 DEF Lock
<1>4. UNCHANGED <<comm, thread, binding, outbox, correction, crossed>>
  BY DEF Lock, mail, threads, history
<1>5. <<"ask.resolved", q>> \notin outbox
  BY <1>3 DEF Asked, RequestOK
<1>6. at = "locked" => binding.status = "open"
  BY <1>2 DEF Answerable
<1> QED BY <1>1, <1>2, <1>3, <1>4, <1>5, <1>6, StepAsked

LEMMA AnnounceResolvedAsked ==
  ASSUME Core, Asked, NEW q \in Requests, AnnounceResolved(q)
  PROVE  Asked' /\ LeavesAsk
<1>1. PICK c \in Comms : c = request[q].by /\ comm[c] # None /\ binding.by = c
  BY DEF AnnounceResolved, Asked, RequestOK
<1>2. UNCHANGED <<comm, thread, binding, correction, crossed>> /\ outbox' = outbox \cup {<<"ask.resolved", q>>}
  BY DEF AnnounceResolved, mail, threads, history
<1>3. Step(q, "over", c)
  BY <1>1 DEF AnnounceResolved
<1> QED BY <1>1, <1>2, <1>3, StepAsked

LEMMA DeadlockAsked ==
  ASSUME Core, Asked, NEW q \in Requests, Deadlock(q)
  PROVE  Asked' /\ LeavesAsk
<1>1. PICK c \in Comms : c = request[q].by /\ comm[c] # None
  BY DEF Deadlock, Asked, RequestOK
<1>2. UNCHANGED <<comm, thread, binding, outbox, crossed>> /\ <<"ask.resolved", q>> \notin outbox
  BY DEF Deadlock, mail, threads, history, Asked, RequestOK
<1>3. CASE Step(q, "over", c) /\ UNCHANGED correction
  BY <1>1, <1>2, <1>3, StepAsked
<1>4. CASE correction' = None /\ UNCHANGED request
  <2>1. AskState'
    BY <1>2, <1>4, AskTyped DEF Asked, AskState, InAskThread
  <2>2. ASSUME NEW p \in Requests
        PROVE  RequestOK(p)'
    BY <1>2, <1>4 DEF Asked, RequestOK
  <2> QED BY <1>2, <2>1, <2>2 DEF Asked, LeavesAsk, InAskThread
<1> QED BY <1>1, <1>3, <1>4 DEF Deadlock

LEMMA ResolveAsked ==
  ASSUME Core, Asked, NEW q \in Requests, Resolve(q)
  PROVE  Asked' /\ LeavesAsk
<1>1. PICK c \in Comms : c = request[q].by /\ comm[c] # None
  BY DEF Resolve, Asked, RequestOK
<1>2. binding.status = "open" /\ \A p \in Requests : request[p].at = "locked" => p = q
  BY DEF Resolve, Asked, RequestOK
<1>3. c # None
  BY NoneIsNoRow
<1>4. Answered(q, c)
  BY <1>1, <1>3, ResolveTyped DEF Core
<1>5. binding.thread = AskThread /\ AskThread \in Threads /\ binding.by = None
  BY <1>2, AskTyped DEF Asked, AskState
<1>6. binding'.status = "resolved" /\ binding'.thread = AskThread /\ binding'.by = c /\ thread'[AskThread].status = "resolved"
      /\ crossed' = (comm[c].thread # AskThread)
  BY <1>4, <1>5 DEF Answered
<1>7. UNCHANGED <<comm, outbox, correction>>
  BY DEF Resolve, mail
<1>8. AskState'
  BY <1>1, <1>3, <1>5, <1>6, <1>7 DEF AskState, InAskThread, Resolve
<1>9. /\ request'[q].at = "resolved" /\ request'[q].by = c
      /\ \A p \in Requests \ {q} : request'[p] = request[p]
  BY <1>4, Asks DEF Answered, Core
<1>10. ASSUME NEW p \in Requests
       PROVE  RequestOK(p)'
  <2>1. RequestOK(p)
    BY DEF Asked
  <2>2. <<"ask.resolved", p>> \notin outbox /\ request[p].at # "resolved"
    BY <1>5, <2>1, RequestBy, NoneIsNoRow DEF RequestOK, Core
  <2>3. CASE p = q
    BY <1>1, <1>6, <1>7, <1>9, <2>2, <2>3 DEF RequestOK
  <2>4. CASE p # q
    <3>1. request'[p] = request[p] /\ request[p].at # "locked"
      BY <1>2, <1>9, <2>4
    <3> QED BY <1>7, <2>1, <2>2, <3>1 DEF RequestOK
  <2> QED BY <2>3, <2>4
<1> QED BY <1>2, <1>8, <1>10 DEF Asked, LeavesAsk

LEMMA BeginCorrectionAsked ==
  ASSUME Core, Asked, NEW c \in Mails, NEW to \in Threads, NEW reason \in {"other", "wrong_topic"}, BeginCorrection(c, to, reason)
  PROVE  Asked' /\ LeavesAsk
<1>1. correction'.of = c /\ correction'.to = to
  BY BeginCorrectionTyped DEF Core
<1>2. UNCHANGED <<comm, thread, binding, outbox, request, crossed>>
  BY DEF BeginCorrection, mail, threads, history
<1>3. to = AskThread => binding.status = "open"
  BY AskTyped DEF BeginCorrection, Unused, Open, Asked, AskState
<1>4. c = binding.by => crossed
  <2>1. c \in Comms /\ comm[c] # None /\ InPlace(comm[c])
    BY MailsApart DEF BeginCorrection, Core, RowsFit
  <2>2. binding.by = c => comm[c].thread = AskThread \/ crossed
    BY <2>1, AskTyped, NoneIsNoRow DEF Asked, AskState, InAskThread
  <2>3. binding.by = c => binding.status = "resolved"
    BY <2>1, NoneIsNoRow DEF Asked, AskState
  <2> QED BY <2>1, <2>2, <2>3, AskTyped DEF BeginCorrection, Movable, InPlace
<1>5. AskState'
  BY <1>1, <1>2, <1>3, <1>4 DEF Asked, AskState, InAskThread
<1>6. ASSUME NEW q \in Requests
      PROVE  RequestOK(q)'
  BY <1>2 DEF Asked, RequestOK
<1> QED BY <1>2, <1>5, <1>6 DEF Asked, LeavesAsk, InAskThread

LEMMA CommitCorrectionAsked ==
  ASSUME Core, Asked, CommitCorrection
  PROVE  Asked' /\ LeavesAsk
<1>1. correction \in Move /\ comm[correction.of] # None
  BY DEF Core, RowsFit, Typed, PeopleTyped, CommitCorrection
<1>2. PICK m \in Mails, to \in Threads : m = correction.of /\ to = correction.to
  BY <1>1 DEF Move
<1>3. PICK purpose \in Purposes : Rethreaded(m, to, purpose)
  BY <1>1, <1>2, CommitCorrectionTyped DEF Core
<1>4. PICK from \in Threads : from = comm[m].thread
  BY <1>3 DEF Rethreaded
<1>5. m \in Comms /\ comm[m] # None /\ Typed /\ correction # None
  BY <1>1, <1>2, MailsApart DEF Core, CommitCorrection
<1>6. purpose = "human_ask" <=> to = AskThread
  <2>1. thread[to].purpose = "human_ask" <=> to = AskThread
    BY DEF Core, Purposed
  <2>2. purpose = IF thread[to].purpose # None THEN thread[to].purpose
                  ELSE IF comm[m].purpose = "human_ask" THEN None ELSE comm[m].purpose
    BY <1>3 DEF Rethreaded
  <2> QED BY <2>1, <2>2, NoneIsNoRow
<1>7. PICK row \in Comm : row.thread = to /\ comm' = [comm EXCEPT ![m] = row]
  BY <1>3 DEF Rethreaded
<1>8. comm'[m] = row /\ row # None /\ \A c \in Comms \ {m} : comm'[c] = comm[c]
  BY <1>5, <1>7, NoneIsNoRow DEF Typed, MailTyped
<1>9. UNCHANGED <<outbox, request, crossed>> /\ correction' = None
  BY DEF CommitCorrection, history
<1>10. PICK b \in Ask : b = binding /\ b.thread = AskThread
  BY AskTyped
<1>11. binding' = binding
  <2>1. [b EXCEPT !.thread = AskThread] = b
    BY <1>10 DEF Ask
  <2>2. CASE to = AskThread
    BY <1>3, <1>6, <1>10, <2>1, <2>2 DEF Rethreaded
  <2>3. CASE to # AskThread
    BY <1>3, <1>6, <2>3 DEF Rethreaded
  <2> QED BY <2>2, <2>3
<1>12. to = AskThread => binding.status = "open"
  BY <1>2, <1>5 DEF Asked, AskState
<1>13. thread'[AskThread].status = thread[AskThread].status
  <2>1. CASE to = AskThread
    BY <1>3, <1>12, <2>1 DEF Rethreaded, Asked, AskState
  <2>2. CASE to # AskThread /\ from = AskThread
    BY <1>3, <1>4, <2>2 DEF Rethreaded, Core, Purposed
  <2>3. CASE to # AskThread /\ from # AskThread
    BY <1>3, <1>4, <2>3, AskTyped DEF Rethreaded
  <2> QED BY <2>1, <2>2, <2>3
<1>14. m = binding.by => crossed
  BY <1>2, <1>5 DEF Asked, AskState
<1>15. AskState'
  <2>1. binding.by # None /\ ~crossed => binding.by \in Comms \ {m}
    BY <1>14, AskTyped
  <2> QED BY <1>8, <1>9, <1>11, <1>13, <2>1 DEF Asked, AskState, InAskThread
<1>16. ASSUME NEW q \in Requests
       PROVE  RequestOK(q)'
  BY <1>5, <1>8, <1>9, <1>11 DEF Asked, RequestOK
<1> QED BY <1>7, <1>8, <1>10, <1>11, <1>12, <1>15, <1>16 DEF Asked, LeavesAsk, InAskThread

-----------------------------------------------------------------------------
(* The cursor of a mailbox *)

SyncTyped ==
  /\ inbox \in Seq(Mails) /\ deleted \subseteq Mails /\ passed \subseteq Mails /\ refused \subseteq Mails
  /\ mailbox \in MailboxState /\ sync \in [Syncers -> Listing]

\* Read, or nobody's to read any more.
Covered(m) == Stored(m) \/ m \in deleted \cup passed \cup scene.garbled
\* Nothing up to n is forgotten.
CoveredTo(n) == \A i \in 1 .. n : Covered(inbox[i])

\* The stored cursor, once the mailbox has been synced, is past nothing that is not covered.
CursorOK(m) ==
  /\ m.lapsed => m.status = "syncing"
  /\ m.cursor # None => m.cursor <= Len(inbox) /\ (m.synced => CoveredTo(m.cursor))
  /\ scene.provider = "gmail" => m.cursor # None
  /\ scene.provider = "outlook" /\ m.cursor # None => m.synced

\* A sync at step row.at, whose hand is h, has not left out any message its cursor will pass.
ListingOK(row, h) ==
  /\ row.next <= Len(inbox) /\ (row.from # None => row.from <= Len(inbox))
  /\ row.renew => scene.provider = "gmail"
  /\ h.at # "idle" <=> row.at = "message"
  /\ h.at # "idle" => h.on.of \in Mails
  /\ row.at = "changes" /\ row.from # None => CoveredTo(row.from)
  /\ row.at = "catchup" =>
       /\ row.from # None
       /\ \A i \in 1 .. Len(inbox) : i <= row.next \/ i <= row.from => Covered(inbox[i]) \/ inbox[i] \in row.todo
  /\ row.at \in {"ingest", "message"} =>
       \A i \in 1 .. row.next : Covered(inbox[i]) \/ inbox[i] \in row.todo \/ (row.at = "message" /\ inbox[i] = h.on.of)
  /\ row.at = "mark" => CoveredTo(row.next)

Cursors == SyncTyped /\ CursorOK(mailbox) /\ \A s \in Syncers : ListingOK(sync[s], worker[s])

\* The inbox grows, and what is covered stays covered.
Farther ==
  /\ scene' = scene /\ Len(inbox) <= Len(inbox')
  /\ \A i \in 1 .. Len(inbox) : inbox'[i] = inbox[i]
  /\ \A m \in Mails : Covered(m) => Covered(m)'
Turns(s, row) == sync' = [sync EXCEPT ![s] = row]

LEMMA InboxOf ==
  ASSUME SyncTyped
  PROVE  Len(inbox) \in Nat /\ \A i \in 1 .. Len(inbox) : inbox[i] \in Mails
BY DEF SyncTyped

LEMMA SinceIs ==
  ASSUME SyncTyped, NEW n \in Nat
  PROVE  Since(n) \subseteq Mails /\ \A i \in 1 .. Len(inbox) : i > n => inbox[i] \in Since(n)
BY InboxOf DEF Since

LEMMA CursorStays ==
  ASSUME SyncTyped, SyncTyped', Farther, NEW m \in MailboxState, CursorOK(m)
  PROVE  CursorOK(m)'
<1>1. Len(inbox) \in Nat /\ Len(inbox') \in Nat /\ m.cursor \in Nat \cup {None}
  BY InboxOf DEF SyncTyped, MailboxState
<1>2. ASSUME m.cursor # None, m.cursor <= Len(inbox), CoveredTo(m.cursor)
      PROVE  CoveredTo(m.cursor)'
  BY <1>1, <1>2, InboxOf DEF Farther, CoveredTo, Covered
<1> QED BY <1>1, <1>2 DEF CursorOK, Farther

LEMMA ListingStays ==
  ASSUME SyncTyped, SyncTyped', Farther, NEW row \in Listing, NEW h, NEW k, ListingOK(row, h),
         h.at # "idle" <=> k.at # "idle", k.at # "idle" => k.on.of = h.on.of
  PROVE  ListingOK(row, k)'
<1>1. Len(inbox) \in Nat /\ Len(inbox') \in Nat /\ row.from \in Nat \cup {None} /\ row.next \in Nat
  BY InboxOf DEF SyncTyped, Listing
<1>2. ASSUME NEW i \in 1 .. Len(inbox), Covered(inbox[i])
      PROVE  Covered(inbox[i])'
  BY <1>2, InboxOf DEF Farther, Covered
<1>3. row.next <= Len(inbox) /\ (row.from # None => row.from <= Len(inbox)) /\ (row.renew => scene.provider = "gmail")
  BY DEF ListingOK
<1>4. row.next <= Len(inbox') /\ (row.from # None => row.from <= Len(inbox')) /\ (row.renew => scene'.provider = "gmail")
  BY <1>1, <1>3 DEF Farther
<1>5. row.at = "changes" /\ row.from # None => CoveredTo(row.from)'
  BY <1>1, <1>2, <1>3 DEF ListingOK, CoveredTo
<1>6. row.at = "mark" => CoveredTo(row.next)'
  BY <1>1, <1>2, <1>3 DEF ListingOK, CoveredTo
<1>7. row.at = "catchup" =>
       /\ row.from # None
       /\ \A i \in 1 .. Len(inbox') : i <= row.next \/ i <= row.from => Covered(inbox[i])' \/ inbox'[i] \in row.todo
  BY <1>1, <1>2, <1>3 DEF ListingOK, Farther
<1>8. row.at \in {"ingest", "message"} =>
       \A i \in 1 .. row.next : Covered(inbox[i])' \/ inbox'[i] \in row.todo \/ (row.at = "message" /\ inbox'[i] = k.on.of)
  BY <1>1, <1>2, <1>3 DEF ListingOK, Farther
<1>9. (k.at # "idle" <=> row.at = "message") /\ (k.at # "idle" => k.on.of \in Mails)
  BY DEF ListingOK
<1> QED BY <1>4, <1>5, <1>6, <1>7, <1>8, <1>9 DEF ListingOK, Covered

LEMMA CursorsStay ==
  ASSUME Cursors, SyncTyped', Farther, mailbox' = mailbox, sync' = sync, \A s \in Syncers : worker'[s] = worker[s]
  PROVE  Cursors'
<1>1. PICK m \in MailboxState : m = mailbox
  BY DEF Cursors, SyncTyped
<1>2. CursorOK(m)'
  BY <1>1, CursorStays DEF Cursors
<1>3. ASSUME NEW s \in Syncers
      PROVE  ListingOK(sync[s], worker[s])'
  <2>1. PICK row \in Listing : row = sync[s]
    BY DEF Cursors, SyncTyped
  <2>2. PICK h : h = worker[s]
    OBVIOUS
  <2>3. ListingOK(row, h)'
    BY <2>1, <2>2, ListingStays DEF Cursors
  <2> QED BY <2>1, <2>2, <2>3 DEF ListingOK
<1> QED BY <1>1, <1>2, <1>3 DEF Cursors, CursorOK

LEMMA CursorsTurn ==
  ASSUME Cursors, SyncTyped', Farther, CursorOK(mailbox)', NEW s \in Syncers, NEW row \in Listing, Turns(s, row),
         ListingOK(row, worker[s])', \A v \in Syncers \ {s} : worker'[v] = worker[v]
  PROVE  Cursors'
<1>1. sync'[s] = row /\ \A v \in Syncers \ {s} : sync'[v] = sync[v]
  BY DEF Turns, Cursors, SyncTyped
<1>2. ASSUME NEW v \in Syncers \ {s}
      PROVE  ListingOK(sync[v], worker[v])'
  <2>1. PICK line \in Listing : line = sync[v]
    BY DEF Cursors, SyncTyped
  <2>2. PICK h : h = worker[v]
    OBVIOUS
  <2>3. ListingOK(line, h)'
    BY <2>1, <2>2, ListingStays DEF Cursors
  <2> QED BY <1>1, <2>1, <2>2, <2>3 DEF ListingOK
<1>3. ListingOK(sync[s], worker[s])'
  BY <1>1 DEF ListingOK
<1> QED BY <1>2, <1>3 DEF Cursors

LEMMA FartherSame ==
  ASSUME Grows, UNCHANGED <<scene, inbox>>, deleted \subseteq deleted', passed \subseteq passed', SyncTyped
  PROVE  Farther
BY InboxOf DEF Grows, Farther, Covered, Stored, Comms

\* What leaves the mail alone.
LEMMA CoreFrame ==
  ASSUME Core, Asked, UNCHANGED <<others, worker, broken>>, faults' \in Nat, moves' \in Nat
  PROVE  Core' /\ Asked' /\ Grows /\ LeavesAsk
<1>1. Typed'
  BY DEF others, Core, Typed, WebTyped, HandsTyped, MailTyped, ThreadsTyped, PeopleTyped, RestTyped
<1>2. Grows /\ SameRows /\ Purposed' /\ RowsFit' /\ Jobs'
  BY RowsStay, GrowsSame, JobsStay DEF others, Core, SameRows
<1>3. Asked' /\ LeavesAsk
  BY AskedSame DEF others
<1> QED BY <1>1, <1>2, <1>3, StillCore DEF others

LEMMA HandCore ==
  ASSUME Core, Asked, UNCHANGED <<others, faults, moves, broken>>, NEW w \in Hands, NEW h \in Hand, Moved(w, h),
         ~HalfAt(worker[w]), ~HalfAt(h), HandOK(h), h.at \notin {"email", "finish", "settle"}
  PROVE  Core' /\ Asked' /\ Grows /\ LeavesAsk
<1>1. HandsTyped'
  BY MovedAt DEF Core, Typed
<1>2. Typed'
  BY <1>1 DEF others, Core, Typed, WebTyped, MailTyped, ThreadsTyped, PeopleTyped, RestTyped
<1>3. Grows /\ SameRows /\ Purposed' /\ RowsFit' /\ Jobs'
  BY RowsStay, GrowsSame, JobsStay DEF others, Core, SameRows
<1>4. Asked' /\ LeavesAsk
  BY AskedSame DEF others
<1>5. job' = job
  BY DEF others
<1> QED BY <1>2, <1>3, <1>4, <1>5, QuietCore

Inv == Core /\ Asked /\ Cursors
Kept == Inv' /\ Grows /\ LeavesAsk

LEMMA ArriveInv ==
  ASSUME Inv, NEW m \in Mails, Arrive(m)
  PROVE  Kept
<1>1. Core' /\ Asked' /\ Grows /\ LeavesAsk
  BY CoreFrame DEF Inv, Arrive, Core, Typed, PeopleTyped, RestTyped
<1>2. /\ inbox \in Seq(Mails) /\ inbox' = Append(inbox, m)
      /\ UNCHANGED <<email, deleted, passed, refused, mailbox, sync, scene, worker>>
  BY DEF Arrive, seen, others, Inv, Cursors, SyncTyped
<1>3. inbox' \in Seq(Mails) /\ Len(inbox') = Len(inbox) + 1 /\ \A i \in 1 .. Len(inbox) : inbox'[i] = inbox[i]
  BY <1>2
<1>4. SyncTyped'
  BY <1>2, <1>3 DEF Inv, Cursors, SyncTyped
<1>5. Farther
  BY <1>2, <1>3 DEF Farther, Covered, Stored
<1> QED BY <1>1, <1>2, <1>4, <1>5, CursorsStay DEF Inv, Kept

LEMMA DeleteInv ==
  ASSUME Inv, NEW m \in Mails, Delete(m)
  PROVE  Kept
<1>1. Core' /\ Asked' /\ Grows /\ LeavesAsk
  BY CoreFrame DEF Inv, Delete, Core, Typed, PeopleTyped, RestTyped
<1>2. SyncTyped' /\ Farther
  BY <1>1, FartherSame DEF Delete, seen, others, Inv, Cursors, SyncTyped
<1> QED BY <1>1, <1>2, CursorsStay DEF Inv, Kept, Delete

LEMMA SyncLapseInv ==
  ASSUME Inv, SyncLapse
  PROVE  Kept
<1>1. Core' /\ Asked' /\ Grows /\ LeavesAsk
  BY CoreFrame, FaultTyped DEF Inv, SyncLapse, Core, Typed, PeopleTyped
<1>2. PICK m \in MailboxState : m = mailbox
  BY DEF Inv, Cursors, SyncTyped
<1>3. PICK n \in MailboxState : n = [m EXCEPT !.lapsed = TRUE]
  BY DEF MailboxState
<1>4. mailbox' = n /\ n.status = m.status /\ n.cursor = m.cursor /\ n.synced = m.synced
  BY <1>2, <1>3 DEF SyncLapse, MailboxState
<1>5. SyncTyped' /\ Farther
  BY <1>1, <1>4, FartherSame DEF SyncLapse, box, seen, others, Inv, Cursors, SyncTyped
<1>6. CursorOK(n)
  BY <1>2, <1>4 DEF Inv, Cursors, CursorOK, SyncLapse
<1>7. CursorOK(mailbox)'
  BY <1>4, <1>5, <1>6, CursorStays DEF Inv, Cursors, CursorOK
<1>8. UNCHANGED <<inbox, deleted, passed, sync, worker, email, scene>>
  BY DEF SyncLapse, box, seen, others
<1>9. ASSUME NEW s \in Syncers
      PROVE  ListingOK(sync[s], worker[s])'
  BY <1>8 DEF Inv, Cursors, ListingOK, CoveredTo, Covered, Stored
<1> QED BY <1>1, <1>5, <1>7, <1>9 DEF Inv, Kept, Cursors

LEMMA ReconnectInv ==
  ASSUME Inv, Reconnect
  PROVE  Kept
<1>1. Core' /\ Asked' /\ Grows /\ LeavesAsk
  BY CoreFrame DEF Inv, Reconnect, Core, Typed, PeopleTyped, RestTyped
<1>2. PICK m \in MailboxState : m = mailbox
  BY DEF Inv, Cursors, SyncTyped
<1>3. Len(inbox) \in Nat /\ SyncTyped
  BY InboxOf DEF Inv, Cursors
<1>4. PICK c \in Nat \cup {None} : c = IF scene.provider = "gmail" THEN Len(inbox) ELSE None
  BY <1>3
<1>5. PICK n \in MailboxState : n = [m EXCEPT !.status = "pending", !.lapsed = FALSE, !.cursor = c]
  BY DEF MailboxState
<1>6. mailbox' = n /\ n.lapsed = FALSE /\ n.cursor = c /\ n.synced = m.synced
  BY <1>2, <1>4, <1>5 DEF Reconnect, MailboxState
<1>7. passed \subseteq passed' /\ passed' \subseteq Mails
  <2>1. CASE passed' = passed
    BY <1>3, <2>1 DEF SyncTyped
  <2>2. CASE mailbox.cursor # None /\ passed' = passed \cup {i \in Since(mailbox.cursor) : ~Stored(i)}
    <3>1. Since(m.cursor) \subseteq Mails
      BY <1>2, <1>3, <2>2, SinceIs DEF MailboxState
    <3> QED BY <1>2, <1>3, <2>2, <3>1 DEF SyncTyped
  <2> QED BY <2>1, <2>2 DEF Reconnect, Passes
<1>8. UNCHANGED <<inbox, deleted, sync, worker, email, scene, refused>>
  BY DEF Reconnect, box, others
<1>9. SyncTyped' /\ Farther
  BY <1>1, <1>3, <1>6, <1>7, <1>8, FartherSame DEF SyncTyped
<1>10. CursorOK(n)'
  <2>1. CASE scene.provider = "gmail"
    <3>1. c = Len(inbox) /\ m.cursor \in Nat /\ c # None
      BY <1>2, <1>3, <1>4, <2>1, NoneIsNoRow DEF Inv, Cursors, CursorOK, MailboxState
    <3>2. ASSUME m.synced, NEW i \in 1 .. Len(inbox)
          PROVE  Covered(inbox[i])'
      <4>1. CASE i <= m.cursor
        <5>1. Covered(inbox[i])
          <6>1. CursorOK(m) /\ m.cursor # None
            BY <1>2, <3>1, NoneIsNoRow DEF Inv, Cursors
          <6>2. m.synced => CoveredTo(m.cursor)
            BY <6>1 DEF CursorOK
          <6> QED BY <3>1, <3>2, <4>1, <6>2 DEF CoveredTo
        <5> QED BY <1>7, <1>8, <5>1 DEF Covered, Stored
      <4>2. CASE i > m.cursor
        <5>1. inbox[i] \in Since(m.cursor)
          BY <1>3, <3>1, <4>2, SinceIs
        <5>2. passed' = passed \cup {j \in Since(m.cursor) : ~Stored(j)}
          BY <1>2, <2>1, <3>1, <3>2, NoneIsNoRow DEF Reconnect, Passes
        <5> QED BY <1>8, <5>1, <5>2 DEF Covered, Stored
      <4> QED BY <1>3, <3>1, <4>1, <4>2
    <3> QED BY <1>3, <1>6, <1>8, <2>1, <3>1, <3>2 DEF CursorOK, CoveredTo
  <2>2. CASE scene.provider # "gmail"
    BY <1>4, <1>6, <1>8, <2>2 DEF CursorOK
  <2> QED BY <2>1, <2>2
<1>11. ASSUME NEW s \in Syncers
       PROVE  ListingOK(sync[s], worker[s])'
  <2>1. PICK row \in Listing : row = sync[s]
    BY <1>3 DEF SyncTyped
  <2>2. PICK h : h = worker[s]
    OBVIOUS
  <2>3. ListingOK(row, h)'
    BY <1>3, <1>9, <2>1, <2>2, ListingStays DEF Inv, Cursors
  <2> QED BY <1>8, <2>1, <2>2, <2>3 DEF ListingOK
<1> QED BY <1>1, <1>6, <1>9, <1>10, <1>11 DEF Inv, Kept, Cursors, CursorOK

\* What a step of a sync does to itself alone.
LEMMA TurnInv ==
  ASSUME Inv, UNCHANGED <<others, worker, faults, moves, broken, box, mailbox, refused>>, NEW s \in Syncers,
         NEW row \in Listing, Turns(s, row), passed \subseteq passed', passed' \subseteq Mails, ListingOK(row, worker[s])'
  PROVE  Kept
<1>1. Core' /\ Asked' /\ Grows /\ LeavesAsk
  BY CoreFrame DEF Inv, Core, Typed, PeopleTyped, RestTyped
<1>2. UNCHANGED <<inbox, deleted, mailbox, refused, worker, scene>>
  BY DEF box, others
<1>3. SyncTyped'
  BY <1>2 DEF Inv, Cursors, SyncTyped, Turns
<1>4. Farther
  BY <1>1, <1>2, FartherSame DEF Inv, Cursors
<1>5. CursorOK(mailbox)'
  <2>1. PICK m \in MailboxState : m = mailbox
    BY DEF Inv, Cursors, SyncTyped
  <2>2. CursorOK(m)'
    BY <1>3, <1>4, <2>1, CursorStays DEF Inv, Cursors
  <2> QED BY <1>2, <2>1, <2>2 DEF CursorOK
<1>6. Cursors'
  BY <1>2, <1>3, <1>4, <1>5, CursorsTurn DEF Inv
<1> QED BY <1>1, <1>6 DEF Inv, Kept

LEMMA TurnSame ==
  ASSUME Inv, UNCHANGED <<others, worker, faults, moves, broken, box, mailbox, seen>>, NEW s \in Syncers,
         NEW row \in Listing, Turns(s, row), ListingOK(row, worker[s])
  PROVE  Kept
<1>1. UNCHANGED <<scene, email, inbox, deleted, passed, refused, worker>>
  BY DEF others, box, seen
<1>2. ListingOK(row, worker[s])'
  BY <1>1 DEF ListingOK, CoveredTo, Covered, Stored
<1> QED BY <1>1, <1>2, TurnInv DEF Inv, Cursors, SyncTyped

LEMMA AtRow ==
  ASSUME Inv, NEW s \in Syncers
  PROVE  /\ sync[s] \in Listing /\ ListingOK(sync[s], worker[s]) /\ SyncTyped /\ Len(inbox) \in Nat
         /\ mailbox \in MailboxState /\ CursorOK(mailbox) /\ s \in Hands
         /\ \A i \in 1 .. Len(inbox) : inbox[i] \in Mails
BY InboxOf DEF Inv, Cursors, SyncTyped, Hands

LEMMA ReadCursorInv ==
  ASSUME Inv, NEW s \in Syncers, ReadCursor(s)
  PROVE  Kept
<1>1. PICK from \in Nat \cup {None} : from = mailbox.cursor
  BY AtRow DEF MailboxState
<1>2. PICK renew \in BOOLEAN, at \in {"changes", "profile"} :
        /\ renew => scene.provider = "gmail"
        /\ at = "changes" => scene.provider = "outlook" \/ (mailbox.cursor # None /\ mailbox.synced)
        /\ sync' = [sync EXCEPT ![s] = [Resting EXCEPT !.from = from, !.renew = renew, !.at = at]]
  <2>1. PICK b \in IF scene.provider = "gmail" THEN BOOLEAN ELSE {FALSE} :
          sync' = [sync EXCEPT ![s] = [Resting EXCEPT !.from = mailbox.cursor, !.renew = b,
            !.at = IF scene.provider = "outlook" \/ (mailbox.cursor # None /\ mailbox.synced) THEN "changes" ELSE "profile"]]
    BY DEF ReadCursor
  <2>2. PICK at \in {"changes", "profile"} :
          at = IF scene.provider = "outlook" \/ (mailbox.cursor # None /\ mailbox.synced) THEN "changes" ELSE "profile"
    OBVIOUS
  <2> QED BY <1>1, <2>1, <2>2
<1>3. PICK row \in Listing : row = [Resting EXCEPT !.from = from, !.renew = renew, !.at = at]
  BY DEF Resting, Listing, SyncSteps
<1>4. row.from = from /\ row.renew = renew /\ row.at = at /\ row.next = 0
  BY <1>3 DEF Resting
<1>5. worker[s].at = "idle"
  BY AtRow DEF ListingOK, ReadCursor, SyncAt
<1>6. from # None => from <= Len(inbox)
  BY <1>1, AtRow DEF CursorOK
<1>7. at = "changes" /\ from # None => CoveredTo(from)
  <2>1. at = "changes" /\ from # None => mailbox.synced
    BY <1>1, <1>2, AtRow DEF CursorOK
  <2>2. from # None /\ mailbox.synced => CoveredTo(from)
    BY <1>1, AtRow DEF CursorOK
  <2> QED BY <2>1, <2>2
<1>8. ListingOK(row, worker[s])
  BY <1>2, <1>4, <1>5, <1>6, <1>7, AtRow DEF ListingOK
<1> QED BY <1>2, <1>3, <1>8, TurnSame DEF ReadCursor, Turns

\* All that came after the n-th message, but for those its owner removed, is to be read.
LEMMA Lists ==
  ASSUME Inv, NEW s \in Syncers, NEW row \in Listing, row.at = "ingest", row.next = Len(inbox),
         row.renew => scene.provider = "gmail", row.from # None => row.from <= Len(inbox),
         NEW n \in Nat, n > 0 => CoveredTo(n), Since(n) \subseteq row.todo \cup deleted, worker[s].at = "idle"
  PROVE  ListingOK(row, worker[s])
<1>1. ASSUME NEW i \in 1 .. Len(inbox)
      PROVE  Covered(inbox[i]) \/ inbox[i] \in row.todo
  <2>1. CASE i <= n
    BY <2>1, AtRow DEF CoveredTo
  <2>2. CASE i > n
    BY <2>2, AtRow, SinceIs DEF Covered
  <2> QED BY <2>1, <2>2, AtRow
<1> QED BY <1>1, AtRow DEF ListingOK

LEMMA ListChangesInv ==
  ASSUME Inv, NEW s \in Syncers, ListChanges(s)
  PROVE  Kept
<1>1. PICK line \in Listing : line = sync[s] /\ ListingOK(line, worker[s])
  BY AtRow
<1>2. line.at = "changes" /\ worker[s].at = "idle"
  BY <1>1 DEF ListingOK, ListChanges, SyncAt
<1>3. Len(inbox) \in Nat /\ SyncTyped /\ line.from \in Nat \cup {None}
  BY AtRow DEF Listing
<1>4. CASE sync' = [sync EXCEPT ![s] = [@ EXCEPT !.at = "ingest", !.next = Len(inbox),
                     !.todo = Since(IF sync[s].from = None THEN 0 ELSE sync[s].from)
                               \ (IF scene.provider = "outlook" THEN deleted ELSE {})]]
  <2>1. PICK n \in Nat : n = IF line.from = None THEN 0 ELSE line.from
    BY <1>3
  <2>2. PICK todo \in SUBSET Mails : todo = Since(n) \ (IF scene.provider = "outlook" THEN deleted ELSE {})
    BY <1>3, SinceIs
  <2>3. PICK row \in Listing : row = [line EXCEPT !.at = "ingest", !.next = Len(inbox), !.todo = todo]
    BY <1>3 DEF Listing, SyncSteps
  <2>4. row.at = "ingest" /\ row.next = Len(inbox) /\ row.todo = todo /\ row.from = line.from /\ row.renew = line.renew
    BY <2>3 DEF Listing
  <2>5. Turns(s, row)
    BY <1>1, <1>4, <2>1, <2>2, <2>3, AtRow DEF Turns, SyncTyped
  <2>6. n > 0 => CoveredTo(n)
    BY <1>1, <1>2, <2>1 DEF ListingOK
  <2>7. (row.renew => scene.provider = "gmail") /\ (row.from # None => row.from <= Len(inbox))
    BY <1>1, <2>4 DEF ListingOK
  <2>8. ListingOK(row, worker[s])
    BY <1>2, <2>2, <2>4, <2>6, <2>7, Lists
  <2> QED BY <2>5, <2>8, TurnSame DEF ListChanges
<1>5. CASE scene.provider = "gmail" /\ sync' = [sync EXCEPT ![s] = [@ EXCEPT !.at = "profile", !.from = None]]
  <2>1. PICK row \in Listing : row = [line EXCEPT !.at = "profile", !.from = None]
    BY DEF Listing, SyncSteps
  <2>2. row.at = "profile" /\ row.from = None /\ row.next = line.next /\ row.renew = line.renew
    BY <2>1 DEF Listing
  <2>3. Turns(s, row)
    BY <1>1, <1>5, <2>1, AtRow DEF Turns, SyncTyped
  <2>4. ListingOK(row, worker[s])
    BY <1>1, <1>2, <2>2 DEF ListingOK
  <2> QED BY <2>3, <2>4, TurnSame DEF ListChanges
<1>6. CASE sync' = [sync EXCEPT ![s] = [@ EXCEPT !.at = "ingest", !.next = Len(inbox), !.todo = Since(0) \ deleted]]
  <2>1. PICK todo \in SUBSET Mails : todo = Since(0) \ deleted
    BY <1>3, SinceIs
  <2>2. PICK row \in Listing : row = [line EXCEPT !.at = "ingest", !.next = Len(inbox), !.todo = todo]
    BY <1>3 DEF Listing, SyncSteps
  <2>3. row.at = "ingest" /\ row.next = Len(inbox) /\ row.todo = todo /\ row.from = line.from /\ row.renew = line.renew
    BY <2>2 DEF Listing
  <2>4. Turns(s, row)
    BY <1>1, <1>6, <2>1, <2>2, AtRow DEF Turns, SyncTyped
  <2>5. (row.renew => scene.provider = "gmail") /\ (row.from # None => row.from <= Len(inbox))
    BY <1>1, <2>3 DEF ListingOK
  <2>6. ListingOK(row, worker[s])
    BY <1>2, <2>1, <2>3, <2>5, Lists
  <2> QED BY <2>4, <2>6, TurnSame DEF ListChanges
<1> QED BY <1>4, <1>5, <1>6 DEF ListChanges

LEMMA ReadProfileInv ==
  ASSUME Inv, NEW s \in Syncers, ReadProfile(s)
  PROVE  Kept
<1>1. PICK line \in Listing : line = sync[s] /\ ListingOK(line, worker[s])
  BY AtRow
<1>2. PICK row \in Listing : row = [line EXCEPT !.next = Len(inbox), !.at = "list"]
  BY AtRow DEF Listing, SyncSteps
<1>3. row.at = "list" /\ row.next = Len(inbox) /\ row.from = line.from /\ row.renew = line.renew
  BY <1>2 DEF Listing
<1>4. Turns(s, row)
  BY <1>1, <1>2, AtRow DEF Turns, SyncTyped, ReadProfile
<1>5. line.at = "profile"
  BY <1>1 DEF ReadProfile, SyncAt
<1>6. ListingOK(row, worker[s])
  BY <1>1, <1>3, <1>5, AtRow DEF ListingOK
<1> QED BY <1>4, <1>6, TurnSame DEF ReadProfile

LEMMA ListAllInv ==
  ASSUME Inv, NEW s \in Syncers, ListAll(s)
  PROVE  Kept
<1>1. PICK line \in Listing : line = sync[s] /\ ListingOK(line, worker[s])
  BY AtRow
<1>2. PICK todo \in SUBSET Mails : todo = Since(0) \ deleted
  BY AtRow, SinceIs
<1>3. PICK at \in {"ingest", "catchup"} : at = IF line.from = None THEN "ingest" ELSE "catchup"
  OBVIOUS
<1>4. PICK row \in Listing : row = [line EXCEPT !.todo = todo, !.at = at]
  BY DEF Listing, SyncSteps
<1>5. row.at = at /\ row.todo = todo /\ row.next = line.next /\ row.from = line.from /\ row.renew = line.renew
  BY <1>4 DEF Listing
<1>6. Turns(s, row)
  BY <1>1, <1>2, <1>3, <1>4, AtRow DEF Turns, SyncTyped, ListAll
<1>7. line.at = "list"
  BY <1>1 DEF ListAll, SyncAt
<1>8. \A i \in 1 .. Len(inbox) : Covered(inbox[i]) \/ inbox[i] \in todo
  BY <1>2, AtRow, SinceIs DEF Covered
<1>9. line.next \in Nat /\ Len(inbox) \in Nat /\ line.next <= Len(inbox)
  BY <1>1, AtRow DEF Listing, ListingOK
<1>10. ListingOK(row, worker[s])
  BY <1>1, <1>3, <1>5, <1>7, <1>8, <1>9 DEF ListingOK
<1> QED BY <1>6, <1>10, TurnSame DEF ListAll

LEMMA CatchUpInv ==
  ASSUME Inv, NEW s \in Syncers, CatchUp(s)
  PROVE  Kept
<1>1. PICK line \in Listing : line = sync[s] /\ ListingOK(line, worker[s])
  BY AtRow
<1>2. line.at = "catchup" /\ worker[s].at = "idle" /\ line.from \in Nat /\ line.next \in Nat /\ Len(inbox) \in Nat
  BY <1>1, AtRow DEF CatchUp, SyncAt, ListingOK, Listing
<1>3. \A i \in 1 .. Len(inbox) : i <= line.next \/ i <= line.from => Covered(inbox[i]) \/ inbox[i] \in line.todo
  BY <1>1, <1>2 DEF ListingOK
<1>4. /\ line.renew => scene.provider = "gmail"
      /\ line.next <= Len(inbox) /\ (line.from # None => line.from <= Len(inbox))
  BY <1>1 DEF ListingOK
<1>5. CASE sync' = [sync EXCEPT ![s] = [@ EXCEPT !.at = "ingest", !.next = Len(inbox),
                                                !.todo = sync[s].todo \cup Since(sync[s].from)]]
  <2>1. PICK todo \in SUBSET Mails : todo = line.todo \cup Since(line.from)
    BY <1>2, AtRow, SinceIs DEF Listing
  <2>2. PICK row \in Listing : row = [line EXCEPT !.at = "ingest", !.next = Len(inbox), !.todo = todo]
    BY <1>2 DEF Listing, SyncSteps
  <2>3. row.at = "ingest" /\ row.next = Len(inbox) /\ row.todo = todo /\ row.from = line.from /\ row.renew = line.renew
    BY <2>2 DEF Listing
  <2>4. Turns(s, row)
    BY <1>1, <1>5, <2>1, <2>2, AtRow DEF Turns, SyncTyped
  <2>5. ASSUME NEW i \in 1 .. Len(inbox)
        PROVE  Covered(inbox[i]) \/ inbox[i] \in todo
    <3>1. CASE i <= line.from
      BY <1>3, <2>1, <3>1
    <3>2. CASE i > line.from
      BY <1>2, <2>1, <3>2, AtRow, SinceIs
    <3> QED BY <1>2, <3>1, <3>2
  <2>6. ListingOK(row, worker[s])
    BY <1>2, <1>4, <2>3, <2>5 DEF ListingOK
  <2> QED BY <2>4, <2>6, TurnSame DEF CatchUp
<1>6. CASE To(s, "ingest")
  <2>1. PICK row \in Listing : row = [line EXCEPT !.at = "ingest"]
    BY DEF Listing, SyncSteps
  <2>2. row.at = "ingest" /\ row.next = line.next /\ row.todo = line.todo /\ row.from = line.from /\ row.renew = line.renew
    BY <2>1 DEF Listing
  <2>3. Turns(s, row)
    BY <1>1, <1>6, <2>1, AtRow DEF Turns, SyncTyped, To
  <2>4. \A i \in 1 .. line.next : Covered(inbox[i]) \/ inbox[i] \in line.todo
    BY <1>2, <1>3, <1>4
  <2>5. ListingOK(row, worker[s])
    BY <1>2, <1>4, <2>2, <2>4 DEF ListingOK
  <2> QED BY <2>3, <2>5, TurnSame DEF CatchUp
<1> QED BY <1>5, <1>6 DEF CatchUp

LEMMA RenewWatchInv ==
  ASSUME Inv, NEW s \in Syncers, RenewWatch(s)
  PROVE  Kept
<1>1. PICK line \in Listing : line = sync[s] /\ ListingOK(line, worker[s])
  BY AtRow
<1>2. line.at = "ingest" /\ worker[s].at = "idle" /\ line.todo = {} /\ line.next \in Nat /\ Len(inbox) \in Nat
  BY <1>1, AtRow DEF RenewWatch, SyncAt, ListingOK, Listing
<1>3. /\ line.renew => scene.provider = "gmail"
      /\ line.next <= Len(inbox) /\ (line.from # None => line.from <= Len(inbox))
      /\ CoveredTo(line.next)
  BY <1>1, <1>2 DEF ListingOK, CoveredTo
<1>4. CASE line.renew
  <2>1. PICK row \in Listing : row = [line EXCEPT !.next = Len(inbox), !.at = "mark"]
    BY <1>2 DEF Listing, SyncSteps
  <2>2. row.at = "mark" /\ row.next = Len(inbox) /\ row.from = line.from /\ row.renew = line.renew
    BY <2>1 DEF Listing
  <2>3. Turns(s, row) /\ Passes(line.next)
    BY <1>1, <1>4, <2>1, AtRow DEF Turns, SyncTyped, RenewWatch
  <2>4. mailbox.cursor # None
    BY <1>3, <1>4, AtRow DEF CursorOK
  <2>5. passed' = passed \cup {m \in Since(line.next) : ~Stored(m)}
    BY <2>3, <2>4 DEF Passes
  <2>6. passed \subseteq passed' /\ passed' \subseteq Mails
    BY <1>2, <2>5, AtRow, SinceIs DEF SyncTyped
  <2>7. UNCHANGED <<email, inbox, deleted, scene, worker, mailbox, refused>>
    BY DEF RenewWatch, others, box
  <2>8. ASSUME NEW i \in 1 .. Len(inbox)
        PROVE  Covered(inbox[i])'
    <3>1. CASE i <= line.next
      BY <1>2, <1>3, <2>6, <2>7, <3>1 DEF CoveredTo, Covered, Stored
    <3>2. CASE i > line.next
      <4>1. inbox[i] \in Since(line.next)
        BY <1>2, <3>2, AtRow, SinceIs
      <4> QED BY <2>5, <2>7, <4>1 DEF Covered, Stored
    <3> QED BY <1>2, <3>1, <3>2
  <2>9. ListingOK(row, worker[s])'
    BY <1>2, <1>3, <2>2, <2>7, <2>8 DEF ListingOK, CoveredTo
  <2> QED BY <2>3, <2>6, <2>7, <2>9, TurnInv DEF RenewWatch
<1>5. CASE ~line.renew
  <2>1. PICK row \in Listing : row = [line EXCEPT !.at = "mark"]
    BY DEF Listing, SyncSteps
  <2>2. row.at = "mark" /\ row.next = line.next /\ row.from = line.from /\ row.renew = line.renew
    BY <2>1 DEF Listing
  <2>3. Turns(s, row) /\ passed' = passed
    BY <1>1, <1>5, <2>1, AtRow DEF Turns, SyncTyped, RenewWatch, To
  <2>4. ListingOK(row, worker[s])
    BY <1>2, <1>3, <2>2 DEF ListingOK
  <2> QED BY <2>3, <2>4, TurnSame DEF RenewWatch, seen
<1> QED BY <1>4, <1>5

\* A step of a sync that writes the mailbox.
LEMMA MarkInv ==
  ASSUME Inv, UNCHANGED <<others, worker, moves, broken, box, seen>>, faults' \in Nat, NEW s \in Syncers,
         NEW row \in Listing, Turns(s, row), ListingOK(row, worker[s]),
         NEW m \in MailboxState, mailbox' = m, CursorOK(m)
  PROVE  Kept
<1>1. Core' /\ Asked' /\ Grows /\ LeavesAsk
  BY CoreFrame DEF Inv, Core, Typed, PeopleTyped
<1>2. UNCHANGED <<inbox, deleted, passed, refused, worker, scene, email>>
  BY DEF box, seen, others
<1>3. SyncTyped'
  BY <1>2 DEF Inv, Cursors, SyncTyped, Turns
<1>4. Farther
  BY <1>1, <1>2, FartherSame DEF Inv, Cursors
<1>5. CursorOK(m)'
  BY <1>3, <1>4, CursorStays DEF Inv, Cursors
<1>6. ListingOK(row, worker[s])'
  BY <1>2 DEF ListingOK, CoveredTo, Covered, Stored
<1>7. CursorOK(mailbox)'
  BY <1>5 DEF CursorOK
<1>8. Cursors'
  BY <1>2, <1>3, <1>4, <1>6, <1>7, CursorsTurn DEF Inv
<1> QED BY <1>1, <1>8 DEF Inv, Kept

LEMMA FaultsTyped == Inv => faults \in Nat /\ (Fault => faults' \in Nat)
BY FaultTyped DEF Inv, Core, Typed, RestTyped

LEMMA StartInv ==
  ASSUME Inv, NEW s \in Syncers, Start(s)
  PROVE  Kept
<1>1. PICK line \in Listing : line = sync[s] /\ ListingOK(line, worker[s])
  BY AtRow
<1>2. PICK m \in MailboxState : m = mailbox /\ CursorOK(m)
  BY AtRow
<1>3. PICK n \in MailboxState : n = [m EXCEPT !.status = "syncing", !.lapsed = FALSE]
  BY DEF MailboxState
<1>4. mailbox' = n /\ n.lapsed = FALSE /\ n.cursor = m.cursor /\ n.synced = m.synced
  BY <1>2, <1>3 DEF Start, MailboxState
<1>5. CursorOK(n)
  BY <1>2, <1>4 DEF CursorOK
<1>6. PICK row \in Listing : row = [line EXCEPT !.at = "state"]
  BY DEF Listing, SyncSteps
<1>7. row.at = "state" /\ row.next = line.next /\ row.from = line.from /\ row.renew = line.renew
  BY <1>6 DEF Listing
<1>8. Turns(s, row)
  BY <1>1, <1>6, AtRow DEF Turns, SyncTyped, Start, To
<1>9. ListingOK(row, worker[s])
  BY <1>1, <1>7 DEF ListingOK, Start, SyncAt
<1> QED BY <1>4, <1>5, <1>8, <1>9, FaultsTyped, MarkInv DEF Start

LEMMA RestingOK ==
  ASSUME Inv, NEW s \in Syncers, NEW h, h.at = "idle"
  PROVE  Resting \in Listing /\ ListingOK(Resting, h)
<1>1. Resting \in Listing /\ Resting.at = "idle" /\ Resting.from = None /\ Resting.next = 0 /\ Resting.renew = FALSE
  BY DEF Resting, Listing, SyncSteps
<1> QED BY <1>1, AtRow DEF ListingOK

\* A sync whose hand is idle goes to the handling of an error.
LEMMA ErrorOK ==
  ASSUME Inv, NEW s \in Syncers, NEW h, h.at = "idle", To(s, "error")
  PROVE  \E row \in Listing : Turns(s, row) /\ row.at = "error" /\ ListingOK(row, h)
<1>1. PICK line \in Listing : line = sync[s] /\ ListingOK(line, worker[s])
  BY AtRow
<1>2. PICK row \in Listing : row = [line EXCEPT !.at = "error"]
  BY DEF Listing, SyncSteps
<1>3. row.at = "error" /\ row.next = line.next /\ row.from = line.from /\ row.renew = line.renew
  BY <1>2 DEF Listing
<1>4. Turns(s, row)
  BY <1>1, <1>2, AtRow DEF Turns, SyncTyped, To
<1>5. ListingOK(row, h)
  BY <1>1, <1>3 DEF ListingOK
<1> QED BY <1>3, <1>4, <1>5

LEMMA MarkHealthyInv ==
  ASSUME Inv, NEW s \in Syncers, MarkHealthy(s)
  PROVE  Kept
<1>1. PICK line \in Listing : line = sync[s] /\ ListingOK(line, worker[s])
  BY AtRow
<1>2. line.at = "mark" /\ worker[s].at = "idle" /\ line.next \in Nat /\ CoveredTo(line.next) /\ line.next <= Len(inbox)
  BY <1>1 DEF MarkHealthy, SyncAt, ListingOK, Listing
<1>3. PICK n \in MailboxState : n = Healthy(line.next)
  BY <1>2 DEF Healthy, MailboxState
<1>4. mailbox' = n /\ n.lapsed = FALSE /\ n.cursor = line.next /\ n.synced = TRUE
  BY <1>1, <1>3 DEF MarkHealthy, Healthy
<1>5. CursorOK(n)
  BY <1>2, <1>4, NoneIsNoRow DEF CursorOK
<1>6. \E row \in Listing : Turns(s, row) /\ ListingOK(row, worker[s])
  BY <1>2, RestingOK, ErrorOK DEF MarkHealthy, Turns
<1>7. faults' \in Nat
  BY FaultsTyped DEF MarkHealthy
<1> QED BY <1>4, <1>5, <1>6, <1>7, MarkInv DEF MarkHealthy

LEMMA MarkDegradedInv ==
  ASSUME Inv, NEW s \in Syncers, MarkDegraded(s)
  PROVE  Kept
<1>1. worker[s].at = "idle"
  BY AtRow DEF MarkDegraded, SyncAt, ListingOK
<1>2. PICK m \in MailboxState : m = mailbox /\ CursorOK(m)
  BY AtRow
<1>3. PICK n \in MailboxState : n = [m EXCEPT !.status = "degraded", !.lapsed = FALSE]
  BY DEF MailboxState
<1>4. mailbox' = n /\ n.lapsed = FALSE /\ n.cursor = m.cursor /\ n.synced = m.synced
  BY <1>2, <1>3 DEF MarkDegraded, MailboxState
<1>5. CursorOK(n)
  BY <1>2, <1>4 DEF CursorOK
<1>6. Turns(s, Resting)
  BY DEF MarkDegraded, Turns
<1> QED BY <1>1, <1>4, <1>5, <1>6, RestingOK, FaultsTyped, MarkInv DEF MarkDegraded

\* A step that hands the sync's message on, or takes one.
LEMMA HandInv ==
  ASSUME Inv, Core', Asked', Grows, LeavesAsk, UNCHANGED <<scene, inbox, deleted, passed, mailbox>>, refused' \subseteq Mails,
         NEW s \in Syncers, NEW row \in Listing, Turns(s, row), NEW h, worker'[s] = h,
         \A v \in Syncers \ {s} : worker'[v] = worker[v],
         ListingOK(row, h) \/ ListingOK(row, h)'
  PROVE  Kept
<1>1. SyncTyped'
  BY DEF Inv, Cursors, SyncTyped, Turns
<1>2. Farther
  BY FartherSame DEF Inv, Cursors
<1>3. CursorOK(mailbox)'
  <2>1. PICK m \in MailboxState : m = mailbox /\ CursorOK(m)
    BY AtRow
  <2>2. CursorOK(m)'
    BY <1>1, <1>2, <2>1, CursorStays DEF Inv, Cursors
  <2> QED BY <2>1, <2>2 DEF CursorOK
<1>4. ListingOK(row, h)'
  BY <1>1, <1>2, ListingStays DEF Inv, Cursors
<1>5. ListingOK(row, worker[s])'
  BY <1>4 DEF ListingOK
<1>6. Cursors'
  BY <1>1, <1>2, <1>3, <1>5, CursorsTurn DEF Inv
<1> QED BY <1>6 DEF Inv, Kept

LEMMA MovedOthers ==
  ASSUME HandsTyped, NEW s \in Hands, NEW h \in Hand, Moved(s, h)
  PROVE  worker'[s] = h /\ \A v \in Hands \ {s} : worker'[v] = worker[v]
BY MovedAt

LEMMA TakeMessageInv ==
  ASSUME Inv, NEW s \in Syncers, TakeMessage(s)
  PROVE  Kept
<1>1. PICK line \in Listing : line = sync[s] /\ ListingOK(line, worker[s])
  BY AtRow
<1>2. line.at = "ingest" /\ worker[s].at = "idle" /\ line.todo \subseteq Mails /\ line.next \in Nat
  BY <1>1 DEF TakeMessage, SyncAt, ListingOK, Listing
<1>3. /\ line.renew => scene.provider = "gmail"
      /\ line.next <= Len(inbox) /\ (line.from # None => line.from <= Len(inbox))
      /\ \A i \in 1 .. line.next : Covered(inbox[i]) \/ inbox[i] \in line.todo
  BY <1>1, <1>2 DEF ListingOK
<1>4. PICK m \in line.todo :
       IF m \notin deleted \cup scene.garbled
       THEN /\ sync' = [sync EXCEPT ![s] = [@ EXCEPT !.todo = sync[s].todo \ {m}, !.at = "message"]]
            /\ worker' = [worker EXCEPT ![s] = On([of |-> m, attempts |-> 1], {})]
       ELSE /\ sync' = [sync EXCEPT ![s] = [@ EXCEPT !.todo = sync[s].todo \ {m},
                             !.at = IF scene.provider = "gmail" \/ m \notin deleted THEN "ingest" ELSE "error"]]
            /\ UNCHANGED worker
  BY <1>1 DEF TakeMessage
<1>5. PICK todo \in SUBSET Mails : todo = line.todo \ {m}
  BY <1>2
<1>6. CASE m \notin deleted \cup scene.garbled
  <2>1. PICK row \in Listing : row = [line EXCEPT !.todo = todo, !.at = "message"]
    BY DEF Listing, SyncSteps
  <2>2. row.at = "message" /\ row.todo = todo /\ row.next = line.next /\ row.from = line.from /\ row.renew = line.renew
    BY <2>1 DEF Listing
  <2>3. Turns(s, row)
    BY <1>1, <1>4, <1>5, <1>6, <2>1, AtRow DEF Turns, SyncTyped
  <2>4. PICK c \in Claims : c = [of |-> m, attempts |-> 1]
    BY <1>2, MailsApart DEF Claims
  <2>5. PICK h \in Hand : h = On(c, {}) /\ h.at = "read" /\ h.on = c /\ h.todo = {} /\ h.purpose = None
    BY OnTyped
  <2>6. Moved(s, h) /\ s \in Hands /\ HandsTyped /\ Working
    BY <1>4, <1>6, <2>4, <2>5, AtRow DEF Moved, Inv, Core, Typed
  <2>7. ~HalfAt(worker[s]) /\ ~HalfAt(h) /\ HandOK(h)
    BY <1>2, <2>5 DEF HalfAt, Wrote, HandOK
  <2>8. UNCHANGED <<others, faults, moves, broken>>
    BY DEF TakeMessage
  <2>9. Core' /\ Asked' /\ Grows /\ LeavesAsk
    BY <2>5, <2>6, <2>7, <2>8, HandCore DEF Inv
  <2>10. ListingOK(row, h)
    BY <1>2, <1>3, <1>5, <2>2, <2>4, <2>5 DEF ListingOK
  <2>11. worker'[s] = h /\ \A v \in Syncers \ {s} : worker'[v] = worker[v]
    BY <2>6, MovedOthers DEF Hands
  <2> QED BY <2>3, <2>9, <2>10, <2>11, HandInv DEF TakeMessage, box, seen, others, Inv, Cursors, SyncTyped
<1>7. CASE m \in deleted \cup scene.garbled
  <2>1. PICK at \in {"ingest", "error"} : at = IF scene.provider = "gmail" \/ m \notin deleted THEN "ingest" ELSE "error"
    OBVIOUS
  <2>2. PICK row \in Listing : row = [line EXCEPT !.todo = todo, !.at = at]
    BY DEF Listing, SyncSteps
  <2>3. row.at = at /\ row.todo = todo /\ row.next = line.next /\ row.from = line.from /\ row.renew = line.renew
    BY <2>2 DEF Listing
  <2>4. Turns(s, row) /\ UNCHANGED worker
    BY <1>1, <1>4, <1>5, <1>7, <2>1, <2>2, AtRow DEF Turns, SyncTyped
  <2>5. ListingOK(row, worker[s])
    BY <1>2, <1>3, <1>5, <1>7, <2>1, <2>3 DEF ListingOK, Covered
  <2> QED BY <2>4, <2>5, TurnSame DEF TakeMessage
<1> QED BY <1>6, <1>7

LEMMA IngestedInv ==
  ASSUME Inv, NEW s \in Syncers, Ingested(s)
  PROVE  Kept
<1>1. PICK line \in Listing : line = sync[s] /\ ListingOK(line, worker[s])
  BY AtRow
<1>2. line.at = "message" /\ worker[s].at = "finish" /\ line.next \in Nat /\ Doing(s) \in Mails
  BY <1>1 DEF Ingested, SyncAt, ListingOK, Listing, At, Doing
<1>3. /\ line.renew => scene.provider = "gmail"
      /\ line.next <= Len(inbox) /\ (line.from # None => line.from <= Len(inbox))
      /\ \A i \in 1 .. line.next : Covered(inbox[i]) \/ inbox[i] \in line.todo \/ inbox[i] = Doing(s)
  BY <1>1, <1>2 DEF ListingOK, Doing
<1>4. PICK at \in {"ingest", "error"} : at = AfterMessage(worker[s].verdict)
  BY DEF AfterMessage
<1>5. PICK row \in Listing : row = [line EXCEPT !.at = at]
  BY DEF Listing, SyncSteps
<1>6. row.at = at /\ row.todo = line.todo /\ row.next = line.next /\ row.from = line.from /\ row.renew = line.renew
  BY <1>5 DEF Listing
<1>7. Turns(s, row)
  BY <1>1, <1>4, <1>5, AtRow DEF Turns, SyncTyped, Ingested, To
<1>8. Moved(s, Idle) /\ s \in Hands /\ HandsTyped /\ Idle \in Hand /\ Idle.at = "idle"
  BY AtRow, IdleTyped DEF Moved, Ingested, Inv, Core, Typed
<1>9. ~HalfAt(worker[s]) /\ ~HalfAt(Idle) /\ HandOK(Idle)
  BY <1>2, <1>8 DEF HalfAt, Wrote, HandOK
<1>10. UNCHANGED <<others, faults, moves, broken>>
  BY DEF Ingested
<1>11. Core' /\ Asked' /\ Grows /\ LeavesAsk
  BY <1>8, <1>9, <1>10, HandCore DEF Inv
<1>12. at = "ingest" => Covered(Doing(s))
  <2>1. at = "ingest" => worker[s].verdict = "done"
    BY <1>4 DEF AfterMessage
  <2>2. worker[s].verdict = "done" => Dealt(Doing(s))
    BY <1>2, <1>8 DEF Inv, Core, Dealing, Doing
  <2> QED BY <1>2, <2>1, <2>2 DEF Dealt, Covered, Stored
<1>13. ListingOK(row, Idle)
  BY <1>3, <1>4, <1>6, <1>8, <1>12 DEF ListingOK
<1>14. worker'[s] = Idle /\ \A v \in Syncers \ {s} : worker'[v] = worker[v]
  BY <1>8, MovedOthers DEF Hands
<1>15. refused' \subseteq Mails
  BY <1>2 DEF Ingested, Inv, Cursors, SyncTyped
<1>16. UNCHANGED <<scene, inbox, deleted, passed, mailbox>>
  BY DEF Ingested, box, others
<1> QED BY <1>7, <1>11, <1>13, <1>14, <1>15, <1>16, HandInv

LEMMA FailSyncInv ==
  ASSUME Inv, NEW s \in Syncers, FailSync(s)
  PROVE  Kept
<1>1. Moved(s, Idle) /\ s \in Hands /\ HandsTyped /\ Idle \in Hand /\ Idle.at = "idle" /\ Core
  BY AtRow, IdleTyped DEF Moved, FailSync, Inv, Core, Typed
<1>2. PICK row \in Listing : Turns(s, row) /\ ListingOK(row, Idle)
  BY <1>1, RestingOK, ErrorOK DEF FailSync, Turns
<1>3. UNCHANGED <<others, moves, scene, inbox, deleted, passed, mailbox, refused>>
  BY DEF FailSync, box, seen, others
<1>4. faults' \in Nat
  BY FaultsTyped DEF FailSync
<1>5. broken' \subseteq Mails
  BY <1>1, HalfKnown DEF FailSync, Breaks, Core, Typed, RestTyped
<1>6. HandsTyped'
  BY <1>1, MovedAt
<1>7. Typed' /\ Jobs'
  BY <1>1, <1>3, <1>4, <1>5, <1>6 DEF others, Core, Typed, WebTyped, MailTyped, ThreadsTyped, PeopleTyped, RestTyped, Jobs
<1>8. Core' /\ Grows
  <2>1. CASE worker[s].at # "idle"
    <3>1. Stops(s) /\ Breaks(s)
      BY <1>1 DEF Stops, FailSync
    <3>2. UNCHANGED <<email, comm, thread, binding, feedback, correction, outbox, early, job>>
      BY <1>3 DEF others
    <3> QED BY <1>1, <1>7, <2>1, <3>1, <3>2, StopsCore
  <2>2. CASE worker[s].at = "idle"
    <3>1. ~HalfAt(worker[s]) /\ ~HalfAt(Idle) /\ HandOK(Idle)
      BY <1>1, <2>2 DEF HalfAt, Wrote, HandOK
    <3>2. broken \subseteq broken' /\ job' = job
      BY <1>3 DEF FailSync, Breaks, others
    <3>3. Grows /\ SameRows /\ Purposed' /\ RowsFit'
      BY <1>1, <1>3, <3>2, RowsStay, GrowsSame DEF others, Core, SameRows
    <3> QED BY <1>1, <1>7, <3>1, <3>2, <3>3, QuietCore
  <2> QED BY <2>1, <2>2
<1>9. Asked' /\ LeavesAsk
  BY <1>1, <1>3, AskedSame DEF Inv, others
<1>10. worker'[s] = Idle /\ \A v \in Syncers \ {s} : worker'[v] = worker[v]
  BY <1>1, MovedOthers DEF Hands
<1> QED BY <1>2, <1>3, <1>8, <1>9, <1>10, HandInv DEF Inv, Cursors, SyncTyped

-----------------------------------------------------------------------------
(* The mail's own steps, beside the mailbox *)

OnlyHand(w) == \A v \in Hands \ {w} : worker'[v] = worker[v]

LEMMA OneAtATime ==
  ASSUME HandsTyped, NEW w \in Hands, Claim(w) \/ WorkerStep(w) \/ Fail(w) \/ Crash(w)
  PROVE  OnlyHand(w)
<1>1. \A x : worker' = [worker EXCEPT ![w] = x] => OnlyHand(w)
  BY DEF HandsTyped, OnlyHand
<1>2. ASSUME NEW step, Go(w, step)
      PROVE  OnlyHand(w)
  BY <1>2 DEF Go, HandsTyped, OnlyHand
<1>3. Refuse(w) => OnlyHand(w)
  BY DEF Refuse, HandsTyped, OnlyHand
<1>4. ASSUME NEW t, NEW link, Join(w, t, link)
      PROVE  OnlyHand(w)
  <2>1. CASE Refuse(w)
    BY <1>3, <2>1
  <2>2. PICK x : ~Refuse(w) => worker' = [worker EXCEPT ![w] = x]
    BY <1>4 DEF Join, HandsTyped
  <2> QED BY <1>1, <2>1, <2>2
<1>5. Claim(w) => OnlyHand(w)
  BY <1>1 DEF Claim
<1>6. ResolveThread(w) => OnlyHand(w)
  BY <1>3, <1>4 DEF ResolveThread
<1>7. Read(w) \/ Announce(w) \/ AnnounceAnswer(w) \/ Report(w) \/ AnnounceReport(w) => OnlyHand(w)
  BY DEF Read, Announce, AnnounceAnswer, Report, AnnounceReport, HandsTyped, OnlyHand
<1>8. StoreEmail(w) \/ StoreFiles(w) \/ Finish(w) => OnlyHand(w)
  BY <1>2, <1>3 DEF StoreEmail, StoreFiles, Finish
<1>9. StoreComm(w) => OnlyHand(w)
  BY <1>2, <1>3 DEF StoreComm
<1>10. Settle(w) \/ Crash(w) => OnlyHand(w)
  BY <1>1 DEF Settle, Advance, Crash
<1>11. Fail(w) => OnlyHand(w)
  BY <1>1, <1>3 DEF Fail, HandsTyped, OnlyHand
<1> QED BY <1>5, <1>6, <1>7, <1>8, <1>9, <1>10, <1>11 DEF WorkerStep, Ingest

\* While a message is ingested its hand stays at it.
LEMMA IngestHand ==
  ASSUME Core, NEW w \in Hands, Ingest(w)
  PROVE  \E h \in Hand : Moved(w, h) /\ h.at # "idle" /\ h.on = worker[w].on /\ Doing(w) \in Mails /\ worker[w].at # "idle"
<1>1. HandsTyped /\ Typed /\ Working
  BY DEF Core, Typed
<1>2. ASSUME Refuse(w)
      PROVE  \E h \in Hand : Moved(w, h) /\ h.at # "idle" /\ h.on = worker[w].on
  BY <1>1, <1>2, RefuseIs DEF LetGo, Same
<1>3. ASSUME NEW step \in {"email", "comm", "files", "announce", "answer", "finish"}, Go(w, step)
      PROVE  \E h \in Hand : Moved(w, h) /\ h.at # "idle" /\ h.on = worker[w].on
  BY <1>1, <1>3, GoIs DEF Same
<1>4. ASSUME Through(w)
      PROVE  \E h \in Hand : Moved(w, h) /\ h.at # "idle" /\ h.on = worker[w].on
  BY <1>1, <1>4, ThroughIs DEF Same
<1>5. CASE Read(w)
  BY <1>1, <1>5, Reads DEF Same, Read, At
<1>6. CASE ResolveThread(w)
  <2>1. Doing(w) \in Mails /\ worker[w].at = "thread"
    BY <1>1, <1>6, HalfKnown DEF ResolveThread, At
  <2>2. ASSUME NEW t \in Threads, NEW p \in Purposes, NEW link \in {"explicit", "inferred"}, Entered(w, t, p, link)
        PROVE  \E h \in Hand : Moved(w, h) /\ h.at # "idle" /\ h.on = worker[w].on
    <3>1. PICK k \in Hand : k = worker[w]
      BY <1>1, HandFields
    <3>2. PICK h \in Hand : h = [k EXCEPT !.at = "email", !.thread = t, !.purpose = p, !.link = link]
      BY <2>2, <3>1 DEF Entered
    <3>3. h.at = "email" /\ h.on = k.on
      BY <3>2 DEF Hand
    <3> QED BY <2>2, <3>1, <3>2, <3>3 DEF Entered
  <2> QED BY <1>1, <1>2, <1>6, <2>1, <2>2, Resolves
<1>7. CASE StoreEmail(w)
  <2>1. Doing(w) \in Mails /\ worker[w].at = "email" /\ Placed(worker[w])
    BY <1>1, <1>7, HalfKnown DEF StoreEmail, At
  <2> QED BY <1>1, <1>2, <1>3, <1>7, <2>1, StoreEmails
<1>8. CASE StoreComm(w)
  <2>1. Doing(w) \in Mails /\ worker[w].at = "comm" /\ Placed(worker[w])
    BY <1>1, <1>8, HalfKnown DEF StoreComm, At, HalfAt, Wrote
  <2>2. Refuse(w) \/ \E step \in {"files", "announce"} : Go(w, step)
    BY <1>1, <1>8, <2>1, StoreComms DEF Linked
  <2> QED BY <1>2, <1>3, <2>1, <2>2
<1>9. CASE StoreFiles(w)
  BY <1>3, <1>9, HalfHand DEF StoreFiles, At
<1>10. CASE Announce(w)
  BY <1>1, <1>3, <1>4, <1>10, Announces, HalfHand DEF Announce, At
<1>11. CASE AnnounceAnswer(w)
  BY <1>1, <1>4, <1>11, AnnounceAnswerTyped, HalfHand DEF AnnounceAnswer, At
<1> QED BY <1>5, <1>6, <1>7, <1>8, <1>9, <1>10, <1>11 DEF Ingest

LEMMA IngestCore ==
  ASSUME Core, Asked, NEW w \in Hands, Ingest(w)
  PROVE  Core' /\ Grows /\ Asked' /\ LeavesAsk /\ scene' = scene
<1>1. CASE Read(w)
  <2>1. UNCHANGED <<comm, thread, binding, request, correction, crossed, outbox, scene>>
    BY <1>1 DEF Read, mail, threads, people, history
  <2> QED BY <1>1, <2>1, ReadCore, AskedSame
<1>2. CASE ResolveThread(w)
  BY <1>2, ResolveThreadCore, ResolveThreadAsked DEF ResolveThread
<1>3. CASE StoreEmail(w)
  <2>1. UNCHANGED <<comm, thread, binding, request, correction, crossed, outbox, scene>>
    BY <1>3 DEF StoreEmail, threads, people, history
  <2> QED BY <1>3, <2>1, StoreEmailCore, AskedSame
<1>4. CASE StoreComm(w)
  BY <1>4, StoreCommCore, StoreCommAsked DEF StoreComm
<1>5. CASE StoreFiles(w)
  BY <1>5, StoreFilesCore, StoreFilesAsked DEF StoreFiles
<1>6. CASE Announce(w)
  <2>1. /\ UNCHANGED <<comm, thread, binding, request, correction, crossed, scene>>
        /\ \A q \in Requests : <<"ask.resolved", q>> \in outbox' => <<"ask.resolved", q>> \in outbox
    BY <1>6 DEF Announce, mail, threads, people, history
  <2> QED BY <1>6, <2>1, AnnounceCore, AskedSame
<1>7. CASE AnnounceAnswer(w)
  <2>1. /\ UNCHANGED <<comm, thread, binding, request, correction, crossed, scene>>
        /\ \A q \in Requests : <<"ask.resolved", q>> \in outbox' => <<"ask.resolved", q>> \in outbox
    BY <1>7 DEF AnnounceAnswer, mail, threads, people, history
  <2> QED BY <1>7, <2>1, AnnounceAnswerCore, AskedSame
<1> QED BY <1>1, <1>2, <1>3, <1>4, <1>5, <1>6, <1>7 DEF Ingest

LEMMA WorkerCore ==
  ASSUME Core, Asked, NEW w \in Workers, Claim(w) \/ WorkerStep(w) \/ Fail(w) \/ Crash(w)
  PROVE  Core' /\ Grows /\ Asked' /\ LeavesAsk /\ scene' = scene
<1>1. w \in Hands
  BY DEF Hands
<1>2. CASE Ingest(w)
  BY <1>1, <1>2, IngestCore
<1>3. CASE Claim(w)
  <2>1. UNCHANGED <<comm, thread, binding, request, correction, crossed, outbox, scene>>
    BY <1>3 DEF Claim, mail, threads, people, history
  <2> QED BY <1>3, <2>1, ClaimCore, AskedSame
<1>4. CASE Report(w)
  <2>1. UNCHANGED <<comm, thread, binding, request, correction, crossed, outbox, scene>>
    BY <1>4 DEF Report, mail, threads, people
  <2> QED BY <1>1, <1>4, <2>1, ReportCore, AskedSame
<1>5. CASE AnnounceReport(w)
  <2>1. UNCHANGED <<comm, thread, binding, request, correction, crossed, scene>>
    BY <1>5 DEF AnnounceReport, mail, threads, people, history
  <2>2. PICK kind \in {"delivered", "bounced", "opened"} : outbox' = outbox \cup {<<kind, Sent>>}
    BY <1>5, InboundMailAssumption DEF AnnounceReport
  <2>3. \A q \in Requests : <<"ask.resolved", q>> \in outbox' => <<"ask.resolved", q>> \in outbox
    BY <2>2
  <2> QED BY <1>1, <1>5, <2>1, <2>3, AnnounceReportCore, AskedSame
<1>6. CASE Finish(w)
  <2>1. UNCHANGED <<comm, thread, binding, request, correction, crossed, outbox, scene>>
    BY <1>6 DEF Finish, mail, threads, people, history
  <2> QED BY <1>6, <2>1, FinishCore, AskedSame
<1>7. CASE Settle(w)
  <2>1. UNCHANGED <<comm, thread, binding, request, correction, crossed, outbox, scene>>
    BY <1>7 DEF Settle, mail, threads, people, history
  <2> QED BY <1>1, <1>7, <2>1, SettleCore, AskedSame
<1>8. CASE Fail(w)
  <2>1. UNCHANGED <<comm, thread, binding, request, correction, crossed, outbox, scene>>
    BY <1>8 DEF Fail, mail, threads, people
  <2> QED BY <1>1, <1>8, <2>1, FailCore, AskedSame
<1>9. CASE Crash(w)
  <2>1. UNCHANGED <<comm, thread, binding, request, correction, crossed, outbox, scene>>
    BY <1>9 DEF Crash, mail, threads, people
  <2> QED BY <1>1, <1>9, <2>1, CrashCore, AskedSame
<1> QED BY <1>2, <1>3, <1>4, <1>5, <1>6, <1>7, <1>8, <1>9 DEF WorkerStep

\* The webhook, the Ask and people leave the hands alone.
Apart ==
  \/ \E r \in Receipts : Receive(r) \/ QueueJob(r) \/ Redeliver(r) \/ Lapse(r)
  \/ StoreSent
  \/ \E q \in Requests : (\E c \in Comms : Check(q, c)) \/ Lock(q) \/ Resolve(q) \/ Deadlock(q) \/ AnnounceResolved(q)
  \/ \E c \in Mails, to \in Threads, reason \in {"other", "wrong_topic"} : BeginCorrection(c, to, reason)
  \/ CommitCorrection

LEMMA ApartHands ==
  ASSUME Apart
  PROVE  worker' = worker /\ scene' = scene
BY DEF Apart, Receive, QueueJob, Redeliver, Lapse, StoreSent, Check, Lock, Resolve, Deadlock, AnnounceResolved,
       BeginCorrection, CommitCorrection

LEMMA ApartCore ==
  ASSUME Core, Asked, Apart
  PROVE  Core' /\ Grows /\ Asked' /\ LeavesAsk
<1>1. ASSUME NEW r \in Receipts, Receive(r) \/ QueueJob(r) \/ Redeliver(r) \/ Lapse(r)
      PROVE  Core' /\ Grows /\ Asked' /\ LeavesAsk
  <2>1. UNCHANGED <<comm, thread, binding, request, correction, crossed, outbox>>
    BY <1>1 DEF Receive, QueueJob, Redeliver, Lapse, mail, threads, people, history
  <2>2. Asked' /\ LeavesAsk
    BY <2>1, AskedSame
  <2> QED BY <1>1, <2>2, ReceiveCore, QueueJobCore, RedeliverCore, LapseCore
<1>2. CASE StoreSent
  <2>1. UNCHANGED <<comm, thread, binding, request, correction, crossed, outbox>>
    BY <1>2 DEF StoreSent, mail, threads, people, history
  <2> QED BY <1>2, <2>1, AskedSame, StoreSentCore
<1>3. ASSUME NEW q \in Requests, NEW c \in Comms, Check(q, c)
      PROVE  Core' /\ Grows /\ Asked' /\ LeavesAsk
  BY <1>3, CheckCore, CheckAsked
<1>4. ASSUME NEW q \in Requests, Lock(q) \/ Deadlock(q) \/ AnnounceResolved(q)
      PROVE  Core' /\ Grows /\ Asked' /\ LeavesAsk
  BY <1>4, LockCore, LockAsked, DeadlockCore, DeadlockAsked, AnnounceResolvedCore, AnnounceResolvedAsked
<1>5. ASSUME NEW q \in Requests, Resolve(q)
      PROVE  Core' /\ Grows /\ Asked' /\ LeavesAsk
  <2>1. request[q].by # None
    BY <1>5, NoneIsNoRow DEF Resolve, Asked, RequestOK
  <2> QED BY <1>5, <2>1, ResolveCore, ResolveAsked
<1>6. ASSUME NEW c \in Mails, NEW to \in Threads, NEW reason \in {"other", "wrong_topic"}, BeginCorrection(c, to, reason)
      PROVE  Core' /\ Grows /\ Asked' /\ LeavesAsk
  BY <1>6, BeginCorrectionCore, BeginCorrectionAsked
<1>7. CASE CommitCorrection
  BY <1>7, CommitCorrectionCore, CommitCorrectionAsked
<1> QED BY <1>1, <1>2, <1>3, <1>4, <1>5, <1>6, <1>7 DEF Apart

LEMMA NextSplit == Next <=> Apart \/ \E w \in Workers : Claim(w) \/ WorkerStep(w) \/ Fail(w) \/ Crash(w)
BY DEF Next, Apart

LEMMA NextInv ==
  ASSUME Inv, Next, UNCHANGED syncing
  PROVE  Kept
<1>1. /\ Core' /\ Grows /\ Asked' /\ LeavesAsk /\ scene' = scene
      /\ \A s \in Syncers : worker'[s] = worker[s]
  <2>1. CASE Apart
    BY <2>1, ApartHands, ApartCore DEF Inv
  <2>2. ASSUME NEW w \in Workers, Claim(w) \/ WorkerStep(w) \/ Fail(w) \/ Crash(w)
        PROVE  /\ Core' /\ Grows /\ Asked' /\ LeavesAsk /\ scene' = scene
               /\ \A s \in Syncers : worker'[s] = worker[s]
    <3>1. w \in Hands /\ \A s \in Syncers : s \in Hands \ {w}
      BY InboundMailAssumption DEF Hands
    <3>2. OnlyHand(w)
      BY <2>2, <3>1, OneAtATime DEF Inv, Core, Typed
    <3> QED BY <2>2, <3>1, <3>2, WorkerCore DEF Inv, OnlyHand
  <2> QED BY <2>1, <2>2, NextSplit
<1>2. SyncTyped' /\ Farther
  BY <1>1, FartherSame DEF syncing, Inv, Cursors, SyncTyped
<1> QED BY <1>1, <1>2, CursorsStay DEF Inv, Kept, syncing

LEMMA IngestMessageInv ==
  ASSUME Inv, NEW s \in Syncers, IngestMessage(s)
  PROVE  Kept
<1>1. s \in Hands /\ Core /\ Asked /\ Ingest(s) /\ HandsTyped
  BY AtRow DEF IngestMessage, Inv, Core, Typed
<1>2. Core' /\ Grows /\ Asked' /\ LeavesAsk /\ scene' = scene
  BY <1>1, IngestCore
<1>3. PICK h \in Hand : Moved(s, h) /\ h.at # "idle" /\ h.on = worker[s].on /\ worker[s].at # "idle"
  BY <1>1, IngestHand
<1>4. worker'[s] = h /\ \A v \in Syncers \ {s} : worker'[v] = worker[v]
  BY <1>1, <1>3, MovedOthers DEF Hands
<1>5. PICK line \in Listing : line = sync[s] /\ ListingOK(line, worker[s])
  BY AtRow
<1>6. ListingOK(line, h)
  BY <1>3, <1>5 DEF ListingOK
<1>7. Turns(s, line)
  BY <1>5, AtRow DEF IngestMessage, syncing, Turns, SyncTyped
<1> QED BY <1>2, <1>4, <1>6, <1>7, HandInv DEF IngestMessage, syncing, Inv, Cursors, SyncTyped

-----------------------------------------------------------------------------
(* Scores *)

RankedStep ==
  \A w \in Hands : At(w, "thread") /\ worker[w].wants = None /\ At(w, "email")' => ~Rejected(Doing(w), worker'[w].thread)

LEMMA RankedStands ==
  ASSUME NEW m \in Mails, NEW t \in Ranked(m)
  PROVE  ~Rejected(m, t)
<1>1. t \in Candidates(m) /\ ~Excluded([u \in Candidates(m) |-> EvidenceOf(m, u)][t])
  BY DEF Ranked, Chosen
<1>2. ~EvidenceOf(m, t).rejected
  BY <1>1 DEF Excluded
<1> QED BY <1>2 DEF EvidenceOf

LEMMA ResolveThreadRanked ==
  ASSUME Core, NEW w \in Hands, ResolveThread(w), worker[w].wants = None, At(w, "email")'
  PROVE  ~Rejected(Doing(w), worker'[w].thread)
<1>1. HandsTyped /\ Typed /\ Doing(w) \in Mails
  BY HalfKnown DEF Core, Typed, ResolveThread, At
<1>2. ~Refuse(w)
  BY <1>1, RefuseIs, MovedAt DEF LetGo, At
<1>3. PICK t \in Threads, p \in Purposes, link \in {"explicit", "inferred"} : Entered(w, t, p, link)
  BY <1>1, <1>2, Resolves
<1>4. worker'[w].thread = t
  <2>1. PICK k \in Hand : k = worker[w]
    BY <1>1, HandFields
  <2>2. PICK h \in Hand : h = [k EXCEPT !.at = "email", !.thread = t, !.purpose = p, !.link = link]
    BY <1>3, <2>1 DEF Entered
  <2>3. h.thread = t
    BY <2>2 DEF Hand
  <2>4. Moved(w, h)
    BY <1>3, <2>1, <2>2 DEF Entered
  <2> QED BY <1>1, <2>3, <2>4, MovedAt
<1>5. PICK m \in Mails : m = Doing(w)
  BY <1>1
<1>6. CASE t \in Ranked(m)
  BY <1>4, <1>5, <1>6, RankedStands
<1>7. CASE thread[t].status = "none"
  BY <1>4, <1>7 DEF Rejected, Core, RowsFit
<1> QED BY <1>3, <1>5, <1>6, <1>7 DEF Entered

LEMMA HandRanked ==
  ASSUME Core, NEW w \in Hands, OnlyHand(w), ResolveThread(w) \/ worker[w].at # "thread" \/ worker'[w].at # "email"
  PROVE  RankedStep
BY ResolveThreadRanked DEF RankedStep, OnlyHand, At

LEMMA WorkerRanked ==
  ASSUME Core, NEW w \in Hands, Claim(w) \/ WorkerStep(w) \/ Fail(w) \/ Crash(w)
  PROVE  RankedStep
<1>1. OnlyHand(w) /\ HandsTyped /\ Working
  BY OneAtATime DEF Core, Typed
<1>2. CASE Fail(w) \/ Crash(w)
  <2>1. Stops(w) /\ worker[w].at # "idle"
    BY <1>1, <1>2, Fails DEF Fail, Crash, Stops, Moved
  <2>2. worker'[w].at # "email"
    BY <1>1, <2>1, StopsIs, MovedAt DEF Working
  <2> QED BY <1>1, <2>2, HandRanked
<1>3. CASE Claim(w) \/ WorkerStep(w)
  <2>1. ResolveThread(w) \/ worker[w].at # "thread"
    BY <1>3 DEF Claim, WorkerStep, Ingest, Read, StoreEmail, StoreComm, StoreFiles, Announce, AnnounceAnswer, Report,
                AnnounceReport, Finish, Settle, At
  <2> QED BY <1>1, <2>1, HandRanked
<1> QED BY <1>2, <1>3

LEMMA StillRanked ==
  ASSUME worker' = worker
  PROVE  RankedStep
BY DEF RankedStep, At

LEMMA SyncRanked ==
  ASSUME Inv, NEW s \in Syncers, Start(s) \/ SyncStep(s) \/ FailSync(s)
  PROVE  RankedStep
<1>1. s \in Hands /\ Core /\ HandsTyped /\ ListingOK(sync[s], worker[s])
  BY AtRow DEF Inv, Core, Typed
<1>2. CASE UNCHANGED worker
  BY <1>2, StillRanked
<1>3. CASE IngestMessage(s)
  BY <1>1, <1>3, WorkerRanked DEF IngestMessage, WorkerStep
<1>4. CASE TakeMessage(s) /\ ~UNCHANGED worker
  <2>1. worker[s].at = "idle"
    BY <1>1, <1>4 DEF TakeMessage, SyncAt, ListingOK
  <2>2. OnlyHand(s)
    BY <1>1, <1>4 DEF TakeMessage, HandsTyped, OnlyHand
  <2> QED BY <1>1, <2>1, <2>2, HandRanked
<1>5. CASE Ingested(s) \/ FailSync(s)
  <2>1. Moved(s, Idle)
    BY <1>5 DEF Ingested, FailSync, Moved
  <2>2. worker'[s].at # "email" /\ OnlyHand(s)
    BY <1>1, <2>1, IdleTyped, MovedAt DEF OnlyHand
  <2> QED BY <1>1, <2>2, HandRanked
<1>6. CASE \/ Start(s) \/ ReadCursor(s) \/ ListChanges(s) \/ ReadProfile(s) \/ ListAll(s) \/ CatchUp(s) \/ RenewWatch(s)
           \/ MarkHealthy(s) \/ MarkDegraded(s)
  BY <1>2, <1>6 DEF Start, ReadCursor, ListChanges, ReadProfile, ListAll, CatchUp, RenewWatch, MarkHealthy, MarkDegraded
<1> QED BY <1>2, <1>3, <1>4, <1>5, <1>6 DEF SyncStep

-----------------------------------------------------------------------------
(* The beginning *)

LEMMA InitTyped ==
  ASSUME Init
  PROVE  Typed
<1>1. scene \in Scenes /\ scene.asked \subseteq DOMAIN Person /\ faults \in Nat /\ moves \in Nat
  BY InboundMailAssumption DEF Init
<1>2. AskThread \in Threads /\ "human_ask" \in Purposes /\ None \in Purposes /\ {"ask", None} \subseteq Topics
  BY DEF Threads, Purposes, Topics
<1>3. WebTyped
  <2>1. PICK j \in Job : j = [status |-> "none", attempts |-> 0, lease |-> None, lapsed |-> FALSE]
    BY DEF Job
  <2> QED BY <2>1 DEF Init, WebTyped
<1>4. HandsTyped
  BY IdleTyped DEF Init, HandsTyped
<1>5. MailTyped
  <2>1. PICK e \in Email : e = [thread |-> AskThread, purpose |-> "human_ask"]
    BY <1>2 DEF Email
  <2>2. PICK c \in Comm : c = [thread |-> AskThread, purpose |-> "human_ask", link |-> "explicit", files |-> FALSE]
    BY <1>2 DEF Comm
  <2> QED BY <2>1, <2>2 DEF Init, MailTyped
<1>6. ThreadsTyped
  <2>1. PICK t \in Thread : t = [status |-> "open", purpose |-> "human_ask", people |-> scene.asked, topic |-> "ask"]
    BY <1>1, <1>2 DEF Thread
  <2>2. PICK u \in Thread : u = [status |-> "none", purpose |-> None, people |-> {}, topic |-> None]
    BY <1>1, <1>2 DEF Thread
  <2>3. thread \in [Threads -> Thread]
    BY <2>1, <2>2 DEF Init
  <2>4. PICK k \in Ask : k = [status |-> "open", thread |-> AskThread, by |-> None]
    BY <1>2 DEF Ask
  <2>5. binding \in Ask /\ feedback \subseteq Feedback
    BY <2>4 DEF Init
  <2> QED BY <2>3, <2>5 DEF ThreadsTyped
<1>7. PeopleTyped
  <2>1. PICK r \in Request : r = [at |-> "idle", by |-> None]
    BY DEF Request
  <2> QED BY <1>1, <2>1 DEF Init, PeopleTyped
<1>8. RestTyped
  BY <1>1 DEF Init, RestTyped
<1> QED BY <1>3, <1>4, <1>5, <1>6, <1>7, <1>8 DEF Typed

LEMMA InitCore ==
  ASSUME Init
  PROVE  Core /\ Asked
<1>1. Typed
  BY InitTyped
<1>2. \A w \in Hands : worker[w] = Idle /\ ~HalfAt(worker[w]) /\ worker[w].at = "idle"
  BY DEF Init, Idle, HalfAt, Wrote
<1>3. Working
  BY <1>2 DEF Working, HandOK, Wrote
<1>4. Jobs
  BY DEF Init, Jobs
<1>5. \A t \in Threads : t # AskThread => thread[t].purpose = None /\ thread[t].status = "none"
  BY DEF Init
<1>6. AskThread \in Threads /\ thread[AskThread].purpose = "human_ask" /\ thread[AskThread].status = "open"
  BY DEF Init, Threads
<1>7. Purposed
  BY <1>5, <1>6, NoneIsNoRow DEF Init, Purposed
<1>8. /\ \A c \in Comms \ {Sent} : email[c] = None /\ comm[c] = None
      /\ Sent \in Comms /\ email[Sent].thread = AskThread /\ email[Sent].purpose = "human_ask"
      /\ comm[Sent].thread = AskThread /\ comm[Sent].purpose = "human_ask"
  BY DEF Init, Comms
<1>9. email[Sent] # None
  <2>1. email[Sent] = [thread |-> AskThread, purpose |-> "human_ask"] /\ [thread |-> AskThread, purpose |-> "human_ask"] \in Email
    BY DEF Init, Comms, Email, Threads, Purposes
  <2> QED BY <2>1, NoneIsNoRow
<1>10. RowsFit
  BY <1>6, <1>8, <1>9 DEF Init, RowsFit, InPlace
<1>11. Half
  BY <1>2 DEF Half
<1>12. Told
  BY <1>8, InboundMailAssumption, MailsApart DEF Told
<1>13. Dealing
  BY <1>2 DEF Init, Dealing
<1>14. Asked
  BY <1>6 DEF Init, Asked, AskState, RequestOK
<1> QED BY <1>1, <1>3, <1>4, <1>7, <1>10, <1>11, <1>12, <1>13, <1>14 DEF Core

LEMMA InitInv == SyncInit => Inv
<1> SUFFICES ASSUME SyncInit
             PROVE  Inv
  OBVIOUS
<1>1. Core /\ Asked
  BY InitCore DEF SyncInit
<1>2. inbox = <<>> /\ Len(inbox) = 0 /\ inbox \in Seq(Mails)
  BY DEF SyncInit
<1>3. \A s \in Syncers : Resting \in Listing /\ sync[s] = Resting /\ worker[s] = Idle
  BY DEF SyncInit, Init, Resting, Listing, SyncSteps, Hands
<1>4. PICK c \in {0, None} : c = IF scene.provider = "gmail" THEN 0 ELSE None
  OBVIOUS
<1>5. PICK m \in MailboxState : m = mailbox /\ m.cursor = c /\ ~m.synced /\ ~m.lapsed
  <2>1. PICK status \in {"none", "pending"} : status = IF scene.provider = None THEN "none" ELSE "pending"
    OBVIOUS
  <2>2. mailbox = [status |-> status, cursor |-> c, synced |-> FALSE, lapsed |-> FALSE]
    BY <1>4, <2>1 DEF SyncInit
  <2>3. mailbox \in MailboxState
    BY <2>2 DEF MailboxState
  <2>4. mailbox.cursor = c
    BY <2>2
  <2>5. ~mailbox.synced
    BY <2>2, Zenon
  <2>6. ~mailbox.lapsed
    BY <2>2, Zenon
  <2> QED BY <2>3, <2>4, <2>5, <2>6
<1>6. SyncTyped
  BY <1>2, <1>3, <1>5 DEF SyncInit, SyncTyped
<1>7. CursorOK(m)
  BY <1>2, <1>4, <1>5, NoneIsNoRow DEF CursorOK
<1>8. ASSUME NEW s \in Syncers
      PROVE  ListingOK(sync[s], worker[s])
  BY <1>2, <1>3 DEF ListingOK, Resting, Idle
<1> QED BY <1>1, <1>5, <1>6, <1>7, <1>8 DEF Inv, Cursors

LEMMA NextKeepsInv ==
  ASSUME Inv, SyncNext
  PROVE  Kept /\ RankedStep
<1>1. CASE Next /\ UNCHANGED syncing
  <2>1. RankedStep
    <3>1. \A w \in Workers : w \in Hands
      BY DEF Hands
    <3> QED BY <1>1, <3>1, NextSplit, ApartHands, StillRanked, WorkerRanked DEF Inv
  <2> QED BY <1>1, <2>1, NextInv
<1>2. ASSUME NEW m \in Mails, Arrive(m) \/ Delete(m)
      PROVE  Kept /\ RankedStep
  BY <1>2, ArriveInv, DeleteInv, StillRanked DEF Arrive, Delete
<1>3. CASE Reconnect \/ SyncLapse
  BY <1>3, ReconnectInv, SyncLapseInv, StillRanked DEF Reconnect, SyncLapse
<1>4. ASSUME NEW s \in Syncers, Start(s) \/ SyncStep(s) \/ FailSync(s)
      PROVE  Kept /\ RankedStep
  BY <1>4, SyncRanked, StartInv, ReadCursorInv, ListChangesInv, ReadProfileInv, ListAllInv, CatchUpInv, TakeMessageInv,
     IngestMessageInv, IngestedInv, RenewWatchInv, MarkHealthyInv, MarkDegradedInv, FailSyncInv DEF SyncStep
<1> QED BY <1>1, <1>2, <1>3, <1>4 DEF SyncNext

LEMMA StutterInv ==
  ASSUME Inv, UNCHANGED allvars
  PROVE  Kept /\ RankedStep
<1>1. UNCHANGED <<scene, worker, inbox, deleted, passed, mailbox, sync, refused>>
  BY DEF allvars, vars, syncing
<1>2. UNCHANGED <<others, worker, broken, faults, moves>>
  BY DEF allvars, vars, others
<1>3. Core' /\ Asked' /\ Grows /\ LeavesAsk
  BY <1>2, CoreFrame DEF Inv, Core, Typed, PeopleTyped, RestTyped
<1>4. SyncTyped' /\ Farther
  BY <1>1, <1>3, FartherSame DEF Inv, Cursors, SyncTyped
<1> QED BY <1>1, <1>3, <1>4, CursorsStay, StillRanked DEF Inv, Kept

-----------------------------------------------------------------------------
(* Theorems *)

LEMMA InvTypes == Inv => SyncTypeOK
<1> SUFFICES ASSUME Inv
             PROVE  SyncTypeOK
  OBVIOUS
<1>1. Typed /\ Working /\ Jobs /\ Purposed /\ Asked /\ Cursors
  BY DEF Inv, Core
<1>2. ASSUME NEW w \in Hands
      PROVE  /\ worker[w].at # "idle" => worker[w].on \in Claims \ worker[w].todo
             /\ worker[w].at \in {"email", "comm", "files", "announce", "answer"} /\ worker[w].on.of \in Mails
                  => worker[w].thread \in Threads
  <2>1. PICK h \in Hand : h = worker[w]
    BY <1>1, HandFields DEF Typed
  <2>2. HandOK(h) /\ (h.at = "email" \/ HalfAt(h) => Placed(h))
    BY <1>1, <2>1 DEF Working
  <2> QED BY <2>1, <2>2 DEF HandOK, HalfAt, Wrote, Placed
<1>3. TypeOK
  BY <1>1, <1>2 DEF TypeOK, Typed, WebTyped, HandsTyped, MailTyped, ThreadsTyped, PeopleTyped, RestTyped, Jobs, Purposed
<1>4. SyncTyped /\ (mailbox.lapsed => mailbox.status = "syncing")
  BY <1>1 DEF Cursors, CursorOK
<1>5. mailbox.cursor # None => mailbox.cursor <= Len(inbox)
  BY <1>1 DEF Cursors, CursorOK
<1>6. ASSUME NEW s \in Syncers
      PROVE  /\ sync[s].next <= Len(inbox) /\ (sync[s].from # None => sync[s].from <= Len(inbox))
             /\ worker[s].at # "idle" <=> sync[s].at = "message"
  BY <1>1, <1>6 DEF Cursors, ListingOK
<1> QED BY <1>3, <1>4, <1>5, <1>6 DEF SyncTypeOK, SyncTyped

LEMMA HeldIsInHand ==
  ASSUME Inv, NEW m \in Mails, Held(m)
  PROVE  InHand(m)
<1>1. PICK w \in Hands : HalfAt(worker[w]) /\ worker[w].on.of = m
  BY DEF Held
<1>2. worker[w].at # "idle"
  BY <1>1 DEF HalfAt, Wrote
<1>3. Halfway(w)
  BY <1>1 DEF HalfAt, Wrote, Halfway, At, Doing
<1> QED BY <1>1, <1>2, <1>3 DEF InHand, Doing

LEMMA InvWhole ==
  ASSUME Inv
  PROVE  \A m \in Mails : Stored(m) => Whole(m) \/ m \in broken \/ InHand(m)
BY HeldIsInHand DEF Inv, Core, Told, Stored

LEMMA InvNoMailIsLost == Inv => NoMailIsLost
<1> SUFFICES ASSUME Inv
             PROVE  NoMailIsLost
  OBVIOUS
<1>1. Mails \subseteq Receipts /\ Reports \subseteq Receipts
  BY DEF Receipts
<1>2. \A r \in Receipts : job[r].status = "done" => Dealt(r)
  BY DEF Inv, Core, Dealing
<1>3. MailIsWhole
  BY <1>1, <1>2, InvWhole DEF MailIsWhole, Dealt, Stored
<1>4. ASSUME mailbox.cursor # None, mailbox.synced
      PROVE  \A i \in 1 .. mailbox.cursor : Accounted(inbox[i])
  <2>1. SyncTyped /\ CursorOK(mailbox)
    BY DEF Inv, Cursors
  <2>2. mailbox.cursor <= Len(inbox) /\ CoveredTo(mailbox.cursor)
    BY <1>4, <2>1 DEF CursorOK
  <2>3. mailbox.cursor \in Nat
    BY <1>4, <2>1 DEF SyncTyped, MailboxState
  <2>4. \A i \in 1 .. mailbox.cursor : inbox[i] \in Mails /\ Covered(inbox[i])
    BY <2>1, <2>2, <2>3 DEF SyncTyped, CoveredTo
  <2> QED BY <2>4, InvWhole DEF Covered, Accounted
<1> QED BY <1>3, <1>4 DEF NoMailIsLost, CursorIsBehind

LEMMA InvAnswer == Inv => AskKeepsItsAnswer
BY DEF Inv, Asked, AskState, RequestOK, AskKeepsItsAnswer

LEMMA LeftAlone ==
  ASSUME Inv, Kept
  PROVE  binding.status = "resolved" =>
           /\ UNCHANGED binding /\ thread'[AskThread].status = "resolved"
           /\ \A c \in Comms : InAskThread(c)' => InAskThread(c)
<1>1. thread'[AskThread].status = binding'.status
  BY DEF Kept, Inv, Asked, AskState
<1> QED BY <1>1 DEF Kept, LeavesAsk

LEMMA SyncInv == SyncSpec => []Inv /\ [][Kept /\ RankedStep]_allvars
<1>1. Inv /\ [SyncNext]_allvars => Inv'
  BY NextKeepsInv, StutterInv DEF Kept
<1>2. Inv /\ [SyncNext]_allvars => [Kept /\ RankedStep]_allvars
  BY NextKeepsInv
<1> QED BY InitInv, <1>1, <1>2, PTL DEF SyncSpec

\* TypeOK of the mail and of the mailbox: a job is leased exactly while it is processed and has its
\* receipt, a worker has a claim and then a thread, no cursor is past the inbox (emailWebhook.js,
\* mailboxService.js).
THEOREM SyncTypes == SyncSpec => []SyncTypeOK
BY SyncInv, InvTypes, PTL

\* A message whose job is done has its communication, files and events, a report its event, and the
\* stored cursor is past no message that was not taken in; but for the breaks the model names
\* (emailWebhook.js:143, mailboxService.js:363 and :195).
THEOREM NoMailLost == SyncSpec => []NoMailIsLost
BY SyncInv, InvNoMailIsLost, PTL

\* A resolved Ask has been resolved by a communication of its thread, unless a correction took it away
\* while the function ran, and what is announced names it (009_multi_tenancy.sql, v1.js).
THEOREM AnswerStays == SyncSpec => []AskKeepsItsAnswer
BY SyncInv, InvAnswer, PTL

\* Once an Ask is resolved its binding does not change and nothing enters its thread, by mail, by a
\* sync or by a correction (migrations 009 and 020).
THEOREM AskIsLeftAlone == SyncSpec => SettledAskIsLeftAlone
<1>1. Inv /\ [Kept /\ RankedStep]_allvars =>
        [binding.status = "resolved" =>
           /\ UNCHANGED binding /\ thread'[AskThread].status = "resolved"
           /\ \A c \in Comms : InAskThread(c)' => InAskThread(c)]_vars
  BY LeftAlone DEF allvars
<1> QED BY <1>1, SyncInv, PTL DEF SettledAskIsLeftAlone

\* A thread that a person's correction rejected for a sender is not chosen by score for what that
\* sender writes, however the hands interleave (communicationModel.js:184).
THEOREM CorrectionsOutrank == SyncSpec => CorrectionsOutrankScores
<1>1. [Kept /\ RankedStep]_allvars => [RankedStep]_vars
  BY DEF allvars
<1> QED BY <1>1, SyncInv, PTL DEF CorrectionsOutrankScores, RankedStep
=============================================================================
