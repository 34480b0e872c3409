------------------------ MODULE MailboxDraft_proofs ------------------------
(***************************************************************************)
(* For any number of edits, recoveries, requests, faults and edits by the  *)
(* owner: an unproven PATCH keeps the draft claimed, receipts are true,    *)
(* and an edit reaches the mailbox at most once.                           *)
(***************************************************************************)
EXTENDS MailboxDraft, TLAPS

StateTyped ==
  /\ draft \in Snapshot
  /\ receipt \in [Keys -> Receipt]
  /\ provider \in [version : Nat, content : Contents]
  /\ flight \in [Keys -> {"unsent", "sent", "applied", "refused"}]
  /\ sends \in [Keys -> Nat]
  /\ req \in [Requests -> Request]
  /\ calls \in Nat /\ edits \in Nat /\ faults \in Nat

Live(k) == flight[k] \in {"sent", "applied"}
Claimed(k) == receipt[k].status \notin {"none", "reserved"}

\* Requests that may still send a PATCH, and those that got the claim.
Writing == {"review", "get", "patch"}
Holding == Writing \cup {"wait", "finalize", "release", "mark"}

\* The PATCH of k was never sent and never will be.
Dead(k) ==
  /\ flight[k] = "unsent" /\ Claimed(k)
  /\ \A r \in Requests : req[r].key = k => req[r].at \notin Writing

\* The receipt of a key, against the draft and the PATCH.
RowOK(k) ==
  /\ ~Claimed(k) => flight[k] = "unsent" /\ ~receipt[k].result
  /\ (flight[k] = "unsent" => sends[k] = 0) /\ sends[k] <= 1
  /\ receipt[k].status # "none" => receipt[k].base <= draft.revision
  /\ receipt[k].result => receipt[k].base < draft.revision /\ flight[k] = "applied"
  /\ draft.active = k => /\ receipt[k].status \in Unfinished /\ ~receipt[k].result
                         /\ receipt[k].base = draft.revision
  /\ Serial(k) /\ Live(k) /\ ~receipt[k].result => draft.active = k
  /\ ~Overlap /\ receipt[k].status = "failed" => ~Live(k)

\* An edit that is to be recovered is dead; its recoveries have its base revision.
LinkOK(k) ==
  /\ receipt[k].changed => Dead(k)
  /\ Recovers[k] # None /\ receipt[k].status # "none"
       => Dead(Recovers[k]) /\ receipt[k].base = receipt[Recovers[k]].base

\* What a request q knows of the key and the receipt it acts for.
AboutOK(q) ==
  /\ q.at \in {"idle", "adopt"} <=> q.key = None
  /\ q.key # None => q.own \in Keys /\ Origin(q.own) = Origin(q.key)
  /\ q.key # None /\ Recovers[q.key] # None
       => Dead(Recovers[q.key]) /\ q.asked = receipt[Recovers[q.key]].base
  /\ q.changed => q.key # None /\ Dead(q.key)
  /\ q.at = "settle" => \E j \in Keys : Origin(j) = Origin(q.own) /\ flight[j] = "applied"

\* What it knows of the draft.
ReadOK(q) ==
  q.key # None /\ q.at # "draft" =>
    /\ q.snap.revision <= draft.revision
    /\ Recovers[q.key] # None => /\ q.asked <= q.snap.revision
                                 /\ q.at = "insert" => q.asked = q.snap.revision

\* What it knows once it has read or claimed its receipt.
StepOK(q) ==
  /\ q.at = "stale" => /\ receipt[q.key].status # "none"
                       /\ receipt[q.key].base # q.snap.revision
                       /\ ~Overlap => receipt[q.key].status = "reserved"
  /\ q.at \in {"claim", "lost"} => receipt[q.key].status # "none"
  /\ q.at \in Holding => Claimed(q.key)
  /\ q.at \in Writing => /\ flight[q.key] = "unsent"
                         /\ Serial(q.key) => draft.active = q.key
  /\ q.at = "finalize" => flight[q.key] = "applied"
  /\ q.at = "release" => ~Live(q.key)
  /\ q.at = "mark" /\ q.verdict = "failed" => ~Live(q.key) /\ draft.active # q.key

RequestOK(q) == AboutOK(q) /\ ReadOK(q) /\ StepOK(q)

\* One request holds the claim of a key; without overlap, one is about an edit.
Apart(p, q) ==
  p.key # None /\ q.key # None =>
    /\ p.at \in Holding /\ q.at \in Holding => p.key # q.key
    /\ ~Overlap => Origin(p.key) # Origin(q.key)

Alone == \A r, s \in Requests : r # s => Apart(req[r], req[s])

\* The mailbox holds a text that was asked for only if a PATCH put it there.
Authentic ==
  \A k \in Keys : provider.content = Text[k]
                    => \E j \in Keys : Origin(j) = Origin(k) /\ flight[j] = "applied"

OneLive == \A j, k \in Keys : Origin(j) = Origin(k) /\ Live(j) /\ Live(k) => j = k

Rows == \A k \in Keys : RowOK(k) /\ LinkOK(k)
RequestsOK == \A r \in Requests : RequestOK(req[r])

Inv == StateTyped /\ Rows /\ RequestsOK /\ Alone /\ Authentic /\ OneLive

-----------------------------------------------------------------------------
\* Consequences.

LEMMA InvGivesTypeOK == Inv => TypeOK
BY DEF Inv, StateTyped, TypeOK, Rows, RowOK

LEMMA InvGivesClaims == Inv => UnprovenClaimStays
BY DEF Inv, StateTyped, Rows, RowOK, UnprovenClaimStays, Live

LEMMA InvGivesVerdicts == Inv => VerdictsAreTrue
BY DEF Inv, StateTyped, Rows, RowOK, VerdictsAreTrue, Live

LEMMA InvGivesOneApply == Inv => OneApplyPerEdit
BY DEF Inv, Rows, RowOK, OneLive, OneApplyPerEdit, Live

LEMMA InitInv == Init => Inv
<1> SUFFICES ASSUME Init PROVE Inv
  OBVIOUS
<1>1. Idle \in Request /\ NoReceipt \in Receipt
  BY DraftAssumption DEF Idle, Unread, Request, Snapshot, Version, NoReceipt, Receipt
<1>2. StateTyped
  <2>1. draft \in Snapshot
    BY DEF Init, Snapshot, Version
  <2>2. provider \in [version : Nat, content : Contents]
    BY DEF Init, Contents
  <2> QED BY <1>1, <2>1, <2>2 DEF Init, StateTyped
<1>3. Rows
  <2> SUFFICES ASSUME NEW k \in Keys PROVE RowOK(k) /\ LinkOK(k)
    BY DEF Rows
  <2>1. receipt[k].status = "none" /\ ~receipt[k].result /\ ~receipt[k].changed
    BY DEF Init, NoReceipt
  <2>2. flight[k] = "unsent" /\ sends[k] = 0 /\ draft.active # k
    BY DraftAssumption DEF Init
  <2> QED BY <2>1, <2>2 DEF RowOK, LinkOK, Claimed, Live
<1>4. RequestsOK
  BY DEF Init, RequestsOK, RequestOK, AboutOK, ReadOK, StepOK, Idle, Holding, Writing
<1>5. Alone
  BY DEF Init, Alone, Apart, Idle
<1>6. Authentic
  BY DraftAssumption DEF Init, Authentic
<1>7. OneLive
  BY DEF Init, OneLive, Live
<1> QED BY <1>2, <1>3, <1>4, <1>5, <1>6, <1>7 DEF Inv

-----------------------------------------------------------------------------
\* A step of one request, and what it leaves of the others.

\* Nothing that a request knows can be undone.
Monotone ==
  /\ draft.revision <= draft'.revision
  /\ \A k \in Keys : /\ receipt[k].status # "none" => /\ receipt'[k].status # "none"
                                                      /\ receipt'[k].base = receipt[k].base
                     /\ Claimed(k) => Claimed(k)'
                     /\ flight[k] = "applied" => flight'[k] = "applied"
                     /\ Dead(k) => Dead(k)'

\* What others know from their steps is left alone.
Spared(q) ==
  /\ q.at \in Writing => /\ flight'[q.key] = flight[q.key]
                         /\ Serial(q.key) => draft'.active = q.key
  /\ q.at \in {"release", "mark"} => /\ Live(q.key)' => Live(q.key)
                                     /\ draft'.active = q.key => draft.active = q.key
  /\ q.at = "stale" /\ ~Overlap => receipt'[q.key].status = "reserved"

LEMMA AboutReadKept ==
  ASSUME Inv, StateTyped', Monotone, NEW q \in Request, AboutOK(q), ReadOK(q)
  PROVE  AboutOK(q)' /\ ReadOK(q)'
<1>0. CASE q.key = None
  <2>1. q.at \in {"idle", "adopt"} /\ ~q.changed
    BY <1>0 DEF AboutOK
  <2> QED BY <1>0, <2>1 DEF AboutOK, ReadOK
<1>1. CASE q.key # None
  <2>1. q.key \in Keys
    BY <1>1 DEF Request
  <2>2. Recovers[q.key] # None => Recovers[q.key] \in Keys /\ receipt[Recovers[q.key]].status # "none"
    BY <1>1, <2>1, DraftAssumption DEF AboutOK, Dead, Claimed
  <2>3. AboutOK(q)'
    BY <1>1, <2>1, <2>2 DEF AboutOK, Monotone
  <2>4. draft.revision \in Nat /\ draft'.revision \in Nat /\ q.snap.revision \in Nat
    BY DEF Inv, StateTyped, Snapshot, Request
  <2>5. ReadOK(q)'
    BY <1>1, <2>4 DEF ReadOK, Monotone
  <2> QED BY <2>3, <2>5
<1> QED BY <1>0, <1>1

LEMMA RequestKept ==
  ASSUME Inv, StateTyped', Monotone, NEW q \in Request, RequestOK(q), Spared(q)
  PROVE  RequestOK(q)'
<1>1. AboutOK(q)' /\ ReadOK(q)'
  BY AboutReadKept DEF RequestOK
<1>2. CASE q.key = None
  <2>1. q.at \in {"idle", "adopt"}
    BY <1>2 DEF RequestOK, AboutOK
  <2> QED BY <1>1, <2>1 DEF RequestOK, StepOK, Holding, Writing
<1>3. CASE q.key # None
  <2>1. q.key \in Keys
    BY <1>3 DEF Request
  <2>2. CASE q.at \in Writing
    BY <1>1, <2>1, <2>2 DEF RequestOK, StepOK, Monotone, Spared, Writing, Holding
  <2>3. CASE q.at \in {"release", "mark"}
    BY <1>1, <2>1, <2>3 DEF RequestOK, StepOK, Monotone, Spared, Writing, Holding
  <2>4. CASE q.at = "stale"
    BY <1>1, <2>1, <2>4 DEF RequestOK, StepOK, Monotone, Spared, Writing, Holding
  <2>5. CASE q.at \notin Writing \cup {"release", "mark", "stale"}
    BY <1>1, <2>1, <2>5 DEF RequestOK, StepOK, Monotone, Writing, Holding
  <2> QED BY <2>2, <2>3, <2>4, <2>5
<1> QED BY <1>2, <1>3

LEMMA RequestsKept ==
  ASSUME Inv, StateTyped', Monotone, NEW r \in Requests, NEW n \in Request,
         req' = [req EXCEPT ![r] = n], RequestOK(n)',
         \A s \in Requests : s # r => Spared(req[s])
  PROVE  RequestsOK'
<1> SUFFICES ASSUME NEW s \in Requests PROVE RequestOK(req[s])'
  BY DEF RequestsOK
<1>1. CASE s = r
  BY <1>1 DEF Inv, StateTyped
<1>2. CASE s # r
  <2>1. req'[s] = req[s] /\ req[s] \in Request
    BY <1>2 DEF Inv, StateTyped
  <2>2. RequestOK(req[s]) /\ Spared(req[s])
    BY <1>2 DEF Inv, RequestsOK
  <2>3. RequestOK(req[s])'
    BY <2>1, <2>2, RequestKept
  <2> QED BY <2>1, <2>3
<1> QED BY <1>1, <1>2

\* A request that keeps its key, or gives it up, stays apart from the others.
Follows(n, q) ==
  n.key # None => n.key = q.key /\ (n.at \in Holding => q.at \in Holding)

LEMMA AloneKept ==
  ASSUME Inv, NEW r \in Requests, NEW n \in Request, req' = [req EXCEPT ![r] = n],
         Follows(n, req[r])
  PROVE  Alone'
BY DEF Inv, StateTyped, Alone, Apart, Follows

-----------------------------------------------------------------------------
\* Steps that only move the request itself.

Quiet == UNCHANGED <<draft, receipt, provider, flight, sends>>

\* The request does not come to write for a key whose PATCH was given up.
Tame(n, q) == n.at \in Writing => (q.at \in Writing /\ n.key = q.key) \/ ~Dead(n.key)

LEMMA KeylessOK ==
  ASSUME NEW n, n.key = None, n.at \in {"idle", "adopt"}, ~n.changed
  PROVE  RequestOK(n) /\ RequestOK(n)'
BY DEF RequestOK, AboutOK, ReadOK, StepOK, Holding, Writing

LEMMA IdleOK ==
  /\ Idle \in Request /\ Idle.at = "idle" /\ Idle.key = None /\ ~Idle.changed
  /\ RequestOK(Idle) /\ RequestOK(Idle)'
<1>1. Idle \in Request
  BY DraftAssumption DEF Idle, Unread, Request, Snapshot, Version
<1>2. Idle.at = "idle" /\ Idle.key = None /\ ~Idle.changed
  BY DEF Idle
<1> QED BY <1>1, <1>2, KeylessOK

LEMMA DeadKept ==
  ASSUME Inv, NEW r \in Requests, NEW n \in Request, req' = [req EXCEPT ![r] = n],
         Tame(n, req[r]), NEW k \in Keys, Dead(k), flight'[k] = flight[k], Claimed(k)'
  PROVE  Dead(k)'
<1> SUFFICES ASSUME NEW s \in Requests, req'[s].key = k PROVE req'[s].at \notin Writing
  BY DEF Dead
<1>1. CASE s = r
  BY <1>1 DEF Inv, StateTyped, Dead, Tame
<1>2. CASE s # r
  BY <1>2 DEF Inv, StateTyped, Dead
<1> QED BY <1>1, <1>2

LEMMA QuietMonotone ==
  ASSUME Inv, NEW r \in Requests, NEW n \in Request, req' = [req EXCEPT ![r] = n],
         Tame(n, req[r]), Quiet
  PROVE  Monotone
<1>1. \A k \in Keys : (Claimed(k) => Claimed(k)') /\ flight'[k] = flight[k]
  BY DEF Quiet, Claimed
<1>2. \A k \in Keys : Dead(k) => Dead(k)'
  BY <1>1, DeadKept DEF Dead
<1>3. draft.revision <= draft'.revision
  BY DEF Quiet, Inv, StateTyped, Snapshot
<1> QED BY <1>1, <1>2, <1>3 DEF Monotone, Quiet

LEMMA QuietSpares ==
  ASSUME Quiet, NEW q, RequestOK(q)
  PROVE  Spared(q)
BY DEF Quiet, Spared, RequestOK, StepOK, Live

LEMMA QuietStep ==
  ASSUME Inv, NEW r \in Requests, NEW n \in Request, req' = [req EXCEPT ![r] = n],
         Tame(n, req[r]), Quiet, Alone', RequestOK(n)',
         calls' \in Nat /\ edits' \in Nat /\ faults' \in Nat
  PROVE  Inv'
<1>1. Monotone
  BY QuietMonotone
<1>2. StateTyped'
  BY DEF Inv, StateTyped, Quiet
<1>3. Rows'
  <2> SUFFICES ASSUME NEW k \in Keys PROVE RowOK(k)' /\ LinkOK(k)'
    BY DEF Rows
  <2>1. RowOK(k) /\ LinkOK(k)
    BY DEF Inv, Rows
  <2>2. RowOK(k)'
    BY <2>1 DEF RowOK, Quiet, Claimed, Live
  <2>3. Recovers[k] # None => Recovers[k] \in Keys
    BY DraftAssumption
  <2>4. LinkOK(k)'
    BY <1>1, <2>1, <2>3 DEF LinkOK, Monotone, Quiet
  <2> QED BY <2>2, <2>4
<1>4. RequestsOK'
  BY <1>1, <1>2, RequestsKept, QuietSpares DEF Inv, RequestsOK
<1>5. Authentic' /\ OneLive'
  BY DEF Inv, Authentic, OneLive, Quiet, Live
<1> QED BY <1>2, <1>3, <1>4, <1>5 DEF Inv

\* What carries over when a request moves on without a change of what it is about.
LEMMA QuietMoveAnd ==
  ASSUME Inv, NEW r \in Requests, NEW n \in Request, req' = [req EXCEPT ![r] = n],
         Tame(n, req[r]), Quiet, Follows(n, req[r]), RequestOK(n),
         calls' \in Nat /\ edits' \in Nat /\ faults' \in Nat
  PROVE  Inv'
<1>1. Monotone
  BY QuietMonotone
<1>2. StateTyped'
  BY DEF Inv, StateTyped, Quiet
<1>3. RequestOK(n)'
  BY <1>1, <1>2, RequestKept, QuietSpares
<1>4. Alone'
  BY AloneKept
<1> QED BY <1>3, <1>4, QuietStep

LEMMA QuietMove ==
  ASSUME Inv, NEW r \in Requests, NEW n \in Request, req' = [req EXCEPT ![r] = n],
         Tame(n, req[r]), Quiet, Follows(n, req[r]), RequestOK(n),
         UNCHANGED counts
  PROVE  Inv'
<1>1. calls' \in Nat /\ edits' \in Nat /\ faults' \in Nat
  BY DEF Inv, StateTyped, counts
<1> QED BY <1>1, QuietMoveAnd

LEMMA MovedOK ==
  ASSUME Inv, NEW r \in Requests, NEW n \in Request,
         req[r].key # None, req[r].at # "draft",
         n.key = req[r].key, n.own \in Keys, Origin(n.own) = Origin(n.key),
         n.asked = req[r].asked, n.snap = req[r].snap,
         n.changed => req[r].changed,
         n.at \notin {"idle", "adopt"},
         n.at = "settle" => \E j \in Keys : Origin(j) = Origin(n.own) /\ flight[j] = "applied",
         n.at = "insert" => n.asked \in {None, n.snap.revision}
  PROVE  AboutOK(n) /\ ReadOK(n)
<1>1. req[r] \in Request /\ RequestOK(req[r])
  BY DEF Inv, StateTyped, RequestsOK
<1>2. AboutOK(n)
  BY <1>1 DEF RequestOK, AboutOK
<1>3. ReadOK(n)
  <2>1. Recovers[n.key] # None => n.asked # None
    <3>1. Recovers[n.key] # None => Recovers[n.key] \in Keys
      BY DraftAssumption DEF Request
    <3>2. \A k \in Keys : receipt[k] \in Receipt /\ receipt[k].base \in Nat
      BY DEF Inv, StateTyped, Receipt
    <3> QED BY <1>1, <3>1, <3>2, DraftAssumption DEF RequestOK, AboutOK
  <2> QED BY <1>1, <2>1 DEF RequestOK, ReadOK
<1> QED BY <1>2, <1>3

-----------------------------------------------------------------------------
\* The actions that only move a request.

LEMMA Here ==
  ASSUME Inv, NEW r \in Requests
  PROVE  /\ req[r] \in Request /\ RequestOK(req[r])
         /\ req[r].at \notin {"idle", "adopt"}
              => /\ req[r].key # None /\ req[r].key \in Keys
                 /\ req[r].own \in Keys /\ Origin(req[r].own) = Origin(req[r].key)
<1>1. req[r] \in Request /\ RequestOK(req[r])
  BY DEF Inv, StateTyped, RequestsOK
<1>2. req[r].key \in Keys \cup {None}
  BY <1>1 DEF Request
<1> QED BY <1>1, <1>2 DEF RequestOK, AboutOK

\* A move to another place, by Goes or with a flag set.
LEMMA MoveTyped ==
  ASSUME NEW q \in Request, NEW at \in {"draft", "receipt", "linked", "stale", "insert",
           "claim", "lost", "review", "get", "patch", "wait", "finalize", "release", "mark",
           "reconcile", "settle", "adopt"}
  PROVE  /\ [q EXCEPT !.at = at] \in Request
         /\ \A snap \in Snapshot : [q EXCEPT !.at = at, !.snap = snap] \in Request
         /\ \A version \in Version : [q EXCEPT !.at = at, !.version = version] \in Request
         /\ \A changed \in BOOLEAN : [q EXCEPT !.at = at, !.changed = changed] \in Request
         /\ \A verdict \in {"failed", "uncertain"} :
              [q EXCEPT !.at = at, !.verdict = verdict] \in Request
         /\ \A own \in Keys : [q EXCEPT !.at = at, !.own = own, !.strict = TRUE] \in Request
<1>1. [q EXCEPT !.at = at] \in Request
  BY DEF Request
<1>2. ASSUME NEW snap \in Snapshot PROVE [q EXCEPT !.at = at, !.snap = snap] \in Request
  BY DEF Request
<1>3. ASSUME NEW version \in Version PROVE [q EXCEPT !.at = at, !.version = version] \in Request
  BY DEF Request
<1>4. ASSUME NEW changed \in BOOLEAN PROVE [q EXCEPT !.at = at, !.changed = changed] \in Request
  BY DEF Request
<1>5. ASSUME NEW verdict \in {"failed", "uncertain"}
      PROVE  [q EXCEPT !.at = at, !.verdict = verdict] \in Request
  BY DEF Request
<1>6. ASSUME NEW own \in Keys PROVE [q EXCEPT !.at = at, !.own = own, !.strict = TRUE] \in Request
  BY DEF Request
<1> QED BY <1>1, <1>2, <1>3, <1>4, <1>5, <1>6

LEMMA IdleStep ==
  ASSUME Inv, NEW r \in Requests, req' = [req EXCEPT ![r] = Idle], Quiet, UNCHANGED counts
  PROVE  Inv'
<1>1. Tame(Idle, req[r]) /\ Follows(Idle, req[r])
  BY IdleOK DEF Tame, Follows, Writing
<1> QED BY <1>1, IdleOK, QuietMove

LEMMA ReadDraftKeeps ==
  ASSUME Inv, NEW r \in Requests, ReadDraft(r) PROVE Inv'
<1>1. PICK n \in Request : n = [req[r] EXCEPT !.at = "receipt", !.snap = draft]
  BY MoveTyped, Here DEF Inv, StateTyped
<1>2. /\ req' = [req EXCEPT ![r] = n] /\ Quiet /\ UNCHANGED counts
      /\ n.at = "receipt" /\ n.key = req[r].key /\ n.own = req[r].own
      /\ n.asked = req[r].asked /\ n.snap = draft /\ n.changed = req[r].changed
  BY <1>1, Here DEF ReadDraft, Quiet, mailbox, Request
<1>3. Tame(n, req[r]) /\ Follows(n, req[r])
  BY <1>2 DEF Tame, Follows, Writing, Holding
<1>4. req[r].at = "draft"
  BY DEF ReadDraft
<1>5. AboutOK(n)
  BY <1>2, <1>4, Here DEF RequestOK, AboutOK
<1>6. ReadOK(n)
  <2>1. draft.revision \in Nat
    BY DEF Inv, StateTyped, Snapshot
  <2>2. Recovers[n.key] # None /\ n.key # None => n.asked <= draft.revision
    <3> SUFFICES ASSUME Recovers[n.key] # None, n.key # None PROVE n.asked <= draft.revision
      OBVIOUS
    <3>1. Recovers[n.key] \in Keys
      BY DraftAssumption DEF Request
    <3>2. receipt[Recovers[n.key]].status # "none" /\ n.asked = receipt[Recovers[n.key]].base
      BY <1>5 DEF AboutOK, Dead, Claimed
    <3> QED BY <3>1, <3>2 DEF Inv, Rows, RowOK
  <2> QED BY <1>2, <2>1, <2>2 DEF ReadOK
<1>7. StepOK(n)
  BY <1>2 DEF StepOK, Holding, Writing
<1> QED BY <1>2, <1>3, <1>5, <1>6, <1>7, QuietMove DEF RequestOK

LEMMA FoundIs ==
  ASSUME Inv, NEW r \in Requests, req[r].at = "receipt"
  PROVE  /\ Found(r) \in {"idle", "insert", "stale", "claim", "reconcile", "linked"}
         /\ Found(r) = "insert" => Current(r)
         /\ Found(r) \in {"stale", "claim"} => Row(r).status = "reserved"
         /\ Found(r) = "stale" => Row(r).base # req[r].snap.revision
<1>1. Row(r).status \in {"none", "reserved", "applying", "updated", "failed", "uncertain"}
  BY Here DEF Row, Inv, StateTyped, Receipt
<1>2. CASE Row(r).status = "none"
  BY <1>2 DEF Found
<1>3. CASE Row(r).status # "none" /\ ~SameRequest(r)
  BY <1>3 DEF Found
<1>4. CASE Row(r).status = "reserved" /\ SameRequest(r)
  <2>1. Found(r) = Fresh(r)
    BY <1>4 DEF Found
  <2> QED BY <1>4, <2>1 DEF Fresh
<1>5. CASE Row(r).status \in {"applying", "uncertain"} /\ SameRequest(r)
  <2>1. Found(r) = "reconcile"
    BY <1>5 DEF Found
  <2> QED BY <2>1
<1>6. CASE Row(r).status = "updated" /\ SameRequest(r)
  <2>1. Found(r) = "idle"
    BY <1>6 DEF Found
  <2> QED BY <2>1
<1>7. CASE Row(r).status = "failed" /\ SameRequest(r)
  <2>1. Found(r) \in {"linked", "idle"}
    BY <1>7 DEF Found
  <2> QED BY <2>1
<1> QED BY <1>1, <1>2, <1>3, <1>4, <1>5, <1>6, <1>7

LEMMA ReadReceiptKeeps ==
  ASSUME Inv, NEW r \in Requests, ReadReceipt(r) PROVE Inv'
<1>0. req[r].at = "receipt" /\ Goes(r, Found(r)) /\ Quiet /\ UNCHANGED counts
  BY DEF ReadReceipt, Quiet, mailbox
<1>1. CASE Found(r) = "idle"
  BY <1>0, <1>1, IdleStep DEF Goes
<1>2. CASE Found(r) # "idle"
  <2>1. PICK n \in Request : n = [req[r] EXCEPT !.at = Found(r)]
    BY <1>0, <1>2, MoveTyped, Here, FoundIs
  <2>2. /\ req' = [req EXCEPT ![r] = n]
        /\ n.at = Found(r) /\ n.key = req[r].key /\ n.own = req[r].own
        /\ n.asked = req[r].asked /\ n.snap = req[r].snap /\ n.changed = req[r].changed
    BY <1>0, <1>2, <2>1, Here DEF Goes, Request
  <2>3. n.at \in {"insert", "stale", "claim", "reconcile", "linked"}
    BY <1>0, <1>2, <2>2, FoundIs
  <2>4. Tame(n, req[r]) /\ Follows(n, req[r])
    BY <2>2, <2>3 DEF Tame, Follows, Writing, Holding
  <2>5. n.at = "insert" => n.asked \in {None, n.snap.revision}
    BY <1>0, <2>2, FoundIs DEF Current
  <2>6. AboutOK(n) /\ ReadOK(n)
    BY <1>0, <2>2, <2>3, <2>5, Here, MovedOK
  <2>7. StepOK(n)
    BY <1>0, <2>2, <2>3, FoundIs DEF StepOK, Holding, Writing, Row
  <2> QED BY <1>0, <2>2, <2>4, <2>6, <2>7, QuietMove DEF RequestOK
<1> QED BY <1>1, <1>2

\* A request that has the claim, or had it, gives up.
LEMMA DoubtfulOK ==
  ASSUME Inv, NEW r \in Requests, req[r].at \in Holding, Doubtful(r)
  PROVE  \E n \in Request : /\ req' = [req EXCEPT ![r] = n] /\ RequestOK(n)
                            /\ Tame(n, req[r]) /\ Follows(n, req[r])
                            /\ n.at = "mark" /\ n.verdict = "uncertain"
<1>1. PICK n \in Request : n = [req[r] EXCEPT !.at = "mark", !.verdict = "uncertain"]
  BY MoveTyped, Here
<1>2. /\ req' = [req EXCEPT ![r] = n]
      /\ n.at = "mark" /\ n.key = req[r].key /\ n.own = req[r].own /\ n.verdict = "uncertain"
      /\ n.asked = req[r].asked /\ n.snap = req[r].snap /\ n.changed = req[r].changed
  BY <1>1, Here DEF Doubtful, Request
<1>3. Tame(n, req[r]) /\ Follows(n, req[r])
  BY <1>2 DEF Tame, Follows, Writing, Holding
<1>4. AboutOK(n) /\ ReadOK(n)
  BY <1>2, Here, MovedOK DEF Holding, Writing
<1>5. StepOK(n)
  BY <1>2, Here DEF RequestOK, StepOK, Holding, Writing
<1> QED BY <1>2, <1>3, <1>4, <1>5 DEF RequestOK

LEMMA DoubtfulKeeps ==
  ASSUME Inv, NEW r \in Requests, req[r].at \in Holding, Doubtful(r), Quiet, UNCHANGED counts
  PROVE  Inv'
BY DoubtfulOK, QuietMove

LEMMA RejectedKeeps ==
  ASSUME Inv, NEW r \in Requests, NEW changed \in BOOLEAN, req[r].at \in Holding,
         ~Live(req[r].key), changed => req[r].at \in Writing,
         Rejected(r, changed), Quiet, UNCHANGED counts
  PROVE  Inv'
<1>1. PICK m \in Request : m = [req[r] EXCEPT !.at = "release", !.changed = FALSE]
  BY MoveTyped, Here
<1>2. PICK n \in Request : n = [req[r] EXCEPT !.at = "release", !.changed = changed]
  BY MoveTyped, Here
<1>3. /\ m.at = "release" /\ m.key = req[r].key /\ m.own = req[r].own /\ ~m.changed
      /\ m.asked = req[r].asked /\ m.snap = req[r].snap
  BY <1>1, Here DEF Request
<1>4. /\ req' = [req EXCEPT ![r] = n]
      /\ n.at = "release" /\ n.key = req[r].key /\ n.own = req[r].own /\ n.changed = changed
      /\ n.asked = req[r].asked /\ n.snap = req[r].snap
  BY <1>2, Here DEF Rejected, Request
<1>5. Tame(n, req[r]) /\ Follows(n, req[r])
  BY <1>4 DEF Tame, Follows, Writing, Holding
<1>6. AboutOK(m) /\ ReadOK(m)
  BY <1>3, Here, MovedOK DEF Holding, Writing
<1>7. StepOK(m)
  BY <1>3, Here DEF RequestOK, StepOK, Holding, Writing
<1>8. Monotone /\ StateTyped'
  BY <1>4, <1>5, QuietMonotone DEF Inv, StateTyped, Quiet, counts
<1>9. RequestOK(m)'
  BY <1>6, <1>7, <1>8, RequestKept, QuietSpares DEF RequestOK
<1>10. n.changed => Dead(n.key)'
  <2> SUFFICES ASSUME n.changed PROVE Dead(n.key)'
    OBVIOUS
  <2>1. req[r].at \in Writing /\ req[r].at \in Holding /\ n.key \in Keys /\ n.key # None
    BY <1>4, Here, DraftAssumption DEF Writing
  <2>2. flight[n.key] = "unsent" /\ Claimed(n.key)
    BY <1>4, <2>1, Here DEF RequestOK, StepOK
  <2>3. ASSUME NEW s \in Requests, req'[s].key = n.key PROVE req'[s].at \notin Writing
    <3>1. CASE s = r
      BY <1>4, <3>1 DEF Inv, StateTyped, Writing
    <3>2. CASE s # r
      BY <1>4, <2>1, <2>3, <3>2 DEF Inv, StateTyped, Alone, Apart, Holding
    <3> QED BY <3>1, <3>2
  <2> QED BY <2>2, <2>3 DEF Dead, Claimed, Quiet
<1>11. RequestOK(n)'
  BY <1>3, <1>4, <1>9, <1>10, Here DEF RequestOK, AboutOK, ReadOK, StepOK, Holding, Writing
<1>12. Alone'
  BY <1>4, <1>5, AloneKept
<1>13. calls' \in Nat /\ edits' \in Nat /\ faults' \in Nat
  BY <1>8 DEF StateTyped
<1> QED BY <1>4, <1>5, <1>11, <1>12, <1>13, QuietStep

LEMMA WritingUnsent ==
  ASSUME Inv, NEW r \in Requests, req[r].at \in Writing
  PROVE  /\ req[r].key \in Keys /\ req[r].at \in Holding /\ Claimed(req[r].key)
         /\ flight[req[r].key] = "unsent" /\ ~Live(req[r].key)
         /\ Serial(req[r].key) => draft.active = req[r].key
BY Here DEF RequestOK, StepOK, Holding, Writing, Live

\* A move with the claim, from one call to the next.
LEMMA WritingMoves ==
  ASSUME Inv, NEW r \in Requests, req[r].at \in Writing, NEW n \in Request,
         req' = [req EXCEPT ![r] = n], n.at \in Writing,
         n.key = req[r].key, n.own = req[r].own, n.asked = req[r].asked,
         n.snap = req[r].snap, n.changed = req[r].changed, Quiet, UNCHANGED counts
  PROVE  Inv'
<1>1. Tame(n, req[r]) /\ Follows(n, req[r])
  BY DEF Tame, Follows, Holding
<1>2. AboutOK(n) /\ ReadOK(n)
  BY Here, MovedOK DEF Writing
<1>3. StepOK(n)
  BY WritingUnsent DEF StepOK, Writing, Holding
<1> QED BY <1>1, <1>2, <1>3, QuietMove DEF RequestOK

LEMMA ReviewKeeps ==
  ASSUME Inv, NEW r \in Requests, Review(r) PROVE Inv'
<1>1. req[r].at \in Writing /\ Quiet /\ UNCHANGED counts
  BY DEF Review, Writing, Quiet, mailbox
<1>2. CASE \E changed \in BOOLEAN : Rejected(r, changed)
  BY <1>1, <1>2, WritingUnsent, RejectedKeeps
<1>3. CASE req' = [req EXCEPT ![r] = [@ EXCEPT !.at = "get", !.version = provider.version]]
  <2>1. provider.version \in Version
    BY DEF Inv, StateTyped, Version
  <2>2. PICK n \in Request : n = [req[r] EXCEPT !.at = "get", !.version = provider.version]
    BY <2>1, MoveTyped, Here
  <2>3. /\ req' = [req EXCEPT ![r] = n]
        /\ n.at = "get" /\ n.key = req[r].key /\ n.own = req[r].own
        /\ n.asked = req[r].asked /\ n.snap = req[r].snap /\ n.changed = req[r].changed
    BY <1>3, <2>2, Here DEF Request
  <2> QED BY <1>1, <2>3, WritingMoves DEF Writing
<1> QED BY <1>2, <1>3 DEF Review

LEMMA GetKeeps ==
  ASSUME Inv, NEW r \in Requests, Get(r) PROVE Inv'
<1>1. req[r].at \in Writing /\ Quiet /\ UNCHANGED counts
  BY DEF Get, Writing, Quiet, mailbox
<1>2. CASE \E changed \in BOOLEAN : Rejected(r, changed)
  BY <1>1, <1>2, WritingUnsent, RejectedKeeps
<1>3. CASE Goes(r, "patch")
  <2>1. PICK n \in Request : n = [req[r] EXCEPT !.at = "patch"]
    BY MoveTyped, Here
  <2>2. /\ req' = [req EXCEPT ![r] = n]
        /\ n.at = "patch" /\ n.key = req[r].key /\ n.own = req[r].own
        /\ n.asked = req[r].asked /\ n.snap = req[r].snap /\ n.changed = req[r].changed
    BY <1>3, <2>1, Here DEF Goes, Request
  <2> QED BY <1>1, <2>2, WritingMoves DEF Writing
<1> QED BY <1>2, <1>3 DEF Get

LEMMA ReadFailsKeeps ==
  ASSUME Inv, NEW r \in Requests, ReadFails(r) PROVE Inv'
<1>1. req[r].at \in Writing /\ Quiet /\ UNCHANGED counts
  BY DEF ReadFails, Writing, Quiet, mailbox
<1>2. CASE Rejected(r, FALSE)
  BY <1>1, <1>2, WritingUnsent, RejectedKeeps
<1>3. CASE Doubtful(r)
  BY <1>1, <1>3, WritingUnsent, DoubtfulKeeps
<1> QED BY <1>2, <1>3 DEF ReadFails

LEMMA AnswerKeeps ==
  ASSUME Inv, NEW r \in Requests, Answer(r) PROVE Inv'
<1>1. req[r].at = "wait" /\ req[r].at \in Holding /\ Quiet /\ UNCHANGED counts
  BY DEF Answer, Holding, Quiet, mailbox
<1>2. CASE /\ flight[req[r].key] = "applied"
           /\ req' = [req EXCEPT ![r] = [@ EXCEPT !.at = "finalize", !.version = provider.version]]
  <2>1. provider.version \in Version
    BY DEF Inv, StateTyped, Version
  <2>2. PICK n \in Request : n = [req[r] EXCEPT !.at = "finalize", !.version = provider.version]
    BY <2>1, MoveTyped, Here
  <2>3. /\ req' = [req EXCEPT ![r] = n]
        /\ n.at = "finalize" /\ n.key = req[r].key /\ n.own = req[r].own
        /\ n.asked = req[r].asked /\ n.snap = req[r].snap /\ n.changed = req[r].changed
    BY <1>2, <2>2, Here DEF Request
  <2>4. Tame(n, req[r]) /\ Follows(n, req[r])
    BY <1>1, <2>3 DEF Tame, Follows, Writing
  <2>5. AboutOK(n) /\ ReadOK(n)
    BY <1>1, <2>3, Here, MovedOK
  <2>6. StepOK(n)
    BY <1>1, <1>2, <2>3, Here DEF RequestOK, StepOK, Writing, Holding
  <2> QED BY <1>1, <2>3, <2>4, <2>5, <2>6, QuietMove DEF RequestOK
<1>3. CASE flight[req[r].key] = "refused" /\ Rejected(r, FALSE)
  BY <1>1, <1>3, RejectedKeeps DEF Live
<1>4. CASE Unsettled(r)
  BY <1>1, <1>4, DoubtfulKeeps DEF Unsettled
<1> QED BY <1>2, <1>3, <1>4 DEF Answer

LEMMA LinkedKeeps ==
  ASSUME Inv, NEW r \in Requests, Linked(r) PROVE Inv'
<1>1. req[r].at = "linked" /\ Quiet /\ UNCHANGED counts
  BY DEF Linked, Quiet, mailbox
<1>2. ASSUME NEW k \in Keys, Resumable(r, k),
             req' = [req EXCEPT ![r] = [@ EXCEPT !.at = "reconcile", !.own = k, !.strict = TRUE]]
      PROVE  Inv'
  <2>1. PICK n \in Request :
          n = [req[r] EXCEPT !.at = "reconcile", !.own = k, !.strict = TRUE]
    BY MoveTyped, Here
  <2>2. /\ req' = [req EXCEPT ![r] = n]
        /\ n.at = "reconcile" /\ n.key = req[r].key /\ n.own = k
        /\ n.asked = req[r].asked /\ n.snap = req[r].snap /\ n.changed = req[r].changed
    BY <1>2, <2>1, Here DEF Request
  <2>3. Origin(k) = Origin(n.key)
    <3>1. Recovers[k] = req[r].key /\ req[r].key \in Keys
      BY <1>1, <1>2, Here DEF Resumable, Successors
    <3> QED BY <2>2, <3>1, DraftAssumption DEF Origin
  <2>4. Tame(n, req[r]) /\ Follows(n, req[r])
    BY <2>2 DEF Tame, Follows, Writing, Holding
  <2>5. AboutOK(n) /\ ReadOK(n)
    BY <1>1, <2>2, <2>3, Here, MovedOK
  <2>6. StepOK(n)
    BY <2>2 DEF StepOK, Writing, Holding
  <2> QED BY <1>1, <2>2, <2>4, <2>5, <2>6, QuietMove DEF RequestOK
<1>3. CASE Goes(r, "idle")
  BY <1>1, <1>3, IdleStep DEF Goes
<1> QED BY <1>2, <1>3 DEF Linked

LEMMA ReconcileKeeps ==
  ASSUME Inv, NEW r \in Requests, Reconcile(r) PROVE Inv'
<1>1. req[r].at = "reconcile" /\ Quiet /\ UNCHANGED counts
  BY DEF Reconcile, Quiet, mailbox
<1>2. CASE /\ Proven(r)
           /\ req' = [req EXCEPT ![r] = [@ EXCEPT !.at = "settle", !.version = provider.version]]
  <2>1. provider.version \in Version
    BY DEF Inv, StateTyped, Version
  <2>2. PICK n \in Request : n = [req[r] EXCEPT !.at = "settle", !.version = provider.version]
    BY <2>1, MoveTyped, Here
  <2>3. /\ req' = [req EXCEPT ![r] = n]
        /\ n.at = "settle" /\ n.key = req[r].key /\ n.own = req[r].own
        /\ n.asked = req[r].asked /\ n.snap = req[r].snap /\ n.changed = req[r].changed
    BY <1>2, <2>2, Here DEF Request
  <2>4. Tame(n, req[r]) /\ Follows(n, req[r])
    BY <2>3 DEF Tame, Follows, Writing, Holding
  <2>5. \E j \in Keys : Origin(j) = Origin(n.own) /\ flight[j] = "applied"
    BY <1>1, <1>2, <2>3, Here DEF Proven, Inv, Authentic
  <2>6. AboutOK(n) /\ ReadOK(n)
    BY <1>1, <2>3, <2>5, Here, MovedOK
  <2>7. StepOK(n)
    BY <2>3 DEF StepOK, Writing, Holding
  <2> QED BY <1>1, <2>3, <2>4, <2>6, <2>7, QuietMove DEF RequestOK
<1>3. CASE Goes(r, "idle")
  BY <1>1, <1>3, IdleStep DEF Goes
<1> QED BY <1>2, <1>3 DEF Reconcile

LEMMA DiesKeeps ==
  ASSUME Inv, NEW r \in Requests, Dies(r) PROVE Inv'
BY IdleStep DEF Dies, Goes, Quiet, mailbox

LEMMA AdoptReadsKeeps ==
  ASSUME Inv, NEW r \in Requests, AdoptReads(r) PROVE Inv'
<1>1. req[r].at = "idle" /\ Quiet /\ calls' = calls + 1 /\ UNCHANGED <<edits, faults>>
  BY DEF AdoptReads, Quiet, mailbox
<1>2. req[r].key = None /\ ~req[r].changed
  BY <1>1, Here DEF RequestOK, AboutOK
<1>3. [req[r] EXCEPT !.at = "adopt", !.snap = draft, !.version = provider.version] \in Request
  <2>1. provider.version \in Version /\ draft \in Snapshot
    BY DEF Inv, StateTyped, Version
  <2> QED BY <2>1, Here DEF Request
<1>4. PICK n \in Request : /\ req' = [req EXCEPT ![r] = n]
                           /\ n.at = "adopt" /\ n.key = None /\ ~n.changed
  BY <1>2, <1>3, Here DEF AdoptReads, Request
<1>5. Tame(n, req[r]) /\ Follows(n, req[r])
  BY <1>4 DEF Tame, Follows, Writing
<1>6. RequestOK(n)'
  BY <1>4, KeylessOK
<1>7. calls' \in Nat /\ edits' \in Nat /\ faults' \in Nat
  BY <1>1 DEF Inv, StateTyped
<1>8. Alone'
  BY <1>4, <1>5, AloneKept
<1> QED BY <1>1, <1>4, <1>5, <1>6, <1>7, <1>8, QuietStep

LEMMA BeginKeeps ==
  ASSUME Inv, NEW r \in Requests, NEW k \in Keys, NEW asked \in Version,
         NEW reviewed \in Contents \cup {None}, Begin(r, k, asked, reviewed),
         Recovers[k] # None => Dead(Recovers[k]) /\ asked = receipt[Recovers[k]].base
  PROVE  Inv'
<1>1. Quiet /\ calls' \in Nat /\ edits' \in Nat /\ faults' \in Nat
  BY DEF Begin, Quiet, mailbox, Inv, StateTyped
<1>2. PICK n \in Request : n = [Idle EXCEPT !.at = "draft", !.key = k, !.own = k,
                                            !.asked = asked, !.reviewed = reviewed]
  BY IdleOK DEF Request
<1>3. /\ req' = [req EXCEPT ![r] = n]
      /\ n.at = "draft" /\ n.key = k /\ n.own = k /\ n.asked = asked /\ ~n.changed
  BY <1>2, IdleOK DEF Begin, Request
<1>4. Tame(n, req[r])
  BY <1>3 DEF Tame, Writing
<1>5. RequestOK(n)
  BY <1>3, DraftAssumption DEF RequestOK, AboutOK, ReadOK, StepOK, Writing, Holding
<1>6. Monotone /\ StateTyped'
  BY <1>1, <1>3, <1>4, QuietMonotone DEF Inv, StateTyped, Quiet
<1>7. RequestOK(n)'
  BY <1>1, <1>5, <1>6, RequestKept, QuietSpares
<1>8. Alone'
  <2> SUFFICES ASSUME NEW p \in Requests, NEW q \in Requests, p # q PROVE Apart(req'[p], req'[q])
    BY DEF Alone
  <2>1. ASSUME NEW s \in Requests, s # r PROVE Apart(n, req[s]) /\ Apart(req[s], n)
    BY <1>3, <2>1 DEF Apart, Holding, Writing, Begin, Contended
  <2>2. \A s \in Requests : req'[s] = IF s = r THEN n ELSE req[s]
    BY <1>3 DEF Inv, StateTyped
  <2> QED BY <2>1, <2>2 DEF Inv, Alone
<1> QED BY <1>1, <1>3, <1>4, <1>7, <1>8, QuietStep

LEMMA BeginUpdateKeeps ==
  ASSUME Inv, NEW r \in Requests, NEW k \in Keys, BeginUpdate(r, k) PROVE Inv'
<1>1. PICK asked \in {None, draft.revision, receipt[k].asked} :
        Recovers[k] = None /\ Begin(r, k, asked, None)
  BY DEF BeginUpdate
<1>2. asked \in Version
  BY DEF Inv, StateTyped, Snapshot, Receipt, Version
<1> QED BY <1>1, <1>2, BeginKeeps

LEMMA BeginRecoveryKeeps ==
  ASSUME Inv, NEW r \in Requests, NEW k \in Keys, BeginRecovery(r, k) PROVE Inv'
<1>1. Recovers[k] \in Keys /\ receipt[Recovers[k]].changed
  BY DraftAssumption DEF BeginRecovery
<1>2. Dead(Recovers[k])
  BY <1>1 DEF Inv, Rows, LinkOK
<1>3. receipt[Recovers[k]].base \in Version
  BY <1>1 DEF Inv, StateTyped, Receipt, Version
<1>4. PICK reviewed \in {provider.content, receipt[k].reviewed} :
        Begin(r, k, receipt[Recovers[k]].base, reviewed)
  BY DEF BeginRecovery
<1>5. reviewed \in Contents \cup {None}
  BY DEF Inv, StateTyped, Receipt
<1> QED BY <1>2, <1>3, <1>4, <1>5, BeginKeeps

-----------------------------------------------------------------------------
\* Steps with an effect: what they leave of the receipts and of the other requests.

LEMMA RowKept ==
  ASSUME Inv, StateTyped', Monotone, NEW j \in Keys, receipt'[j] = receipt[j],
         flight'[j] = flight[j], sends'[j] = sends[j],
         draft'.active = j => draft.active = j /\ draft'.revision = draft.revision,
         draft.active = j => draft'.active = j
  PROVE  RowOK(j)' /\ LinkOK(j)'
<1>1. RowOK(j) /\ LinkOK(j) /\ receipt[j].base \in Nat
  BY DEF Inv, Rows, StateTyped, Receipt
<1>2. draft.revision \in Nat /\ draft'.revision \in Nat /\ draft.revision <= draft'.revision
  BY DEF Inv, StateTyped, Snapshot, Monotone
<1>3. RowOK(j)'
  BY <1>1, <1>2 DEF RowOK, Claimed, Live
<1>4. Recovers[j] # None => Recovers[j] \in Keys
  BY DraftAssumption
<1>5. LinkOK(j)'
  BY <1>1, <1>4 DEF LinkOK, Monotone, Dead, Claimed
<1> QED BY <1>3, <1>5

\* The receipt of k becomes row, and request r becomes n.
Effect(r, n, k, row) ==
  /\ req' = [req EXCEPT ![r] = n]
  /\ receipt' = [receipt EXCEPT ![k] = row]
  /\ receipt[k].status # "none" => row.status # "none" /\ row.base = receipt[k].base
  /\ Claimed(k) => row.status \notin {"none", "reserved"}
  /\ draft' \in Snapshot /\ draft.revision <= draft'.revision
  /\ \A j \in Keys \ {k} :
       /\ draft'.active = j => draft.active = j /\ draft'.revision = draft.revision
       /\ draft.active = j => draft'.active = j
  /\ UNCHANGED mailbox
  /\ calls' \in Nat /\ edits' \in Nat /\ faults' \in Nat

LEMMA EffectIs ==
  ASSUME Inv, NEW r \in Requests, NEW n \in Request, NEW k \in Keys, NEW row \in Receipt,
         Effect(r, n, k, row), Tame(n, req[r])
  PROVE  /\ StateTyped' /\ Monotone /\ Authentic' /\ OneLive'
         /\ receipt'[k] = row
         /\ Recovers[k] # None /\ receipt[k].status # "none" => LinkOK(k)' \/ row.changed
         /\ \A j \in Keys \ {k} : RowOK(j)' /\ LinkOK(j)'
<1>1. StateTyped'
  BY DEF Inv, StateTyped, Effect, mailbox
<1>2. receipt'[k] = row /\ \A j \in Keys \ {k} : receipt'[j] = receipt[j]
  BY DEF Inv, StateTyped, Effect
<1>3. \A j \in Keys : (Claimed(j) => Claimed(j)') /\ flight'[j] = flight[j]
  BY <1>2 DEF Effect, mailbox, Claimed
<1>4. \A j \in Keys : Dead(j) => Dead(j)'
  BY <1>3, DeadKept DEF Dead, Effect
<1>5. Monotone
  BY <1>2, <1>3, <1>4 DEF Monotone, Effect
<1>6. \A j \in Keys \ {k} : RowOK(j)' /\ LinkOK(j)'
  BY <1>1, <1>2, <1>5, RowKept DEF Effect, mailbox
<1>7. Authentic' /\ OneLive'
  BY DEF Inv, Authentic, OneLive, Effect, mailbox, Live
<1>8. Recovers[k] # None /\ receipt[k].status # "none" => LinkOK(k)' \/ row.changed
  <2> SUFFICES ASSUME Recovers[k] # None, receipt[k].status # "none", ~row.changed PROVE LinkOK(k)'
    OBVIOUS
  <2>1. Recovers[k] \in Keys /\ Recovers[k] # k
    BY DraftAssumption DEF Origin
  <2>2. Dead(Recovers[k]) /\ receipt[k].base = receipt[Recovers[k]].base
    BY DEF Inv, Rows, LinkOK
  <2> QED BY <1>2, <1>5, <2>1, <2>2 DEF LinkOK, Monotone, Effect, Dead, Claimed
<1> QED BY <1>1, <1>2, <1>5, <1>6, <1>7, <1>8

\* What is left to show of a step with an effect.
LEMMA EffectStep ==
  ASSUME Inv, NEW r \in Requests, NEW n \in Request, NEW k \in Keys, NEW row \in Receipt,
         Effect(r, n, k, row), Tame(n, req[r]), Alone',
         RowOK(k)', LinkOK(k)', RequestOK(n)',
         \A s \in Requests : s # r => Spared(req[s])
  PROVE  Inv'
<1>1. /\ StateTyped' /\ Monotone /\ Authentic' /\ OneLive'
      /\ \A j \in Keys \ {k} : RowOK(j)' /\ LinkOK(j)'
  BY EffectIs
<1>2. Rows'
  BY <1>1 DEF Rows
<1>3. RequestsOK'
  BY <1>1, RequestsKept DEF Effect
<1> QED BY <1>1, <1>2, <1>3 DEF Inv

-----------------------------------------------------------------------------
\* The receipt is created, and the claim taken.

LEMMA RacedKeeps ==
  ASSUME Inv, NEW r \in Requests, req[r].at = "insert", Goes(r, Raced(r)), Quiet,
         UNCHANGED counts
  PROVE  Inv'
<1>1. Raced(r) \in {"idle", "reconcile", "draft"}
  BY DEF Raced
<1>2. CASE Raced(r) = "idle"
  BY <1>2, IdleStep DEF Goes
<1>3. CASE Raced(r) # "idle"
  <2>1. PICK n \in Request : n = [req[r] EXCEPT !.at = Raced(r)]
    BY <1>1, <1>3, MoveTyped, Here
  <2>2. /\ req' = [req EXCEPT ![r] = n]
        /\ n.at = Raced(r) /\ n.key = req[r].key /\ n.own = req[r].own
        /\ n.asked = req[r].asked /\ n.snap = req[r].snap /\ n.changed = req[r].changed
    BY <1>3, <2>1, Here DEF Goes, Request
  <2>3. Tame(n, req[r]) /\ Follows(n, req[r])
    BY <1>1, <1>3, <2>2 DEF Tame, Follows, Writing, Holding
  <2>4. AboutOK(n) /\ ReadOK(n)
    BY <1>1, <1>3, <2>2, Here, MovedOK
  <2>5. StepOK(n)
    BY <1>1, <1>3, <2>2 DEF StepOK, Writing, Holding
  <2> QED BY <2>2, <2>3, <2>4, <2>5, QuietMove DEF RequestOK
<1> QED BY <1>2, <1>3

LEMMA InsertKeeps ==
  ASSUME Inv, NEW r \in Requests, Insert(r) PROVE Inv'
<1>1. req[r].at = "insert" /\ UNCHANGED <<draft, mailbox, counts>>
  BY DEF Insert
<1>2. PICK k \in Keys : k = req[r].key /\ k # None
  BY <1>1, Here
<1>3. CASE receipt[k].status # "none"
  BY <1>1, <1>2, <1>3, RacedKeeps DEF Insert, Row, Quiet, mailbox
<1>4. CASE receipt[k].status = "none"
  <2>1. req[r].snap.revision \in Nat /\ req[r].asked \in Version
        /\ req[r].reviewed \in Contents \cup {None}
    BY Here DEF Request, Snapshot
  <2>2. PICK row \in Receipt :
          row = [NoReceipt EXCEPT !.status = "reserved", !.base = req[r].snap.revision,
                                  !.asked = req[r].asked, !.reviewed = req[r].reviewed]
    BY <2>1, DraftAssumption DEF NoReceipt, Receipt, Version
  <2>3. /\ row.status = "reserved" /\ row.base = req[r].snap.revision
        /\ ~row.changed /\ ~row.result
    BY <2>2 DEF NoReceipt
  <2>4. PICK n \in Request : n = [req[r] EXCEPT !.at = "claim"]
    BY MoveTyped, Here
  <2>5. /\ req' = [req EXCEPT ![r] = n] /\ receipt' = [receipt EXCEPT ![k] = row]
        /\ n.at = "claim" /\ n.key = k /\ n.own = req[r].own
        /\ n.asked = req[r].asked /\ n.snap = req[r].snap /\ n.changed = req[r].changed
    BY <1>2, <1>4, <2>2, <2>4, Here DEF Insert, Row, Goes, Request
  <2>6. Effect(r, n, k, row)
    BY <1>1, <1>4, <2>5 DEF Effect, Claimed, counts, Inv, StateTyped, Snapshot
  <2>7. Tame(n, req[r]) /\ Alone'
    BY <1>2, <2>5, AloneKept DEF Tame, Follows, Writing, Holding
  <2>8. /\ StateTyped' /\ Monotone /\ receipt'[k] = row
    BY <2>6, <2>7, EffectIs
  <2>9. RowOK(k)'
    <3>1. RowOK(k) /\ row.base <= draft.revision
      BY <1>1, <1>2, <2>3, Here DEF Inv, Rows, RequestOK, ReadOK
    <3>2. flight[k] = "unsent" /\ sends[k] = 0 /\ draft.active # k
      BY <1>4, <3>1 DEF RowOK, Claimed, Unfinished
    <3>3. flight'[k] = "unsent" /\ sends'[k] = 0 /\ draft' = draft
      BY <1>1, <3>2 DEF mailbox
    <3> QED BY <2>3, <2>8, <3>1, <3>2, <3>3 DEF RowOK, Claimed, Live
  <2>10. LinkOK(k)'
    <3>1. ASSUME Recovers[k] # None
          PROVE  Dead(Recovers[k])' /\ row.base = receipt'[Recovers[k]].base
      <4>1. Recovers[k] \in Keys
        BY <3>1, DraftAssumption
      <4>2. Dead(Recovers[k]) /\ req[r].asked = receipt[Recovers[k]].base
        BY <1>2, <3>1, Here DEF RequestOK, AboutOK
      <4>3. req[r].asked = req[r].snap.revision
        BY <1>1, <1>2, <3>1, Here DEF RequestOK, ReadOK
      <4>4. receipt[Recovers[k]].status # "none"
        BY <4>2 DEF Dead, Claimed
      <4> QED BY <2>3, <2>8, <4>1, <4>2, <4>3, <4>4 DEF Monotone
    <3> QED BY <2>3, <2>8, <3>1 DEF LinkOK, Dead, Claimed
  <2>11. RequestOK(n)'
    <3>1. AboutOK(n) /\ ReadOK(n)
      BY <1>1, <1>2, <2>5, Here, MovedOK
    <3>2. AboutOK(n)' /\ ReadOK(n)'
      BY <2>8, <3>1, AboutReadKept
    <3>3. StepOK(n)'
      BY <2>3, <2>5, <2>8 DEF StepOK, Writing, Holding
    <3> QED BY <3>2, <3>3 DEF RequestOK
  <2>12. ASSUME NEW s \in Requests, s # r PROVE Spared(req[s])
    <3>1. req[s].at = "stale" /\ ~Overlap => req[s].key # k
      BY <1>2, <2>12, Here DEF Inv, Alone, Apart
    <3>2. req[s].at = "stale" /\ ~Overlap => receipt'[req[s].key].status = "reserved"
      BY <2>5, <3>1, Here DEF RequestOK, StepOK, Inv, StateTyped
    <3>3. flight' = flight /\ draft' = draft
      BY <1>1 DEF mailbox
    <3>4. req[s].at \in Writing /\ Serial(req[s].key) => draft.active = req[s].key
      BY Here DEF RequestOK, StepOK
    <3>5. req'[s] = req[s]
      BY <2>5, <2>12 DEF Inv, StateTyped
    <3> QED BY <3>2, <3>3, <3>4, <3>5 DEF Spared, Live
  <2> QED BY <2>6, <2>7, <2>9, <2>10, <2>11, <2>12, EffectStep
<1> QED BY <1>3, <1>4

\* The claim takes hold.
ClaimTaken(r) ==
  /\ Claimable(r)
  /\ draft' = [draft EXCEPT !.active = req[r].key]
  /\ receipt' = [receipt EXCEPT ![req[r].key] = [@ EXCEPT !.status = "applying"]]
  /\ UNCHANGED mailbox
  /\ calls' \in Nat /\ edits' \in Nat /\ faults' \in Nat

LEMMA ClaimTakenKeeps ==
  ASSUME Inv, NEW r \in Requests, req[r].at = "claim", ClaimTaken(r), NEW n \in Request,
         req' = [req EXCEPT ![r] = n], n.at \in {"get", "review", "lost"},
         n.key = req[r].key, n.own = req[r].own,
         n.asked = req[r].asked, n.snap = req[r].snap, n.changed = req[r].changed
  PROVE  Inv'
<1>1. PICK k \in Keys : k = req[r].key /\ k # None
  BY Here
<1>2. PICK row \in Receipt : row = [receipt[k] EXCEPT !.status = "applying"]
  BY DEF Inv, StateTyped, Receipt
<1>3. /\ row.status = "applying" /\ row.base = receipt[k].base
      /\ row.changed = receipt[k].changed /\ row.result = receipt[k].result
  BY <1>2 DEF Inv, StateTyped, Receipt
<1>4. /\ receipt[k].status = "reserved" /\ receipt[k].base = draft.revision
      /\ draft.active = None /\ ~Claimed(k)
  BY <1>1 DEF ClaimTaken, Claimable, Row, Claimed
<1>5. draft' \in Snapshot /\ draft'.active = k /\ draft'.revision = draft.revision
  BY <1>1 DEF ClaimTaken, Inv, StateTyped, Snapshot
<1>6. /\ ~receipt[k].changed /\ ~Dead(k) /\ ~receipt[k].result /\ flight[k] = "unsent"
      /\ RowOK(k)
  BY <1>4 DEF Inv, Rows, RowOK, LinkOK, Dead
<1>7. Effect(r, n, k, row)
  <2>1. draft.revision <= draft'.revision
    BY <1>5 DEF Inv, StateTyped, Snapshot
  <2>2. receipt' = [receipt EXCEPT ![k] = row]
    BY <1>1, <1>2 DEF ClaimTaken, Inv, StateTyped
  <2> QED BY <1>3, <1>4, <1>5, <2>1, <2>2, DraftAssumption DEF Effect, ClaimTaken
<1>8. Tame(n, req[r])
  BY <1>1, <1>6 DEF Tame
<1>9. StateTyped' /\ Monotone /\ receipt'[k] = row
  BY <1>7, <1>8, EffectIs
<1>10. RowOK(k)'
  <2>1. sends[k] = 0
    BY <1>6 DEF RowOK
  <2>2. flight'[k] = "unsent" /\ sends'[k] = 0
    BY <1>6, <2>1 DEF ClaimTaken, mailbox
  <2>3. receipt'[k].base = draft'.revision /\ receipt'[k].status = "applying" /\ ~receipt'[k].result
    BY <1>3, <1>4, <1>5, <1>6, <1>9
  <2>4. draft'.revision \in Nat
    BY <1>5 DEF Snapshot
  <2> QED BY <1>5, <2>2, <2>3, <2>4 DEF RowOK, Claimed, Live, Unfinished
<1>11. LinkOK(k)'
  <2>1. Recovers[k] # None => LinkOK(k)'
    BY <1>3, <1>4, <1>6, <1>7, <1>8, EffectIs
  <2>2. Recovers[k] = None => LinkOK(k)'
    BY <1>3, <1>6, <1>9 DEF LinkOK
  <2> QED BY <2>1, <2>2
<1>12. RequestOK(n)'
  <2>1. AboutOK(n) /\ ReadOK(n)
    BY <1>1, Here, MovedOK
  <2>2. AboutOK(n)' /\ ReadOK(n)'
    BY <1>9, <2>1, AboutReadKept
  <2>3. StepOK(n)'
    BY <1>1, <1>3, <1>5, <1>6, <1>9 DEF StepOK, Writing, Holding, Claimed, ClaimTaken, mailbox
  <2> QED BY <2>2, <2>3 DEF RequestOK
<1>13. \A s \in Requests : req[s].at \in Holding => req[s].key # k
  BY <1>4, Here DEF RequestOK, StepOK
<1>14. Alone'
  <2> SUFFICES ASSUME NEW p \in Requests, NEW q \in Requests, p # q PROVE Apart(req'[p], req'[q])
    BY DEF Alone
  <2>1. ASSUME NEW s \in Requests, s # r PROVE Apart(n, req[s]) /\ Apart(req[s], n)
    BY <1>1, <1>13, <2>1 DEF Apart, Inv, Alone
  <2>2. \A s \in Requests : req'[s] = IF s = r THEN n ELSE req[s]
    BY DEF Inv, StateTyped
  <2> QED BY <2>1, <2>2 DEF Inv, Alone
<1>15. ASSUME NEW s \in Requests, s # r PROVE Spared(req[s])
  <2>1. req[s].at \in Writing => ~Serial(req[s].key)
    BY <1>4, Here, DraftAssumption DEF RequestOK, StepOK, Writing
  <2>2. req[s].at \in {"release", "mark"} => draft'.active # req[s].key
    BY <1>5, <1>13 DEF Holding
  <2>3. req[s].at = "stale" /\ ~Overlap => req[s].key # k
    BY <1>1, <1>15, Here DEF Inv, Alone, Apart
  <2>4. req[s].at = "stale" /\ ~Overlap => receipt'[req[s].key].status = "reserved"
    BY <1>1, <2>3, Here DEF RequestOK, StepOK, Inv, StateTyped, ClaimTaken
  <2>5. flight' = flight
    BY DEF ClaimTaken, mailbox
  <2> QED BY <2>1, <2>2, <2>4, <2>5 DEF Spared, Live
<1> QED BY <1>7, <1>8, <1>10, <1>11, <1>12, <1>14, <1>15, EffectStep

LEMMA ClaimKeeps ==
  ASSUME Inv, NEW r \in Requests, Claim(r) PROVE Inv'
<1>1. req[r].at = "claim" /\ UNCHANGED <<mailbox, counts>>
  BY DEF Claim
<1>2. CASE Claimable(r)
  <2>1. req[r].snap.version \in Version
    BY Here DEF Request, Snapshot
  <2>2. PICK at \in {"get", "review"} :
          req' = [req EXCEPT ![r] = [@ EXCEPT !.at = at, !.version = req[r].snap.version]]
    BY <1>2 DEF Claim
  <2>3. PICK n \in Request : n = [req[r] EXCEPT !.at = at, !.version = req[r].snap.version]
    BY <2>1, MoveTyped, Here
  <2>4. /\ req' = [req EXCEPT ![r] = n]
        /\ n.at = at /\ n.key = req[r].key /\ n.own = req[r].own
        /\ n.asked = req[r].asked /\ n.snap = req[r].snap /\ n.changed = req[r].changed
    BY <2>2, <2>3, Here DEF Request
  <2>5. ClaimTaken(r)
    BY <1>1, <1>2 DEF Claim, ClaimTaken, Inv, StateTyped, counts
  <2> QED BY <1>1, <2>4, <2>5, ClaimTakenKeeps
<1>3. CASE ~Claimable(r)
  BY <1>1, <1>3, IdleStep DEF Claim, Goes, Quiet, mailbox
<1> QED BY <1>2, <1>3

LEMMA ClaimFailsKeeps ==
  ASSUME Inv, NEW r \in Requests, ClaimFails(r) PROVE Inv'
<1>1. /\ req[r].at = "claim" /\ UNCHANGED mailbox
      /\ calls' \in Nat /\ edits' \in Nat /\ faults' \in Nat
  BY DEF ClaimFails, Fault, Inv, StateTyped
<1>2. PICK n \in Request : n = [req[r] EXCEPT !.at = "lost"]
  BY MoveTyped, Here
<1>3. /\ req' = [req EXCEPT ![r] = n]
      /\ n.at = "lost" /\ n.key = req[r].key /\ n.own = req[r].own
      /\ n.asked = req[r].asked /\ n.snap = req[r].snap /\ n.changed = req[r].changed
  BY <1>2, Here DEF ClaimFails, Goes, Request
<1>4. CASE ClaimTaken(r)
  BY <1>1, <1>3, <1>4, ClaimTakenKeeps
<1>5. CASE UNCHANGED <<draft, receipt>>
  <2>1. Tame(n, req[r]) /\ Follows(n, req[r])
    BY <1>3 DEF Tame, Follows, Writing, Holding
  <2>2. AboutOK(n) /\ ReadOK(n)
    BY <1>1, <1>3, Here, MovedOK
  <2>3. StepOK(n)
    BY <1>1, <1>3, Here DEF RequestOK, StepOK, Writing, Holding
  <2>4. Quiet
    BY <1>1, <1>5 DEF Quiet, mailbox
  <2> QED BY <1>1, <1>3, <2>1, <2>2, <2>3, <2>4, QuietMoveAnd DEF RequestOK
<1> QED BY <1>1, <1>4, <1>5 DEF ClaimFails, ClaimTaken

-----------------------------------------------------------------------------
\* The claim is given up, and the receipt marked.

\* What a step that leaves the mailbox alone leaves to the requests about other edits.
LEMMA StaleSpared ==
  ASSUME Inv, NEW r \in Requests, NEW k \in Keys, k = req[r].key, NEW row,
         receipt' = [receipt EXCEPT ![k] = row], NEW s \in Requests, s # r,
         req[s].at = "stale", ~Overlap
  PROVE  receipt'[req[s].key].status = "reserved"
<1>1. req[s].key # k /\ req[s].key \in Keys
  BY Here, DraftAssumption DEF Inv, Alone, Apart
<1> QED BY <1>1, Here DEF RequestOK, StepOK, Inv, StateTyped

LEMMA ReleasesKeeps ==
  ASSUME Inv, NEW r \in Requests, NEW k \in Keys, k = req[r].key, NEW changed \in BOOLEAN,
         Releases(k, changed), UNCHANGED mailbox,
         calls' \in Nat /\ edits' \in Nat /\ faults' \in Nat,
         NEW n \in Request, req' = [req EXCEPT ![r] = n], Follows(n, req[r]),
         AboutOK(n) /\ ReadOK(n), n.at \in {"idle", "mark"},
         n.at = "mark" => n.key = k /\ Claimed(k) /\ ~Live(k),
         receipt[k].status # "none", changed => Dead(k),
         Live(k) /\ Serial(k) => draft.active # k,
         ~Overlap => ~Live(k),
         \A s \in Requests : s # r /\ req[s].at \in Writing /\ Serial(req[s].key) => req[s].key # k
  PROVE  Inv'
<1>1. PICK row \in Receipt : row = IF receipt[k].status \in Unfinished \cup {"reserved"}
                                   THEN [receipt[k] EXCEPT !.status = "failed", !.changed = changed]
                                   ELSE receipt[k]
  <2>1. receipt[k] \in Receipt
    BY DEF Inv, StateTyped
  <2>2. [receipt[k] EXCEPT !.status = "failed", !.changed = changed] \in Receipt
    BY <2>1 DEF Receipt
  <2> QED BY <2>1, <2>2
<1>2. RowOK(k) /\ LinkOK(k) /\ receipt[k] \in Receipt
  BY DEF Inv, Rows, StateTyped
<1>3. /\ row.base = receipt[k].base /\ row.result = receipt[k].result
      /\ row.status \notin Unfinished \cup {"none", "reserved"}
      /\ row.changed => Dead(k)
  <2>1. CASE receipt[k].status \in Unfinished \cup {"reserved"}
    BY <1>1, <1>2, <2>1 DEF Receipt, Unfinished
  <2>2. CASE receipt[k].status \notin Unfinished \cup {"reserved"}
    BY <1>1, <1>2, <2>2 DEF LinkOK
  <2> QED BY <2>1, <2>2
<1>4. receipt' = [receipt EXCEPT ![k] = row]
  BY <1>1 DEF Releases, Inv, StateTyped
<1>5. /\ draft' \in Snapshot /\ draft'.revision = draft.revision /\ draft.revision \in Nat
      /\ draft'.active = IF draft.active = k THEN None ELSE draft.active
  BY DEF Releases, Inv, StateTyped, Snapshot
<1>6. draft'.active # k /\ flight' = flight /\ sends' = sends
  BY <1>5, DraftAssumption DEF mailbox
<1>7. Effect(r, n, k, row)
  <2>1. draft.revision <= draft'.revision
    BY <1>5
  <2> QED BY <1>3, <1>4, <1>5, <2>1, DraftAssumption DEF Effect
<1>8. Tame(n, req[r]) /\ Alone'
  BY AloneKept DEF Tame, Writing
<1>9. StateTyped' /\ Monotone /\ receipt'[k] = row
  BY <1>7, <1>8, EffectIs
<1>10. RowOK(k)'
  <2>1. receipt[k].status # "none" => receipt[k].base <= draft.revision
    BY <1>2 DEF RowOK
  <2>2. Serial(k) /\ Live(k) => receipt[k].result
    BY <1>2 DEF RowOK
  <2>3. receipt[k].result => receipt[k].base < draft.revision /\ flight[k] = "applied"
    BY <1>2 DEF RowOK
  <2>4. (flight[k] = "unsent" => sends[k] = 0) /\ sends[k] <= 1
    BY <1>2 DEF RowOK
  <2> QED BY <1>3, <1>5, <1>6, <1>9, <2>1, <2>2, <2>3, <2>4 DEF RowOK, Claimed, Live
<1>11. LinkOK(k)'
  <2>1. row.changed => Dead(k)'
    BY <1>3, <1>9 DEF Monotone
  <2>2. ASSUME Recovers[k] # None
        PROVE  Dead(Recovers[k])' /\ row.base = receipt'[Recovers[k]].base
    <3>1. Recovers[k] \in Keys
      BY <2>2, DraftAssumption
    <3>2. Dead(Recovers[k]) /\ receipt[k].base = receipt[Recovers[k]].base
      BY <1>2, <2>2 DEF LinkOK
    <3>3. receipt[Recovers[k]].status # "none"
      BY <3>2 DEF Dead, Claimed
    <3> QED BY <1>3, <1>9, <3>1, <3>2, <3>3 DEF Monotone
  <2> QED BY <1>9, <2>1, <2>2 DEF LinkOK
<1>12. RequestOK(n)'
  <2>1. AboutOK(n)' /\ ReadOK(n)'
    BY <1>9, AboutReadKept
  <2>2. StepOK(n)'
    BY <1>3, <1>6, <1>9 DEF StepOK, Writing, Holding, Claimed, Live
  <2> QED BY <2>1, <2>2 DEF RequestOK
<1>13. ASSUME NEW s \in Requests, s # r PROVE Spared(req[s])
  <2>1. req[s].at = "stale" /\ ~Overlap => receipt'[req[s].key].status = "reserved"
    BY <1>4, <1>13, StaleSpared
  <2>2. req[s].at \in Writing /\ Serial(req[s].key) => draft'.active = req[s].key
    BY <1>5, <1>13, Here DEF RequestOK, StepOK
  <2>3. draft'.active = req[s].key => draft.active = req[s].key \/ req[s].key = None
    BY <1>5
  <2>4. req'[s] = req[s]
    BY <1>13 DEF Inv, StateTyped
  <2>5. req[s].at \in {"release", "mark"} => req[s].key # None
    BY Here
  <2> QED BY <1>6, <2>1, <2>2, <2>3, <2>4, <2>5 DEF Spared, Live
<1> QED BY <1>7, <1>8, <1>10, <1>11, <1>12, <1>13, EffectStep

\* A receipt that goes stale never holds the draft for a PATCH under way.
LEMMA StaleKeeps ==
  ASSUME Inv, NEW r \in Requests, Stale(r) PROVE Inv'
<1>1. req[r].at = "stale" /\ UNCHANGED <<mailbox, counts>> /\ req' = [req EXCEPT ![r] = Idle]
  BY DEF Stale, Goes
<1>2. PICK k \in Keys : k = req[r].key /\ k # None
  BY <1>1, Here
<1>3. /\ receipt[k].status # "none" /\ receipt[k].base # req[r].snap.revision
      /\ ~Overlap => receipt[k].status = "reserved"
  BY <1>1, <1>2, Here DEF RequestOK, StepOK
<1>4. RowOK(k) /\ LinkOK(k)
  BY DEF Inv, Rows
<1>5. Serial(k) => draft.active # k
  <2>1. CASE ~Overlap
    BY <1>3, <1>4, <2>1 DEF RowOK, Unfinished
  <2>2. CASE Recovers[k] # None
    <3>1. receipt[k].base = req[r].asked /\ req[r].asked <= req[r].snap.revision
      BY <1>1, <1>2, <1>3, <1>4, <2>2, Here DEF RequestOK, AboutOK, ReadOK, LinkOK
    <3>2. req[r].snap.revision <= draft.revision
      BY <1>1, <1>2, Here DEF RequestOK, ReadOK
    <3>3. receipt[k].base \in Nat /\ req[r].snap.revision \in Nat /\ draft.revision \in Nat
      BY Here DEF Inv, StateTyped, Receipt, Snapshot, Request
    <3> QED BY <1>3, <1>4, <3>1, <3>2, <3>3 DEF RowOK
  <2> QED BY <2>1, <2>2 DEF Serial
<1>6. ~Overlap => ~Live(k)
  BY <1>3, <1>4 DEF RowOK, Claimed, Live
<1>7. \A s \in Requests : s # r /\ req[s].at \in Writing /\ Serial(req[s].key) => req[s].key # k
  BY <1>5, Here DEF RequestOK, StepOK
<1>8. calls' \in Nat /\ edits' \in Nat /\ faults' \in Nat
  BY <1>1 DEF Inv, StateTyped, counts
<1>9. Follows(Idle, req[r]) /\ AboutOK(Idle) /\ ReadOK(Idle) /\ Idle \in Request /\ Idle.at = "idle"
  BY IdleOK DEF Follows, RequestOK
<1>10. Releases(k, FALSE)
  BY <1>2 DEF Stale
<1> QED BY <1>1, <1>2, <1>3, <1>5, <1>6, <1>7, <1>8, <1>9, <1>10, ReleasesKeeps

\* What the release of a request that holds its claim may count on.
LEMMA ReleaseIs ==
  ASSUME Inv, NEW r \in Requests, req[r].at = "release", NEW k \in Keys, k = req[r].key
  PROVE  /\ Claimed(k) /\ receipt[k].status # "none" /\ ~Live(k)
         /\ req[r].changed \in BOOLEAN /\ (req[r].changed => Dead(k))
         /\ \A s \in Requests : s # r /\ req[s].at \in Writing => req[s].key # k
<1>1. Claimed(k) /\ receipt[k].status # "none" /\ ~Live(k)
  BY Here DEF RequestOK, StepOK, Holding, Claimed
<1>2. req[r].changed \in BOOLEAN /\ (req[r].changed => Dead(k))
  BY Here DEF RequestOK, AboutOK, Request
<1>3. \A s \in Requests : s # r /\ req[s].at \in Writing => req[s].key # k
  BY DraftAssumption DEF Inv, Alone, Apart, Holding
<1> QED BY <1>1, <1>2, <1>3

LEMMA ReleaseKeeps ==
  ASSUME Inv, NEW r \in Requests, Release(r) PROVE Inv'
<1>1. req[r].at = "release" /\ UNCHANGED <<mailbox, counts>>
  BY DEF Release
<1>2. PICK k \in Keys : k = req[r].key /\ k # None
  BY <1>1, Here
<1>3. PICK changed \in BOOLEAN : changed = req[r].changed
  BY <1>1, <1>2, ReleaseIs
<1>4. PICK n \in Request : n = [req[r] EXCEPT !.at = "mark", !.verdict = "failed"]
  BY MoveTyped, Here
<1>5. /\ req' = [req EXCEPT ![r] = n]
      /\ n.at = "mark" /\ n.key = k /\ n.own = req[r].own
      /\ n.asked = req[r].asked /\ n.snap = req[r].snap /\ n.changed = req[r].changed
  BY <1>2, <1>4, Here DEF Release, Request
<1>6. Follows(n, req[r])
  BY <1>1, <1>2, <1>5 DEF Follows, Holding
<1>7. AboutOK(n) /\ ReadOK(n)
  BY <1>1, <1>2, <1>5, Here, MovedOK
<1>8. calls' \in Nat /\ edits' \in Nat /\ faults' \in Nat
  BY <1>1 DEF Inv, StateTyped, counts
<1>9. Releases(k, changed)
  BY <1>2, <1>3 DEF Release
<1>10. /\ Claimed(k) /\ receipt[k].status # "none" /\ ~Live(k) /\ (changed => Dead(k))
       /\ \A s \in Requests : s # r /\ req[s].at \in Writing => req[s].key # k
  BY <1>1, <1>2, <1>3, ReleaseIs
<1> QED BY <1>1, <1>2, <1>5, <1>6, <1>7, <1>8, <1>9, <1>10, ReleasesKeeps

LEMMA ReleaseFailsKeeps ==
  ASSUME Inv, NEW r \in Requests, ReleaseFails(r) PROVE Inv'
<1>1. /\ req[r].at = "release" /\ UNCHANGED mailbox /\ Doubtful(r)
      /\ calls' \in Nat /\ edits' \in Nat /\ faults' \in Nat
  BY DEF ReleaseFails, Fault, Inv, StateTyped
<1>2. PICK k \in Keys : k = req[r].key /\ k # None
  BY <1>1, Here
<1>3. PICK changed \in BOOLEAN : changed = req[r].changed
  BY <1>1, <1>2, ReleaseIs
<1>4. PICK n \in Request : /\ req' = [req EXCEPT ![r] = n] /\ RequestOK(n)
                           /\ Tame(n, req[r]) /\ Follows(n, req[r])
                           /\ n.at = "mark" /\ n.verdict = "uncertain"
  BY <1>1, DoubtfulOK DEF Holding
<1>5. CASE Releases(k, changed)
  <2>1. AboutOK(n) /\ ReadOK(n) /\ n.key = k
    BY <1>2, <1>4 DEF RequestOK, AboutOK, Follows
  <2> QED BY <1>1, <1>2, <1>3, <1>4, <1>5, <2>1, ReleaseIs, ReleasesKeeps
<1>6. CASE UNCHANGED <<draft, receipt>>
  BY <1>1, <1>4, <1>6, QuietMoveAnd DEF Quiet, mailbox
<1> QED BY <1>2, <1>3, <1>5, <1>6 DEF ReleaseFails

\* An update of the status alone, at the end of a request.
LEMMA VerdictKeeps ==
  ASSUME Inv, NEW r \in Requests, NEW k \in Keys, k = req[r].key,
         receipt[k].status # "none", NEW status \in {"failed", "uncertain"}, NEW changed \in BOOLEAN,
         receipt' = [receipt EXCEPT ![k] = [@ EXCEPT !.status = status, !.changed = changed]],
         req' = [req EXCEPT ![r] = Idle], UNCHANGED <<draft, mailbox, counts>>,
         changed => Dead(k), status = "failed" => ~Live(k) /\ draft.active # k
  PROVE  Inv'
<1>1. RowOK(k) /\ LinkOK(k) /\ receipt[k] \in Receipt /\ draft \in Snapshot
  BY DEF Inv, Rows, StateTyped
<1>2. PICK row \in Receipt : row = [receipt[k] EXCEPT !.status = status, !.changed = changed]
  BY <1>1 DEF Receipt
<1>3. /\ row.status = status /\ row.changed = changed
      /\ row.base = receipt[k].base /\ row.result = receipt[k].result
  BY <1>1, <1>2 DEF Receipt
<1>4. receipt' = [receipt EXCEPT ![k] = row]
  BY <1>2 DEF Inv, StateTyped
<1>5. Effect(r, Idle, k, row)
  <2>1. draft'.revision = draft.revision /\ draft.revision <= draft'.revision
    BY <1>1 DEF Snapshot
  <2>2. calls' \in Nat /\ edits' \in Nat /\ faults' \in Nat
    BY DEF Inv, StateTyped, counts
  <2> QED BY <1>1, <1>3, <1>4, <2>1, <2>2 DEF Effect
<1>6. Idle \in Request /\ Tame(Idle, req[r]) /\ Alone'
  BY AloneKept, IdleOK DEF Tame, Follows, Writing
<1>7. StateTyped' /\ Monotone /\ receipt'[k] = row
  BY <1>5, <1>6, EffectIs
<1>8. draft' = draft /\ flight' = flight /\ sends' = sends
  BY DEF mailbox
<1>9. RowOK(k)'
  BY <1>1, <1>3, <1>7, <1>8 DEF RowOK, Claimed, Live, Unfinished
<1>10. LinkOK(k)'
  <2>1. changed => Dead(k)'
    BY <1>7 DEF Monotone
  <2>2. ASSUME Recovers[k] # None
        PROVE  Dead(Recovers[k])' /\ row.base = receipt'[Recovers[k]].base
    <3>1. Recovers[k] \in Keys
      BY <2>2, DraftAssumption
    <3>2. Dead(Recovers[k]) /\ receipt[k].base = receipt[Recovers[k]].base
      BY <1>1, <2>2 DEF LinkOK
    <3>3. receipt[Recovers[k]].status # "none"
      BY <3>2 DEF Dead, Claimed
    <3> QED BY <1>3, <1>7, <3>1, <3>2, <3>3 DEF Monotone
  <2> QED BY <1>3, <1>7, <2>1, <2>2 DEF LinkOK
<1>11. RequestOK(Idle)'
  BY IdleOK
<1>12. ASSUME NEW s \in Requests, s # r PROVE Spared(req[s])
  <2>1. ASSUME req[s].at = "stale", ~Overlap
        PROVE  receipt'[req[s].key].status = "reserved"
    BY ONLY Inv, r \in Requests, k \in Keys, k = req[r].key, <1>4, <1>12, <2>1, StaleSpared
  <2>2. req'[s] = req[s]
    BY <1>12 DEF Inv, StateTyped
  <2>3. req[s].at \in Writing /\ Serial(req[s].key) => draft.active = req[s].key
    BY Here DEF RequestOK, StepOK
  <2> QED BY <1>8, <2>1, <2>2, <2>3 DEF Spared, Live
<1> QED BY <1>5, <1>6, <1>9, <1>10, <1>11, <1>12, EffectStep

LEMMA LostKeeps ==
  ASSUME Inv, NEW r \in Requests, Lost(r) PROVE Inv'
<1>1. /\ req[r].at = "lost" /\ UNCHANGED <<draft, mailbox, counts>>
      /\ req' = [req EXCEPT ![r] = Idle]
  BY DEF Lost, Goes
<1>2. PICK k \in Keys : k = req[r].key /\ k # None
  BY <1>1, Here
<1>3. receipt[k].status # "none"
  BY <1>1, <1>2, Here DEF RequestOK, StepOK
<1>4. PICK changed \in BOOLEAN : changed = receipt[k].changed
  BY DEF Inv, StateTyped, Receipt
<1>5. receipt' = [receipt EXCEPT ![k] = [@ EXCEPT !.status = "uncertain", !.changed = changed]]
  <2>1. receipt[k] \in Receipt
    BY DEF Inv, StateTyped
  <2>2. [receipt[k] EXCEPT !.status = "uncertain"]
          = [receipt[k] EXCEPT !.status = "uncertain", !.changed = changed]
    BY <1>4, <2>1 DEF Receipt
  <2> QED BY <1>2, <2>2 DEF Lost
<1>6. changed => Dead(k)
  BY <1>4 DEF Inv, Rows, LinkOK
<1> QED BY <1>1, <1>2, <1>3, <1>5, <1>6, VerdictKeeps

LEMMA MarkKeeps ==
  ASSUME Inv, NEW r \in Requests, Mark(r) PROVE Inv'
<1>1. /\ req[r].at = "mark" /\ UNCHANGED <<draft, mailbox, counts>>
      /\ req' = [req EXCEPT ![r] = Idle]
  BY DEF Mark, Goes
<1>2. PICK k \in Keys : k = req[r].key /\ k # None
  BY <1>1, Here
<1>3. receipt[k].status # "none"
  BY <1>1, <1>2, Here DEF RequestOK, StepOK, Holding, Claimed
<1>4. PICK changed \in BOOLEAN : changed = req[r].changed
  BY Here DEF Request
<1>5. PICK status \in {"failed", "uncertain"} : status = req[r].verdict
  BY Here DEF Request
<1>6. receipt' = [receipt EXCEPT ![k] = [@ EXCEPT !.status = status, !.changed = changed]]
  BY <1>2, <1>4, <1>5 DEF Mark
<1>7. changed => Dead(k)
  BY <1>2, <1>4, Here DEF RequestOK, AboutOK
<1>8. status = "failed" => ~Live(k) /\ draft.active # k
  BY <1>1, <1>2, <1>5, Here DEF RequestOK, StepOK
<1> QED BY <1>1, <1>2, <1>3, <1>6, <1>7, <1>8, VerdictKeeps

-----------------------------------------------------------------------------
\* The update is settled as done.

LEMMA FinalizesKeeps ==
  ASSUME Inv, NEW r \in Requests, NEW k \in Keys, NEW version \in Version,
         Finalizes(k, version), UNCHANGED mailbox,
         draft.active \in {k, None}, receipt[k].status \in Unfinished, flight[k] = "applied",
         calls' \in Nat /\ edits' \in Nat /\ faults' \in Nat,
         NEW n \in Request, req' = [req EXCEPT ![r] = n], Follows(n, req[r]),
         n.at \in {"idle", "mark"}, RequestOK(n)
  PROVE  Inv'
<1>1. RowOK(k) /\ LinkOK(k) /\ receipt[k] \in Receipt
  BY DEF Inv, Rows, StateTyped
<1>2. PICK row \in Receipt :
        row = [receipt[k] EXCEPT !.status = "updated", !.result = TRUE, !.changed = FALSE]
  BY <1>1 DEF Receipt
<1>3. /\ row.status = "updated" /\ row.result /\ ~row.changed
      /\ row.base = receipt[k].base
  BY <1>1, <1>2 DEF Receipt
<1>4. receipt' = [receipt EXCEPT ![k] = row]
  BY <1>2 DEF Finalizes, Inv, StateTyped
<1>5. /\ draft' \in Snapshot /\ draft.revision \in Nat
      /\ draft'.revision = draft.revision + 1 /\ draft'.active = None
  BY DEF Finalizes, Inv, StateTyped, Snapshot
<1>6. Effect(r, n, k, row)
  <2>1. draft.revision <= draft'.revision
    BY <1>5
  <2>2. \A j \in Keys \ {k} : draft.active # j /\ draft'.active # j
    BY <1>5, DraftAssumption
  <2> QED BY <1>3, <1>4, <1>5, <2>1, <2>2 DEF Effect
<1>7. Tame(n, req[r]) /\ Alone'
  BY AloneKept DEF Tame, Writing
<1>8. StateTyped' /\ Monotone /\ receipt'[k] = row
  BY <1>6, <1>7, EffectIs
<1>9. flight' = flight /\ sends' = sends
  BY DEF mailbox
<1>10. RowOK(k)'
  <2>1. receipt[k].base \in Nat /\ receipt[k].base <= draft.revision /\ sends[k] <= 1
    BY <1>1 DEF RowOK, Receipt, Unfinished
  <2>2. draft'.active # k /\ receipt[k].base < draft'.revision /\ receipt[k].base <= draft'.revision
    BY <1>5, <2>1, DraftAssumption
  <2> QED BY <1>3, <1>8, <1>9, <2>1, <2>2 DEF RowOK, Claimed, Live
<1>11. LinkOK(k)'
  <2>1. Recovers[k] # None => LinkOK(k)'
    BY <1>3, <1>6, <1>7, EffectIs DEF Unfinished
  <2>2. Recovers[k] = None => LinkOK(k)'
    BY <1>3, <1>8 DEF LinkOK
  <2> QED BY <2>1, <2>2
<1>12. RequestOK(n)'
  <2>1. n.at = "mark" => n.key # None
    BY DEF RequestOK, AboutOK
  <2>2. Spared(n)
    BY <1>5, <1>9, <2>1 DEF Spared, Writing, Live
  <2> QED BY <1>8, <2>2, RequestKept
<1>13. ASSUME NEW s \in Requests, s # r PROVE Spared(req[s])
  <2>1. req[s].at = "stale" /\ ~Overlap => receipt'[req[s].key].status = "reserved"
    BY <1>4, Here DEF RequestOK, StepOK, Inv, StateTyped, Unfinished
  <2>2. req[s].at \in Writing => ~Serial(req[s].key)
    BY Here, DraftAssumption DEF RequestOK, StepOK, Writing
  <2>3. req[s].at \in {"release", "mark"} => draft'.active # req[s].key
    BY <1>5, Here
  <2>4. req'[s] = req[s]
    BY <1>13 DEF Inv, StateTyped
  <2> QED BY <1>9, <2>1, <2>2, <2>3, <2>4 DEF Spared, Live
<1> QED BY <1>6, <1>7, <1>10, <1>11, <1>12, <1>13, EffectStep

LEMMA FinalizeKeeps ==
  ASSUME Inv, NEW r \in Requests, Finalize(r) PROVE Inv'
<1>1. req[r].at = "finalize" /\ UNCHANGED <<mailbox, counts>>
  BY DEF Finalize
<1>2. PICK k \in Keys : k = req[r].key /\ k # None
  BY <1>1, Here
<1>3. CASE Finalizable(k, req[r].snap.revision, FALSE)
  <2>1. PICK version \in Version : version = req[r].version
    BY Here DEF Request
  <2>2. Finalizes(k, version) /\ req' = [req EXCEPT ![r] = Idle]
    BY <1>2, <1>3, <2>1 DEF Finalize, Goes
  <2>3. draft.active \in {k, None} /\ receipt[k].status \in Unfinished
    BY <1>3 DEF Finalizable
  <2>4. flight[k] = "applied"
    BY <1>1, <1>2, Here DEF RequestOK, StepOK
  <2>5. calls' \in Nat /\ edits' \in Nat /\ faults' \in Nat
    BY <1>1 DEF Inv, StateTyped, counts
  <2>6. Idle \in Request /\ Follows(Idle, req[r]) /\ RequestOK(Idle) /\ Idle.at = "idle"
    BY IdleOK DEF Follows
  <2> QED BY <1>1, <2>2, <2>3, <2>4, <2>5, <2>6, FinalizesKeeps
<1>4. CASE ~Finalizable(k, req[r].snap.revision, FALSE)
  <2>1. Doubtful(r) /\ Quiet
    BY <1>1, <1>2, <1>4 DEF Finalize, Quiet, mailbox
  <2> QED BY <1>1, <2>1, DoubtfulKeeps DEF Holding
<1> QED BY <1>3, <1>4

LEMMA FinalizeFailsKeeps ==
  ASSUME Inv, NEW r \in Requests, FinalizeFails(r) PROVE Inv'
<1>1. /\ req[r].at = "finalize" /\ UNCHANGED mailbox /\ Doubtful(r)
      /\ calls' \in Nat /\ edits' \in Nat /\ faults' \in Nat
  BY DEF FinalizeFails, Fault, Inv, StateTyped
<1>2. PICK k \in Keys : k = req[r].key /\ k # None
  BY <1>1, Here
<1>3. PICK n \in Request : /\ req' = [req EXCEPT ![r] = n] /\ RequestOK(n)
                           /\ Tame(n, req[r]) /\ Follows(n, req[r])
                           /\ n.at = "mark" /\ n.verdict = "uncertain"
  BY <1>1, DoubtfulOK DEF Holding
<1>4. PICK version \in Version : version = req[r].version
  BY Here DEF Request
<1>5. CASE Finalizable(k, req[r].snap.revision, FALSE) /\ Finalizes(k, version)
  <2>1. draft.active \in {k, None} /\ receipt[k].status \in Unfinished
    BY <1>5 DEF Finalizable
  <2>2. flight[k] = "applied"
    BY <1>1, <1>2, Here DEF RequestOK, StepOK
  <2> QED BY <1>1, <1>3, <1>5, <2>1, <2>2, FinalizesKeeps
<1>6. CASE UNCHANGED <<draft, receipt>>
  BY <1>1, <1>3, <1>6, QuietMoveAnd DEF Quiet, mailbox
<1> QED BY <1>2, <1>4, <1>5, <1>6 DEF FinalizeFails

\* A live PATCH of a recovery holds the draft, or is accounted for: its base is past.
LEMMA Siblings ==
  ASSUME Inv, NEW j \in Keys, NEW o \in Keys, j # o, Origin(j) = Origin(o), Live(j),
         receipt[o].status # "none"
  PROVE  /\ Recovers[j] # None /\ receipt[j].base = receipt[o].base
         /\ draft.active = j \/ receipt[o].base < draft.revision
         /\ Recovers[o] = None => Dead(o)
<1>1. RowOK(j) /\ LinkOK(j) /\ RowOK(o) /\ LinkOK(o)
  BY DEF Inv, Rows
<1>2. Claimed(j) /\ receipt[j].status # "none"
  BY <1>1 DEF RowOK, Claimed, Live
<1>3. Recovers[j] # None
  <2> SUFFICES ASSUME Recovers[j] = None PROVE FALSE
    OBVIOUS
  <2>1. Recovers[o] = j /\ Recovers[o] # None
    BY DraftAssumption DEF Origin
  <2>2. Dead(j)
    BY <1>1, <2>1 DEF LinkOK
  <2> QED BY <2>2 DEF Dead, Live
<1>4. Dead(Recovers[j]) /\ receipt[j].base = receipt[Recovers[j]].base
  BY <1>1, <1>2, <1>3 DEF LinkOK
<1>5. receipt[j].base = receipt[o].base /\ (Recovers[o] = None => Dead(o))
  <2>1. CASE Recovers[o] = None
    BY <1>3, <1>4, <2>1 DEF Origin
  <2>2. CASE Recovers[o] # None
    BY <1>1, <1>3, <1>4, <2>2 DEF Origin, LinkOK
  <2> QED BY <2>1, <2>2
<1>6. draft.active = j \/ receipt[j].base < draft.revision
  BY <1>1, <1>3 DEF RowOK, Serial
<1> QED BY <1>3, <1>5, <1>6

\* The text that was read back was put there by the PATCH of the receipt that is settled.
LEMMA SettlesItsOwn ==
  ASSUME Inv, NEW o \in Keys, NEW strict \in BOOLEAN, Finalizable(o, receipt[o].base, strict),
         NEW j \in Keys, Origin(j) = Origin(o), flight[j] = "applied"
  PROVE  flight[o] = "applied"
<1> SUFFICES ASSUME j # o PROVE FALSE
  OBVIOUS
<1>1. receipt[o].status # "none" /\ draft.active \in {o, None} /\ draft.revision = receipt[o].base
  BY DEF Finalizable, Unfinished
<1>2. draft.active = j \/ receipt[o].base < draft.revision
  BY <1>1, Siblings DEF Live
<1>3. draft.revision \in Nat
  BY DEF Inv, StateTyped, Snapshot
<1> QED BY <1>1, <1>2, <1>3, DraftAssumption

LEMMA SettleKeeps ==
  ASSUME Inv, NEW r \in Requests, Settle(r) PROVE Inv'
<1>1. req[r].at = "settle" /\ UNCHANGED <<mailbox, counts>> /\ req' = [req EXCEPT ![r] = Idle]
  BY DEF Settle, Goes
<1>2. PICK o \in Keys : o = req[r].own
  BY <1>1, Here
<1>3. PICK strict \in BOOLEAN : strict = req[r].strict
  BY Here DEF Request
<1>4. CASE Finalizable(o, receipt[o].base, strict)
  <2>1. PICK version \in Version : version = req[r].version
    BY Here DEF Request
  <2>2. Finalizes(o, version)
    BY <1>2, <1>3, <1>4, <2>1 DEF Settle
  <2>3. draft.active \in {o, None} /\ receipt[o].status \in Unfinished
    BY <1>4 DEF Finalizable
  <2>4. PICK j \in Keys : Origin(j) = Origin(o) /\ flight[j] = "applied"
    BY <1>1, <1>2, Here DEF RequestOK, AboutOK
  <2>5. flight[o] = "applied"
    BY <1>4, <2>4, SettlesItsOwn
  <2>6. calls' \in Nat /\ edits' \in Nat /\ faults' \in Nat
    BY <1>1 DEF Inv, StateTyped, counts
  <2>7. Idle \in Request /\ Follows(Idle, req[r]) /\ RequestOK(Idle) /\ Idle.at = "idle"
    BY IdleOK DEF Follows
  <2> QED BY <1>1, <2>2, <2>3, <2>5, <2>6, <2>7, FinalizesKeeps
<1>5. CASE ~Finalizable(o, receipt[o].base, strict)
  <2>1. Quiet /\ UNCHANGED counts
    BY <1>1, <1>2, <1>3, <1>5 DEF Settle, Quiet, mailbox
  <2> QED BY <1>1, <2>1, IdleStep
<1> QED BY <1>4, <1>5

-----------------------------------------------------------------------------
\* The PATCH, and the mailbox.

\* No other PATCH of the edit is live when one is sent.
LEMMA PatchIsFirst ==
  ASSUME Inv, NEW r \in Requests, req[r].at = "patch", NEW k \in Keys, k = req[r].key,
         NEW j \in Keys, Origin(j) = Origin(k), Live(j)
  PROVE  FALSE
<1>1. /\ flight[k] = "unsent" /\ ~Live(k) /\ Claimed(k) /\ receipt[k].status # "none"
      /\ Serial(k) => draft.active = k
  BY WritingUnsent DEF Writing, Claimed
<1>2. j # k
  BY <1>1
<1>3. /\ draft.active = j \/ receipt[k].base < draft.revision
      /\ Recovers[k] = None => Dead(k)
  BY <1>1, <1>2, Siblings
<1>4. ~Dead(k)
  BY DEF Dead, Writing
<1>5. draft.active = k
  BY <1>1, <1>3, <1>4 DEF Serial
<1>6. receipt[k].base = draft.revision /\ draft.revision \in Nat
  BY <1>5 DEF Inv, Rows, RowOK, StateTyped, Snapshot
<1> QED BY <1>2, <1>3, <1>5, <1>6

LEMMA PatchKeeps ==
  ASSUME Inv, NEW r \in Requests, Patch(r) PROVE Inv'
<1>1. req[r].at = "patch" /\ UNCHANGED <<draft, receipt, provider, counts>>
  BY DEF Patch
<1>2. PICK k \in Keys : k = req[r].key /\ k # None
  BY <1>1, Here
<1>3. /\ flight[k] = "unsent" /\ ~Live(k) /\ Claimed(k) /\ ~Dead(k)
      /\ Serial(k) => draft.active = k
  BY <1>1, <1>2, WritingUnsent DEF Writing, Dead
<1>4. PICK n \in Request : n = [req[r] EXCEPT !.at = "wait"]
  BY MoveTyped, Here
<1>5. /\ req' = [req EXCEPT ![r] = n]
      /\ n.at = "wait" /\ n.key = k /\ n.own = req[r].own
      /\ n.asked = req[r].asked /\ n.snap = req[r].snap /\ n.changed = req[r].changed
  BY <1>2, <1>4, Here DEF Patch, Goes, Request
<1>6. /\ flight' = [flight EXCEPT ![k] = "sent"] /\ sends' = [sends EXCEPT ![k] = @ + 1]
  BY <1>2 DEF Patch
<1>7. StateTyped'
  BY <1>1, <1>5, <1>6 DEF Inv, StateTyped, counts
<1>8. Tame(n, req[r]) /\ Alone'
  BY <1>1, <1>2, <1>5, AloneKept DEF Tame, Follows, Writing, Holding
<1>9. /\ flight'[k] = "sent" /\ sends'[k] = sends[k] + 1
      /\ \A j \in Keys \ {k} : flight'[j] = flight[j] /\ sends'[j] = sends[j]
  BY <1>6 DEF Inv, StateTyped
<1>10. Monotone
  <2>1. \A j \in Keys : Claimed(j) => Claimed(j)'
    BY <1>1 DEF Claimed
  <2>2. \A j \in Keys : Dead(j) => Dead(j)'
    BY <1>3, <1>5, <1>8, <1>9, <2>1, DeadKept DEF Dead
  <2>3. draft.revision <= draft'.revision
    BY <1>1 DEF Inv, StateTyped, Snapshot
  <2> QED BY <1>1, <1>3, <1>9, <2>1, <2>2, <2>3 DEF Monotone
<1>11. Rows'
  <2> SUFFICES ASSUME NEW j \in Keys PROVE RowOK(j)' /\ LinkOK(j)'
    BY DEF Rows
  <2>1. CASE j # k
    BY <1>1, <1>7, <1>9, <1>10, <2>1, RowKept
  <2>2. CASE j = k
    <3>1. RowOK(k) /\ LinkOK(k)
      BY DEF Inv, Rows
    <3>2. sends[k] = 0 /\ ~receipt[k].result
      BY <1>3, <3>1 DEF RowOK
    <3>3. ~receipt[k].changed
      BY <1>3, <3>1 DEF LinkOK
    <3>4. ~Overlap => receipt[k].status # "failed"
      BY <1>3, <3>1 DEF RowOK, Serial, Unfinished
    <3>5. RowOK(k)'
      BY <1>1, <1>3, <1>9, <3>1, <3>2, <3>4 DEF RowOK, Claimed, Live
    <3>6. Recovers[k] # None => Recovers[k] \in Keys
      BY DraftAssumption
    <3>7. LinkOK(k)'
      BY <1>1, <1>10, <3>1, <3>3, <3>6 DEF LinkOK, Monotone
    <3> QED BY <2>2, <3>5, <3>7
  <2> QED BY <2>1, <2>2
<1>12. RequestOK(n)'
  <2>1. AboutOK(n) /\ ReadOK(n)
    BY <1>1, <1>2, <1>5, Here, MovedOK
  <2>2. AboutOK(n)' /\ ReadOK(n)'
    BY <1>7, <1>10, <2>1, AboutReadKept
  <2>3. StepOK(n)'
    BY <1>1, <1>3, <1>5 DEF StepOK, Writing, Holding, Claimed
  <2> QED BY <2>2, <2>3 DEF RequestOK
<1>13. RequestsOK'
  <2>1. ASSUME NEW s \in Requests, s # r PROVE Spared(req[s])
    <3>1. req[s].at \in Holding => req[s].key \in Keys \ {k}
      BY <1>1, <1>2, <2>1, Here, DraftAssumption DEF Inv, Alone, Apart, Holding, Writing
    <3>2. req'[s] = req[s]
      BY <1>5, <2>1 DEF Inv, StateTyped
    <3> QED BY <1>1, <1>9, <3>1, <3>2, Here DEF Spared, RequestOK, StepOK, Live, Holding
  <2> QED BY <1>5, <1>7, <1>10, <1>12, <2>1, RequestsKept
<1>14. Authentic'
  BY <1>1, <1>3, <1>9 DEF Inv, Authentic
<1>15. OneLive'
  <2>1. \A j \in Keys : Live(j)' => j = k \/ Live(j)
    BY <1>9 DEF Live
  <2>2. \A j \in Keys : Origin(j) = Origin(k) => ~Live(j)
    BY <1>1, <1>2, PatchIsFirst
  <2> QED BY <2>1, <2>2 DEF Inv, OneLive
<1> QED BY <1>7, <1>8, <1>11, <1>13, <1>14, <1>15 DEF Inv

LEMMA AdoptWritesKeeps ==
  ASSUME Inv, NEW r \in Requests, AdoptWrites(r) PROVE Inv'
<1>1. req' = [req EXCEPT ![r] = Idle] /\ UNCHANGED <<receipt, mailbox, counts>>
  BY DEF AdoptWrites, Goes
<1>2. /\ draft' \in Snapshot /\ draft'.revision = draft.revision /\ draft'.active = draft.active
      /\ draft.revision \in Nat
  BY Here DEF AdoptWrites, Inv, StateTyped, Snapshot, Request
<1>3. Tame(Idle, req[r]) /\ Alone' /\ Idle \in Request
  BY <1>1, IdleOK, AloneKept DEF Tame, Follows, Writing
<1>4. StateTyped'
  BY <1>1, <1>2, <1>3 DEF Inv, StateTyped, mailbox, counts
<1>5. Monotone
  <2>1. \A j \in Keys : (Claimed(j) => Claimed(j)') /\ flight'[j] = flight[j]
    BY <1>1 DEF Claimed, mailbox
  <2>2. \A j \in Keys : Dead(j) => Dead(j)'
    BY <1>1, <1>3, <2>1, DeadKept DEF Dead
  <2> QED BY <1>1, <1>2, <2>1, <2>2 DEF Monotone
<1>6. Rows'
  BY <1>1, <1>2, <1>4, <1>5, RowKept DEF Rows, mailbox
<1>7. RequestsOK'
  <2>1. ASSUME NEW s \in Requests, s # r PROVE Spared(req[s])
    <3>1. req'[s] = req[s] /\ flight' = flight
      BY <1>1, <2>1 DEF Inv, StateTyped, mailbox
    <3> QED BY <1>1, <1>2, <3>1, Here DEF Spared, RequestOK, StepOK, Live
  <2>2. RequestOK(Idle)'
    BY IdleOK
  <2> QED BY <1>1, <1>3, <1>4, <1>5, <2>1, <2>2, RequestsKept
<1>8. Authentic' /\ OneLive'
  BY <1>1 DEF Inv, Authentic, OneLive, Live, mailbox
<1> QED BY <1>3, <1>4, <1>6, <1>7, <1>8 DEF Inv

\* A step that no request takes.
LEMMA OutsideStep ==
  ASSUME Inv, StateTyped', UNCHANGED <<draft, req, sends>>,
         \A k \in Keys : /\ receipt'[k].status = receipt[k].status
                         /\ receipt'[k].base = receipt[k].base
                         /\ receipt'[k].result = receipt[k].result
                         /\ receipt'[k].changed = receipt[k].changed,
         \A k \in Keys : \/ flight'[k] = flight[k]
                         \/ flight[k] = "sent" /\ flight'[k] \in {"applied", "refused"},
         Authentic'
  PROVE  Inv'
<1>1. \A k \in Keys : /\ Claimed(k)' <=> Claimed(k)
                      /\ Live(k)' => Live(k)
                      /\ flight'[k] = "unsent" <=> flight[k] = "unsent"
                      /\ flight[k] = "applied" => flight'[k] = "applied"
                      /\ Dead(k)' <=> Dead(k)
  BY DEF Claimed, Live, Dead
<1>2. Monotone
  BY <1>1 DEF Monotone, Inv, StateTyped, Snapshot
<1>3. Rows'
  <2> SUFFICES ASSUME NEW k \in Keys PROVE RowOK(k)' /\ LinkOK(k)'
    BY DEF Rows
  <2>1. RowOK(k) /\ LinkOK(k)
    BY DEF Inv, Rows
  <2>2. RowOK(k)'
    BY <1>1, <2>1 DEF RowOK
  <2>3. Recovers[k] # None => Recovers[k] \in Keys
    BY DraftAssumption
  <2>4. LinkOK(k)'
    BY <1>1, <2>1, <2>3 DEF LinkOK
  <2> QED BY <2>2, <2>4
<1>4. RequestsOK'
  <2> SUFFICES ASSUME NEW s \in Requests PROVE RequestOK(req[s])'
    BY DEF RequestsOK
  <2>1. PICK q \in Request : q = req[s] /\ req'[s] = q
    BY Here
  <2>2. RequestOK(q) /\ (q.key # None => q.key \in Keys)
    BY <2>1, Here DEF Request
  <2>3. q.at \in {"review", "get", "patch", "release", "mark", "stale"} => q.key \in Keys
    BY <2>2 DEF RequestOK, AboutOK
  <2>4. Spared(q)
    BY <1>1, <2>2, <2>3 DEF Spared, RequestOK, StepOK, Writing
  <2>5. RequestOK(q)'
    BY <1>2, <2>2, <2>4, RequestKept
  <2> QED BY <2>1, <2>5
<1>5. Alone' /\ OneLive'
  BY <1>1 DEF Inv, Alone, OneLive
<1> QED BY <1>3, <1>4, <1>5 DEF Inv

LEMMA AppliesKeeps ==
  ASSUME Inv, NEW k \in Keys, Applies(k) PROVE Inv'
<1>1. StateTyped'
  BY DEF Applies, Inv, StateTyped, counts, Contents
<1>2. /\ flight[k] = "sent" /\ flight'[k] = "applied" /\ provider'.content = Text[k]
      /\ \A j \in Keys \ {k} : flight'[j] = flight[j]
  BY DEF Applies, Inv, StateTyped
<1>3. Authentic'
  BY <1>2, DraftAssumption DEF Authentic
<1> QED BY <1>1, <1>2, <1>3, OutsideStep DEF Applies

LEMMA RefusesKeeps ==
  ASSUME Inv, NEW k \in Keys, Refuses(k) PROVE Inv'
<1>1. StateTyped'
  BY DEF Refuses, Inv, StateTyped, counts
<1>2. /\ flight[k] = "sent" /\ flight'[k] = "refused"
      /\ \A j \in Keys \ {k} : flight'[j] = flight[j]
  BY DEF Refuses, Inv, StateTyped
<1>3. Authentic'
  BY <1>2 DEF Authentic, Inv, Refuses
<1> QED BY <1>1, <1>2, <1>3, OutsideStep DEF Refuses

LEMMA LapsesKeeps ==
  ASSUME Inv, NEW k \in Keys, Lapses(k) PROVE Inv'
<1>1. PICK row \in Receipt : row = [receipt[k] EXCEPT !.lapsed = TRUE]
  <2>1. receipt[k] \in Receipt
    BY DEF Inv, StateTyped
  <2> QED BY <2>1 DEF Receipt
<1>2. /\ receipt' = [receipt EXCEPT ![k] = row]
      /\ row.status = receipt[k].status /\ row.base = receipt[k].base
      /\ row.result = receipt[k].result /\ row.changed = receipt[k].changed
  BY <1>1 DEF Lapses, Inv, StateTyped, Receipt
<1>3. StateTyped'
  BY <1>2 DEF Lapses, Inv, StateTyped, counts, mailbox
<1>4. \A j \in Keys : /\ receipt'[j].status = receipt[j].status
                      /\ receipt'[j].base = receipt[j].base
                      /\ receipt'[j].result = receipt[j].result
                      /\ receipt'[j].changed = receipt[j].changed
  BY <1>2 DEF Inv, StateTyped
<1>5. Authentic'
  BY DEF Lapses, mailbox, Inv, Authentic
<1> QED BY <1>3, <1>4, <1>5, OutsideStep DEF Lapses, mailbox

LEMMA OwnerEditsKeeps ==
  ASSUME Inv, NEW c \in Typed, OwnerEdits(c) PROVE Inv'
<1>1. StateTyped'
  BY DEF OwnerEdits, Inv, StateTyped, Contents
<1>2. Authentic'
  BY DraftAssumption DEF OwnerEdits, Authentic
<1> QED BY <1>1, <1>2, OutsideStep DEF OwnerEdits

-----------------------------------------------------------------------------
\* The theorems.

LEMMA StutterKeeps == ASSUME Inv, UNCHANGED vars PROVE Inv'
<1>1. StateTyped' /\ Authentic'
  BY DEF vars, Inv, StateTyped, Authentic
<1> QED BY <1>1, OutsideStep DEF vars

LEMMA ServeKeeps == ASSUME Inv, NEW r \in Requests, Serve(r) PROVE Inv'
BY ReadDraftKeeps, ReadReceiptKeeps, InsertKeeps, StaleKeeps, ClaimKeeps, ClaimFailsKeeps,
   LostKeeps, ReviewKeeps, GetKeeps, ReadFailsKeeps, PatchKeeps, AnswerKeeps, FinalizeKeeps,
   FinalizeFailsKeeps, ReleaseKeeps, ReleaseFailsKeeps, MarkKeeps, LinkedKeeps,
   ReconcileKeeps, SettleKeeps, AdoptReadsKeeps, AdoptWritesKeeps, DiesKeeps DEF Serve

LEMMA NextKeeps == Inv /\ [Next]_vars => Inv'
<1> SUFFICES ASSUME Inv, [Next]_vars PROVE Inv'
  OBVIOUS
<1>1. ASSUME NEW r \in Requests, Serve(r) PROVE Inv'
  BY <1>1, ServeKeeps
<1>2. ASSUME NEW r \in Requests, NEW k \in Keys, BeginUpdate(r, k) \/ BeginRecovery(r, k)
      PROVE  Inv'
  BY <1>2, BeginUpdateKeeps, BeginRecoveryKeeps
<1>3. ASSUME NEW k \in Keys, Applies(k) \/ Refuses(k) \/ Lapses(k) PROVE Inv'
  BY <1>3, AppliesKeeps, RefusesKeeps, LapsesKeeps
<1>4. ASSUME NEW c \in Typed, OwnerEdits(c) PROVE Inv'
  BY <1>4, OwnerEditsKeeps
<1>5. CASE UNCHANGED vars
  BY <1>5, StutterKeeps
<1> QED BY <1>1, <1>2, <1>3, <1>4, <1>5 DEF Next

LEMMA Invariance == Spec => []Inv
BY InitInv, NextKeeps, PTL DEF Spec

\* The variables keep their types, and the receipt that claims the draft
\* (mailbox_drafts.active_update_id) is not finished.
THEOREM DraftTypeOK == Spec => []TypeOK
BY Invariance, InvGivesTypeOK, PTL

\* A PATCH that may still be served, or was and is not accounted for, keeps its claim:
\* no stale reservation, retry, release, recovery or lapse of a lease lets a second
\* writer in.
THEOREM DraftUnprovenClaimStays == Spec => []UnprovenClaimStays
BY Invariance, InvGivesClaims, PTL

\* A receipt reports as done only what the mailbox took and, where requests about an edit
\* do not overlap, as failed only what the mailbox did not take and will not.
THEOREM DraftVerdictsAreTrue == Spec => []VerdictsAreTrue
BY Invariance, InvGivesVerdicts, PTL

\* However often an edit is retried or recovered, and however its requests overlap, fail
\* or die, one PATCH of it at most reaches the mailbox.
THEOREM DraftOneApplyPerEdit == Spec => []OneApplyPerEdit
BY Invariance, InvGivesOneApply, PTL

\* For any number of keys and requests: doubt keeps its claim, verdicts are true, and an edit is
\* applied once.
THEOREM DraftEditsAreAccountedFor == Spec => []EditsAreAccountedFor
BY DraftUnprovenClaimStays, DraftVerdictsAreTrue, DraftOneApplyPerEdit, PTL DEF EditsAreAccountedFor
=============================================================================
