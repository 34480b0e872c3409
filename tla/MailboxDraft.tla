---------------------------- MODULE MailboxDraft ----------------------------
(***************************************************************************)
(* One Outlook draft that this service edits in place: updateMailboxDraft, *)
(* recoverMailboxDraft and adoptMailboxDraftBaseline (mailboxService.js),  *)
(* the SQL functions that claim, finalize and release the draft            *)
(* (migrations 026 and 041), and the mailbox, which its owner edits too.   *)
(*                                                                         *)
(* A client sends an update under an idempotency key, and may send it      *)
(* again; a key may stand for the reviewed recovery of another key's       *)
(* rejected update.  Each request makes its database and provider calls    *)
(* one by one, and may die between any two.  Every update sets the same    *)
(* field of the draft, so the content of the mailbox is one value.         *)
(***************************************************************************)
EXTENDS Naturals

CONSTANTS Keys,      \* idempotency keys
          Recovers,  \* for each key, the key whose rejected update it recovers, or None
          Text,      \* for each key, the content it asks for
          Typed,     \* what the owner of the mailbox may type
          Requests,  \* requests served at the same time
          None,
          Overlap,   \* whether requests about one edit may overlap
          MaxCalls,  \* bound: requests in all
          MaxEdits,  \* bound: edits by the owner
          MaxFaults  \* bound: database calls that end in an error

Contents == {Text[k] : k \in Keys} \cup Typed

\* The edit a key stands for is named by the key it was first sent under.
Origin(k) == IF Recovers[k] = None THEN k ELSE Recovers[k]

\* A recovery sends what the rejected receipt stored; edits differ from one another and
\* from what the owner types, so that reading a text back tells whose it is.
ASSUME DraftAssumption ==
  /\ None \notin Keys /\ None \notin Nat /\ None \notin Contents
  /\ Recovers \in [Keys -> Keys \cup {None}]
  /\ \A k \in Keys : Recovers[Origin(k)] = None
  /\ \A j, k \in Keys : Text[j] = Text[k] <=> Origin(j) = Origin(k)
  /\ \A k \in Keys : Text[k] \notin Typed
  /\ Typed # {} /\ Overlap \in BOOLEAN
  /\ MaxCalls \in Nat /\ MaxEdits \in Nat /\ MaxFaults \in Nat

VARIABLES
  draft,    \* mailbox_drafts: revision, active_update_id, provider_change_key
  receipt,  \* mailbox_draft_update_receipts, by key
  provider, \* the draft in the mailbox: its changeKey and its content
  flight,   \* what became of the PATCH of each key
  sends,    \* how often the PATCH of each key was sent
  req,      \* the requests being served
  calls, edits, faults

vars == <<draft, receipt, provider, flight, sends, req, calls, edits, faults>>
mailbox == <<provider, flight, sends>>
counts == <<calls, edits, faults>>

Unfinished == {"applying", "uncertain"}
Version == Nat \cup {None}
Snapshot == [revision : Nat, active : Keys \cup {None}, version : Version]
Receipt == [status : {"none", "reserved", "applying", "updated", "failed", "uncertain"},
            base : Nat, asked : Version, reviewed : Contents \cup {None},
            changed : BOOLEAN, lapsed : BOOLEAN, result : BOOLEAN]
Request == [at : {"idle", "draft", "receipt", "linked", "stale", "insert", "claim", "lost",
                  "review", "get", "patch", "wait", "finalize", "release", "mark",
                  "reconcile", "settle", "adopt"},
            key : Keys \cup {None}, own : Keys \cup {None}, asked : Version,
            reviewed : Contents \cup {None}, snap : Snapshot, version : Version,
            changed : BOOLEAN, strict : BOOLEAN, verdict : {"failed", "uncertain"}]

\* The types, and: the receipt that active_update_id names is not finished.
TypeOK ==
  /\ draft \in Snapshot
  /\ receipt \in [Keys -> Receipt]
  /\ provider \in [version : Nat, content : Contents]
  /\ flight \in [Keys -> {"unsent", "sent", "applied", "refused"}]
  /\ sends \in [Keys -> Nat]
  /\ req \in [Requests -> Request]
  /\ calls \in Nat /\ edits \in Nat /\ faults \in Nat
  /\ \A k \in Keys : draft.active = k => receipt[k].status \in Unfinished

Unread == [revision |-> 0, active |-> None, version |-> None]
Idle == [at |-> "idle", key |-> None, own |-> None, asked |-> None, reviewed |-> None,
         snap |-> Unread, version |-> None, changed |-> FALSE, strict |-> FALSE,
         verdict |-> "uncertain"]
NoReceipt == [status |-> "none", base |-> 0, asked |-> None, reviewed |-> None,
              changed |-> FALSE, lapsed |-> FALSE, result |-> FALSE]

\* A created draft; one created before versions were saved has none.
Init ==
  /\ draft \in [revision : {1}, active : {None}, version : {None, 1}]
  /\ receipt = [k \in Keys |-> NoReceipt]
  /\ provider \in [version : {1}, content : Typed]
  /\ flight = [k \in Keys |-> "unsent"]
  /\ sends = [k \in Keys |-> 0]
  /\ req = [r \in Requests |-> Idle]
  /\ calls = 0 /\ edits = 0 /\ faults = 0

-----------------------------------------------------------------------------
\* Arrival of a request.

Row(r) == receipt[req[r].key]
Goes(r, at) == req' = [req EXCEPT ![r] = IF at = "idle" THEN Idle ELSE [@ EXCEPT !.at = at]]

\* Another request about the same edit is being served.
Contended(k) ==
  \E q \in Requests : req[q].key # None /\ Origin(req[q].key) = Origin(k)

Begin(r, k, asked, reviewed) ==
  /\ req[r].at = "idle" /\ calls < MaxCalls
  /\ Overlap \/ ~Contended(k)
  /\ req' = [req EXCEPT ![r] = [Idle EXCEPT !.at = "draft", !.key = k, !.own = k,
                                            !.asked = asked, !.reviewed = reviewed]]
  /\ calls' = calls + 1
  /\ UNCHANGED <<draft, receipt, mailbox, edits, faults>>

\* PATCH of the draft, with or without the revision it expects; a retry repeats itself.
BeginUpdate(r, k) ==
  /\ Recovers[k] = None
  /\ \E asked \in IF receipt[k].status = "none" THEN {None, draft.revision}
                  ELSE {receipt[k].asked} :
       Begin(r, k, asked, None)

\* POST of a recovery, after a review of what the mailbox holds: the receipt it names
\* is read and must have been rejected for that reason.
BeginRecovery(r, k) ==
  /\ Recovers[k] # None
  /\ receipt[Recovers[k]].status = "failed" /\ receipt[Recovers[k]].changed
  /\ Begin(r, k, receipt[Recovers[k]].base,
           IF receipt[k].status = "none" THEN provider.content ELSE receipt[k].reviewed)

ReadDraft(r) ==
  /\ req[r].at = "draft"
  /\ req' = [req EXCEPT ![r] = [@ EXCEPT !.at = "receipt", !.snap = draft]]
  /\ UNCHANGED <<draft, receipt, mailbox, counts>>

SameRequest(r) == Row(r).asked = req[r].asked /\ Row(r).reviewed = req[r].reviewed

\* The revision the client asked for is the one that was read.
Current(r) == req[r].asked \in {None, req[r].snap.revision}

\* A reserved receipt: claim for it, or let it go if the draft moved on.
Fresh(r) ==
  IF Row(r).base # req[r].snap.revision THEN "stale"
  ELSE IF ~Current(r) THEN "idle"
  ELSE IF req[r].snap.active = None THEN "claim" ELSE "insert"

\* Where a request goes on after it read the receipt of its key.
Found(r) ==
  IF Row(r).status = "none" THEN IF Current(r) THEN "insert" ELSE "idle"
  ELSE IF ~SameRequest(r) THEN "idle"
  ELSE [reserved |-> Fresh(r), applying |-> "reconcile", uncertain |-> "reconcile",
        updated |-> "idle",
        failed |-> IF Row(r).changed /\ Recovers[req[r].key] = None THEN "linked"
                   ELSE "idle"][Row(r).status]

ReadReceipt(r) ==
  /\ req[r].at = "receipt"
  /\ Goes(r, Found(r))
  /\ UNCHANGED <<draft, receipt, mailbox, counts>>

\* The insert, or what is done with the receipt another insert left.
Raced(r) ==
  IF ~SameRequest(r) \/ Row(r).status = "updated" THEN "idle"
  ELSE IF Row(r).status \in {"applying", "uncertain"} THEN "reconcile" ELSE "draft"

Insert(r) ==
  /\ req[r].at = "insert"
  /\ IF Row(r).status = "none"
     THEN /\ receipt' = [receipt EXCEPT ![req[r].key] =
                           [NoReceipt EXCEPT !.status = "reserved",
                                             !.base = req[r].snap.revision,
                                             !.asked = req[r].asked,
                                             !.reviewed = req[r].reviewed]]
          /\ Goes(r, "claim")
     ELSE Goes(r, Raced(r)) /\ UNCHANGED receipt
  /\ UNCHANGED <<draft, mailbox, counts>>

-----------------------------------------------------------------------------
\* The SQL functions.

\* claim_mailbox_draft_update
Claimable(r) ==
  /\ draft.revision = req[r].snap.revision /\ draft.active = None
  /\ Row(r).status = "reserved" /\ Row(r).base = req[r].snap.revision
  /\ \A k \in Keys : receipt[k].status \notin Unfinished

\* finalize_mailbox_draft_update; a strict caller locks the row by its claim first.
Finalizable(k, revision, strict) ==
  /\ draft.revision = revision
  /\ draft.active = k \/ (draft.active = None /\ receipt[k].status = "uncertain" /\ ~strict)
  /\ receipt[k].status \in Unfinished

Finalizes(k, version) ==
  /\ draft' = [revision |-> draft.revision + 1, active |-> None, version |-> version]
  /\ receipt' = [receipt EXCEPT ![k] = [@ EXCEPT !.status = "updated", !.result = TRUE,
                                                 !.changed = FALSE]]

\* Mutant of Releases: only the receipt is let go.
KeepsClaim(k, changed) ==
  /\ receipt' = [receipt EXCEPT ![k] = [@ EXCEPT !.status = "failed", !.changed = changed]]
  /\ UNCHANGED draft

\* release_mailbox_draft_update
Releases(k, changed) ==
  /\ draft' = [draft EXCEPT !.active = IF @ = k THEN None ELSE @]
  /\ receipt' = [receipt EXCEPT ![k] =
                   IF @.status \in Unfinished \cup {"reserved"}
                   THEN [@ EXCEPT !.status = "failed", !.changed = changed] ELSE @]

Fault == faults < MaxFaults /\ faults' = faults + 1

\* A reserved receipt whose base revision passed is released.
Stale(r) ==
  /\ req[r].at = "stale"
  /\ Releases(req[r].key, FALSE)
  /\ Goes(r, "idle")
  /\ UNCHANGED <<mailbox, counts>>

\* The claim; its answer may be lost, whether or not it took place.
Claim(r) ==
  /\ req[r].at = "claim"
  /\ IF Claimable(r)
     THEN /\ draft' = [draft EXCEPT !.active = req[r].key]
          /\ receipt' = [receipt EXCEPT ![req[r].key] = [@ EXCEPT !.status = "applying"]]
          /\ req' = [req EXCEPT ![r] = [@ EXCEPT
                       !.at = IF Recovers[req[r].key] = None THEN "get" ELSE "review",
                       !.version = req[r].snap.version]]
     ELSE Goes(r, "idle") /\ UNCHANGED <<draft, receipt>>
  /\ UNCHANGED <<mailbox, counts>>

ClaimFails(r) ==
  /\ req[r].at = "claim" /\ Fault
  /\ \/ /\ Claimable(r)
        /\ draft' = [draft EXCEPT !.active = req[r].key]
        /\ receipt' = [receipt EXCEPT ![req[r].key] = [@ EXCEPT !.status = "applying"]]
     \/ UNCHANGED <<draft, receipt>>
  /\ Goes(r, "lost")
  /\ UNCHANGED <<mailbox, calls, edits>>

Lost(r) ==
  /\ req[r].at = "lost"
  /\ receipt' = [receipt EXCEPT ![req[r].key] = [@ EXCEPT !.status = "uncertain"]]
  /\ Goes(r, "idle")
  /\ UNCHANGED <<draft, mailbox, counts>>

-----------------------------------------------------------------------------
\* The provider calls of the request that holds the claim.

\* A failure the provider or a check determined gives the claim back; any other keeps it.
Rejected(r, changed) ==
  req' = [req EXCEPT ![r] = [@ EXCEPT !.at = "release", !.changed = changed]]
Doubtful(r) ==
  req' = [req EXCEPT ![r] = [@ EXCEPT !.at = "mark", !.verdict = "uncertain"]]

\* The fresh read of a recovery: the mailbox must hold what was reviewed.
Review(r) ==
  /\ req[r].at = "review"
  /\ IF req[r].version = None THEN Rejected(r, FALSE)
     ELSE IF provider.content # req[r].reviewed THEN Rejected(r, TRUE)
     ELSE req' = [req EXCEPT ![r] = [@ EXCEPT !.at = "get", !.version = provider.version]]
  /\ UNCHANGED <<draft, receipt, mailbox, counts>>

\* updateOutlookDraft reads the draft and compares its changeKey before the PATCH.
Get(r) ==
  /\ req[r].at = "get"
  /\ IF req[r].version = None THEN Rejected(r, FALSE)
     ELSE IF provider.version # req[r].version THEN Rejected(r, TRUE)
     ELSE Goes(r, "patch")
  /\ UNCHANGED <<draft, receipt, mailbox, counts>>

\* The credential cannot be had, the audit row not be written, the provider not be read:
\* a status that is not deterministic makes the release raise, which leaves the claim.
ReadFails(r) ==
  /\ req[r].at \in {"review", "get"}
  /\ Rejected(r, FALSE) \/ Doubtful(r)
  /\ UNCHANGED <<draft, receipt, mailbox, counts>>

Patch(r) ==
  /\ req[r].at = "patch"
  /\ flight' = [flight EXCEPT ![req[r].key] = "sent"]
  /\ sends' = [sends EXCEPT ![req[r].key] = @ + 1]
  /\ Goes(r, "wait")
  /\ UNCHANGED <<draft, receipt, provider, counts>>

\* Mutant of Unsettled: no answer counts as a refusal.
NotDone(r) == Rejected(r, FALSE)

\* No answer that settles it: a timeout, a server error, a failed read after the PATCH.
Unsettled(r) == Doubtful(r)

\* The PATCH was applied and the draft is read again; a recovery verifies the content.
\* (Of a text, it reads twice and takes the result only if nothing came in between.)
Answer(r) ==
  /\ req[r].at = "wait"
  /\ \/ /\ flight[req[r].key] = "applied"
        /\ Recovers[req[r].key] = None \/ provider.content = Text[req[r].key]
        /\ req' = [req EXCEPT ![r] = [@ EXCEPT !.at = "finalize",
                                               !.version = provider.version]]
     \/ flight[req[r].key] = "refused" /\ Rejected(r, FALSE)
     \/ Unsettled(r)
  /\ UNCHANGED <<draft, receipt, mailbox, counts>>

Finalize(r) ==
  /\ req[r].at = "finalize"
  /\ IF Finalizable(req[r].key, req[r].snap.revision, FALSE)
     THEN Finalizes(req[r].key, req[r].version) /\ Goes(r, "idle")
     ELSE Doubtful(r) /\ UNCHANGED <<draft, receipt>>
  /\ UNCHANGED <<mailbox, counts>>

\* Its answer is lost, whether or not it was committed.
FinalizeFails(r) ==
  /\ req[r].at = "finalize" /\ Fault
  /\ \/ /\ Finalizable(req[r].key, req[r].snap.revision, FALSE)
        /\ Finalizes(req[r].key, req[r].version)
     \/ UNCHANGED <<draft, receipt>>
  /\ Doubtful(r)
  /\ UNCHANGED <<mailbox, calls, edits>>

Release(r) ==
  /\ req[r].at = "release"
  /\ Releases(req[r].key, req[r].changed)
  /\ req' = [req EXCEPT ![r] = [@ EXCEPT !.at = "mark", !.verdict = "failed"]]
  /\ UNCHANGED <<mailbox, counts>>

ReleaseFails(r) ==
  /\ req[r].at = "release" /\ Fault
  /\ Releases(req[r].key, req[r].changed) \/ UNCHANGED <<draft, receipt>>
  /\ Doubtful(r)
  /\ UNCHANGED <<mailbox, calls, edits>>

\* The last update of the receipt, whatever its status has become.
Mark(r) ==
  /\ req[r].at = "mark"
  /\ receipt' = [receipt EXCEPT ![req[r].key] =
                   [@ EXCEPT !.status = req[r].verdict, !.changed = req[r].changed]]
  /\ Goes(r, "idle")
  /\ UNCHANGED <<draft, mailbox, counts>>

-----------------------------------------------------------------------------
\* Retries that settle an update without a write.

\* resolveLinkedRecoveryResult: the receipt of the only recovery that did not fail.
Successors(r) ==
  {k \in Keys : Recovers[k] = req[r].key /\ receipt[k].status \notin {"none", "failed"}}

Resumable(r, k) ==
  /\ Successors(r) = {k}
  /\ receipt[k].status \in Unfinished /\ ~receipt[k].result
  /\ req[r].snap.active = k /\ req[r].snap.revision = receipt[k].base
  /\ receipt[k].lapsed

Linked(r) ==
  /\ req[r].at = "linked"
  /\ \/ \E k \in Keys :
          /\ Resumable(r, k)
          /\ req' = [req EXCEPT ![r] = [@ EXCEPT !.at = "reconcile", !.own = k,
                                                 !.strict = TRUE]]
     \/ (\A k \in Keys : ~Resumable(r, k)) /\ Goes(r, "idle")
  /\ UNCHANGED <<draft, receipt, mailbox, counts>>

\* The mailbox holds what was asked for.
Proven(r) == provider.content = Text[req[r].own]

\* reconcileDraftUpdate
Reconcile(r) ==
  /\ req[r].at = "reconcile"
  /\ IF (req[r].snap.active = req[r].own => receipt[req[r].own].lapsed) /\ Proven(r)
     THEN req' = [req EXCEPT ![r] = [@ EXCEPT !.at = "settle", !.version = provider.version]]
     ELSE Goes(r, "idle")
  /\ UNCHANGED <<draft, receipt, mailbox, counts>>

Settle(r) ==
  /\ req[r].at = "settle"
  /\ IF Finalizable(req[r].own, receipt[req[r].own].base, req[r].strict)
     THEN Finalizes(req[r].own, req[r].version) ELSE UNCHANGED <<draft, receipt>>
  /\ Goes(r, "idle")
  /\ UNCHANGED <<mailbox, counts>>

\* adoptMailboxDraftBaseline: the mailbox holds what was reviewed; its version is kept
\* for the comparison and set.
AdoptReads(r) ==
  /\ req[r].at = "idle" /\ calls < MaxCalls
  /\ draft.active = None /\ draft.version = None
  /\ req' = [req EXCEPT ![r] = [@ EXCEPT !.at = "adopt", !.snap = draft,
                                         !.version = provider.version]]
  /\ calls' = calls + 1
  /\ UNCHANGED <<draft, receipt, mailbox, edits, faults>>

AdoptWrites(r) ==
  /\ req[r].at = "adopt"
  /\ IF draft.revision = req[r].snap.revision /\ draft.active = None /\ draft.version = None
     THEN draft' = [draft EXCEPT !.version = req[r].version] ELSE UNCHANGED draft
  /\ Goes(r, "idle")
  /\ UNCHANGED <<receipt, mailbox, counts>>

-----------------------------------------------------------------------------
\* A request ends early: its process dies, or a call fails and it only reports that.
Dies(r) ==
  /\ req[r].at # "idle"
  /\ Goes(r, "idle")
  /\ UNCHANGED <<draft, receipt, mailbox, counts>>

\* The provider serves a PATCH, at any time after it was sent.
Applies(k) ==
  /\ flight[k] = "sent"
  /\ flight' = [flight EXCEPT ![k] = "applied"]
  /\ provider' = [version |-> provider.version + 1, content |-> Text[k]]
  /\ UNCHANGED <<draft, receipt, sends, req, counts>>

Refuses(k) ==
  /\ flight[k] = "sent"
  /\ flight' = [flight EXCEPT ![k] = "refused"]
  /\ UNCHANGED <<draft, receipt, provider, sends, req, counts>>

\* The lease of a claim runs out.
Lapses(k) ==
  /\ draft.active = k /\ ~receipt[k].lapsed
  /\ receipt' = [receipt EXCEPT ![k] = [@ EXCEPT !.lapsed = TRUE]]
  /\ UNCHANGED <<draft, mailbox, req, counts>>

OwnerEdits(c) ==
  /\ edits < MaxEdits
  /\ edits' = edits + 1
  /\ provider' = [version |-> provider.version + 1, content |-> c]
  /\ UNCHANGED <<draft, receipt, flight, sends, req, calls, faults>>

Serve(r) ==
  \/ ReadDraft(r) \/ ReadReceipt(r) \/ Insert(r) \/ Stale(r) \/ Claim(r) \/ ClaimFails(r)
  \/ Lost(r) \/ Review(r) \/ Get(r) \/ ReadFails(r) \/ Patch(r) \/ Answer(r) \/ Finalize(r)
  \/ FinalizeFails(r) \/ Release(r) \/ ReleaseFails(r) \/ Mark(r) \/ Linked(r)
  \/ Reconcile(r) \/ Settle(r) \/ AdoptReads(r) \/ AdoptWrites(r) \/ Dies(r)

Next ==
  \/ \E r \in Requests : Serve(r)
  \/ \E r \in Requests, k \in Keys : BeginUpdate(r, k) \/ BeginRecovery(r, k)
  \/ \E k \in Keys : Applies(k) \/ Refuses(k) \/ Lapses(k)
  \/ \E c \in Typed : OwnerEdits(c)

Spec == Init /\ [][Next]_vars

-----------------------------------------------------------------------------
\* Keys about which one request is served at a time: all, when clients wait for an answer
\* before they send an edit again; a recovery names a revision, which has the same effect.
Serial(k) == ~Overlap \/ Recovers[k] # None

\* A PATCH that may still be served, or was and is not accounted for, holds the draft:
\* its claim and its receipt stay, whatever dies, times out or runs out of its lease
\* (docs/API_REFERENCE.md: an unproven claim is never cleared).
UnprovenClaimStays ==
  \A k \in Keys : Serial(k) /\ flight[k] \in {"sent", "applied"} /\ ~receipt[k].result
                    => draft.active = k /\ receipt[k].status \in Unfinished

\* The receipt tells the truth: what is reported as done was done and, unless requests
\* for the edit overlap, what is reported as failed was not done and will not be.
VerdictsAreTrue ==
  \A k \in Keys :
    /\ receipt[k].result => flight[k] = "applied"
    /\ ~Overlap /\ receipt[k].status = "failed" => flight[k] \in {"unsent", "refused"}

\* An edit reaches the mailbox at most once, under its own key and those of all its
\* recoveries together: each PATCH is sent once, and one of them is applied.
OneApplyPerEdit ==
  /\ \A k \in Keys : sends[k] <= 1
  /\ \A j, k \in Keys : Origin(j) = Origin(k) /\ flight[j] \in {"sent", "applied"}
                          /\ flight[k] \in {"sent", "applied"} => j = k

\* The owner of the mailbox gets every edit once, and knows of it: claims outlast doubt, verdicts
\* are true, and no edit is applied twice.
EditsAreAccountedFor == UnprovenClaimStays /\ VerdictsAreTrue /\ OneApplyPerEdit
=============================================================================
