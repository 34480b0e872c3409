----------------------------- MODULE MailboxSync -----------------------------
(***************************************************************************)
(* A connected mailbox (mailboxService.js) beside the mail of webhooks:    *)
(* syncs list what came into it since a cursor, ingest each message by the *)
(* same code (InboundMail!Ingest), and store the cursor of what they       *)
(* listed.  A sync is claimed by a status and a time, without a token.     *)
(* Gmail gives history ids, which may be gone and which starting a watch   *)
(* gives too; Outlook gives a cursor with each list.                       *)
(*                                                                         *)
(* The provider's order of messages is the order they arrived in, and a    *)
(* cursor is how many of them it has passed.  A list has all messages: its *)
(* bound of 1000 is left out, and so are labels other than INBOX.  Some    *)
(* messages (garbled, in a scene) have no form the service can read.       *)
(***************************************************************************)
EXTENDS InboundMail, Sequences

VARIABLES
  inbox,     \* the messages of the mailbox in the order they arrived
  deleted,   \* those its owner has removed
  mailbox,   \* mailbox_sync_state
  sync,      \* syncGmailMailbox or syncOutlookMailbox, by step
  passed,    \* history: messages that a watch, or Gmail connected again, set the cursor past
  refused    \* history: messages whose ingestion was refused before anything was stored

box == <<inbox, deleted>>
seen == <<passed, refused>>
syncing == <<inbox, deleted, mailbox, sync, passed, refused>>
others == <<scene, hook, receipt, job, email, comm, outbox, delivery, thread, binding, request, correction, feedback,
            early, crossed>>

Resting == [at |-> "idle", from |-> None, renew |-> FALSE, todo |-> {}, next |-> 0]
SyncSteps == {"idle", "state", "changes", "profile", "list", "catchup", "ingest", "message", "mark", "error"}

MailboxState == [status : {"none", "pending", "syncing", "healthy", "degraded"}, cursor : Nat \cup {None},
                 synced : BOOLEAN, lapsed : BOOLEAN]
Listing == [at : SyncSteps, from : Nat \cup {None}, renew : BOOLEAN, todo : SUBSET Mails, next : Nat]

SyncTypeOK ==
  /\ TypeOK /\ inbox \in Seq(Mails) /\ deleted \subseteq Mails /\ passed \subseteq Mails /\ refused \subseteq Mails
  /\ mailbox \in MailboxState /\ sync \in [Syncers -> Listing]
  /\ mailbox.lapsed => mailbox.status = "syncing"
  \* What is past is of what has come in; a sync is at a message while it ingests one.
  /\ mailbox.cursor # None => mailbox.cursor <= Len(inbox)
  /\ \A s \in Syncers : /\ sync[s].next <= Len(inbox) /\ (sync[s].from # None => sync[s].from <= Len(inbox))
                        /\ worker[s].at # "idle" <=> sync[s].at = "message"

SyncInit ==
  /\ Init /\ inbox = <<>> /\ deleted = {} /\ passed = {} /\ refused = {}
  /\ mailbox = [status |-> IF scene.provider = None THEN "none" ELSE "pending",
                cursor |-> IF scene.provider = "gmail" THEN 0 ELSE None, synced |-> FALSE, lapsed |-> FALSE]
  /\ sync = [s \in Syncers |-> Resting]

Since(cursor) == {inbox[i] : i \in cursor + 1 .. Len(inbox)}
Stored(m) == email[m] # None
\* What the cursor leaves behind it, though nobody has read it.
Passes(from) == passed' = IF mailbox.cursor = None THEN passed ELSE passed \cup {m \in Since(from) : ~Stored(m)}
SyncAt(s, step) == sync[s].at = step
To(s, step) == sync' = [sync EXCEPT ![s].at = step]

-----------------------------------------------------------------------------
(* The mailbox *)

Arrive(m) ==
  /\ m \in scene.arrives /\ m \notin Since(0) /\ inbox' = Append(inbox, m)
  /\ UNCHANGED <<others, worker, faults, moves, broken, deleted, mailbox, sync, seen>>

Delete(m) ==
  /\ m \in Since(0) \ deleted /\ moves > 0 /\ moves' = moves - 1 /\ deleted' = deleted \cup {m}
  /\ UNCHANGED <<others, worker, faults, broken, inbox, mailbox, sync, seen>>

\* connectGmailMailbox and connectOutlookMailbox, once more: Gmail's cursor starts from here,
\* Outlook's over; that the mailbox has been synced before stays as it is.
Reconnect ==
  /\ mailbox.status # "none" /\ moves > 0 /\ moves' = moves - 1
  /\ mailbox' = [mailbox EXCEPT !.status = "pending", !.lapsed = FALSE,
                                !.cursor = IF scene.provider = "gmail" THEN Len(inbox) ELSE None]
  /\ IF scene.provider = "gmail" /\ mailbox.synced THEN Passes(mailbox.cursor) ELSE UNCHANGED passed
  /\ UNCHANGED <<others, worker, faults, broken, box, sync, refused>>

\* A sync may outlive its 300 s.
SyncLapse ==
  /\ mailbox.status = "syncing" /\ ~mailbox.lapsed /\ Fault /\ mailbox' = [mailbox EXCEPT !.lapsed = TRUE]
  /\ UNCHANGED <<others, worker, moves, broken, box, sync, seen>>

-----------------------------------------------------------------------------
(* A sync *)

Abandoned == mailbox.status = "syncing" /\ \A s \in Syncers : SyncAt(s, "idle")

\* claim_mailbox_sync
Start(s) ==
  /\ s \in scene.syncers /\ SyncAt(s, "idle")
  /\ mailbox.status # "syncing" \/ mailbox.lapsed \/ Abandoned
  /\ mailbox' = [mailbox EXCEPT !.status = "syncing", !.lapsed = FALSE] /\ To(s, "state")
  /\ UNCHANGED <<others, worker, faults, moves, broken, box, seen>>

\* A watch that is missing or runs out within a day is to be renewed.
ReadCursor(s) ==
  /\ SyncAt(s, "state")
  /\ \E renew \in IF scene.provider = "gmail" THEN BOOLEAN ELSE {FALSE} :
       sync' = [sync EXCEPT ![s] = [Resting EXCEPT !.from = mailbox.cursor, !.renew = renew,
         !.at = IF scene.provider = "outlook" \/ (mailbox.cursor # None /\ mailbox.synced) THEN "changes" ELSE "profile"]]
  /\ UNCHANGED <<others, worker, faults, moves, broken, box, mailbox, seen>>

\* gmailHistoryMessageIds or outlookDeltaMessages: what came after the cursor, and the new cursor; a
\* cursor that is gone gives way to a full list.
ListChanges(s) ==
  /\ SyncAt(s, "changes")
  /\ \/ sync' = [sync EXCEPT ![s] = [@ EXCEPT !.at = "ingest", !.next = Len(inbox),
                   !.todo = Since(IF sync[s].from = None THEN 0 ELSE sync[s].from)
                             \ (IF scene.provider = "outlook" THEN deleted ELSE {})]]
     \/ sync[s].from # None /\ sync' = [sync EXCEPT ![s] =
          IF scene.provider = "gmail" THEN [@ EXCEPT !.at = "profile", !.from = None]
          ELSE [@ EXCEPT !.at = "ingest", !.next = Len(inbox), !.todo = Since(0) \ deleted]]
  /\ UNCHANGED <<others, worker, faults, moves, broken, box, mailbox, seen>>

ReadProfile(s) ==
  /\ SyncAt(s, "profile") /\ sync' = [sync EXCEPT ![s].next = Len(inbox), ![s].at = "list"]
  /\ UNCHANGED <<others, worker, faults, moves, broken, box, mailbox, seen>>

ListAll(s) ==
  /\ SyncAt(s, "list")
  /\ sync' = [sync EXCEPT ![s] = [@ EXCEPT !.todo = Since(0) \ deleted,
                                      !.at = IF sync[s].from = None THEN "ingest" ELSE "catchup"]]
  /\ UNCHANGED <<others, worker, faults, moves, broken, box, mailbox, seen>>

\* What came since the mailbox was connected, unless its history is gone.
CatchUp(s) ==
  /\ SyncAt(s, "catchup")
  /\ \/ sync' = [sync EXCEPT ![s] = [@ EXCEPT !.at = "ingest", !.next = Len(inbox),
                                                    !.todo = sync[s].todo \cup Since(sync[s].from)]]
     \/ To(s, "ingest")
  /\ UNCHANGED <<others, worker, faults, moves, broken, box, mailbox, seen>>

\* A message that is gone, or that cannot be normalized, is skipped; Outlook's answer for one that is
\* gone is an error.
TakeMessage(s) ==
  /\ SyncAt(s, "ingest") /\ sync[s].todo # {}
  /\ \E m \in sync[s].todo :
       IF m \notin deleted \cup scene.garbled
       THEN /\ sync' = [sync EXCEPT ![s] = [@ EXCEPT !.todo = sync[s].todo \ {m}, !.at = "message"]]
            /\ worker' = [worker EXCEPT ![s] = On([of |-> m, attempts |-> 1], {})]
       ELSE /\ sync' = [sync EXCEPT ![s] = [@ EXCEPT !.todo = sync[s].todo \ {m},
                             !.at = IF scene.provider = "gmail" \/ m \notin deleted THEN "ingest" ELSE "error"]]
            /\ UNCHANGED worker
  /\ UNCHANGED <<others, faults, moves, broken, box, mailbox, seen>>

IngestMessage(s) == SyncAt(s, "message") /\ Ingest(s) /\ UNCHANGED syncing

\* Mutant of AfterMessage: what cannot be ingested is skipped, as what cannot be normalized is.
GoesOn(verdict) == "ingest"
\* What ingestion refuses ends the sync: the cursor stays where it was.
AfterMessage(verdict) == IF verdict = "done" THEN "ingest" ELSE "error"

Ingested(s) ==
  /\ SyncAt(s, "message") /\ At(s, "finish") /\ worker' = [worker EXCEPT ![s] = Idle]
  /\ To(s, AfterMessage(worker[s].verdict))
  /\ refused' = IF worker[s].verdict # "done" /\ ~Stored(Doing(s)) THEN refused \cup {Doing(s)} ELSE refused
  /\ UNCHANGED <<others, faults, moves, broken, box, mailbox, passed>>

\* startGmailWatch, after the messages: its history id is of now.
RenewWatch(s) ==
  /\ SyncAt(s, "ingest") /\ sync[s].todo = {}
  /\ IF sync[s].renew THEN /\ sync' = [sync EXCEPT ![s].next = Len(inbox), ![s].at = "mark"]
                           /\ Passes(sync[s].next)
     ELSE To(s, "mark") /\ UNCHANGED passed
  /\ UNCHANGED <<others, worker, faults, moves, broken, box, mailbox, refused>>

Healthy(next) == [status |-> "healthy", cursor |-> next, synced |-> TRUE, lapsed |-> FALSE]

\* markSync asks neither for the claim nor for the cursor it read.  That the audit fails after it
\* makes the sync a failed one.
MarkHealthy(s) ==
  /\ SyncAt(s, "mark") /\ mailbox' = Healthy(sync[s].next)
  /\ \/ sync' = [sync EXCEPT ![s] = Resting] /\ UNCHANGED faults
     \/ Fault /\ To(s, "error")
  /\ UNCHANGED <<others, worker, moves, broken, box, seen>>

MarkDegraded(s) ==
  /\ SyncAt(s, "error") /\ sync' = [sync EXCEPT ![s] = Resting]
  /\ mailbox' = [mailbox EXCEPT !.status = "degraded", !.lapsed = FALSE]
  /\ UNCHANGED <<others, worker, faults, moves, broken, box, seen>>

\* A call of the database or of the provider fails; or the process stops, or even the failure cannot
\* be written.
FailSync(s) ==
  /\ ~SyncAt(s, "idle") /\ Fault /\ Breaks(s) /\ worker' = [worker EXCEPT ![s] = Idle]
  /\ (~SyncAt(s, "error") /\ To(s, "error")) \/ sync' = [sync EXCEPT ![s] = Resting]
  /\ UNCHANGED <<others, moves, box, mailbox, seen>>

-----------------------------------------------------------------------------

SyncStep(s) ==
  \/ ReadCursor(s) \/ ListChanges(s) \/ ReadProfile(s) \/ ListAll(s) \/ CatchUp(s) \/ TakeMessage(s) \/ IngestMessage(s)
  \/ Ingested(s) \/ RenewWatch(s) \/ MarkHealthy(s) \/ MarkDegraded(s)

SyncNext ==
  \/ Next /\ UNCHANGED syncing
  \/ \E m \in Mails : Arrive(m) \/ Delete(m)
  \/ Reconnect \/ SyncLapse
  \/ \E s \in Syncers : Start(s) \/ SyncStep(s) \/ FailSync(s)

allvars == <<vars, syncing>>

\* Pushes and the reconciliation that its callers schedule start a sync again and again.
SyncFairness ==
  /\ WF_allvars(\E r \in Receipts : (Receive(r) \/ QueueJob(r)) /\ UNCHANGED syncing)
  /\ \A w \in Workers : WF_allvars((Claim(w) \/ WorkerStep(w)) /\ UNCHANGED syncing)
  /\ WF_allvars((CommitCorrection \/ \E q \in Requests : Resolve(q) \/ Deadlock(q)) /\ UNCHANGED syncing)
  /\ WF_allvars(\E s \in Syncers : Start(s))
  /\ \A s \in Syncers : WF_allvars(SyncStep(s))

SyncSpec == SyncInit /\ [][SyncNext]_allvars /\ SyncFairness

-----------------------------------------------------------------------------
(* Properties *)

Accounted(m) == Whole(m) \/ m \in broken \cup deleted \cup passed \cup scene.garbled \/ InHand(m)

\* The cursor is never past a message that was not taken in whole, whichever syncs overlap, fail or
\* lose their claim.  The code breaks this in three places, which the model names: the history id of
\* a watch that is renewed after the messages were listed (mailboxService.js:363), and that of a Gmail
\* mailbox that is connected again (mailboxService.js:195), are stored over a cursor that was behind;
\* and a message that cannot be normalized is counted as skipped (mailboxService.js:342, 413).
CursorIsBehind ==
  mailbox.cursor # None /\ mailbox.synced => \A i \in 1 .. mailbox.cursor : Accounted(inbox[i])

\* Mail is taken in whole, by whichever way it comes.
NoMailIsLost == MailIsWhole /\ CursorIsBehind

\* A mailbox comes to be read to its end, unless it has a message that ingestion refuses, as an answer
\* to an Ask that is over: such a message fails each sync from then on.
MailboxIsRead ==
  <>[](refused = {} /\ mailbox.status # "none" =>
         \A m \in Since(0) : Stored(m) \/ m \in deleted \cup passed \cup scene.garbled)
\* Whatever stops on the way, what has come in is dealt with.
AllMailSettles == EveryMailSettles /\ MailboxIsRead
=============================================================================
