------------------------- MODULE OutboundOperation -------------------------
(***************************************************************************)
(* Billable sends: POST /v1/messages, /v1/calls and /v1/emails (v1.js) and *)
(* the legacy /sms and /outbound-call (index.js) on the outbound_operations*)
(* table (outboundOperations.js, reserve_outbound_operation).              *)
(*                                                                         *)
(* Every request is a handler that reads, awaits and writes step by step;  *)
(* requests with the same idempotency key run concurrently, the process    *)
(* can die between any two steps, database calls can fail, and a provider  *)
(* call can end without saying whether the provider accepted it.           *)
(* A key stands for one (tenant, operation_type, idempotency_key).         *)
(***************************************************************************)
EXTENDS Naturals, FiniteSets

CONSTANTS Keys,       \* operations
          Sms, Email, \* the operations of these types; the others are voice
          Legacy,     \* those sent by /sms and /outbound-call
          Requests,   \* handler slots
          Bodies,     \* request fingerprints
          None,
          MaxFaults   \* bound: crashes, failed database calls

ASSUME OutboundAssumption ==
  /\ Sms \subseteq Keys /\ Email \subseteq Keys /\ Sms \cap Email = {}
  /\ Legacy \subseteq Keys \ Email
  /\ None \notin Keys \cup Bodies
  /\ MaxFaults \in Nat

Twilio == Keys \ Email

VARIABLES op,        \* outbound_operations: status and request_hash
          recorded,  \* canonical rows of the operation that are stored
          events,    \* events of the operation in the outbox
          accepts,   \* the thread and the Ask that the request resolves to take
                     \* a new communication
          pc, key, body,  \* per request: next step, key and fingerprint
          faults,
          calls, accepted, told   \* history: provider calls begun, sends the
                                  \* provider accepted, answers to the caller

vars == <<op, recorded, events, accepts, pc, key, body, faults, calls, accepted, told>>
request == <<pc, key, body>>
history == <<calls, accepted, told>>

Statuses == {"absent", "reserved", "provider_sent", "completed", "failed"}
Steps == {"idle", "inspect", "reserve", "dispatch", "mark_sent", "mark_rejected",
          "mark_failed", "resolve", "record", "record_communication",
          "announce_created", "announce_sent", "complete"}

TypeOK ==
  /\ op \in [Keys -> [status : Statuses, hash : Bodies \cup {None}]]
  /\ recorded \in [Keys -> {"nothing", "message", "communication"}]
  /\ events \in [Keys -> [created : 0..2, sent : 0..2]]
  /\ accepts \in [Keys -> BOOLEAN]
  /\ pc \in [Requests -> Steps]
  /\ key \in [Requests -> Keys \cup {None}]
  /\ body \in [Requests -> Bodies \cup {None}]
  /\ faults \in 0..MaxFaults
  /\ calls \in [Keys -> 0..2]
  /\ accepted \in [Keys -> 0..2]
  /\ told \in [Keys -> SUBSET {"success", "rejected"}]

Init ==
  /\ op = [k \in Keys |-> [status |-> "absent", hash |-> None]]
  /\ recorded = [k \in Keys |-> "nothing"]
  /\ events = [k \in Keys |-> [created |-> 0, sent |-> 0]]
  /\ accepts \in [Keys -> BOOLEAN]
  /\ pc = [r \in Requests |-> "idle"]
  /\ key = [r \in Requests |-> None]
  /\ body = [r \in Requests |-> None]
  /\ faults = 0
  /\ calls = [k \in Keys |-> 0]
  /\ accepted = [k \in Keys |-> 0]
  /\ told = [k \in Keys |-> {}]

\* Request r goes on to a step, or answers the caller and is gone.
Goto(r, step) == pc' = [pc EXCEPT ![r] = step] /\ UNCHANGED <<key, body>>
GotoStoring(r) == Goto(r, IF key[r] \in Email THEN "record" ELSE "resolve")
Answer(r) == /\ pc' = [pc EXCEPT ![r] = "idle"]
             /\ key' = [key EXCEPT ![r] = None]
             /\ body' = [body EXCEPT ![r] = None]
Tell(k, what) == told' = [told EXCEPT ![k] = @ \cup {what}]

Fault == faults < MaxFaults /\ faults' = faults + 1

\* An exception after the reservation: the e-mail handler marks its operation
\* failed before it answers, the others answer 409 or 502 and leave it alone.
Throw(r) == IF key[r] \in Email THEN Goto(r, "mark_failed") ELSE Answer(r)

Cap(n) == IF n < 2 THEN n + 1 ELSE 2

\* Mutant: a status the table's CHECK does not know.
SetStatusUnknown(k, s) == op' = [op EXCEPT ![k].status = IF s = "failed" THEN "rejected" ELSE s]

\* markOutbound: it looks at no status.
SetStatus(k, s) == op' = [op EXCEPT ![k].status = s]

-----------------------------------------------------------------------------
\* A caller sends or repeats a request.  The e-mail handler resolves the thread
\* first and does not look for an existing operation.
Arrive(r, k, b) ==
  /\ pc[r] = "idle"
  /\ pc' = [pc EXCEPT ![r] = IF k \in Email THEN "resolve" ELSE "inspect"]
  /\ key' = [key EXCEPT ![r] = k]
  /\ body' = [body EXCEPT ![r] = b]
  /\ UNCHANGED <<op, recorded, events, accepts, faults, history>>

\* Only a key without an operation asks whether the provider is ready; if it is
\* not (or the read fails) the request ends with 503 (502).
Inspect(r) ==
  /\ pc[r] = "inspect"
  /\ \/ Goto(r, "reserve") /\ UNCHANGED faults
     \/ op[key[r]].status = "absent" /\ Answer(r) /\ UNCHANGED faults
     \/ Fault /\ Answer(r)
  /\ UNCHANGED <<op, recorded, events, accepts, history>>

\* resolveCommunicationThread refuses a thread or an Ask that is closed, or that
\* belongs to another person, project or Ask.  POST /emails asks before it
\* reserves; the other handlers ask only when the provider has accepted the send.
Resolve(r) ==
  /\ pc[r] = "resolve"
  /\ \/ /\ accepts[key[r]]
        /\ Goto(r, IF key[r] \in Email THEN "reserve" ELSE "record") /\ UNCHANGED faults
     \/ ~accepts[key[r]] /\ Answer(r) /\ UNCHANGED faults
     \/ Fault /\ Answer(r)
  /\ UNCHANGED <<op, recorded, events, accepts, history>>

\* Mutants: a reservation that is in progress is handed out again; so is one
\* that has failed.
AfterReserveRetriesReserved(r, status) ==
  IF status = "provider_sent" THEN GotoStoring(r) /\ UNCHANGED told
  ELSE IF status = "completed" THEN Answer(r) /\ Tell(key[r], "success")
  ELSE Goto(r, "dispatch") /\ UNCHANGED told
AfterReserveAcceptsFailed(r, status) ==
  IF status = "completed" THEN Answer(r) /\ Tell(key[r], "success")
  ELSE IF status = "reserved" THEN Answer(r) /\ UNCHANGED told
  ELSE GotoStoring(r) /\ UNCHANGED told

\* What a request does with an operation that was there before it.
AfterReserve(r, status) ==
  CASE status = "completed" -> Answer(r) /\ Tell(key[r], "success")
    [] status = "provider_sent" -> GotoStoring(r) /\ UNCHANGED told
    [] status = "reserved" -> Answer(r) /\ UNCHANGED told
    [] status = "failed" /\ key[r] \in Email -> Goto(r, "mark_failed") /\ UNCHANGED told
    [] OTHER -> Answer(r) /\ Tell(key[r], "rejected")

\* reserve_outbound_operation: insert, or read the row that is there.
Reserve(r) ==
  /\ pc[r] = "reserve"
  /\ LET k == key[r] IN
     \/ /\ op[k].status = "absent"
        /\ op' = [op EXCEPT ![k] = [status |-> "reserved", hash |-> body[r]]]
        /\ Goto(r, "dispatch")
        /\ UNCHANGED <<faults, told>>
     \/ /\ op[k].status # "absent"
        /\ IF op[k].hash = body[r] THEN AfterReserve(r, op[k].status)
                                   ELSE Answer(r) /\ UNCHANGED told
        /\ UNCHANGED <<op, faults>>
     \/ /\ Fault /\ Answer(r)
        /\ UNCHANGED <<op, told>>
  /\ UNCHANGED <<recorded, events, accepts, calls, accepted>>

\* A voice call whose approved configuration cannot be resolved or frozen, and
\* an e-mail the policy holds back, throw before the provider is called.
Withhold(r) ==
  /\ pc[r] = "dispatch" /\ key[r] \notin Sms \cup Legacy
  /\ Throw(r)
  /\ UNCHANGED <<op, recorded, events, accepts, faults, history>>

\* The provider call: accepted, refused with a structured 4xx, or uncertain.
Dispatch(r) ==
  /\ pc[r] = "dispatch"
  /\ LET k == key[r] IN
     /\ calls' = [calls EXCEPT ![k] = Cap(@)]
     /\ \/ Goto(r, "mark_sent") /\ accepted' = [accepted EXCEPT ![k] = Cap(@)]
        \/ /\ IF k \in Email THEN Throw(r) ELSE Goto(r, "mark_rejected")
           /\ UNCHANGED accepted
        \/ /\ Throw(r)
           /\ accepted' \in {accepted, [accepted EXCEPT ![k] = Cap(@)]}
  /\ UNCHANGED <<op, recorded, events, accepts, faults, told>>

MarkSent(r) ==
  /\ pc[r] = "mark_sent"
  /\ \/ SetStatus(key[r], "provider_sent") /\ GotoStoring(r) /\ UNCHANGED faults
     \/ Fault /\ Throw(r) /\ UNCHANGED op
  /\ UNCHANGED <<recorded, events, accepts, history>>

MarkRejected(r) ==
  /\ pc[r] = "mark_rejected"
  /\ \/ SetStatus(key[r], "failed") /\ Tell(key[r], "rejected") /\ UNCHANGED faults
     \/ Fault /\ UNCHANGED <<op, told>>
  /\ Answer(r)
  /\ UNCHANGED <<recorded, events, accepts, calls, accepted>>

\* The e-mail handler's catch block: no look at the status it overwrites.
MarkFailed(r) ==
  /\ pc[r] = "mark_failed"
  /\ \/ SetStatus(key[r], "failed") /\ UNCHANGED faults
     \/ Fault /\ UNCHANGED op
  /\ Answer(r)
  /\ UNCHANGED <<recorded, events, accepts, history>>

AfterRecord(r) == Goto(r, IF key[r] \in Email THEN "record_communication"
                         ELSE IF key[r] \in Legacy THEN "complete" ELSE "announce_created")

\* Mutant: the call record is inserted rather than upserted.
RecordInsertsCalls(r) ==
  /\ pc[r] = "record"
  /\ IF recorded[key[r]] # "nothing"
     THEN Throw(r) /\ UNCHANGED recorded
     ELSE recorded' = [recorded EXCEPT ![key[r]] = "communication"] /\ AfterRecord(r)
  /\ UNCHANGED <<op, events, accepts, faults, history>>

\* An SMS is inserted, with its communication in the same transaction: a second
\* row for the message, or a thread that was closed meanwhile, fails the insert.
RecordSms(r) ==
  /\ key[r] \in Sms
  /\ IF recorded[key[r]] = "nothing" /\ accepts[key[r]]
     THEN /\ recorded' = [recorded EXCEPT ![key[r]] = "communication"]
          /\ AfterRecord(r)
     ELSE Throw(r) /\ UNCHANGED recorded
  /\ UNCHANGED faults

\* An e-mail is unique by the provider's id; its communication comes next.
RecordEmail(r) ==
  /\ key[r] \in Email
  /\ IF recorded[key[r]] = "nothing"
     THEN recorded' = [recorded EXCEPT ![key[r]] = "message"] /\ AfterRecord(r)
     ELSE Throw(r) /\ UNCHANGED recorded
  /\ UNCHANGED faults

\* A call is upserted.  The trigger that projects its communication swallows what
\* fails: a thread that was closed meanwhile, or a fault.  The call is stored, the
\* update that follows touches no row, and only a verified briefing, which needs
\* its communication, throws.
RecordCall(r) ==
  /\ key[r] \in Twilio \ Sms
  /\ \/ /\ accepts[key[r]] \/ recorded[key[r]] = "communication"
        /\ recorded' = [recorded EXCEPT ![key[r]] = "communication"]
        /\ AfterRecord(r) /\ UNCHANGED faults
     \/ /\ (~accepts[key[r]] /\ UNCHANGED faults) \/ Fault
        /\ recorded' = [recorded EXCEPT ![key[r]] = IF @ = "nothing" THEN "message" ELSE @]
        /\ AfterRecord(r) \/ (key[r] \notin Legacy /\ Throw(r))

\* Persist the message.  Whichever it is, the write can fail, or be done and its
\* answer lost; the update of a call's or an SMS's communication can fail after it.
Record(r) ==
  /\ pc[r] = "record"
  /\ \/ RecordSms(r) \/ RecordEmail(r) \/ RecordCall(r)
     \/ Fault /\ Throw(r) /\ UNCHANGED recorded
     \/ /\ Fault /\ Throw(r)
        /\ recorded[key[r]] = "nothing" /\ (key[r] \in Sms => accepts[key[r]])
        /\ recorded' = [recorded EXCEPT ![key[r]] =
                           IF key[r] \in Email \/ ~accepts[key[r]] THEN "message" ELSE "communication"]
  /\ UNCHANGED <<op, events, accepts, history>>

\* The insert of an e-mail's communication fails in a thread closed meanwhile.
RecordCommunication(r) ==
  /\ pc[r] = "record_communication"
  /\ \/ /\ accepts[key[r]]
        /\ recorded' = [recorded EXCEPT ![key[r]] = "communication"]
        /\ Goto(r, "announce_sent") /\ UNCHANGED faults
     \/ ~accepts[key[r]] /\ Throw(r) /\ UNCHANGED <<recorded, faults>>
     \/ Fault /\ Throw(r) /\ UNCHANGED recorded
  /\ UNCHANGED <<op, events, accepts, history>>

\* Two events without dedupe keys; the e-mail handler sends one, with a key;
\* the legacy handlers send none.
AnnounceCreated(r) ==
  /\ pc[r] = "announce_created"
  /\ \/ /\ events' = [events EXCEPT ![key[r]].created = Cap(@)]
        /\ Goto(r, "announce_sent") /\ UNCHANGED faults
     \/ Fault /\ Throw(r) /\ UNCHANGED events
  /\ UNCHANGED <<op, recorded, accepts, history>>

AnnounceSent(r) ==
  /\ pc[r] = "announce_sent"
  /\ \/ /\ events' = [events EXCEPT ![key[r]].sent = IF key[r] \in Email THEN 1 ELSE Cap(@)]
        /\ Goto(r, "complete") /\ UNCHANGED faults
     \/ Fault /\ Throw(r) /\ UNCHANGED events
  /\ UNCHANGED <<op, recorded, accepts, history>>

Complete(r) ==
  /\ pc[r] = "complete"
  /\ \/ SetStatus(key[r], "completed") /\ Tell(key[r], "success") /\ Answer(r) /\ UNCHANGED faults
     \/ Fault /\ Throw(r) /\ UNCHANGED <<op, told>>
  /\ UNCHANGED <<recorded, events, accepts, calls, accepted>>

Crash(r) ==
  /\ pc[r] # "idle"
  /\ Fault /\ Answer(r)
  /\ UNCHANGED <<op, recorded, events, accepts, history>>

\* Threads are closed, corrected and reopened and Asks resolved meanwhile.
ThreadChanges(k) ==
  /\ accepts' = [accepts EXCEPT ![k] = ~@]
  /\ UNCHANGED <<op, recorded, events, request, faults, history>>

Step(r) ==
  \/ Inspect(r) \/ Resolve(r) \/ Reserve(r) \/ Withhold(r) \/ Dispatch(r)
  \/ MarkSent(r) \/ MarkRejected(r) \/ MarkFailed(r) \/ Record(r)
  \/ RecordCommunication(r) \/ AnnounceCreated(r) \/ AnnounceSent(r) \/ Complete(r)

Next == \/ \E r \in Requests : \/ Step(r) \/ Crash(r)
                               \/ \E k \in Keys, b \in Bodies : Arrive(r, k, b)
        \/ \E k \in Keys : ThreadChanges(k)

Spec == Init /\ [][Next]_vars

\* Handlers run to their end, and the caller of a send whose outcome it has not
\* been told keeps repeating the request.
Retry(k) == \E r \in Requests : Arrive(r, k, op[k].hash)
SendFairness == /\ \A r \in Requests : WF_vars(Step(r))
            /\ \A k \in Keys : SF_vars(op[k].status = "provider_sent" /\ Retry(k))
FairSpec == Spec /\ SendFairness

-----------------------------------------------------------------------------
\* However requests interleave, fail and are repeated, one key makes at most
\* one provider call, so at most one billable send (outboundOperations.js).
AtMostOneDispatch == \A k \in Keys : calls[k] <= 1 /\ accepted[k] <= calls[k]

\* A 200, 201 or 202 is given only for a send that the provider has accepted and
\* that is stored, whichever request did the work: an SMS or an e-mail with its
\* communication, a call at least as a call, for its projection may have failed
\* unseen (migrations/008_call_outcomes.sql:142).
IsStored(k) == \/ recorded[k] = "communication"
               \/ recorded[k] = "message" /\ k \in Twilio \ Sms
SuccessIsReal ==
  \A k \in Keys : "success" \in told[k] => accepted[k] = 1 /\ IsStored(k)

\* "Provider rejected" is final: nothing of the operation ever was or will be
\* sent, even if a rejected request overlaps with others (outboundReadiness.js).
RejectionIsFinal == \A k \in Twilio : "rejected" \in told[k] => accepted[k] = 0

\* A completed /v1 operation has announced itself, across crashes and resumptions.
CompletedIsAnnounced ==
  \A k \in Keys \ Legacy : op[k].status = "completed" =>
    events[k].sent > 0 /\ (k \in Twilio => events[k].created > 0)

\* A key makes one send at most, and what callers and operators are told of it is so.
SendsAreAccountedFor == AtMostOneDispatch /\ SuccessIsReal /\ RejectionIsFinal /\ CompletedIsAnnounced

\* The Twilio handlers implement the promise of BillableSend.  (The e-mail
\* handler does not: its catch block writes failed over completed, v1.js:957.)
BPhase == [k \in Twilio |-> op[k].status]
BAccepted == [k \in Twilio |-> accepted[k]]
BTold == [k \in Twilio |-> told[k]]
Billable == INSTANCE BillableSend WITH
              Keys <- Twilio, phase <- BPhase, accepted <- BAccepted, told <- BTold
ImplementsBillableSend == Billable!Spec

\* A sent call whose handler died is completed by the retries of its caller, once
\* its thread takes it for good.  (A call into a closed thread or a resolved Ask is
\* placed all the same, and then no retry ever completes it.)
CallReplayReconciles ==
  \A k \in Twilio \ Sms :
    <>[]accepts[k] => (op[k].status = "provider_sent" ~> op[k].status = "completed")
=============================================================================
