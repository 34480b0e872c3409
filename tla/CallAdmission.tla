---------------------------- MODULE CallAdmission ----------------------------
(***************************************************************************)
(* How a media stream comes to serve a call: the webhook that approves the *)
(* call and stores its configuration, the session with the model opened    *)
(* ahead of the stream (realtimeSessions.js), and the start of the stream, *)
(* which takes the configuration, claims a frozen one in the database      *)
(* (outboundCallConfig.js) and adopts the session or opens its own.        *)
(*                                                                         *)
(* The module is about one CallSid, since every map it reads is keyed by   *)
(* it: a call from outside, a call placed by an operator, or one placed    *)
(* with a configuration frozen in its operation.  Webhooks and handshakes  *)
(* may be repeated, and the process may restart.                           *)
(***************************************************************************)
EXTENDS Naturals, FiniteSets

CONSTANTS Nobody,
          Posts,        \* requests to place the call: the first and its retries
          Webhooks,     \* the fetches of TwiML by Twilio
          Streams,      \* media streams opened for the call
          MaxSockets,   \* bound: sockets opened to the model
          MaxMessages,  \* bound: messages of the model before and after the handover
          MaxFaults     \* bound: restarts and database errors

ASSUME AdmissionAssumption ==
  /\ MaxSockets \in Nat /\ MaxMessages \in Nat /\ MaxFaults \in Nat
  /\ Nobody \notin Streams /\ Nobody \notin Nat

Sockets == 1..MaxSockets

VARIABLES
  kind,      \* where the call comes from
  post,      \* the requests to place it
  operation, \* the row: callConfig frozen, answerCallSid, mediaClaimedAt
  stored,    \* callConfigs has an entry for the CallSid
  webhook,   \* the fetches of TwiML
  connects,  \* Twilio was told to connect a stream
  stream,    \* the connections of Twilio
  served,    \* the streams that were ever let in
  pending,   \* the socket opened ahead
  socket,    \* the sockets to the model
  faults

admissionVars == <<kind, post, operation, stored, webhook, connects, stream, served, pending, socket, faults>>

Audit == [frozen : BOOLEAN, answered : BOOLEAN, claimed : BOOLEAN]
Fetch == [at : {"new", "reading", "writing", "over"}, audit : Audit]
Connection == [at : {"new", "waiting", "reading", "writing", "served", "draining", "over"},
               open : BOOLEAN, timer : BOOLEAN, audit : Audit]
Socket == [at : {"unused", "connecting", "open", "closing", "closed"},
           by : Streams \cup {Nobody},        \* the stream whose handlers are attached
           ahead : BOOLEAN,                 \* opened by preconnect
           updates : Nat, greetings : Nat,  \* session.update and openings sent
           sent : 0..MaxMessages, kept : Nat, handled : Nat]

\* The types; a socket in the map is nobody's and has not closed.
AdmissionTypeOK ==
  /\ kind \in {"inbound", "placed", "frozen"}
  /\ post \in [Posts -> {"new", "placed", "recording", "recorded", "completed", "failed"}]
  /\ operation \in Audit
  /\ stored \in BOOLEAN
  /\ webhook \in [Webhooks -> Fetch]
  /\ connects \in BOOLEAN
  /\ stream \in [Streams -> Connection]
  /\ served \subseteq Streams
  /\ pending \in Sockets \cup {Nobody}
  /\ socket \in [Sockets -> Socket]
  /\ faults \in 0..MaxFaults
  /\ \A s \in Sockets : pending = s => socket[s].by = Nobody /\ socket[s].at \notin {"unused", "closed"}

Unfrozen == [frozen |-> FALSE, answered |-> FALSE, claimed |-> FALSE]
Unused == [at |-> "unused", by |-> Nobody, ahead |-> FALSE, updates |-> 0, greetings |-> 0,
           sent |-> 0, kept |-> 0, handled |-> 0]

AdmissionInit ==
  /\ kind \in {"inbound", "placed", "frozen"}
  /\ post = [p \in Posts |-> "new"]
  /\ operation = Unfrozen
  /\ stored = FALSE
  /\ webhook = [w \in Webhooks |-> [at |-> "new", audit |-> Unfrozen]]
  /\ connects = FALSE
  /\ stream = [x \in Streams |-> [at |-> "new", open |-> FALSE, timer |-> FALSE, audit |-> Unfrozen]]
  /\ served = {}
  /\ pending = Nobody
  /\ socket = [s \in Sockets |-> Unused]
  /\ faults = 0

Fault == faults < MaxFaults /\ faults' = faults + 1

-----------------------------------------------------------------------------
\* Sockets.

\* A socket is opened: it is connecting.
Opening(s) == socket[s].at = "unused" /\ \A r \in Sockets : r < s => socket[r].at # "unused"
Connect(s, x) == [socket EXCEPT ![s] = [Unused EXCEPT !.at = "connecting", !.by = x, !.ahead = (x = Nobody)]]

\* preconnect: open a socket unless one is pending; it may fail, which costs the head start.
Preconnect ==
  \/ UNCHANGED <<pending, socket>>
  \/ \E s \in Sockets : /\ pending = Nobody /\ Opening(s)
                        /\ pending' = s /\ socket' = Connect(s, Nobody)

\* closeQuietly
ClosedQuietly(c) == [c EXCEPT !.at = CASE @ = "connecting" -> "closed" [] @ = "open" -> "closing" [] OTHER -> @]

\* Mutant of Discard: the entry is deleted, the socket stays open.
DiscardEntry(s) == pending' = Nobody /\ UNCHANGED socket

Discard(s) == pending' = Nobody /\ socket' = [socket EXCEPT ![s] = ClosedQuietly(@)]

\* The sweeper finds that no stream came for the socket.
Sweep ==
  /\ pending # Nobody
  /\ Discard(pending)
  /\ UNCHANGED <<kind, post, operation, stored, webhook, connects, stream, served, faults>>

\* The open handlers: session.update first, whoever opened the socket, then the greeting of
\* the stream that has it.
SocketOpens(s) ==
  /\ socket[s].at = "connecting"
  /\ socket' = [socket EXCEPT ![s].at = "open", ![s].updates = @ + 1,
                              ![s].greetings = IF socket[s].by = Nobody THEN @ ELSE @ + 1]
  /\ UNCHANGED <<kind, post, operation, stored, webhook, connects, stream, served, pending, faults>>

\* Mutant of Forget: nothing listens to the end of a socket nobody has claimed.
Unheard(s) == UNCHANGED pending

\* onClose, onError: an entry nobody claimed is discarded.
Forget(s) == pending' = IF pending = s THEN Nobody ELSE pending

\* The model closes the session, or a handshake fails.
SocketCloses(s) ==
  /\ \/ /\ socket[s].at = "open"
        /\ socket' = [socket EXCEPT ![s].at = "closing"]
        /\ UNCHANGED pending
     \/ /\ socket[s].at \in {"connecting", "closing"}
        /\ socket' = [socket EXCEPT ![s].at = "closed"]
        /\ Forget(s)
  /\ UNCHANGED <<kind, post, operation, stored, webhook, connects, stream, served, faults>>

\* A message of the model is handled by the stream, kept while nobody has the socket.
Message(s) ==
  /\ socket[s].at = "open" /\ socket[s].sent < MaxMessages
  /\ socket' = [socket EXCEPT ![s].sent = @ + 1,
                              ![s].handled = IF socket[s].by = Nobody THEN @ ELSE @ + 1,
                              ![s].kept = IF pending = s THEN @ + 1 ELSE @]
  /\ UNCHANGED <<kind, post, operation, stored, webhook, connects, stream, served, pending, faults>>

\* What adopting a socket does: replay what was kept, greet if the session is ready.
Adopted(c, x) ==
  [c EXCEPT !.by = x, !.handled = c.kept, !.greetings = IF c.at = "open" THEN 1 ELSE 0]

\* The socket opened ahead can be had, unless it is on its way out.
Adoptable == {s \in Sockets : pending = s /\ socket[s].at \in {"connecting", "open"}}

\* startOrAdoptSession: take the socket opened ahead, or open one (while the instance has one).
StartSession(x) ==
  /\ pending' = Nobody
  /\ \/ \E s \in Adoptable : socket' = [socket EXCEPT ![s] = Adopted(@, x)]
     \/ Adoptable = {} /\ \E s \in Sockets : Opening(s) /\ socket' = Connect(s, x)
     \/ Adoptable = {} /\ ~(\E s \in Sockets : Opening(s)) /\ UNCHANGED socket

-----------------------------------------------------------------------------
\* Approval of the call.

\* POST /calls, /outbound-call: the operation is reserved, a briefing is frozen in it, then
\* Twilio places the call.  A retry finds the call placed, or the whole request completed.
Place(p) ==
  /\ kind # "inbound" /\ post[p] = "new"
  /\ IF \E q \in Posts : post[q] = "completed"
     THEN post' = [post EXCEPT ![p] = "completed"] /\ UNCHANGED operation
     ELSE /\ post' = [post EXCEPT ![p] = "placed"]
          /\ operation' = [operation EXCEPT !.frozen = @ \/ kind = "frozen"]
  /\ UNCHANGED <<kind, stored, webhook, connects, stream, served, pending, socket, faults>>

\* The configuration is stored when the provider's answer is marked, and again when the
\* call is recorded.
StoreConfig(p) ==
  /\ post[p] \in {"placed", "recording"}
  /\ post' = [post EXCEPT ![p] = IF @ = "placed" THEN "recording" ELSE "recorded"]
  /\ stored' = TRUE
  /\ UNCHANGED <<kind, operation, webhook, connects, stream, served, pending, socket, faults>>

\* Its events are enqueued and the operation is completed.
Completes(p) ==
  /\ post[p] = "recorded"
  /\ post' = [post EXCEPT ![p] = "completed"]
  /\ UNCHANGED <<kind, operation, stored, webhook, connects, stream, served, pending, socket, faults>>

\* The request fails after placing the call: its retry will go on.
PostFails(p) ==
  /\ post[p] \in {"placed", "recording", "recorded"}
  /\ post' = [post EXCEPT ![p] = "failed"]
  /\ Fault
  /\ UNCHANGED <<kind, operation, stored, webhook, connects, stream, served, pending, socket>>

\* A webhook approves the call: the stream may come, and a session is opened for it.
Approve(w) ==
  /\ webhook' = [webhook EXCEPT ![w] = [at |-> "over", audit |-> Unfrozen]]
  /\ stored' = TRUE /\ connects' = TRUE
  /\ Preconnect
\* A webhook answers with a hang-up.
TurnAway(w) ==
  /\ webhook' = [webhook EXCEPT ![w] = [at |-> "over", audit |-> Unfrozen]]
  /\ UNCHANGED <<stored, connects, pending, socket>>

\* /incoming-call
IncomingCall(w) ==
  /\ kind = "inbound" /\ webhook[w].at = "new"
  /\ Approve(w) \/ TurnAway(w)
  /\ UNCHANGED <<kind, post, operation, stream, served, faults>>

\* /outbound-answer: a machine is hung up on; a call with a frozen configuration restores
\* it; else it must be stored, or is resolved again for a caller without a tenant.
OutboundAnswer(w) ==
  /\ kind # "inbound" /\ webhook[w].at = "new" /\ \E p \in Posts : post[p] # "new"
  /\ \/ /\ kind = "frozen" \/ ~stored
        /\ webhook' = [webhook EXCEPT ![w].at = "reading"]
        /\ UNCHANGED <<stored, connects, pending, socket>>
     \/ kind = "placed" /\ stored /\ Approve(w)
     \/ TurnAway(w)
  /\ UNCHANGED <<kind, post, operation, stream, served, faults>>

\* restoreOutboundCallConfig for the webhook: the row is read, and answered for this CallSid
\* by an update that compares the audit context.  It may have expired.  A configuration
\* resolved again is stored as it is.
AnswerReads(w) ==
  /\ webhook[w].at = "reading"
  /\ \/ (kind = "placed" \/ (operation.frozen /\ operation.answered)) /\ Approve(w)
     \/ /\ operation.frozen /\ ~operation.answered
        /\ webhook' = [webhook EXCEPT ![w] = [at |-> "writing", audit |-> operation]]
        /\ UNCHANGED <<stored, connects, pending, socket>>
     \/ TurnAway(w)
  /\ UNCHANGED <<kind, post, operation, stream, served, faults>>

AnswerWrites(w) ==
  /\ webhook[w].at = "writing"
  /\ \/ /\ operation = webhook[w].audit
        /\ operation' = [operation EXCEPT !.answered = TRUE]
        /\ Approve(w) /\ UNCHANGED faults
     \/ operation # webhook[w].audit /\ TurnAway(w) /\ UNCHANGED <<operation, faults>>
     \/ TurnAway(w) /\ Fault  \* the update failed, or its answer was lost
        /\ operation' \in {operation, IF operation = webhook[w].audit
                                      THEN [operation EXCEPT !.answered = TRUE] ELSE operation}
  /\ UNCHANGED <<kind, post, stream, served>>

-----------------------------------------------------------------------------
\* The media stream.

\* Twilio, or a handshake that is replayed, opens a stream.
Opens(x) ==
  /\ connects /\ stream[x].at = "new"
  /\ stream' = [stream EXCEPT ![x] = [at |-> "waiting", open |-> TRUE, timer |-> TRUE, audit |-> Unfrozen]]
  /\ UNCHANGED <<kind, post, operation, stored, webhook, connects, served, pending, socket, faults>>

Gone == [at |-> "over", open |-> FALSE, timer |-> FALSE, audit |-> Unfrozen]

\* connection.close(1008)
Rejected(x) ==
  /\ stream' = [stream EXCEPT ![x] = Gone]
  /\ UNCHANGED <<served, pending, socket>>

\* The call is let in, if its stream is still there: the session starts.
Serve(x) ==
  IF stream[x].open
  THEN /\ stream' = [stream EXCEPT ![x] = [Gone EXCEPT !.at = "served", !.open = TRUE]]
       /\ served' = served \cup {x}
       /\ StartSession(x)
  ELSE /\ stream' = [stream EXCEPT ![x] = Gone]
       /\ UNCHANGED <<served, pending, socket>>

\* 'start' takes the configuration (it may have expired); a frozen call must claim its own.
Start(x) ==
  /\ stream[x].at = "waiting" /\ stream[x].open
  /\ stored' = FALSE
  /\ \/ /\ kind = "frozen"
        /\ stream' = [stream EXCEPT ![x].at = "reading"]
        /\ UNCHANGED <<served, pending, socket>>
     \/ kind # "frozen" /\ stored /\ Serve(x)
     \/ kind # "frozen" /\ Rejected(x)
  /\ UNCHANGED <<kind, post, operation, webhook, connects, faults>>

\* Mutant of Unclaimed: an earlier claim is not looked at.
Answered(audit) == audit.frozen /\ audit.answered

\* Media authorization is valid and was not consumed.
Unclaimed(audit) == audit.frozen /\ audit.answered /\ ~audit.claimed

ClaimReads(x) ==
  /\ stream[x].at = "reading"
  /\ \/ /\ Unclaimed(operation)
        /\ stream' = [stream EXCEPT ![x].at = "writing", ![x].audit = operation]
        /\ UNCHANGED <<served, pending, socket>>
     \/ Rejected(x)  \* claimed, expired or not answered, or the database failed
  /\ UNCHANGED <<kind, post, operation, stored, webhook, connects, faults>>

ClaimWrites(x) ==
  /\ stream[x].at = "writing"
  /\ \/ /\ operation = stream[x].audit
        /\ operation' = [operation EXCEPT !.claimed = TRUE]
        /\ Serve(x) /\ UNCHANGED faults
     \/ operation # stream[x].audit /\ Rejected(x) /\ UNCHANGED <<operation, faults>>
     \/ Rejected(x) /\ Fault
        /\ operation' \in {operation, IF operation = stream[x].audit
                                      THEN [operation EXCEPT !.claimed = TRUE] ELSE operation}
  /\ UNCHANGED <<kind, post, stored, webhook, connects>>

\* The connection goes: the caller hangs up, or 'start' comes twice.
StreamCloses(x) ==
  /\ stream[x].open
  /\ stream' = [stream EXCEPT ![x].open = FALSE, ![x].timer = FALSE,
                              ![x].at = CASE @ = "served" -> "draining"
                                          [] @ = "waiting" -> "over"
                                          [] OTHER -> @]
  /\ UNCHANGED <<kind, post, operation, stored, webhook, connects, served, pending, socket, faults>>

\* The transcript was waited for and is stored: the session is closed, if it is open.
Drained(x) ==
  /\ stream[x].at = "draining"
  /\ stream' = [stream EXCEPT ![x].at = "over"]
  /\ socket' = [s \in Sockets |-> IF socket[s].by = x /\ socket[s].at = "open"
                                  THEN [socket[s] EXCEPT !.at = "closing"] ELSE socket[s]]
  /\ UNCHANGED <<kind, post, operation, stored, webhook, connects, served, pending, faults>>

\* 'Call start required': no call within ten seconds.
StartTimer(x) == stream[x].timer /\ StreamCloses(x)

\* The process restarts: what was in memory is gone, the row stays.
Restart ==
  /\ Fault
  /\ stored' = FALSE /\ pending' = Nobody
  /\ post' = [p \in Posts |-> IF post[p] \in {"new", "completed"} THEN post[p] ELSE "failed"]
  /\ webhook' = [w \in Webhooks |-> IF webhook[w].at = "new" THEN webhook[w] ELSE [at |-> "over", audit |-> Unfrozen]]
  /\ stream' = [x \in Streams |-> IF stream[x].at = "new" THEN stream[x] ELSE Gone]
  /\ socket' = [s \in Sockets |-> IF socket[s].at = "unused" THEN socket[s] ELSE [socket[s] EXCEPT !.at = "closed"]]
  /\ UNCHANGED <<kind, operation, connects, served>>

AdmissionNext ==
  \/ \E p \in Posts : Place(p) \/ StoreConfig(p) \/ Completes(p) \/ PostFails(p)
  \/ \E w \in Webhooks : IncomingCall(w) \/ OutboundAnswer(w) \/ AnswerReads(w) \/ AnswerWrites(w)
  \/ \E x \in Streams : \/ Opens(x) \/ Start(x) \/ ClaimReads(x) \/ ClaimWrites(x)
                        \/ StreamCloses(x) \/ Drained(x) \/ StartTimer(x)
  \/ \E s \in Sockets : SocketOpens(s) \/ SocketCloses(s) \/ Message(s)
  \/ Sweep \/ Restart

AdmissionSpec == AdmissionInit /\ [][AdmissionNext]_admissionVars

\* The sweeper is an interval of the process; Twilio, the database and the model owe nothing.
AdmissionFairSpec == AdmissionSpec /\ WF_admissionVars(Sweep)

-----------------------------------------------------------------------------
\* A frozen configuration serves one stream, whatever is repeated, raced or restarted
\* (restoreOutboundCallConfig: "do not reuse this stream").
OneStreamPerOperation == kind = "frozen" => Cardinality(served) <= 1

\* The handover of a session loses and repeats nothing: what the model said is handled
\* exactly once, and an open session is configured once, then greeted once.
HandoverIsExact ==
  \A s \in Sockets : socket[s].by # Nobody =>
    /\ socket[s].handled = socket[s].sent
    /\ socket[s].greetings <= socket[s].updates /\ socket[s].updates <= 1
    /\ socket[s].at = "open" => socket[s].greetings = 1

\* Of what is opened and frozen ahead of a call, one stream has it, once and whole.
StreamsGetTheirOwn == OneStreamPerOperation /\ HandoverIsExact

\* A session opened ahead does not stay behind: a stream has it, or it is closed.
NoSessionIsLeft ==
  \A s \in Sockets : pending = s ~> socket[s].by # Nobody \/ socket[s].at \in {"closing", "closed"}
=============================================================================
