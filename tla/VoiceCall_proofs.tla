--------------------------- MODULE VoiceCall_proofs --------------------------
(***************************************************************************)
(* A call, from its webhook to its transcript.  For any number of          *)
(* webhooks, streams, sockets, messages and restarts (CallAdmission): a    *)
(* frozen configuration serves one stream, and a session opened ahead is   *)
(* handed over without losing or repeating anything.  For any number of    *)
(* responses, turns of the caller and repeated reports (VoiceCall): tools  *)
(* run once, the line is hung up for a goodbye only when it was heard and  *)
(* not taken back (a leaked timer apart), and what was collected of the    *)
(* conversation is handed over once.                                       *)
(***************************************************************************)
EXTENDS CallAdmission, VoiceCall, FiniteSetTheorems, TLAPS

-----------------------------------------------------------------------------
(* How a stream comes to serve the call *)

RowsTyped ==
  /\ kind \in {"inbound", "placed", "frozen"}
  /\ post \in [Posts -> {"new", "placed", "recording", "recorded", "completed", "failed"}]
  /\ operation \in Audit
  /\ stored \in BOOLEAN
  /\ webhook \in [Webhooks -> Fetch]
  /\ connects \in BOOLEAN
  /\ stream \in [Streams -> Connection]
  /\ served \subseteq Streams
  /\ faults \in 0..MaxFaults

\* What holds of every socket.
Well(c) ==
  /\ c \in Socket
  /\ c.greetings <= c.updates /\ c.updates <= 1
  /\ c.at \in {"unused", "connecting"} => c.updates = 0 /\ c.sent = 0
  /\ c.at = "open" => c.updates = 1
  /\ c.by # Nobody => c.handled = c.sent /\ (c.at = "open" => c.greetings = 1)

\* What holds of the socket in the map.
Ready(c) == c.by = Nobody /\ c.at \notin {"unused", "closed"} /\ c.kept = c.sent

SocketsTyped ==
  /\ pending \in Sockets \cup {Nobody}
  /\ socket \in [Sockets -> Socket]
  /\ \A s \in Sockets : Well(socket[s]) /\ (pending = s => Ready(socket[s]))

\* Who was let in has claimed the row, and who is about to claim it has read it unclaimed.
Claims ==
  /\ kind = "frozen" => (served # {} => operation.claimed) /\ \A x, y \in served : x = y
  /\ \A x \in Streams : stream[x].at = "writing" => ~stream[x].audit.claimed

LEMMA InvariantsGiveTypeOK == RowsTyped /\ SocketsTyped => AdmissionTypeOK
BY DEF RowsTyped, SocketsTyped, AdmissionTypeOK, Ready

-----------------------------------------------------------------------------
\* The rows and the connections.

LEMMA UnfrozenAudit == Unfrozen \in Audit
BY DEF Unfrozen, Audit

LEMMA GoneTyped == Gone \in Connection /\ Gone.at = "over"
BY UnfrozenAudit DEF Gone, Connection

LEMMA OverTyped == [at |-> "over", audit |-> Unfrozen] \in Fetch
BY UnfrozenAudit DEF Fetch

LEMMA RowsFrame == RowsTyped /\ UNCHANGED admissionVars => RowsTyped'
BY DEF RowsTyped, admissionVars

LEMMA FaultTyped == RowsTyped /\ Fault => faults' \in 0..MaxFaults
BY AdmissionAssumption DEF RowsTyped, Fault

LEMMA WebhookTyped ==
  ASSUME RowsTyped, NEW w \in Webhooks, Approve(w) \/ TurnAway(w)
  PROVE  /\ webhook' \in [Webhooks -> Fetch]
         /\ stored' \in BOOLEAN /\ connects' \in BOOLEAN
BY OverTyped DEF RowsTyped, Approve, TurnAway

LEMMA ServeTyped ==
  ASSUME RowsTyped, NEW x \in Streams, Serve(x)
  PROVE  /\ stream' \in [Streams -> Connection]
         /\ served' \subseteq Streams
<1>1. [Gone EXCEPT !.at = "served", !.open = TRUE]
      \in Connection
  BY GoneTyped DEF Connection
<1>2. CASE stream[x].open
  <2>1. stream' = [stream EXCEPT ![x] = [Gone EXCEPT !.at = "served", !.open = TRUE]] /\ served' = served \cup {x}
    BY <1>2 DEF Serve
  <2> QED BY <1>1, <2>1 DEF RowsTyped
<1>3. CASE ~stream[x].open
  <2>1. stream' = [stream EXCEPT ![x] = Gone] /\ served' = served
    BY <1>3 DEF Serve
  <2> QED BY GoneTyped, <2>1 DEF RowsTyped
<1> QED BY <1>2, <1>3

LEMMA RejectedTyped ==
  ASSUME RowsTyped, NEW x \in Streams, Rejected(x)
  PROVE  /\ stream' \in [Streams -> Connection]
         /\ served' \subseteq Streams
BY GoneTyped DEF RowsTyped, Rejected

LEMMA PostsKeepRows ==
  ASSUME RowsTyped, NEW p \in Posts, Place(p) \/ StoreConfig(p) \/ Completes(p) \/ PostFails(p)
  PROVE  RowsTyped'
<1>1. CASE Place(p)
  <2>1. operation' \in Audit
    BY <1>1 DEF Place, RowsTyped, Audit
  <2> QED BY <1>1, <2>1 DEF Place, RowsTyped
<1>2. CASE StoreConfig(p)
  BY <1>2 DEF StoreConfig, RowsTyped
<1>3. CASE Completes(p)
  BY <1>3 DEF Completes, RowsTyped
<1>4. CASE PostFails(p)
  BY <1>4, FaultTyped DEF PostFails, RowsTyped
<1> QED BY <1>1, <1>2, <1>3, <1>4

LEMMA WebhooksKeepRows ==
  ASSUME RowsTyped, NEW w \in Webhooks,
         IncomingCall(w) \/ OutboundAnswer(w) \/ AnswerReads(w) \/ AnswerWrites(w)
  PROVE  RowsTyped'
<1>1. CASE IncomingCall(w)
  BY <1>1, WebhookTyped DEF IncomingCall, RowsTyped
<1>2. CASE OutboundAnswer(w)
  <2>1. webhook' \in [Webhooks -> Fetch]
        /\ stored' \in BOOLEAN /\ connects' \in BOOLEAN
    <3>1. CASE webhook' = [webhook EXCEPT ![w].at = "reading"] /\ UNCHANGED <<stored, connects>>
      BY <3>1 DEF RowsTyped, Fetch
    <3>2. CASE Approve(w) \/ TurnAway(w)
      BY <3>2, WebhookTyped
    <3> QED BY <1>2, <3>1, <3>2 DEF OutboundAnswer
  <2> QED BY <1>2, <2>1 DEF OutboundAnswer, RowsTyped
<1>3. CASE AnswerReads(w)
  <2>1. webhook' \in [Webhooks -> Fetch]
        /\ stored' \in BOOLEAN /\ connects' \in BOOLEAN
    <3>1. CASE webhook' = [webhook EXCEPT ![w] = [at |-> "writing", audit |-> operation]] /\ UNCHANGED <<stored, connects>>
      BY <3>1 DEF RowsTyped, Fetch
    <3>2. CASE Approve(w) \/ TurnAway(w)
      BY <3>2, WebhookTyped
    <3> QED BY <1>3, <3>1, <3>2 DEF AnswerReads
  <2> QED BY <1>3, <2>1 DEF AnswerReads, RowsTyped
<1>4. CASE AnswerWrites(w)
  <2>1. operation' \in Audit
    BY <1>4 DEF AnswerWrites, RowsTyped, Audit
  <2>2. faults' \in 0..MaxFaults
    BY <1>4, FaultTyped DEF AnswerWrites, RowsTyped
  <2>3. Approve(w) \/ TurnAway(w)
    BY <1>4 DEF AnswerWrites
  <2> QED BY <1>4, <2>1, <2>2, <2>3, WebhookTyped DEF AnswerWrites, RowsTyped
<1> QED BY <1>1, <1>2, <1>3, <1>4

LEMMA StreamsKeepRows ==
  ASSUME RowsTyped, NEW x \in Streams,
         Opens(x) \/ Start(x) \/ ClaimReads(x) \/ ClaimWrites(x) \/ StreamCloses(x) \/ Drained(x) \/ StartTimer(x)
  PROVE  RowsTyped'
<1>1. CASE Opens(x)
  BY <1>1, UnfrozenAudit DEF Opens, RowsTyped, Connection
<1>2. CASE Start(x)
  <2>1. CASE stream' = [stream EXCEPT ![x].at = "reading"] /\ UNCHANGED served
    BY <1>2, <2>1 DEF Start, RowsTyped, Connection
  <2>2. CASE Serve(x) \/ Rejected(x)
    BY <1>2, <2>2, ServeTyped, RejectedTyped DEF Start, RowsTyped
  <2> QED BY <1>2, <2>1, <2>2 DEF Start
<1>3. CASE ClaimReads(x)
  <2>1. CASE stream' = [stream EXCEPT ![x].at = "writing", ![x].audit = operation] /\ UNCHANGED served
    BY <1>3, <2>1 DEF ClaimReads, RowsTyped, Connection
  <2>2. CASE Rejected(x)
    BY <1>3, <2>2, RejectedTyped DEF ClaimReads, RowsTyped
  <2> QED BY <1>3, <2>1, <2>2 DEF ClaimReads
<1>4. CASE ClaimWrites(x)
  <2>1. operation' \in Audit
    BY <1>4 DEF ClaimWrites, RowsTyped, Audit
  <2>2. faults' \in 0..MaxFaults
    BY <1>4, FaultTyped DEF ClaimWrites, RowsTyped
  <2>3. Serve(x) \/ Rejected(x)
    BY <1>4 DEF ClaimWrites
  <2> QED BY <1>4, <2>1, <2>2, <2>3, ServeTyped, RejectedTyped DEF ClaimWrites, RowsTyped
<1>5. ASSUME StreamCloses(x) PROVE RowsTyped'
  <2> DEFINE at == CASE stream[x].at = "served" -> "draining"
                     [] stream[x].at = "waiting" -> "over"
                     [] OTHER -> stream[x].at
             c == [stream[x] EXCEPT !.open = FALSE, !.timer = FALSE, !.at = at]
  <2>1. stream[x] \in Connection
    BY DEF RowsTyped
  <2>2. at \in {"new", "waiting", "reading", "writing", "served", "draining", "over"}
    <3>1. CASE stream[x].at = "served"
      BY <3>1
    <3>2. CASE stream[x].at = "waiting"
      BY <3>2
    <3>3. CASE stream[x].at \notin {"served", "waiting"}
      BY <2>1, <3>3 DEF Connection
    <3> QED BY <3>1, <3>2, <3>3
  <2> HIDE DEF at
  <2>3. c \in Connection
    BY <2>1, <2>2 DEF Connection
  <2>4. stream' = [stream EXCEPT ![x] = c]
    BY <1>5, <2>1 DEF StreamCloses, at, Connection
  <2> HIDE DEF c
  <2> QED BY <1>5, <2>3, <2>4 DEF StreamCloses, RowsTyped
<1>6. CASE Drained(x)
  BY <1>6 DEF Drained, RowsTyped, Connection
<1>7. CASE StartTimer(x)
  BY <1>7, <1>5 DEF StartTimer
<1> QED BY <1>1, <1>2, <1>3, <1>4, <1>5, <1>6, <1>7

LEMMA SocketsKeepRows ==
  ASSUME RowsTyped, NEW s \in Sockets, SocketOpens(s) \/ SocketCloses(s) \/ Message(s)
  PROVE  RowsTyped'
BY DEF RowsTyped, SocketOpens, SocketCloses, Message

LEMMA RestartKeepsRows == RowsTyped /\ Restart => RowsTyped'
<1> SUFFICES ASSUME RowsTyped, Restart PROVE RowsTyped'
  OBVIOUS
<1>1. post' \in [Posts -> {"new", "placed", "recording", "recorded", "completed", "failed"}]
  BY DEF Restart, RowsTyped
<1>2. webhook' \in [Webhooks -> Fetch]
  BY OverTyped DEF Restart, RowsTyped
<1>3. stream' \in [Streams -> Connection]
  BY GoneTyped DEF Restart, RowsTyped
<1>4. faults' \in 0..MaxFaults
  BY FaultTyped DEF Restart
<1> QED BY <1>1, <1>2, <1>3, <1>4 DEF Restart, RowsTyped

LEMMA RowsKept == RowsTyped /\ [AdmissionNext]_admissionVars => RowsTyped'
<1> SUFFICES ASSUME RowsTyped, [AdmissionNext]_admissionVars PROVE RowsTyped'
  OBVIOUS
<1>1. CASE Sweep
  BY <1>1 DEF Sweep, RowsTyped
<1> QED BY <1>1, PostsKeepRows, WebhooksKeepRows, StreamsKeepRows, SocketsKeepRows, RestartKeepsRows, RowsFrame DEF AdmissionNext

LEMMA RowsStart == AdmissionInit => RowsTyped
<1> SUFFICES ASSUME AdmissionInit PROVE RowsTyped
  OBVIOUS
<1>1. webhook \in [Webhooks -> Fetch]
  BY UnfrozenAudit DEF AdmissionInit, Fetch
<1>2. stream \in [Streams -> Connection]
  BY UnfrozenAudit DEF AdmissionInit, Connection
<1>3. faults \in 0..MaxFaults
  BY AdmissionAssumption DEF AdmissionInit
<1> QED BY <1>1, <1>2, <1>3, UnfrozenAudit DEF AdmissionInit, RowsTyped

-----------------------------------------------------------------------------
\* One stream for a frozen configuration.

\* A stream that is let in or turned away is not about to claim; the others are as they were.
LEMMA OthersWait ==
  ASSUME RowsTyped, NEW x \in Streams, Serve(x) \/ Rejected(x)
  PROVE  \A y \in Streams : stream'[y].at = "writing" => stream'[y] = stream[y]
<1>1. CASE stream' = [stream EXCEPT ![x] = Gone]
  BY <1>1, GoneTyped DEF RowsTyped
<1>2. CASE stream' = [stream EXCEPT ![x] = [Gone EXCEPT !.at = "served", !.open = TRUE]]
  <2> DEFINE c == [Gone EXCEPT !.at = "served", !.open = TRUE]
  <2>1. c.at = "served"
    BY GoneTyped DEF Connection
  <2> HIDE DEF c
  <2>2. stream' = [stream EXCEPT ![x] = c]
    BY <1>2 DEF c
  <2> QED BY <2>1, <2>2 DEF RowsTyped
<1> QED BY <1>1, <1>2 DEF Serve, Rejected

\* A stream that is let in by a claim is the first, and the row is claimed.
LEMMA ServeAfterClaim ==
  ASSUME RowsTyped, Claims, NEW x \in Streams, ClaimWrites(x), Serve(x),
         operation = stream[x].audit, operation' = [operation EXCEPT !.claimed = TRUE],
         stream[x].at = "writing"
  PROVE  Claims'
<1>1. ~operation.claimed /\ operation'.claimed
  BY DEF Claims, RowsTyped, Audit
<1>2. kind' = kind
  BY DEF ClaimWrites
<1>3. kind = "frozen" => served' \subseteq {x}
  BY <1>1 DEF Claims, Serve
<1>4. \A y \in Streams : stream'[y].at = "writing" => stream'[y] = stream[y]
  BY OthersWait
<1> QED BY <1>1, <1>2, <1>3, <1>4 DEF Claims

\* Nobody is let in: the row keeps its claim, and who is about to claim was so before.
LEMMA NobodyServed ==
  ASSUME Claims, UNCHANGED <<kind, served>>, operation.claimed => operation'.claimed,
         \A y \in Streams : stream'[y].at = "writing" =>
             stream'[y].audit = stream[y].audit /\ stream[y].at = "writing"
  PROVE  Claims'
BY DEF Claims

LEMMA StreamsKeepClaims ==
  ASSUME RowsTyped, Claims, NEW x \in Streams,
         Opens(x) \/ Start(x) \/ ClaimReads(x) \/ ClaimWrites(x) \/ StreamCloses(x) \/ Drained(x) \/ StartTimer(x)
  PROVE  Claims'
<1>0. kind' = kind
  BY DEF Opens, Start, ClaimReads, ClaimWrites, StreamCloses, Drained, StartTimer
<1>1. CASE Opens(x)
  BY <1>1, NobodyServed DEF Opens, RowsTyped
<1>2. CASE Start(x)
  <2>1. CASE kind = "frozen"
    <3>1. stream' = [stream EXCEPT ![x].at = "reading"] /\ UNCHANGED <<kind, served, operation>>
      BY <1>2, <2>1 DEF Start
    <3>2. \A y \in Streams : stream'[y].at = "writing" => stream'[y] = stream[y]
      BY <3>1 DEF RowsTyped, Connection
    <3> QED BY <3>1, <3>2, NobodyServed
  <2>2. CASE kind # "frozen"
    <3>1. \A y \in Streams : stream'[y].at = "writing" => stream'[y] = stream[y]
      BY <1>2, <2>2, OthersWait DEF Start
    <3> QED BY <1>0, <2>2, <3>1 DEF Claims
  <2> QED BY <2>1, <2>2
<1>3. CASE ClaimReads(x)
  <2>1. CASE Unclaimed(operation) /\ stream' = [stream EXCEPT ![x].at = "writing", ![x].audit = operation] /\ UNCHANGED served
    <3>1. \A y \in Streams : stream'[y].at = "writing" => ~stream'[y].audit.claimed
      BY <2>1 DEF Claims, Unclaimed, RowsTyped, Connection
    <3> QED BY <1>3, <2>1, <3>1 DEF Claims, ClaimReads
  <2>2. CASE Rejected(x)
    BY <1>3, <2>2, NobodyServed DEF ClaimReads, Rejected, Gone, RowsTyped
  <2> QED BY <1>3, <2>1, <2>2 DEF ClaimReads
<1>4. CASE ClaimWrites(x)
  <2>1. CASE Rejected(x)
    <3>1. operation.claimed => operation'.claimed
      BY <1>4 DEF ClaimWrites, RowsTyped, Audit
    <3> QED BY <1>4, <2>1, <3>1, NobodyServed DEF ClaimWrites, Rejected, Gone, RowsTyped
  <2>2. CASE operation = stream[x].audit /\ operation' = [operation EXCEPT !.claimed = TRUE] /\ Serve(x)
    BY <1>4, <2>2, ServeAfterClaim DEF ClaimWrites
  <2> QED BY <1>4, <2>1, <2>2 DEF ClaimWrites
<1>5. ASSUME StreamCloses(x) PROVE Claims'
  <2>1. \A y \in Streams : stream'[y].at = "writing" => stream'[y].audit = stream[y].audit /\ stream[y].at = "writing"
    BY <1>5 DEF StreamCloses, RowsTyped, Connection
  <2> QED BY <1>5, <2>1, NobodyServed DEF StreamCloses
<1>6. CASE Drained(x)
  BY <1>6, NobodyServed DEF Drained, RowsTyped, Connection
<1>7. CASE StartTimer(x)
  BY <1>7, <1>5 DEF StartTimer
<1> QED BY <1>1, <1>2, <1>3, <1>4, <1>5, <1>6, <1>7

LEMMA ClaimsKept == RowsTyped /\ Claims /\ [AdmissionNext]_admissionVars => Claims'
<1> SUFFICES ASSUME RowsTyped, Claims, [AdmissionNext]_admissionVars PROVE Claims'
  OBVIOUS
<1>1. ASSUME NEW p \in Posts, Place(p) \/ StoreConfig(p) \/ Completes(p) \/ PostFails(p) PROVE Claims'
  <2>1. operation.claimed => operation'.claimed
    BY <1>1 DEF Place, StoreConfig, Completes, PostFails, RowsTyped, Audit
  <2> QED BY <1>1, <2>1 DEF Place, StoreConfig, Completes, PostFails, Claims
<1>2. ASSUME NEW w \in Webhooks, IncomingCall(w) \/ OutboundAnswer(w) \/ AnswerReads(w) \/ AnswerWrites(w) PROVE Claims'
  <2>1. operation.claimed => operation'.claimed
    BY <1>2 DEF IncomingCall, OutboundAnswer, AnswerReads, AnswerWrites, RowsTyped, Audit
  <2> QED BY <1>2, <2>1 DEF IncomingCall, OutboundAnswer, AnswerReads, AnswerWrites, Claims
<1>3. ASSUME NEW s \in Sockets, SocketOpens(s) \/ SocketCloses(s) \/ Message(s) PROVE Claims'
  BY <1>3 DEF SocketOpens, SocketCloses, Message, Claims
<1>4. CASE Sweep
  BY <1>4 DEF Sweep, Claims
<1>5. CASE Restart
  BY <1>5, NobodyServed DEF Restart, Gone, RowsTyped
<1>6. CASE UNCHANGED admissionVars
  BY <1>6 DEF admissionVars, Claims
<1> QED BY <1>1, <1>2, <1>3, <1>4, <1>5, <1>6, StreamsKeepClaims DEF AdmissionNext

LEMMA ClaimsGiveOne == RowsTyped /\ Claims => OneStreamPerOperation
<1> SUFFICES ASSUME RowsTyped, Claims, kind = "frozen" PROVE Cardinality(served) <= 1
  BY DEF OneStreamPerOperation
<1>1. CASE served = {}
  BY <1>1, FS_EmptySet
<1>2. CASE served # {}
  <2>1. PICK x \in served : served = {x}
    BY <1>2 DEF Claims
  <2>2. Cardinality({x}) = 1
    BY FS_Singleton
  <2> QED BY <2>1, <2>2
<1> QED BY <1>1, <1>2

\* The configuration frozen in an operation serves one stream, however often handshakes are
\* repeated, raced, or retried after a restart.
THEOREM AdmissionOneStream == AdmissionSpec => []OneStreamPerOperation
<1>1. AdmissionInit => Claims
  BY DEF AdmissionInit, Claims
<1>2. RowsTyped /\ Claims /\ [AdmissionNext]_admissionVars => (RowsTyped /\ Claims)'
  BY RowsKept, ClaimsKept
<1> QED BY <1>1, <1>2, RowsStart, ClaimsGiveOne, PTL DEF AdmissionSpec

-----------------------------------------------------------------------------
\* The handover of sessions.

LEMMA NobodyIsNoSocket == Nobody \notin Sockets
BY AdmissionAssumption DEF Sockets

LEMMA UnusedWell == Well(Unused) /\ Unused \in Socket
BY AdmissionAssumption DEF Well, Unused, Socket

\* One socket changes, and stays well; it is in the map only if it is ready.
LEMMA OneSocketChanges ==
  ASSUME SocketsTyped, NEW s \in Sockets, NEW c \in Socket,
         socket' = [socket EXCEPT ![s] = c], pending' \in {pending, s, Nobody},
         pending # s /\ pending' = s => pending = Nobody,
         Well(c), pending' = s => Ready(c)
  PROVE  SocketsTyped'
<1>1. socket' \in [Sockets -> Socket] /\ pending' \in Sockets \cup {Nobody}
  BY DEF SocketsTyped
<1>2. \A r \in Sockets : Well(socket'[r]) /\ (pending' = r => Ready(socket'[r]))
  <2>1. ASSUME NEW r \in Sockets, r # s PROVE Well(socket'[r]) /\ (pending' = r => Ready(socket'[r]))
    <3>1. socket'[r] = socket[r]
      BY <2>1 DEF SocketsTyped
    <3>2. pending' = r => pending = r
      BY <2>1, NobodyIsNoSocket
    <3> QED BY <3>1, <3>2 DEF SocketsTyped
  <2>2. socket'[s] = c
    BY DEF SocketsTyped
  <2> QED BY <2>1, <2>2
<1> QED BY <1>1, <1>2 DEF SocketsTyped

LEMMA ConnectWell ==
  ASSUME SocketsTyped, NEW s \in Sockets, NEW x \in Streams \cup {Nobody}, Opening(s),
         socket' = Connect(s, x), pending' = Nobody \/ (x = Nobody /\ pending = Nobody /\ pending' = s)
  PROVE  SocketsTyped'
<1> DEFINE c == [Unused EXCEPT !.at = "connecting", !.by = x, !.ahead = (x = Nobody)]
<1>1. c \in Socket
  BY UnusedWell DEF Socket
<1>2. /\ c.at = "connecting" /\ c.by = x /\ c.updates = 0 /\ c.greetings = 0
      /\ c.sent = 0 /\ c.kept = 0 /\ c.handled = 0
  BY DEF Unused
<1>3. socket' = [socket EXCEPT ![s] = c]
  BY DEF Connect
<1> HIDE DEF c
<1>4. Well(c)
  BY <1>1, <1>2 DEF Well
<1>5. pending' = s => Ready(c)
  BY <1>2, NobodyIsNoSocket DEF Ready
<1>6. pending' \in {pending, s, Nobody} /\ (pending # s /\ pending' = s => pending = Nobody)
  BY NobodyIsNoSocket
<1> QED BY <1>1, <1>3, <1>4, <1>5, <1>6, OneSocketChanges

LEMMA PreconnectKeeps ==
  ASSUME SocketsTyped, Preconnect
  PROVE  SocketsTyped'
<1>1. CASE UNCHANGED <<pending, socket>>
  BY <1>1 DEF SocketsTyped
<1>2. CASE \E s \in Sockets : /\ pending = Nobody /\ Opening(s)
                             /\ pending' = s /\ socket' = Connect(s, Nobody)
  BY <1>2, ConnectWell
<1> QED BY <1>1, <1>2 DEF Preconnect

LEMMA StartSessionKeeps ==
  ASSUME SocketsTyped, NEW x \in Streams, StartSession(x)
  PROVE  SocketsTyped'
<1>0. pending' = Nobody
  BY DEF StartSession
<1>1. ASSUME NEW s \in Adoptable, socket' = [socket EXCEPT ![s] = Adopted(@, x)] PROVE SocketsTyped'
  <2> DEFINE c == Adopted(socket[s], x)
  <2>1. s \in Sockets /\ pending = s /\ socket[s].at \in {"connecting", "open"}
    BY DEF Adoptable
  <2>2. socket[s] \in Socket /\ Well(socket[s]) /\ Ready(socket[s])
    BY <2>1 DEF SocketsTyped
  <2>3. /\ c \in Socket /\ c.at = socket[s].at /\ c.by = x /\ c.updates = socket[s].updates
        /\ c.sent = socket[s].sent /\ c.handled = socket[s].kept
        /\ c.greetings = IF c.at = "open" THEN 1 ELSE 0
    BY <2>2 DEF Adopted, Socket
  <2> HIDE DEF c
  <2>4. Well(c)
    BY <2>1, <2>2, <2>3 DEF Well, Ready, Socket
  <2>5. socket' = [socket EXCEPT ![s] = c]
    BY <1>1, <2>1 DEF c, SocketsTyped
  <2> QED BY <1>0, <2>1, <2>3, <2>4, <2>5, NobodyIsNoSocket, OneSocketChanges
<1>2. ASSUME NEW s \in Sockets, Opening(s), socket' = Connect(s, x) PROVE SocketsTyped'
  BY <1>0, <1>2, ConnectWell
<1>3. CASE UNCHANGED socket
  BY <1>0, <1>3, NobodyIsNoSocket DEF SocketsTyped
<1> QED BY <1>1, <1>2, <1>3 DEF StartSession

LEMMA SweepKeeps ==
  ASSUME SocketsTyped, Sweep
  PROVE  SocketsTyped'
<1> DEFINE c == ClosedQuietly(socket[pending])
<1>1. pending \in Sockets /\ pending' = Nobody /\ socket' = [socket EXCEPT ![pending] = c]
  BY DEF Sweep, Discard, SocketsTyped
<1>2. socket[pending] \in Socket /\ Well(socket[pending]) /\ Ready(socket[pending])
  BY <1>1 DEF SocketsTyped
<1> DEFINE at == CASE socket[pending].at = "connecting" -> "closed"
                   [] socket[pending].at = "open" -> "closing"
                   [] OTHER -> socket[pending].at
<1>3. at \in {"closing", "closed"}
  <2>1. CASE socket[pending].at = "connecting"
    BY <2>1
  <2>2. CASE socket[pending].at = "open"
    BY <2>2
  <2>3. CASE socket[pending].at \notin {"connecting", "open"}
    BY <1>2, <2>3 DEF Ready, Socket
  <2> QED BY <2>1, <2>2, <2>3
<1>4. c = [socket[pending] EXCEPT !.at = at]
  BY DEF ClosedQuietly
<1> HIDE DEF at, c
<1>5. c \in Socket /\ Well(c)
  BY <1>2, <1>3, <1>4 DEF Socket, Well, Ready
<1> QED BY <1>1, <1>5, NobodyIsNoSocket, OneSocketChanges

LEMMA SocketOpensKeeps ==
  ASSUME SocketsTyped, NEW s \in Sockets, SocketOpens(s)
  PROVE  SocketsTyped'
<1> DEFINE updates == socket[s].updates + 1
           greetings == IF socket[s].by = Nobody THEN socket[s].greetings ELSE socket[s].greetings + 1
           c == [socket[s] EXCEPT !.at = "open", !.updates = updates, !.greetings = greetings]
<1>1. socket[s] \in Socket /\ Well(socket[s]) /\ (pending = s => Ready(socket[s]))
      /\ socket[s].at = "connecting"
  BY DEF SocketsTyped, SocketOpens
<1>2. socket' = [socket EXCEPT ![s] = c] /\ pending' = pending
  BY DEF SocketOpens, SocketsTyped
<1>3. socket[s].updates = 0 /\ socket[s].greetings = 0
  BY <1>1 DEF Well, Socket
<1>a. updates = 1 /\ updates \in Nat
  BY <1>3
<1>b. greetings = (IF socket[s].by = Nobody THEN 0 ELSE 1) /\ greetings \in Nat
  BY <1>3
<1> HIDE DEF updates, greetings
<1>4. /\ c \in Socket /\ c.at = "open" /\ c.by = socket[s].by /\ c.updates = 1
      /\ c.greetings = (IF c.by = Nobody THEN 0 ELSE 1)
      /\ c.sent = socket[s].sent /\ c.handled = socket[s].handled /\ c.kept = socket[s].kept
  BY <1>1, <1>a, <1>b DEF Socket
<1> HIDE DEF c
<1>5. Well(c) /\ (pending = s => Ready(c))
  BY <1>1, <1>4 DEF Well, Ready
<1> QED BY <1>2, <1>4, <1>5, OneSocketChanges

\* Closing a socket changes where it is, and an entry of the map goes with it.
LEMMA EndingKeeps ==
  ASSUME SocketsTyped, NEW s \in Sockets, NEW at \in {"closing", "closed"}, socket[s].at # "unused",
         socket' = [socket EXCEPT ![s].at = at],
         pending' = (IF pending = s /\ at = "closed" THEN Nobody ELSE pending)
  PROVE  SocketsTyped'
<1> DEFINE c == [socket[s] EXCEPT !.at = at]
<1>1. socket[s] \in Socket /\ Well(socket[s]) /\ (pending = s => Ready(socket[s]))
  BY DEF SocketsTyped
<1>2. socket' = [socket EXCEPT ![s] = c]
  BY DEF SocketsTyped
<1>3. c \in Socket /\ Well(c)
  BY <1>1 DEF Socket, Well
<1>4. pending' = s => Ready(c)
  BY <1>1, NobodyIsNoSocket DEF Ready, Socket
<1> HIDE DEF c
<1> QED BY <1>2, <1>3, <1>4, OneSocketChanges

LEMMA SocketClosesKeeps ==
  ASSUME SocketsTyped, NEW s \in Sockets, SocketCloses(s)
  PROVE  SocketsTyped'
<1>1. CASE socket[s].at = "open" /\ socket' = [socket EXCEPT ![s].at = "closing"] /\ UNCHANGED pending
  BY <1>1, EndingKeeps
<1>2. CASE socket[s].at \in {"connecting", "closing"} /\ socket' = [socket EXCEPT ![s].at = "closed"] /\ Forget(s)
  BY <1>2, EndingKeeps DEF Forget
<1> QED BY <1>1, <1>2 DEF SocketCloses

LEMMA MessageKeeps ==
  ASSUME SocketsTyped, NEW s \in Sockets, Message(s)
  PROVE  SocketsTyped'
<1> DEFINE sent == socket[s].sent + 1
           handled == IF socket[s].by = Nobody THEN socket[s].handled ELSE socket[s].handled + 1
           kept == IF pending = s THEN socket[s].kept + 1 ELSE socket[s].kept
           c == [socket[s] EXCEPT !.sent = sent, !.handled = handled, !.kept = kept]
<1>1. socket[s] \in Socket /\ Well(socket[s]) /\ (pending = s => Ready(socket[s]))
      /\ socket[s].at = "open" /\ socket[s].sent < MaxMessages
  BY DEF SocketsTyped, Message
<1>2. socket' = [socket EXCEPT ![s] = c] /\ pending' = pending
  BY DEF Message, SocketsTyped
<1>a. sent \in 0..MaxMessages
  BY <1>1, AdmissionAssumption DEF Socket
<1>b. handled \in Nat
  BY <1>1 DEF Socket
<1>c. kept \in Nat
  BY <1>1 DEF Socket
<1>d. sent = socket[s].sent + 1
      /\ handled = (IF socket[s].by = Nobody THEN socket[s].handled ELSE socket[s].handled + 1)
      /\ kept = (IF pending = s THEN socket[s].kept + 1 ELSE socket[s].kept)
  OBVIOUS
<1> HIDE DEF sent, handled, kept
<1>3. /\ c \in Socket /\ c.at = "open" /\ c.by = socket[s].by /\ c.updates = socket[s].updates
      /\ c.greetings = socket[s].greetings /\ c.sent = socket[s].sent + 1
      /\ c.handled = (IF c.by = Nobody THEN socket[s].handled ELSE socket[s].handled + 1)
      /\ c.kept = (IF pending = s THEN socket[s].kept + 1 ELSE socket[s].kept)
  BY <1>1, <1>a, <1>b, <1>c, <1>d DEF Socket
<1> HIDE DEF c
<1>4. Well(c) /\ (pending = s => Ready(c))
  BY <1>1, <1>3 DEF Well, Ready
<1> QED BY <1>2, <1>3, <1>4, OneSocketChanges

LEMMA DrainedKeeps ==
  ASSUME SocketsTyped, NEW x \in Streams, Drained(x)
  PROVE  SocketsTyped'
<1>1. pending' = pending
  BY DEF Drained
<1>2. ASSUME NEW s \in Sockets
      PROVE  socket'[s] \in Socket /\ Well(socket'[s]) /\ (pending' = s => Ready(socket'[s]))
  <2>1. socket[s] \in Socket /\ Well(socket[s]) /\ (pending = s => Ready(socket[s]))
    BY DEF SocketsTyped
  <2>2. CASE socket'[s] = socket[s]
    BY <1>1, <2>1, <2>2
  <2>3. CASE socket[s].by = x /\ socket[s].at = "open" /\ socket'[s] = [socket[s] EXCEPT !.at = "closing"]
    <3>1. pending # s
      BY <2>1, <2>3, AdmissionAssumption DEF Ready
    <3> QED BY <1>1, <2>1, <2>3, <3>1 DEF Well, Socket
  <2> QED BY <2>2, <2>3 DEF Drained
<1> QED BY <1>1, <1>2 DEF Drained, SocketsTyped

LEMMA RestartKeepsSockets ==
  ASSUME SocketsTyped, Restart
  PROVE  SocketsTyped'
<1>1. pending' = Nobody
  BY DEF Restart
<1>2. ASSUME NEW s \in Sockets PROVE socket'[s] \in Socket /\ Well(socket'[s])
  <2>1. socket[s] \in Socket /\ Well(socket[s])
    BY DEF SocketsTyped
  <2>2. CASE socket'[s] = socket[s]
    BY <2>1, <2>2
  <2>3. CASE socket'[s] = [socket[s] EXCEPT !.at = "closed"]
    BY <2>1, <2>3 DEF Well, Socket
  <2> QED BY <2>2, <2>3 DEF Restart
<1> QED BY <1>1, <1>2, NobodyIsNoSocket DEF Restart, SocketsTyped

LEMMA SocketsKept == SocketsTyped /\ [AdmissionNext]_admissionVars => SocketsTyped'
<1> SUFFICES ASSUME SocketsTyped, [AdmissionNext]_admissionVars PROVE SocketsTyped'
  OBVIOUS
<1>0. UNCHANGED <<pending, socket>> => SocketsTyped'
  BY DEF SocketsTyped
<1>1. ASSUME NEW p \in Posts, Place(p) \/ StoreConfig(p) \/ Completes(p) \/ PostFails(p) PROVE SocketsTyped'
  BY <1>0, <1>1 DEF Place, StoreConfig, Completes, PostFails
<1>2. ASSUME NEW w \in Webhooks, IncomingCall(w) \/ OutboundAnswer(w) \/ AnswerReads(w) \/ AnswerWrites(w) PROVE SocketsTyped'
  <2>1. Approve(w) => SocketsTyped'
    BY PreconnectKeeps DEF Approve
  <2>2. TurnAway(w) => UNCHANGED <<pending, socket>>
    BY DEF TurnAway
  <2> QED BY <1>0, <1>2, <2>1, <2>2 DEF IncomingCall, OutboundAnswer, AnswerReads, AnswerWrites
<1>3. ASSUME NEW x \in Streams, Opens(x) \/ Start(x) \/ ClaimReads(x) \/ ClaimWrites(x) \/ StreamCloses(x) \/ Drained(x) \/ StartTimer(x)
      PROVE  SocketsTyped'
  <2>1. Serve(x) => SocketsTyped'
    BY <1>0, StartSessionKeeps DEF Serve
  <2>2. Rejected(x) => UNCHANGED <<pending, socket>>
    BY DEF Rejected
  <2>3. StreamCloses(x) => UNCHANGED <<pending, socket>>
    BY DEF StreamCloses
  <2> QED BY <1>0, <1>3, <2>1, <2>2, <2>3, DrainedKeeps DEF Opens, Start, ClaimReads, ClaimWrites, StartTimer
<1>4. ASSUME NEW s \in Sockets, SocketOpens(s) \/ SocketCloses(s) \/ Message(s) PROVE SocketsTyped'
  BY <1>4, SocketOpensKeeps, SocketClosesKeeps, MessageKeeps
<1>5. UNCHANGED admissionVars => SocketsTyped'
  BY <1>0 DEF admissionVars
<1> QED BY <1>1, <1>2, <1>3, <1>4, <1>5, SweepKeeps, RestartKeepsSockets DEF AdmissionNext

LEMMA SocketsStart == AdmissionInit => SocketsTyped
BY UnusedWell, NobodyIsNoSocket DEF AdmissionInit, SocketsTyped

\* Types; a socket in the map is nobody's and has not closed.
THEOREM AdmissionTypes == AdmissionSpec => []AdmissionTypeOK
<1>1. RowsTyped /\ SocketsTyped /\ [AdmissionNext]_admissionVars => (RowsTyped /\ SocketsTyped)'
  BY RowsKept, SocketsKept
<1> QED BY <1>1, RowsStart, SocketsStart, InvariantsGiveTypeOK, PTL DEF AdmissionSpec

LEMMA SocketsGiveHandover == SocketsTyped => HandoverIsExact
BY DEF SocketsTyped, Well, HandoverIsExact

\* A session is handed over, at any point of its handshake, without a message lost or handled
\* twice, and a stream's open session has been configured once and greeted once.
THEOREM AdmissionHandover == AdmissionSpec => []HandoverIsExact
<1> QED BY SocketsStart, SocketsKept, SocketsGiveHandover, PTL DEF AdmissionSpec

\* For any number of webhooks, streams, sockets and restarts: one stream has what was frozen, and a
\* session opened ahead is handed over whole.
THEOREM AdmissionStreams == AdmissionSpec => []StreamsGetTheirOwn
BY AdmissionOneStream, AdmissionHandover, PTL DEF StreamsGetTheirOwn

-----------------------------------------------------------------------------
(* The call *)

TurnsTyped ==
  /\ turns \in Controller
  /\ active \in [Responses -> Nat \cup {None}]
  /\ seen \subseteq Responses
  /\ run \in [Responses -> Loop]
  /\ executed \in [Responses -> Nat]
LineTyped ==
  /\ line \in Line
  /\ marks \subseteq Responses
  /\ twilio \in [buffered : SUBSET Responses, echoes : SUBSET Responses]
WordsTyped ==
  /\ words \in Words
  /\ drain \in Drain
  /\ drain.flushes = IF drain.finalized THEN 1 ELSE 0
  /\ openAiWs \in {"connecting", "open", "closing", "closed"}
RequestsTyped == requests \in Seq(Answer)
\* a caller who is speaking, or has just stopped, has a turn
SpokenTurn == server.caller # "silent" => server.turn # 0
ProviderTyped ==
  /\ server \in Server
  /\ SpokenTurn
  /\ response \in [Responses -> Reply]

Typed == TurnsTyped /\ LineTyped /\ WordsTyped /\ RequestsTyped /\ ProviderTyped /\ generation \in Nat

LEMMA TypedImpliesTypeOK == Typed => TypeOK
BY DEF Typed, TypeOK, TurnsTyped, LineTyped, WordsTyped, RequestsTyped, ProviderTyped, SpokenTurn

-----------------------------------------------------------------------------
\* What the functions of a line return.

LEMMA UnarmedLine ==
  ASSUME NEW l \in Line
  PROVE  /\ Unarmed(l) \in Line
         /\ Unarmed(l).open = l.open /\ Unarmed(l).how = l.how /\ Unarmed(l).goodbye = l.goodbye
         /\ Unarmed(l).closed = l.closed /\ Unarmed(l).received = l.received
         /\ Unarmed(l).timer = None /\ Unarmed(l).armed \subseteq l.armed
BY DEF Unarmed, Line

LEMMA EndCallLine ==
  ASSUME NEW l \in Line, NEW how \in {"played", "timeout", "limit"}
  PROVE  /\ EndCall(l, how) \in Line
         /\ EndCall(l, how).open => l.open
         /\ EndCall(l, how).how \in {l.how, how}
         /\ ~l.open => EndCall(l, how).how = l.how
         /\ EndCall(l, how).goodbye \in {l.goodbye, None}
         /\ EndCall(l, how).closed = l.closed /\ EndCall(l, how).received = l.received
         /\ EndCall(l, how).timer \in {l.timer, None} /\ EndCall(l, how).armed \subseteq l.armed
<1> DEFINE u == Unarmed(l)
<1>1. u \in Line /\ u.open = l.open /\ u.how = l.how /\ u.goodbye = l.goodbye
      /\ u.closed = l.closed /\ u.received = l.received
      /\ u.timer = None /\ u.armed \subseteq l.armed
  BY UnarmedLine
<1>2. EndCall(l, how) = IF l.ending THEN l
        ELSE [u EXCEPT !.ending = TRUE, !.goodbye = None, !.limit = FALSE,
                       !.how = IF l.open THEN how ELSE @, !.open = FALSE]
  BY DEF EndCall
<1> HIDE DEF u
<1>3. CASE l.ending
  BY <1>2, <1>3
<1>4. CASE ~l.ending /\ l.open
  <2>1. EndCall(l, how) = [u EXCEPT !.ending = TRUE, !.goodbye = None, !.limit = FALSE,
                                    !.how = how, !.open = FALSE]
    BY <1>2, <1>4
  <2>2. EndCall(l, how) \in Line
    BY <1>1, <2>1 DEF Line
  <2> QED
    BY <1>1, <1>4, <2>1, <2>2 DEF Line
<1>5. CASE ~l.ending /\ ~l.open
  <2>1. EndCall(l, how) = [u EXCEPT !.ending = TRUE, !.goodbye = None, !.limit = FALSE,
                                    !.open = FALSE]
    BY <1>1, <1>2, <1>5 DEF Line
  <2>2. EndCall(l, how) \in Line
    BY <1>1, <2>1 DEF Line
  <2> QED
    BY <1>1, <1>5, <2>1, <2>2 DEF Line
<1> QED
  BY <1>3, <1>4, <1>5

LEMMA ArmedLine ==
  ASSUME NEW l \in Line, NEW r \in Responses
  PROVE  /\ Armed(l, r) \in Line
         /\ Armed(l, r).open = l.open /\ Armed(l, r).how = l.how
         /\ Armed(l, r).goodbye = l.goodbye
         /\ Armed(l, r).closed = l.closed /\ Armed(l, r).received = l.received
BY DEF Armed, Line

LEMMA AfterPlaybackLine ==
  ASSUME NEW l \in Line, NEW r \in Responses
  PROVE  /\ EndAfterPlayback(l, r) \in Line
         /\ EndAfterPlayback(l, r).open => l.open
         /\ EndAfterPlayback(l, r).how # l.how =>
              l.open /\ marks = {} /\ EndAfterPlayback(l, r).how = "played"
         /\ EndAfterPlayback(l, r).closed = l.closed
         /\ EndAfterPlayback(l, r).received = l.received
<1> DEFINE a == IF l.timer = None THEN Armed(l, r) ELSE l
<1>1. /\ a \in Line /\ a.open = l.open /\ a.how = l.how
      /\ a.closed = l.closed /\ a.received = l.received
  BY ArmedLine
<1>2. EndAfterPlayback(l, r) = IF l.ending THEN l
        ELSE IF marks = {} THEN EndCall(l, "played") ELSE [a EXCEPT !.goodbye = r]
  BY DEF EndAfterPlayback
<1>3. /\ [a EXCEPT !.goodbye = r] \in Line
      /\ [a EXCEPT !.goodbye = r].open = l.open /\ [a EXCEPT !.goodbye = r].how = l.how
      /\ [a EXCEPT !.goodbye = r].closed = l.closed
      /\ [a EXCEPT !.goodbye = r].received = l.received
  BY <1>1 DEF Line
<1> HIDE DEF a
<1> QED
  BY <1>2, <1>3, EndCallLine

-----------------------------------------------------------------------------
\* Types.

LEMMA AppendTyped ==
  ASSUME NEW S, NEW s \in Seq(S), NEW x \in S
  PROVE  Append(s, x) \in Seq(S)
OBVIOUS

LEMMA SendTyped ==
  ASSUME RequestsTyped, NEW t \in Responses \cup {None}, SendResponse(t)
  PROVE  RequestsTyped'
<1>1. [token |-> t] \in Answer
  BY DEF Answer
<1>2. requests \in Seq(Answer)
  BY DEF RequestsTyped
<1>3. Append(requests, [token |-> t]) \in Seq(Answer)
  BY <1>1, <1>2, AppendTyped
<1> QED
  BY <1>2, <1>3 DEF RequestsTyped, SendResponse

LEMMA ResumeTyped ==
  ASSUME RequestsTyped, NEW t \in Controller, NEW a, ResumePending(t, a)
  PROVE  RequestsTyped' /\ turns' \in Controller
<1>1. RequestsTyped'
  BY SendTyped DEF ResumePending, RequestsTyped
<1>2. turns' \in Controller
  BY DEF ResumePending, Controller, Resumes
<1> QED
  BY <1>1, <1>2

LEMMA ConcludeTyped ==
  ASSUME TurnsTyped, LineTyped, RequestsTyped,
         NEW r \in Responses, NEW reply, NEW l \in Loop, NEW t \in Controller,
         active' \in [Responses -> Nat \cup {None}], seen' \subseteq Responses,
         UNCHANGED <<marks, twilio>>, Conclude(r, reply, l, t)
  PROVE  TurnsTyped' /\ LineTyped' /\ RequestsTyped'
<1> DEFINE over == [t EXCEPT !.deferred = FALSE]
           kept == [t EXCEPT !.deferred = @ \/ l.kept]
           ended == [l EXCEPT !.at = "over"]
<1>1. /\ over \in Controller /\ kept \in Controller
      /\ [over EXCEPT !.closing = TRUE] \in Controller
      /\ [over EXCEPT !.closing = TRUE, !.farewell = r] \in Controller
      /\ ended \in Loop
  BY DEF Controller, Loop
<1>2. run' = [run EXCEPT ![r] = ended] /\ UNCHANGED executed
  BY DEF Conclude
<1>3. run' \in [Responses -> Loop] /\ executed' \in [Responses -> Nat]
  BY <1>1, <1>2 DEF TurnsTyped
<1>4. line \in Line /\ marks \subseteq Responses
  BY DEF LineTyped
<1>5. turns' \in Controller /\ line' \in Line /\ RequestsTyped'
  <2>1. CASE ResumePending(kept, active') /\ UNCHANGED line
    BY <2>1, <1>1, <1>4, ResumeTyped
  <2>2. CASE /\ turns' = [over EXCEPT !.closing = TRUE]
             /\ line' = EndAfterPlayback(line, r) /\ UNCHANGED requests
    BY <2>2, <1>1, <1>4, AfterPlaybackLine DEF RequestsTyped
  <2>3. CASE /\ turns' = [over EXCEPT !.closing = TRUE, !.farewell = r]
             /\ SendResponse(r)
             /\ line' = IF Listening(line) THEN Armed(line, r) ELSE line
    BY <2>3, <1>1, <1>4, SendTyped, ArmedLine
  <2>4. CASE turns' = over /\ SendResponse(None) /\ UNCHANGED line
    BY <2>4, <1>1, <1>4, SendTyped
  <2> QED
    BY <2>1, <2>2, <2>3, <2>4 DEF Conclude
<1> QED
  BY <1>3, <1>5 DEF TurnsTyped, LineTyped

LEMMA ProceedTyped ==
  ASSUME TurnsTyped, LineTyped, RequestsTyped,
         NEW r \in Responses, NEW reply, NEW l \in Loop, NEW t \in Controller,
         active' \in [Responses -> Nat \cup {None}], seen' \subseteq Responses,
         UNCHANGED <<marks, twilio>>, Proceed(r, reply, l, t)
  PROVE  TurnsTyped' /\ LineTyped' /\ RequestsTyped'
<1>1. CASE Conclude(r, reply, l, t)
  BY <1>1, ConcludeTyped
<1>2. CASE /\ run' = [run EXCEPT ![r] = [l EXCEPT !.at = "running"]]
           /\ executed' = [executed EXCEPT ![r] = @ + 1]
           /\ turns' = t
           /\ UNCHANGED <<line, requests>>
  <2>1. [l EXCEPT !.at = "running"] \in Loop
    BY DEF Loop
  <2>2. executed[r] + 1 \in Nat
    BY DEF TurnsTyped
  <2> QED
    BY <1>2, <2>1, <2>2 DEF TurnsTyped, LineTyped, RequestsTyped
<1> QED
  BY <1>1, <1>2 DEF Proceed

LEMMA DoneTyped ==
  ASSUME Typed, NEW r \in Responses, NEW reply \in Reply, HandleDone(r, reply)
  PROVE  TurnsTyped' /\ LineTyped' /\ RequestsTyped' /\ WordsTyped' /\ generation' \in Nat
<1> DEFINE relieved == [turns EXCEPT !.awaiting = @ /\ active[r] # generation]
<1>1. relieved \in Controller /\ [relieved EXCEPT !.farewell = None] \in Controller
  BY DEF Typed, TurnsTyped, Controller
<1>2. WordsTyped' /\ generation' \in Nat /\ UNCHANGED <<marks, twilio>>
  BY DEF HandleDone, Typed, WordsTyped, wordVars
<1>3. CASE UNCHANGED <<turns, active, seen, run, executed, line, requests>>
  BY <1>2, <1>3 DEF Typed, TurnsTyped, LineTyped, RequestsTyped
<1>4. ASSUME seen' = seen \cup {r}, active' = [active EXCEPT ![r] = None]
      PROVE  seen' \subseteq Responses /\ active' \in [Responses -> Nat \cup {None}]
  BY <1>4 DEF Typed, TurnsTyped
<1>5. CASE /\ seen' = seen \cup {r} /\ active' = [active EXCEPT ![r] = None]
           /\ turns' = [relieved EXCEPT !.farewell = None]
           /\ line' = IF reply.status = "completed" /\ reply.speech
                      THEN EndAfterPlayback(line, r) ELSE line
           /\ UNCHANGED <<run, executed, requests>>
  <2>1. line' \in Line
    BY <1>5, AfterPlaybackLine DEF Typed, LineTyped
  <2> QED
    BY <1>1, <1>2, <1>4, <1>5, <2>1 DEF Typed, TurnsTyped, LineTyped, RequestsTyped
<1>6. CASE /\ seen' = seen \cup {r} /\ active' = [active EXCEPT ![r] = None]
           /\ ResumePending(relieved, active')
           /\ UNCHANGED <<run, executed, line>>
  <2>1. RequestsTyped' /\ turns' \in Controller
    BY <1>1, <1>6, ResumeTyped DEF Typed
  <2> QED
    BY <1>2, <1>4, <1>6, <2>1 DEF Typed, TurnsTyped, LineTyped
<1>7. CASE /\ seen' = seen \cup {r} /\ active' = [active EXCEPT ![r] = None]
           /\ Proceed(r, reply, [run[r] EXCEPT !.epoch = generation], relieved)
  <2>1. [run[r] EXCEPT !.epoch = generation] \in Loop
    <3>1. run[r] \in Loop /\ generation \in Nat
      BY DEF Typed, TurnsTyped
    <3> QED
      BY <3>1 DEF Loop
  <2> QED
    BY <1>1, <1>2, <1>4, <1>7, <2>1, ProceedTyped DEF Typed
<1> QED
  BY <1>2, <1>3, <1>5, <1>6, <1>7 DEF HandleDone

\* Lines of the Twilio side.
LEMMA LineStepsTyped ==
  ASSUME Typed, NEW r,
         EchoMark(r) \/ DrainTimer(r) \/ LimitTimer \/ HangUp \/ TwilioPlays(r)
  PROVE  Typed'
<1> USE DEF lineVars, turnVars, wordVars, providerVars
<1>1. line \in Line /\ marks \subseteq Responses
      /\ twilio \in [buffered : SUBSET Responses, echoes : SUBSET Responses]
  BY DEF Typed, LineTyped
<1>2. UNCHANGED <<turnVars, generation, wordVars, openAiWs, requests, providerVars>>
  BY DEF EchoMark, DrainTimer, LimitTimer, HangUp, TwilioPlays
<1>3. TurnsTyped' /\ WordsTyped' /\ RequestsTyped' /\ ProviderTyped' /\ generation' \in Nat
  BY <1>2 DEF Typed, TurnsTyped, WordsTyped, RequestsTyped, ProviderTyped, SpokenTurn
<1>4. LineTyped'
  <2>1. CASE EchoMark(r)
    BY <1>1, <2>1, EndCallLine DEF EchoMark, LineTyped, Acknowledged
  <2>2. CASE DrainTimer(r)
    <3>1. [line EXCEPT !.armed = @ \ {r}] \in Line
      BY <1>1 DEF Line
    <3> QED
      BY <1>1, <2>2, <3>1, EndCallLine DEF DrainTimer, LineTyped
  <2>3. CASE LimitTimer
    BY <1>1, <2>3, EndCallLine DEF LimitTimer, LineTyped
  <2>4. CASE HangUp
    BY <1>1, <2>4 DEF HangUp, LineTyped, Line
  <2>5. CASE TwilioPlays(r)
    BY <1>1, <2>5 DEF TwilioPlays, LineTyped
  <2> QED
    BY <2>1, <2>2, <2>3, <2>4, <2>5
<1> QED
  BY <1>3, <1>4 DEF Typed

LEMMA FinishDrain ==
  ASSUME NEW d \in Drain, d.flushes = IF d.finalized THEN 1 ELSE 0,
         NEW how \in {"settled", "timeout", "no_wait"}
  PROVE  /\ Finish(d, how) \in Drain /\ Finish(d, how).finalized
         /\ Finish(d, how).flushes = IF Finish(d, how).finalized THEN 1 ELSE 0
         /\ Finish(d, how).by = IF d.finalized THEN d.by ELSE how
         /\ Finish(d, how).providerClosed = d.providerClosed
<1>1. CASE d.finalized
  BY <1>1 DEF Finish
<1>2. CASE ~d.finalized
  <2>1. Finish(d, how) = [d EXCEPT !.finalized = TRUE, !.timer = FALSE, !.by = how, !.flushes = 1]
    <3>1. d.flushes + 1 = 1
      BY <1>2
    <3> QED
      BY <1>2, <3>1 DEF Finish
  <2> QED
    BY <1>2, <2>1 DEF Drain
<1> QED
  BY <1>1, <1>2

LEMMA SettleDrain ==
  ASSUME NEW d \in Drain, d.flushes = IF d.finalized THEN 1 ELSE 0, NEW w
  PROVE  /\ Settle(d, w) \in Drain
         /\ Settle(d, w).flushes = IF Settle(d, w).finalized THEN 1 ELSE 0
         /\ d.finalized => Settle(d, w).finalized /\ Settle(d, w).by = d.by
         /\ Settle(d, w).finalized /\ ~d.finalized =>
              Settle(d, w).by = "settled" /\ line.closed /\ (~HasPending(w) \/ d.providerClosed)
         /\ Settle(d, w).providerClosed = d.providerClosed
BY FinishDrain DEF Settle

\* The drain and the socket.
LEMMA DrainStepsTyped ==
  ASSUME Typed, MediaClosed \/ DrainTimeout \/ ProviderClosed \/ Opened
  PROVE  Typed'
<1> USE DEF lineVars, turnVars, wordVars, providerVars
<1>1. drain \in Drain /\ words \in Words /\ line \in Line /\ requests \in Seq(Answer)
      /\ drain.flushes = (IF drain.finalized THEN 1 ELSE 0)
      /\ openAiWs \in {"connecting", "open", "closing", "closed"}
  BY DEF Typed, WordsTyped, LineTyped, RequestsTyped
<1>2. UNCHANGED <<turnVars, generation, marks, twilio, words, providerVars>>
  BY DEF MediaClosed, DrainTimeout, ProviderClosed, Opened
<1>3. TurnsTyped' /\ ProviderTyped' /\ generation' \in Nat
  BY <1>2 DEF Typed, TurnsTyped, ProviderTyped, SpokenTurn
<1>4. LineTyped'
  <2>1. CASE MediaClosed
    <3> DEFINE u == Unarmed(line)
    <3>u. u \in Line
      BY <1>1, UnarmedLine
    <3> HIDE DEF u
    <3>v. [u EXCEPT !.closed = TRUE, !.limit = FALSE] \in Line
      BY <3>u DEF Line
    <3>1. [Unarmed(line) EXCEPT !.closed = TRUE, !.limit = FALSE] \in Line
      BY <3>v DEF u
    <3> QED
      BY <1>2, <2>1, <3>1 DEF MediaClosed, Typed, LineTyped
  <2>2. CASE UNCHANGED line
    BY <1>2, <2>2 DEF Typed, LineTyped
  <2> QED
    BY <2>1, <2>2 DEF DrainTimeout, ProviderClosed, Opened
<1>5. WordsTyped'
  <2>1. [drain EXCEPT !.timer = TRUE] \in Drain /\ [drain EXCEPT !.timer = FALSE] \in Drain
        /\ [drain EXCEPT !.providerClosed = TRUE] \in Drain
        /\ [drain EXCEPT !.timer = TRUE].flushes = drain.flushes
        /\ [drain EXCEPT !.timer = FALSE].flushes = drain.flushes
        /\ [drain EXCEPT !.providerClosed = TRUE].flushes = drain.flushes
        /\ [drain EXCEPT !.timer = TRUE].finalized = drain.finalized
        /\ [drain EXCEPT !.timer = FALSE].finalized = drain.finalized
        /\ [drain EXCEPT !.providerClosed = TRUE].finalized = drain.finalized
    BY <1>1 DEF Drain
  <2>2. /\ drain' \in Drain /\ drain'.flushes = IF drain'.finalized THEN 1 ELSE 0
        /\ openAiWs' \in {"connecting", "open", "closing", "closed"}
    <3>1. CASE MediaClosed
      BY <1>1, <2>1, <3>1, FinishDrain DEF MediaClosed, CloseSocket, Deadline
    <3>2. CASE DrainTimeout
      <4> DEFINE d == [drain EXCEPT !.timer = FALSE]
      <4>1. d \in Drain /\ d.flushes = IF d.finalized THEN 1 ELSE 0
        BY <1>1, <2>1
      <4>2. drain' = Finish(d, "timeout") /\ CloseSocket
        BY <3>2 DEF DrainTimeout
      <4> HIDE DEF d
      <4> QED
        BY <1>1, <4>1, <4>2, FinishDrain DEF CloseSocket
    <3>3. CASE ProviderClosed
      BY <1>1, <2>1, <3>3, SettleDrain DEF ProviderClosed
    <3>4. CASE Opened
      BY <1>1, <3>4 DEF Opened
    <3> QED
      BY <3>1, <3>2, <3>3, <3>4
  <2> QED
    BY <1>1, <1>2, <2>2 DEF WordsTyped
<1>6. RequestsTyped'
  <2>1. Greeting \in Seq(Answer) /\ <<>> \in Seq(Answer)
    <3>1. [token |-> None] \in Answer
      BY DEF Answer
    <3> QED
      BY <3>1 DEF Greeting
  <2>2. \A s \in Seq(Answer), t \in Seq(Answer) : s \o t \in Seq(Answer)
    OBVIOUS
  <2> QED
    BY <1>1, <2>1, <2>2 DEF MediaClosed, DrainTimeout, ProviderClosed, Opened, RequestsTyped
<1> QED
  BY <1>3, <1>4, <1>5, <1>6 DEF Typed

\* The provider makes a response.
LEMMA CreateTyped ==
  ASSUME Typed, NEW t \in Responses \cup {None}, NEW owes \in BOOLEAN, Create(t, owes)
  PROVE  TurnsTyped' /\ LineTyped' /\ WordsTyped' /\ ProviderTyped' /\ generation' \in Nat
<1> DEFINE r == server.created + 1
<1>1. server \in Server /\ SpokenTurn /\ response \in [Responses -> Reply]
      /\ active \in [Responses -> Nat \cup {None}] /\ generation \in Nat
  BY DEF Typed, ProviderTyped, SpokenTurn, TurnsTyped
<1>2. server.created \in 0..MaxResponses /\ server.created < MaxResponses
  BY <1>1 DEF Create, Server, SpokenTurn
<1>3. r \in Responses /\ r \in 0..MaxResponses
  BY <1>2, VoiceAssumption DEF Responses
<1> HIDE DEF r
<1>4. [status |-> "active", tools |-> <<>>, speech |-> FALSE, token |-> t] \in Reply
  BY DEF Reply
<1>5. /\ server' = [server EXCEPT !.active = r, !.created = r, !.owes = owes]
      /\ response' = [response EXCEPT ![r] = [status |-> "active", tools |-> <<>>,
                                              speech |-> FALSE, token |-> t]]
      /\ active' = [active EXCEPT ![r] = generation]
      /\ UNCHANGED <<turns, seen, run, executed, generation, lineVars, wordVars, openAiWs>>
  BY DEF Create, r
<1>6. server' \in Server /\ SpokenTurn'
  BY <1>1, <1>3, <1>5 DEF Server, SpokenTurn
<1>7. response' \in [Responses -> Reply]
  BY <1>1, <1>4, <1>5
<1>8. active' \in [Responses -> Nat \cup {None}]
  BY <1>1, <1>5
<1> QED
  BY <1>5, <1>6, <1>7, <1>8
     DEF Typed, TurnsTyped, LineTyped, WordsTyped, ProviderTyped, SpokenTurn, lineVars, wordVars

LEMMA AnswerTyped ==
  ASSUME Typed, ServerAnswers \/ ServerTurn
  PROVE  Typed'
<1>1. server \in Server /\ SpokenTurn /\ requests \in Seq(Answer) /\ generation \in Nat
  BY DEF Typed, ProviderTyped, SpokenTurn, RequestsTyped
<1>2. CASE ServerAnswers
  <2>1. requests # <<>> /\ requests' = Tail(requests)
    BY <1>2 DEF ServerAnswers
  <2>2. Head(requests) \in Answer /\ Tail(requests) \in Seq(Answer)
    BY <1>1, <2>1
  <2>3. Head(requests).token \in Responses \cup {None} /\ server.owes \in BOOLEAN
    BY <1>1, <2>2 DEF Answer, Server, SpokenTurn
  <2>4. CASE Create(Head(requests).token, server.owes)
    BY <2>1, <2>2, <2>3, <2>4, CreateTyped DEF Typed, RequestsTyped
  <2>5. CASE UNCHANGED server /\ Refuse
    BY <2>1, <2>2, <2>5 DEF Refuse, Typed, TurnsTyped, LineTyped, WordsTyped, ProviderTyped, SpokenTurn,
       RequestsTyped, turnVars, lineVars, wordVars
  <2> QED
    BY <1>2, <2>4, <2>5 DEF ServerAnswers
<1>3. CASE ServerTurn
  <2>1. UNCHANGED requests
    BY <1>3 DEF ServerTurn
  <2>2. CASE Create(None, FALSE)
    BY <2>1, <2>2, CreateTyped DEF Typed, RequestsTyped
  <2>3. CASE server' = [server EXCEPT !.owes = FALSE] /\ Refuse
    <3>1. server' \in Server /\ SpokenTurn'
      BY <1>1, <2>3 DEF Server, SpokenTurn
    <3> QED
      BY <2>1, <2>3, <3>1 DEF Refuse, Typed, TurnsTyped, LineTyped, WordsTyped, ProviderTyped, SpokenTurn,
         RequestsTyped, turnVars, lineVars, wordVars
  <2> QED
    BY <1>3, <2>2, <2>3 DEF ServerTurn
<1> QED
  BY <1>2, <1>3

LEMMA SpeaksTyped ==
  ASSUME Typed, ServerSpeaks
  PROVE  Typed'
<1> DEFINE r == server.active
<1>1. server \in Server /\ SpokenTurn /\ response \in [Responses -> Reply] /\ marks \subseteq Responses
      /\ line \in Line /\ twilio \in [buffered : SUBSET Responses, echoes : SUBSET Responses]
  BY DEF Typed, ProviderTyped, SpokenTurn, LineTyped
<1>2. r \in Responses
  BY <1>1 DEF ServerSpeaks, Server, SpokenTurn
<1>3. /\ response' = [response EXCEPT ![r].speech = TRUE]
      /\ UNCHANGED server /\ HandleAudio(r)
  BY DEF ServerSpeaks
<1> HIDE DEF r
<1>4. response' \in [Responses -> Reply]
  <2>1. response[r] \in Reply
    BY <1>1, <1>2
  <2>2. [response[r] EXCEPT !.speech = TRUE] \in Reply
    BY <2>1 DEF Reply
  <2>3. response' = [response EXCEPT ![r] = [response[r] EXCEPT !.speech = TRUE]]
    BY <1>3
  <2> QED
    BY <1>1, <1>2, <2>2, <2>3
<1>5. marks' \subseteq Responses
      /\ twilio' \in [buffered : SUBSET Responses, echoes : SUBSET Responses]
  BY <1>1, <1>2, <1>3 DEF HandleAudio
<1> QED
  BY <1>3, <1>4, <1>5 DEF HandleAudio, Typed, TurnsTyped, LineTyped, WordsTyped, ProviderTyped, SpokenTurn,
     RequestsTyped, turnVars, wordVars

LEMMA ServerDoneTyped ==
  ASSUME Typed, NEW status \in {"completed", "failed", "cancelled"},
         NEW tools \in Tools \cup {<<>>}, ServerDone(status, tools)
  PROVE  Typed'
<1> DEFINE r == server.active
           reply == [response[r] EXCEPT !.status = status, !.tools = tools]
<1>1. server \in Server /\ SpokenTurn /\ response \in [Responses -> Reply]
  BY DEF Typed, ProviderTyped, SpokenTurn
<1>2. r \in Responses
  BY <1>1 DEF ServerDone, Server, SpokenTurn
<1>3. reply \in Reply
  <2>1. response[r] \in Reply
    BY <1>1, <1>2
  <2> QED
    BY <2>1 DEF Reply
<1>4. /\ response' = [response EXCEPT ![r] = reply]
      /\ server' = [server EXCEPT !.active = None]
      /\ HandleDone(r, reply)
  BY DEF ServerDone
<1> HIDE DEF r, reply
<1>5. response' \in [Responses -> Reply] /\ server' \in Server /\ SpokenTurn'
  BY <1>1, <1>2, <1>3, <1>4 DEF Server, SpokenTurn
<1> QED
  BY <1>2, <1>3, <1>4, <1>5, DoneTyped DEF Typed, ProviderTyped, SpokenTurn

LEMMA RepeatsTyped ==
  ASSUME Typed, NEW r \in Responses, ServerRepeats(r)
  PROVE  Typed'
<1>1. server \in Server /\ SpokenTurn /\ response[r] \in Reply
  BY DEF Typed, ProviderTyped, SpokenTurn
<1>2. server' \in Server /\ SpokenTurn'
  <2>1. server.repeats \in 0..MaxRepeats /\ server.repeats < MaxRepeats
    BY <1>1 DEF ServerRepeats, Server, SpokenTurn
  <2>2. server.repeats + 1 \in 0..MaxRepeats
    BY <2>1, VoiceAssumption
  <2> QED
    BY <1>1, <2>2 DEF ServerRepeats, Server, SpokenTurn
<1>3. HandleDone(r, response[r]) /\ UNCHANGED response
  BY DEF ServerRepeats
<1> QED
  BY <1>1, <1>2, <1>3, DoneTyped DEF Typed, ProviderTyped, SpokenTurn

\* A tool that returns takes the loop one tool further.
LEMMA ToolProceeds ==
  ASSUME Typed, NEW r \in Responses, NEW ok \in BOOLEAN, ToolReturns(r, ok)
  PROVE  /\ run[r] \in Loop /\ run[r].at = "running"
         /\ \E l \in Loop : /\ l.next = run[r].next + 1 /\ l.epoch = run[r].epoch
                            /\ Proceed(r, response[r], l, turns)
<1> DEFINE old == run[r]
           tool == response[r].tools[old.next]
           given == openAiWs = "open" /\ (old.epoch = generation \/ tool = "briefing")
           e == old.ends \/ (given /\ tool = "end_call" /\ ok)
           k == old.kept \/ (given /\ tool = "briefing")
           l == [old EXCEPT !.next = @ + 1,
                            !.ends = @ \/ (given /\ tool = "end_call" /\ ok),
                            !.kept = @ \/ (given /\ tool = "briefing")]
<1>1. old \in Loop
  BY DEF Typed, TurnsTyped
<1>2. old.next + 1 \in Nat
  BY <1>1 DEF Loop
<1>3. e \in BOOLEAN /\ k \in BOOLEAN
  OBVIOUS
<1>4. l = [old EXCEPT !.next = old.next + 1, !.ends = e, !.kept = k]
  OBVIOUS
<1>5. old.at = "running" /\ Proceed(r, response[r], l, turns)
  BY DEF ToolReturns
<1> HIDE DEF e, k, l, given, tool, old
<1>6. l \in Loop /\ l.next = old.next + 1 /\ l.epoch = old.epoch
  BY <1>1, <1>2, <1>3, <1>4 DEF Loop
<1> QED
  BY <1>1, <1>5, <1>6 DEF old

LEMMA ToolTyped ==
  ASSUME Typed, NEW r \in Responses, NEW ok \in BOOLEAN, ToolReturns(r, ok)
  PROVE  Typed'
<1>1. /\ active' = active
      /\ UNCHANGED <<seen, generation, marks, words, drain, openAiWs, providerVars, twilio>>
  BY DEF ToolReturns
<1>2. PICK l \in Loop : Proceed(r, response[r], l, turns)
  BY ToolProceeds
<1>3. TurnsTyped' /\ LineTyped' /\ RequestsTyped'
  BY <1>1, <1>2, ProceedTyped DEF Typed, TurnsTyped
<1> QED
  BY <1>1, <1>3 DEF Typed, WordsTyped, ProviderTyped, SpokenTurn, providerVars

LEMMA CallerTyped ==
  ASSUME Typed, CallerStarts \/ CallerStops \/ ServerCommits
  PROVE  Typed'
<1> USE DEF turnVars, lineVars, wordVars
<1>1. /\ server \in Server /\ SpokenTurn /\ response \in [Responses -> Reply] /\ turns \in Controller
      /\ line \in Line /\ words \in Words /\ marks \subseteq Responses /\ generation \in Nat
      /\ twilio \in [buffered : SUBSET Responses, echoes : SUBSET Responses]
      /\ active \in [Responses -> Nat \cup {None}]
      /\ server.turn \in 0..MaxTurns
  BY DEF Typed, ProviderTyped, SpokenTurn, TurnsTyped, LineTyped, WordsTyped, Server
<1>2. CASE CallerStarts
  <2>1. server' = [server EXCEPT !.caller = "speaking", !.turn = @ + 1]
        /\ server.turn < MaxTurns /\ HandleStarted(server.turn + 1)
    BY <1>2 DEF CallerStarts
  <2>2. server.turn + 1 \in 0..MaxTurns /\ server.turn + 1 \in Turns /\ server.turn + 1 # 0
    BY <1>1, <2>1, VoiceAssumption DEF Turns
  <2>3. server' \in Server /\ SpokenTurn'
    BY <1>1, <2>1, <2>2 DEF Server, SpokenTurn
  <2>4. response' \in [Responses -> Reply]
    <3>1. CASE server.active = None
      BY <1>1, <1>2, <3>1 DEF CallerStarts
    <3>2. CASE server.active # None
      <4> DEFINE r == server.active
      <4>1. r \in Responses /\ response[r] \in Reply
        BY <1>1, <3>2 DEF Server, SpokenTurn
      <4>2. response' = [response EXCEPT ![r] = [response[r] EXCEPT !.status = "cancelled"]]
        BY <1>2, <3>2 DEF CallerStarts
      <4>3. [response[r] EXCEPT !.status = "cancelled"] \in Reply
        BY <4>1 DEF Reply
      <4> HIDE DEF r
      <4> QED
        BY <1>1, <4>1, <4>2, <4>3
    <3> QED
      BY <3>1, <3>2
  <2>5. turns' \in Controller /\ line' \in Line
    <3>1. Interrupt(turns) \in Controller
      BY <1>1 DEF Interrupt, Controller
    <3>2. Interrupted(line) \in Line
      BY <1>1, UnarmedLine DEF Interrupted, Line
    <3> QED
      BY <2>1, <3>1, <3>2 DEF HandleStarted
  <2>6. marks' = {} /\ twilio' \in [buffered : SUBSET Responses, echoes : SUBSET Responses]
    BY <1>1, <2>1 DEF HandleStarted
  <2>7. words' \in Words
    <3>1. words' = [words EXCEPT !.speech = TRUE,
                  !.begun = IF drain.finalized THEN @ ELSE @ \cup {server.turn + 1}]
      BY <2>1 DEF HandleStarted
    <3> QED
      BY <1>1, <2>2, <3>1 DEF Words
  <2>8. UNCHANGED <<active, seen, run, executed, drain, openAiWs, requests>>
        /\ generation' = generation + 1
    BY <2>1 DEF HandleStarted
  <2> QED
    BY <1>1, <2>3, <2>4, <2>5, <2>6, <2>7, <2>8
       DEF Typed, TurnsTyped, LineTyped, WordsTyped, ProviderTyped, SpokenTurn, RequestsTyped
<1>3. CASE CallerStops
  <2>1. server' \in Server /\ SpokenTurn' /\ UNCHANGED response
    BY <1>1, <1>3 DEF CallerStops, Server, SpokenTurn
  <2>2. [turns EXCEPT !.speaking = FALSE] \in Controller
    BY <1>1 DEF Controller
  <2>3. RequestsTyped' /\ turns' \in Controller
    BY <1>3, <2>2, ResumeTyped DEF CallerStops, HandleStopped, Typed
  <2> QED
    BY <1>3, <2>1, <2>3 DEF CallerStops, HandleStopped,
       Typed, TurnsTyped, LineTyped, WordsTyped, ProviderTyped, SpokenTurn
<1>4. CASE ServerCommits
  <2>1. server.turn \in Turns
    BY <1>1, <1>4, VoiceAssumption DEF ServerCommits, SpokenTurn, Turns
  <2>2. server' \in Server /\ SpokenTurn'
    <3> DEFINE h == IF LiveTranscript THEN server.hearing \cup {server.turn} ELSE server.hearing
    <3>1. h \in SUBSET Turns
      BY <1>1, <2>1 DEF Server
    <3>2. server' = [server EXCEPT !.caller = "silent", !.owes = TRUE, !.hearing = h]
      BY <1>4 DEF ServerCommits
    <3> HIDE DEF h
    <3> QED
      BY <1>1, <3>1, <3>2 DEF Server, SpokenTurn
  <2>3. words' \in Words
    <3>1. words' = [words EXCEPT !.speech = FALSE, !.pending = @ \cup {server.turn}]
      BY <1>4 DEF ServerCommits, HandleCommitted
    <3> QED
      BY <1>1, <2>1, <3>1 DEF Words
  <2> QED
    BY <1>4, <2>2, <2>3 DEF ServerCommits, HandleCommitted,
       Typed, TurnsTyped, LineTyped, WordsTyped, ProviderTyped, RequestsTyped
<1> QED
  BY <1>2, <1>3, <1>4

\* A segment is noted while there is room; a turn's words are noted, or the transcript is
\* full, or it was handed over.
LEMMA NotedWords ==
  ASSUME NEW w \in Words, NEW said \in SUBSET Turns
  PROVE  /\ Noted(w, said) \in Words
         /\ Noted(w, said).speech = w.speech /\ Noted(w, said).begun = w.begun
         /\ Noted(w, said).pending = w.pending /\ Noted(w, said).lost = w.lost
         /\ w.noted \subseteq Noted(w, said).noted
         /\ w.segments = MaxSegments => Noted(w, said).segments = MaxSegments
         /\ LiveTranscript /\ ~drain.finalized =>
              said \subseteq Noted(w, said).noted \/ Noted(w, said).segments = MaxSegments
<1>1. w.segments \in 0..MaxSegments /\ MaxSegments \in Nat
  BY VoiceAssumption DEF Words
<1>2. CASE LiveTranscript /\ w.segments < MaxSegments /\ ~drain.finalized
  <2>1. Noted(w, said) = [w EXCEPT !.segments = w.segments + 1, !.noted = w.noted \cup said]
    BY <1>2 DEF Noted
  <2>2. w.segments + 1 \in 0..MaxSegments /\ w.segments # MaxSegments
    BY <1>1, <1>2
  <2> DEFINE n == w.segments + 1
             heard == w.noted \cup said
  <2>3. heard \in SUBSET Turns /\ n \in 0..MaxSegments
    BY <2>2 DEF Words
  <2> HIDE DEF n, heard
  <2>4. Noted(w, said) = [w EXCEPT !.segments = n, !.noted = heard]
    BY <2>1 DEF n, heard
  <2>5. /\ Noted(w, said) \in Words /\ Noted(w, said).noted = heard
        /\ Noted(w, said).speech = w.speech /\ Noted(w, said).begun = w.begun
        /\ Noted(w, said).pending = w.pending /\ Noted(w, said).lost = w.lost
    BY <2>3, <2>4 DEF Words
  <2> QED
    BY <2>2, <2>5 DEF heard
<1>3. CASE ~(LiveTranscript /\ w.segments < MaxSegments /\ ~drain.finalized)
  <2>1. Noted(w, said) = w
    BY <1>3 DEF Noted
  <2> QED
    BY <1>1, <1>3, <2>1
<1> QED
  BY <1>2, <1>3

LEMMA SpokeTyped == Typed /\ ServerSpoke => Typed'
<1> SUFFICES ASSUME Typed, ServerSpoke PROVE Typed'
  OBVIOUS
<1>1. words' = Noted(words, {})
  BY DEF ServerSpoke, HandleOwnTranscript
<1>2. words' \in Words
  BY <1>1, NotedWords DEF Typed, WordsTyped
<1> QED
  BY <1>2 DEF ServerSpoke, HandleOwnTranscript, turnVars, lineVars, providerVars,
     Typed, TurnsTyped, LineTyped, WordsTyped, ProviderTyped, SpokenTurn, RequestsTyped

LEMMA TranscribesTyped ==
  ASSUME Typed, NEW turn \in Turns, NEW heard \in BOOLEAN, ServerTranscribes(turn, heard)
  PROVE  Typed'
<1>1. server \in Server /\ SpokenTurn /\ words \in Words /\ drain \in Drain
      /\ drain.flushes = IF drain.finalized THEN 1 ELSE 0
  BY DEF Typed, ProviderTyped, WordsTyped
<1>2. server' \in Server /\ SpokenTurn'
  BY <1>1 DEF ServerTranscribes, Server, SpokenTurn
<1>3. HandleTranscript(turn, heard) /\ UNCHANGED response
  BY DEF ServerTranscribes
<1>4. words' \in Words
  <2> DEFINE w == [words EXCEPT !.pending = @ \ {turn}]
  <2>1. w \in Words /\ [w EXCEPT !.lost = @ \cup {turn}] \in Words
    BY <1>1 DEF Words
  <2>2. words' = IF heard THEN Noted(w, {turn}) ELSE [w EXCEPT !.lost = @ \cup {turn}]
    BY <1>3 DEF HandleTranscript
  <2> HIDE DEF w
  <2> QED
    BY <2>1, <2>2, NotedWords
<1>5. drain' \in Drain /\ drain'.flushes = IF drain'.finalized THEN 1 ELSE 0
  BY <1>1, <1>3, SettleDrain DEF HandleTranscript
<1> QED
  BY <1>2, <1>3, <1>4, <1>5 DEF HandleTranscript, CloseSocket,
     Typed, TurnsTyped, LineTyped, WordsTyped, ProviderTyped, RequestsTyped, turnVars, lineVars

LEMMA InitTyped == Init => Typed
<1> SUFFICES ASSUME Init PROVE Typed
  OBVIOUS
<1>1. TurnsTyped
  BY DEF Init, TurnsTyped, Controller, Loop
<1>2. LineTyped
  BY DEF Init, LineTyped, Line
<1>3. WordsTyped
  BY VoiceAssumption DEF Init, WordsTyped, Words, Drain
<1>4. RequestsTyped
  <2>1. [token |-> None] \in Answer
    BY DEF Answer
  <2>2. Greeting \in Seq(Answer)
    BY <2>1 DEF Greeting
  <2> QED
    BY <2>2 DEF Init, RequestsTyped
<1>5. ProviderTyped /\ generation \in Nat
  <2>1. 0 \in 0..MaxResponses /\ 0 \in 0..MaxTurns /\ 0 \in 0..MaxRepeats
    BY VoiceAssumption
  <2>2. server \in Server /\ SpokenTurn
    BY <2>1 DEF Init, Server, SpokenTurn
  <2>3. response \in [Responses -> Reply]
    BY DEF Init, Reply
  <2> QED
    BY <2>2, <2>3 DEF Init, ProviderTyped
<1> QED
  BY <1>1, <1>2, <1>3, <1>4, <1>5 DEF Typed

LEMMA StepTyped ==
  ASSUME Typed, [Next]_vars
  PROVE  Typed'
<1>1. CASE Service
  <2>1. CASE \E r \in Responses, ok \in BOOLEAN : ToolReturns(r, ok)
    BY <2>1, ToolTyped
  <2>2. CASE \E r \in Responses : EchoMark(r) \/ DrainTimer(r)
    BY <2>2, LineStepsTyped
  <2>3. CASE HangUp \/ LimitTimer
    BY <2>3, LineStepsTyped
  <2>4. CASE MediaClosed \/ DrainTimeout \/ ProviderClosed \/ Opened
    BY <2>4, DrainStepsTyped
  <2> QED
    BY <1>1, <2>1, <2>2, <2>3, <2>4 DEF Service
<1>2. CASE Provider
  BY <1>2, AnswerTyped, SpeaksTyped, ServerDoneTyped, RepeatsTyped, CallerTyped,
     TranscribesTyped, SpokeTyped, LineStepsTyped DEF Provider
<1>3. CASE UNCHANGED vars
  BY <1>3 DEF vars, Typed, TurnsTyped, LineTyped, WordsTyped, ProviderTyped, SpokenTurn,
     RequestsTyped
<1> QED
  BY <1>1, <1>2, <1>3 DEF Next

LEMMA TypedAlways == Spec => []Typed
<1>1. Typed /\ [Next]_vars => Typed'
  BY StepTyped
<1> QED
  BY <1>1, InitTyped, PTL DEF Spec

\* Every reachable state is well typed; in particular no transcript is handed over twice.
THEOREM VoiceTypeOK == Spec => []TypeOK
BY TypedAlways, TypedImpliesTypeOK, PTL
-----------------------------------------------------------------------------
\* A closing that is taken back ends nothing.

\* What is waiting to hang up, a farewell, a goodbye being played or the timer whose handle
\* is known, belongs to a closing.
Closing ==
  /\ turns.farewell # None => turns.closing
  /\ line.goodbye # None => turns.closing
  /\ line.timer # None => turns.closing
\* The line is hung up in this step: for a goodbye that was played, or by a drain timer.
Hangs == line.how = None /\ line'.how = "played"
TimesOut == line.how = None /\ line'.how = "timeout"

LEMMA NotHanging == line'.how = line.how => ~Hangs /\ ~TimesOut
BY VoiceAssumption DEF Hangs, TimesOut

\* What the end of a response, or of its tools, may do to the line.
Closes == /\ Closing'
          /\ line'.open => line.open
          /\ line'.received = line.received
          /\ Hangs => turns'.closing /\ line.open /\ marks = {}
          /\ ~TimesOut

LEMMA ConcludeCloses ==
  ASSUME Typed, Closing, NEW r \in Responses, NEW reply, NEW l \in Loop, NEW t \in Controller,
         t.closing = turns.closing, t.farewell = turns.farewell, Conclude(r, reply, l, t)
  PROVE  Closes
<1> DEFINE over == [t EXCEPT !.deferred = FALSE]
           kept == [t EXCEPT !.deferred = @ \/ l.kept]
<1>1. line \in Line
  BY DEF Typed, LineTyped
<1>2. /\ over.closing = turns.closing /\ over.farewell = turns.farewell
      /\ kept.closing = turns.closing /\ kept.farewell = turns.farewell
      /\ [over EXCEPT !.closing = TRUE].closing
      /\ [over EXCEPT !.closing = TRUE, !.farewell = r].closing
      /\ over \in Controller /\ kept \in Controller
  BY DEF Controller
<1>3. CASE ResumePending(kept, active') /\ UNCHANGED line
  <2>1. turns'.closing = turns.closing /\ turns'.farewell = turns.farewell
    BY <1>2, <1>3 DEF ResumePending, Controller
  <2> QED
    BY <1>3, <2>1, NotHanging DEF Closes, Closing, Hangs, TimesOut
<1>4. CASE turns' = [over EXCEPT !.closing = TRUE] /\ line' = EndAfterPlayback(line, r)
  BY <1>1, <1>2, <1>4, AfterPlaybackLine, NotHanging DEF Closes, Closing, Hangs, TimesOut
<1>5. CASE /\ turns' = [over EXCEPT !.closing = TRUE, !.farewell = r]
           /\ line' = IF Listening(line) THEN Armed(line, r) ELSE line
  BY <1>1, <1>2, <1>5, ArmedLine, NotHanging DEF Closes, Closing, Hangs, TimesOut
<1>6. CASE turns' = over /\ UNCHANGED line
  BY <1>2, <1>6, NotHanging DEF Closes, Closing, Hangs, TimesOut
<1> QED
  BY <1>3, <1>4, <1>5, <1>6 DEF Conclude

LEMMA ProceedCloses ==
  ASSUME Typed, Closing, NEW r \in Responses, NEW reply, NEW l \in Loop, NEW t \in Controller,
         t.closing = turns.closing, t.farewell = turns.farewell, Proceed(r, reply, l, t)
  PROVE  Closes
<1>1. CASE Conclude(r, reply, l, t)
  BY <1>1, ConcludeCloses
<1>2. CASE turns' = t /\ UNCHANGED line
  BY <1>2, NotHanging DEF Closes, Closing, Hangs, TimesOut
<1> QED
  BY <1>1, <1>2 DEF Proceed

LEMMA DoneCloses ==
  ASSUME Typed, Closing, NEW r \in Responses, NEW reply \in Reply, HandleDone(r, reply)
  PROVE  Closes
<1> DEFINE relieved == [turns EXCEPT !.awaiting = @ /\ active[r] # generation]
<1>1. /\ relieved \in Controller /\ relieved.closing = turns.closing
      /\ relieved.farewell = turns.farewell
      /\ [relieved EXCEPT !.farewell = None].closing = turns.closing
      /\ [relieved EXCEPT !.farewell = None].farewell = None
      /\ line \in Line
  BY DEF Typed, TurnsTyped, LineTyped, Controller
<1>2. CASE UNCHANGED <<turns, line>>
  BY <1>2, NotHanging DEF Closes, Closing, Hangs, TimesOut
<1>3. CASE /\ IsFarewell(reply)
           /\ turns' = [relieved EXCEPT !.farewell = None]
           /\ line' = IF reply.status = "completed" /\ reply.speech
                      THEN EndAfterPlayback(line, r) ELSE line
  <2>1. turns.closing
    BY <1>3 DEF IsFarewell, Closing
  <2> QED
    BY <1>1, <1>3, <2>1, AfterPlaybackLine, NotHanging DEF Closes, Closing, Hangs, TimesOut
<1>4. CASE ResumePending(relieved, active') /\ UNCHANGED line
  <2>1. turns'.closing = turns.closing /\ turns'.farewell = turns.farewell
    BY <1>1, <1>4 DEF ResumePending, Controller
  <2> QED
    BY <1>4, <2>1, NotHanging DEF Closes, Closing, Hangs, TimesOut
<1>5. CASE Proceed(r, reply, [run[r] EXCEPT !.epoch = generation], relieved)
  <2>1. [run[r] EXCEPT !.epoch = generation] \in Loop
    <3>1. run[r] \in Loop /\ generation \in Nat
      BY DEF Typed, TurnsTyped
    <3> QED
      BY <3>1 DEF Loop
  <2> QED
    BY <1>1, <1>5, <2>1, ProceedCloses
<1> QED
  BY <1>2, <1>3, <1>4, <1>5 DEF HandleDone

LEMMA ToolCloses ==
  ASSUME Typed, Closing, NEW r \in Responses, NEW ok \in BOOLEAN, ToolReturns(r, ok)
  PROVE  Closes
<1>1. turns \in Controller
  BY DEF Typed, TurnsTyped
<1>2. PICK l \in Loop : Proceed(r, response[r], l, turns)
  BY ToolProceeds
<1> QED
  BY <1>1, <1>2, ProceedCloses

\* The line is hung up only while the call is closing, or by a timer whose handle was lost.
Revoked ==
  /\ Hangs => turns'.closing
  /\ TimesOut => turns'.closing \/ LeakedTimerFires

LEMMA NothingRevoked == line'.how = line.how => Revoked
BY NotHanging DEF Revoked

LEMMA ClosesRevokes == Closes => Revoked
BY DEF Closes, Revoked

LEMMA StepCloses ==
  ASSUME Typed, Closing, Next
  PROVE  Closing' /\ Revoked /\ line'.received = line.received
<1> USE DEF turnVars, lineVars
<1>1. line \in Line /\ turns \in Controller
  BY DEF Typed, LineTyped, TurnsTyped
<1>2. ASSUME UNCHANGED <<turns, line>>
      PROVE  Closing' /\ Revoked /\ line'.received = line.received
  BY <1>2, NothingRevoked DEF Closing
<1>3. CASE \E r \in Responses : EchoMark(r)
  BY <1>1, <1>3, EndCallLine, NothingRevoked DEF EchoMark, Closing, Revoked, Hangs, TimesOut
<1>4. CASE \E r \in Responses : DrainTimer(r)
  <2>1. PICK r \in Responses : DrainTimer(r)
    BY <1>4
  <2>2. /\ line' = EndCall([line EXCEPT !.armed = @ \ {r}], "timeout")
        /\ r \in line.armed /\ UNCHANGED turns
    BY <2>1 DEF DrainTimer
  <2> DEFINE l == [line EXCEPT !.armed = @ \ {r}]
  <2>3. /\ l \in Line /\ l.goodbye = line.goodbye /\ l.how = line.how /\ l.received = line.received
        /\ l.timer = line.timer /\ l.armed = line.armed \ {r}
    BY <1>1 DEF Line
  <2> HIDE DEF l
  <2>4. /\ line'.goodbye \in {line.goodbye, None} /\ line'.timer \in {line.timer, None}
        /\ line'.how \in {line.how, "timeout"} /\ line'.received = line.received
        /\ r \notin line'.armed
    BY <2>2, <2>3, EndCallLine DEF l
  <2>5. Closing' /\ ~Hangs
    BY <2>2, <2>4, NotHanging DEF Closing, Hangs
  <2>6. turns'.closing \/ LeakedTimerFires
    <3>1. CASE r # line.timer
      BY <2>2, <2>4, <3>1 DEF LeakedTimerFires
    <3>2. CASE r = line.timer
      BY <2>2, <3>2, VoiceAssumption DEF Closing, Responses
    <3> QED
      BY <3>1, <3>2
  <2> QED
    BY <2>4, <2>5, <2>6 DEF Revoked
<1>5. CASE LimitTimer
  BY <1>1, <1>5, EndCallLine, NothingRevoked DEF LimitTimer, Closing, Revoked, Hangs, TimesOut
<1>6. CASE HangUp
  <2>1. line'.goodbye = line.goodbye /\ line'.how = line.how /\ line'.received = line.received
        /\ line'.timer = line.timer
    BY <1>1, <1>6 DEF HangUp, Line
  <2> QED
    BY <1>6, <2>1, NothingRevoked DEF HangUp, Closing
<1>7. CASE MediaClosed
  <2>1. line'.goodbye = line.goodbye /\ line'.how = line.how /\ line'.received = line.received
        /\ line'.timer = None
    <3>1. line' = [Unarmed(line) EXCEPT !.closed = TRUE, !.limit = FALSE]
      BY <1>7 DEF MediaClosed
    <3> QED
      BY <1>1, <3>1, UnarmedLine DEF Line
  <2> QED
    BY <1>7, <2>1, NothingRevoked DEF MediaClosed, Closing
<1>8. CASE CallerStarts
  <2>1. turns' = Interrupt(turns) /\ line' = Interrupted(line)
    BY <1>8 DEF CallerStarts, HandleStarted
  <2>2. turns'.farewell = None
    BY <1>1, <2>1 DEF Interrupt, Controller
  <2>3. line'.goodbye = None /\ line'.how = line.how /\ line'.received = line.received
        /\ line'.timer = None
    BY <1>1, <2>1, UnarmedLine DEF Interrupted, Line
  <2> QED
    BY <2>2, <2>3, NothingRevoked DEF Closing
<1>9. CASE CallerStops
  <2>1. turns'.closing = turns.closing /\ turns'.farewell = turns.farewell
    BY <1>1, <1>9 DEF CallerStops, HandleStopped, ResumePending, Controller
  <2> QED
    BY <1>9, <2>1, NothingRevoked DEF CallerStops, HandleStopped, Closing
<1>10. ASSUME NEW status \in {"completed", "failed", "cancelled"},
              NEW tools \in Tools \cup {<<>>}, ServerDone(status, tools)
       PROVE  Closing' /\ Revoked /\ line'.received = line.received
  <2> DEFINE r == server.active
             reply == [response[r] EXCEPT !.status = status, !.tools = tools]
  <2>1. r \in Responses
    BY <1>10 DEF ServerDone, Typed, ProviderTyped, Server
  <2>2. reply \in Reply
    <3>1. response[r] \in Reply
      BY <2>1 DEF Typed, ProviderTyped
    <3> QED
      BY <3>1 DEF Reply
  <2>3. HandleDone(r, reply)
    BY <1>10 DEF ServerDone
  <2> QED
    BY <2>1, <2>2, <2>3, DoneCloses, ClosesRevokes DEF Closes
<1>11. CASE \E r \in Responses : ServerRepeats(r)
  BY <1>11, DoneCloses, ClosesRevokes DEF ServerRepeats, Closes, Typed, ProviderTyped
<1>12. CASE \E r \in Responses, ok \in BOOLEAN : ToolReturns(r, ok)
  BY <1>12, ToolCloses, ClosesRevokes DEF Closes
<1>13. CASE DrainTimeout \/ Opened \/ ProviderClosed
  BY <1>2, <1>13 DEF DrainTimeout, Opened, ProviderClosed
<1>14. CASE ServerAnswers \/ ServerTurn
  BY <1>2, <1>14 DEF ServerAnswers, ServerTurn, Create, Refuse
<1>15. CASE ServerSpeaks \/ ServerCommits \/ \E r \in Responses : TwilioPlays(r)
  BY <1>2, <1>15 DEF ServerSpeaks, HandleAudio, ServerCommits, HandleCommitted, TwilioPlays
<1>16. CASE \E turn \in Turns, heard \in BOOLEAN : ServerTranscribes(turn, heard)
  BY <1>2, <1>16 DEF ServerTranscribes, HandleTranscript
<1>17. CASE ServerSpoke
  BY <1>2, <1>17 DEF ServerSpoke, HandleOwnTranscript
<1> QED
  BY <1>3, <1>4, <1>5, <1>6, <1>7, <1>8, <1>9, <1>10, <1>11, <1>12, <1>13, <1>14, <1>15, <1>16, <1>17
     DEF Next, Service, Provider

\* The line is not hung up for a goodbye the caller interrupted, neither when playback ends
\* nor by the goodbye's timer; only a timer whose handle a second farewell overwrote can.
THEOREM VoiceInterruptionRevokesClose == Spec => InterruptionRevokesClose
<1>1. Init => Closing
  BY DEF Init, Closing
<1>2. Typed /\ Closing /\ [Next]_vars => Closing'
  BY StepCloses DEF Closing, vars
<1>3. Typed /\ Closing /\ [Next]_vars
        => [line.how = None /\ line'.how \in {"played", "timeout"} => turns'.closing \/ LeakedTimerFires]_vars
  BY StepCloses DEF Revoked, Hangs, TimesOut
<1> QED
  BY <1>1, <1>2, <1>3, TypedAlways, PTL DEF Spec, InterruptionRevokesClose

-----------------------------------------------------------------------------
\* The response being generated is the last one made, and its end was not handled yet.
Current ==
  /\ server.active # None => server.active <= server.created
  /\ \A r \in seen : r <= server.created /\ r # server.active
  /\ \A r \in Responses : r > server.created => response[r].status = "none"

LEMMA CurrentFrame ==
  ASSUME Current, UNCHANGED <<seen, response>>, server'.active = server.active,
         server'.created = server.created
  PROVE  Current'
BY DEF Current

\* The end of response r makes it a response whose end was handled, and no other.
LEMMA DoneSeen ==
  ASSUME NEW r, NEW reply, HandleDone(r, reply)
  PROVE  seen' \subseteq seen \cup {r}
BY DEF HandleDone, Proceed, Conclude

LEMMA CreateCurrent ==
  ASSUME Typed, Current, NEW t \in Responses \cup {None}, NEW owes, Create(t, owes)
  PROVE  Current'
<1> DEFINE r == server.created + 1
<1>1. /\ server \in Server /\ response \in [Responses -> Reply] /\ seen \subseteq Responses
      /\ server.created \in Nat
  BY VoiceAssumption DEF Typed, ProviderTyped, TurnsTyped, Server
<1>2. /\ server' = [server EXCEPT !.active = r, !.created = r, !.owes = owes]
      /\ response' = [response EXCEPT ![r] = [status |-> "active", tools |-> <<>>,
                                              speech |-> FALSE, token |-> t]]
      /\ UNCHANGED seen
  BY DEF Create
<1>3. r = server.created + 1
  OBVIOUS
<1> HIDE DEF r
<1>4. server'.active = r /\ server'.created = r
  BY <1>1, <1>2 DEF Server
<1>5. \A q \in Responses : q # r => response'[q] = response[q]
  BY <1>1, <1>2
<1>6. Responses \subseteq Nat
  BY VoiceAssumption DEF Responses
<1>7. ASSUME NEW q \in seen
      PROVE  q <= server'.created /\ q # server'.active
  BY <1>1, <1>3, <1>4, <1>6, <1>7 DEF Current
<1>8. ASSUME NEW q \in Responses, q > server'.created
      PROVE  response'[q].status = "none"
  BY <1>1, <1>3, <1>4, <1>5, <1>6, <1>8 DEF Current
<1>9. server'.active <= server'.created
  BY <1>1, <1>3, <1>4
<1> QED
  BY <1>2, <1>7, <1>8, <1>9 DEF Current

LEMMA StepCurrent ==
  ASSUME Typed, Current, Next
  PROVE  Current'
<1> USE DEF turnVars, lineVars, providerVars
<1>1. /\ server \in Server /\ response \in [Responses -> Reply]
      /\ requests \in Seq(Answer) /\ seen \subseteq Responses /\ Responses \subseteq Nat
      /\ server.created \in Nat
  BY VoiceAssumption DEF Typed, ProviderTyped, RequestsTyped, TurnsTyped, Responses, Server
<1>2. CASE ServerAnswers
  <2>1. CASE Create(Head(requests).token, server.owes)
    <3>1. Head(requests) \in Answer
      BY <1>1, <1>2 DEF ServerAnswers
    <3> QED
      BY <2>1, <3>1, CreateCurrent DEF Answer
  <2>2. CASE UNCHANGED server /\ Refuse
    BY <2>2, CurrentFrame DEF Refuse
  <2> QED
    BY <1>2, <2>1, <2>2 DEF ServerAnswers
<1>3. CASE ServerTurn
  <2>1. CASE Create(None, FALSE)
    BY <2>1, CreateCurrent
  <2>2. CASE server' = [server EXCEPT !.owes = FALSE] /\ Refuse
    <3>1. server'.active = server.active /\ server'.created = server.created
      BY <1>1, <2>2 DEF Server
    <3> QED
      BY <2>2, <3>1, CurrentFrame DEF Refuse
  <2> QED
    BY <1>3, <2>1, <2>2 DEF ServerTurn
<1>4. CASE ServerSpeaks
  <2> DEFINE a == server.active
  <2>1. a \in Responses /\ response[a] \in Reply
    BY <1>1, <1>4 DEF ServerSpeaks, Server
  <2>2. response' = [response EXCEPT ![a] = [response[a] EXCEPT !.speech = TRUE]]
        /\ UNCHANGED <<server, seen>>
    BY <1>4 DEF ServerSpeaks, HandleAudio
  <2>3. a <= server.created
    BY <2>1, <1>4 DEF Current, ServerSpeaks
  <2> HIDE DEF a
  <2>4. \A q \in Responses : q # a => response'[q] = response[q]
    BY <1>1, <2>2
  <2>5. \A q \in Responses : q > server.created => q # a
    BY <1>1, <2>1, <2>3
  <2> QED
    BY <1>1, <2>2, <2>4, <2>5 DEF Current
<1>5. ASSUME NEW status \in {"completed", "failed", "cancelled"},
             NEW tools \in Tools \cup {<<>>}, ServerDone(status, tools)
      PROVE  Current'
  <2> DEFINE a == server.active
             reply == [response[a] EXCEPT !.status = status, !.tools = tools]
  <2>1. a \in Responses /\ a <= server.created
    BY <1>1, <1>5 DEF ServerDone, Server, Current
  <2>2. response' = [response EXCEPT ![a] = reply] /\ HandleDone(a, reply)
        /\ server' = [server EXCEPT !.active = None]
    BY <1>5 DEF ServerDone
  <2> HIDE DEF reply
  <2>3. seen' \subseteq seen \cup {a}
    BY <2>2, DoneSeen
  <2>4. server'.active = None /\ server'.created = server.created
    BY <1>1, <2>2 DEF Server
  <2> HIDE DEF a
  <2>5. \A q \in Responses : q # a => response'[q] = response[q]
    BY <1>1, <2>2
  <2>6. \A q \in seen' : q <= server'.created /\ q # server'.active
    BY <1>1, <2>1, <2>3, <2>4, VoiceAssumption DEF Current
  <2>7. \A q \in Responses : q > server.created => q # a
    BY <1>1, <2>1
  <2> QED
    BY <2>4, <2>5, <2>6, <2>7 DEF Current
<1>6. CASE \E r \in Responses : ServerRepeats(r)
  <2>1. PICK r \in Responses : ServerRepeats(r)
    BY <1>6
  <2>2. r # server.active /\ r <= server.created
    BY <1>1, <2>1 DEF ServerRepeats, Current
  <2>3. seen' \subseteq seen \cup {r} /\ UNCHANGED response
    BY <2>1, DoneSeen DEF ServerRepeats
  <2>4. server'.active = server.active /\ server'.created = server.created
    BY <1>1, <2>1 DEF ServerRepeats, Server
  <2> QED
    BY <2>2, <2>3, <2>4 DEF Current
<1>7. CASE CallerStarts
  <2>1. UNCHANGED seen /\ server'.active = server.active /\ server'.created = server.created
    BY <1>1, <1>7 DEF CallerStarts, HandleStarted, Server
  <2>2. CASE server.active = None
    BY <1>7, <2>1, <2>2, CurrentFrame DEF CallerStarts
  <2>3. CASE server.active # None
    <3> DEFINE a == server.active
    <3>1. a \in Responses /\ a <= server.created
      BY <1>1, <2>3 DEF Server, Current
    <3>2. response' = [response EXCEPT ![a] = [response[a] EXCEPT !.status = "cancelled"]]
      BY <1>7, <2>3 DEF CallerStarts
    <3> HIDE DEF a
    <3>3. \A q \in Responses : q # a => response'[q] = response[q]
      BY <1>1, <3>2
    <3>4. \A q \in Responses : q > server.created => q # a
      BY <1>1, <3>1
    <3> QED
      BY <2>1, <3>3, <3>4 DEF Current
  <2> QED
    BY <2>2, <2>3
<1>8. CASE CallerStops \/ ServerCommits
        \/ \E turn \in Turns, heard \in BOOLEAN : ServerTranscribes(turn, heard)
  <2>1. UNCHANGED <<seen, response>>
    BY <1>8 DEF CallerStops, ServerCommits, ServerTranscribes, HandleStopped, HandleCommitted,
       HandleTranscript
  <2>2. server'.active = server.active /\ server'.created = server.created
    BY <1>1, <1>8 DEF CallerStops, ServerCommits, ServerTranscribes, Server
  <2> QED
    BY <2>1, <2>2, CurrentFrame
<1>9. CASE \E r \in Responses, ok \in BOOLEAN : ToolReturns(r, ok)
  BY <1>9, CurrentFrame DEF ToolReturns
<1>10. CASE \/ \E r \in Responses : EchoMark(r) \/ DrainTimer(r) \/ TwilioPlays(r)
            \/ LimitTimer \/ HangUp \/ MediaClosed
  BY <1>10, CurrentFrame DEF EchoMark, DrainTimer, TwilioPlays, LimitTimer, HangUp, MediaClosed
<1>11. CASE DrainTimeout \/ Opened \/ ProviderClosed \/ ServerSpoke
  BY <1>11, CurrentFrame DEF DrainTimeout, Opened, ProviderClosed, ServerSpoke, HandleOwnTranscript
<1> QED
  BY <1>2, <1>3, <1>4, <1>5, <1>6, <1>7, <1>8, <1>9, <1>10, <1>11 DEF Next, Service, Provider

-----------------------------------------------------------------------------
\* A goodbye is heard.

\* While the line is open what Twilio has not played is marked, and a piece is sent once:
\* a mark that comes back is that of a piece that was played.
Playback ==
  /\ line.open => twilio.buffered \subseteq marks
  /\ twilio.buffered \cap twilio.echoes = {}
  /\ \A r \in twilio.buffered \cup twilio.echoes : r <= server.created /\ response[r].speech

\* Playback is kept while pieces stay where they are, and responses keep their speech.
LEMMA PlaybackFrame ==
  ASSUME Playback, UNCHANGED <<marks, twilio>>, line'.open => line.open,
         \A r \in Responses : r <= server.created /\ response[r].speech
                                => r <= server'.created /\ response'[r].speech,
         twilio \in [buffered : SUBSET Responses, echoes : SUBSET Responses]
  PROVE  Playback'
BY DEF Playback

LEMMA DonePlays ==
  ASSUME Typed, Closing, Playback, NEW r \in Responses, NEW reply \in Reply,
         HandleDone(r, reply),
         \A q \in Responses : q <= server.created /\ response[q].speech
                                => q <= server'.created /\ response'[q].speech
  PROVE  Playback' /\ (Hangs => twilio'.buffered = {})
<1>1. Closes /\ UNCHANGED <<marks, twilio>>
  BY DoneCloses DEF HandleDone
<1>2. Playback'
  BY <1>1, PlaybackFrame DEF Closes, Typed, LineTyped
<1> QED
  BY <1>1, <1>2 DEF Closes, Playback

LEMMA StepPlays ==
  ASSUME Typed, Current, Closing, Playback, Next
  PROVE  Playback' /\ (Hangs => twilio'.buffered = {})
<1> USE DEF turnVars, lineVars, providerVars
<1>1. /\ line \in Line /\ marks \subseteq Responses
      /\ twilio \in [buffered : SUBSET Responses, echoes : SUBSET Responses]
      /\ server \in Server /\ response \in [Responses -> Reply]
  BY DEF Typed, LineTyped, ProviderTyped
<1>2. ASSUME UNCHANGED <<line, marks, twilio, server, response>>
      PROVE  Playback' /\ (Hangs => twilio'.buffered = {})
  BY <1>2, NotHanging DEF Playback
<1>3. CASE \E r \in Responses : EchoMark(r)
  <2>1. PICK r \in Responses : EchoMark(r)
    BY <1>3
  <2>2. /\ line.open /\ r \in twilio.echoes /\ marks' = marks \ {r}
        /\ twilio'.buffered = twilio.buffered /\ twilio'.echoes = twilio.echoes \ {r}
        /\ line' = (IF marks' = {} /\ line.goodbye # None THEN EndCall(line, "played") ELSE line)
        /\ UNCHANGED <<server, response>>
    BY <1>1, <2>1 DEF EchoMark, Acknowledged
  <2>3. twilio'.buffered \subseteq marks'
    BY <2>2 DEF Playback
  <2>4. Hangs => marks' = {}
    BY <2>2, NotHanging
  <2> QED
    BY <2>2, <2>3, <2>4 DEF Playback
<1>4. CASE \E r \in Responses : DrainTimer(r)
  <2>1. PICK r \in Responses : DrainTimer(r)
    BY <1>4
  <2> DEFINE l == [line EXCEPT !.armed = @ \ {r}]
  <2>2. line' = EndCall(l, "timeout") /\ UNCHANGED <<marks, twilio, server, response>>
    BY <2>1 DEF DrainTimer
  <2>3. l \in Line /\ l.open = line.open /\ l.how = line.how
    BY <1>1 DEF Line
  <2> HIDE DEF l
  <2>4. (line'.open => line.open) /\ ~Hangs
    BY <2>2, <2>3, EndCallLine, NotHanging DEF Hangs
  <2> QED
    BY <1>1, <2>2, <2>4, PlaybackFrame
<1>5. CASE LimitTimer
  <2>1. (line'.open => line.open) /\ ~Hangs
    BY <1>1, <1>5, EndCallLine, NotHanging DEF LimitTimer, Hangs
  <2> QED
    BY <1>1, <1>5, <2>1, PlaybackFrame DEF LimitTimer
<1>6. CASE HangUp
  <2>1. (line'.open => line.open) /\ line'.how = line.how
    BY <1>1, <1>6 DEF HangUp, Line
  <2> QED
    BY <1>1, <1>6, <2>1, PlaybackFrame, NotHanging DEF HangUp
<1>7. CASE MediaClosed
  <2>1. line'.open = line.open /\ line'.how = line.how
    <3>1. line' = [Unarmed(line) EXCEPT !.closed = TRUE, !.limit = FALSE]
      BY <1>7 DEF MediaClosed
    <3> QED
      BY <1>1, <3>1, UnarmedLine DEF Line
  <2> QED
    BY <1>1, <1>7, <2>1, PlaybackFrame, NotHanging DEF MediaClosed
<1>8. CASE CallerStarts
  <2>1. /\ line' = Interrupted(line) /\ marks' = {}
        /\ twilio' = IF marks # {} /\ line.open
                     THEN [twilio EXCEPT !.buffered = {}, !.echoes = @ \cup twilio.buffered]
                     ELSE twilio
    BY <1>8 DEF CallerStarts, HandleStarted
  <2>2. line'.open = line.open /\ line'.how = line.how
    BY <1>1, <2>1, UnarmedLine DEF Interrupted, Line
  <2>3. server'.created = server.created
    BY <1>1, <1>8 DEF CallerStarts, Server
  <2>4. \A r \in Responses : response[r].speech => response'[r].speech
    <3>1. CASE server.active = None
      BY <1>8, <3>1 DEF CallerStarts
    <3>2. CASE server.active # None
      <4> DEFINE a == server.active
      <4>1. a \in Responses /\ response[a] \in Reply
        BY <1>1, <3>2 DEF Server
      <4>2. response' = [response EXCEPT ![a] = [response[a] EXCEPT !.status = "cancelled"]]
        BY <1>8, <3>2 DEF CallerStarts
      <4>3. [response[a] EXCEPT !.status = "cancelled"].speech = response[a].speech
        BY <4>1 DEF Reply
      <4> HIDE DEF a
      <4> QED
        BY <1>1, <4>1, <4>2, <4>3
    <3> QED
      BY <3>1, <3>2
  <2>5. twilio'.buffered \cup twilio'.echoes \subseteq twilio.buffered \cup twilio.echoes
        /\ (line.open => twilio'.buffered = {})
        /\ twilio'.buffered \cap twilio'.echoes = {}
    BY <1>1, <2>1 DEF Playback
  <2>6. twilio'.buffered \cup twilio'.echoes \subseteq Responses
    BY <1>1, <2>5
  <2>7. Playback'
    BY <2>2, <2>3, <2>4, <2>5, <2>6 DEF Playback
  <2> QED
    BY <2>2, <2>7, NotHanging
<1>9. CASE ServerSpeaks
  <2> DEFINE s == server.active
  <2>1. s \in Responses /\ ~response[s].speech
    BY <1>1, <1>9 DEF ServerSpeaks, Server
  <2>2. response' = [response EXCEPT ![s].speech = TRUE] /\ UNCHANGED <<line, server>>
    BY <1>9 DEF ServerSpeaks, HandleAudio
  <2>3. UNCHANGED <<marks, twilio>>
        \/ (marks' = marks \cup {s} /\ twilio' = [twilio EXCEPT !.buffered = @ \cup {s}])
    BY <1>9 DEF ServerSpeaks, HandleAudio
  <2>4. s <= server.created
    BY <1>9 DEF ServerSpeaks, Current
  <2> HIDE DEF s
  <2>5. s \notin twilio.buffered \cup twilio.echoes
    BY <2>1 DEF Playback
  <2>6. \A r \in Responses : r = s \/ response[r].speech => response'[r].speech
    <3>1. response[s] \in Reply
      BY <1>1, <2>1
    <3>2. [response[s] EXCEPT !.speech = TRUE].speech
      BY <3>1 DEF Reply
    <3>3. response' = [response EXCEPT ![s] = [response[s] EXCEPT !.speech = TRUE]]
      BY <2>2
    <3> QED
      BY <1>1, <2>1, <3>2, <3>3
  <2>7. Playback'
    BY <1>1, <2>1, <2>2, <2>3, <2>4, <2>5, <2>6 DEF Playback
  <2> QED
    BY <2>2, <2>7, NotHanging
<1>10. ASSUME NEW t, NEW owes, Create(t, owes)
       PROVE  Playback' /\ (Hangs => twilio'.buffered = {})
  <2> DEFINE r == server.created + 1
  <2>1. server.created \in Nat /\ Responses \subseteq Nat
    BY <1>1, VoiceAssumption DEF Server, Responses
  <2>2. server' = [server EXCEPT !.active = r, !.created = r, !.owes = owes]
        /\ response' = [response EXCEPT ![r] = [status |-> "active", tools |-> <<>>,
                                                speech |-> FALSE, token |-> t]]
        /\ UNCHANGED <<line, marks, twilio>>
    BY <1>10 DEF Create
  <2>3. r = server.created + 1
    OBVIOUS
  <2> HIDE DEF r
  <2>4. server'.created = r
    BY <1>1, <2>2 DEF Server
  <2>5. \A q \in Responses : q # r => response'[q] = response[q]
    BY <1>1, <2>2
  <2>6. \A q \in Responses : q <= server.created => q # r /\ q <= r
    BY <2>1, <2>3
  <2> QED
    BY <1>1, <2>2, <2>4, <2>5, <2>6, PlaybackFrame, NotHanging
<1>11. CASE ServerAnswers
  BY <1>2, <1>10, <1>11 DEF ServerAnswers, Refuse
<1>12. CASE ServerTurn
  <2>1. CASE server' = [server EXCEPT !.owes = FALSE] /\ Refuse
    <3>1. server'.created = server.created
      BY <1>1, <2>1 DEF Server
    <3> QED
      BY <1>1, <2>1, <3>1, PlaybackFrame, NotHanging DEF Refuse
  <2> QED
    BY <1>10, <1>12, <2>1 DEF ServerTurn
<1>13. ASSUME NEW status \in {"completed", "failed", "cancelled"},
              NEW tools \in Tools \cup {<<>>}, ServerDone(status, tools)
       PROVE  Playback' /\ (Hangs => twilio'.buffered = {})
  <2> DEFINE a == server.active
             reply == [response[a] EXCEPT !.status = status, !.tools = tools]
  <2>1. a \in Responses
    BY <1>1, <1>13 DEF ServerDone, Server
  <2>2. reply \in Reply /\ reply.speech = response[a].speech
    <3>1. response[a] \in Reply
      BY <1>1, <2>1
    <3> QED
      BY <3>1 DEF Reply
  <2>3. response' = [response EXCEPT ![a] = reply] /\ HandleDone(a, reply)
        /\ server' = [server EXCEPT !.active = None]
    BY <1>13 DEF ServerDone
  <2> HIDE DEF a, reply
  <2>4. server'.created = server.created
    BY <1>1, <2>3 DEF Server
  <2>5. \A q \in Responses : response'[q].speech = response[q].speech
    BY <1>1, <2>2, <2>3
  <2> QED
    BY <2>1, <2>2, <2>3, <2>4, <2>5, DonePlays
<1>14. CASE \E r \in Responses : ServerRepeats(r)
  <2>1. PICK r \in Responses : ServerRepeats(r)
    BY <1>14
  <2>2. HandleDone(r, response[r]) /\ UNCHANGED response /\ response[r] \in Reply
    BY <1>1, <2>1 DEF ServerRepeats
  <2>3. server'.created = server.created
    BY <1>1, <2>1 DEF ServerRepeats, Server
  <2> QED
    BY <2>2, <2>3, DonePlays
<1>15. CASE \E r \in Responses, ok \in BOOLEAN : ToolReturns(r, ok)
  <2>1. Closes /\ UNCHANGED <<twilio, marks, server, response>>
    BY <1>15, ToolCloses DEF ToolReturns
  <2>2. Playback'
    BY <1>1, <2>1, PlaybackFrame DEF Closes
  <2> QED
    BY <2>1, <2>2 DEF Closes, Playback
<1>16. CASE CallerStops \/ ServerCommits
         \/ \E turn \in Turns, heard \in BOOLEAN : ServerTranscribes(turn, heard)
  <2>1. UNCHANGED <<line, marks, twilio, response>>
    BY <1>16 DEF CallerStops, ServerCommits, ServerTranscribes, HandleStopped, HandleCommitted,
       HandleTranscript
  <2>2. server'.created = server.created
    BY <1>1, <1>16 DEF CallerStops, ServerCommits, ServerTranscribes, Server
  <2> QED
    BY <1>1, <2>1, <2>2, PlaybackFrame, NotHanging
<1>17. CASE \E r \in Responses : TwilioPlays(r)
  <2>1. PICK r \in twilio.buffered :
             twilio' = [twilio EXCEPT !.buffered = @ \ {r}, !.echoes = @ \cup {r}]
             /\ UNCHANGED <<line, marks, server, response>>
    BY <1>17 DEF TwilioPlays
  <2>2. twilio'.buffered = twilio.buffered \ {r} /\ twilio'.echoes = twilio.echoes \cup {r}
    BY <1>1, <2>1
  <2> QED
    BY <2>1, <2>2, NotHanging DEF Playback
<1>18. CASE DrainTimeout \/ Opened \/ ProviderClosed \/ ServerSpoke
  BY <1>2, <1>18 DEF DrainTimeout, Opened, ProviderClosed, ServerSpoke, HandleOwnTranscript
<1> QED
  BY <1>3, <1>4, <1>5, <1>6, <1>7, <1>8, <1>9, <1>11, <1>12, <1>13, <1>14, <1>15, <1>16, <1>17,
     <1>18 DEF Next, Service, Provider

LEMMA VoiceInvariant == Spec => [](Typed /\ Current /\ Closing /\ Playback)
<1>1. Init => Current /\ Closing /\ Playback
  BY VoiceAssumption DEF Init, Current, Closing, Playback, Responses
<1>2. Typed /\ Current /\ Closing /\ Playback /\ [Next]_vars => Current' /\ Closing' /\ Playback'
  <2>1. CASE UNCHANGED vars
    BY <2>1 DEF vars, Current, Closing, Playback
  <2> QED
    BY <2>1, StepCurrent, StepCloses, StepPlays
<1> QED
  BY <1>1, <1>2, TypedAlways, PTL DEF Spec

\* The line is hung up for a goodbye only when Twilio has played everything it was sent.
THEOREM VoiceHeardBeforeHangUp == Spec => HeardBeforeHangUp
<1>1. Typed /\ Current /\ Closing /\ Playback /\ [Next]_vars
        => [line.how = None /\ line'.how = "played" => twilio'.buffered = {}]_vars
  BY StepPlays DEF Hangs
<1> QED
  BY <1>1, VoiceInvariant, PTL DEF Spec, HeardBeforeHangUp

-----------------------------------------------------------------------------
\* Tools run once.

\* A loop over tools has not begun before the response has ended; while a tool runs,
\* every tool up to it was started once.
LoopOf(r) ==
  /\ r \notin seen => run[r].at = "idle" /\ run[r].next = 1 /\ executed[r] = 0
  /\ run[r].at = "running" => executed[r] = run[r].next
  /\ executed[r] <= Len(response[r].tools)
Loops == \A r \in Responses : LoopOf(r)

LEMMA ToolsLength ==
  ASSUME NEW reply \in Reply
  PROVE  Len(reply.tools) \in Nat
<1>1. reply.tools \in Seq({"lookup", "briefing", "end_call"})
  <2>1. reply.tools \in Tools \cup {<<>>}
    BY DEF Reply
  <2>2. <<>> \in Seq({"lookup", "briefing", "end_call"})
    OBVIOUS
  <2> QED
    BY <2>1, <2>2, VoiceAssumption
<1> QED
  BY <1>1

\* A response whose end was not handled, and has not started a tool.
LEMMA LoopsFrame ==
  ASSUME Typed, Typed', Loops, UNCHANGED <<seen, run, executed>>,
         \A r \in seen : response'[r].tools = response[r].tools
  PROVE  Loops'
<1> SUFFICES ASSUME NEW r \in Responses
             PROVE  LoopOf(r)'
  BY DEF Loops
<1>1. LoopOf(r)
  BY DEF Loops
<1>2. Len(response'[r].tools) \in Nat
  BY ToolsLength DEF Typed, ProviderTyped
<1>3. CASE r \in seen
  BY <1>1, <1>3 DEF LoopOf
<1>4. CASE r \notin seen
  BY <1>1, <1>2, <1>4 DEF LoopOf
<1> QED
  BY <1>3, <1>4

LEMMA ProceedLoops ==
  ASSUME Typed, NEW r \in Responses, NEW reply \in Reply, NEW l \in Loop, NEW t,
         executed[r] <= Len(reply.tools), l.next = executed[r] + 1, Proceed(r, reply, l, t)
  PROVE  /\ \A q \in Responses : q # r => run'[q] = run[q] /\ executed'[q] = executed[q]
         /\ run'[r].at = "running" => executed'[r] = run'[r].next
         /\ executed'[r] <= Len(reply.tools)
<1>1. /\ run \in [Responses -> Loop] /\ executed \in [Responses -> Nat]
      /\ Len(reply.tools) \in Nat
  BY ToolsLength DEF Typed, TurnsTyped
<1>2. CASE Conclude(r, reply, l, t)
  <2>1. run' = [run EXCEPT ![r] = [l EXCEPT !.at = "over"]] /\ UNCHANGED executed
    BY <1>2 DEF Conclude
  <2>2. run'[r].at = "over"
    BY <1>1, <2>1 DEF Loop
  <2> QED
    BY <1>1, <2>1, <2>2
<1>3. CASE /\ l.next <= Len(reply.tools)
           /\ run' = [run EXCEPT ![r] = [l EXCEPT !.at = "running"]]
           /\ executed' = [executed EXCEPT ![r] = @ + 1]
  <2>1. run'[r].next = l.next /\ executed'[r] = executed[r] + 1
    BY <1>1, <1>3 DEF Loop
  <2> QED
    BY <1>1, <1>3, <2>1
<1>4. l.next > Len(reply.tools) \/ l.next <= Len(reply.tools)
  BY <1>1 DEF Loop
<1> QED
  BY <1>2, <1>3, <1>4 DEF Proceed

\* The end of a response is reported, with what it will be from now on.
LEMMA DoneLoops ==
  ASSUME Typed, Loops, NEW r \in Responses, NEW reply \in Reply, HandleDone(r, reply),
         response' \in [Responses -> Reply], response'[r] = reply,
         r \in seen => reply = response[r],
         \A q \in Responses : q # r => response'[q] = response[q]
  PROVE  Loops'
<1>1. run \in [Responses -> Loop] /\ executed \in [Responses -> Nat] /\ generation \in Nat
  BY DEF Typed, TurnsTyped
<1>2. Len(reply.tools) \in Nat
  BY ToolsLength
<1>3. CASE r \in seen
  <2>1. UNCHANGED <<seen, run, executed>>
    BY <1>3 DEF HandleDone, Seen
  <2> QED
    BY <1>3, <2>1 DEF Loops, LoopOf
<1>4. CASE r \notin seen
  <2>1. /\ run[r].at = "idle" /\ run[r].next = 1 /\ executed[r] = 0
        /\ seen' = seen \cup {r}
    BY <1>4 DEF Loops, LoopOf, HandleDone, Seen
  <2> DEFINE Begun ==
        /\ \A q \in Responses : q # r => run'[q] = run[q] /\ executed'[q] = executed[q]
        /\ run'[r].at = "running" => executed'[r] = run'[r].next
        /\ executed'[r] <= Len(reply.tools)
  <2>2. Begun
    <3>1. CASE UNCHANGED <<run, executed>>
      BY <1>2, <2>1, <3>1
    <3>2. ASSUME NEW t, Proceed(r, reply, [run[r] EXCEPT !.epoch = generation], t)
          PROVE  Begun
      <4> DEFINE l == [run[r] EXCEPT !.epoch = generation]
      <4>1. l \in Loop /\ l.next = 1
        <5>1. run[r] \in Loop
          BY <1>1
        <5> QED
          BY <1>1, <2>1, <5>1 DEF Loop
      <4> HIDE DEF l
      <4>2. Proceed(r, reply, l, t)
        BY <3>2 DEF l
      <4> QED
        BY <1>2, <2>1, <4>1, <4>2, ProceedLoops
    <3> QED
      BY <1>4, <3>1, <3>2 DEF HandleDone, Seen
  <2>3. ASSUME NEW q \in Responses
        PROVE  LoopOf(q)'
    BY <1>4, <2>1, <2>2 DEF Loops, LoopOf
  <2> QED
    BY <2>3 DEF Loops
<1> QED
  BY <1>3, <1>4

LEMMA StepLoops ==
  ASSUME Typed, Typed', Current, Loops, Next
  PROVE  Loops'
<1> USE DEF turnVars, providerVars
<1>1. /\ run \in [Responses -> Loop] /\ executed \in [Responses -> Nat]
      /\ server \in Server /\ response \in [Responses -> Reply] /\ seen \subseteq Responses
      /\ response' \in [Responses -> Reply]
  BY DEF Typed, TurnsTyped, ProviderTyped
<1>2. CASE UNCHANGED <<seen, run, executed, response>>
  BY <1>2, LoopsFrame
<1>3. CASE \E r \in Responses, ok \in BOOLEAN : ToolReturns(r, ok)
  <2>1. PICK r \in Responses, ok \in BOOLEAN : ToolReturns(r, ok)
    BY <1>3
  <2>2. run[r].at = "running" /\ UNCHANGED <<seen, response>>
    BY <2>1, ToolProceeds DEF ToolReturns
  <2>3. executed[r] = run[r].next /\ executed[r] <= Len(response[r].tools) /\ r \in seen
    BY <2>2 DEF Loops, LoopOf
  <2>4. PICK l \in Loop : l.next = run[r].next + 1 /\ Proceed(r, response[r], l, turns)
    BY <2>1, ToolProceeds
  <2>5. /\ \A q \in Responses : q # r => run'[q] = run[q] /\ executed'[q] = executed[q]
        /\ run'[r].at = "running" => executed'[r] = run'[r].next
        /\ executed'[r] <= Len(response[r].tools)
    BY <1>1, <2>3, <2>4, ProceedLoops
  <2>6. ASSUME NEW q \in Responses
        PROVE  LoopOf(q)'
    BY <2>2, <2>3, <2>5 DEF Loops, LoopOf
  <2> QED
    BY <2>6 DEF Loops
<1>4. ASSUME NEW status \in {"completed", "failed", "cancelled"},
             NEW tools \in Tools \cup {<<>>}, ServerDone(status, tools)
      PROVE  Loops'
  <2> DEFINE a == server.active
             reply == [response[a] EXCEPT !.status = status, !.tools = tools]
  <2>1. a \in Responses /\ a \notin seen
    BY <1>1, <1>4 DEF ServerDone, Server, Current
  <2>2. reply \in Reply
    <3>1. response[a] \in Reply
      BY <1>1, <2>1
    <3> QED
      BY <3>1 DEF Reply
  <2>3. response' = [response EXCEPT ![a] = reply] /\ HandleDone(a, reply)
    BY <1>4 DEF ServerDone
  <2> HIDE DEF a, reply
  <2> QED
    BY <1>1, <2>1, <2>2, <2>3, DoneLoops
<1>5. CASE \E r \in Responses : ServerRepeats(r)
  <2>1. PICK r \in Responses : HandleDone(r, response[r]) /\ UNCHANGED response
    BY <1>5 DEF ServerRepeats
  <2> QED
    BY <1>1, <2>1, DoneLoops
<1>6. ASSUME NEW t, NEW owes, Create(t, owes)
      PROVE  Loops'
  <2> DEFINE r == server.created + 1
  <2>1. server.created \in Nat /\ Responses \subseteq Nat
    BY <1>1, VoiceAssumption DEF Server, Responses
  <2>2. \A q \in seen : q # r
    BY <1>1, <2>1 DEF Current
  <2>3. response' = [response EXCEPT ![r] = [status |-> "active", tools |-> <<>>,
                                             speech |-> FALSE, token |-> t]]
        /\ UNCHANGED <<seen, run, executed>>
    BY <1>6 DEF Create
  <2> HIDE DEF r
  <2> QED
    BY <1>1, <2>2, <2>3, LoopsFrame
<1>7. CASE ServerAnswers \/ ServerTurn
  BY <1>2, <1>6, <1>7 DEF ServerAnswers, ServerTurn, Refuse
<1>8. CASE ServerSpeaks
  <2> DEFINE a == server.active
  <2>1. a \in Responses /\ response[a] \in Reply
    BY <1>1, <1>8 DEF ServerSpeaks, Server
  <2>2. response' = [response EXCEPT ![a] = [response[a] EXCEPT !.speech = TRUE]]
        /\ UNCHANGED <<seen, run, executed>>
    BY <1>8 DEF ServerSpeaks, HandleAudio
  <2>3. [response[a] EXCEPT !.speech = TRUE].tools = response[a].tools
    BY <2>1 DEF Reply
  <2> HIDE DEF a
  <2> QED
    BY <1>1, <2>1, <2>2, <2>3, LoopsFrame
<1>9. CASE CallerStarts
  <2>1. UNCHANGED <<seen, run, executed>>
    BY <1>9 DEF CallerStarts, HandleStarted
  <2>2. CASE server.active = None
    BY <1>2, <1>9, <2>1, <2>2 DEF CallerStarts
  <2>3. CASE server.active # None
    <3> DEFINE a == server.active
    <3>1. a \in Responses /\ response[a] \in Reply
      BY <1>1, <2>3 DEF Server
    <3>2. response' = [response EXCEPT ![a] = [response[a] EXCEPT !.status = "cancelled"]]
      BY <1>9, <2>3 DEF CallerStarts
    <3>3. [response[a] EXCEPT !.status = "cancelled"].tools = response[a].tools
      BY <3>1 DEF Reply
    <3> HIDE DEF a
    <3> QED
      BY <1>1, <2>1, <3>1, <3>2, <3>3, LoopsFrame
  <2> QED
    BY <2>2, <2>3
<1>10. CASE CallerStops \/ ServerCommits
         \/ \E turn \in Turns, heard \in BOOLEAN : ServerTranscribes(turn, heard)
  BY <1>2, <1>10 DEF CallerStops, ServerCommits, ServerTranscribes, HandleStopped,
     HandleCommitted, HandleTranscript
<1>11. CASE \/ \E r \in Responses : EchoMark(r) \/ DrainTimer(r) \/ TwilioPlays(r)
            \/ LimitTimer \/ HangUp \/ MediaClosed
  BY <1>2, <1>11 DEF EchoMark, DrainTimer, TwilioPlays, LimitTimer, HangUp, MediaClosed
<1>12. CASE DrainTimeout \/ Opened \/ ProviderClosed \/ ServerSpoke
  BY <1>2, <1>12 DEF DrainTimeout, Opened, ProviderClosed, ServerSpoke, HandleOwnTranscript
<1> QED
  BY <1>3, <1>4, <1>5, <1>7, <1>8, <1>9, <1>10, <1>11, <1>12 DEF Next, Service, Provider

\* However often the end of a response is reported, no tool of it is started twice.
THEOREM VoiceToolsRunOnce == Spec => []ToolsRunOnce
<1>1. Init => Loops
  <2> SUFFICES ASSUME Init, NEW r \in Responses PROVE LoopOf(r)
    BY DEF Loops
  <2>1. Len(response[r].tools) = 0
    BY DEF Init
  <2> QED
    BY <2>1 DEF Init, LoopOf
<1>2. Typed /\ Typed' /\ Current /\ Loops /\ [Next]_vars => Loops'
  <2>1. CASE UNCHANGED vars
    BY <2>1 DEF vars, Loops, LoopOf
  <2> QED
    BY <2>1, StepLoops
<1>3. Loops => ToolsRunOnce
  BY DEF Loops, LoopOf, ToolsRunOnce
<1> QED
  BY <1>1, <1>2, <1>3, VoiceInvariant, PTL DEF Spec

-----------------------------------------------------------------------------
\* Nothing known is lost.

\* Until the transcript is handed over, a turn that was begun is known, lost, committed or
\* the one being spoken; unless the transcript is full.
Known ==
  /\ words.speech <=> server.caller # "silent"
  /\ LiveTranscript /\ ~drain.finalized =>
       words.begun \subseteq words.noted \cup words.lost \cup words.pending
                             \cup (IF words.speech THEN {server.turn} ELSE {})
       \/ words.segments = MaxSegments
  /\ NothingKnownIsLost

\* A step that leaves the caller's words alone hands nothing over too soon.
LEMMA KnownFrame ==
  ASSUME Known, UNCHANGED words, server'.caller = server.caller, server'.turn = server.turn,
         line'.received = line.received, drain.providerClosed => drain'.providerClosed,
         \/ drain'.finalized = drain.finalized /\ drain'.by = drain.by
         \/ /\ ~drain.finalized /\ drain'.finalized
            /\ \/ drain'.by = "timeout" \/ drain'.providerClosed
               \/ ~(LiveTranscript /\ line.received)
  PROVE  Known'
BY DEF Known, NothingKnownIsLost

LEMMA StepKnown ==
  ASSUME Typed, Closing, Known, Next
  PROVE  Known'
<1> USE DEF turnVars, lineVars, wordVars, providerVars
<1>1. /\ server \in Server /\ words \in Words /\ drain \in Drain
      /\ drain.flushes = (IF drain.finalized THEN 1 ELSE 0)
      /\ server.turn \in 0..MaxTurns
  BY DEF Typed, ProviderTyped, WordsTyped, Server
<1>2. line'.received = line.received
  BY StepCloses
<1>3. ASSUME UNCHANGED <<words, drain>>, server'.caller = server.caller,
             server'.turn = server.turn
      PROVE  Known'
  BY <1>2, <1>3, KnownFrame
<1>4. CASE CallerStarts
  <2>1. /\ server.caller = "silent" /\ server' = [server EXCEPT !.caller = "speaking", !.turn = @ + 1]
        /\ words' = [words EXCEPT !.speech = TRUE,
                                  !.begun = IF drain.finalized THEN @ ELSE @ \cup {server.turn + 1}]
        /\ UNCHANGED drain
    BY <1>4 DEF CallerStarts, HandleStarted
  <2>2. server'.caller = "speaking" /\ server'.turn = server.turn + 1
    BY <1>1, <2>1 DEF Server
  <2>3. /\ words'.speech /\ words'.noted = words.noted /\ words'.lost = words.lost
        /\ words'.pending = words.pending /\ words'.speech = TRUE
        /\ words'.segments = words.segments
        /\ words'.begun = IF drain.finalized THEN words.begun
                          ELSE words.begun \cup {server.turn + 1}
    BY <1>1, <2>1 DEF Words
  <2>4. ~words.speech
    BY <2>1 DEF Known
  <2> QED
    BY <1>2, <2>1, <2>2, <2>3, <2>4 DEF Known, NothingKnownIsLost
<1>5. CASE CallerStops
  <2>1. server.caller = "speaking" /\ server' = [server EXCEPT !.caller = "stopped"]
        /\ UNCHANGED <<words, drain>>
    BY <1>5 DEF CallerStops, HandleStopped
  <2>2. server'.caller = "stopped" /\ server'.turn = server.turn
    BY <1>1, <2>1 DEF Server
  <2> QED
    BY <1>2, <2>1, <2>2 DEF Known, NothingKnownIsLost
<1>6. CASE ServerCommits
  <2>1. /\ server.caller = "stopped" /\ server'.caller = "silent" /\ server'.turn = server.turn
        /\ words' = [words EXCEPT !.speech = FALSE, !.pending = @ \cup {server.turn}]
        /\ UNCHANGED drain
    BY <1>1, <1>6 DEF ServerCommits, HandleCommitted, Server
  <2>2. /\ words'.speech = FALSE /\ words'.noted = words.noted /\ words'.lost = words.lost
        /\ words'.pending = words.pending \cup {server.turn} /\ words'.begun = words.begun
        /\ words'.segments = words.segments
    BY <1>1, <2>1 DEF Words
  <2> QED
    BY <1>2, <2>1, <2>2 DEF Known, NothingKnownIsLost
<1>7. CASE \E turn \in Turns, heard \in BOOLEAN : ServerTranscribes(turn, heard)
  <2>1. PICK turn \in Turns, heard \in BOOLEAN : ServerTranscribes(turn, heard)
    BY <1>7
  <2>2. server'.caller = server.caller /\ server'.turn = server.turn
    BY <1>1, <2>1 DEF ServerTranscribes, Server
  <2> DEFINE w == [words EXCEPT !.pending = @ \ {turn}]
             lost == [w EXCEPT !.lost = @ \cup {turn}]
  <2>a. /\ w \in Words /\ w.pending = words.pending \ {turn} /\ w.speech = words.speech
        /\ w.begun = words.begun /\ w.noted = words.noted /\ w.lost = words.lost
        /\ w.segments = words.segments
    BY <1>1 DEF Words
  <2>b. /\ lost.pending = w.pending /\ lost.speech = w.speech /\ lost.begun = w.begun
        /\ lost.noted = w.noted /\ lost.lost = w.lost \cup {turn} /\ lost.segments = w.segments
    BY <1>1 DEF Words
  <2>3. /\ words' = IF heard THEN Noted(w, {turn}) ELSE lost
        /\ drain' = Settle(drain, words')
    BY <2>1 DEF ServerTranscribes, HandleTranscript
  <2> HIDE DEF w, lost
  <2>4. /\ words'.speech = words.speech /\ words'.begun = words.begun
        /\ words'.pending = words.pending \ {turn}
        /\ words.noted \subseteq words'.noted /\ words.lost \subseteq words'.lost
        /\ words.segments = MaxSegments => words'.segments = MaxSegments
        /\ LiveTranscript /\ ~drain.finalized =>
             turn \in words'.noted \cup words'.lost \/ words'.segments = MaxSegments
    BY <2>a, <2>b, <2>3, NotedWords
  <2>5. /\ drain'.providerClosed = drain.providerClosed
        /\ drain.finalized => drain'.finalized /\ drain'.by = drain.by
        /\ drain'.finalized /\ ~drain.finalized => ~HasPending(words') \/ drain.providerClosed
    BY <1>1, <2>3, SettleDrain
  <2>6. CASE drain.finalized
    BY <1>2, <2>2, <2>4, <2>5, <2>6 DEF Known, NothingKnownIsLost
  <2>7. CASE ~drain.finalized
    <3>1. LiveTranscript =>
            \/ words'.begun \subseteq words'.noted \cup words'.lost \cup words'.pending
                                     \cup (IF words'.speech THEN {server'.turn} ELSE {})
            \/ words'.segments = MaxSegments
      BY <2>2, <2>4, <2>7 DEF Known
    <3>2. LiveTranscript /\ drain'.finalized /\ ~drain'.providerClosed
            => words'.begun \subseteq words'.noted \cup words'.lost \/ words'.segments = MaxSegments
      BY <2>5, <2>7, <3>1 DEF HasPending
    <3> QED
      BY <2>2, <2>4, <3>1, <3>2 DEF Known, NothingKnownIsLost
  <2> QED
    BY <2>6, <2>7
<1>8. CASE MediaClosed
  <2>1. UNCHANGED <<words, server>>
        /\ drain' = IF ~ShouldWait \/ drain.providerClosed THEN Finish(drain, "no_wait")
                    ELSE Deadline(drain)
    BY <1>8 DEF MediaClosed
  <2>2. /\ Deadline(drain).finalized = drain.finalized /\ Deadline(drain).by = drain.by
        /\ Deadline(drain).providerClosed = drain.providerClosed
    BY <1>1 DEF Deadline, Drain
  <2>3. CASE ~ShouldWait \/ drain.providerClosed
    BY <1>1, <1>2, <2>1, <2>3, KnownFrame, FinishDrain DEF ShouldWait
  <2>4. CASE ~(~ShouldWait \/ drain.providerClosed)
    BY <1>2, <2>1, <2>2, <2>4, KnownFrame
  <2> QED
    BY <2>3, <2>4
<1>9. CASE DrainTimeout
  <2> DEFINE d == [drain EXCEPT !.timer = FALSE]
  <2>1. UNCHANGED <<words, server>> /\ drain' = Finish(d, "timeout")
    BY <1>9 DEF DrainTimeout
  <2>2. /\ d \in Drain /\ d.flushes = (IF d.finalized THEN 1 ELSE 0)
        /\ d.finalized = drain.finalized /\ d.by = drain.by
        /\ d.providerClosed = drain.providerClosed
    BY <1>1 DEF Drain
  <2> HIDE DEF d
  <2> QED
    BY <1>2, <2>1, <2>2, KnownFrame, FinishDrain
<1>10. CASE ProviderClosed
  <2> DEFINE d == [drain EXCEPT !.providerClosed = TRUE]
  <2>1. UNCHANGED <<words, server>> /\ drain' = Settle(d, words)
    BY <1>10 DEF ProviderClosed
  <2>2. /\ d \in Drain /\ d.flushes = (IF d.finalized THEN 1 ELSE 0)
        /\ d.finalized = drain.finalized /\ d.by = drain.by /\ d.providerClosed
    BY <1>1 DEF Drain
  <2> HIDE DEF d
  <2>3. drain'.providerClosed /\ (drain.finalized => drain'.finalized)
    BY <2>1, <2>2, SettleDrain
  <2> QED
    BY <1>2, <2>1, <2>3 DEF Known, NothingKnownIsLost
<1>11. ASSUME NEW t, NEW owes, Create(t, owes)
       PROVE  Known'
  <2>1. UNCHANGED <<words, drain>> /\ server'.caller = server.caller /\ server'.turn = server.turn
    BY <1>1, <1>11 DEF Create, Server
  <2> QED
    BY <1>3, <2>1
<1>12. CASE ServerAnswers
  BY <1>3, <1>11, <1>12 DEF ServerAnswers, Refuse
<1>13. CASE ServerTurn
  <2>1. CASE server' = [server EXCEPT !.owes = FALSE] /\ Refuse
    <3>1. server'.caller = server.caller /\ server'.turn = server.turn
      BY <1>1, <2>1 DEF Server
    <3> QED
      BY <1>3, <2>1, <3>1 DEF Refuse
  <2> QED
    BY <1>11, <1>13, <2>1 DEF ServerTurn
<1>14. CASE \/ \E status \in {"completed", "failed", "cancelled"}, tools \in Tools \cup {<<>>} :
                 ServerDone(status, tools)
            \/ \E r \in Responses : ServerRepeats(r)
  <2>1. UNCHANGED <<words, drain>>
    BY <1>14 DEF ServerDone, ServerRepeats, HandleDone
  <2>2. server'.caller = server.caller /\ server'.turn = server.turn
    BY <1>1, <1>14 DEF ServerDone, ServerRepeats, Server
  <2> QED
    BY <1>3, <2>1, <2>2
<1>15. CASE \/ \E r \in Responses, ok \in BOOLEAN : ToolReturns(r, ok)
            \/ \E r \in Responses : EchoMark(r) \/ DrainTimer(r) \/ TwilioPlays(r)
            \/ LimitTimer \/ HangUp \/ ServerSpeaks \/ Opened
  <2>1. UNCHANGED <<words, drain, server>>
    BY <1>15 DEF ToolReturns, EchoMark, DrainTimer, TwilioPlays, LimitTimer, HangUp,
       ServerSpeaks, HandleAudio, Opened
  <2> QED
    BY <1>3, <2>1
<1>16. CASE ServerSpoke
  <2>1. words' = Noted(words, {}) /\ UNCHANGED <<drain, server>>
    BY <1>16 DEF ServerSpoke, HandleOwnTranscript
  <2>2. /\ words'.speech = words.speech /\ words'.begun = words.begun
        /\ words'.pending = words.pending /\ words'.lost = words.lost
        /\ words.noted \subseteq words'.noted
        /\ words.segments = MaxSegments => words'.segments = MaxSegments
    BY <1>1, <2>1, NotedWords
  <2> QED
    BY <1>2, <2>1, <2>2 DEF Known, NothingKnownIsLost
<1> QED
  BY <1>4, <1>5, <1>6, <1>7, <1>8, <1>9, <1>10, <1>12, <1>13, <1>14, <1>15, <1>16
     DEF Next, Service, Provider

\* What the caller had begun to say is in what is handed to saveTranscript, unless its
\* transcription failed, the transcript was full, the deadline passed, the provider left or
\* no transcript is kept.
THEOREM VoiceNothingKnownIsLost == Spec => []NothingKnownIsLost
<1>1. Init => Known
  <2> SUFFICES ASSUME Init PROVE Known
    OBVIOUS
  <2>1. words.begun = {} /\ words.speech = FALSE /\ server.caller = "silent" /\ drain.finalized = FALSE
    BY DEF Init
  <2> QED
    BY <2>1 DEF Known, NothingKnownIsLost
<1>2. Typed /\ Closing /\ Known /\ [Next]_vars => Known'
  <2>1. CASE UNCHANGED vars
    BY <2>1 DEF vars, Known, NothingKnownIsLost
  <2> QED
    BY <2>1, StepKnown
<1>3. Known => NothingKnownIsLost
  BY DEF Known
<1> QED
  BY <1>1, <1>2, <1>3, VoiceInvariant, PTL DEF Spec

\* For any number of responses, turns, repeats and interruptions: tools run once, nothing waited for
\* is lost before it is handed over, and a hang-up comes after a goodbye that was heard and
\* (a leaked timer apart) not taken back.
THEOREM VoiceIsHonest == Spec => CallIsHonest
BY VoiceToolsRunOnce, VoiceNothingKnownIsLost, VoiceHeardBeforeHangUp, VoiceInterruptionRevokesClose, PTL DEF CallIsHonest
=============================================================================
