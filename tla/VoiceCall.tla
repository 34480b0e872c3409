------------------------------ MODULE VoiceCall ------------------------------
(***************************************************************************)
(* One call on the voice bridge, from the start of its media stream to the *)
(* end of its transcript: the connection state of index.js, the turn       *)
(* controller (voiceTurns.js) and the drain of transcripts                 *)
(* (transcriptDrain.js), between two external parties.  The model provider *)
(* creates responses, hears the caller and transcribes; Twilio buffers     *)
(* audio, plays it and echoes a mark for each piece.                       *)
(*                                                                         *)
(* The process is single threaded: a message is handled in one step, and   *)
(* other messages are handled while a tool runs.  The provider's messages  *)
(* are handled as they are sent: requests on their way to it may take any  *)
(* time, so a delay of its own messages as well would add no behaviour.    *)
(***************************************************************************)
EXTENDS Naturals, Sequences

CONSTANTS None,
          MaxResponses,   \* bound: responses the provider creates
          MaxTurns,       \* bound: times the caller speaks
          MaxRepeats,     \* bound: response.done messages that arrive again
          MaxSegments,    \* MAX_SEGMENTS: the segments a transcript has room for
          Tools,          \* the function calls a response may carry
          LiveTranscript, \* config.liveTranscript
          AiSpeaksFirst   \* config.aiSpeaksFirst

ASSUME VoiceAssumption ==
  /\ MaxResponses \in Nat /\ MaxTurns \in Nat /\ MaxRepeats \in Nat /\ MaxSegments \in Nat
  /\ None \notin Nat /\ None \notin {"played", "timeout"}
  /\ Tools \subseteq Seq({"lookup", "briefing", "end_call"})
  /\ LiveTranscript \in BOOLEAN /\ AiSpeaksFirst \in BOOLEAN

Responses == 1..MaxResponses
Turns == 1..MaxTurns

VARIABLES
  turns,      \* createVoiceTurns: farewell, speaking, awaiting, deferred, closing
  active,     \* activeResponses: the generation each response was created in
  seen,       \* the responses whose response.done was handled
  run,        \* for each response, the loop over its tool calls
  generation, \* toolGeneration
  line,       \* the Twilio side: the connection, its timers, the hang-up
  marks,      \* markQueue: pieces of audio not yet acknowledged
  words,      \* the caller's turns: being spoken, committed, transcribed; the segments
  drain,      \* createTranscriptDrain
  openAiWs,   \* its readyState
  requests,   \* response.create messages on their way to the provider
  server,     \* the provider's side of the session
  response,   \* what the provider made of each response
  twilio,     \* audio pieces Twilio has not played; echoes on their way
  executed    \* how many tools of each response were started

vars == <<turns, active, seen, run, generation, line, marks, words, drain, openAiWs,
          requests, server, response, twilio, executed>>
turnVars == <<turns, active, seen, run, executed>>
lineVars == <<line, marks, twilio>>
wordVars == <<words, drain>>
providerVars == <<server, response>>

Controller == [farewell : Responses \cup {None}, speaking : BOOLEAN, awaiting : BOOLEAN,
               deferred : BOOLEAN, closing : BOOLEAN]
Loop == [at : {"idle", "running", "over"}, epoch : Nat, next : Nat,
         ends : BOOLEAN, kept : BOOLEAN]
Line == [open : BOOLEAN, ending : BOOLEAN, closed : BOOLEAN, received : BOOLEAN,
         goodbye : Responses \cup {None}, timer : Responses \cup {None},
         armed : SUBSET Responses, limit : BOOLEAN,
         how : {"played", "timeout", "limit", None}]
Words == [speech : BOOLEAN, pending : SUBSET Turns, begun : SUBSET Turns,
          noted : SUBSET Turns, lost : SUBSET Turns, segments : 0..MaxSegments]
Drain == [timer : BOOLEAN, providerClosed : BOOLEAN, finalized : BOOLEAN,
          by : {"settled", "timeout", "no_wait", None}, flushes : {0, 1}]
Server == [active : Responses \cup {None}, created : 0..MaxResponses,
           caller : {"silent", "speaking", "stopped"}, turn : 0..MaxTurns,
           owes : BOOLEAN, hearing : SUBSET Turns, repeats : 0..MaxRepeats]
Answer == [token : Responses \cup {None}]  \* response.create, for a farewell its token
Reply == [status : {"none", "active", "completed", "cancelled", "failed"},
          tools : Tools \cup {<<>>}, speech : BOOLEAN, token : Responses \cup {None}]

TypeOK ==
  /\ turns \in Controller
  /\ active \in [Responses -> Nat \cup {None}]
  /\ seen \subseteq Responses
  /\ run \in [Responses -> Loop]
  /\ generation \in Nat
  /\ line \in Line
  /\ marks \subseteq Responses
  /\ words \in Words
  /\ drain \in Drain
  /\ openAiWs \in {"connecting", "open", "closing", "closed"}
  /\ requests \in Seq(Answer)
  /\ server \in Server
  /\ response \in [Responses -> Reply]
  /\ twilio \in [buffered : SUBSET Responses, echoes : SUBSET Responses]
  /\ executed \in [Responses -> Nat]

\* openingSequence
Greeting == IF AiSpeaksFirst THEN <<[token |-> None]>> ELSE <<>>

\* The stream has started, and armed a call limit if there is one (maxCallSeconds may
\* be 0); it carries media or never will;
\* the socket to the provider may have been opened ahead by the call's webhook.
Init ==
  /\ turns = [farewell |-> None, speaking |-> FALSE, awaiting |-> FALSE,
              deferred |-> FALSE, closing |-> FALSE]
  /\ active = [r \in Responses |-> None]
  /\ seen = {}
  /\ run = [r \in Responses |-> [at |-> "idle", epoch |-> 0, next |-> 1,
                                 ends |-> FALSE, kept |-> FALSE]]
  /\ generation = 0
  /\ line \in [open : {TRUE}, ending : {FALSE}, closed : {FALSE}, received : BOOLEAN,
               goodbye : {None}, timer : {None}, armed : {{}}, limit : BOOLEAN, how : {None}]
  /\ marks = {}
  /\ words = [speech |-> FALSE, pending |-> {}, begun |-> {}, noted |-> {}, lost |-> {},
            segments |-> 0]
  /\ drain = [timer |-> FALSE, providerClosed |-> FALSE, finalized |-> FALSE,
              by |-> None, flushes |-> 0]
  /\ openAiWs \in {"connecting", "open"}
  /\ requests = IF openAiWs = "open" THEN Greeting ELSE <<>>
  /\ server = [active |-> None, created |-> 0, caller |-> "silent", turn |-> 0,
               owes |-> FALSE, hearing |-> {}, repeats |-> 0]
  /\ response = [r \in Responses |-> [status |-> "none", tools |-> <<>>, speech |-> FALSE,
                                      token |-> None]]
  /\ twilio = [buffered |-> {}, echoes |-> {}]
  /\ executed = [r \in Responses |-> 0]

-----------------------------------------------------------------------------
\* The line, as a function of its record.

Unarmed(l) == [l EXCEPT !.armed = @ \ {l.timer}, !.timer = None]

\* endCall: hang up by closing the media stream.
EndCall(l, how) ==
  IF l.ending THEN l
  ELSE [Unarmed(l) EXCEPT !.ending = TRUE, !.goodbye = None, !.limit = FALSE,
                          !.how = IF l.open THEN how ELSE @, !.open = FALSE]

\* Mutant of Armed: no timer bounds the goodbye.
Unbounded(l, r) == l

Armed(l, r) == [l EXCEPT !.timer = r, !.armed = @ \cup {r}]

\* endAfterPlayback: hang up when what Twilio was sent has been heard.
EndAfterPlayback(l, r) ==
  IF l.ending THEN l
  ELSE IF marks = {} THEN EndCall(l, "played")
  ELSE [IF l.timer = None THEN Armed(l, r) ELSE l EXCEPT !.goodbye = r]

Listening(l) == ~l.ending /\ ~l.closed /\ openAiWs = "open"

\* sendResponse: ask for a response, or for the farewell to the end_call of response r.
SendResponse(t) ==
  requests' = IF Listening(line) THEN Append(requests, [token |-> t]) ELSE requests

-----------------------------------------------------------------------------
\* The turn controller.

Resumes(t, a) ==
  /\ t.deferred /\ ~t.speaking /\ ~t.awaiting /\ ~t.closing
  /\ \A r \in Responses : a[r] = None

\* resumePending: a deferred continuation is sent when the conversation is idle.
ResumePending(t, a) ==
  /\ turns' = [t EXCEPT !.deferred = @ /\ ~Resumes(t, a)]
  /\ IF Resumes(t, a) THEN SendResponse(None) ELSE UNCHANGED requests

\* What is done once the tools of response r have returned: nothing if the caller
\* interrupted (what must not be lost is deferred), else hang up, farewell or go on.
Conclude(r, reply, l, t) ==
  LET over == [t EXCEPT !.deferred = FALSE] IN
  /\ run' = [run EXCEPT ![r] = [l EXCEPT !.at = "over"]]
  /\ UNCHANGED executed
  /\ \/ /\ l.epoch # generation
        /\ ResumePending([t EXCEPT !.deferred = @ \/ l.kept], active')
        /\ UNCHANGED line
     \/ /\ l.epoch = generation /\ l.ends /\ reply.speech
        /\ turns' = [over EXCEPT !.closing = TRUE]
        /\ line' = EndAfterPlayback(line, r)
        /\ UNCHANGED requests
     \/ /\ l.epoch = generation /\ l.ends /\ ~reply.speech
        /\ turns' = [over EXCEPT !.closing = TRUE, !.farewell = r]
        /\ SendResponse(r)
        /\ line' = IF Listening(line) THEN Armed(line, r) ELSE line
     \/ /\ l.epoch = generation /\ ~l.ends
        /\ turns' = over
        /\ SendResponse(None)
        /\ UNCHANGED line

\* The loop of done: start the next tool, unless there is none, the caller interrupted
\* or the call is over (handleToolCall then returns at once).
Proceed(r, reply, l, t) ==
  IF l.next > Len(reply.tools) \/ l.epoch # generation \/ line.ending \/ line.closed
  THEN Conclude(r, reply, l, t)
  ELSE /\ run' = [run EXCEPT ![r] = [l EXCEPT !.at = "running"]]
       /\ executed' = [executed EXCEPT ![r] = @ + 1]
       /\ turns' = t
       /\ UNCHANGED <<line, requests>>

\* A tool returns. An ordinary result is dropped if the caller interrupted; the result
\* of a briefing is handed to the model all the same.
ToolReturns(r, ok) ==
  LET l == run[r]
      tool == response[r].tools[l.next]
      given == openAiWs = "open" /\ (l.epoch = generation \/ tool = "briefing")
  IN /\ l.at = "running"
     /\ active' = active
     /\ Proceed(r, response[r], [l EXCEPT !.next = @ + 1,
                                          !.ends = @ \/ (given /\ tool = "end_call" /\ ok),
                                          !.kept = @ \/ (given /\ tool = "briefing")], turns)
     /\ UNCHANGED <<seen, generation, marks, words, drain, openAiWs, providerVars, twilio>>

IsFarewell(reply) == turns.farewell # None /\ reply.token = turns.farewell

Seen(r) == r \in seen

\* response.done: handled once for each response.
HandleDone(r, reply) ==
  LET served == [turns EXCEPT !.awaiting = @ /\ active[r] # generation]
      calls == reply.status = "completed" /\ reply.tools # <<>>
  IN
  /\ UNCHANGED <<generation, marks, wordVars, openAiWs, twilio>>
  /\ IF Seen(r) THEN UNCHANGED <<turns, active, seen, run, executed, line, requests>>
     ELSE /\ seen' = seen \cup {r}
          /\ active' = [active EXCEPT ![r] = None]
          /\ \/ /\ IsFarewell(reply)
                /\ turns' = [served EXCEPT !.farewell = None]
                /\ line' = IF reply.status = "completed" /\ reply.speech
                           THEN EndAfterPlayback(line, r) ELSE line
                /\ UNCHANGED <<run, executed, requests>>
             \/ /\ ~IsFarewell(reply) /\ ~calls
                /\ ResumePending(served, active')
                /\ UNCHANGED <<run, executed, line>>
             \/ /\ ~IsFarewell(reply) /\ calls
                /\ Proceed(r, reply, [run[r] EXCEPT !.epoch = generation], served)

\* A piece of audio goes to Twilio, followed by its mark.
HandleAudio(r) ==
  /\ IF line.closed \/ ~line.open THEN UNCHANGED <<marks, twilio>>
     ELSE /\ marks' = marks \cup {r}
          /\ twilio' = [twilio EXCEPT !.buffered = @ \cup {r}]
  /\ UNCHANGED <<turnVars, generation, line, wordVars, openAiWs, requests>>

\* interrupt, and what handleSpeechStartedEvent does to the line
Interrupt(t) == [t EXCEPT !.farewell = None, !.closing = FALSE, !.speaking = TRUE, !.awaiting = TRUE]
\* Mutant of Interrupted: the goodbye being played is not taken back.
InterruptedTimerOnly(l) == Unarmed(l)

Interrupted(l) == [Unarmed(l) EXCEPT !.goodbye = None]

\* The caller starts to speak: what is playing is cleared, a closing is taken back.
HandleStarted(turn) ==
  /\ generation' = generation + 1
  /\ turns' = Interrupt(turns)
  /\ line' = Interrupted(line)
  /\ marks' = {}
  /\ twilio' = IF marks # {} /\ line.open
               THEN [twilio EXCEPT !.buffered = {}, !.echoes = @ \cup twilio.buffered]
               ELSE twilio
  /\ words' = [words EXCEPT !.speech = TRUE,
                            !.begun = IF drain.finalized THEN @ ELSE @ \cup {turn}]
  /\ UNCHANGED <<active, seen, run, executed, drain, openAiWs, requests>>

HandleStopped ==
  /\ ResumePending([turns EXCEPT !.speaking = FALSE], active)
  /\ UNCHANGED <<active, seen, run, executed, generation, lineVars, wordVars, openAiWs>>

HandleCommitted(turn) ==
  /\ words' = [words EXCEPT !.speech = FALSE, !.pending = @ \cup {turn}]
  /\ UNCHANGED <<turnVars, generation, lineVars, drain, openAiWs, requests>>

-----------------------------------------------------------------------------
\* The drain.

HasPending(w) == w.speech \/ w.pending # {}
ShouldWait == LiveTranscript /\ line.received

\* Mutant of Finish: every path to the end hands the transcript over.
FinishAgain(d, how) ==
  [d EXCEPT !.finalized = TRUE, !.timer = FALSE, !.by = how, !.flushes = @ + 1]

\* finish: hand what was collected to saveTranscript once, then close the socket to the
\* provider. Nobody waits for saveTranscript, and its errors are only logged.
Finish(d, how) ==
  IF d.finalized THEN d
  ELSE [d EXCEPT !.finalized = TRUE, !.timer = FALSE, !.by = how, !.flushes = @ + 1]
CloseSocket == openAiWs' = IF drain'.finalized /\ openAiWs = "open" THEN "closing" ELSE openAiWs

Settle(d, w) == IF line.closed /\ (~HasPending(w) \/ d.providerClosed) THEN Finish(d, "settled") ELSE d

\* noteSegment: a segment is dropped when the transcript is full; what comes after the
\* transcript was handed over reaches nobody.
Noted(w, said) ==
  IF LiveTranscript /\ w.segments < MaxSegments /\ ~drain.finalized
  THEN [w EXCEPT !.segments = @ + 1, !.noted = @ \cup said] ELSE w

\* The words of a turn arrive, or the news that there are none.
HandleTranscript(turn, heard) ==
  /\ words' = LET w == [words EXCEPT !.pending = @ \ {turn}] IN
              IF heard THEN Noted(w, {turn}) ELSE [w EXCEPT !.lost = @ \cup {turn}]
  /\ drain' = Settle(drain, words')
  /\ CloseSocket
  /\ UNCHANGED <<turnVars, generation, lineVars, requests>>

\* Iris's own words take up room in the transcript.
HandleOwnTranscript ==
  /\ words' = Noted(words, {})
  /\ UNCHANGED <<turnVars, generation, lineVars, drain, openAiWs, requests>>

-----------------------------------------------------------------------------
\* The Twilio side: media, marks, timers, the end of the stream.

\* The mark echoed is taken off the queue; the last one may end the call.
Acknowledged(r) == marks \ {r}
EchoMark(r) ==
  /\ line.open /\ r \in twilio.echoes
  /\ twilio' = [twilio EXCEPT !.echoes = @ \ {r}]
  /\ marks' = Acknowledged(r)
  /\ line' = IF marks' = {} /\ line.goodbye # None THEN EndCall(line, "played") ELSE line
  /\ UNCHANGED <<turnVars, generation, wordVars, openAiWs, requests, providerVars>>

\* A drain timer fires; r is the response whose playback it bounds.
DrainTimer(r) ==
  /\ r \in line.armed
  /\ line' = EndCall([line EXCEPT !.armed = @ \ {r}], "timeout")
  /\ UNCHANGED <<turnVars, generation, marks, wordVars, openAiWs, requests, providerVars, twilio>>

LimitTimer ==
  /\ line.limit
  /\ line' = EndCall(line, "limit")
  /\ UNCHANGED <<turnVars, generation, marks, wordVars, openAiWs, requests, providerVars, twilio>>

\* The caller hangs up or the line drops, at any moment.
HangUp ==
  /\ line.open
  /\ line' = [line EXCEPT !.open = FALSE]
  /\ UNCHANGED <<turnVars, generation, marks, wordVars, openAiWs, requests, providerVars, twilio>>

Deadline(d) == [d EXCEPT !.timer = TRUE]

\* The close handler: timers are cleared; the drain begins.
MediaClosed ==
  /\ ~line.open /\ ~line.closed
  /\ line' = [Unarmed(line) EXCEPT !.closed = TRUE, !.limit = FALSE]
  /\ drain' = IF ~ShouldWait \/ drain.providerClosed THEN Finish(drain, "no_wait")
              ELSE Deadline(drain)
  /\ CloseSocket
  /\ UNCHANGED <<turnVars, generation, marks, words, requests, providerVars, twilio>>

DrainTimeout ==
  /\ drain.timer
  /\ drain' = Finish([drain EXCEPT !.timer = FALSE], "timeout")
  /\ CloseSocket
  /\ UNCHANGED <<turnVars, generation, lineVars, words, requests, providerVars>>

\* handleOpenAiClose: the socket closed, by either side, or never opened.
ProviderClosed ==
  /\ openAiWs # "closed"
  /\ openAiWs' = "closed"
  /\ drain' = Settle([drain EXCEPT !.providerClosed = TRUE], words)
  /\ requests' = <<>>
  /\ UNCHANGED <<turnVars, generation, lineVars, words, providerVars>>

\* The handshake ends: configure the session and ask for the greeting.
Opened ==
  /\ openAiWs = "connecting"
  /\ openAiWs' = "open"
  /\ requests' = requests \o Greeting
  /\ UNCHANGED <<turnVars, generation, lineVars, wordVars, providerVars>>

-----------------------------------------------------------------------------
\* The provider and Twilio, as the handlers above use them.

Connected == openAiWs \in {"open", "closing"}

\* A new response, for a request or a turn of the caller.
Create(t, owes) ==
  LET r == server.created + 1 IN
  /\ server.created < MaxResponses
  /\ server' = [server EXCEPT !.active = r, !.created = r, !.owes = owes]
  /\ response' = [response EXCEPT ![r] = [status |-> "active", tools |-> <<>>,
                                          speech |-> FALSE, token |-> t]]
  /\ active' = [active EXCEPT ![r] = generation]  \* response.created
  /\ UNCHANGED <<turns, seen, run, executed, generation, lineVars, wordVars, openAiWs>>

\* A request makes a response, unless one is being generated (an error, which is logged).
Refuse == UNCHANGED <<turnVars, generation, lineVars, wordVars, openAiWs, response>>
ServerAnswers ==
  /\ Connected /\ requests # <<>> /\ requests' = Tail(requests)
  /\ IF server.active = None THEN Create(Head(requests).token, server.owes)
     ELSE UNCHANGED server /\ Refuse
\* Voice activity detection answers a caller who stopped speaking.
ServerTurn ==
  /\ Connected /\ server.owes
  /\ IF server.active = None THEN Create(None, FALSE)
     ELSE server' = [server EXCEPT !.owes = FALSE] /\ Refuse
  /\ UNCHANGED requests
ServerSpeaks ==
  LET r == server.active IN
  /\ Connected /\ r # None /\ response[r].status = "active" /\ ~response[r].speech
  /\ response' = [response EXCEPT ![r].speech = TRUE]
  /\ HandleAudio(r)
  /\ UNCHANGED server
\* A response ends. A farewell carries no tool calls (tool_choice none).
ServerDone(status, tools) ==
  LET r == server.active
      reply == [response[r] EXCEPT !.status = status, !.tools = tools]
  IN /\ Connected /\ r # None
     /\ (status = "cancelled") = (response[r].status = "cancelled")
     /\ reply.token # None => tools = <<>>
     /\ response' = [response EXCEPT ![r] = reply]
     /\ server' = [server EXCEPT !.active = None]
     /\ HandleDone(r, reply)
ServerRepeats(r) ==
  /\ Connected /\ server.repeats < MaxRepeats
  /\ r # server.active /\ response[r].status # "none"
  /\ server' = [server EXCEPT !.repeats = @ + 1]
  /\ HandleDone(r, response[r])
  /\ UNCHANGED response
\* The caller speaks, stops, and the turn is committed. The provider cancels what it
\* was generating (server_vad interrupts); the response.done that says so follows.
CallerStarts ==
  /\ Connected /\ line.open /\ line.received
  /\ server.caller = "silent" /\ server.turn < MaxTurns
  /\ server' = [server EXCEPT !.caller = "speaking", !.turn = @ + 1]
  /\ response' = IF server.active = None THEN response
                 ELSE [response EXCEPT ![server.active].status = "cancelled"]
  /\ HandleStarted(server.turn + 1)
CallerStops ==
  /\ Connected /\ server.caller = "speaking"
  /\ server' = [server EXCEPT !.caller = "stopped"]
  /\ HandleStopped
  /\ UNCHANGED response
ServerCommits ==
  /\ Connected /\ server.caller = "stopped"
  /\ server' = [server EXCEPT !.caller = "silent", !.owes = TRUE,
                              !.hearing = IF LiveTranscript THEN @ \cup {server.turn} ELSE @]
  /\ HandleCommitted(server.turn)
  /\ UNCHANGED response
ServerTranscribes(turn, heard) ==
  /\ Connected /\ turn \in server.hearing
  /\ server' = [server EXCEPT !.hearing = @ \ {turn}]
  /\ HandleTranscript(turn, heard)
  /\ UNCHANGED response
\* The words of what a response says: a message for each piece it speaks.
ServerSpoke ==
  /\ Connected /\ server.active # None /\ response[server.active].speech
  /\ HandleOwnTranscript
  /\ UNCHANGED providerVars
TwilioPlays(r) ==
  /\ r \in twilio.buffered
  /\ twilio' = [twilio EXCEPT !.buffered = @ \ {r}, !.echoes = @ \cup {r}]
  /\ UNCHANGED <<turnVars, generation, line, marks, wordVars, openAiWs, requests, providerVars>>

Provider ==
  \/ ServerAnswers \/ ServerTurn \/ ServerSpeaks
  \/ \E tools \in Tools \cup {<<>>} : ServerDone("completed", tools)
  \/ ServerDone("failed", <<>>) \/ ServerDone("cancelled", <<>>)
  \/ \E r \in Responses : ServerRepeats(r)
  \/ CallerStarts \/ CallerStops \/ ServerCommits \/ ServerSpoke
  \/ \E turn \in Turns, heard \in BOOLEAN : ServerTranscribes(turn, heard)
  \/ \E r \in Responses : TwilioPlays(r)

Service ==
  \/ \E r \in Responses, ok \in BOOLEAN : ToolReturns(r, ok)
  \/ HangUp \/ MediaClosed \/ LimitTimer \/ DrainTimeout
  \/ \E r \in Responses : EchoMark(r) \/ DrainTimer(r)
  \/ Opened \/ ProviderClosed

Next == Service \/ Provider

Spec == Init /\ [][Next]_vars

\* The event loop runs: timers fire, and a stream closed by either side reports it.
\* Callers, tools, Twilio's echoes and the provider owe nothing.
FairSpec ==
  /\ Spec
  /\ WF_vars(MediaClosed)
  /\ \A r \in Responses : WF_vars(DrainTimer(r))
  /\ WF_vars(LimitTimer) /\ WF_vars(DrainTimeout)

-----------------------------------------------------------------------------
\* The tools of a response run once, each at most once, however often its end is
\* reported (the first line of done).
ToolsRunOnce == \A r \in Responses : executed[r] <= Len(response[r].tools)

\* The bridge hangs up after a goodbye only when Twilio has played all it was sent:
\* an empty queue of marks must mean silence on the line.
HeardBeforeHangUp ==
  [][line.how = None /\ line'.how = "played" => twilio'.buffered = {}]_vars

\* A drain timer whose handle a later one overwrote: no clearTimeout reaches it.
LeakedTimerFires == \E r \in line.armed \ line'.armed : r # line.timer

\* A caller who speaks takes a closing back: the line is not hung up for a goodbye that was
\* interrupted, neither when playback ends nor when its timer fires. The one exception is
\* the code's: of two farewells the second overwrites the handle of the first one's timer
\* (sendResponse), which then fires whatever the caller does.
InterruptionRevokesClose ==
  [][line.how = None /\ line'.how \in {"played", "timeout"} => turns'.closing \/ LeakedTimerFires]_vars

\* What the caller had begun to say is in what is handed to saveTranscript, unless its
\* transcription failed, the transcript was full, the deadline passed, the provider left or
\* no transcript is kept. (Whether it is then stored nobody learns: a failure is logged.)
NothingKnownIsLost ==
  drain.finalized /\ drain.by # "timeout" /\ ~drain.providerClosed /\ LiveTranscript /\ line.received
    => words.begun \subseteq words.noted \cup words.lost \/ words.segments = MaxSegments

\* What was collected is handed over after every call (and once: drain.flushes in TypeOK).
EveryCallIsFlushed == line.closed ~> drain.finalized

\* A call that is being closed is hung up, or the caller takes the closing back:
\* even when no farewell is generated and no mark comes back.
CloseCompletes == turns.closing /\ openAiWs = "open" ~> line.closed \/ ~turns.closing \/ openAiWs # "open"

\* Through interruptions, repeated reports and lost sockets: tools run once, no one is hung
\* up on before the goodbye is heard or (but for a leaked timer) after taking it back, and
\* what is handed over at the end has the words that were waited for.
CallIsHonest ==
  []ToolsRunOnce /\ []NothingKnownIsLost /\ HeardBeforeHangUp /\ InterruptionRevokesClose

\* A call comes to its end: a closing call is hung up or not closing any more, and what was
\* collected in a call that is over is handed over.
CallEnds == EveryCallIsFlushed /\ CloseCompletes
=============================================================================
