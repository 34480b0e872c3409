---------------------------- MODULE MCVoiceCall ----------------------------
(* Small instances of VoiceCall.                                            *)
EXTENDS VoiceCall, FiniteSets, TLC

BriefingTools == {<<"briefing">>, <<"end_call">>}

\* The call limit is armed, or the handshake is still going on, or no media comes: one of
\* them in a behaviour, not every combination.
Unusual == {c \in 1..3 : (c = 1 /\ line.limit) \/ (c = 2 /\ openAiWs = "connecting") \/ (c = 3 /\ ~line.received)}
MCInit == Init /\ Cardinality(Unusual) <= 1

\* The caller speaks a second time only when two farewells have been asked for, where the
\* interruption finds a timer whose handle is lost, or before anything was answered.
\* From there the provider creates no response and repeats no report. While a call limit is
\* armed it repeats none either, and there is no briefing.
Bounded ==
  /\ server'.turn = 2 => server.turn = 2 \/ Cardinality(line.armed) = 2 \/ (server.created = 0 /\ ~line.limit)
  /\ server'.turn = 2 \/ line.limit => server'.repeats = server.repeats
  /\ server'.turn = 2 => server'.created = server.created
  /\ line.limit => \A r \in Responses : response'[r].tools # <<"briefing">>

MCSpec ==
  /\ MCInit /\ [][Next /\ Bounded]_vars
  /\ WF_vars(MediaClosed)
  /\ \A r \in Responses : WF_vars(DrainTimer(r))
  /\ WF_vars(LimitTimer) /\ WF_vars(DrainTimeout)
=============================================================================
