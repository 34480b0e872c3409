---------------------------- MODULE ThreadRanking ----------------------------
(***************************************************************************)
(* How communicationModel.js chooses among the open threads for something  *)
(* that names none: a score for each candidate, from the evidence that     *)
(* ties it to the communication, and a choice that wants both a threshold  *)
(* and a margin.  Pure operators, used by InboundMail.                     *)
(***************************************************************************)
EXTENDS Integers, FiniteSets, FiniteSetsExt

Threshold == 65      \* THREAD_SCORE_THRESHOLD
Margin == 12         \* THREAD_SCORE_MARGIN

\* What is known of a candidate: rejected and preferred by a person's correction; an address in
\* common; people in common, of those that are known on either side; project, channel, words of
\* the subject in common; hours since its last activity; whether it belongs to an Ask.
Evidence == [rejected : BOOLEAN, preferred : BOOLEAN, identity : BOOLEAN, people : Nat, named : Nat, known : Nat,
             project : {"same", "other", "none"}, channel : {"same", "other"}, topics : Nat, hours : Nat, ask : BOOLEAN]

\* Someone else's, another project's, or tied to the communication by too little.
Foreign(e) ==
  \/ e.named > 0 /\ e.known > 0 /\ e.people = 0
  \/ e.project = "other"
  \/ ~e.identity /\ e.people = 0 /\ e.topics < 2

\* Mutant of Excluded: a correction only adds no points, and the heuristics can outweigh it.
OnlyForeign(e) == Foreign(e)
Excluded(e) == e.rejected \/ Foreign(e)

Points(n, holds) == IF holds THEN n ELSE 0

Recency(hours) ==
  IF hours <= 6 THEN 25 ELSE IF hours <= 24 THEN 18 ELSE IF hours <= 72 THEN 12
  ELSE IF hours <= 336 THEN 5 ELSE IF hours > 2160 THEN -120 ELSE IF hours > 720 THEN -60 ELSE -15

Score(e) ==
  Points(30, e.preferred) + Points(45, e.identity) + Points(30, e.people > 0)
  + Min({10 * Max({0, e.people - 1}), 20}) + Points(10, e.named > 1 /\ e.people = e.named)
  + Points(35, e.project = "same") + Points(8, e.channel = "same")
  + Points(10, e.people > 0 /\ e.channel = "other" /\ e.hours <= 24)
  + Min({6 * e.topics, 24}) + Recency(e.hours) + Points(10, e.ask)

\* The threads among the candidates that are clearly ahead: at most one.
Chosen(candidates, evidence) ==
  LET eligible == {t \in candidates : ~Excluded(evidence[t])}
  IN {t \in eligible : /\ Score(evidence[t]) >= Threshold
                       /\ \A u \in eligible \ {t} : Score(evidence[t]) - Score(evidence[u]) >= Margin}
=============================================================================
