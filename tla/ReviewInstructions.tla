-------------------------- MODULE ReviewInstructions --------------------------
(***************************************************************************)
(* The end of a review: the instructions the owner gives once every        *)
(* question is settled (reviewEngine.js addAction, reviewActions.js,       *)
(* reviewVoice.js, migrations 032 and 036), their way to the executor      *)
(* through the outbox, the receipts that come back, and the summary that   *)
(* tells the owner what became of them (advance, presentSession).          *)
(*                                                                         *)
(* OperationalReview has the stages before.  Here a session starts at      *)
(* NEXT_ACTIONS; as there, a write of its row raises its revision, and so  *)
(* forgets the step that was checked before.                               *)
(***************************************************************************)
EXTENDS ReviewSessions, Naturals, FiniteSets

CONSTANTS Actions,
          MaxAttempts, \* attempts of the outbox to deliver an event
          MaxSwitches  \* bound: restarts with other dispatch settings, and tenant changes

ASSUME InstructionsAssumption ==
  /\ MaxAttempts \in Nat \ {0} /\ MaxSwitches \in Nat /\ None \notin Actions

VARIABLES
  stage,     \* review_sessions.stage
  usable,    \* sessions whose evidence still is what it was
  step,      \* sessions with an advance that was checked and is not yet stored: what it has read
  action,    \* review_actions
  event,     \* outbound_events, one for each action: attempts, and whether it is open
  work,      \* the executor: what it does, by the idempotency key of the action
  results,   \* receipts on their way: they come late, twice and in any order
  dispatch,  \* REVIEW_ACTION_DISPATCH_ENABLED, and a destination
  active,    \* the tenant is active
  switches,
  told       \* history: the instructions the summary has counted

instructionVars == <<stage, usable, step, action, event, work, results, dispatch, active, switches, told>>

Terminal == {"SUCCEEDED", "FAILED", "CANCELLED"}
Action == [session : Sessions, replaces : Actions \cup {None}, receipt : Terminal \cup {"RUNNING", None},
           status : Terminal \cup {"NEEDS_CLARIFICATION", "READY", "QUEUED", "RUNNING"}]
Event == [attempts : 0 .. MaxAttempts, open : BOOLEAN]

\* None is none of the rows.
ASSUME NoneIsNoRow == None \notin Action \cup Event \cup Terminal \cup {"RUNNING"}

InstructionsTypeOK ==
  /\ stage \in [Sessions -> {"NEXT_ACTIONS", "SUMMARY", "COMPLETED"}] /\ usable \subseteq Sessions
  /\ step \in [Sessions -> (SUBSET Actions) \cup {None}]
  /\ action \in [Actions -> Action \cup {None}]
  /\ event \in [Actions -> Event \cup {None}]
  /\ work \in [Actions -> Terminal \cup {"RUNNING", None}]
  /\ results \subseteq Actions \X (Terminal \cup {"RUNNING"})
  /\ dispatch \in BOOLEAN /\ active \in BOOLEAN /\ switches \in 0 .. MaxSwitches
  /\ told \in [Sessions -> SUBSET Actions]
  \* One that was announced has an event, and one that is cancelled a receipt or a replacement.
  /\ \A a \in Actions : action[a] # None =>
       /\ (event[a] # None <=> action[a].status \in {"QUEUED", "RUNNING"} \/ action[a].receipt # None)
       /\ (action[a].status = "CANCELLED" /\ action[a].receipt = None =>
             \E b \in Actions : action[b] # None /\ action[b].replaces = a)

Of(s) == {a \in Actions : action[a] # None /\ action[a].session = s}

InstructionsInit ==
  /\ stage = [s \in Sessions |-> "NEXT_ACTIONS"] /\ usable = Sessions
  /\ step = [s \in Sessions |-> None]
  /\ action = [a \in Actions |-> None] /\ event = [a \in Actions |-> None]
  /\ work = [a \in Actions |-> None] /\ results = {}
  /\ dispatch \in BOOLEAN /\ active = TRUE /\ switches = 0
  /\ told = [s \in Sessions |-> {}]

-----------------------------------------------------------------------------
(* Instructions *)

\* Mutant of Replaceable: an instruction is replaced whatever became of it.
AnyOf(s, b) == b \in Of(s)
\* Only an instruction that was not clear is replaced, and once.
Replaceable(s, b) == b \in Of(s) /\ action[b].status = "NEEDS_CLARIFICATION"

Raise(s) == step' = [step EXCEPT ![s] = None]

\* actionProposal: an instruction is clear when its proposal is complete and was confirmed.
Statuses == {"NEEDS_CLARIFICATION", IF dispatch THEN "QUEUED" ELSE "READY"}

\* POST /review/sessions/:id/actions; a repeated request finds its instruction.
AddAction(s, a, b) ==
  /\ action[a] = None /\ s \in usable /\ stage[s] = "NEXT_ACTIONS"
  /\ b # None => Replaceable(s, b)
  /\ \E status \in Statuses :
       /\ action' = [x \in Actions |->
            IF x = a THEN [session |-> s, replaces |-> b, receipt |-> None, status |-> status]
            ELSE IF x = b THEN [action[x] EXCEPT !.status = "CANCELLED"] ELSE action[x]]
       /\ event' = IF status = "QUEUED" THEN [event EXCEPT ![a] = [attempts |-> 0, open |-> TRUE]]
                   ELSE event
  /\ Raise(s)
  /\ UNCHANGED <<stage, usable, work, results, dispatch, active, switches, told>>

Waits(a) == action[a] # None /\ action[a].status = "READY"
\* Mutant of Dispatchable: the session of the instruction must still be usable.
WhileUsable(a) == dispatch /\ active /\ Waits(a) /\ action[a].session \in usable
Dispatchable(a) == dispatch /\ active /\ Waits(a)

\* dispatch_ready_review_actions, at the start of a sweep of the outbox
DispatchReady(a) ==
  /\ Dispatchable(a)
  /\ action' = [action EXCEPT ![a].status = "QUEUED"]
  /\ event' = [event EXCEPT ![a] = [attempts |-> 0, open |-> TRUE]]
  /\ UNCHANGED <<stage, usable, step, work, results, dispatch, active, switches, told>>

-----------------------------------------------------------------------------
(* The outbox and the executor *)

\* A delivery may reach the executor although its answer is lost.
Attempt(a) ==
  /\ event[a] # None /\ event[a].open /\ dispatch /\ active
  /\ \E arrives, answered \in BOOLEAN :
       /\ answered => arrives
       /\ work' = IF arrives /\ work[a] = None THEN [work EXCEPT ![a] = "RUNNING"] ELSE work
       /\ event' = [event EXCEPT ![a] = [attempts |-> @.attempts + 1,
            open |-> ~answered /\ @.attempts + 1 < MaxAttempts]]
  /\ results' = results \cup {<<x, work'[x]>> : x \in {y \in {a} : work'[y] = "RUNNING"}}
  /\ UNCHANGED <<stage, usable, step, action, dispatch, active, switches, told>>

\* The executor settles each instruction once, and sends its receipts until they are accepted.
Execute(a) ==
  /\ work[a] = "RUNNING"
  /\ \E outcome \in Terminal :
       work' = [work EXCEPT ![a] = outcome] /\ results' = results \cup {<<a, outcome>>}
  /\ UNCHANGED <<stage, usable, step, action, event, dispatch, active, switches, told>>

\* Mutant of Reportable: a settled instruction takes another result.
Always(a) == action[a].status # "NEEDS_CLARIFICATION"
Reportable(a) == action[a].status \in {"QUEUED", "RUNNING"}

\* POST /review/actions/:id/result: a receipt that is repeated changes nothing.
Report(a, status) ==
  /\ <<a, status>> \in results /\ action[a].receipt # status /\ Reportable(a)
  /\ action' = [action EXCEPT ![a].status = status, ![a].receipt = status]
  /\ UNCHANGED <<stage, usable, step, event, work, results, dispatch, active, switches, told>>

-----------------------------------------------------------------------------
(* The summary *)

\* advance, up to its update: the session, then its instructions
CheckStep(s) ==
  /\ s \in usable /\ stage[s] # "COMPLETED"
  /\ step' = [step EXCEPT ![s] = Of(s)]
  /\ UNCHANGED <<stage, usable, action, event, work, results, dispatch, active, switches, told>>

\* The update, and presentSession of what was read.
TakeStep(s) ==
  /\ step[s] # None
  /\ stage' = [stage EXCEPT ![s] = IF @ = "NEXT_ACTIONS" THEN "SUMMARY" ELSE "COMPLETED"]
  /\ told' = [told EXCEPT ![s] = step[s]]
  /\ step' = [step EXCEPT ![s] = None]
  /\ UNCHANGED <<usable, action, event, work, results, dispatch, active, switches>>

-----------------------------------------------------------------------------
(* What changes around it *)

Switch == switches < MaxSwitches /\ switches' = switches + 1

\* A restart with dispatch on or off; a tenant that is suspended or active again.
Restart ==
  /\ Switch /\ dispatch' = ~dispatch
  /\ UNCHANGED <<stage, usable, step, action, event, work, results, active, told>>
TenantChanges ==
  /\ Switch /\ active' = ~active
  /\ UNCHANGED <<stage, usable, step, action, event, work, results, dispatch, told>>
\* A source was edited: the session is refused from now on, its instructions go on.
EvidenceChanges(s) ==
  /\ Switch /\ s \in usable /\ usable' = usable \ {s}
  /\ UNCHANGED <<stage, step, action, event, work, results, dispatch, active, told>>

InstructionsNext ==
  \/ \E s \in Sessions : \/ CheckStep(s) \/ TakeStep(s) \/ EvidenceChanges(s)
                         \/ \E a \in Actions, b \in Actions \cup {None} : AddAction(s, a, b)
  \/ \E a \in Actions : \/ DispatchReady(a) \/ Attempt(a) \/ Execute(a)
                        \/ \E status \in Terminal \cup {"RUNNING"} : Report(a, status)
  \/ Restart \/ TenantChanges

\* The outbox is swept every 15 s; the executor works and repeats what was not accepted.
Sweeping(a) == WF_instructionVars(DispatchReady(a)) /\ WF_instructionVars(Attempt(a))

Fairness ==
  \A a \in Actions : /\ Sweeping(a) /\ WF_instructionVars(Execute(a))
                     /\ \A status \in Terminal : WF_instructionVars(Report(a, status))
InstructionsSpec == InstructionsInit /\ [][InstructionsNext]_instructionVars /\ Fairness

-----------------------------------------------------------------------------

\* The summary counts every instruction of the session, though one may be given while the owner
\* moves on, and nothing is asked of the executor after it was told.
SummaryIsComplete ==
  \A s \in Sessions : stage[s] # "NEXT_ACTIONS" => told[s] = Of(s)

Closed(a) == action[a] # None /\ action[a].status \in Terminal
Replaced(a) == \E b \in Actions : action[b] # None /\ action[b].replaces = a
\* What a settled instruction shows is what the executor did and stays so, whatever receipts
\* arrive later; an instruction that was replaced is never carried out.
OutcomeIsKept ==
  /\ [](\A a \in Actions : Closed(a) => work[a] = IF Replaced(a) THEN None ELSE action[a].status)
  /\ [][\A a \in Actions : Closed(a) => action'[a] = action[a]]_instructionVars

\* No instruction is lost from what the owner is told, nor from what came of it.
InstructionsAreKept == []SummaryIsComplete /\ OutcomeIsKept

Ended(a) == Closed(a) \/ (event[a] # None /\ event[a].attempts = MaxAttempts)
\* With dispatch on and the tenant active for good, a clear instruction is settled, unless the
\* outbox gave up on its event.
EveryInstructionSettles ==
  <>[](dispatch /\ active) => \A a \in Actions : Waits(a) ~> Ended(a)
=============================================================================
