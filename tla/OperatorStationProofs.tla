------------------------ MODULE OperatorStationProofs ------------------------
(***************************************************************************)
(* Proofs of what the operator sees and clicks.  The panel: what it waits  *)
(* for, what Cancel reaches and when its heartbeats stop, for any          *)
(* configuration of its runtime.  Its log: errors stay, for any texts and  *)
(* any limit.  The stack: one process sends commands to the endpoint, and  *)
(* no process group survives its script but those a signal came at the     *)
(* wrong moment for, for any launches and any children of the script.      *)
(***************************************************************************)
EXTENDS PanelOperation, OperatorLog, OperatorStack, SequenceTheorems, WellFoundedInduction, TLAPS

-----------------------------------------------------------------------------
(* The panel's operation. *)

GoalPlaces == {"none", "sent", "refused", "running", "ended", "lost"}
Goal == [at : GoalPlaces, asked : BOOLEAN, told : {"none", "response", "result"}, result : Result]

\* The actions and the operation each belongs to.
LEMMA TheActions ==
  /\ Actions = {"Plan", "Follow", "ExecuteDig", "ExecuteDump", "FullMission", "ReturnHome", "ManualJog"}
  /\ \A a \in Actions : OperationOf(a) \in Operations /\ OperationOf(a) # "Idle"
BY DEF Actions, Operations, OperationOf

\* What a Start names, and where it leaves the Qt thread.
Starts(a) ==
  /\ alive /\ ui = Free /\ owned = "Idle" /\ owned' = a /\ ui' = At("send", a) /\ late' = 0
  /\ UNCHANGED <<cb, goal, handles, followBeat, followSession, alive>>
  /\ \/ a = "ManualJog" /\ jogBeat' \in BOOLEAN /\ cancelRequested' = ~jogBeat'
     \/ a # "ManualJog" /\ cancelRequested' = FALSE /\ UNCHANGED jogBeat

\* Every Start button but Plan and Follow's begins its own operation.
LEMMA StartKinds ==
  ASSUME StartExecuteDig \/ StartExecuteDump \/ StartFullMission \/ StartReturnHome \/ StartManualJog
  PROVE  \E a \in Actions \ {"Plan", "Follow"} : Starts(a)
<1> USE TheActions DEF Idle, Enabled, Own, Starts
<1>1. CASE StartExecuteDig
  BY <1>1 DEF StartExecuteDig
<1>2. CASE StartExecuteDump
  BY <1>2 DEF StartExecuteDump
<1>3. CASE StartFullMission
  BY <1>3 DEF StartFullMission
<1>4. CASE StartReturnHome
  BY <1>4 DEF StartReturnHome
<1>5. CASE StartManualJog
  BY <1>5 DEF StartManualJog
<1> QED BY <1>1, <1>2, <1>3, <1>4, <1>5

-----------------------------------------------------------------------------
(* The one goal of the operation. *)

GoalType == goal \in [Actions -> Goal] /\ \A a \in Actions : goal[a].at = "sent" => goal[a].told = "none"

Following == {"follow", "firstBeat", "beat", "send"}

\* The goal of a is open or about to be sent.
Pending(a) ==
  \/ Open(a)
  \/ ui = At("send", a)
  \/ a = "Follow" /\ cb.at \in Following

Threads ==
  /\ ui.at = "send" => ui.on \in Actions \ {"Follow"} /\ ~Open(ui.on)
  /\ ui.at = "cancel" => ui.on \in Actions
  /\ ui.at = "beat" => ui.on \in {"Follow", "ManualJog"}
  /\ cb.at = "cancel" => cb.on \in Actions
  /\ cb.at \in Following => cb.on = "Follow" /\ ~Open("Follow")

\* Where the threads are is a record of place and Action.
ThreadType ==
  /\ \E place \in UiPlaces, a \in Actions \union {"none"} : ui = At(place, a)
  /\ \E place \in CbPlaces, a \in Actions \union {"none"} : cb = At(place, a)

\* The panel has heard the goal's acceptance.
Known(a) == Open(a) /\ goal[a].told = "response"

\* What is pending is the operation's, and at most one thing.
PendInv ==
  /\ GoalType /\ Threads /\ ThreadType
  /\ handles = {a \in Actions : Known(a)}
  /\ \A a \in Actions : Pending(a) => owned = OperationOf(a)
  /\ \A a, b \in Actions : Pending(a) /\ Pending(b) => a = b

\* A step that makes nothing pending keeps it so.
LEMMA PendKept ==
  ASSUME PendInv, GoalType', Threads', ThreadType', UNCHANGED owned,
         \A a \in Actions : Pending(a)' => Pending(a),
         handles' = {a \in Actions : Known(a)'}
  PROVE  PendInv'
BY DEF PendInv

\* The operation is over with its goal.
LEMMA PendOver ==
  ASSUME PendInv, GoalType', Threads', ThreadType', NEW a \in Actions, Pending(a), ~Pending(a)',
         \A b \in Actions : b # a => (Pending(b)' => Pending(b)), handles' = {}
  PROVE  PendInv'
<1>1. \A b \in Actions : ~Pending(b)'
  BY DEF PendInv
<1>2. \A b \in Actions : ~Known(b)'
  BY <1>1 DEF Pending, Known
<1> QED BY <1>1, <1>2 DEF PendInv

\* A change of the goal of one Action.
LEMMA GoalChanges ==
  ASSUME GoalType, NEW a \in Actions, NEW g \in Goal, goal' = [goal EXCEPT ![a] = g],
         g.at = "sent" => g.told = "none"
  PROVE  /\ GoalType' /\ goal'[a] = g
         /\ \A b \in Actions : b # a => goal'[b] = goal[b]
         /\ \A b \in Actions : b # a => (Open(b)' <=> Open(b)) /\ (Known(b)' <=> Known(b))
BY DEF GoalType, Open, Known

\* The servers, and a cancel request: the goal stays open.
LEMMA GoalServed ==
  ASSUME GoalType, NEW a \in Actions,
         ServerAnswers(a) \/ ServerEnds(a) \/ ServerDies(a) \/ Ask(a)
  PROVE  /\ GoalType'
         /\ \A b \in Actions : (Open(b)' <=> Open(b)) /\ (Known(b)' <=> Known(b)) /\ goal'[b].told = goal[b].told
         /\ \A b \in Actions : goal[b].asked => goal'[b].asked
<1> DEFINE g == goal'[a]
<1>1. /\ goal' = [goal EXCEPT ![a] = g] /\ g \in Goal /\ g.told = goal[a].told
      /\ goal[a].asked => g.asked
      /\ \/ g.at = goal[a].at
         \/ goal[a].at = "sent" /\ g.at \in {"refused", "running", "lost"}
         \/ goal[a].at = "running" /\ g.at \in {"ended", "lost"}
  <2> USE DEF GoalType, Goal, GoalPlaces
  <2>1. CASE ServerAnswers(a)
    BY <2>1 DEF ServerAnswers
  <2>2. CASE ServerEnds(a)
    <3>1. PICK r \in Result : goal' = [goal EXCEPT ![a].at = "ended", ![a].result = r]
      BY <2>2 DEF ServerEnds
    <3>2. goal' = [goal EXCEPT ![a] = [goal[a] EXCEPT !.at = "ended", !.result = r]]
      BY <3>1
    <3>3. goal[a].at = "running"
      BY <2>2 DEF ServerEnds
    <3> QED BY <3>2, <3>3
  <2>3. CASE ServerDies(a)
    BY <2>3 DEF ServerDies
  <2>4. CASE Ask(a)
    BY <2>4 DEF Ask
  <2> QED BY <2>1, <2>2, <2>3, <2>4
<1> HIDE DEF g
<1>2. g.at = "sent" => g.told = "none"
  BY <1>1 DEF GoalType
<1>3. goal[a].at = "sent" => goal[a].told = "none"
  BY DEF GoalType
<1>4. goal'[a] = g
  BY DEF g
<1>5. Open(a)' <=> Open(a)
  BY <1>1, <1>3, <1>4 DEF Open, GoalType, Goal
<1>6. /\ GoalType'
      /\ \A b \in Actions : b # a => goal'[b] = goal[b]
      /\ \A b \in Actions : b # a => (Open(b)' <=> Open(b)) /\ (Known(b)' <=> Known(b))
  BY <1>1, <1>2, GoalChanges
<1>7. Known(a)' <=> Known(a)
  BY <1>1, <1>4, <1>5 DEF Known
<1> QED BY <1>1, <1>4, <1>5, <1>6, <1>7

\* Steps of the threads that have no goal of theirs begin or end.
LEMMA ThreadSteps ==
  ASSUME PendInv,
         \/ SettlePlanFollow \/ UiPublishes \/ OperatorBeat \/ JogBeat \/ Close \/ CancelOwned
         \/ StopManualJog \/ FollowSupervised \/ FirstBeat \/ CbPublishes \/ ClickPlanFollow
         \/ UNCHANGED panelVars \/ (StartPlanFollow /\ ui' = At("settle", "Plan") /\ UNCHANGED owned)
  PROVE  PendInv'
<1> USE DEF At, Free, UiPlaces, CbPlaces, Following
<1>1. /\ UNCHANGED <<goal, owned, handles>>
      /\ \/ UNCHANGED <<ui, cb>>
         \/ cb' = cb /\ \E place \in {"free", "settle", "plan", "beat", "cancel"}, on \in Actions \union {"none"} :
              /\ ui' = At(place, on)
              /\ place = "beat" => on \in {"Follow", "ManualJog"}
              /\ place = "cancel" => on \in Actions
         \/ ui' = ui /\ cb.at \in Following /\ \E place \in Following : cb' = At(place, "Follow")
  <2>1. handles \subseteq Actions
    BY DEF PendInv
  <2>2. CASE SettlePlanFollow \/ UiPublishes \/ OperatorBeat \/ JogBeat \/ Close
    BY <2>2, TheActions DEF SettlePlanFollow, UiPublishes, OperatorBeat, JogBeat, Close
  <2>3. CASE CancelOwned \/ StopManualJog \/ ClickPlanFollow
    BY <2>1, <2>3, TheActions DEF CancelOwned, StopManualJog, ClickPlanFollow
  <2>4. CASE FollowSupervised \/ FirstBeat \/ CbPublishes \/ UNCHANGED panelVars
    BY <2>4 DEF FollowSupervised, FirstBeat, CbPublishes, panelVars
  <2>5. CASE StartPlanFollow /\ ui' = At("settle", "Plan") /\ UNCHANGED owned
    BY <2>5, TheActions DEF StartPlanFollow
  <2> QED BY <2>2, <2>3, <2>4, <2>5
<1>2. \A a \in Actions : (Open(a)' <=> Open(a)) /\ (Known(a)' <=> Known(a))
  BY <1>1 DEF Open, Known
<1>3. Open("Follow")' <=> Open("Follow")
  BY <1>2, TheActions
<1>4. Threads' /\ ThreadType' /\ \A a \in Actions : Pending(a)' => Pending(a)
  <2>1. CASE UNCHANGED <<ui, cb>>
    BY <1>2, <1>3, <2>1 DEF PendInv, Threads, ThreadType, Pending
  <2>2. ASSUME cb' = cb, NEW place \in {"free", "settle", "plan", "beat", "cancel"},
               NEW on \in Actions \union {"none"}, ui' = At(place, on),
               place = "beat" => on \in {"Follow", "ManualJog"}, place = "cancel" => on \in Actions
        PROVE  Threads' /\ ThreadType' /\ \A a \in Actions : Pending(a)' => Pending(a)
    BY <1>2, <1>3, <2>2 DEF PendInv, Threads, ThreadType, Pending
  <2>3. ASSUME ui' = ui, cb.at \in Following, NEW place \in Following, cb' = At(place, "Follow")
        PROVE  Threads' /\ ThreadType' /\ \A a \in Actions : Pending(a)' => Pending(a)
    BY <1>2, <1>3, <2>3, TheActions DEF PendInv, Threads, ThreadType, Pending
  <2> QED BY <1>1, <2>1, <2>2, <2>3
<1>5. GoalType' /\ handles' = {a \in Actions : Known(a)'}
  BY <1>1, <1>2 DEF PendInv, GoalType
<1> QED BY <1>1, <1>4, <1>5, PendKept

\* The operation begins.
LEMMA StartSteps ==
  ASSUME PendInv, NEW a \in Actions \ {"Follow"}, owned = "Idle", owned' = OperationOf(a), ui' = At("send", a),
         UNCHANGED <<cb, goal, handles>>
  PROVE  PendInv'
<1>1. \A b \in Actions : ~Pending(b)
  BY TheActions DEF PendInv
<1>2. \A b \in Actions : ~Open(b) /\ ~Open(b)' /\ (Known(b)' <=> Known(b))
  BY <1>1 DEF Pending, Open, Known
<1>3. cb.at \notin Following
  BY <1>1, TheActions DEF Pending
<1>4. Threads' /\ ThreadType'
  BY <1>2, <1>3 DEF Threads, ThreadType, PendInv, At, UiPlaces
<1>5. \A b \in Actions : Pending(b)' => b = a
  BY <1>2, <1>3 DEF Pending, At
<1> QED BY <1>2, <1>4, <1>5 DEF PendInv, GoalType

\* A goal is sent.
LEMMA SendSteps ==
  ASSUME PendInv, SendGoal \/ SendFollow
  PROVE  PendInv'
<1> USE DEF At, Free, UiPlaces, CbPlaces, Following
<1>1. PICK a \in Actions : /\ goal' = [goal EXCEPT ![a] = [NoGoal EXCEPT !.at = "sent"]]
                           /\ Pending(a) /\ ~Open(a)
                           /\ \/ a # "Follow" /\ ui = At("send", a) /\ cb' = cb /\ ui' \in {Free, At("settle", "Plan")}
                              \/ a = "Follow" /\ cb = At("send", a) /\ cb' = Free /\ ui' = ui
  <2>1. CASE SendGoal
    BY <2>1 DEF SendGoal, Sent, PendInv, Threads, ThreadType, Pending
  <2>2. CASE SendFollow
    BY <2>2, TheActions DEF SendFollow, Sent, PendInv, Threads, ThreadType, Pending
  <2> QED BY <2>1, <2>2
<1>2. [NoGoal EXCEPT !.at = "sent"] \in Goal
  BY DEF NoGoal, NoResult, Goal, GoalPlaces, Result
<1>3. /\ GoalType' /\ goal'[a] = [NoGoal EXCEPT !.at = "sent"]
      /\ \A b \in Actions : b # a => (Open(b)' <=> Open(b)) /\ (Known(b)' <=> Known(b))
  BY <1>1, <1>2, GoalChanges DEF PendInv, NoGoal
<1>4. ~Known(a) /\ ~Known(a)'
  BY <1>1, <1>3 DEF Known, NoGoal
<1>5. UNCHANGED <<owned, handles>>
  BY DEF SendGoal, SendFollow
<1>6. \A b \in Actions : Pending(b)' => Pending(b)
  BY <1>1, <1>3 DEF Pending
<1>7. Threads' /\ ThreadType'
  <2>1. CASE a # "Follow"
    BY <1>1, <1>3, <2>1, TheActions DEF Threads, ThreadType, PendInv
  <2>2. CASE a = "Follow"
    BY <1>1, <1>3, <2>2, TheActions DEF Threads, ThreadType, PendInv
  <2> QED BY <2>1, <2>2
<1>8. handles' = {b \in Actions : Known(b)'}
  BY <1>3, <1>4, <1>5 DEF PendInv
<1> QED BY <1>3, <1>5, <1>6, <1>7, <1>8, PendKept

\* A server answers, ends or dies, or a cancel request goes out: the goal stays open.
LEMMA ServedSteps ==
  ASSUME PendInv, NEW a \in Actions,
         \/ ServerAnswers(a) \/ ServerEnds(a) \/ ServerDies(a)
         \/ ui = At("cancel", a) /\ UiCancels
         \/ cb = At("cancel", a) /\ CbCancels
  PROVE  PendInv'
<1> USE DEF At, Free, UiPlaces, CbPlaces, Following
<1>1. /\ UNCHANGED <<owned, handles>>
      /\ \/ UNCHANGED <<ui, cb>>
         \/ cb' = cb /\ ui' = At("free", "none")
         \/ ui' = ui /\ cb.at = "cancel" /\ cb' = At("free", "none")
  BY DEF ServerAnswers, ServerEnds, ServerDies, panelOnly, UiCancels, CbCancels
<1>2. ServerAnswers(a) \/ ServerEnds(a) \/ ServerDies(a) \/ Ask(a)
  BY DEF UiCancels, CbCancels
<1>3. GoalType' /\ \A b \in Actions : (Open(b)' <=> Open(b)) /\ (Known(b)' <=> Known(b))
  BY <1>2, GoalServed DEF PendInv
<1>4. Open("Follow")' <=> Open("Follow")
  BY <1>3, TheActions
<1>5. Threads' /\ ThreadType' /\ \A b \in Actions : Pending(b)' => Pending(b)
  <2>1. CASE UNCHANGED <<ui, cb>>
    BY <1>3, <1>4, <2>1 DEF PendInv, Threads, ThreadType, Pending
  <2>2. CASE cb' = cb /\ ui' = At("free", "none")
    BY <1>3, <1>4, <2>2 DEF PendInv, Threads, ThreadType, Pending
  <2>3. CASE ui' = ui /\ cb.at = "cancel" /\ cb' = At("free", "none")
    BY <1>3, <1>4, <2>3 DEF PendInv, Threads, ThreadType, Pending
  <2> QED BY <1>1, <2>1, <2>2, <2>3
<1> QED BY <1>1, <1>3, <1>5, PendKept DEF PendInv

\* The callbacks a goal has: what they make of it.
LEMMA GoalTold ==
  ASSUME PendInv, NEW a \in Actions, NEW told \in {"response", "result"}, goal' = [goal EXCEPT ![a].told = told],
         goal[a].at # "sent"
  PROVE  /\ GoalType' /\ goal'[a].told = told /\ goal'[a].at = goal[a].at /\ goal'[a].asked = goal[a].asked
         /\ \A b \in Actions : b # a => goal'[b] = goal[b]
         /\ \A b \in Actions : b # a => (Open(b)' <=> Open(b)) /\ (Known(b)' <=> Known(b))
<1> DEFINE g == [goal[a] EXCEPT !.told = told]
<1>1. goal' = [goal EXCEPT ![a] = g] /\ g \in Goal /\ g.told = told /\ g.at = goal[a].at /\ g.asked = goal[a].asked
  BY DEF PendInv, GoalType, Goal
<1> HIDE DEF g
<1>2. g.at = "sent" => g.told = "none"
  BY <1>1
<1> QED BY <1>1, <1>2, GoalChanges DEF PendInv

\* The server's answer to a goal leaves at most one goal to come.
LEMMA ResponseSteps ==
  ASSUME PendInv, NEW a \in Actions, GoalResponse(a)
  PROVE  PendInv'
<1> USE DEF At, Free, UiPlaces, CbPlaces, Following
<1>1. /\ goal' = [goal EXCEPT ![a].told = "response"] /\ goal[a].at \in {"refused", "running", "ended"}
      /\ goal[a].told = "none" /\ cb = Free /\ UNCHANGED ui
  BY DEF GoalResponse
<1>2. /\ GoalType' /\ goal'[a].told = "response" /\ goal'[a].at = goal[a].at
      /\ \A b \in Actions : b # a => (Open(b)' <=> Open(b)) /\ (Known(b)' <=> Known(b))
  BY <1>1, GoalTold
<1>3. Open(a) /\ Pending(a) /\ ui # At("send", a)
  BY <1>1 DEF Open, Pending, PendInv, Threads
<1>4. \A b \in Actions : Open(b)' => Open(b)
  BY <1>2, <1>3
<1>5. CASE goal[a].at = "refused"
  <2>1. handles' = {} /\ cb' = Free
    BY <1>5 DEF GoalResponse, GoalRefused, FinishOperation
  <2>2. ~Open(a)' /\ ~Pending(a)'
    BY <1>1, <1>2, <1>3, <1>5, <2>1 DEF Open, Pending
  <2>3. Threads' /\ ThreadType'
    BY <1>1, <1>4, <2>1 DEF PendInv, Threads, ThreadType
  <2>4. \A b \in Actions : Pending(b)' => Pending(b)
    BY <1>1, <1>4, <2>1 DEF Pending
  <2> QED BY <1>2, <1>3, <2>1, <2>2, <2>3, <2>4, PendOver
<1>6. CASE goal[a].at # "refused"
  <2>1. handles' = handles \union {a} /\ cb' \in {Free, At("cancel", a)} /\ UNCHANGED owned
    BY <1>6 DEF GoalResponse, GoalAccepted
  <2>2. Known(a)'
    BY <1>1, <1>2, <1>6 DEF Known, Open
  <2>3. handles' = {b \in Actions : Known(b)'}
    BY <1>2, <2>1, <2>2 DEF PendInv
  <2>4. Threads' /\ ThreadType'
    <3>1. CASE cb' = Free
      BY <1>1, <1>4, <3>1 DEF PendInv, Threads, ThreadType
    <3>2. CASE cb' = At("cancel", a)
      BY <1>1, <1>4, <3>2 DEF PendInv, Threads, ThreadType
    <3> QED BY <2>1, <3>1, <3>2
  <2>5. \A b \in Actions : Pending(b)' => Pending(b)
    BY <1>1, <1>4, <2>1 DEF Pending
  <2> QED BY <1>2, <2>1, <2>3, <2>4, <2>5, PendKept
<1> QED BY <1>5, <1>6

\* A result ends the operation or hands over to the Follow.
LEMMA ResultSteps ==
  ASSUME PendInv, NEW a \in Actions, GoalResult(a) \/ (a = "Plan" /\ PlanResult)
  PROVE  PendInv'
<1> USE DEF At, Free, UiPlaces, CbPlaces, Following
<1>1. /\ goal' = [goal EXCEPT ![a].told = "result"] /\ goal[a].at = "ended"
      /\ goal[a].told = "response" /\ cb = Free /\ UNCHANGED ui
  BY DEF GoalResult, PlanResult, ResultDue
<1>2. /\ GoalType' /\ goal'[a].told = "result" /\ goal'[a].at = "ended"
      /\ \A b \in Actions : b # a => (Open(b)' <=> Open(b)) /\ (Known(b)' <=> Known(b))
  BY <1>1, GoalTold
<1>3. Open(a) /\ Pending(a) /\ ui # At("send", a) /\ ~Open(a)' /\ ~Known(a)'
  BY <1>1, <1>2 DEF Open, Known, Pending, PendInv, Threads
<1>4. \A b \in Actions : Open(b)' => Open(b)
  BY <1>2, <1>3
<1>5. CASE handles' = {} /\ cb' = Free
  <2>1. ~Pending(a)'
    BY <1>1, <1>3, <1>5 DEF Pending
  <2>2. Threads' /\ ThreadType'
    BY <1>1, <1>4, <1>5 DEF PendInv, Threads, ThreadType
  <2>3. \A b \in Actions : Pending(b)' => Pending(b)
    BY <1>1, <1>4, <1>5 DEF Pending
  <2> QED BY <1>2, <1>3, <1>5, <2>1, <2>2, <2>3, PendOver
<1>6. CASE a = "Plan" /\ handles' = handles \ {"Plan"} /\ cb' = At("follow", "Follow") /\ UNCHANGED owned
  <2>1. \A b \in Actions : b # a => ~Pending(b)
    BY <1>3 DEF PendInv
  <2>2. \A b \in Actions : ~Open(b)' /\ ~Known(b)' /\ (Pending(b)' => b = "Follow")
    BY <1>1, <1>2, <1>3, <1>6, <2>1 DEF Pending, Known
  <2>3. owned' = OperationOf("Follow")
    BY <1>3, <1>6, TheActions DEF PendInv, OperationOf
  <2>4. handles' = {b \in Actions : Known(b)'}
    BY <1>2, <1>3, <1>6 DEF PendInv
  <2>5. Threads' /\ ThreadType'
    BY <1>1, <1>6, <2>2, TheActions DEF PendInv, Threads, ThreadType
  <2> QED BY <1>2, <2>2, <2>3, <2>4, <2>5 DEF PendInv
<1> QED BY <1>5, <1>6 DEF GoalResult, PlanResult, FinishOperation

\* The Follow goal is not sent after all.
LEMMA NotSentSteps ==
  ASSUME PendInv, FollowNotSent
  PROVE  PendInv'
<1> USE TheActions DEF At, Free, UiPlaces, CbPlaces, Following
<1>1. cb.at = "follow" /\ cb' = Free /\ handles' = {} /\ UNCHANGED <<ui, goal>>
  BY DEF FollowNotSent, FinishOperation
<1>2. \A b \in Actions : (Open(b)' <=> Open(b)) /\ (Known(b)' <=> Known(b))
  BY <1>1 DEF Open, Known
<1>3. Pending("Follow") /\ ~Pending("Follow")'
  BY <1>1, <1>2 DEF Pending, PendInv, Threads, ThreadType
<1>4. Threads' /\ ThreadType' /\ GoalType'
  BY <1>1, <1>2 DEF PendInv, Threads, ThreadType, GoalType
<1>5. \A b \in Actions : Pending(b)' => Pending(b)
  BY <1>1, <1>2 DEF Pending
<1> QED BY <1>1, <1>3, <1>4, <1>5, PendOver

\* No step leaves a goal behind that the operation does not wait for.
LEMMA PendStep ==
  ASSUME PendInv, [Next]_panelVars
  PROVE  PendInv'
<1>1. CASE StartExecuteDig \/ StartExecuteDump \/ StartFullMission \/ StartReturnHome \/ StartManualJog
  <2>1. PICK a \in Actions \ {"Plan", "Follow"} : Starts(a)
    BY <1>1, StartKinds
  <2>2. OperationOf(a) = a
    BY <2>1 DEF OperationOf
  <2> QED BY <2>1, <2>2, StartSteps DEF Starts
<1>2. CASE StartPlanFollow
  <2>1. CASE Enabled("PlanFollow") /\ Own("PlanFollow") /\ ui' = At("send", "Plan")
    <3>1. "Plan" \in Actions \ {"Follow"} /\ OperationOf("Plan") = "PlanFollow"
      BY TheActions DEF OperationOf
    <3> QED BY <1>2, <2>1, <3>1, StartSteps DEF StartPlanFollow, Enabled, Own
  <2> QED BY <1>2, <2>1, ThreadSteps DEF StartPlanFollow
<1>3. CASE UiCancels \/ CbCancels
  <2>1. (ui = At("cancel", ui.on) /\ ui.on \in Actions) \/ ~UiCancels
    BY DEF PendInv, Threads, ThreadType, UiCancels, At
  <2>2. (cb = At("cancel", cb.on) /\ cb.on \in Actions) \/ ~CbCancels
    BY DEF PendInv, Threads, ThreadType, CbCancels, At
  <2> QED BY <1>3, <2>1, <2>2, ServedSteps
<1> QED BY <1>1, <1>2, <1>3, ThreadSteps, SendSteps, ServedSteps, ResponseSteps, ResultSteps, NotSentSteps, TheActions
      DEF Next, Operator, QtStep, CallbackStep, ServerStep

-----------------------------------------------------------------------------
(* Cancel. *)

\* No step lets a goal pass that Cancel should reach.
LEMMA CancelStep ==
  ASSUME PendInv, CancelReaches, [Next]_panelVars
  PROVE  CancelReaches'
<1> DEFINE Told(a) == Known(a) => goal[a].asked \/ ui = At("cancel", a) \/ cb = At("cancel", a)
<1>0. /\ CancelReaches <=> (cancelRequested /\ alive => \A a \in Actions : Told(a))
      /\ CancelReaches' <=> (cancelRequested' /\ alive' => \A a \in Actions : Told(a)')
  BY DEF CancelReaches, Known
<1> USE DEF PendInv
<1>1. ASSUME UNCHANGED goal PROVE \A a \in Actions : Known(a)' <=> Known(a)
  BY <1>1 DEF Known, Open
<1>2. ASSUME UNCHANGED <<goal, ui, cb>>, cancelRequested' => cancelRequested, alive' => alive
      PROVE  CancelReaches'
  BY <1>0, <1>1, <1>2
<1>3. CASE UNCHANGED panelVars
  BY <1>2, <1>3 DEF panelVars
<1>4. ASSUME ~cancelRequested' \/ ~alive' PROVE CancelReaches'
  BY <1>4 DEF CancelReaches
<1>5. ASSUME UNCHANGED <<goal, cb, cancelRequested, alive>>, ui.at # "cancel" PROVE CancelReaches'
  BY <1>0, <1>1, <1>5 DEF At
<1>6. ASSUME UNCHANGED <<goal, ui, cancelRequested, alive>>, cb.at # "cancel" PROVE CancelReaches'
  BY <1>0, <1>1, <1>6 DEF At
<1>7. ASSUME NEW a \in Actions \ {"Plan", "Follow"}, Starts(a) PROVE CancelReaches'
  <2>1. \A b \in Actions : ~Known(b)
    BY <1>7, TheActions DEF Starts, Pending, Known
  <2> QED BY <1>0, <1>1, <1>7, <2>1 DEF Starts
<1>8. CASE ClickPlanFollow \/ SettlePlanFollow \/ OperatorBeat \/ JogBeat \/ UiPublishes \/ Close
  BY <1>4, <1>5, <1>8 DEF ClickPlanFollow, SettlePlanFollow, OperatorBeat, JogBeat, UiPublishes, Close, Idle, Free, At
<1>9. CASE StartPlanFollow
  BY <1>4, <1>5, <1>9 DEF StartPlanFollow, Own
<1>10. CASE FollowSupervised \/ FirstBeat \/ CbPublishes
  BY <1>6, <1>10 DEF FollowSupervised, FirstBeat, CbPublishes
<1>11. CASE FollowNotSent \/ \E a \in Actions : GoalResult(a)
  BY <1>4, <1>11 DEF FollowNotSent, GoalResult, FinishOperation
<1>12. CASE PlanResult
  BY <1>4, <1>12 DEF PlanResult, FinishOperation, PlanSuppressed
<1>13. CASE SendGoal \/ SendFollow
  <2>1. PICK a \in Actions : goal' = [goal EXCEPT ![a] = [NoGoal EXCEPT !.at = "sent"]]
    BY <1>13, TheActions DEF SendGoal, SendFollow, Sent, Threads
  <2>2. ~Known(a)' /\ \A b \in Actions : b # a => goal'[b] = goal[b] /\ (Known(b)' <=> Known(b))
    BY <2>1 DEF GoalType, Known, Open, NoGoal
  <2>3. /\ UNCHANGED <<cancelRequested, alive>>
        /\ \A b \in Actions : (ui = At("cancel", b) => ui' = ui) /\ (cb = At("cancel", b) => cb' = cb)
    BY <1>13 DEF SendGoal, SendFollow, At
  <2> QED BY <1>0, <2>2, <2>3
<1>14. CASE CancelOwned
  <2>1. ui = Free /\ UNCHANGED <<goal, cb>> /\ (handles # {} => \E a \in handles : ui' = At("cancel", a))
    BY <1>14 DEF CancelOwned
  <2>2. \A a, b \in handles : a = b
    BY DEF Known, Pending
  <2>3. \A a \in Actions : Known(a) => ui' = At("cancel", a)
    BY <2>1, <2>2
  <2> QED BY <1>0, <1>1, <2>1, <2>3
<1>15. CASE StopManualJog
  <2>1. owned = "ManualJog" /\ UNCHANGED goal /\ ("ManualJog" \in handles => ui' = At("cancel", "ManualJog"))
    BY <1>15 DEF StopManualJog
  <2>2. \A a \in Actions : Known(a) => a = "ManualJog"
    BY <2>1, TheActions DEF Known, Pending, OperationOf
  <2> QED BY <1>0, <1>1, <2>1, <2>2
<1>16. ASSUME NEW a \in Actions,
              \/ ServerAnswers(a) \/ ServerEnds(a) \/ ServerDies(a)
              \/ ui = At("cancel", a) /\ UiCancels
              \/ cb = At("cancel", a) /\ CbCancels
       PROVE  CancelReaches'
  <2>1. \A b \in Actions : (Known(b)' <=> Known(b)) /\ (goal[b].asked => goal'[b].asked)
    BY <1>16, GoalServed DEF UiCancels, CbCancels, At
  <2>2. /\ UNCHANGED <<cancelRequested, alive>>
        /\ \A b \in Actions : b # a => (ui = At("cancel", b) => ui' = ui) /\ (cb = At("cancel", b) => cb' = cb)
    BY <1>16 DEF ServerAnswers, ServerEnds, ServerDies, panelOnly, UiCancels, CbCancels, At
  <2>3. Told(a) => Told(a)'
    <3>1. CASE ServerAnswers(a) \/ ServerEnds(a) \/ ServerDies(a)
      BY <2>1, <3>1 DEF ServerAnswers, ServerEnds, ServerDies, panelOnly
    <3>2. CASE (ui = At("cancel", a) /\ UiCancels) \/ (cb = At("cancel", a) /\ CbCancels)
      <4>1. Known(a) => goal'[a].asked
        BY <3>2 DEF UiCancels, CbCancels, At, Ask, Known, GoalType, Goal
      <4> QED BY <2>1, <4>1
    <3> QED BY <1>16, <3>1, <3>2
  <2> QED BY <1>0, <2>1, <2>2, <2>3
<1>17. ASSUME NEW a \in Actions, GoalResponse(a) PROVE CancelReaches'
  <2>1. CASE goal[a].at = "refused"
    BY <1>4, <1>17, <2>1 DEF GoalResponse, GoalRefused, FinishOperation
  <2>2. CASE goal[a].at # "refused"
    <3>1. /\ UNCHANGED <<ui, cancelRequested, alive>> /\ cb = Free
          /\ cancelRequested => cb' = At("cancel", a)
          /\ goal' = [goal EXCEPT ![a].told = "response"] /\ goal[a].at # "sent"
      BY <1>17, <2>2 DEF GoalResponse, GoalAccepted
    <3>2. \A b \in Actions : b # a => goal'[b] = goal[b] /\ (Known(b)' <=> Known(b))
      BY <3>1, GoalTold
    <3> QED BY <1>0, <3>1, <3>2 DEF Free, At
  <2> QED BY <2>1, <2>2
<1>18. CASE UiCancels \/ CbCancels
  <2>1. (UiCancels => ui = At("cancel", ui.on) /\ ui.on \in Actions) /\ (CbCancels => cb = At("cancel", cb.on) /\ cb.on \in Actions)
    BY DEF Threads, ThreadType, UiCancels, CbCancels, At
  <2> QED BY <1>16, <1>18, <2>1
<1> QED BY <1>3, <1>7, <1>8, <1>9, <1>10, <1>11, <1>12, <1>13, <1>14, <1>15, <1>16, <1>17, <1>18, StartKinds
      DEF Next, Operator, QtStep, CallbackStep, ServerStep

-----------------------------------------------------------------------------
(* Heartbeats. *)

\* No heartbeat is due any more; one is on its way all the same.
Over   == cancelRequested \/ owned = "Idle"
LateUi == ui.at = "beat" /\ (cancelRequested \/ owned # OperationOf(ui.on))
LateCb == cb.at = "beat" /\ (cancelRequested \/ owned # OperationOf("Follow"))

\* A heartbeat is only on while the operation is owned and not cancelled, and what
\* was on its way when that ended is one heartbeat.
BeatInv ==
  /\ jogBeat => owned = "ManualJog" /\ ~cancelRequested
  /\ followSession => owned = "PlanFollow"
  /\ cancelRequested => owned # "Idle"
  /\ cancelRequested /\ owned = "PlanFollow" => ~followBeat
  /\ late \in {0, 1}
  /\ late = 1 => ~LateUi /\ ~LateCb
  /\ ~(LateUi /\ LateCb)
  /\ (late = 1 \/ LateUi \/ LateCb) => Over

\* No step lets a heartbeat go out once the operation has ended.
LEMMA BeatStep ==
  ASSUME PendInv, BeatInv, [Next]_panelVars
  PROVE  BeatInv'
<1> USE DEF At, Free
<1>0. /\ cb.at \in Following => owned = "PlanFollow"
      /\ OperationOf("Follow") = "PlanFollow" /\ OperationOf("ManualJog") = "ManualJog"
      /\ ui.at = "beat" => ui.on \in {"Follow", "ManualJog"}
  BY TheActions DEF PendInv, Pending, OperationOf, Threads
<1> USE <1>0
<1>1. ASSUME UNCHANGED <<owned, cancelRequested, late>>, jogBeat' => jogBeat, followSession' => followSession,
             followBeat' => followBeat,
             ui' = ui \/ ui'.at # "beat", cb' = cb \/ cb'.at # "beat"
      PROVE  BeatInv'
  BY <1>1 DEF BeatInv, LateUi, LateCb, Over
<1>2. CASE UNCHANGED panelVars \/ \E a \in Actions : ServerAnswers(a) \/ ServerEnds(a) \/ ServerDies(a)
  <2>1. CASE UNCHANGED panelVars
    BY <1>1, <2>1 DEF panelVars
  <2>2. ASSUME NEW a \in Actions, ServerAnswers(a) \/ ServerEnds(a) \/ ServerDies(a) PROVE BeatInv'
    <3>1. UNCHANGED panelOnly
      BY <2>2 DEF ServerAnswers, ServerEnds, ServerDies
    <3> QED BY <1>1, <3>1 DEF panelOnly
  <2> QED BY <1>2, <2>1, <2>2
<1>3. CASE SendGoal \/ SendFollow \/ UiCancels \/ CbCancels \/ Close \/ SettlePlanFollow
  <2>1. CASE SendGoal
    BY <1>1, <2>1 DEF SendGoal
  <2>2. CASE SendFollow
    BY <1>1, <2>2 DEF SendFollow
  <2>3. CASE UiCancels
    BY <1>1, <2>3 DEF UiCancels
  <2>4. CASE CbCancels
    BY <1>1, <2>4 DEF CbCancels
  <2>5. CASE Close
    BY <1>1, <2>5 DEF Close
  <2>6. CASE SettlePlanFollow
    BY <1>1, <2>6 DEF SettlePlanFollow
  <2> QED BY <1>3, <2>1, <2>2, <2>3, <2>4, <2>5, <2>6
<1>4. ASSUME FinishOperation("failed") \/ \E text : FinishOperation(text), cb' = At("free", "none"), ui' = ui, late' = late
      PROVE  BeatInv'
  BY <1>4 DEF BeatInv, FinishOperation, LateUi, LateCb, Over
<1>5. ASSUME NEW a \in Actions, Starts(a), a # "Follow", a # "Plan",
             followBeat' = followBeat, followSession' = followSession
      PROVE  BeatInv'
  <2>1. ui'.at # "beat" /\ cb.at # "beat" /\ UNCHANGED cb /\ late' = 0
    BY <1>5 DEF Starts, Following
  <2>2. a # "Idle" /\ a # "PlanFollow" /\ owned' = a /\ owned = "Idle"
    BY <1>5, TheActions DEF Starts
  <2>3. ~LateUi' /\ ~LateCb'
    BY <2>1 DEF LateUi, LateCb
  <2>4. jogBeat' => a = "ManualJog" /\ ~cancelRequested'
    BY <1>5, <2>2 DEF BeatInv, Starts
  <2>5. ~followSession'
    BY <1>5, <2>2 DEF BeatInv
  <2> QED BY <2>1, <2>2, <2>3, <2>4, <2>5 DEF BeatInv
<1>6. CASE StartExecuteDig \/ StartExecuteDump \/ StartFullMission \/ StartReturnHome \/ StartManualJog
  BY <1>5, <1>6, StartKinds DEF Starts
<1>7. CASE ClickPlanFollow \/ StartPlanFollow
  BY <1>7 DEF BeatInv, ClickPlanFollow, StartPlanFollow, Idle, Enabled, Own, LateUi, LateCb, Over, Following
<1>8. CASE CancelOwned \/ StopManualJog
  <2>1. ui.at = "free" /\ ui'.at # "beat" /\ UNCHANGED <<cb, late, owned>> /\ cancelRequested' /\ owned # "Idle"
    BY <1>8 DEF CancelOwned, StopManualJog
  <2>2. ~jogBeat' /\ (followSession' => followSession) /\ (owned = "PlanFollow" => ~followBeat' /\ ~followSession')
    <3>1. CASE CancelOwned
      BY <3>1 DEF CancelOwned, BeatInv
    <3>2. CASE StopManualJog
      BY <3>2 DEF StopManualJog, BeatInv
    <3> QED BY <1>8, <3>1, <3>2
  <2>3. ~LateUi' /\ (LateCb' => late = 0)
    BY <2>1 DEF BeatInv, LateUi, LateCb, Over
  <2> QED BY <2>1, <2>2, <2>3 DEF BeatInv, Over
<1>9. CASE OperatorBeat \/ JogBeat
  BY <1>9 DEF BeatInv, OperatorBeat, JogBeat, LateUi, LateCb, Over, Following
<1>10. CASE UiPublishes
  BY <1>10 DEF BeatInv, UiPublishes, Published, LateUi, LateCb, Over, Following
<1>11. CASE CbPublishes
  BY <1>11 DEF BeatInv, CbPublishes, Published, LateUi, LateCb, Over, Following
<1>12. CASE FollowSupervised \/ FirstBeat
  BY <1>12 DEF BeatInv, FollowSupervised, FirstBeat, LateUi, LateCb, Over, Following
<1>13. CASE FollowNotSent \/ PlanResult \/ \E a \in Actions : GoalResult(a)
  BY <1>1, <1>4, <1>13 DEF FollowNotSent, PlanResult, GoalResult
<1>14. CASE \E a \in Actions : GoalResponse(a)
  BY <1>1, <1>4, <1>14 DEF GoalResponse, GoalRefused, GoalAccepted
<1> QED BY <1>2, <1>3, <1>6, <1>7, <1>8, <1>9, <1>10, <1>11, <1>12, <1>13, <1>14
      DEF Next, Operator, QtStep, CallbackStep, ServerStep

PanelInv == PendInv /\ CancelReaches /\ BeatInv

\* What the panel waits for and what it has sent agree in every reachable state.
THEOREM PanelInvariant == Spec => []PanelInv
<1>1. Init => PanelInv
  <2> SUFFICES ASSUME Init PROVE PanelInv
    OBVIOUS
  <2> USE DEF Init, Free, At
  <2>1. NoGoal \in Goal
    BY DEF NoGoal, NoResult, Goal, GoalPlaces, Result
  <2>2. \A a \in Actions : ~Open(a) /\ ~Known(a) /\ ~Pending(a)
    BY DEF Open, Known, Pending, NoGoal, Following
  <2>3. GoalType /\ Threads /\ ThreadType
    BY <2>1 DEF GoalType, Threads, ThreadType, NoGoal, UiPlaces, CbPlaces, Following
  <2>4. PendInv
    BY <2>2, <2>3 DEF PendInv
  <2>5. CancelReaches /\ BeatInv
    BY DEF CancelReaches, BeatInv, LateUi, LateCb
  <2> QED BY <2>4, <2>5 DEF PanelInv
<1>2. PanelInv /\ [Next]_panelVars => PanelInv'
  BY PendStep, CancelStep, BeatStep DEF PanelInv
<1> QED BY <1>1, <1>2, PTL DEF Spec

\* Whoever presses Cancel has every goal the panel knows of asked to cancel, or its
\* request on the way.
THEOREM CancelReachesGoals == Spec => []CancelReaches
BY PanelInvariant, PTL DEF PanelInv

\* While the panel runs, a goal that is open belongs to the operation it shows.
THEOREM OneGoalOfTheOperation == Spec => []NothingLeft
<1>1. PanelInv => NothingLeft
  BY DEF PanelInv, PendInv, Pending, NothingLeft
<1> QED BY <1>1, PanelInvariant, PTL

\* No more than the one heartbeat a thread had begun goes out after the operation.
THEOREM HeartbeatsStop == Spec => []HeartbeatStops
<1>1. PanelInv => HeartbeatStops
  BY DEF PanelInv, BeatInv, HeartbeatStops
<1> QED BY <1>1, PanelInvariant, PTL

-----------------------------------------------------------------------------
(* The table of warnings and errors. *)

\* The inductive invariant of the table.
LogInv == logs \in Seq(Entry) /\ Len(logs) <= MaxEntries

\* A set of numbers that is not empty has a least one.
LEMMA LeastNumber ==
  ASSUME NEW T, T \subseteq Nat, T # {}
  PROVE  \E i \in T : \A j \in T : i <= j
<1>1. \E i \in T : \A j \in T : <<j, i>> \notin OpToRel(<, Nat)
  BY NatLessThanWellFounded, WFMin
<1>2. PICK i \in T : \A j \in T : <<j, i>> \notin OpToRel(<, Nat)
  BY <1>1
<1>3. ASSUME NEW j \in T PROVE i <= j
  <2>1. ~(j < i)
    BY <1>2 DEF OpToRel
  <2> QED BY <2>1
<1> QED BY <1>3

\* What is left of a sequence of which one element is taken out.
LEMMA RemovedElements ==
  ASSUME NEW S, NEW s \in Seq(S), NEW i \in 1 .. Len(s)
  PROVE  /\ RemoveAt(s, i) \in Seq(S) /\ Len(RemoveAt(s, i)) = Len(s) - 1
         /\ \A j \in 1 .. Len(s) - 1 : RemoveAt(s, i)[j] = IF j < i THEN s[j] ELSE s[j + 1]
<1> DEFINE a == SubSeq(s, 1, i - 1)
           b == SubSeq(s, i + 1, Len(s))
<1>0. Len(s) \in Nat
  BY LenProperties
<1>1. a \in Seq(S) /\ Len(a) = i - 1 /\ \A j \in 1 .. i - 1 : a[j] = s[j]
  BY <1>0, SubSeqProperties
<1>2. b \in Seq(S) /\ Len(b) = Len(s) - i /\ \A j \in 1 .. Len(s) - i : b[j] = s[i + j]
  BY <1>0, SubSeqProperties
<1> HIDE DEF a, b
<1>3. a \o b \in Seq(S) /\ Len(a \o b) = Len(s) - 1
  <2>1. a \o b \in Seq(S) /\ Len(a \o b) = Len(a) + Len(b)
    BY <1>1, <1>2, ConcatProperties
  <2>2. Len(a) + Len(b) = Len(s) - 1
    BY <1>0, <1>1, <1>2
  <2> QED BY <2>1, <2>2
<1>4. ASSUME NEW j \in 1 .. Len(s) - 1 PROVE (a \o b)[j] = IF j < i THEN s[j] ELSE s[j + 1]
  <2>1. CASE j < i
    BY <1>0, <1>1, <1>2, <2>1, ConcatProperties
  <2>2. CASE ~(j < i)
    <3>1. (a \o b)[j] = b[j - (i - 1)]
      BY <1>0, <1>1, <1>2, <2>2, ConcatProperties
    <3>2. j - (i - 1) \in 1 .. Len(s) - i /\ i + (j - (i - 1)) = j + 1
      BY <1>0, <2>2
    <3> QED BY <1>2, <2>2, <3>1, <3>2
  <2> QED BY <2>1, <2>2
<1>5. RemoveAt(s, i) = a \o b
  BY DEF RemoveAt, a, b
<1> QED BY <1>3, <1>4, <1>5

\* A full table makes room in its oldest warning, its oldest error or not at all.
LEMMA RoomCases ==
  ASSUME LogInv, NEW severity \in Severities
  PROVE  /\ RoomIn(logs, severity) \in Seq(Entry)
         /\ \/ RoomIn(logs, severity) = logs
            \/ /\ Len(logs) = MaxEntries
               /\ \E i \in Warnings(logs) : RoomIn(logs, severity) = RemoveAt(logs, i)
            \/ /\ Warnings(logs) = {} /\ Len(logs) = MaxEntries /\ severity # "warning"
               /\ RoomIn(logs, severity) = Tail(logs)
<1>0. /\ logs \in Seq(Entry) /\ Len(logs) \in Nat /\ Len(logs) <= MaxEntries
      /\ MaxEntries \in Nat /\ MaxEntries > 0
      /\ DOMAIN logs = 1 .. Len(logs) /\ Warnings(logs) \subseteq 1 .. Len(logs)
  BY LogAssumption, LenProperties DEF LogInv, Warnings
<1>4. Len(logs) \in Nat /\ MaxEntries \in Nat /\ Len(logs) <= MaxEntries /\ MaxEntries > 0
  BY <1>0
<1>1. CASE Len(logs) < MaxEntries
  BY <1>0, <1>1 DEF RoomIn
<1>2. CASE ~(Len(logs) < MaxEntries) /\ Warnings(logs) # {}
  <2>1. Len(logs) = MaxEntries
    BY <1>4, <1>2
  <2>2. \E i \in Warnings(logs) : \A j \in Warnings(logs) : i <= j
    <3>1. Warnings(logs) \subseteq Nat
      BY <1>0
    <3> QED BY <1>2, <3>1, LeastNumber
  <2>3. PICK i \in Warnings(logs) : RoomIn(logs, severity) = RemoveAt(logs, i)
    BY <1>2, <2>2 DEF RoomIn
  <2>4. RemoveAt(logs, i) \in Seq(Entry)
    BY <1>0, RemovedElements
  <2> QED BY <2>1, <2>3, <2>4
<1>3. CASE ~(Len(logs) < MaxEntries) /\ Warnings(logs) = {}
  <2>1. Len(logs) = MaxEntries
    BY <1>4, <1>3
  <2>4. logs # << >>
    BY <1>4, <2>1, EmptySeq
  <2>2. CASE severity = "warning"
    BY <1>0, <1>3, <2>2 DEF RoomIn
  <2>3. CASE severity # "warning"
    <3>1. RoomIn(logs, severity) = Tail(logs)
      BY <1>3, <2>3 DEF RoomIn
    <3>2. Tail(logs) \in Seq(Entry)
      BY <1>0, <2>4, HeadTailProperties
    <3> QED BY <1>3, <2>1, <2>3, <3>1, <3>2
  <2> QED BY <2>2, <2>3
<1> QED BY <1>1, <1>2, <1>3

\* A table that keeps its entries where they are keeps its errors.
LEMMA NothingMoves ==
  ASSUME NEW old \in Seq(Entry), NEW new \in Seq(Entry), Len(new) >= Len(old),
         \A i \in 1 .. Len(old) : SameKind(old[i], new[i])
  PROVE  ErrorsStay(old, new)
<1> DEFINE at == [i \in Severe(old) |-> i]
<1>0. Len(old) \in Nat /\ Len(new) \in Nat /\ DOMAIN old = 1 .. Len(old) /\ DOMAIN new = 1 .. Len(new)
  BY LenProperties
<1>1. Severe(old) \subseteq 1 .. Len(old) /\ Severe(new) \subseteq 1 .. Len(new)
  BY <1>0 DEF Severe
<1>2. \A i \in 1 .. Len(old) : i \in Severe(old) <=> i \in Severe(new)
  BY <1>0 DEF Severe, SameKind
<1>3. at \in [Severe(old) -> Severe(new)]
  BY <1>1, <1>2
<1>4. \A i \in Severe(old) : SameKind(old[i], new[at[i]])
  BY <1>1
<1>5. \A i, j \in Severe(old) : i < j => at[i] < at[j]
  OBVIOUS
<1>6. ASSUME NEW k \in Severe(new)
      PROVE  (\E i \in Severe(old) : at[i] = k) \/ (\A i \in Severe(old) : at[i] < k)
  <2>1. CASE k <= Len(old)
    <3>1. k \in 1 .. Len(old)
      BY <1>0, <1>1, <2>1
    <3> QED BY <1>2, <3>1
  <2>2. CASE ~(k <= Len(old))
    BY <1>0, <1>1, <2>2
  <2> QED BY <2>1, <2>2
<1> HIDE DEF at
<1> QED BY <1>3, <1>4, <1>5, <1>6 DEF ErrorsStay

\* A table that gives up a warning keeps its errors: those after it move up by one.
LEMMA WarningMakesRoom ==
  ASSUME NEW old \in Seq(Entry), NEW new \in Seq(Entry), NEW w \in Warnings(old),
         Len(new) >= Len(old) - 1,
         \A j \in 1 .. Len(old) - 1 : SameKind(IF j < w THEN old[j] ELSE old[j + 1], new[j])
  PROVE  ErrorsStay(old, new)
<1> DEFINE at == [i \in Severe(old) |-> IF i < w THEN i ELSE i - 1]
<1>0. Len(old) \in Nat /\ Len(new) \in Nat /\ DOMAIN old = 1 .. Len(old) /\ DOMAIN new = 1 .. Len(new)
  BY LenProperties
<1>1. /\ Severe(old) \subseteq 1 .. Len(old) /\ Severe(new) \subseteq 1 .. Len(new)
      /\ w \in 1 .. Len(old) /\ w \notin Severe(old)
  BY <1>0 DEF Severe, Warnings
<1>2. \A i \in Severe(old) : i < w \/ i > w
  BY <1>0, <1>1
<1>3. ASSUME NEW i \in Severe(old)
      PROVE  at[i] \in Severe(new) /\ SameKind(old[i], new[at[i]])
  <2>1. CASE i < w
    <3>1. at[i] = i /\ i \in 1 .. Len(old) - 1 /\ i \in 1 .. Len(new)
      BY <1>0, <1>1, <2>1
    <3>2. SameKind(old[i], new[i])
      BY <2>1, <3>1
    <3> QED BY <1>0, <3>1, <3>2 DEF Severe, SameKind
  <2>2. CASE i > w
    <3>1. at[i] = i - 1 /\ i - 1 \in 1 .. Len(old) - 1 /\ i - 1 \in 1 .. Len(new) /\ ~(i - 1 < w)
          /\ (i - 1) + 1 = i
      BY <1>0, <1>1, <2>2
    <3>2. SameKind(old[i], new[i - 1])
      BY <3>1
    <3> QED BY <1>0, <3>1, <3>2 DEF Severe, SameKind
  <2> QED BY <1>2, <2>1, <2>2
<1>4. at \in [Severe(old) -> Severe(new)]
  BY <1>3
<1>5. ASSUME NEW i \in Severe(old), NEW j \in Severe(old), i < j
      PROVE  at[i] < at[j]
  BY <1>0, <1>1, <1>2, <1>5
<1>6. ASSUME NEW k \in Severe(new)
      PROVE  (\E i \in Severe(old) : at[i] = k) \/ (\A i \in Severe(old) : at[i] < k)
  <2>0. k \in 1 .. Len(new)
    BY <1>1
  <2>1. CASE k < w
    <3>1. k \in 1 .. Len(old) - 1
      BY <1>0, <1>1, <2>0, <2>1
    <3>2. SameKind(old[k], new[k])
      BY <2>1, <3>1
    <3>3. k \in Severe(old)
      BY <1>0, <3>1, <3>2 DEF Severe, SameKind
    <3> QED BY <2>1, <3>3
  <2>2. CASE ~(k < w) /\ k <= Len(old) - 1
    <3>1. k \in 1 .. Len(old) - 1 /\ k + 1 \in 1 .. Len(old)
      BY <1>0, <1>1, <2>0, <2>2
    <3>2. SameKind(old[k + 1], new[k])
      BY <2>2, <3>1
    <3>3. k + 1 \in Severe(old)
      BY <1>0, <3>1, <3>2 DEF Severe, SameKind
    <3>4. at[k + 1] = k
      BY <1>1, <2>0, <2>2, <3>3
    <3> QED BY <3>3, <3>4
  <2>3. CASE ~(k < w) /\ ~(k <= Len(old) - 1)
    BY <1>0, <1>1, <1>2, <2>0, <2>3
  <2> QED BY <2>1, <2>2, <2>3
<1> HIDE DEF at
<1>7. \A i \in Severe(old) : SameKind(old[i], new[at[i]])
  BY <1>3
<1> QED BY <1>4, <1>5, <1>6, <1>7 DEF ErrorsStay

\* What a step of the table may do to the errors in it: the action of SevereKept.
KeptStep ==
  /\ Len(logs') <= MaxEntries
  /\ logs' # << >> =>
       \/ ErrorsStay(logs, logs')
       \/ /\ Severe(logs) = DOMAIN logs /\ Len(logs) = MaxEntries
          /\ MovedUp(logs, logs')

\* An entry that is the same as the last one is counted on it, and nothing moves.
LEMMA RepetitionStays ==
  ASSUME LogInv, logs # << >>, logs' = [logs EXCEPT ![Len(logs)].count = @ + 1]
  PROVE  LogInv' /\ KeptStep
<1>0. /\ logs \in [1 .. Len(logs) -> Entry] /\ Len(logs) \in Nat /\ Len(logs) \in 1 .. Len(logs)
      /\ Len(logs) <= MaxEntries /\ logs \in Seq(Entry)
  BY LenProperties, EmptySeq DEF LogInv
<1>1. PICK n \in 1 .. Len(logs) : n = Len(logs)
  BY <1>0
<1>2. logs' \in [1 .. Len(logs) -> Entry]
  <2>1. logs[n] \in Entry
    BY <1>0
  <2>2. [logs[n] EXCEPT !.count = @ + 1] \in Entry
    BY <2>1 DEF Entry
  <2> QED
    BY <1>0, <1>1, <2>2
<1>3. logs' \in Seq(Entry) /\ Len(logs') = Len(logs)
  BY <1>0, <1>2, IsASeq, LenProperties
<1>4. \A i \in 1 .. Len(logs) : SameKind(logs[i], logs'[i])
  BY <1>0, <1>1 DEF SameKind, Entry
<1>5. Len(logs') >= Len(logs) /\ Len(logs') <= MaxEntries
  <2>1. Len(logs) \in Nat /\ Len(logs) <= MaxEntries /\ Len(logs') = Len(logs)
    BY <1>0, <1>3
  <2> QED BY <2>1
<1>6. logs \in Seq(Entry) /\ logs' \in Seq(Entry)
  BY <1>0, <1>3
<1>7. ErrorsStay(logs, logs')
  BY <1>4, <1>5, <1>6, NothingMoves
<1> QED BY <1>5, <1>6, <1>7 DEF LogInv, KeptStep

\* A new entry goes to the end of a table in which room was found or made.
LEMMA AppendKeeps ==
  ASSUME LogInv, NEW severity \in Severities, NEW text \in Texts,
         Len(RoomIn(logs, severity)) # MaxEntries,
         logs' = Append(RoomIn(logs, severity),
                        [severity |-> severity, text |-> text, count |-> 1])
  PROVE  LogInv' /\ KeptStep
<1> DEFINE room == RoomIn(logs, severity)
           e == [severity |-> severity, text |-> text, count |-> 1]
<1>0. /\ logs \in Seq(Entry) /\ Len(logs) \in Nat /\ Len(logs) <= MaxEntries /\ MaxEntries \in Nat
      /\ DOMAIN logs = 1 .. Len(logs) /\ Warnings(logs) \subseteq 1 .. Len(logs)
  BY LogAssumption, LenProperties DEF LogInv, Warnings
<1>1. e \in Entry
  BY DEF Entry
<1>2. room \in Seq(Entry) /\ Len(room) \in Nat
  BY RoomCases, LenProperties
<1>3. room = logs \/ (\E i \in Warnings(logs) : room = RemoveAt(logs, i))
        \/ (Warnings(logs) = {} /\ Len(logs) = MaxEntries /\ room = Tail(logs))
  BY RoomCases
<1>4. logs' = Append(room, e) /\ Len(room) # MaxEntries
  OBVIOUS
<1> HIDE DEF room, e
<1>6. /\ Append(room, e) \in Seq(Entry) /\ Len(Append(room, e)) = Len(room) + 1
      /\ \A i \in 1 .. Len(room) : Append(room, e)[i] = room[i]
  BY <1>1, <1>2, AppendProperties
<1>5. /\ logs' \in Seq(Entry) /\ Len(logs') = Len(room) + 1
      /\ \A i \in 1 .. Len(room) : logs'[i] = room[i]
  BY <1>4, <1>6
<1>7. /\ Len(logs) \in Nat /\ Len(logs) <= MaxEntries /\ MaxEntries \in Nat
      /\ Len(room) \in Nat /\ Len(room) # MaxEntries /\ Len(logs') = Len(room) + 1
  BY <1>0, <1>2, <1>4, <1>5
<1>8. logs \in Seq(Entry) /\ logs' \in Seq(Entry)
  BY <1>0, <1>5
<1>10. CASE room = logs
  <2>1. \A i \in 1 .. Len(logs) : SameKind(logs[i], logs'[i])
    BY <1>5, <1>10 DEF SameKind
  <2>2. Len(room) = Len(logs)
    BY <1>10
  <2>3. Len(logs') >= Len(logs) /\ Len(logs') <= MaxEntries
    BY <1>7, <2>2
  <2>4. ErrorsStay(logs, logs')
    BY <1>8, <2>1, <2>3, NothingMoves
  <2> QED BY <1>8, <2>3, <2>4 DEF LogInv, KeptStep
<1>11. ASSUME NEW w \in Warnings(logs), room = RemoveAt(logs, w) PROVE LogInv' /\ KeptStep
  <2>0. w \in 1 .. Len(logs)
    BY <1>0
  <2>1. /\ Len(room) = Len(logs) - 1
        /\ \A j \in 1 .. Len(logs) - 1 : room[j] = IF j < w THEN logs[j] ELSE logs[j + 1]
    BY <1>0, <1>11, <2>0, RemovedElements
  <2>2. \A j \in 1 .. Len(logs) - 1 : SameKind(IF j < w THEN logs[j] ELSE logs[j + 1], logs'[j])
    BY <1>5, <2>1 DEF SameKind
  <2>3. Len(room) = Len(logs) - 1
    BY <2>1
  <2>4. Len(logs') >= Len(logs) - 1 /\ Len(logs') <= MaxEntries
    BY <1>7, <2>3
  <2>5. ErrorsStay(logs, logs')
    BY <1>8, <2>2, <2>4, WarningMakesRoom
  <2> QED BY <1>8, <2>4, <2>5 DEF LogInv, KeptStep
<1>12. CASE Warnings(logs) = {} /\ Len(logs) = MaxEntries /\ room = Tail(logs)
  <2>1. logs # << >>
    BY <1>0, <1>12, LogAssumption, EmptySeq
  <2>2. Len(room) = Len(logs) - 1 /\ \A j \in 1 .. Len(logs) - 1 : room[j] = logs[j + 1]
    BY <1>0, <1>12, <2>1, HeadTailProperties
  <2>3. Len(room) = Len(logs) - 1
    BY <2>2
  <2>8. Len(logs') = Len(logs)
    BY <1>7, <2>3
  <2>4. ASSUME NEW i \in 2 .. Len(logs) PROVE SameKind(logs[i], logs'[i - 1])
    <3>1. i - 1 \in 1 .. Len(logs) - 1 /\ (i - 1) + 1 = i
      BY <1>0
    <3> QED BY <1>5, <2>2, <3>1 DEF SameKind
  <2>5. MovedUp(logs, logs')
    <3>1. Len(logs') >= Len(logs) - 1
      BY <1>7, <2>8
    <3> QED BY <2>4, <3>1 DEF MovedUp
  <2>6. Severe(logs) = DOMAIN logs
    BY <1>12 DEF Severe, Warnings
  <2>7. Len(logs') <= MaxEntries
    BY <1>7, <2>8
  <2> QED BY <1>8, <1>12, <2>5, <2>6, <2>7 DEF LogInv, KeptStep
<1> QED BY <1>3, <1>10, <1>11, <1>12

\* Every step of the table.
LEMMA LogStep ==
  ASSUME LogInv, [LogNext]_logs
  PROVE  LogInv' /\ (KeptStep \/ UNCHANGED logs)
<1>1. CASE UNCHANGED logs
  BY <1>1 DEF LogInv
<1>2. CASE ClearLogs
  <2>1. logs' = << >>
    BY <1>2 DEF ClearLogs
  <2>2. logs' \in Seq(Entry) /\ Len(logs') = 0 /\ 0 <= MaxEntries
    BY <2>1, EmptySeq, LogAssumption
  <2> QED BY <2>1, <2>2 DEF LogInv, KeptStep
<1>3. CASE OnRosout
  <2>1. PICK severity \in Severities, text \in Texts :
          logs' = AppendOperatorLog(logs, severity, text)
    BY <1>3 DEF OnRosout
  <2>2. CASE logs # << >> /\ Last(logs).severity = severity /\ Last(logs).text = text
    <3>1. logs' = [logs EXCEPT ![Len(logs)].count = @ + 1]
      BY <2>1, <2>2 DEF AppendOperatorLog
    <3> QED BY <2>2, <3>1, RepetitionStays
  <2>3. CASE ~(logs # << >> /\ Last(logs).severity = severity /\ Last(logs).text = text)
    <3>1. CASE Len(RoomIn(logs, severity)) = MaxEntries
      <4>1. UNCHANGED logs
        BY <2>1, <2>3, <3>1 DEF AppendOperatorLog
      <4> QED BY <1>1, <4>1
    <3>2. CASE Len(RoomIn(logs, severity)) # MaxEntries
      <4>1. logs' = Append(RoomIn(logs, severity),
                           [severity |-> severity, text |-> text, count |-> 1])
        BY <2>1, <2>3, <3>2 DEF AppendOperatorLog
      <4> QED BY <3>2, <4>1, AppendKeeps
    <3> QED BY <3>1, <3>2
  <2> QED BY <2>2, <2>3
<1> QED BY <1>1, <1>2, <1>3 DEF LogNext

\* The table is a sequence of entries no longer than its limit.
THEOREM LogInvariant == LogSpec => []LogInv
<1>1. LogInit => LogInv
  BY EmptySeq, LogAssumption DEF LogInit, LogInv
<1>2. LogInv /\ [LogNext]_logs => LogInv'
  BY LogStep
<1> QED BY <1>1, <1>2, PTL DEF LogSpec

\* append_operator_log() keeps the errors however many warnings come.
THEOREM ErrorsAreKept == LogSpec => SevereKept
<1>1. LogInv /\ [LogNext]_logs => [KeptStep]_logs
  BY LogStep
<1>2. [KeptStep]_logs =>
        [ /\ Len(logs') <= MaxEntries
          /\ logs' # << >> =>
               \/ ErrorsStay(logs, logs')
               \/ /\ Severe(logs) = DOMAIN logs /\ Len(logs) = MaxEntries
                  /\ MovedUp(logs, logs') ]_logs
  BY DEF KeptStep
<1> QED BY <1>1, <1>2, LogInvariant, PTL DEF LogSpec, SevereKept

-----------------------------------------------------------------------------
(* The processes of the stack. *)

States == {"none", "starting", "bound", "up", "asked", "closing", "waiting", "gone"}
Groups == (SUBSET Members) \cup {NotYet, Forked}

ProcessType ==
  /\ process \in [Launches -> [Roles -> States]]
  /\ group \in [Launches -> [Children -> Groups]]
  /\ launch \in [Launches -> {"none", "up", "stopping", "over", "killed"}]
  /\ signal \in [Launches -> 0 .. 3] /\ again \in [Launches -> BOOLEAN]
  /\ listed \in [Launches -> SUBSET Children] /\ loose \in [Launches -> SUBSET Children]

\* Who sends has the lock, and it is one launch's.
Claimed ==
  /\ \A l \in Launches : Sends(l) => l \in lock
  /\ \A l, k \in lock : l = k

\* The script against its groups: none before its traps are set, at most one that is not
\* in PIDS, by the time SIGKILL may be sent it has come to its traps, and from the trap on
\* kill reaches what is not loose.
ScriptedAt(l) ==
  /\ launch[l] = "none" => process[l]["perception"] = "none" /\ signal[l] = 0
  /\ launch[l] = "stopping" => signal[l] # 0
  /\ process[l]["perception"] # "bound"
  /\ process[l]["perception"] \in {"none", "starting"} =>
       \A c \in Children : group[l][c] = NotYet
  /\ signal[l] >= 2 => process[l]["perception"] \notin {"starting", "up"}
  /\ \A c, d \in Children :
       group[l][c] # NotYet /\ group[l][d] # NotYet /\ c \notin listed[l] /\ d \notin listed[l] => c = d
  /\ process[l]["perception"] = "closing" => Live(l) \ loose[l] \subseteq Reached(l)
  /\ process[l]["perception"] \in {"waiting", "gone"} => Live(l) \subseteq loose[l]

Scripted == \A l \in Launches : ScriptedAt(l)

StackInv == ProcessType /\ Claimed /\ Scripted

\* What one launch does leaves the other ones alone.
Apart(l) == \A k \in Launches : k # l =>
  /\ process'[k] = process[k] /\ group'[k] = group[k] /\ launch'[k] = launch[k]
  /\ signal'[k] = signal[k] /\ again'[k] = again[k]
  /\ listed'[k] = listed[k] /\ loose'[k] = loose[k]

\* The roles, the script and the server among them.
LEMMA RolesAre == {"bridge", "perception", "planner", "control", "servers"} = Roles
BY DEF Roles

\* A step of one launch keeps the invariant when it keeps what is said of that launch.
LEMMA OneLaunch ==
  ASSUME StackInv, NEW l \in Launches, ProcessType', Apart(l), ScriptedAt(l)',
         Sends(l)' => l \in lock',
         lock \ {l} \subseteq lock', lock' \subseteq lock \/ lock' = {l}
  PROVE  StackInv'
<1>1. Claimed'
  <2>1. ASSUME NEW k \in Launches, Sends(k)' PROVE k \in lock'
    <3>1. CASE k = l
      BY <3>1, <2>1
    <3>2. CASE k # l
      BY <3>2, <2>1 DEF StackInv, Claimed, Sends, Apart
    <3> QED BY <3>1, <3>2
  <2>2. ASSUME NEW k \in lock', NEW j \in lock' PROVE k = j
    BY DEF StackInv, Claimed
  <2> QED BY <2>1, <2>2 DEF Claimed
<1>2. Scripted'
  <2>1. ASSUME NEW k \in Launches, k # l PROVE ScriptedAt(k)'
    BY <2>1 DEF StackInv, Scripted, ScriptedAt, Apart, Live, Reached
  <2> QED BY <2>1 DEF Scripted
<1> QED BY <1>1, <1>2 DEF StackInv

\* What a signal does, to the processes of one launch.
LEMMA SignalsDo ==
  ASSUME StackInv, NEW l \in Launches, Signals(l)
  PROVE  /\ process' \in [Launches -> [Roles -> States]]
         /\ \A k \in Launches : k # l => process'[k] = process[k]
         /\ Sends(l)' => Sends(l)
         /\ process'[l]["control"] = "gone" => process[l]["control"] \notin {"up", "closing"}
         /\ process[l]["perception"] \in {"none", "gone", "asked"} =>
              process'[l]["perception"] = process[l]["perception"]
         /\ process[l]["perception"] \in {"closing", "waiting"} => process'[l]["perception"] = "gone"
         /\ process[l]["perception"] = "up" => process'[l]["perception"] = "asked"
         /\ process[l]["perception"] = "starting" => process'[l]["perception"] \in {"starting", "gone"}
<1>1. PICK hanging \in SUBSET MayHang :
        process' = [process EXCEPT ![l] = [r \in Roles |-> Asked(r, process[l][r], r \in hanging)]]
  BY DEF Signals
<1>2. \A r \in Roles : process[l][r] \in States
  BY DEF StackInv, ProcessType
<1>3. "control" \in Roles /\ "perception" \in Roles
  BY RolesAre
<1>4. \A r \in Roles : process'[l][r] = Asked(r, process[l][r], r \in hanging)
  BY <1>1 DEF StackInv, ProcessType
<1>5. process'[l]["control"] = Asked("control", process[l]["control"], "control" \in hanging)
  BY <1>3, <1>4
<1>6. process'[l]["perception"] = Asked("perception", process[l]["perception"], "perception" \in hanging)
  BY <1>3, <1>4
<1>7. /\ process' \in [Launches -> [Roles -> States]]
      /\ \A k \in Launches : k # l => process'[k] = process[k]
  <2>1. ASSUME NEW r \in Roles PROVE Asked(r, process[l][r], r \in hanging) \in States
    BY <1>2 DEF Asked, States
  <2>2. [r \in Roles |-> Asked(r, process[l][r], r \in hanging)] \in [Roles -> States]
    BY <2>1
  <2> QED BY <1>1, <2>2 DEF StackInv, ProcessType
<1>8. /\ Sends(l)' => Sends(l)
      /\ process'[l]["control"] = "gone" => process[l]["control"] \notin {"up", "closing"}
  <2>1. process[l]["control"] \in States
    BY <1>2, <1>3
  <2> QED BY <1>5, <2>1 DEF Asked, Sends, States
<1>9. /\ process[l]["perception"] \in {"none", "gone", "asked"} =>
           process'[l]["perception"] = process[l]["perception"]
      /\ process[l]["perception"] \in {"closing", "waiting"} => process'[l]["perception"] = "gone"
      /\ process[l]["perception"] = "up" => process'[l]["perception"] = "asked"
      /\ process[l]["perception"] = "starting" => process'[l]["perception"] \in {"starting", "gone"}
  BY <1>6 DEF Asked
<1> QED BY <1>7, <1>8, <1>9

\* What the change of one process is.
LEMMA BecomesIs ==
  ASSUME StackInv, NEW l \in Launches, NEW r \in Roles, NEW state \in States, Becomes(l, r, state)
  PROVE  /\ process' \in [Launches -> [Roles -> States]]
         /\ \A k \in Launches : k # l => process'[k] = process[k]
         /\ process'[l][r] = state
         /\ \A q \in Roles : q # r => process'[l][q] = process[l][q]
BY DEF Becomes, StackInv, ProcessType

\* No group has started: none is alive.
LEMMA NoneLive ==
  ASSUME NEW l \in Launches, \A c \in Children : group[l][c] = NotYet
  PROVE  Live(l) = {}
BY DEF Live, NotYet, Members, Forked

\* What a signal during cleanup() makes loose.
LEMMA Loosens ==
  ASSUME StackInv, NEW l \in Launches, BreaksCleanup(l)
  PROVE  /\ loose' \in [Launches -> SUBSET Children] /\ \A k \in Launches : k # l => loose'[k] = loose[k]
         /\ loose'[l] = IF process[l]["perception"] = "closing" THEN Children ELSE loose[l]
BY DEF BreaksCleanup, StackInv, ProcessType

\* At the start.
LEMMA StackBegins == StackInit => StackInv
<1> SUFFICES ASSUME StackInit PROVE StackInv
  OBVIOUS
<1>1. "control" \in Roles /\ "perception" \in Roles
  BY RolesAre
<1>2. ProcessType
  <2>1. NotYet \in Groups
    BY DEF Groups
  <2> QED BY <2>1 DEF StackInit, ProcessType, States
<1>3. Claimed
  BY <1>1 DEF StackInit, Claimed, Sends
<1>4. Scripted
  BY <1>1 DEF StackInit, Scripted, ScriptedAt
<1> QED BY <1>2, <1>3, <1>4 DEF StackInv

\* The launch file's own steps.
LEMMA LaunchesKeep ==
  ASSUME StackInv, NEW l \in Launches,
         \/ LaunchProfile(l) \/ RequiredExited(l) \/ CtrlC(l) \/ CtrlCAgain(l)
         \/ Escalates(l) \/ LaunchOver(l) \/ LaunchKilled(l)
  PROVE  StackInv'
<1> USE RolesAre
<1>0. /\ ScriptedAt(l) /\ (Sends(l) => l \in lock)
      /\ "control" \in Roles /\ "perception" \in Roles
  BY DEF StackInv, Scripted, Claimed
<1>1. CASE LaunchProfile(l)
  <2>1. PICK p \in Wanted :
          process' = [process EXCEPT ![l] =
            [r \in Roles |-> IF r \notin Started(p) THEN "none"
                             ELSE IF r \in {"planner", "servers"} THEN "up" ELSE "starting"]]
    BY <1>1 DEF LaunchProfile
  <2>2. /\ process' \in [Launches -> [Roles -> States]]
        /\ \A k \in Launches : k # l => process'[k] = process[k]
        /\ process'[l]["perception"] \in {"none", "starting"}
        /\ process'[l]["control"] \in {"none", "starting"}
    BY <1>0, <2>1 DEF StackInv, ProcessType, States
  <2>3. ProcessType' /\ Apart(l)
    BY <1>1, <2>2 DEF LaunchProfile, StackInv, ProcessType, Apart
  <2>4. ScriptedAt(l)'
    BY <1>0, <1>1, <2>2, NoneLive DEF LaunchProfile, ScriptedAt, StackInv, ProcessType
  <2> QED BY <1>1, <2>2, <2>3, <2>4, OneLaunch DEF LaunchProfile, Sends
<1>2. ASSUME Shutdown(l), launch[l] = "up" PROVE StackInv'
  <2>1. Signals(l) /\ Frees(l) /\ BreaksCleanup(l) /\ UNCHANGED <<again, group, listed>>
        /\ launch' = [launch EXCEPT ![l] = "stopping"] /\ signal' = [signal EXCEPT ![l] = 1]
    BY <1>2 DEF Shutdown
  <2>2. ProcessType' /\ Apart(l) /\ launch'[l] = "stopping" /\ signal'[l] = 1
    BY <2>1, SignalsDo, Loosens DEF StackInv, ProcessType, Apart
  <2>3. ScriptedAt(l)'
    <3>1. process[l]["perception"] \in {"none", "starting"} => Live(l) = {}
      BY <1>0, NoneLive DEF ScriptedAt
    <3>2. Live(l)' = Live(l) /\ Live(l) \subseteq Children
      BY <2>1 DEF Live
    <3>3. process[l]["perception"] \in States
      BY <1>0 DEF StackInv, ProcessType
    <3>4. loose'[l] = IF process[l]["perception"] = "closing" THEN Children ELSE loose[l]
      BY <2>1, Loosens
    <3>5. process'[l]["perception"] \notin {"bound", "closing", "waiting"}
      BY <1>0, <2>1, <3>3, SignalsDo DEF ScriptedAt, States
    <3>6. process'[l]["perception"] = "gone" => Live(l)' \subseteq loose'[l]
      BY <1>0, <2>1, <3>1, <3>2, <3>3, <3>4, SignalsDo DEF ScriptedAt, States
    <3>7. process'[l]["perception"] \in {"none", "starting"} => \A c \in Children : group[l][c] = NotYet
      BY <1>0, <2>1, <3>3, SignalsDo DEF ScriptedAt, States
    <3> QED BY <1>0, <2>1, <2>2, <3>5, <3>6, <3>7 DEF ScriptedAt
  <2>4. Sends(l)' => l \in lock'
    BY <1>0, <2>1, SignalsDo DEF Sends, Frees
  <2> QED BY <2>1, <2>2, <2>3, <2>4, OneLaunch DEF Frees
<1>3. CASE CtrlCAgain(l)
  <2>1. /\ process' \in [Launches -> [Roles -> States]]
        /\ \A k \in Launches : k # l => process'[k] = process[k]
        /\ \A r \in Roles : process'[l][r] = IF process[l][r] \in {"closing", "waiting"} THEN "gone" ELSE process[l][r]
    BY <1>3 DEF CtrlCAgain, StackInv, ProcessType, States
  <2>2. ProcessType' /\ Apart(l) /\ again'[l] = TRUE
    BY <1>3, <2>1, Loosens DEF CtrlCAgain, StackInv, ProcessType, Apart
  <2>3. ScriptedAt(l)'
    <3>1. UNCHANGED <<launch, signal, group, listed>> /\ BreaksCleanup(l)
      BY <1>3 DEF CtrlCAgain
    <3>2. Live(l)' = Live(l) /\ Live(l) \subseteq Children
      BY <3>1 DEF Live
    <3>3. loose'[l] = IF process[l]["perception"] = "closing" THEN Children ELSE loose[l]
      BY <3>1, Loosens
    <3>4. process'[l]["perception"] =
            IF process[l]["perception"] \in {"closing", "waiting"} THEN "gone" ELSE process[l]["perception"]
      BY <1>0, <2>1
    <3>5. /\ process'[l]["perception"] \notin {"closing", "waiting"}
          /\ process'[l]["perception"] = "gone" => Live(l)' \subseteq loose'[l]
      BY <1>0, <3>2, <3>3, <3>4 DEF ScriptedAt
    <3> QED BY <1>0, <3>1, <3>4, <3>5 DEF ScriptedAt
  <2>4. Sends(l)' => l \in lock'
    BY <1>0, <1>3, <2>1 DEF CtrlCAgain, Sends, Frees
  <2> QED BY <1>3, <2>2, <2>3, <2>4, OneLaunch DEF CtrlCAgain, Frees
<1>4. CASE Escalates(l) /\ signal[l] = 1
  <2>1. /\ Signals(l) /\ Frees(l) /\ UNCHANGED <<launch, again, group, listed, loose>>
        /\ signal' = [signal EXCEPT ![l] = 2] /\ launch[l] = "stopping"
        /\ process[l]["perception"] \notin {"asked", "closing"}
        /\ process[l]["perception"] = "starting" => process'[l]["perception"] = "gone"
    BY <1>4 DEF Escalates
  <2>2. ProcessType' /\ Apart(l) /\ signal'[l] = 2
    BY <2>1, SignalsDo DEF StackInv, ProcessType, Apart
  <2>3. ScriptedAt(l)'
    <3>1. process[l]["perception"] \in {"none", "starting"} => Live(l) = {}
      BY <1>0, NoneLive DEF ScriptedAt
    <3>2. Live(l)' = Live(l)
      BY <2>1 DEF Live
    <3>3. process[l]["perception"] \in States
      BY <1>0 DEF StackInv, ProcessType
    <3>5. process'[l]["perception"] \notin {"bound", "closing", "waiting", "starting", "up"}
      BY <1>0, <2>1, <3>3, SignalsDo DEF ScriptedAt, States
    <3>6. process'[l]["perception"] = "gone" => Live(l)' \subseteq loose'[l]
      BY <1>0, <2>1, <3>1, <3>2, <3>3, SignalsDo DEF ScriptedAt, States
    <3>7. process'[l]["perception"] = "none" => \A c \in Children : group[l][c] = NotYet
      BY <1>0, <2>1, <3>3, SignalsDo DEF ScriptedAt, States
    <3> QED BY <1>0, <2>1, <2>2, <3>5, <3>6, <3>7 DEF ScriptedAt
  <2>4. Sends(l)' => l \in lock'
    BY <1>0, <2>1, SignalsDo DEF Sends, Frees
  <2> QED BY <2>1, <2>2, <2>3, <2>4, OneLaunch DEF Frees
<1>5. CASE Escalates(l) /\ signal[l] # 1
  <2>1. /\ process' = [process EXCEPT ![l] = [r \in Roles |-> IF Runs(l, r) THEN "gone" ELSE process[l][r]]]
        /\ Frees(l) /\ UNCHANGED <<launch, again, group, listed, loose>>
        /\ signal' = [signal EXCEPT ![l] = signal[l] + 1] /\ launch[l] = "stopping" /\ signal[l] < 3
        /\ process[l]["perception"] \notin {"asked", "closing"}
    BY <1>5 DEF Escalates
  <2>0. signal[l] = 2 /\ signal'[l] = 3 /\ process[l]["perception"] \in {"none", "waiting", "gone"}
    BY <1>0, <1>5, <2>1 DEF ScriptedAt, StackInv, ProcessType, States
  <2>2. /\ process' \in [Launches -> [Roles -> States]]
        /\ \A k \in Launches : k # l => process'[k] = process[k]
        /\ process'[l]["control"] \in {"none", "gone"}
        /\ process'[l]["perception"] = IF process[l]["perception"] = "none" THEN "none" ELSE "gone"
    BY <1>0, <2>0, <2>1 DEF StackInv, ProcessType, Runs, States
  <2>3. ProcessType' /\ Apart(l)
    <3>1. signal' \in [Launches -> 0 .. 3] /\ \A k \in Launches : k # l => signal'[k] = signal[k]
      BY <2>0, <2>1 DEF StackInv, ProcessType
    <3> QED BY <2>1, <2>2, <3>1 DEF StackInv, ProcessType, Apart
  <2>4. ScriptedAt(l)'
    <3>1. Live(l)' = Live(l)
      BY <2>1 DEF Live
    <3> QED BY <1>0, <2>0, <2>1, <2>2, <3>1 DEF ScriptedAt
  <2>5. ~Sends(l)'
    BY <2>2 DEF Sends
  <2> QED BY <2>1, <2>3, <2>4, <2>5, OneLaunch DEF Frees
<1>6. CASE LaunchOver(l) \/ LaunchKilled(l)
  <2>1. /\ UNCHANGED <<process, signal, again, lock, group, listed, loose>> /\ launch[l] # "none"
        /\ launch'[l] # "stopping"
        /\ launch' \in [Launches -> {"none", "up", "stopping", "over", "killed"}]
        /\ launch'[l] # "none" /\ \A k \in Launches : k # l => launch'[k] = launch[k]
    BY <1>6 DEF LaunchOver, LaunchKilled, StackInv, ProcessType
  <2>2. ProcessType' /\ Apart(l)
    BY <2>1 DEF StackInv, ProcessType, Apart
  <2>3. Live(l)' = Live(l) /\ Reached(l)' = Reached(l)
    BY <2>1 DEF Live, Reached
  <2>4. ScriptedAt(l)'
    BY <1>0, <2>1, <2>3 DEF ScriptedAt
  <2> QED BY <1>0, <2>1, <2>2, <2>4, OneLaunch DEF Sends
<1> QED BY <1>1, <1>2, <1>3, <1>4, <1>5, <1>6 DEF RequiredExited, CtrlC

\* The steps of the programs that are not the script.
LEMMA ProgramsKeep ==
  ASSUME StackInv, NEW l \in Launches,
         \/ Locks(l) \/ ClosesSocket(l) \/ Closed(l)
         \/ \E r \in Roles : Binds(l, r) \/ Ends(l, r)
  PROVE  StackInv'
<1> USE RolesAre
<1>0. /\ ScriptedAt(l) /\ (Sends(l) => l \in lock)
      /\ "control" \in Roles /\ "perception" \in Roles /\ "bridge" \in Roles
  BY DEF StackInv, Scripted, Claimed
<1>1. ASSUME UNCHANGED <<launch, signal, again, group, listed, loose>>,
             process' \in [Launches -> [Roles -> States]],
             \A k \in Launches : k # l => process'[k] = process[k],
             process'[l]["perception"] = process[l]["perception"],
             Sends(l)' => l \in lock',
             lock \ {l} \subseteq lock', lock' \subseteq lock \/ lock' = {l}
      PROVE  StackInv'
  <2>1. ProcessType' /\ Apart(l)
    BY <1>1 DEF StackInv, ProcessType, Apart
  <2>2. Live(l)' = Live(l) /\ Reached(l)' = Reached(l)
    BY <1>1 DEF Live, Reached
  <2>3. ScriptedAt(l)'
    BY <1>0, <1>1, <2>2 DEF ScriptedAt
  <2> QED BY <1>1, <2>1, <2>3, OneLaunch
<1>2. "gone" \in States /\ "up" \in States /\ "bound" \in States
  BY DEF States
<1>3. ASSUME NEW r \in Roles, Ends(l, r) PROVE StackInv'
  <2>1. r # "perception" /\ Becomes(l, r, "gone") /\ Frees(l) /\ UNCHANGED <<launch, signal, again, group, listed, loose>>
    BY <1>3 DEF Ends
  <2>2. /\ process' \in [Launches -> [Roles -> States]]
        /\ \A k \in Launches : k # l => process'[k] = process[k]
        /\ process'[l][r] = "gone" /\ \A q \in Roles : q # r => process'[l][q] = process[l][q]
    BY <1>2, <2>1, BecomesIs
  <2>3. process'[l]["control"] = "gone" \/ process'[l]["control"] = process[l]["control"]
    BY <1>0, <2>2
  <2>4. Sends(l)' => l \in lock'
    BY <1>0, <2>1, <2>3 DEF Sends, Frees
  <2>5. lock \ {l} \subseteq lock' /\ lock' \subseteq lock
    BY <2>1 DEF Frees
  <2> QED BY <1>0, <1>1, <2>1, <2>2, <2>4, <2>5
<1>4. ASSUME NEW r \in Roles, Binds(l, r) PROVE StackInv'
  <2>1. PICK state \in States : Becomes(l, r, state) /\ (state \notin {"up", "closing"} \/ r = "bridge")
    <3>1. CASE port = {} /\ r = "bridge"
      BY <1>2, <1>4, <3>1 DEF Binds
    <3>2. CASE port = {} /\ r # "bridge"
      <4>1. Becomes(l, r, "bound")
        BY <1>4, <3>2 DEF Binds
      <4> QED BY <1>2, <4>1
    <3>3. CASE port # {}
      <4>1. Becomes(l, r, "gone")
        BY <1>4, <3>3 DEF Binds
      <4> QED BY <1>2, <4>1
    <3> QED BY <3>1, <3>2, <3>3
  <2>2. /\ process' \in [Launches -> [Roles -> States]]
        /\ \A k \in Launches : k # l => process'[k] = process[k]
        /\ process'[l][r] = state /\ \A q \in Roles : q # r => process'[l][q] = process[l][q]
    BY <2>1, BecomesIs
  <2>3. r # "perception" /\ UNCHANGED <<launch, signal, again, group, lock, listed, loose>>
    BY <1>4 DEF Binds
  <2>4. Sends(l)' => l \in lock'
    BY <1>0, <2>1, <2>2, <2>3 DEF Sends
  <2> QED BY <1>0, <1>1, <2>2, <2>3, <2>4
<1>5. CASE Locks(l)
  <2>1. UNCHANGED <<launch, signal, again, group, listed, loose>>
    BY <1>5 DEF Locks
  <2>2. CASE lock = {}
    <3>1. lock' = {l} /\ Becomes(l, "control", "up")
      BY <1>5, <2>2 DEF Locks
    <3> QED BY <1>0, <1>1, <1>2, <2>1, <2>2, <3>1, BecomesIs
  <2>3. CASE lock # {}
    <3>1. Becomes(l, "control", "gone") /\ Frees(l)
      BY <1>5, <2>3 DEF Locks
    <3>2. process'[l]["control"] = "gone"
      BY <1>0, <1>2, <3>1, BecomesIs
    <3>3. lock \ {l} \subseteq lock' /\ lock' \subseteq lock /\ ~Sends(l)'
      BY <3>1, <3>2 DEF Frees, Sends
    <3> QED BY <1>0, <1>1, <1>2, <2>1, <3>1, <3>3, BecomesIs
  <2> QED BY <2>2, <2>3
<1>6. CASE ClosesSocket(l)
  BY <1>0, <1>1, <1>6 DEF ClosesSocket, Sends, StackInv, ProcessType
<1>7. CASE Closed(l)
  <2>1. Becomes(l, "control", "gone") /\ lock' = lock \ {l} /\ UNCHANGED <<launch, signal, again, group, listed, loose>>
    BY <1>7 DEF Closed
  <2>2. process'[l]["control"] = "gone"
    BY <1>0, <1>2, <2>1, BecomesIs
  <2> QED BY <1>0, <1>1, <1>2, <2>1, <2>2, BecomesIs DEF Sends
<1> QED BY <1>3, <1>4, <1>5, <1>6, <1>7

\* The steps of the perception script and of what it starts.
LEMMA ScriptKeeps ==
  ASSUME StackInv, NEW l \in Launches,
         \/ ScriptFails(l) \/ ScriptSetsTraps(l) \/ Cleanup(l) \/ TerminateProcesses(l) \/ ScriptWaits(l)
         \/ \E c \in Children : ForksChild(l, c) \/ ListsChild(l, c) \/ LeadsGroup(l, c)
         \/ \E c \in Children, m \in Members \cup Forked : ChildEnds(l, c, m)
  PROVE  StackInv'
<1> USE RolesAre
<1>0. /\ ScriptedAt(l) /\ (Sends(l) => l \in lock)
      /\ "control" \in Roles /\ "perception" \in Roles
      /\ UNCHANGED <<launch, signal, again, lock>>
  BY DEF StackInv, Scripted, Claimed, ScriptFails, ScriptSetsTraps, Cleanup, TerminateProcesses, ScriptWaits,
         ForksChild, ListsChild, LeadsGroup, ChildEnds
<1>1. ASSUME process' \in [Launches -> [Roles -> States]], group' \in [Launches -> [Children -> Groups]],
             listed' \in [Launches -> SUBSET Children], loose' \in [Launches -> SUBSET Children],
             \A k \in Launches : k # l => /\ process'[k] = process[k] /\ group'[k] = group[k]
                                         /\ listed'[k] = listed[k] /\ loose'[k] = loose[k],
             process'[l]["control"] = process[l]["control"], ScriptedAt(l)'
      PROVE  StackInv'
  <2>1. ProcessType' /\ Apart(l)
    BY <1>0, <1>1 DEF StackInv, ProcessType, Apart
  <2>2. Sends(l)' => l \in lock'
    BY <1>0, <1>1 DEF Sends
  <2> QED BY <1>0, <1>1, <2>1, <2>2, OneLaunch
<1>2. "gone" \in States /\ "up" \in States /\ "closing" \in States /\ "waiting" \in States
  BY DEF States
<1>3. /\ process \in [Launches -> [Roles -> States]] /\ group \in [Launches -> [Children -> Groups]]
      /\ listed \in [Launches -> SUBSET Children] /\ loose \in [Launches -> SUBSET Children]
  BY DEF StackInv, ProcessType
<1>4. CASE ScriptFails(l)
  <2>1. PICK state \in {"gone", "closing"} : Becomes(l, "perception", state)
    BY <1>4 DEF ScriptFails
  <2>2. UNCHANGED <<group, listed, loose>> /\ \A c \in Children : group[l][c] = NotYet
    BY <1>4 DEF ScriptFails
  <2>3. Live(l)' = {}
    BY <2>2, NoneLive DEF Live
  <2>4. process'[l]["perception"] = state
    BY <1>0, <1>2, <2>1, BecomesIs
  <2>5. ScriptedAt(l)'
    BY <1>0, <1>4, <2>2, <2>3, <2>4 DEF ScriptedAt, ScriptFails
  <2> QED BY <1>0, <1>1, <1>2, <1>3, <2>1, <2>2, <2>5, BecomesIs
<1>5. CASE ScriptSetsTraps(l)
  <2>1. /\ process[l]["perception"] = "starting" /\ Becomes(l, "perception", "up")
        /\ UNCHANGED <<group, listed, loose>>
    BY <1>5 DEF ScriptSetsTraps
  <2> QED BY <1>0, <1>1, <1>2, <1>3, <2>1, BecomesIs DEF ScriptedAt
<1>6. CASE Cleanup(l)
  <2>1. /\ process[l]["perception"] \in {"asked", "up"} /\ Becomes(l, "perception", "closing")
        /\ UNCHANGED <<group, listed>> /\ loose' = [loose EXCEPT ![l] = Live(l) \ Reached(l)]
    BY <1>6 DEF Cleanup
  <2>2. /\ process'[l]["perception"] = "closing" /\ loose'[l] = Live(l) \ Reached(l)
        /\ Live(l)' = Live(l) /\ Reached(l)' = Reached(l) /\ Live(l) \subseteq Children
    BY <1>0, <1>2, <1>3, <2>1, BecomesIs DEF Live, Reached
  <2>3. ScriptedAt(l)'
    BY <1>0, <2>1, <2>2 DEF ScriptedAt
  <2>4. loose' \in [Launches -> SUBSET Children] /\ \A k \in Launches : k # l => loose'[k] = loose[k]
    BY <1>3, <2>1, <2>2
  <2> QED BY <1>0, <1>1, <1>2, <1>3, <2>1, <2>3, <2>4, BecomesIs
<1>7. CASE TerminateProcesses(l)
  <2>1. /\ process[l]["perception"] = "closing" /\ Becomes(l, "perception", "waiting")
        /\ group' = [group EXCEPT ![l] = [c \in Children |-> IF c \in Reached(l) THEN {} ELSE group[l][c]]]
        /\ UNCHANGED <<listed, loose>>
    BY <1>7 DEF TerminateProcesses
  <2>2. {} \in Groups
    BY DEF Groups
  <2>3. /\ group' \in [Launches -> [Children -> Groups]]
        /\ \A k \in Launches : k # l => group'[k] = group[k]
        /\ \A c \in Children : group'[l][c] = IF c \in Reached(l) THEN {} ELSE group[l][c]
    BY <1>3, <2>1, <2>2
  <2>4. Live(l)' \subseteq Live(l) \ Reached(l)
    BY <2>3 DEF Live
  <2>5. process'[l]["perception"] = "waiting"
    BY <1>0, <1>2, <2>1, BecomesIs
  <2>6. Live(l)' \subseteq loose'[l]
    BY <1>0, <2>1, <2>4 DEF ScriptedAt
  <2>7. \A c \in Children : group'[l][c] # NotYet => group[l][c] # NotYet
    BY <2>3 DEF Reached, Live, NotYet, Members, Forked
  <2>8. ScriptedAt(l)'
    BY <1>0, <2>1, <2>5, <2>6, <2>7 DEF ScriptedAt
  <2> QED BY <1>0, <1>1, <1>2, <1>3, <2>1, <2>3, <2>8, BecomesIs
<1>8. CASE ScriptWaits(l)
  <2>1. /\ process[l]["perception"] = "waiting" /\ Becomes(l, "perception", "gone")
        /\ UNCHANGED <<group, listed, loose>>
    BY <1>8 DEF ScriptWaits
  <2>2. Live(l)' = Live(l)
    BY <2>1 DEF Live
  <2> QED BY <1>0, <1>1, <1>2, <1>3, <2>1, <2>2, BecomesIs DEF ScriptedAt
<1>9. ASSUME NEW c \in Children, ForksChild(l, c) PROVE StackInv'
  <2>1. /\ process[l]["perception"] = "up" /\ UNCHANGED <<process, listed, loose>>
        /\ \A d \in Children : group[l][d] # NotYet => d \in listed[l]
        /\ group' = [group EXCEPT ![l][c] = Forked]
    BY <1>9 DEF ForksChild
  <2>2. Forked \in Groups
    BY DEF Groups
  <2>3. /\ group' \in [Launches -> [Children -> Groups]] /\ \A k \in Launches : k # l => group'[k] = group[k]
        /\ \A d \in Children : d # c => group'[l][d] = group[l][d]
    BY <1>3, <2>1, <2>2
  <2>4. ScriptedAt(l)'
    BY <1>0, <2>1, <2>3 DEF ScriptedAt
  <2> QED BY <1>0, <1>1, <1>3, <2>1, <2>3, <2>4
<1>10. ASSUME NEW c \in Children, ListsChild(l, c) PROVE StackInv'
  <2>1. /\ process[l]["perception"] = "up" /\ UNCHANGED <<process, group, loose>>
        /\ listed' = [listed EXCEPT ![l] = listed[l] \cup {c}]
    BY <1>10 DEF ListsChild
  <2>2. /\ listed' \in [Launches -> SUBSET Children] /\ \A k \in Launches : k # l => listed'[k] = listed[k]
        /\ listed[l] \subseteq listed'[l]
    BY <1>3, <2>1
  <2>3. ScriptedAt(l)'
    BY <1>0, <2>1, <2>2 DEF ScriptedAt
  <2> QED BY <1>0, <1>1, <1>3, <2>1, <2>2, <2>3
<1>11. ASSUME NEW c \in Children, NEW m \in Members \cup Forked, LeadsGroup(l, c) \/ ChildEnds(l, c, m)
       PROVE  StackInv'
  <2>1. PICK members \in Groups :
           group' = [group EXCEPT ![l][c] = members] /\ members \cap (Members \cup Forked) = members
    <3>1. CASE LeadsGroup(l, c)
      BY <3>1 DEF LeadsGroup, Groups
    <3>2. CASE ChildEnds(l, c, m)
      <4>1. group[l][c] \in Groups /\ m \in group[l][c] /\ m # "no"
        BY <1>3, <3>2 DEF ChildEnds, Members, Forked
      <4>2. group[l][c] \ {m} \in Groups /\ group[l][c] \ {m} \subseteq Members \cup Forked
        BY <4>1 DEF Groups, NotYet, Members, Forked
      <4> QED BY <3>2, <4>2 DEF ChildEnds
    <3> QED BY <1>11, <3>1, <3>2
  <2>9. group[l][c] \in Groups /\ group'[l][c] = members
    BY <1>3, <2>1
  <2>10. UNCHANGED <<process, listed, loose>> /\ \E x \in Members \cup Forked : x \in group[l][c]
    BY <1>11 DEF LeadsGroup, ChildEnds, Forked
  <2>11. group[l][c] # Forked => members # Forked
    <3>1. CASE LeadsGroup(l, c)
      BY <3>1 DEF LeadsGroup
    <3>2. CASE ChildEnds(l, c, m)
      <4>1. group'[l][c] = group[l][c] \ {m}
        BY <1>3, <3>2 DEF ChildEnds
      <4> QED BY <2>9, <4>1 DEF Groups, NotYet, Members, Forked
    <3> QED BY <1>11, <3>1, <3>2
  <2>2. /\ UNCHANGED <<process, listed, loose>> /\ group[l][c] # NotYet /\ c \in Live(l)
        /\ group[l][c] # Forked => members # Forked
    BY <2>10, <2>11 DEF Live, NotYet, Members, Forked
  <2>3. /\ group' \in [Launches -> [Children -> Groups]]
        /\ \A k \in Launches : k # l => group'[k] = group[k]
        /\ \A d \in Children : group'[l][d] = IF d = c THEN members ELSE group[l][d]
    BY <1>3, <2>1
  <2>4. Live(l)' \subseteq Live(l)
    BY <2>2, <2>3 DEF Live
  <2>5. Reached(l) \cap Live(l)' \subseteq Reached(l)'
    <3>1. ASSUME NEW d \in Reached(l), d \in Live(l)' PROVE d \in listed'[l] /\ group'[l][d] # Forked
      <4>1. d \in Children /\ d \in listed[l] /\ group[l][d] # Forked
        BY <3>1 DEF Reached, Live
      <4> QED BY <2>2, <2>3, <4>1
    <3> QED BY <3>1 DEF Reached
  <2>6. \A d \in Children : group'[l][d] # NotYet => group[l][d] # NotYet
    BY <2>2, <2>3
  <2>7. process[l]["perception"] \notin {"none", "starting"}
    BY <1>0, <2>2 DEF ScriptedAt
  <2>8. ScriptedAt(l)'
    BY <1>0, <2>2, <2>4, <2>5, <2>6, <2>7 DEF ScriptedAt
  <2> QED BY <1>0, <1>1, <1>3, <2>2, <2>3, <2>8
<1> QED BY <1>4, <1>5, <1>6, <1>7, <1>8, <1>9, <1>10, <1>11 DEF Members

\* The lock goes with the process that sends, and the perception script passes its traps
\* before it starts a child and before it can be killed.
THEOREM StackInvariant == StackSpec => []StackInv
<1>1. StackInv /\ [StackNext]_stackVars => StackInv'
  <2> SUFFICES ASSUME StackInv, [StackNext]_stackVars PROVE StackInv'
    OBVIOUS
  <2>1. CASE StackNext
    <3>1. PICK l \in Launches : Works(l) \/ Mishap(l)
      BY <2>1 DEF StackNext
    <3> QED BY <3>1, LaunchesKeep, ProgramsKeep, ScriptKeeps
            DEF Works, Mishap, LaunchStep, ScriptStep, ClaimStep
  <2>2. CASE UNCHANGED stackVars
    BY <2>2 DEF stackVars, StackInv, ProcessType, Claimed, Scripted, ScriptedAt, Sends, Live, Reached
  <2> QED BY <2>1, <2>2
<1> QED BY <1>1, StackBegins, PTL DEF StackSpec

\* For any launches, whatever is killed, ends or is left behind: never do two servers
\* send to the endpoint.
THEOREM OneSink == StackSpec => []OneCommandSink
<1>1. StackInv => OneCommandSink
  BY DEF StackInv, Claimed, OneCommandSink
<1> QED BY <1>1, StackInvariant, PTL

\* For any launches and children, whatever ignores its signals: a perception script that
\* is gone has left none of its groups but those a signal came at the wrong moment for, and
\* at most one group is not in its PIDS.
THEOREM NoGroupLeft == StackSpec => []NothingLeftBehind
<1>1. StackInv => NothingLeftBehind
  <2> SUFFICES ASSUME StackInv, NEW l \in Launches
               PROVE  /\ process[l]["perception"] = "gone" => Live(l) \subseteq loose[l]
                      /\ \A c, d \in Live(l) \ listed[l] : c = d
    BY DEF NothingLeftBehind
  <2>1. ScriptedAt(l)
    BY DEF StackInv, Scripted
  <2>2. \A c \in Live(l) : c \in Children /\ group[l][c] # NotYet
    BY DEF Live, NotYet, Members, Forked
  <2> QED BY <2>1, <2>2 DEF ScriptedAt
<1> QED BY <1>1, StackInvariant, PTL
==============================================================================
