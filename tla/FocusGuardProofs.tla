-------------------------- MODULE FocusGuardProofs --------------------------
(* Types, passwords and put-off questions, for any fields, bounds and order. *)
EXTENDS FocusGuard, SequenceTheorems, TLAPS

Replies == {"none", "unknown", "password", "ordinary"}
QueryType == [asked : Fields \cup {"none"}, moved : BOOLEAN, reply : Replies,
              round : 0..MaxRounds, late : BOOLEAN]

\* What the operations need to know of the types.
Types ==
  /\ element \in Fields \cup {"none"} /\ protected \in {-1, 0, 1}
  /\ facts \in {"none", "ordinary", "protected"} /\ attempts \in 0..2
  /\ query \in QueryType /\ com \in BOOLEAN

\* Where fields can be asked, a password field counts as ordinary only after two
\* silences, also in the cache; the question in flight is about the element with the
\* focus unless it has moved since; and a password field that is asked never answers
\* that it is ordinary.
IInv ==
  /\ Types
  /\ com /\ element \in Passwords /\ attempts # 2 => protected # 0 /\ facts # "ordinary"
  /\ work = "query" /\ ~query.moved => query.asked = element
  /\ com /\ query.asked \in Passwords => query.reply # "ordinary"

\* Asking a field starts a fresh question about it.
LEMMA AskStarts ==
  ASSUME NEW f \in Fields \cup {"none"}, NEW late \in BOOLEAN, Ask(f, late)
  PROVE  query' \in QueryType /\ query'.asked = f /\ ~query'.moved /\ query'.reply = "none"
<1>1. query' = [asked |-> f, moved |-> FALSE, reply |-> "none", round |-> 1, late |-> late]
  BY DEF Ask, NoQuery
<1>2. FALSE \in BOOLEAN
  BY Zenon
<1>3. 1 \in 0..MaxRounds
  BY BoundsAssumption
<1> QED BY <1>1, <1>2, <1>3 DEF QueryType, Replies

\* The record of no question in flight is a question record.
LEMMA NoQueryIsOne == NoQuery \in QueryType /\ NoQuery.asked = "none" /\ NoQuery.reply = "none"
<1>1. FALSE \in BOOLEAN
  BY Zenon
<1> QED BY <1>1, BoundsAssumption DEF NoQuery, QueryType, Replies

\* Nothing is asked, and nothing counts as a field, at the start.
LEMMA InitInv == Init => IInv
<1> SUFFICES ASSUME Init PROVE IInv
  OBVIOUS
<1>1. Types
  BY NoQueryIsOne DEF Init, Types
<1>2. element \notin Passwords /\ query.asked \notin Passwords /\ work # "query"
  BY NoQueryIsOne, NoneAssumption, FieldsAssumption DEF Init
<1> QED BY <1>1, <1>2 DEF IInv

\* Every step that leaves the engine's view of the field alone.
LEMMA OthersKeepInv ==
  ASSUME IInv, UNCHANGED <<com, element, protected, attempts, query>>,
         facts' = facts \/ facts' = "none" \/ (facts' = Fresh /\ facts = "none"),
         work' = work \/ work' # "query"
  PROVE  IInv'
BY DEF IInv, Types, Fresh

\* The query ends.
LEMMA LeaveKeepsInv ==
  ASSUME IInv, Leave, com' = com, element' = element, attempts' \in 0..2, protected' \in {-1, 0, 1},
         com /\ element \in Passwords /\ attempts' # 2 => protected' # 0
  PROVE  IInv'
<1>1. Types'
  BY NoQueryIsOne DEF Leave, IInv, Types
<1>2. query'.asked \notin Passwords /\ work' # "query" /\ facts' # "ordinary"
  BY NoQueryIsOne, NoneAssumption, FieldsAssumption DEF Leave
<1> QED BY <1>1, <1>2 DEF IInv

\* accessible_is_protected: a password field answers that it is one, or nothing.
LEMMA ReplyKeepsInv == IInv /\ Reply => IInv'
<1> SUFFICES ASSUME IInv, Reply PROVE IInv'
  OBVIOUS
<1>1. PICK answer \in IF com THEN {"unknown", State} ELSE {"ordinary"} :
        query' = [query EXCEPT !.reply = answer]
  BY DEF Reply
<1>2. UNCHANGED <<com, element, protected, facts, attempts, work>>
  BY DEF Reply, Engine, World
<1>3. answer \in Replies /\ (com /\ query.asked \in Passwords => answer # "ordinary")
  BY <1>1 DEF State, IsPassword, Replies
<1>4. /\ query' \in QueryType /\ query'.reply = answer
      /\ query'.asked = query.asked /\ query'.moved = query.moved
  BY <1>1, <1>3 DEF IInv, Types, QueryType
<1> QED BY <1>2, <1>3, <1>4 DEF IInv, Types

\* focus_event_proc: the new field is unknown, and a running query has moved.
LEMMA FocusKeepsInv == IInv /\ DeliverFocus /\ Head(events).field \in Fields => IInv'
<1> SUFFICES ASSUME IInv, DeliverFocus, Head(events).field \in Fields PROVE IInv'
  OBVIOUS
<1>1. /\ element' \in Fields /\ protected' = -1 /\ attempts' = 0 /\ facts' = "none"
      /\ com' = com
  BY DEF DeliverFocus, Deliver
<1>2. CASE work = "query"
  <2>1. query' = [query EXCEPT !.moved = TRUE]
    BY <1>2 DEF DeliverFocus
  <2>2. query' \in QueryType /\ query'.moved /\ query'.asked = query.asked /\ query'.reply = query.reply
    BY <2>1 DEF IInv, Types, QueryType
  <2> QED BY <1>1, <2>2 DEF IInv, Types
<1>3. CASE work = "op"
  <2>1. query' = query /\ work' # "query"
    BY <1>3 DEF DeliverFocus
  <2> QED BY <1>1, <2>1 DEF IInv, Types
<1>4. CASE work = "idle"
  <2>1. Ask(element', FALSE)
    BY <1>4 DEF DeliverFocus
  <2>2. query' \in QueryType /\ query'.asked = element' /\ query'.reply = "none"
    BY <1>1, <2>1, AskStarts
  <2> QED BY <1>1, <2>2 DEF IInv, Types
<1>5. work \in {"query", "op", "idle"}
  BY DEF DeliverFocus
<1> QED BY <1>2, <1>3, <1>4, <1>5

\* run_focus_query: an answer about another field is not taken.
LEMMA QueryKeepsInv == IInv /\ Query => IInv'
<1> SUFFICES ASSUME IInv, Query PROVE IInv'
  OBVIOUS
<1>1. CASE Answered
  \* The answer is the element's own, and so not "ordinary" for a password field.
  <2>1. query.asked = element /\ query.reply # "none" /\ query.reply # "unknown"
    BY <1>1 DEF Answered, Stands, IInv
  <2>2. /\ Leave /\ com' = com /\ element' = element /\ attempts' = attempts
        /\ protected' = IF query.reply = "password" THEN 1 ELSE 0
    BY <1>1 DEF Answered, World
  <2>3. com /\ element \in Passwords => query.reply = "password"
    BY <2>1 DEF IInv, Types, QueryType, Replies
  <2> QED BY <2>2, <2>3, LeaveKeepsInv DEF IInv, Types
<1>2. CASE Unanswered
  <2>1. /\ Leave /\ com' = com /\ element' = element /\ attempts' = (IF attempts = 0 THEN 1 ELSE 2)
        /\ attempts = 0 => protected' = -1
        /\ attempts # 0 => protected' = 0
    BY <1>2 DEF Unanswered, World
  <2> QED BY <2>1, LeaveKeepsInv
<1>3. CASE Followed
  <2>1. UNCHANGED <<com, element, protected, attempts>>
    BY <1>3 DEF Followed, World
  <2>2. CASE Leave
    BY <2>1, <2>2, LeaveKeepsInv DEF IInv, Types
  <2>3. CASE /\ query.round < MaxRounds
             /\ query' = [query EXCEPT !.asked = element, !.moved = FALSE, !.reply = "none",
                                       !.round = @ + 1]
             /\ UNCHANGED <<work, facts>>
    <3>1. FALSE \in BOOLEAN
      BY Zenon
    <3>2. query.round + 1 \in 0..MaxRounds
      BY <2>3, BoundsAssumption DEF IInv, Types, QueryType
    <3>3. query' \in QueryType /\ query'.asked = element /\ query'.reply = "none"
      BY <2>3, <3>1, <3>2 DEF IInv, Types, QueryType, Replies
    <3> QED BY <2>1, <2>3, <3>3 DEF IInv, Types
  <2> QED BY <1>3, <2>2, <2>3 DEF Followed, Engine
<1> QED BY <1>1, <1>2, <1>3 DEF Query

\* A message or the state timer starts a query, or leaves the field as it is.
LEMMA TimersKeepInv == IInv /\ (AskMessage \/ StateTimer) => IInv'
<1> SUFFICES ASSUME IInv, AskMessage \/ StateTimer PROVE IInv'
  OBVIOUS
<1>1. UNCHANGED <<com, element, protected, facts, attempts>>
  BY DEF AskMessage, StateTimer, World
<1>2. CASE UNCHANGED <<work, query>>
  BY <1>1, <1>2, OthersKeepInv
<1>3. ASSUME NEW late \in BOOLEAN, Ask(element, late) PROVE IInv'
  <2>1. query' \in QueryType /\ query'.asked = element /\ query'.reply = "none"
    BY <1>3, AskStarts DEF IInv, Types
  <2> QED BY <1>1, <2>1 DEF IInv, Types
<1>4. Ask(element, FALSE) \/ Ask(element, since = "over") \/ UNCHANGED <<work, query>>
  BY DEF AskMessage, StateTimer
<1>5. FALSE \in BOOLEAN /\ (since = "over") \in BOOLEAN
  BY Zenon
<1> QED BY <1>2, <1>3, <1>4, <1>5

-----------------------------------------------------------------------------
EventsAreOfFields == events \in Seq([kind : {"focus", "state"}, field : Fields])
                     /\ focus \in Fields \cup {"none"}

\* The events that wait for focus_event_proc are about fields.
THEOREM EventsStayOfFields == Spec => []EventsAreOfFields
<1>1. Init => EventsAreOfFields
  BY DEF Init, EventsAreOfFields
<1>2. EventsAreOfFields /\ [Next]_vars => EventsAreOfFields'
  <2> SUFFICES ASSUME EventsAreOfFields, [Next]_vars PROVE EventsAreOfFields'
    OBVIOUS
  <2> USE DEF EventsAreOfFields
  <2>1. CASE MoveFocus
    BY <2>1 DEF MoveFocus, Queue
  <2>2. CASE ChangeState
    BY <2>2 DEF ChangeState, Queue
  <2>3. ASSUME NEW kind, Deliver(kind) PROVE EventsAreOfFields'
    BY <2>3 DEF Deliver
  <2>4. CASE UNCHANGED <<events, focus>>
    BY <2>4
  <2>5. \/ MoveFocus \/ ChangeState \/ Deliver("state") \/ Deliver("focus")
        \/ UNCHANGED <<events, focus>>
    BY DEF Next, Environment, Query, Pump, World, vars, StartOp, NestedKey, Reply,
           TwoSecondsPass, Decide, EndOp, Answered, Unanswered, Followed, DeliverState,
           DeliverSameFocus, DeliverFocus, AskMessage, AskTimer, StateTimer
  <2> QED BY <2>1, <2>2, <2>3, <2>4, <2>5
<1> QED BY <1>1, <1>2, PTL DEF Spec

\* The invariant is kept while events are about fields.
LEMMA StepKeepsInv == EventsAreOfFields /\ IInv /\ [Next]_vars => IInv'
<1> SUFFICES ASSUME EventsAreOfFields, IInv, [Next]_vars PROVE IInv'
  OBVIOUS
<1>1. CASE DeliverFocus
  <2>1. Head(events) \in [kind : {"focus", "state"}, field : Fields]
    <3>1. events # <<>>
      BY <1>1 DEF DeliverFocus, Deliver
    <3> QED BY <3>1, HeadTailProperties DEF EventsAreOfFields
  <2> QED BY <1>1, <2>1, FocusKeepsInv
<1>2. CASE DeliverState
  <2>1. UNCHANGED <<com, element, attempts, query, work>>
    BY <1>2 DEF DeliverState, Deliver, Engine
  <2>2. (protected' = -1 /\ facts' = "none") \/ UNCHANGED <<protected, facts>>
    BY <1>2 DEF DeliverState
  <2> QED BY <2>1, <2>2 DEF IInv, Types
<1>3. CASE Reply
  BY <1>3, ReplyKeepsInv
<1>4. CASE Query
  BY <1>4, QueryKeepsInv
<1>5. CASE AskMessage \/ StateTimer
  BY <1>5, TimersKeepInv
<1>6. CASE \/ MoveFocus \/ ChangeState \/ StartOp \/ NestedKey \/ TwoSecondsPass \/ Decide
           \/ EndOp \/ DeliverSameFocus \/ AskTimer \/ UNCHANGED vars
  <2>1. UNCHANGED <<com, element, protected, attempts, query>>
    BY <1>6 DEF MoveFocus, ChangeState, StartOp, NestedKey, TwoSecondsPass, Decide, EndOp,
                DeliverSameFocus, Deliver, AskTimer, vars, World, OursUnchanged
  <2>2. facts' = facts \/ (facts' = Fresh /\ facts = "none")
    BY <1>6 DEF MoveFocus, ChangeState, StartOp, NestedKey, TwoSecondsPass, Decide, EndOp,
                DeliverSameFocus, AskTimer, vars, OursUnchanged
  <2>3. work' = work \/ work' # "query"
    BY <1>6 DEF MoveFocus, ChangeState, StartOp, NestedKey, TwoSecondsPass, Decide, EndOp,
                DeliverSameFocus, AskTimer, vars, OursUnchanged, Engine
  <2> QED BY <2>1, <2>2, <2>3, OthersKeepInv
<1> QED BY <1>1, <1>2, <1>3, <1>4, <1>5, <1>6 DEF Next, Environment, Pump

\* A password field is treated as an ordinary one only after it was asked twice and
\* did not answer, or where no field can be asked.
THEOREM PasswordsStayAlone == Spec => []PasswordsAreLeftAlone
<1>1. IInv => PasswordsAreLeftAlone
  BY DEF IInv, PasswordsAreLeftAlone, Ordinary
<1> QED BY <1>1, InitInv, StepKeepsInv, EventsStayOfFields, PTL DEF Spec

-----------------------------------------------------------------------------
\* A question asked while a word is being typed and the field counts as ordinary
\* is one that two seconds of typing have put off.
PutOff == work = "query" /\ hasContext /\ protected = 0 => query.late

\* Only a new focus, the end of a query or the state timer bears on it.
LEMMA StepKeepsPutOff == IInv /\ PutOff /\ [Next]_vars => PutOff'
<1> SUFFICES ASSUME IInv, PutOff, [Next]_vars PROVE PutOff'
  OBVIOUS
<1>1. CASE work' # "query"
  BY <1>1 DEF PutOff
<1>2. CASE protected' # 0
  BY <1>2 DEF PutOff
<1>3. CASE UNCHANGED <<work, hasContext, protected, query>>
  BY <1>3 DEF PutOff
<1>4. CASE Reply \/ Followed
  <2>1. Leave \/ UNCHANGED <<work, hasContext, protected>>
    BY <1>4 DEF Reply, Followed, Engine
  <2>2. CASE UNCHANGED <<work, hasContext, protected>> /\ ~Leave
    <3>1. query'.late = query.late
      BY <1>4, <2>2 DEF Reply, Followed, IInv, Types, QueryType
    <3> QED BY <2>2, <3>1 DEF PutOff
  <2> QED BY <1>1, <2>1, <2>2 DEF Leave
<1>5. CASE StateTimer
  <2>1. CASE Ask(element, since = "over")
    <3>1. query'.late = (since = "over")
      BY <2>1 DEF Ask, NoQuery
    <3>2. hasContext' => since = "over"
      BY <1>5 DEF StateTimer
    <3> QED BY <3>1, <3>2 DEF PutOff
  <2>2. CASE UNCHANGED <<work, interrupted, query>>
    BY <1>3, <1>5, <2>2 DEF StateTimer
  <2> QED BY <1>5, <2>1, <2>2 DEF StateTimer
<1>6. CASE AskMessage
  <2>1. UNCHANGED <<protected, hasContext>>
    BY <1>6 DEF AskMessage
  <2>2. protected = -1 \/ UNCHANGED <<work, query>>
    BY <1>6 DEF AskMessage
  <2> QED BY <1>2, <1>3, <2>1, <2>2
<1>7. CASE DeliverFocus
  BY <1>2, <1>7 DEF DeliverFocus
<1>8. CASE DeliverState
  <2>1. protected' = -1 \/ UNCHANGED protected
    BY <1>8 DEF DeliverState
  <2> QED BY <1>2, <1>3, <1>8, <2>1 DEF DeliverState, Engine
<1>9. CASE StartOp \/ EndOp \/ Answered \/ Unanswered
  BY <1>1, <1>9 DEF StartOp, EndOp, Answered, Unanswered, Leave
<1>10. CASE UNCHANGED vars
  BY <1>3, <1>10 DEF vars
<1>11. CASE \/ MoveFocus \/ ChangeState \/ NestedKey \/ TwoSecondsPass \/ Decide
            \/ DeliverSameFocus \/ AskTimer
  BY <1>3, <1>11 DEF MoveFocus, ChangeState, NestedKey, TwoSecondsPass, Decide,
                     DeliverSameFocus, AskTimer, OursUnchanged, Engine
<1> QED BY <1>4, <1>5, <1>6, <1>7, <1>8, <1>9, <1>10, <1>11 DEF Next, Environment, Query, Pump

\* A state change takes no correction from a word being typed, for two seconds
\* (app.c:3219).
THEOREM WordsKeepTheirCorrection == Spec => WordKeepsItsCorrection
<1>1. Init => PutOff
  BY DEF Init, PutOff
<1>2. IInv /\ PutOff /\ [Next]_vars
        => [hasContext /\ element' = element /\ protected = 0 /\ protected' = -1 => query.late]_vars
  <2> SUFFICES ASSUME PutOff, Next, hasContext, element' = element, protected = 0, protected' = -1
               PROVE  query.late
    OBVIOUS
  <2>1. CASE Unanswered
    BY <2>1 DEF Unanswered, Stands, PutOff
  <2>2. CASE UNCHANGED protected
    BY <2>2
  <2>3. CASE DeliverState \/ DeliverFocus
    BY <2>3 DEF DeliverState, DeliverFocus
  <2>4. CASE Answered
    BY <2>4 DEF Answered
  <2> QED BY <2>1, <2>2, <2>3, <2>4
          DEF Next, Environment, Query, Pump, MoveFocus, ChangeState, StartOp, NestedKey, Reply,
              TwoSecondsPass, Decide, EndOp, Followed, DeliverSameFocus, AskMessage, AskTimer,
              StateTimer, OursUnchanged
<1> QED BY <1>1, <1>2, InitInv, StepKeepsInv, StepKeepsPutOff, EventsStayOfFields, PTL
        DEF Spec, WordKeepsItsCorrection

-----------------------------------------------------------------------------
\* The types IInv does not speak of.
Others ==
  /\ turned \subseteq Turning /\ Len(events) <= MaxEvents
  /\ moves \in 0..MaxMoves /\ changes \in 0..MaxChanges
  /\ posted \in BOOLEAN /\ messages \in Nat
  /\ askTimer \in BOOLEAN /\ stateTimer \in BOOLEAN /\ since \in {"none", "short", "over"}
  /\ work \in {"idle", "op", "query"} /\ interrupted \in BOOLEAN /\ hasContext \in BOOLEAN

\* The prover needs the two truth values as a fact.
LEMMA Booleans == TRUE \in BOOLEAN /\ FALSE \in BOOLEAN
BY Zenon

\* The user, the applications and our own operations.
LEMMA OperationsKeepOthers ==
  ASSUME EventsAreOfFields, Others,
         \/ MoveFocus \/ ChangeState \/ Reply \/ TwoSecondsPass \/ StartOp \/ Decide \/ EndOp
         \/ NestedKey \/ Query \/ AskTimer
  PROVE  Others'
<1>1. CASE MoveFocus \/ ChangeState
  <2>1. Len(events') <= MaxEvents
    <3>1. PICK e : Len(events) < MaxEvents /\ events' = Append(events, e)
      BY <1>1 DEF MoveFocus, ChangeState, Queue
    <3>2. Len(events') = Len(events) + 1 /\ Len(events) \in Nat
      BY <3>1 DEF EventsAreOfFields
    <3> QED BY <3>1, <3>2, BoundsAssumption
  <2>2. moves' \in 0..MaxMoves /\ changes' \in 0..MaxChanges
    BY <1>1, BoundsAssumption DEF MoveFocus, ChangeState, Others
  <2>3. turned' \subseteq Turning
    BY <1>1 DEF MoveFocus, ChangeState, Others
  <2> QED BY <1>1, <2>1, <2>2, <2>3
          DEF MoveFocus, ChangeState, OursUnchanged, Pending, Timers, Engine, Others
<1>2. CASE Reply \/ TwoSecondsPass
  BY <1>2 DEF Reply, TwoSecondsPass, World, Pending, Timers, Engine, Others
<1>3. CASE StartOp \/ Decide \/ NestedKey
  BY <1>3, Booleans DEF StartOp, Decide, NestedKey, World, Pending, Timers, Engine, Others
<1>4. CASE EndOp
  <2>1. hasContext' \in BOOLEAN
    BY <1>4, Booleans DEF EndOp
  <2> QED BY <1>4, <2>1, Booleans DEF EndOp, World, Pending, Timers, Others
<1>5. CASE Query
  <2>1. Leave \/ UNCHANGED Engine
    BY <1>5 DEF Query, Answered, Unanswered, Followed
  <2>2. work' \in {"idle", "op", "query"} /\ interrupted' \in BOOLEAN
    BY <2>1, Booleans DEF Leave, Engine, Others
  <2>3. hasContext' \in BOOLEAN
    BY <2>1, Zenon DEF Leave, Engine, Others
  <2>4. posted' \in BOOLEAN /\ askTimer' \in BOOLEAN
    <3>1. posted' \in {TRUE, posted} /\ askTimer' \in {TRUE, askTimer}
      BY <1>5, Zenon DEF Query, Answered, Unanswered, Followed, Post, Pending, Timers
    <3> QED BY <3>1, Booleans, Zenon DEF Others
  <2>6. messages' \in Nat
    <3>1. messages' = messages \/ messages' = messages + 1
      BY <1>5, Zenon DEF Query, Answered, Unanswered, Followed, Post, Pending
    <3> QED BY <3>1 DEF Others
  <2>5. UNCHANGED <<World, stateTimer, since>>
    BY <1>5 DEF Query, Answered, Unanswered, Followed, Timers
  <2> QED BY <2>2, <2>3, <2>4, <2>6, <2>5 DEF World, Others
<1>6. CASE AskTimer
  <2>1. messages' \in Nat
    BY <1>6 DEF AskTimer, Others
  <2>2. askTimer' \in BOOLEAN
    BY <1>6, Zenon DEF AskTimer
  <2> QED BY <1>6, <2>1, <2>2 DEF AskTimer, World, Engine, Others
<1> QED BY <1>1, <1>2, <1>3, <1>4, <1>5, <1>6

\* What the message loop brings.
LEMMA PumpKeepsOthers ==
  ASSUME EventsAreOfFields, Others, Pump \/ StateTimer
  PROVE  Others'
<1>1. ASSUME NEW kind, Deliver(kind)
      PROVE  Len(events') <= MaxEvents /\ UNCHANGED <<turned, moves, changes>>
  <2>1. events # <<>>
    BY <1>1 DEF Deliver
  <2>2. Len(Tail(events)) = Len(events) - 1 /\ Len(events) \in Nat
    BY <2>1, HeadTailProperties DEF EventsAreOfFields
  <2> QED BY <1>1, <2>2, BoundsAssumption DEF Deliver, Others
<1>2. CASE DeliverState
  <2>1. posted' \in BOOLEAN /\ askTimer' \in BOOLEAN /\ stateTimer' \in BOOLEAN
    <3>1. posted' \in {TRUE, posted} /\ askTimer' = askTimer /\ stateTimer' \in {TRUE, stateTimer}
      BY <1>2, Zenon DEF DeliverState, Post, Pending, Timers
    <3> QED BY <3>1, Booleans, Zenon DEF Others
  <2>3. messages' \in Nat /\ since' \in {"none", "short", "over"}
    <3>1. messages' = messages \/ messages' = messages + 1
      BY <1>2, Zenon DEF DeliverState, Post, Pending
    <3>2. since' = since \/ since' = "short"
      BY <1>2, Zenon DEF DeliverState, Timers
    <3> QED BY <3>1, <3>2 DEF Others
  <2>2. Deliver("state") /\ UNCHANGED <<work, interrupted, hasContext>>
    BY <1>2 DEF DeliverState, Engine
  <2> QED BY <1>1, <2>1, <2>3, <2>2 DEF Others
<1>3. CASE DeliverSameFocus
  BY <1>1, <1>3 DEF DeliverSameFocus, Pending, Timers, Engine, Others
<1>4. CASE DeliverFocus
  <2>1. posted' \in BOOLEAN /\ UNCHANGED <<askTimer, stateTimer, since>>
    <3>1. posted' \in {TRUE, posted} /\ UNCHANGED <<askTimer, stateTimer, since>>
      BY <1>4, Zenon DEF DeliverFocus, Post, Pending, Timers
    <3> QED BY <3>1, Booleans, Zenon DEF Others
  <2>3. messages' \in Nat
    <3>1. messages' = messages \/ messages' = messages + 1
      BY <1>4, Zenon DEF DeliverFocus, Post, Pending
    <3> QED BY <3>1 DEF Others
  <2>2. Deliver("focus") /\ interrupted' \in BOOLEAN /\ hasContext' \in BOOLEAN
        /\ work' \in {"idle", "op", "query"}
    BY <1>4, Booleans DEF DeliverFocus, Others
  <2> QED BY <1>1, <2>1, <2>3, <2>2 DEF Others
<1>5. CASE AskMessage
  <2>1. messages' \in Nat
    BY <1>5 DEF AskMessage, Others
  <2> QED BY <1>5, <2>1, Booleans DEF AskMessage, World, Others
<1>6. CASE StateTimer
  BY <1>6, Booleans DEF StateTimer, World, Pending, Others
<1> QED BY <1>2, <1>3, <1>4, <1>5, <1>6 DEF Pump

\* The guard's state has its types; in particular the queue of events and the rounds
\* of a query stay within their limits (run_focus_query).
THEOREM GuardHasTypes == Spec => []TypeOK
<1>1. Init => Others
  <2> SUFFICES ASSUME Init PROVE Others
    OBVIOUS
  <2>1. posted \in BOOLEAN /\ askTimer \in BOOLEAN /\ stateTimer \in BOOLEAN
        /\ interrupted \in BOOLEAN /\ hasContext \in BOOLEAN
    BY Zenon DEF Init
  <2> QED BY <2>1, BoundsAssumption DEF Init, Others
<1>2. EventsAreOfFields /\ Others /\ [Next]_vars => Others'
  <2> SUFFICES ASSUME EventsAreOfFields, Others, [Next]_vars PROVE Others'
    OBVIOUS
  <2>1. CASE UNCHANGED vars
    BY <2>1 DEF vars, World, Pending, Timers, Engine, Others
  <2> QED BY <2>1, OperationsKeepOthers, PumpKeepsOthers DEF Next, Environment
<1>3. EventsAreOfFields /\ IInv /\ Others => TypeOK
  BY DEF EventsAreOfFields, IInv, Types, QueryType, Replies, Others, TypeOK
<1> QED BY <1>1, <1>2, <1>3, InitInv, StepKeepsInv, EventsStayOfFields, PTL DEF Spec
=============================================================================
