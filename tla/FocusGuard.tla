----------------------------- MODULE FocusGuard -----------------------------
(***************************************************************************)
(* Which field has the focus, and whether it is a password field           *)
(* (src/app.c, focus_event_proc and run_focus_query).  Windows reports a    *)
(* focus or a state change by an event that is delivered whenever our       *)
(* thread pumps messages, also inside an engine operation and inside the    *)
(* query itself; the query asks the application, which may answer late or   *)
(* not at all.  Native password edits, known from their window style alone, *)
(* are left out, as are the other facts cached about the focused window.    *)
(***************************************************************************)
EXTENDS Integers, Sequences

CONSTANTS
  Fields,       \* the elements that can have the focus
  Passwords,    \* those that are password fields from the start
  Turning,      \* those that a script turns into password fields later
  SlowReplies,  \* a field may change between giving its answer and our reading it
  MaxRounds,    \* times a query follows a moving focus (4)
  MaxMoves, MaxChanges, MaxEvents  \* bounds: focus and state changes, queued events

ASSUME FieldsAssumption == Passwords \subseteq Fields /\ Turning \subseteq Fields
ASSUME NoneAssumption == "none" \notin Fields
ASSUME FlagsAssumption == SlowReplies \in BOOLEAN
ASSUME BoundsAssumption == MaxRounds \in Nat \ {0} /\ MaxMoves \in Nat
                           /\ MaxChanges \in Nat /\ MaxEvents \in Nat

VARIABLES
  com,            \* g_com_ready: an application can be asked at all
  focus, turned,  \* the field with the focus; the fields that turned so far
  events,         \* WinEvents not delivered yet, oldest first
  moves, changes,
  element,        \* g_focus_event_window, _object and _child
  protected,      \* g_focus_event_protected: 1, 0, or -1 while unknown
  facts,          \* g_facts.protected_field, or "none" when it must be recomputed
  posted,         \* g_focus_query_posted
  messages,       \* WM_APP_FOCUS_QUERY messages in our queue
  attempts,       \* g_focus_query_attempts, counted to 2
  askTimer,       \* ID_TIMER_FOCUS_QUERY is set
  stateTimer,     \* ID_TIMER_STATE_QUERY is set
  since,          \* g_state_query_since: none, short, or over (two seconds ago)
  work,           \* what is inside engine_enter: idle, op or query
  interrupted,    \* g_engine_interrupted or g_reset_pending
  hasContext,     \* g_has_context: a word is being typed
  query           \* the question in flight

vars == <<com, focus, turned, events, moves, changes, element, protected, facts, posted, messages,
          attempts, askTimer, stateTimer, since, work, interrupted, hasContext, query>>
World == <<com, focus, turned, events, moves, changes>>
Timers == <<askTimer, stateTimer, since>>
Engine == <<work, interrupted, hasContext>>
Pending == <<posted, messages>>

\* asked: the element asked; moved: g_focus_serial changed since; reply: what the
\* application answered; late: the two seconds were over (history).
NoQuery == [asked |-> "none", moved |-> FALSE, reply |-> "none", round |-> 0, late |-> FALSE]

Init ==
  /\ com \in BOOLEAN
  /\ focus = "none" /\ turned = {} /\ events = <<>> /\ moves = 0 /\ changes = 0
  /\ element = "none" /\ protected = 0 /\ facts = "none" /\ posted = FALSE /\ messages = 0
  /\ attempts = 0 /\ askTimer = FALSE /\ stateTimer = FALSE /\ since = "none"
  /\ work = "idle" /\ interrupted = FALSE /\ hasContext = FALSE /\ query = NoQuery

IsPassword(f) == f \in Passwords \cup turned

-----------------------------------------------------------------------------
(* The user and the applications. *)

Queue(kind, f) == Len(events) < MaxEvents /\ events' = Append(events, [kind |-> kind, field |-> f])
OursUnchanged == UNCHANGED <<element, protected, facts, Pending, attempts, Timers, Engine, query>>

MoveFocus ==
  /\ moves < MaxMoves /\ moves' = moves + 1
  /\ \E f \in Fields : focus' = f /\ Queue("focus", f)
  /\ OursUnchanged /\ UNCHANGED <<com, turned, changes>>

\* A script turns the field into a password field, or its list opens or closes.
ChangeState ==
  /\ focus \in Fields /\ changes < MaxChanges /\ changes' = changes + 1
  /\ SlowReplies \/ query.reply = "none"
  /\ turned' = turned \/ (focus \in Turning /\ turned' = turned \cup {focus})
  /\ Queue("state", focus) /\ OursUnchanged /\ UNCHANGED <<com, focus, moves>>

\* get_accState: the application answers truly, or that it cannot.  Without COM no
\* application is asked, and every field is an ordinary one.
State == IF IsPassword(query.asked) THEN "password" ELSE "ordinary"
Reply ==
  /\ work = "query" /\ query.reply = "none"
  /\ \E answer \in IF com THEN {"unknown", State} ELSE {"ordinary"} :
       query' = [query EXCEPT !.reply = answer]
  /\ UNCHANGED <<World, element, protected, facts, Pending, attempts, Timers, Engine>>

TwoSecondsPass ==
  /\ since = "short" /\ since' = "over"
  /\ UNCHANGED <<World, element, protected, facts, Pending, attempts, askTimer, stateTimer,
                 Engine, query>>

-----------------------------------------------------------------------------
(* Engine operations: keys and boundaries. *)

StartOp ==
  /\ work = "idle" /\ work' = "op" /\ interrupted' = FALSE
  /\ UNCHANGED <<World, element, protected, facts, Pending, attempts, Timers, hasContext, query>>

\* focus_facts: what every correction asks first, from the cache where it stands.
Fresh == IF protected = 0 THEN "ordinary" ELSE "protected"
Decide ==
  /\ work = "op" /\ facts' = (IF facts = "none" THEN Fresh ELSE facts)
  /\ UNCHANGED <<World, element, protected, Pending, attempts, Timers, Engine, query>>

\* engine_leave, after a key that continued, began or ended a word.
EndOp ==
  /\ work = "op" /\ work' = "idle" /\ interrupted' = FALSE
  /\ hasContext' \in (IF interrupted THEN {FALSE} ELSE BOOLEAN)
  /\ UNCHANGED <<World, element, protected, facts, Pending, attempts, Timers, query>>

\* Our thread pumps messages: not in a query that asks no application.
Pumping == work = "query" => com

\* A key passes through untouched while the query runs.
NestedKey ==
  /\ work = "query" /\ Pumping /\ interrupted' = TRUE
  /\ UNCHANGED <<World, element, protected, facts, Pending, attempts, Timers, work, hasContext, query>>

-----------------------------------------------------------------------------
(* focus_event_proc *)

Ask(f, late) == query' = [NoQuery EXCEPT !.asked = f, !.round = 1, !.late = late]
Post == posted' = TRUE /\ messages' = messages + 1

Deliver(kind) == Pumping /\ events # <<>> /\ Head(events).kind = kind /\ events' = Tail(events)
                 /\ UNCHANGED <<com, focus, turned, moves, changes>>

\* Mutant: a word being typed does not postpone the question.
DeliverStateAtOnce ==
  /\ Deliver("state")
  /\ IF Head(events).field = element /\ protected = 0 /\ ~posted
     THEN Post /\ protected' = -1 /\ facts' = "none"
     ELSE UNCHANGED <<Pending, protected, facts>>
  /\ UNCHANGED <<element, attempts, Timers, Engine, query>>

\* Asked again between words, or by the timer when a word is being typed.
DeliverState ==
  /\ Deliver("state")
  /\ \/ /\ Head(events).field = element /\ protected = 0
        /\ ~hasContext /\ ~posted /\ Post
        /\ protected' = -1 /\ facts' = "none" /\ UNCHANGED Timers
     \/ /\ Head(events).field = element /\ protected = 0
        /\ hasContext /\ stateTimer' = TRUE
        /\ since' = (IF since = "none" THEN "short" ELSE since)
        /\ UNCHANGED <<Pending, protected, facts, askTimer>>
     \/ /\ Head(events).field # element \/ protected # 0 \/ (~hasContext /\ posted)
        /\ UNCHANGED <<Pending, protected, facts, Timers>>
  /\ UNCHANGED <<element, attempts, Engine, query>>

\* A focus event for the element that already has the focus.
DeliverSameFocus ==
  /\ Deliver("focus") /\ Head(events).field = element
  /\ UNCHANGED <<element, protected, facts, Pending, attempts, Timers, Engine, query>>

\* The query starts at once, unless an operation is running: the running query
\* picks the new element up, another operation has a message posted.
DeliverFocus ==
  /\ Deliver("focus") /\ Head(events).field # element
  /\ element' = Head(events).field /\ protected' = -1 /\ attempts' = 0 /\ facts' = "none"
  /\ \/ work = "query" /\ interrupted' = TRUE /\ query' = [query EXCEPT !.moved = TRUE]
        /\ UNCHANGED <<Pending, work, hasContext>>
     \/ work = "op" /\ interrupted' = TRUE /\ UNCHANGED <<work, hasContext, query>>
        /\ ((~posted /\ Post) \/ (posted /\ UNCHANGED Pending))
     \/ work = "idle" /\ hasContext' = FALSE /\ work' = "query" /\ interrupted' = FALSE
        /\ Ask(element', FALSE) /\ UNCHANGED Pending
  /\ UNCHANGED Timers

-----------------------------------------------------------------------------
(* run_focus_query *)

Leave == work' = "idle" /\ interrupted' = FALSE /\ query' = NoQuery /\ facts' = "none"
         /\ hasContext' = (hasContext /\ ~interrupted)

\* Mutant: the answer is taken whether or not the focus moved meanwhile.
StandsAnyway == work = "query" /\ query.reply # "none"

\* The answer is about the element that still has the focus.
Stands == work = "query" /\ query.reply # "none" /\ ~query.moved

Answered ==
  /\ Stands /\ query.reply # "unknown" /\ Leave
  /\ protected' = (IF query.reply = "password" THEN 1 ELSE 0)
  /\ UNCHANGED <<World, element, Pending, attempts, Timers>>

\* Asked once more in 300 ms; a second silence makes it an ordinary field.
Unanswered ==
  /\ Stands /\ query.reply = "unknown" /\ Leave
  /\ attempts' = IF attempts = 0 THEN 1 ELSE 2
  /\ \/ attempts = 0 /\ protected' = -1 /\ askTimer' = TRUE /\ posted' = TRUE
     \/ attempts # 0 /\ protected' = 0 /\ UNCHANGED <<askTimer, posted>>
  /\ UNCHANGED <<World, element, messages, stateTimer, since>>

\* The focus moved: the new element is asked, up to four rounds or 200 ms.
Followed ==
  /\ work = "query" /\ query.reply # "none" /\ query.moved
  /\ \/ /\ query.round < MaxRounds
        /\ query' = [query EXCEPT !.asked = element, !.moved = FALSE, !.reply = "none",
                                  !.round = @ + 1]
        /\ UNCHANGED <<Engine, facts, Pending>>
     \/ /\ Leave
        /\ \/ protected = -1 /\ ~posted /\ Post
           \/ (protected # -1 \/ posted) /\ UNCHANGED Pending
  /\ UNCHANGED <<World, element, protected, attempts, Timers>>

-----------------------------------------------------------------------------
(* The window procedure. *)

AskTimer ==
  /\ Pumping /\ askTimer /\ askTimer' = FALSE /\ messages' = messages + 1
  /\ UNCHANGED <<World, element, protected, facts, posted, attempts, stateTimer, since, Engine, query>>

\* Mutant: a message that comes inside an operation is forgotten.
AskMessageForgotten ==
  /\ Pumping /\ messages > 0 /\ messages' = messages - 1 /\ posted' = FALSE
  /\ IF work = "idle" /\ protected = -1
     THEN work' = "query" /\ interrupted' = FALSE /\ Ask(element, FALSE)
     ELSE UNCHANGED <<work, interrupted, query>>
  /\ UNCHANGED <<World, element, protected, facts, attempts, Timers, hasContext>>

\* WM_APP_FOCUS_QUERY: inside an operation it is tried again in 20 ms.
AskMessage ==
  /\ Pumping /\ messages > 0 /\ messages' = messages - 1
  /\ \/ work # "idle" /\ posted' = TRUE /\ askTimer' = TRUE /\ UNCHANGED <<work, interrupted, query>>
     \/ work = "idle" /\ protected = -1 /\ work' = "query" /\ interrupted' = FALSE
        /\ posted' = FALSE /\ Ask(element, FALSE) /\ UNCHANGED askTimer
     \/ work = "idle" /\ protected # -1 /\ posted' = FALSE
        /\ UNCHANGED <<askTimer, work, interrupted, query>>
  /\ UNCHANGED <<World, element, protected, facts, attempts, stateTimer, since, hasContext>>

\* ID_TIMER_STATE_QUERY: the word has ended, or has lasted two seconds.
StateTimer ==
  /\ stateTimer /\ work = "idle" /\ (~hasContext \/ since = "over")
  /\ stateTimer' = FALSE /\ since' = "none"
  /\ \/ protected = 0 /\ work' = "query" /\ interrupted' = FALSE /\ Ask(element, since = "over")
     \/ protected # 0 /\ UNCHANGED <<work, interrupted, query>>
  /\ UNCHANGED <<World, element, protected, facts, Pending, attempts, askTimer, hasContext>>

-----------------------------------------------------------------------------
Environment == MoveFocus \/ ChangeState \/ StartOp \/ NestedKey
Query == Answered \/ Unanswered \/ Followed
Pump == DeliverState \/ DeliverSameFocus \/ DeliverFocus \/ AskMessage
Next == \/ Environment \/ Reply \/ TwoSecondsPass \/ Decide \/ EndOp \/ Query \/ Pump
        \/ AskTimer \/ StateTimer

\* An operation ends; an application answers, or COM gives up; the message loop
\* gets to posted messages and timers between operations, and not only while an
\* operation happens to pump messages.
Spec == /\ Init /\ [][Next]_vars
        /\ WF_vars(EndOp) /\ WF_vars(Reply) /\ WF_vars(Query) /\ SF_vars(work = "idle" /\ AskTimer)
        /\ SF_vars(work = "idle" /\ AskMessage)

-----------------------------------------------------------------------------
\* Types; a query follows the focus for at most MaxRounds rounds (run_focus_query).
TypeOK ==
  /\ com \in BOOLEAN /\ focus \in Fields \cup {"none"} /\ turned \subseteq Turning
  /\ events \in Seq([kind : {"focus", "state"}, field : Fields]) /\ Len(events) <= MaxEvents
  /\ moves \in 0..MaxMoves /\ changes \in 0..MaxChanges
  /\ element \in Fields \cup {"none"} /\ protected \in {-1, 0, 1}
  /\ facts \in {"none", "ordinary", "protected"}
  /\ posted \in BOOLEAN /\ messages \in Nat /\ attempts \in 0..2
  /\ askTimer \in BOOLEAN /\ stateTimer \in BOOLEAN /\ since \in {"none", "short", "over"}
  /\ work \in {"idle", "op", "query"} /\ interrupted \in BOOLEAN /\ hasContext \in BOOLEAN
  /\ query \in [asked : Fields \cup {"none"}, moved : BOOLEAN,
                reply : {"none", "unknown", "password", "ordinary"},
                round : 0..MaxRounds, late : BOOLEAN]

\* What a correction would be told about the focused field right now.
Ordinary == facts = "ordinary" \/ (facts = "none" /\ protected = 0)

\* PRIVACY.md:43: a password field is never corrected in, not for a moment and
\* whichever element the focus came from, unless it was asked twice and could not
\* be, or nothing can be asked: not by a late answer about another element, nor by a
\* cached fact.
PasswordsAreLeftAlone == element \in Passwords /\ Ordinary => attempts = 2 \/ ~com

\* app.c:3252: a field that counts as unknown is asked and answered, whatever
\* operation the events arrived in (the focus moves MaxMoves times at most).
UnknownIsAnswered == protected = -1 ~> protected # -1

\* app.c:3219, "asked now, it would cost that word its correction": a state change
\* takes no correction from a word being typed, for two seconds.
WordKeepsItsCorrection ==
  [][hasContext /\ element' = element /\ protected = 0 /\ protected' = -1 => query.late]_vars

\* app.c:3216: a field that turns into a password field after it got the focus is
\* asked again, where fields can be asked: once nothing is under way, it does not count as ordinary.
TurnedIsNoticed ==
  /\ com /\ element = focus /\ focus \in turned /\ attempts < 2
  /\ events = <<>> /\ work = "idle" /\ ~posted /\ messages = 0 /\ ~askTimer /\ ~stateTimer
  => protected # 0
=============================================================================
