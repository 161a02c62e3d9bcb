--------------------------- MODULE KeyboardProofs ---------------------------
(* What brings the engine its keys and what gives them their alphabet: the   *)
(* hooks with their watchdog, for any periods, and the layouts that were      *)
(* asked for with the keys behind them, for any periods and any queue.  The   *)
(* two specifications share nothing; each theorem is of one of them.          *)
EXTENDS HookWatchdog, LayoutSwitch, TLAPS

(* Hooks: types, the gap in what was tracked, and quiet episodes.             *)

\* A missing keyboard hook leaves nothing tracked; only a detached one lets keys
\* be missed.  Since the last reinstall of a quiet episode no tick is younger
\* than the attempt, whose age is the length of the episode.
IInv ==
    /\ hook["keyboard"] = "none" => ~word
    /\ hook["keyboard"] # "dead" => ~missed
    /\ quiet < Retry => attempt = quiet /\ age.any = quiet

\* The constants as numbers, and the ages they bound.
LEMMA Bounds ==
    /\ Interval \in Nat /\ Limit \in Nat /\ Slack \in Nat /\ Retry \in Nat /\ Idle \in Nat
    /\ Old \in Nat /\ Retry < Old
BY WatchdogAssumption DEF Old

\* Ages stay ages.
LEMMA AgesGrow == ASSUME NEW a \in Ages PROVE Older(a) \in Ages
BY Bounds DEF Ages, Older

\* The recorded ages after an event a hook saw.
LEMMA SawKeepsAges ==
    ASSUME TypeOK, NEW d \in Devices, Saw(d)
    PROVE  age' \in [any : Ages, keyboard : Ages, mouse : Ages] /\ quiet' \in 0 .. Retry
<1>1. 0 \in Ages /\ Retry \in 0 .. Retry
  BY Bounds DEF Ages
<1>2. d = "keyboard" \/ d = "mouse"
  BY DEF Devices
<1>3. age \in [any : Ages, keyboard : Ages, mouse : Ages]
  BY DEF TypeOK
<1>4. CASE d = "keyboard"
  BY <1>1, <1>3, <1>4 DEF Saw
<1>5. CASE d = "mouse"
  BY <1>1, <1>3, <1>5 DEF Saw
<1> QED BY <1>2, <1>4, <1>5

\* At the start nothing is tracked and no attempt was made.
LEMMA InitHolds == Init => TypeOK /\ IInv
<1> SUFFICES ASSUME Init PROVE TypeOK /\ IInv
  OBVIOUS
<1>1. 0 \in Ages /\ Never \in Ages \cup {Never} /\ Retry \in 0 .. Retry
  BY Bounds DEF Ages
<1>2. TypeOK
  <2>1. hook \in [Devices -> HookStates]
    BY DEF Init, Set, HookStates
  <2>2. input \in [age : 0 .. Idle, device : Devices]
    BY Bounds DEF Init, Devices
  <2>3. age \in [any : Ages, keyboard : Ages, mouse : Ages]
    BY <1>1 DEF Init
  <2>4. elevated \in BOOLEAN /\ word \in BOOLEAN /\ missed \in BOOLEAN
    BY Zenon DEF Init
  <2>5. since \in 0 .. Interval
    BY Bounds DEF Init
  <2> QED BY <1>1, <2>1, <2>2, <2>3, <2>4, <2>5 DEF Init, TypeOK
<1>3. IInv
  BY Bounds DEF Init, IInv
<1> QED BY <1>2, <1>3

\* TypeOK is kept, action by action.
LEMMA StepKeepsTypes == ASSUME TypeOK, [Next]_vars PROVE TypeOK'
<1> USE Bounds
<1>1. CASE TimePasses
  <2>1. age' \in [any : Ages, keyboard : Ages, mouse : Ages]
    BY <1>1, AgesGrow DEF TypeOK, TimePasses
  <2>2. attempt' \in Ages \cup {Never}
    BY <1>1, AgesGrow DEF TypeOK, TimePasses
  <2>3. since' \in 0 .. Interval /\ quiet' \in 0 .. Retry
    BY <1>1 DEF TypeOK, TimePasses
  <2>4. input' \in [age : 0 .. Idle, device : Devices]
    BY <1>1 DEF TypeOK, TimePasses
  <2> QED BY <1>1, <2>1, <2>2, <2>3, <2>4 DEF TypeOK, TimePasses
<1>2. CASE Key
  <2>1. age' \in [any : Ages, keyboard : Ages, mouse : Ages] /\ quiet' \in 0 .. Retry
    BY <1>2, SawKeepsAges DEF Key, TypeOK, Devices
  <2>2. word' \in BOOLEAN
    BY <1>2 DEF Key, TypeOK
  <2>3. missed' \in BOOLEAN
    BY <1>2, Zenon DEF Key, TypeOK
  <2> QED BY <1>2, <2>1, <2>2, <2>3 DEF Key, TypeOK, Devices
<1>3. CASE Mouse
  <2>1. age' \in [any : Ages, keyboard : Ages, mouse : Ages] /\ quiet' \in 0 .. Retry
    BY <1>3, SawKeepsAges DEF Mouse, TypeOK, Devices
  <2>2. word' \in BOOLEAN
    BY <1>3 DEF Mouse, TypeOK
  <2>3. missed' \in BOOLEAN
    BY <1>3, Zenon DEF Mouse, TypeOK
  <2> QED BY <1>3, <2>1, <2>2, <2>3 DEF Mouse, TypeOK, Devices
<1>4. CASE Elevation
  <2>1. elevated' \in BOOLEAN
    BY <1>4, Zenon DEF Elevation, TypeOK
  <2> QED BY <1>4, <2>1 DEF Elevation, TypeOK
<1>5. CASE \E d \in Devices : Detach(d)
  BY <1>5 DEF Detach, TypeOK, HookStates
<1>6. CASE Check
  <2>1. CASE Revive
    <3>1. age' \in [any : Ages, keyboard : Ages, mouse : Ages] /\ quiet' \in 0 .. Retry
      BY <2>1, SawKeepsAges DEF Revive, TypeOK, Devices
    <3> QED BY <1>6, <2>1, <3>1 DEF Check, Revive, TypeOK
  <2>2. CASE Reinstall
    <3>1. 0 \in Ages /\ age' \in [any : Ages, keyboard : Ages, mouse : Ages]
      BY <2>2 DEF Reinstall, Ages
    <3>2. hook' \in [Devices -> HookStates]
      BY <2>2 DEF Reinstall, Set, HookStates
    <3>3. word' \in BOOLEAN /\ missed' \in BOOLEAN /\ elevated' \in BOOLEAN
      BY <1>6, <2>2, Zenon DEF Check, Reinstall, Drops, TypeOK
    <3> QED BY <1>6, <2>2, <3>1, <3>2, <3>3 DEF Check, Reinstall, TypeOK
  <2>3. CASE Healthy
    BY <1>6, <2>3 DEF Check, Healthy, TypeOK
  <2> QED BY <1>6, <2>1, <2>2, <2>3 DEF Check
<1>7. CASE UNCHANGED vars
  BY <1>7 DEF vars, TypeOK
<1> QED BY <1>1, <1>2, <1>3, <1>4, <1>5, <1>6, <1>7 DEF Next

\* The strengthened invariant is kept, action by action.
LEMMA StepKeepsInv == ASSUME TypeOK, IInv, [Next]_vars PROVE IInv'
<1> USE Bounds
<1>1. CASE TimePasses
  <2>1. quiet' < Retry => quiet < Retry /\ quiet' = quiet + 1
    BY <1>1 DEF TimePasses, TypeOK
  <2>2. quiet < Retry => age'.any = Older(quiet) /\ attempt' = Older(quiet) /\ quiet < Old
    BY <1>1 DEF TimePasses, TypeOK, IInv, Never
  <2> QED BY <1>1, <2>1, <2>2 DEF TimePasses, IInv, Older, TypeOK
<1>2. CASE Key
  <2>1. CASE Sees("keyboard") /\ Saw("keyboard")
    <3>1. quiet' = Retry /\ UNCHANGED hook /\ UNCHANGED attempt
      BY <1>2, <2>1 DEF Key, Saw
    <3>2. hook["keyboard"] = "none" => ~word'
      BY <1>2, <2>1, Zenon DEF Key, IInv, Sees
    <3>3. hook["keyboard"] # "dead" => ~missed'
      BY <1>2, <2>1, Zenon DEF Key, IInv, Sees
    <3> QED BY <3>1, <3>2, <3>3 DEF IInv
  <2>2. CASE ~Sees("keyboard")
    <3>1. UNCHANGED <<hook, age, quiet, word, attempt>>
      BY <1>2, <2>2 DEF Key
    <3>2. hook["keyboard"] # "dead" => ~missed'
      BY <1>2, <2>2, Zenon DEF Key, IInv, Sees, TypeOK, HookStates, Devices
    <3> QED BY <3>1, <3>2 DEF IInv
  <2> QED BY <1>2, <2>1, <2>2 DEF Key
<1>3. CASE Mouse
  <2>1. CASE Sees("mouse") /\ Saw("mouse")
    <3>1. quiet' = Retry /\ UNCHANGED hook /\ UNCHANGED attempt
      BY <1>3, <2>1 DEF Mouse, Saw
    <3>2. hook["keyboard"] = "none" => ~word'
      BY <1>3, <2>1, Zenon DEF Mouse, IInv, Sees
    <3>3. hook["keyboard"] # "dead" => ~missed'
      BY <1>3, <2>1, Zenon DEF Mouse, IInv, Sees
    <3> QED BY <3>1, <3>2, <3>3 DEF IInv
  <2>2. CASE ~Sees("mouse")
    <3>1. UNCHANGED <<hook, age, quiet, word, attempt>>
      BY <1>3, <2>2 DEF Mouse
    <3>2. hook["keyboard"] # "dead" => ~missed'
      BY <1>3, <2>2, Zenon DEF Mouse, IInv, Sees, TypeOK, HookStates, Devices
    <3> QED BY <3>1, <3>2 DEF IInv
  <2> QED BY <1>3, <2>1, <2>2 DEF Mouse
<1>4. CASE Elevation
  BY <1>4 DEF Elevation, IInv
<1>5. CASE \E d \in Devices : Detach(d)
  BY <1>5 DEF Detach, IInv, TypeOK, Devices
<1>6. CASE Check
  <2>1. CASE Revive
    <3>1. hook'["keyboard"] # hook["keyboard"] => hook["keyboard"] = "none"
      BY <2>1 DEF Revive, Devices
    <3> QED BY <2>1, <3>1 DEF Revive, IInv, Saw, TypeOK
  <2>2. CASE Reinstall
    BY <2>2 DEF Reinstall, Drops, IInv
  <2>3. CASE Healthy
    BY <2>3 DEF Healthy, IInv
  <2> QED BY <1>6, <2>1, <2>2, <2>3 DEF Check
<1>7. CASE UNCHANGED vars
  BY <1>7 DEF vars, IInv
<1> QED BY <1>1, <1>2, <1>3, <1>4, <1>5, <1>6, <1>7 DEF Next

\* A reinstall in a quiet episode comes when the attempt is old enough.
LEMMA ReinstallIsNew == ASSUME TypeOK, IInv, Reinstall PROVE quiet >= Retry
<1>1. SUFFICES ASSUME quiet < Retry PROVE FALSE
  BY Bounds DEF TypeOK
<1> QED BY <1>1, Bounds DEF Reinstall, Tried, IInv, Never, TypeOK

\* Ticks, handles and the episode keep their types whatever the periods are.
THEOREM WatchdogTypes == Spec => []TypeOK
BY InitHolds, StepKeepsTypes, PTL DEF Spec

\* Both facts the other theorems rest on hold always.
LEMMA Always == Spec => [](TypeOK /\ IInv)
BY InitHolds, StepKeepsTypes, StepKeepsInv, PTL DEF Spec

\* While the keyboard hook works, no word, history or Undo record has a key
\* missing, whatever the periods of check_hook_health are.
THEOREM NoGapInWord == Spec => []NoKeyMissing
<1>1. IInv => NoKeyMissing
  BY DEF IInv, NoKeyMissing
<1> QED BY <1>1, Always, PTL

\* However long the input is hidden, reinstalls are Retry apart.
THEOREM ReinstallsAreApart == Spec => NoChurn
<1>1. TypeOK /\ IInv => (Check /\ Reinstall => quiet >= Retry)
  BY ReinstallIsNew
<1> QED BY <1>1, Always, PTL DEF NoChurn, Spec

-----------------------------------------------------------------------------
(* Layouts.                                                                   *)

\* The layout of the application once it has taken what it was sent and what was
\* posted to it.
Final ==
    IF posted # <<>> THEN posted[Len(posted)].lang
    ELSE IF sent # <<>> THEN sent[Len(sent)]
    ELSE layout

\* A request is for the language the user writes.  When nothing else was queued as
\* it was asked for, an application that honours requests ends in that language,
\* and the keys that wait behind it were meant for it.
SwitchInv ==
    /\ request.lang # "none" => request.lang = want
    /\ clean /\ app = "focus" => Final = want
    /\ \A i \in DOMAIN keys : keys[i].due => keys[i].want = want /\ clean /\ app = "focus"
    /\ ~wrong

-----------------------------------------------------------------------------
(* Queues.                                                                  *)

\* Truth values.
LEMMA Truths == TRUE \in BOOLEAN /\ FALSE \in BOOLEAN
BY Zenon

\* What is at the end of a queue after something was appended, and after the head
\* was taken.
LEMMA Ends ==
    ASSUME NEW S, NEW s \in Seq(S), NEW e \in S
    PROVE  /\ Append(s, e) \in Seq(S) /\ Append(s, e) # <<>>
           /\ Append(s, e)[Len(Append(s, e))] = e
           /\ \A i \in DOMAIN Append(s, e) : (i \in DOMAIN s /\ Append(s, e)[i] = s[i]) \/ Append(s, e)[i] = e
OBVIOUS

\* The rest of a queue.
LEMMA Rests ==
    ASSUME NEW S, NEW s \in Seq(S), s # <<>>
    PROVE  /\ Tail(s) \in Seq(S) /\ Head(s) \in S
           /\ Tail(s) # <<>> => Tail(s)[Len(Tail(s))] = s[Len(s)]
           /\ Tail(s) = <<>> => Head(s) = s[Len(s)]
           /\ Head(s) = s[1] /\ 1 \in DOMAIN s /\ Len(s) \in DOMAIN s
           /\ \A i \in DOMAIN Tail(s) : i + 1 \in DOMAIN s /\ Tail(s)[i] = s[i + 1]
<1>1. Len(s) \in Nat /\ Len(s) > 0 /\ DOMAIN s = 1 .. Len(s)
  OBVIOUS
<1>2. /\ Tail(s) \in Seq(S) /\ Head(s) \in S /\ Head(s) = s[1]
      /\ Len(Tail(s)) = Len(s) - 1
      /\ \A i \in 1 .. Len(s) - 1 : Tail(s)[i] = s[i + 1]
  OBVIOUS
<1>3. Tail(s) # <<>> => Len(s) - 1 \in 1 .. Len(s) - 1
  BY <1>1, <1>2
<1>4. Tail(s) = <<>> => Len(s) = 1
  <2>0. Len(<<>>) = 0
    OBVIOUS
  <2>1. Tail(s) = <<>> => Len(Tail(s)) = 0
    BY <2>0, Zenon
  <2> QED BY <1>1, <1>2, <2>1
<1> QED BY <1>1, <1>2, <1>3, <1>4

\* Elements of a queue are in its set.
LEMMA Elements == ASSUME NEW S, NEW s \in Seq(S), s # <<>> PROVE s[Len(s)] \in ToSet(s)
<1>1. Len(s) \in DOMAIN s
  OBVIOUS
<1> QED BY <1>1 DEF ToSet

\* The two layouts.
LEMMA Pair ==
    /\ "A" \in Slots /\ "B" \in Slots
    /\ \A s \in Slots : Other(s) \in Slots /\ Other(s) # s
    /\ \A s, t \in Slots : t # s => t = Other(s)
    /\ "none" \notin Slots
BY DEF Slots, Other

-----------------------------------------------------------------------------
(* Types.                                                                   *)

Posts == [lang : Slots, to : {"focus", "top", "all"}]
Waiting == [want : Slots, due : BOOLEAN]

\* At the start nothing was asked for.
LEMMA TypeInit == SwitchInit => SwitchTypeOK
<1> SUFFICES ASSUME SwitchInit PROVE SwitchTypeOK
  OBVIOUS
<1>1. sent \in Seq(Slots) /\ posted \in Seq([lang : Slots, to : {"focus", "top", "all"}])
      /\ keys \in Seq([want : Slots, due : BOOLEAN])
  BY DEF SwitchInit
<1>2. clean \in BOOLEAN /\ wrong \in BOOLEAN
  BY Truths DEF SwitchInit
<1> QED BY <1>1, <1>2 DEF SwitchInit, SwitchTypeOK

\* Keys that wait and that a change of layout may overtake.
LEMMA OvertakenKeys ==
    ASSUME SwitchTypeOK
    PROVE  /\ Overtaken \in Seq(Waiting) /\ DOMAIN Overtaken = DOMAIN keys
           /\ \A i \in DOMAIN Overtaken : ~Overtaken[i].due
<1>1. keys \in Seq(Waiting)
  BY DEF SwitchTypeOK, Waiting
<1>2. \A i \in DOMAIN keys : keys[i] \in Waiting
  BY <1>1
<1>3. \A i \in DOMAIN keys : [keys[i] EXCEPT !.due = FALSE] \in Waiting
                             /\ ~[keys[i] EXCEPT !.due = FALSE].due
  BY <1>2, Truths DEF Waiting
<1>4. Len(keys) \in Nat /\ DOMAIN keys = 1 .. Len(keys)
  BY <1>1
<1>5. Overtaken \in [1 .. Len(keys) -> Waiting]
  BY <1>3, <1>4 DEF Overtaken
<1>6. Overtaken \in Seq(Waiting)
  BY <1>4, <1>5
<1> QED BY <1>3, <1>6 DEF Overtaken

\* Each step keeps the types.
LEMMA TypeStep == SwitchTypeOK /\ [SwitchNext]_switchVars => SwitchTypeOK'
<1> SUFFICES ASSUME SwitchTypeOK, [SwitchNext]_switchVars PROVE SwitchTypeOK'
  OBVIOUS
<1>0. /\ app \in Apps /\ layout \in Slots /\ want \in Slots
      /\ sent \in Seq(Slots) /\ posted \in Seq(Posts) /\ keys \in Seq(Waiting)
      /\ request \in Requests \cup {NoRequest}
      /\ clean \in BOOLEAN /\ wrong \in BOOLEAN
      /\ Late \in Nat \ {0} /\ Episode \in Nat
  BY LayoutSwitchAssumption DEF SwitchTypeOK, Posts, Waiting
<1>a. ASSUME app' = app, layout' \in Slots, want' \in Slots, sent' \in Seq(Slots), posted' \in Seq(Posts),
             keys' \in Seq(Waiting), request' \in Requests \cup {NoRequest},
             clean' \in BOOLEAN, wrong' \in BOOLEAN
      PROVE  SwitchTypeOK'
  BY <1>0, <1>a DEF SwitchTypeOK, Posts, Waiting
<1>l. request.lang # "none" => request \in Requests
  BY <1>0 DEF NoRequest
<1>1. CASE TakeSent
  <2>1. sent' \in Seq(Slots) /\ layout' \in Slots
    BY <1>0, <1>1, Rests DEF TakeSent
  <2> QED BY <1>0, <1>1, <1>a, <2>1 DEF TakeSent
<1>2. CASE TakePosted
  <2>1. posted' \in Seq(Posts) /\ Head(posted) \in Posts
    BY <1>0, <1>2, Rests DEF TakePosted
  <2>2. layout' \in Slots
    BY <1>0, <1>2, <2>1 DEF TakePosted, Posts
  <2> QED BY <1>0, <1>2, <1>a, <2>1, <2>2 DEF TakePosted
<1>3. CASE TakeKey
  <2>1. keys' \in Seq(Waiting)
    BY <1>0, <1>3, Rests DEF TakeKey
  <2>2. wrong' \in BOOLEAN
    BY <1>3 DEF TakeKey
  <2> QED BY <1>0, <1>3, <1>a, <2>1, <2>2 DEF TakeKey
<1>4. ASSUME NEW l \in Slots, RequestLayout(l) PROVE SwitchTypeOK'
  <2>1. request' \in Requests
    <3>1. 0 \in 0 .. Late /\ 0 \in 0 .. Episode
      BY <1>0
    <3> QED BY <1>0, <1>4, <3>1, Truths DEF RequestLayout, Requests
  <2>2. clean' \in BOOLEAN /\ want' \in Slots /\ wrong' = wrong /\ app' = app
    BY <1>4 DEF RequestLayout
  <2>3. keys' \in Seq(Waiting)
    BY <1>4, OvertakenKeys DEF RequestLayout
  <2>4. layout' \in Slots /\ sent' \in Seq(Slots) /\ posted' \in Seq(Posts)
    <3>0. [lang |-> l, to |-> "all"] \in Posts /\ [lang |-> l, to |-> "focus"] \in Posts
      BY Truths DEF Posts
    <3>1. Append(posted, [lang |-> l, to |-> "all"]) \in Seq(Posts)
          /\ Append(posted, [lang |-> l, to |-> "focus"]) \in Seq(Posts)
          /\ Append(sent, l) \in Seq(Slots) /\ <<>> \in Seq(Slots)
      BY <1>0, <3>0, Ends
    <3>2. CASE UNCHANGED <<layout, sent, posted>>
      BY <1>0, <3>2
    <3>3. CASE Answered(l)
      BY <1>0, <3>1, <3>3 DEF Answered
    <3>4. CASE Posted(l)
      BY <1>0, <3>1, <3>4 DEF Posted
    <3> QED BY <1>4, <3>2, <3>3, <3>4 DEF RequestLayout
  <2> QED BY <1>0, <1>a, <2>1, <2>2, <2>3, <2>4
<1>5. CASE Translate
  <2>0. request \in Requests
    BY <1>5, <1>l DEF Translate, SwitchStillPending
  <2>1. request' \in Requests
    <3>1. 0 \in 0 .. Late
      BY <1>0
    <3> QED BY <1>5, <2>0, <3>1, Truths DEF Translate, Requests
  <2>2. posted' \in Seq(Posts)
    <3>1. [lang |-> request.lang, to |-> "top"] \in Posts
      BY <2>0, Truths DEF Posts, Requests
    <3> QED BY <1>0, <1>5, <3>1, Ends DEF Translate, Repeated
  <2>3. wrong' \in BOOLEAN
    BY <1>5 DEF Translate
  <2> QED BY <1>0, <1>5, <1>a, <2>1, <2>2, <2>3 DEF Translate
<1>6. CASE PassKey
  <2>1. (clean /\ app = "focus") \in BOOLEAN
    OBVIOUS
  <2>2. [want |-> want, due |-> clean /\ app = "focus"] \in Waiting
    BY <1>0, <2>1 DEF Waiting
  <2>3. keys' \in Seq(Waiting)
    BY <1>0, <1>6, <2>2, Ends DEF PassKey
  <2> QED BY <1>0, <1>6, <1>a, <2>3 DEF PassKey
<1>7. CASE SwitchByHand
  <2>1. [lang |-> Other(layout), to |-> "all"] \in Posts /\ Other(layout) \in Slots
    BY <1>0, Pair, Truths DEF Posts
  <2>2. posted' \in Seq(Posts)
    BY <1>0, <1>7, <2>1, Ends DEF SwitchByHand
  <2>3. keys' \in Seq(Waiting) /\ clean' \in BOOLEAN
    BY <1>7, OvertakenKeys, Truths DEF SwitchByHand
  <2> QED BY <1>0, <1>7, <1>a, <2>1, <2>2, <2>3 DEF SwitchByHand
<1>8. CASE Tick
  <2>0. request \in Requests
    BY <1>8, <1>l DEF Tick
  <2>1. Aged(request.at, Late) \in 0 .. Late /\ Aged(request.started, Episode) \in 0 .. Episode
    BY <1>0, <2>0 DEF Requests, Aged
  <2>2. request' \in Requests
    BY <1>8, <2>0, <2>1 DEF Tick, Requests
  <2> QED BY <1>0, <1>8, <1>a, <2>2 DEF Tick
<1>9. CASE UNCHANGED switchVars
  BY <1>0, <1>9, <1>a DEF switchVars
<1> QED BY <1>1, <1>2, <1>3, <1>4, <1>5, <1>6, <1>7, <1>8, <1>9 DEF SwitchNext

\* The types hold.
THEOREM SwitchTypes == SwitchSpec => []SwitchTypeOK
<1>1. SwitchInit => SwitchTypeOK
  BY TypeInit
<1>2. SwitchTypeOK /\ [SwitchNext]_switchVars => SwitchTypeOK'
  BY TypeStep
<1> QED BY <1>1, <1>2, PTL DEF SwitchSpec

-----------------------------------------------------------------------------
(* The right alphabet.                                                      *)

\* When all that waits is for one language, and so is the layout, the application
\* ends in it.
LEMMA PendingEnds ==
    ASSUME SwitchTypeOK, NEW l, Pending \subseteq {l}
    PROVE  /\ posted # <<>> => posted[Len(posted)].lang = l
           /\ sent # <<>> => sent[Len(sent)] = l
<1>0. sent \in Seq(Slots) /\ posted \in Seq(Posts)
  BY DEF SwitchTypeOK, Posts
<1>1. ASSUME posted # <<>> PROVE posted[Len(posted)].lang = l
  <2>1. posted[Len(posted)] \in ToSet(posted)
    BY <1>0, <1>1, Elements
  <2>2. posted[Len(posted)].lang \in {m.lang : m \in ToSet(posted)}
    BY <2>1
  <2> QED BY <2>2 DEF Pending
<1>2. ASSUME sent # <<>> PROVE sent[Len(sent)] = l
  <2>1. sent[Len(sent)] \in ToSet(sent)
    BY <1>0, <1>2, Elements
  <2> QED BY <2>1 DEF Pending
<1> QED BY <1>1, <1>2

\* At the start the application has the layout of the user.
LEMMA RightInit == SwitchInit => SwitchInv
BY DEF SwitchInit, SwitchInv, NoRequest, Final

\* Requests, what is posted by hand and what the application takes keep the
\* language it ends in the one the user writes.
LEMMA RightStep == SwitchTypeOK /\ SwitchInv /\ [SwitchNext]_switchVars => SwitchInv'
<1> SUFFICES ASSUME SwitchTypeOK, SwitchInv, [SwitchNext]_switchVars PROVE SwitchInv'
  OBVIOUS
<1>0. /\ layout \in Slots /\ want \in Slots
      /\ sent \in Seq(Slots) /\ posted \in Seq(Posts) /\ keys \in Seq(Waiting)
      /\ clean \in BOOLEAN /\ wrong \in BOOLEAN
  BY DEF SwitchTypeOK, Posts, Waiting
<1>i. /\ request.lang # "none" => request.lang = want
      /\ clean /\ app = "focus" => Final = want
      /\ \A i \in DOMAIN keys : keys[i].due => keys[i].want = want /\ clean /\ app = "focus"
      /\ ~wrong
  BY DEF SwitchInv
<1>a. ASSUME UNCHANGED <<app, want, clean, request, keys, wrong>>, app = "focus" => Final' = Final
      PROVE  SwitchInv'
  BY <1>a, <1>i DEF SwitchInv
<1>1. CASE TakeSent
  <2>1. /\ sent # <<>> /\ sent' = Tail(sent) /\ posted' = posted
        /\ UNCHANGED <<app, keys, request, want, clean, wrong>>
        /\ app = "focus" => layout' = Head(sent)
    BY <1>1 DEF TakeSent, Honoured
  <2>2. /\ sent' # <<>> => sent'[Len(sent')] = sent[Len(sent)]
        /\ sent' = <<>> => Head(sent) = sent[Len(sent)]
    BY <1>0, <2>1, Rests
  <2>3. app = "focus" => Final' = Final
    BY <2>1, <2>2 DEF Final
  <2> QED BY <1>a, <2>1, <2>3
<1>2. CASE TakePosted
  <2>1. /\ posted # <<>> /\ posted' = Tail(posted) /\ sent = <<>> /\ sent' = sent
        /\ UNCHANGED <<app, keys, request, want, clean, wrong>>
        /\ app = "focus" => layout' = Head(posted).lang
    BY <1>2 DEF TakePosted, Honoured
  <2>2. /\ posted' # <<>> => posted'[Len(posted')] = posted[Len(posted)]
        /\ posted' = <<>> => Head(posted) = posted[Len(posted)]
    BY <1>0, <2>1, Rests
  <2>3. app = "focus" => Final' = Final
    BY <2>1, <2>2 DEF Final
  <2> QED BY <1>a, <2>1, <2>3
<1>3. CASE TakeKey
  <2>1. /\ sent = <<>> /\ posted = <<>> /\ keys # <<>> /\ keys' = Tail(keys)
        /\ wrong' = (wrong \/ (Head(keys).due /\ Head(keys).want # layout))
        /\ UNCHANGED <<app, layout, sent, posted, request, want, clean>>
    BY <1>3 DEF TakeKey
  <2>2. /\ Head(keys) = keys[1] /\ 1 \in DOMAIN keys
        /\ \A i \in DOMAIN keys' : i + 1 \in DOMAIN keys /\ keys'[i] = keys[i + 1]
    BY <1>0, <2>1, Rests
  <2>3. Final = layout /\ Final' = layout
    BY <2>1 DEF Final
  <2>4. ~(Head(keys).due /\ Head(keys).want # layout)
    BY <1>i, <2>2, <2>3
  <2>5. ~wrong'
    BY <1>i, <2>1, <2>4
  <2>6. \A i \in DOMAIN keys' : keys'[i].due => keys'[i].want = want' /\ clean' /\ app' = "focus"
    BY <1>i, <2>1, <2>2
  <2>7. (clean' /\ app' = "focus" => Final' = want') /\ (request'.lang # "none" => request'.lang = want')
    BY <1>i, <2>1, <2>3
  <2> QED BY <2>5, <2>6, <2>7 DEF SwitchInv
<1>4. ASSUME NEW l \in Slots, RequestLayout(l) PROVE SwitchInv'
  <2>1. /\ request'.lang = l /\ want' = l /\ clean' = (Pending \subseteq {l})
        /\ keys' = Overtaken /\ app' = app /\ wrong' = wrong
    BY <1>4 DEF RequestLayout
  <2>2. \A i \in DOMAIN keys' : ~keys'[i].due
    BY <2>1, OvertakenKeys
  <2>3. ASSUME clean', app = "focus" PROVE Final' = l
    <3>1. Pending \subseteq {l}
      BY <2>1, <2>3
    <3>2. /\ posted # <<>> => posted[Len(posted)].lang = l
          /\ sent # <<>> => sent[Len(sent)] = l
      BY <3>1, PendingEnds
    <3>3. CASE layout = l /\ UNCHANGED <<layout, sent, posted>>
      BY <3>2, <3>3 DEF Final
    <3>4. CASE Answered(l)
      <4>1. layout' = l /\ sent' = <<>> /\ posted' = posted
        BY <2>3, <3>4 DEF Answered, Honoured
      <4> QED BY <3>2, <4>1 DEF Final
    <3>5. CASE Posted(l)
      <4>1. posted' = Append(posted, [lang |-> l, to |-> "focus"])
        BY <3>5 DEF Posted
      <4>2. [lang |-> l, to |-> "focus"] \in Posts
        BY Truths DEF Posts
      <4>3. posted' # <<>> /\ posted'[Len(posted')] = [lang |-> l, to |-> "focus"]
        BY <1>0, <4>1, <4>2, Ends
      <4> QED BY <4>3 DEF Final
    <3> QED BY <1>4, <3>3, <3>4, <3>5 DEF RequestLayout
  <2> QED BY <1>i, <2>1, <2>2, <2>3 DEF SwitchInv
<1>5. CASE Translate
  <2>1. /\ request.lang # "none" /\ posted' = Append(posted, [lang |-> request.lang, to |-> "top"])
        /\ request' = [request EXCEPT !.at = 0, !.translated = TRUE]
        /\ wrong' = (wrong \/ (clean /\ want # request.lang))
        /\ UNCHANGED <<app, keys, want, clean>>
    BY <1>5 DEF Translate, SwitchStillPending, Repeated
  <2>2. request.lang = want
    BY <1>i, <2>1
  <2>3. request'.lang = want /\ ~wrong'
    <3>1. request \in Requests
      BY <2>1 DEF SwitchTypeOK, NoRequest
    <3>2. request'.lang = request.lang
      BY <2>1, <3>1 DEF Requests
    <3> QED BY <1>i, <2>1, <2>2, <3>2
  <2>4. [lang |-> request.lang, to |-> "top"] \in Posts
    BY <1>0, <2>2, Truths DEF Posts
  <2>5. posted' # <<>> /\ posted'[Len(posted')] = [lang |-> request.lang, to |-> "top"]
    BY <1>0, <2>1, <2>4, Ends
  <2>6. Final' = want
    BY <2>2, <2>5 DEF Final
  <2> QED BY <1>i, <2>1, <2>3, <2>6 DEF SwitchInv
<1>6. CASE PassKey
  <2>1. /\ keys' = Append(keys, [want |-> want, due |-> clean /\ app = "focus"])
        /\ UNCHANGED <<app, layout, sent, posted, request, want, clean, wrong>>
    BY <1>6 DEF PassKey
  <2>2. [want |-> want, due |-> clean /\ app = "focus"] \in Waiting
    <3>1. (clean /\ app = "focus") \in BOOLEAN
      OBVIOUS
    <3> QED BY <1>0, <3>1 DEF Waiting
  <2>3. \A i \in DOMAIN keys' :
          (i \in DOMAIN keys /\ keys'[i] = keys[i]) \/ keys'[i] = [want |-> want, due |-> clean /\ app = "focus"]
    BY <1>0, <2>1, <2>2, Ends
  <2>4. ASSUME NEW i \in DOMAIN keys', keys'[i].due
        PROVE  keys'[i].want = want' /\ clean' /\ app' = "focus"
    <3>1. CASE i \in DOMAIN keys /\ keys'[i] = keys[i]
      BY <1>i, <2>1, <2>4, <3>1
    <3>2. CASE keys'[i] = [want |-> want, due |-> clean /\ app = "focus"]
      <4>1. keys'[i].due = (clean /\ app = "focus") /\ keys'[i].want = want
        BY <3>2
      <4>2. clean /\ app = "focus"
        BY <2>4, <4>1, Zenon
      <4> QED BY <2>1, <4>1, <4>2
    <3> QED BY <2>3, <3>1, <3>2
  <2>5. Final' = Final
    BY <2>1 DEF Final
  <2> QED BY <1>i, <2>1, <2>4, <2>5 DEF SwitchInv
<1>7. CASE SwitchByHand
  <2>1. /\ posted' = Append(posted, [lang |-> Other(layout), to |-> "all"])
        /\ want' = Other(layout) /\ request' = NoRequest /\ keys' = Overtaken
        /\ wrong' = wrong
    BY <1>7 DEF SwitchByHand
  <2>2. [lang |-> Other(layout), to |-> "all"] \in Posts
    BY <1>0, Pair, Truths DEF Posts
  <2>3. posted' # <<>> /\ posted'[Len(posted')] = [lang |-> Other(layout), to |-> "all"]
    BY <1>0, <2>1, <2>2, Ends
  <2>4. Final' = want'
    BY <2>1, <2>3 DEF Final
  <2>5. \A i \in DOMAIN keys' : ~keys'[i].due
    BY <2>1, OvertakenKeys
  <2> QED BY <1>i, <2>1, <2>4, <2>5 DEF SwitchInv, NoRequest
<1>8. CASE Tick
  <2>1. /\ request.lang # "none" /\ UNCHANGED <<app, layout, sent, posted, keys, want, clean, wrong>>
        /\ request' = [request EXCEPT !.at = Aged(@, Late), !.started = Aged(@, Episode)]
    BY <1>8 DEF Tick
  <2>2. request'.lang = request.lang
    <3>1. request \in Requests
      BY <2>1 DEF SwitchTypeOK, NoRequest
    <3> QED BY <2>1, <3>1 DEF Requests
  <2>3. Final' = Final
    BY <2>1 DEF Final
  <2> QED BY <1>i, <2>1, <2>2, <2>3 DEF SwitchInv
<1>9. CASE UNCHANGED switchVars
  BY <1>9, <1>a DEF switchVars, Final
<1> QED BY <1>1, <1>2, <1>3, <1>4, <1>5, <1>6, <1>7, <1>8, <1>9 DEF SwitchNext

\* No key is shown in the wrong alphabet in an application that honours requests,
\* however late it takes them, when nothing else was queued as the layout was
\* asked for.
THEOREM AlphabetIsRight == SwitchSpec => []RightAlphabet
<1>1. SwitchInit => SwitchInv
  BY RightInit
<1>2. SwitchTypeOK /\ SwitchInv /\ [SwitchNext]_switchVars => SwitchInv'
  BY RightStep
<1>3. SwitchInv => RightAlphabet
  BY DEF SwitchInv, RightAlphabet
<1> QED BY <1>1, <1>2, <1>3, SwitchTypes, PTL DEF SwitchSpec
=============================================================================
