---------------------------- MODULE LayoutSwitch ----------------------------
(***************************************************************************)
(* request_layout and what follows it (app.c): the program asks an         *)
(* application for a keyboard layout with a message, sent when its thread  *)
(* answers and posted otherwise, and types the keys of the user itself     *)
(* until the application has switched.  The application takes what was     *)
(* sent first, then what was posted, then keys.                            *)
(***************************************************************************)
EXTENDS Naturals, Sequences, SequencesExt

CONSTANTS
    Late,       \* a request explains keys for this long after the last of them
    Episode,    \* and for this long after it was made
    MaxPosted   \* bound: messages and keys the application has not taken

ASSUME LayoutSwitchAssumption ==
    Late \in Nat \ {0} /\ Episode \in Nat /\ Late <= Episode /\ MaxPosted \in Nat

\* An application honours requests in its focused window, only in its top-level
\* window, only in others of its windows, or in none.
Apps == {"focus", "top", "others", "none"}
Slots == {"A", "B"}
Other(s) == IF s = "A" THEN "B" ELSE "A"

VARIABLES
    app,        \* which window of the application honours a request
    layout,     \* the layout of its thread
    sent,       \* sent requests that timed out
    posted,     \* posted requests: the language, and up to which windows they go
    keys,       \* keys passed to the application, with what they were meant for
    request,    \* g_layout_request_*
    want,       \* history: the language the user writes
    clean,      \* history: nothing else was queued when it was asked for
    wrong       \* history: a key was shown in the wrong alphabet

switchVars == <<app, layout, sent, posted, keys, request, want, clean, wrong>>

NoRequest == [lang |-> "none", from |-> "none", at |-> 0, started |-> 0, translated |-> FALSE]
Requests == [lang : Slots, from : Slots, at : 0 .. Late, started : 0 .. Episode, translated : BOOLEAN]

SwitchTypeOK ==
    /\ app \in Apps /\ layout \in Slots /\ want \in Slots
    /\ sent \in Seq(Slots) /\ posted \in Seq([lang : Slots, to : {"focus", "top", "all"}])
    /\ keys \in Seq([want : Slots, due : BOOLEAN])
    /\ request \in Requests \cup {NoRequest}
    /\ clean \in BOOLEAN /\ wrong \in BOOLEAN

SwitchInit ==
    /\ app \in Apps /\ layout \in Slots
    /\ sent = <<>> /\ posted = <<>> /\ keys = <<>>
    /\ request = NoRequest
    /\ want = layout /\ clean = TRUE /\ wrong = FALSE

-----------------------------------------------------------------------------
\* The queue of the application.

Room == Len(sent) + Len(posted) + Len(keys) < MaxPosted
\* A request goes to the focused window, to the top-level window too, or to all.
Honoured(to) == app = "focus" \/ (app = "top" /\ to \in {"top", "all"}) \/ (app = "others" /\ to = "all")
\* A change of layout may overtake keys that wait: of the word that is rewritten, or
\* of before a switch by hand, which is for Windows to order.
Overtaken == [i \in DOMAIN keys |-> [keys[i] EXCEPT !.due = FALSE]]
Pending == ToSet(sent) \cup {m.lang : m \in ToSet(posted)}

TakeSent ==
    /\ sent # <<>> /\ sent' = Tail(sent)
    /\ layout' = IF Honoured("focus") THEN Head(sent) ELSE layout
    /\ UNCHANGED <<app, posted, keys, request, want, clean, wrong>>

TakePosted ==
    /\ sent = <<>> /\ posted # <<>> /\ posted' = Tail(posted)
    /\ layout' = IF Honoured(Head(posted).to) THEN Head(posted).lang ELSE layout
    /\ UNCHANGED <<app, sent, keys, request, want, clean, wrong>>

TakeKey ==
    /\ sent = <<>> /\ posted = <<>> /\ keys # <<>> /\ keys' = Tail(keys)
    /\ wrong' = (wrong \/ (Head(keys).due /\ Head(keys).want # layout))
    /\ UNCHANGED <<app, layout, sent, posted, request, want, clean>>

-----------------------------------------------------------------------------
\* request_layout, after a correction or its undoing.

Superseding(l) == request.lang = Other(l) /\ request.started < Late

\* The focused window answers in time: it has taken what was sent before, not
\* what was posted.  When it swallows the request every window is asked.
Answered(l) ==
    LET found == IF Honoured("focus") THEN l ELSE layout
    IN  /\ layout' = found /\ sent' = <<>>
        /\ posted' = IF found = l THEN posted ELSE Append(posted, [lang |-> l, to |-> "all"])

\* It does not: the request is posted; with no time left for an answer it is not
\* sent at all.
Posted(l) ==
    /\ posted' = Append(posted, [lang |-> l, to |-> "focus"])
    /\ sent' \in {sent, Append(sent, l)}
    /\ UNCHANGED layout

RequestLayout(l) ==
    /\ Room
    /\ request' = [lang |-> l, from |-> layout, at |-> 0, started |-> 0, translated |-> FALSE]
    /\ want' = l /\ clean' = (Pending \subseteq {l})
    /\ \/ layout = l /\ ~Superseding(l) /\ UNCHANGED <<layout, sent, posted>>
       \/ (layout # l \/ Superseding(l)) /\ (Answered(l) \/ Posted(l))
    /\ keys' = Overtaken
    /\ UNCHANGED <<app, wrong>>

-----------------------------------------------------------------------------
\* Keys.

\* switch_still_pending
SwitchStillPending ==
    /\ request.lang # "none" /\ layout = request.from /\ layout # request.lang
    /\ request.at < Late /\ request.started < Episode

\* repeat_layout_request, to the focused and the top-level window; the layout is
\* not active while keys are translated.
\* Mutant: the request is not repeated.
NotRepeated == posted
Repeated == Append(posted, [lang |-> request.lang, to |-> "top"])

\* deliver_key: the hook types the character of the layout it asked for.
Translate ==
    /\ Room /\ SwitchStillPending
    /\ request' = [request EXCEPT !.at = 0, !.translated = TRUE]
    /\ posted' = Repeated
    /\ wrong' = (wrong \/ (clean /\ want # request.lang))
    /\ UNCHANGED <<app, layout, sent, keys, want, clean>>

\* Or the key goes through: always when no switch is pending, and for a password
\* field or a hook out of time also when one is.
PassKey ==
    /\ Room
    /\ keys' = Append(keys, [want |-> want, due |-> clean /\ app = "focus"])
    /\ UNCHANGED <<app, layout, sent, posted, request, want, clean, wrong>>

\* The user switches by hand; forget_layout_request.
\* Mutant: the request is kept.
SwitchOnly ==
    /\ Room
    /\ posted' = Append(posted, [lang |-> Other(layout), to |-> "all"])
    /\ want' = Other(layout) /\ clean' = TRUE /\ keys' = Overtaken
    /\ UNCHANGED <<app, layout, sent, wrong, request>>
SwitchByHand ==
    /\ Room
    /\ posted' = Append(posted, [lang |-> Other(layout), to |-> "all"])
    /\ want' = Other(layout) /\ clean' = TRUE
    /\ request' = NoRequest /\ keys' = Overtaken
    /\ UNCHANGED <<app, layout, sent, wrong>>

Aged(t, limit) == IF t < limit THEN t + 1 ELSE t
Tick ==
    /\ request.lang # "none"
    /\ request' = [request EXCEPT !.at = Aged(@, Late), !.started = Aged(@, Episode)]
    /\ UNCHANGED <<app, layout, sent, posted, keys, want, clean, wrong>>

SwitchNext ==
    \/ TakeSent \/ TakePosted \/ TakeKey
    \/ \E l \in Slots : RequestLayout(l)
    \/ Translate \/ PassKey \/ SwitchByHand \/ Tick

\* The application goes on taking messages.
SwitchSpec == SwitchInit /\ [][SwitchNext]_switchVars /\ WF_switchVars(TakeSent) /\ WF_switchVars(TakePosted)

-----------------------------------------------------------------------------
\* No key is shown in the wrong alphabet in an application that honours requests,
\* late or not, when no other change of layout was queued when it was asked.
RightAlphabet == ~wrong

\* An application whose focused window honours requests switches in the end; one of
\* which only the top-level window does, once a key was typed for it; and one of which
\* only another window does, when all were asked after the focused one swallowed it.
SwitchArrives ==
    \A l \in Slots :
        /\ request.lang = l /\ clean
        /\ \/ app = "focus"
           \/ app = "top" /\ request.translated
           \/ app = "others" /\ \E m \in ToSet(posted) : m.lang = l /\ m.to = "all"
        ~> layout = l \/ request.lang # l

\* "The new one must be posted behind it" (app.c:2475): the language asked for
\* last is the one the application ends in.
LastRequestWins ==
    \A l \in Slots :
        request.lang = l /\ app = "focus" /\ sent = <<>> /\ posted = <<>> /\ request.started < Late
            => layout = l
=============================================================================
