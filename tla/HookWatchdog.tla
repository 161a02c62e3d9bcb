---------------------------- MODULE HookWatchdog ----------------------------
(***************************************************************************)
(* The watchdog of the two low-level hooks (install_hooks and              *)
(* check_hook_health of app.c).  Windows detaches a hook whose callback    *)
(* was too slow and tells nobody; input that goes to an elevated window is *)
(* hidden from a healthy hook.  Both look alike: the system delivered      *)
(* input (GetLastInputInfo) that the hooks did not see.  A tick count is   *)
(* kept as its age, up to Old, beyond which the code tells no two ages     *)
(* apart; the wrap of the 32-bit count after 49 days is left out.          *)
(***************************************************************************)
EXTENDS Integers

CONSTANTS
    Interval,   \* HOOK_WATCHDOG_INTERVAL_MS, the period of the check
    Limit,      \* HOOK_SILENCE_LIMIT_MS
    Slack,      \* 250 ms: how far the mouse hook may lag a mouse event
    Retry,      \* 300000 ms between attempts of one quiet episode
    Idle        \* bound: the longest time without any input

ASSUME WatchdogAssumption ==
    /\ {Interval, Limit, Slack, Retry, Idle} \subseteq Nat
    /\ Slack <= Limit

VARIABLES
    hook,       \* the handle of each hook and whether Windows still calls it
    input,      \* GetLastInputInfo: age of the newest input, and its device
    age,        \* of g_last_hook_tick, g_last_keyboard_tick, g_last_mouse_tick
    attempt,    \* age of g_hook_reinstalled_at and g_hook_reinstall_wall
    elevated,   \* the foreground window hides its input from the hooks
    word,       \* the engine holds a word, a history or an Undo record
    missed,     \* history: a key the hook missed since that record was begun
    since,      \* time since the last check
    quiet       \* history: time since the last reinstall without an event

vars == <<hook, input, age, attempt, elevated, word, missed, since, quiet>>

Devices == {"keyboard", "mouse"}
HookStates == {"none", "live", "dead"}      \* no handle; called; detached
Old == Retry + Idle + Limit + 1
Ages == 0 .. Old
Never == Old + 1                            \* g_hook_reinstalled_at = 0
Older(a) == IF a < Old THEN a + 1 ELSE a

TypeOK ==
    /\ hook \in [Devices -> HookStates]
    /\ input \in [age : 0 .. Idle, device : Devices]
    /\ age \in [any : Ages, keyboard : Ages, mouse : Ages]
    /\ attempt \in Ages \cup {Never}
    /\ elevated \in BOOLEAN /\ word \in BOOLEAN /\ missed \in BOOLEAN
    /\ since \in 0 .. Interval
    /\ quiet \in 0 .. Retry

-----------------------------------------------------------------------------
\* SetWindowsHookEx succeeds or fails, for each hook by itself.
Set == [Devices -> {"none", "live"}]

\* install_hooks at start-up, before any input was seen.
Init ==
    /\ hook \in Set
    /\ input = [age |-> 0, device |-> "mouse"]
    /\ age = [any |-> 0, keyboard |-> 0, mouse |-> 0]
    /\ attempt = Never
    /\ elevated = FALSE /\ word = FALSE /\ missed = FALSE
    /\ since = 0
    /\ quiet = Retry

\* The clock runs; the timer is served on time and input comes within Idle.
TimePasses ==
    /\ since < Interval /\ input.age < Idle
    /\ since' = since + 1
    /\ input' = [input EXCEPT !.age = @ + 1]
    /\ age' = [t \in DOMAIN age |-> Older(age[t])]
    /\ attempt' = IF attempt = Never THEN Never ELSE Older(attempt)
    /\ quiet' = IF quiet < Retry THEN quiet + 1 ELSE quiet
    /\ UNCHANGED <<hook, elevated, word, missed>>

\* A hook sees an event unless it is missing, detached, or the event goes to
\* an elevated window.
Sees(d) == hook[d] = "live" /\ ~elevated

\* What a hook procedure records of an event it sees.
Saw(d) == age' = [age EXCEPT !.any = 0, ![d] = 0] /\ quiet' = Retry

\* A key: the keyboard hook tracks it, and a key that ends a word may leave
\* nothing tracked.  A key the hook misses changes the text all the same.
Key ==
    /\ input' = [age |-> 0, device |-> "keyboard"]
    /\ \/ /\ Sees("keyboard") /\ Saw("keyboard")
          /\ word' \in BOOLEAN
          /\ missed' = (missed /\ word /\ word')
       \/ /\ ~Sees("keyboard")
          /\ missed' = (missed \/ (word /\ ~elevated))
          /\ UNCHANGED <<age, quiet, word>>
    /\ UNCHANGED <<hook, attempt, elevated, since>>

\* The mouse moves or clicks; a click drops what was tracked.
Mouse ==
    /\ input' = [age |-> 0, device |-> "mouse"]
    /\ \/ /\ Sees("mouse") /\ Saw("mouse")
          /\ word' \in {word, FALSE}
          /\ missed' = (missed /\ word')
       \/ /\ ~Sees("mouse")
          /\ UNCHANGED <<age, quiet, word, missed>>
    /\ UNCHANGED <<hook, attempt, elevated, since>>

\* Windows stops calling a hook whose callback was too slow.
Detach(d) ==
    /\ hook[d] = "live"
    /\ hook' = [hook EXCEPT ![d] = "dead"]
    /\ UNCHANGED <<input, age, attempt, elevated, word, missed, since, quiet>>

\* An elevated window comes to the foreground, or goes.
Elevation ==
    /\ elevated' = ~elevated
    /\ UNCHANGED <<hook, input, age, attempt, word, missed, since, quiet>>

-----------------------------------------------------------------------------
\* check_hook_health, a hook whose installation failed: only that one is tried
\* again, and what the engine tracks is left alone.
Missing == \E d \in Devices : hook[d] = "none"

Revive ==
    /\ Missing
    /\ hook' \in {h \in [Devices -> HookStates] :
                    \A d \in Devices : h[d] # hook[d] => hook[d] = "none" /\ h[d] = "live"}
    /\ IF hook["keyboard"] = "none" /\ hook'["keyboard"] = "live"
         THEN Saw("keyboard")
         ELSE UNCHANGED <<age, quiet>>
    /\ UNCHANGED <<attempt, word, missed>>

\* Mutant: what was tracked before the hooks were lost is kept.
Keeps == UNCHANGED <<word, missed>>
\* install_hooks drops the word, the history and the Undo record.
Drops == word' = FALSE /\ missed' = FALSE

\* The system is well ahead of both hooks, or of the keyboard hook and the
\* newest input was not the mouse's.
Ahead(t) == age[t] - input.age
\* Mutant: the mouse hides a dead keyboard hook.
SilentBoth == Ahead("any") > Limit
Silent ==
    \/ Ahead("any") > Limit
    \/ Ahead("mouse") > Slack /\ Ahead("keyboard") > Limit

\* Mutant: a reinstall counts as an event that was seen.
TriedBefore == attempt # Never /\ age.any > attempt /\ attempt < Retry
\* One attempt per quiet episode, and one more every Retry.
Tried == attempt # Never /\ age.any >= attempt /\ attempt < Retry

\* install_hooks: both hooks are taken out and set anew.
Reinstall ==
    /\ ~Missing /\ Silent /\ ~Tried
    /\ hook' \in Set
    /\ age' = [any |-> 0, keyboard |-> 0, mouse |-> 0]
    /\ attempt' = 0
    /\ Drops
    /\ quiet' = 0

Healthy ==
    /\ ~Missing
    /\ ~Silent \/ Tried
    /\ UNCHANGED <<hook, age, attempt, word, missed, quiet>>

\* ID_TIMER_HOOK_WATCHDOG.
Check ==
    /\ since = Interval
    /\ Revive \/ Reinstall \/ Healthy
    /\ since' = 0
    /\ UNCHANGED <<input, elevated>>

Next == \/ TimePasses \/ Key \/ Mouse \/ Elevation \/ Check
        \/ \E d \in Devices : Detach(d)

\* The clock runs and the timer is served; installing a hook does not fail for
\* ever.
Fairness == /\ WF_vars(TimePasses)
            /\ WF_vars(Check)
            /\ SF_vars(Check /\ Revive /\ ~Missing')
            /\ SF_vars(Check /\ Reinstall /\ ~Missing')

Spec == Init /\ [][Next]_vars /\ Fairness

-----------------------------------------------------------------------------
\* A word, a phrase history or an Undo record the engine holds while the
\* keyboard hook is called again has no key missing in it: a correction would
\* delete the wrong characters.  (While the hook is detached the engine cannot
\* know; what is held then is dropped before the hook works again.)
NoKeyMissing == hook["keyboard"] = "live" => ~missed

\* Reinstalling the hooks does not repeat while nothing is seen, however long
\* the input goes to an elevated window: one attempt, then one every Retry (the
\* five minutes of app.c:4810).
NoChurn == [][Check /\ Reinstall => quiet >= Retry]_vars

\* A detached keyboard hook is found and replaced, and a missing one set, if
\* checks go on finding that a key was the newest input.  The mouse may be used
\* in between: a mouse hook that is called must not hide that the keyboard hook
\* is not (CHANGELOG.md:152).
KeyIsNewest == input.device = "keyboard" /\ Ahead("mouse") > Slack
KeyboardComesBack ==
    ([]<><<Check /\ KeyIsNewest>>_vars /\ <>[]~elevated)
        => (hook["keyboard"] # "live" ~> hook["keyboard"] = "live")
=============================================================================
