----------------------------- MODULE MemoryFile -----------------------------
(***************************************************************************)
(* writing-memory.txt (read_text_file, write_text_file and memory_* of     *)
(* app.c): what was learned reaches the disk through a temporary file, at  *)
(* most once a minute; the user edits, deletes and forgets the file, other *)
(* programs lock it, saves fail and the program crashes between any two    *)
(* system calls of a save.                                                 *)
(***************************************************************************)
EXTENDS Naturals, FiniteSets

CONSTANTS
    Words,
    PartialReads,   \* ReadFile may fail on a file that could be opened
    MaxEdits        \* bound: edits by the user

ASSUME MemoryFileAssumption == PartialReads \in BOOLEAN /\ MaxEdits \in Nat

VARIABLES
    on,         \* g_settings.learn_writing
    active,     \* g_memory_active
    readOnly,   \* g_memory_read_only
    memory,     \* g_memory: how often a word was typed; two is enough to save it
    dirty,      \* g_memory.dirty
    known,      \* g_memory_file_time is the time of the file as it is now
    failed,     \* g_memory_save_failed
    file,       \* writing-memory.txt
    tmp,        \* writing-memory.txt.tmp
    lock,       \* what another program does to the file
    pc,         \* where in memory_save the program is, or that it is down
    after,      \* what follows the save
    edit,       \* history: an edit by the user that was not read yet
    forgotten,  \* history: the words the user was told are forgotten
    edits

process == <<on, active, readOnly, memory, dirty, known, failed, pc, after>>
disk == <<file, tmp, lock>>
history == <<edit, forgotten, edits>>
vars == <<process, disk, history>>

NoFile == [there |-> FALSE, text |-> {}, whole |-> TRUE, big |-> FALSE]
Blank == [w \in Words |-> 0]
Counts == [Words -> 0 .. 2]
Locks == {"free", "held"} \cup IF PartialReads THEN {"range"} ELSE {}
Serialized == {w \in Words : memory[w] = 2}         \* typed at least twice
Parsed(text) == [w \in Words |-> IF w \in text THEN 2 ELSE 0]

TypeOK ==
    /\ {on, active, readOnly, dirty, known, failed} \subseteq BOOLEAN
    /\ memory \in Counts
    /\ file \in [there : BOOLEAN, text : SUBSET Words, whole : BOOLEAN, big : BOOLEAN]
    /\ tmp \in {"none", "part", "whole"}
    /\ lock \in Locks
    /\ pc \in {"down", "idle", "write", "flush", "move", "time", "end"}
    /\ after \in {"nothing", "off", "exit"}
    /\ edit \in {"none", "quiet", "racing"}
    /\ forgotten \subseteq Words /\ edits \in 0 .. MaxEdits

Init ==
    /\ on \in BOOLEAN
    /\ active = FALSE /\ readOnly = FALSE /\ memory = Blank /\ dirty = FALSE
    /\ known = FALSE /\ failed = FALSE
    /\ file = NoFile /\ tmp = "none" /\ lock = "free"
    /\ pc = "down" /\ after = "nothing"
    /\ edit = "none" /\ forgotten = {} /\ edits = 0

-----------------------------------------------------------------------------
\* The user and other programs.

\* The user saves the file in an editor; it may be longer than 4 MB.
Edit ==
    /\ edits < MaxEdits /\ lock = "free"
    /\ \E text \in SUBSET Words, big \in BOOLEAN :
         /\ file' = [there |-> TRUE, text |-> text, whole |-> TRUE, big |-> big]
         /\ forgotten' = forgotten \ text
    /\ known' = FALSE
    /\ edit' = IF pc \in {"idle", "down"} THEN "quiet" ELSE "racing"
    /\ edits' = edits + 1
    /\ UNCHANGED <<on, active, readOnly, memory, dirty, failed, pc, after, tmp, lock>>

\* The user deletes the file.
Delete ==
    /\ file.there /\ lock = "free"
    /\ file' = NoFile /\ known' = FALSE /\ edit' = "none"
    /\ UNCHANGED <<on, active, readOnly, memory, dirty, failed, pc, after, tmp, lock>>
    /\ UNCHANGED <<forgotten, edits>>

\* Another program opens the file for itself, or locks a range of it.
Lock ==
    /\ lock = "free" /\ file.there
    /\ lock' \in Locks \ {"free"}
    /\ UNCHANGED <<process, file, tmp, history>>
Unlock ==
    /\ lock # "free" /\ lock' = "free"
    /\ UNCHANGED <<process, file, tmp, history>>

-----------------------------------------------------------------------------
\* memory_load with the setting on; unsaved is g_memory.dirty.  A file that is there and cannot be read
\* stays what it is, and what was learned stays in memory.
Readable == file.there /\ lock # "held" /\ ~file.big
ReadText == IF lock = "range" THEN {} ELSE file.text

\* Mutant: a file that could not be read counts as an empty one.
LoadEmpty(unsaved) ==
    /\ memory' = IF Readable THEN Parsed(ReadText) ELSE Blank
    /\ dirty' = FALSE
    /\ known' = TRUE /\ readOnly' = FALSE
    /\ edit' = IF Readable /\ lock = "free" THEN "none" ELSE edit
    /\ active' = TRUE
Load(unsaved) ==
    /\ \/ /\ Readable
          /\ memory' = Parsed(ReadText) /\ dirty' = FALSE
          /\ known' = TRUE /\ readOnly' = FALSE
          /\ edit' = IF lock = "free" THEN "none" ELSE edit
       \/ /\ ~file.there
          /\ memory' = Blank /\ dirty' = FALSE
          /\ known' = FALSE /\ readOnly' = FALSE
          /\ UNCHANGED edit
       \/ /\ file.there /\ ~Readable
          /\ memory' = IF active THEN memory ELSE Blank
          /\ dirty' = (active /\ unsaved)
          /\ known' = TRUE /\ readOnly' = TRUE
          /\ UNCHANGED edit
    /\ active' = TRUE

Unloaded ==
    /\ memory' = Blank /\ dirty' = FALSE /\ active' = FALSE
    /\ UNCHANGED <<known, readOnly, edit>>

\* The program starts: memory_load.
Start ==
    /\ pc = "down"
    /\ IF on THEN Load(FALSE) ELSE Unloaded
    /\ pc' = "idle"
    /\ UNCHANGED <<on, failed, after, disk, forgotten, edits>>

\* A word is typed (ks_memory_observe_word).
\* Mutant: the count has no ceiling.
LearnUncapped(w) ==
    /\ pc = "idle" /\ active
    /\ memory' = [memory EXCEPT ![w] = @ + 1]
    /\ dirty' = TRUE
    /\ forgotten' = forgotten \ {w}
    /\ UNCHANGED <<on, active, readOnly, known, failed, pc, after, disk, edit, edits>>
Learn(w) ==
    /\ pc = "idle" /\ active
    /\ memory' = [memory EXCEPT ![w] = IF @ < 2 THEN @ + 1 ELSE 2]
    /\ dirty' = TRUE
    /\ forgotten' = forgotten \ {w}
    /\ UNCHANGED <<on, active, readOnly, known, failed, pc, after, disk, edit, edits>>

\* memory_file_edited.
Edited == file.there /\ ~known

\* memory_save up to the first write.  A file that could not be read is tried
\* again after five minutes, and never written.
Save(next, unsaved) ==
    /\ after' = next
    /\ \/ /\ Edited \/ readOnly
          /\ Load(unsaved) /\ pc' = "end"
       \/ /\ ~Edited
          /\ pc' = IF unsaved /\ ~readOnly THEN "write" ELSE "end"
          /\ dirty' = unsaved
          /\ UNCHANGED <<active, readOnly, memory, known, edit>>
    /\ UNCHANGED <<on, failed, disk, forgotten, edits>>

\* ID_TIMER_SNIPPETS, WM_APP_SAVE_STATS and the end of the session.
SaveTimer ==
    /\ pc = "idle" /\ active
    /\ Edited \/ dirty
    /\ Save("nothing", dirty)

\* open_memory_file: what was learned is written before Notepad shows it.
Open ==
    /\ pc = "idle" /\ active
    /\ Save("nothing", TRUE)

\* memory_apply_setting.
TurnOn ==
    /\ pc = "idle" /\ ~on /\ on' = TRUE
    /\ Load(dirty)
    /\ UNCHANGED <<failed, pc, after, disk, forgotten, edits>>
\* Mutant: what was learned is not saved first.
TurnOffUnsaved ==
    /\ pc = "idle" /\ on /\ active
    /\ pc' = "end" /\ after' = "off"
    /\ UNCHANGED <<on, active, readOnly, memory, dirty, known, failed, disk, history>>
TurnOff ==
    /\ pc = "idle" /\ on /\ active
    /\ Save("off", dirty)

\* WM_DESTROY.
Exit ==
    /\ pc = "idle"
    /\ \/ active /\ Save("exit", dirty)
       \/ /\ ~active /\ pc' = "end" /\ after' = "exit"
          /\ UNCHANGED <<on, active, readOnly, memory, dirty, known, failed, disk, history>>

-----------------------------------------------------------------------------
\* write_text_file: a sibling file is written, flushed and moved over the old
\* one; each of the calls may fail, and then the sibling is deleted.
\* Mutant: a save that failed counts as done.
FailIsDone ==
    /\ tmp' = "none" /\ failed' = TRUE /\ pc' = "end" /\ dirty' = FALSE
    /\ UNCHANGED <<file, known>>
Fail ==
    /\ tmp' = "none" /\ failed' = TRUE /\ pc' = "end"
    /\ UNCHANGED <<file, known, dirty>>

Write ==
    /\ pc = "write"
    /\ tmp' = "part" /\ pc' = "flush"
    /\ UNCHANGED <<on, active, readOnly, memory, dirty, known, failed, after, file, lock, history>>

\* Mutant: a sibling that was not written in full is moved all the same.
FlushAnyway ==
    /\ pc = "flush"
    /\ tmp' \in {"part", "whole"} /\ pc' = "move"
    /\ UNCHANGED <<file, known, dirty, failed>>
    /\ UNCHANGED <<on, active, readOnly, memory, after, lock, history>>
Flush ==
    /\ pc = "flush"
    /\ \/ tmp' = "whole" /\ pc' = "move" /\ UNCHANGED <<file, known, dirty, failed>>
       \/ Fail
    /\ UNCHANGED <<on, active, readOnly, memory, after, lock, history>>

Move ==
    /\ pc = "move"
    /\ \/ /\ lock = "free" \/ ~file.there
          /\ file' = [there |-> TRUE, text |-> Serialized, whole |-> tmp = "whole", big |-> FALSE]
          /\ tmp' = "none" /\ known' = FALSE /\ dirty' = FALSE /\ failed' = FALSE
          /\ pc' = "time"
       \/ Fail
    /\ UNCHANGED <<on, active, readOnly, memory, after, lock, history>>

\* memory_file_time.
ReadTime ==
    /\ pc = "time"
    /\ known' = file.there
    /\ pc' = "end"
    /\ UNCHANGED <<on, active, readOnly, memory, dirty, failed, after, disk, history>>

\* The save returns to its caller.
Return ==
    /\ pc = "end"
    /\ \/ after = "nothing" /\ pc' = "idle" /\ UNCHANGED <<on, active, memory, dirty>>
       \/ /\ after = "off" /\ pc' = "idle" /\ on' = FALSE
          /\ memory' = Blank /\ dirty' = FALSE /\ active' = FALSE
       \/ /\ after = "exit" /\ pc' = "down" /\ UNCHANGED on
          /\ memory' = Blank /\ dirty' = FALSE /\ active' = FALSE
    /\ after' = "nothing"
    /\ UNCHANGED <<readOnly, known, failed, disk, history>>

\* memory_forget: the file is deleted, or overwritten with nothing where it
\* cannot be; the user is told which.
Remembered == {w \in Words : memory[w] > 0 \/ w \in file.text}

\* Mutant: the words are forgotten in memory alone when the file is in use.
ForgetInMemory ==
    /\ pc = "idle"
    /\ memory' = Blank /\ dirty' = FALSE /\ readOnly' = FALSE
    /\ file' = IF lock = "free" THEN NoFile ELSE file
    /\ forgotten' = forgotten \cup Remembered
    /\ known' = file'.there /\ edit' = "none"
    /\ UNCHANGED <<on, active, failed, pc, after, tmp, lock, edits>>
Forget ==
    /\ pc = "idle"
    /\ memory' = Blank /\ dirty' = FALSE /\ readOnly' = FALSE
    /\ \/ /\ lock = "free" \/ ~file.there
          /\ file' \in {NoFile, [NoFile EXCEPT !.there = TRUE]}
          /\ forgotten' = forgotten \cup Remembered
       \/ /\ file.there
          /\ UNCHANGED <<file, forgotten>>
    /\ known' = file'.there /\ edit' = "none"
    /\ UNCHANGED <<on, active, failed, pc, after, tmp, lock, edits>>

\* The program is killed, or Windows is, between any two of its calls.
Crash ==
    /\ pc # "down"
    /\ pc' = "down" /\ after' = "nothing"
    /\ active' = FALSE /\ readOnly' = FALSE /\ memory' = Blank /\ dirty' = FALSE
    /\ known' = FALSE /\ failed' = FALSE
    /\ UNCHANGED <<on, disk, history>>

Calls == Write \/ Flush \/ Move \/ ReadTime \/ Return

Next ==
    \/ Edit \/ Delete \/ Lock \/ Unlock
    \/ Start \/ (\E w \in Words : Learn(w)) \/ SaveTimer \/ Open \/ TurnOn \/ TurnOff
    \/ Exit \/ Forget \/ Crash \/ Calls

\* The timer is served and a call returns; the program that holds the file lets
\* go of it; the disk does not refuse for ever, nor does the program crash or
\* end before every save.
Fairness ==
    /\ SF_vars(SaveTimer) /\ WF_vars(Calls) /\ WF_vars(Unlock)
    /\ SF_vars(Flush /\ pc' = "move") /\ SF_vars(Move /\ pc' = "time")

Spec == Init /\ [][Next]_vars /\ Fairness

-----------------------------------------------------------------------------
\* "Your edit wins over anything learned in the meantime" (WRITING_MEMORY.md):
\* an edit made while no save runs is not overwritten before it was read, over
\* locks, files that are too large, restarts and the setting.
HandEditsWin == [][Move /\ file' # file => edit # "quiet"]_vars

\* What the user was told is forgotten does not come back unless it is typed
\* again or written by hand.
ForgottenStaysForgotten ==
    \A w \in forgotten : memory[w] = 0 /\ w \notin file.text

\* A crash at any moment leaves a whole file.
FileIsWhole == file.whole

\* Learning stops, or the program ends, without losing what was learned: it is
\* in the file then, unless a save failed, the file could not be read, or the
\* user edited or deleted it.
StopsWithoutLoss ==
    [][active /\ ~active' /\ pc = "end" =>
         \A w \in Words : memory[w] = 2 =>
            w \in file.text \/ failed \/ readOnly \/ edit # "none" \/ ~file.there]_vars

\* What was learned reaches the disk once other programs leave the file alone,
\* unless it cannot be read or the user edits it at the same time, forgets it or
\* deletes it.
LearnedReachesDisk ==
    <>[](lock = "free") => \A w \in Words :
        (active /\ dirty /\ memory[w] = 2)
            ~> (w \in file.text \/ memory[w] # 2 \/ readOnly \/ edit # "none")
=============================================================================
