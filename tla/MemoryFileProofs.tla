-------------------------- MODULE MemoryFileProofs --------------------------
(* The learned words, their file, and who may write it, for any words.      *)
EXTENDS MemoryFile, TLAPS

\* The sibling that is moved over the file is a whole one.
SavesWhole == (pc = "move" => tmp = "whole") /\ file.whole

\* An edit that was not read yet is one the next save will notice, and no save
\* that could overwrite it is under way.
EditWaits ==
    edit = "quiet" =>
        /\ file.there /\ (~known \/ readOnly)
        /\ pc \notin {"write", "flush", "move", "time"}

\* A word that is worth saving is in the file, or there is a reason it is not.
Kept(w) ==
    memory[w] = 2 => w \in file.text \/ failed \/ readOnly \/ edit # "none" \/ ~file.there

\* Nothing is left to save once a save is over, or when nothing changed.
NothingUnsaved == active /\ (~dirty \/ pc \in {"time", "end"}) => \A w \in Words : Kept(w)

-----------------------------------------------------------------------------
(* What the operators return.                                               *)

\* A truth value is one.
LEMMA Truths == TRUE \in BOOLEAN /\ FALSE \in BOOLEAN
BY Zenon

\* A memory without a word, and one read from a file, are memories.
LEMMA Memories ==
    /\ Blank \in Counts
    /\ \A text : Parsed(text) \in Counts
    /\ \A w \in Words : Blank[w] = 0
    /\ \A text : \A w \in Words : Parsed(text)[w] = IF w \in text THEN 2 ELSE 0
BY DEF Blank, Counts, Parsed

\* One more use of a word.
LEMMA LearnedCounts ==
    ASSUME memory \in Counts, NEW w \in Words
    PROVE  /\ [memory EXCEPT ![w] = IF @ < 2 THEN @ + 1 ELSE 2] \in Counts
           /\ \A u \in Words \ {w} :
                [memory EXCEPT ![w] = IF @ < 2 THEN @ + 1 ELSE 2][u] = memory[u]
<1>1. (IF memory[w] < 2 THEN memory[w] + 1 ELSE 2) \in 0 .. 2
  BY DEF Counts
<1> QED BY <1>1 DEF Counts

\* What memory_load reads, and when it does not.
LEMMA Loaded ==
    ASSUME TypeOK, NEW unsaved \in BOOLEAN, Load(unsaved)
    PROVE  /\ active' = TRUE /\ {active', readOnly', dirty', known'} \subseteq BOOLEAN
           /\ memory' \in Counts
           /\ edit' \in {edit, "none"}
           /\ \A w \in Words : memory'[w] = 0 \/ memory'[w] = memory[w] \/ w \in file.text
           /\ \A w \in Words : memory'[w] = 2 => w \in file.text \/ readOnly'
           /\ ~PartialReads /\ edit' = "quiet" => ~known' \/ readOnly'
<1>1. active' = TRUE
  BY DEF Load
<1>2. memory \in Counts /\ active \in BOOLEAN /\ edit \in {"none", "quiet", "racing"}
  BY DEF TypeOK
<1>3. ~PartialReads => lock \in {"free", "held"}
  BY DEF TypeOK, Locks
<1>4. CASE Readable /\ memory' = Parsed(ReadText) /\ dirty' = FALSE
           /\ known' = TRUE /\ readOnly' = FALSE
           /\ edit' = IF lock = "free" THEN "none" ELSE edit
  <2>1. \A w \in Words : w \in ReadText => w \in file.text
    BY DEF ReadText
  <2>2. ~PartialReads => edit' = "none"
    BY <1>3, <1>4 DEF Readable
  <2>3. \A w \in Words : memory'[w] = IF w \in ReadText THEN 2 ELSE 0
    BY <1>4, Memories
  <2>4. memory' \in Counts
    BY <1>4, Memories
  <2>5. edit' \in {edit, "none"}
    BY <1>4
  <2>6. {active', readOnly', dirty', known'} \subseteq BOOLEAN
    BY <1>1, <1>4, Truths
  <2>7. edit' # "quiet" \/ PartialReads
    BY <2>2
  <2> QED BY <1>1, <2>1, <2>3, <2>4, <2>5, <2>6, <2>7
<1>5. CASE ~file.there /\ memory' = Blank /\ dirty' = FALSE
           /\ known' = FALSE /\ readOnly' = FALSE /\ UNCHANGED edit
  <2>1. {active', readOnly', dirty', known'} \subseteq BOOLEAN
    BY <1>1, <1>5, Truths
  <2>2. memory' \in Counts /\ \A w \in Words : memory'[w] = 0
    BY <1>5, Memories
  <2>3. ~known'
    BY <1>5
  <2> QED BY <1>1, <1>5, <2>1, <2>2, <2>3
<1>6. CASE file.there /\ ~Readable /\ memory' = (IF active THEN memory ELSE Blank)
           /\ dirty' = (active /\ unsaved) /\ known' = TRUE /\ readOnly' = TRUE /\ UNCHANGED edit
  <2>1. dirty' \in BOOLEAN
    BY <1>2, <1>6
  <2>2. memory' \in Counts /\ \A w \in Words : memory'[w] = 0 \/ memory'[w] = memory[w]
    BY <1>2, <1>6, Memories
  <2> QED BY <1>1, <1>6, <2>1, <2>2, Truths
<1> QED BY <1>4, <1>5, <1>6 DEF Load

\* memory_save up to the first write leaves the disk alone.
LEMMA Saved ==
    ASSUME TypeOK, NEW next, NEW unsaved \in BOOLEAN, Save(next, unsaved)
    PROVE  /\ after' = next /\ UNCHANGED <<on, failed, disk, forgotten, edits>>
           /\ {active', readOnly', dirty', known'} \subseteq BOOLEAN
           /\ memory' \in Counts
           /\ edit' \in {edit, "none"}
           /\ \A w \in Words : memory'[w] = 0 \/ memory'[w] = memory[w] \/ w \in file.text
           /\ \/ Load(unsaved) /\ pc' = "end"
              \/ /\ ~Edited /\ pc' = (IF unsaved /\ ~readOnly THEN "write" ELSE "end")
                 /\ dirty' = unsaved /\ UNCHANGED <<active, readOnly, memory, known, edit>>
<1>1. after' = next /\ UNCHANGED <<on, failed, disk, forgotten, edits>>
  BY DEF Save
<1>2. CASE Load(unsaved) /\ pc' = "end"
  BY <1>1, <1>2, Loaded
<1>3. CASE ~Edited /\ pc' = (IF unsaved /\ ~readOnly THEN "write" ELSE "end")
           /\ dirty' = unsaved /\ UNCHANGED <<active, readOnly, memory, known, edit>>
  BY <1>1, <1>3 DEF TypeOK
<1> QED BY <1>2, <1>3 DEF Save

-----------------------------------------------------------------------------
(* Types.                                                                   *)

\* The program starts with nothing learned and no file.
LEMMA TypeInit == Init => TypeOK
<1> SUFFICES ASSUME Init PROVE TypeOK
  OBVIOUS
<1>1. {on, active, readOnly, dirty, known, failed} \subseteq BOOLEAN
  BY Truths DEF Init
<1>2. file \in [there : BOOLEAN, text : SUBSET Words, whole : BOOLEAN, big : BOOLEAN]
  BY Truths DEF Init, NoFile
<1>3. memory \in Counts /\ lock \in Locks /\ edits \in 0 .. MaxEdits
  BY Memories, MemoryFileAssumption DEF Init, Locks
<1> QED BY <1>1, <1>2, <1>3 DEF Init, TypeOK

\* Each call keeps the types.
LEMMA TypeStep == TypeOK /\ [Next]_vars => TypeOK'
<1> SUFFICES ASSUME TypeOK, [Next]_vars PROVE TypeOK'
  OBVIOUS
<1> DEFINE Files == [there : BOOLEAN, text : SUBSET Words, whole : BOOLEAN, big : BOOLEAN]
<1>0. /\ {on, active, readOnly, dirty, known, failed} \subseteq BOOLEAN
      /\ memory \in Counts /\ file \in Files
      /\ tmp \in {"none", "part", "whole"} /\ lock \in Locks
      /\ pc \in {"down", "idle", "write", "flush", "move", "time", "end"}
      /\ after \in {"nothing", "off", "exit"} /\ edit \in {"none", "quiet", "racing"}
      /\ forgotten \subseteq Words /\ edits \in 0 .. MaxEdits
  BY DEF TypeOK
<1>a. "free" \in Locks /\ NoFile \in Files /\ [NoFile EXCEPT !.there = TRUE] \in Files
  BY Truths DEF Locks, NoFile
<1>b. Remembered \subseteq Words /\ Serialized \subseteq Words
  BY DEF Remembered, Serialized
<1>1. ASSUME Edit PROVE TypeOK'
  <2>1. file' \in Files /\ forgotten' \subseteq Words
    <3>1. PICK text \in SUBSET Words, big \in BOOLEAN :
            /\ file' = [there |-> TRUE, text |-> text, whole |-> TRUE, big |-> big]
            /\ forgotten' = forgotten \ text
      BY <1>1 DEF Edit
    <3> QED BY <1>0, <3>1, Truths
  <2>2. edits' \in 0 .. MaxEdits
    BY <1>0, <1>1, MemoryFileAssumption DEF Edit
  <2>3. known' \in BOOLEAN /\ edit' \in {"none", "quiet", "racing"}
    BY <1>1, Truths DEF Edit
  <2>4. UNCHANGED <<on, active, readOnly, memory, dirty, failed, pc, after, tmp, lock>>
    BY <1>1 DEF Edit
  <2> QED BY <1>0, <2>1, <2>2, <2>3, <2>4 DEF TypeOK
<1>2. ASSUME Delete PROVE TypeOK'
  <2>1. file' \in Files /\ known' \in BOOLEAN /\ edit' = "none"
    BY <1>2, <1>a, Truths DEF Delete
  <2>2. UNCHANGED <<on, active, readOnly, memory, dirty, failed, pc, after, tmp, lock>>
        /\ UNCHANGED <<forgotten, edits>>
    BY <1>2 DEF Delete
  <2> QED BY <1>0, <2>1, <2>2 DEF TypeOK
<1>3. ASSUME Lock \/ Unlock PROVE TypeOK'
  <2>1. lock' \in Locks
    BY <1>3, <1>a DEF Lock, Unlock
  <2>2. UNCHANGED <<process, file, tmp, history>>
    BY <1>3 DEF Lock, Unlock
  <2> QED BY <1>0, <2>1, <2>2 DEF TypeOK, process, history
<1>4. ASSUME Start PROVE TypeOK'
  <2>1. /\ {active', readOnly', dirty', known'} \subseteq BOOLEAN /\ memory' \in Counts
        /\ edit' \in {edit, "none"}
    <3>1. CASE on
      BY <1>4, <3>1, Loaded, Truths DEF Start
    <3>2. CASE ~on
      BY <1>0, <1>4, <3>2, Memories, Truths DEF Start, Unloaded
    <3> QED BY <3>1, <3>2
  <2>2. pc' = "idle" /\ UNCHANGED <<on, failed, after, disk, forgotten, edits>>
    BY <1>4 DEF Start
  <2> QED BY <1>0, <2>1, <2>2 DEF TypeOK, disk
<1>5. ASSUME NEW w \in Words, Learn(w) PROVE TypeOK'
  <2>1. memory' \in Counts /\ dirty' \in BOOLEAN /\ forgotten' \subseteq Words
    BY <1>0, <1>5, LearnedCounts, Truths DEF Learn
  <2>2. UNCHANGED <<on, active, readOnly, known, failed, pc, after, disk, edit, edits>>
    BY <1>5 DEF Learn
  <2> QED BY <1>0, <2>1, <2>2 DEF TypeOK, disk
<1>6. ASSUME NEW next \in {"nothing", "off", "exit"}, NEW unsaved \in BOOLEAN, Save(next, unsaved)
      PROVE  TypeOK'
  <2>1. after' = next /\ UNCHANGED <<on, failed, disk, forgotten, edits>>
        /\ {active', readOnly', dirty', known'} \subseteq BOOLEAN
        /\ memory' \in Counts /\ edit' \in {edit, "none"}
    BY <1>6, Saved
  <2>2. pc' \in {"write", "end"}
    BY <1>6 DEF Save
  <2> QED BY <1>0, <2>1, <2>2 DEF TypeOK, disk
<1>7. ASSUME SaveTimer \/ Open \/ TurnOff PROVE TypeOK'
  BY <1>0, <1>6, <1>7, Truths DEF SaveTimer, Open, TurnOff
<1>8. ASSUME TurnOn PROVE TypeOK'
  <2>1. /\ {active', readOnly', dirty', known'} \subseteq BOOLEAN /\ memory' \in Counts
        /\ edit' \in {edit, "none"}
    BY <1>0, <1>8, Loaded DEF TurnOn
  <2>2. on' \in BOOLEAN /\ UNCHANGED <<failed, pc, after, disk, forgotten, edits>>
    BY <1>8, Truths DEF TurnOn
  <2> QED BY <1>0, <2>1, <2>2 DEF TypeOK, disk
<1>9. ASSUME Exit PROVE TypeOK'
  <2>1. CASE Save("exit", dirty)
    BY <1>0, <1>6, <2>1
  <2>2. CASE pc' = "end" /\ after' = "exit"
             /\ UNCHANGED <<on, active, readOnly, memory, dirty, known, failed, disk, history>>
    BY <1>0, <2>2 DEF TypeOK, disk, history
  <2> QED BY <1>9, <2>1, <2>2 DEF Exit
<1>10. ASSUME Forget PROVE TypeOK'
  <2>1. memory' \in Counts /\ {dirty', readOnly'} \subseteq BOOLEAN
    BY <1>10, Memories, Truths DEF Forget
  <2>2. file' \in Files /\ forgotten' \subseteq Words
    BY <1>0, <1>10, <1>a, <1>b DEF Forget
  <2>3. known' \in BOOLEAN /\ edit' = "none"
    BY <1>10, <2>2 DEF Forget
  <2>4. UNCHANGED <<on, active, failed, pc, after, tmp, lock, edits>>
    BY <1>10 DEF Forget
  <2> QED BY <1>0, <2>1, <2>2, <2>3, <2>4 DEF TypeOK
<1>11. ASSUME Crash PROVE TypeOK'
  <2>1. {active', readOnly', dirty', known', failed'} \subseteq BOOLEAN /\ memory' \in Counts
    BY <1>11, Memories, Truths DEF Crash
  <2>2. pc' = "down" /\ after' = "nothing" /\ UNCHANGED <<on, disk, history>>
    BY <1>11 DEF Crash
  <2> QED BY <1>0, <2>1, <2>2 DEF TypeOK, disk, history
<1>12. ASSUME Write PROVE TypeOK'
  BY <1>0, <1>12 DEF Write, TypeOK, history
<1>13. ASSUME Flush PROVE TypeOK'
  BY <1>0, <1>13, Truths DEF Flush, Fail, TypeOK, history
<1>14. ASSUME Move PROVE TypeOK'
  <2>1. UNCHANGED <<on, active, readOnly, memory, after, lock, history>>
    BY <1>14 DEF Move
  <2>2. CASE Fail
    BY <1>0, <2>1, <2>2, Truths DEF Fail, TypeOK, history
  <2>3. CASE /\ file' = [there |-> TRUE, text |-> Serialized, whole |-> tmp = "whole", big |-> FALSE]
             /\ tmp' = "none" /\ known' = FALSE /\ dirty' = FALSE /\ failed' = FALSE
             /\ pc' = "time"
    <3>1. (tmp = "whole") \in BOOLEAN
      BY Zenon
    <3>2. file' \in Files
      BY <1>b, <2>3, <3>1, Truths
    <3> QED BY <1>0, <2>1, <2>3, <3>2, Truths DEF TypeOK, history
  <2> QED BY <1>14, <2>2, <2>3 DEF Move
<1>15. ASSUME ReadTime PROVE TypeOK'
  BY <1>0, <1>15 DEF ReadTime, TypeOK, disk, history
<1>16. ASSUME Return PROVE TypeOK'
  <2>1. UNCHANGED <<readOnly, known, failed, disk, history>> /\ after' = "nothing"
    BY <1>16 DEF Return
  <2>2. pc' \in {"idle", "down"} /\ memory' \in Counts /\ {on', dirty', active'} \subseteq BOOLEAN
    BY <1>0, <1>16, Memories, Truths DEF Return
  <2> QED BY <1>0, <2>1, <2>2 DEF TypeOK, disk, history
<1>17. ASSUME UNCHANGED vars PROVE TypeOK'
  BY <1>0, <1>17 DEF vars, process, disk, history, TypeOK
<1> HIDE DEF Files
<1> QED BY <1>1, <1>2, <1>3, <1>4, <1>5, <1>7, <1>8, <1>9, <1>10, <1>11, <1>12, <1>13, <1>14, <1>15,
           <1>16, <1>17 DEF Next, Calls


\* The types hold.
THEOREM TypesAreRight == Spec => []TypeOK
<1>1. Init => TypeOK
  BY TypeInit
<1>2. TypeOK /\ [Next]_vars => TypeOK'
  BY TypeStep
<1> QED BY <1>1, <1>2, PTL DEF Spec

-----------------------------------------------------------------------------
(* A whole file.                                                            *)

\* At the start no save is under way, and the file is whole.
LEMMA WholeInit == Init => SavesWhole
BY DEF Init, SavesWhole, NoFile

\* Only what was flushed in full is moved, and the user saves whole files.
LEMMA WholeStep == SavesWhole /\ [Next]_vars => SavesWhole'
<1> SUFFICES ASSUME SavesWhole, [Next]_vars PROVE SavesWhole'
  OBVIOUS
<1> USE DEF SavesWhole, NoFile
<1>1. CASE Edit
  BY <1>1 DEF Edit
<1>2. CASE Delete \/ Lock \/ Unlock
  BY <1>2 DEF Delete, Lock, Unlock, process
<1>3. CASE Start \/ Exit \/ TurnOn \/ TurnOff
  BY <1>3 DEF Start, Exit, TurnOn, TurnOff, Save, disk
<1>4. CASE \E w \in Words : Learn(w)
  BY <1>4 DEF Learn, disk
<1>5. CASE SaveTimer \/ Open
  BY <1>5 DEF SaveTimer, Open, Save, disk
<1>6. CASE Forget
  BY <1>6 DEF Forget
<1>7. CASE Crash \/ Return \/ ReadTime
  BY <1>7 DEF Crash, Return, ReadTime, disk
<1>8. CASE Write \/ Flush
  BY <1>8 DEF Write, Flush, Fail
<1>9. CASE Move
  <2>1. tmp = "whole"
    BY <1>9 DEF Move
  <2>2. CASE Fail
    BY <2>2 DEF Fail
  <2>3. CASE /\ file' = [there |-> TRUE, text |-> Serialized, whole |-> tmp = "whole", big |-> FALSE]
             /\ pc' = "time"
    <3>1. file'.whole = (tmp = "whole")
      BY <2>3
    <3>2. file'.whole
      BY <2>1, <3>1, Zenon
    <3> QED BY <2>3, <3>2
  <2> QED BY <1>9, <2>2, <2>3 DEF Move
<1>10. CASE UNCHANGED vars
  BY <1>10 DEF vars, process, disk
<1> QED BY <1>1, <1>2, <1>3, <1>4, <1>5, <1>6, <1>7, <1>8, <1>9, <1>10 DEF Next, Calls

\* A crash between any two calls of a save leaves a whole file: what is moved over
\* it was written and flushed in full.
THEOREM AlwaysAWholeFile == Spec => []FileIsWhole
<1>1. Init => SavesWhole
  BY WholeInit
<1>2. SavesWhole /\ [Next]_vars => SavesWhole'
  BY WholeStep
<1>3. SavesWhole => FileIsWhole
  BY DEF SavesWhole, FileIsWhole
<1> QED BY <1>1, <1>2, <1>3, PTL DEF Spec

-----------------------------------------------------------------------------
(* Forgotten words.                                                         *)

\* What is still forgotten is neither learned nor in the file then.
LEMMA ForgottenStep ==
    TypeOK /\ ForgottenStaysForgotten /\ [Next]_vars => ForgottenStaysForgotten'
<1> SUFFICES ASSUME TypeOK, ForgottenStaysForgotten, [Next]_vars PROVE ForgottenStaysForgotten'
  OBVIOUS
<1>0. /\ forgotten \subseteq Words /\ memory \in Counts
      /\ dirty \in BOOLEAN /\ \A w \in forgotten : memory[w] = 0 /\ w \notin file.text
  BY DEF TypeOK, ForgottenStaysForgotten
<1>a. ASSUME UNCHANGED <<forgotten, file>>,
             \A w \in Words : memory'[w] = 0 \/ memory'[w] = memory[w] \/ w \in file.text
      PROVE  ForgottenStaysForgotten'
  BY <1>0, <1>a DEF ForgottenStaysForgotten
<1>1. CASE Edit
  <2>1. PICK text \in SUBSET Words, big \in BOOLEAN :
          /\ file' = [there |-> TRUE, text |-> text, whole |-> TRUE, big |-> big]
          /\ forgotten' = forgotten \ text /\ memory' = memory
    BY <1>1 DEF Edit
  <2> QED BY <1>0, <2>1 DEF ForgottenStaysForgotten
<1>2. CASE Delete
  BY <1>0, <1>2 DEF Delete, NoFile, ForgottenStaysForgotten
<1>3. CASE Lock \/ Unlock
  BY <1>3, <1>a DEF Lock, Unlock, process, history
<1>4. CASE Start
  <2>1. UNCHANGED <<forgotten, file>>
    BY <1>4 DEF Start, disk
  <2>2. CASE on
    BY <1>4, <1>a, <2>1, <2>2, Loaded, Truths DEF Start
  <2>3. CASE ~on
    BY <1>4, <1>a, <2>1, <2>3, Memories DEF Start, Unloaded
  <2> QED BY <2>2, <2>3
<1>5. CASE \E w \in Words : Learn(w)
  <2>1. PICK w \in Words : Learn(w)
    BY <1>5
  <2>2. /\ memory' = [memory EXCEPT ![w] = IF @ < 2 THEN @ + 1 ELSE 2]
        /\ forgotten' = forgotten \ {w} /\ file' = file
    BY <2>1 DEF Learn, disk
  <2> QED BY <1>0, <2>2, LearnedCounts DEF ForgottenStaysForgotten
<1>6. ASSUME NEW next, NEW unsaved \in BOOLEAN, Save(next, unsaved)
      PROVE  ForgottenStaysForgotten'
  BY <1>6, <1>a, Saved DEF disk
<1>7. CASE SaveTimer \/ Open \/ TurnOff
  BY <1>0, <1>6, <1>7, Truths DEF SaveTimer, Open, TurnOff
<1>8. CASE TurnOn
  BY <1>0, <1>8, <1>a, Loaded DEF TurnOn, disk
<1>9. CASE Exit
  BY <1>0, <1>6, <1>9, <1>a DEF Exit, disk, history
<1>10. CASE Forget
  BY <1>0, <1>10, Memories DEF Forget, NoFile, ForgottenStaysForgotten, Remembered
<1>11. CASE Crash \/ Return
  BY <1>11, <1>a, Memories DEF Crash, Return, disk, history
<1>12. CASE Write \/ Flush \/ ReadTime
  BY <1>12, <1>a DEF Write, Flush, Fail, ReadTime, disk, history
<1>13. CASE Move
  <2>1. memory' = memory /\ forgotten' = forgotten
    BY <1>13 DEF Move, history
  <2>2. CASE file' = file
    BY <1>a, <2>1, <2>2
  <2>3. CASE file' = [there |-> TRUE, text |-> Serialized, whole |-> tmp = "whole", big |-> FALSE]
    BY <1>0, <2>1, <2>3 DEF Serialized, ForgottenStaysForgotten
  <2> QED BY <1>13, <2>2, <2>3 DEF Move, Fail
<1>14. CASE UNCHANGED vars
  BY <1>14, <1>a DEF vars, process, disk, history
<1> QED BY <1>1, <1>2, <1>3, <1>4, <1>5, <1>7, <1>8, <1>9, <1>10, <1>11, <1>12, <1>13, <1>14
        DEF Next, Calls

\* What the user was told is forgotten does not come back, over saves that failed,
\* locks, restarts and crashes, unless it is typed again or written by hand.
THEOREM ForgottenIsForgotten == Spec => []ForgottenStaysForgotten
<1>1. Init => ForgottenStaysForgotten
  BY DEF Init, ForgottenStaysForgotten
<1>2. TypeOK /\ ForgottenStaysForgotten /\ [Next]_vars => ForgottenStaysForgotten'
  BY ForgottenStep
<1> QED BY <1>1, <1>2, TypesAreRight, PTL DEF Spec


-----------------------------------------------------------------------------
(* Edits by hand.                                                           *)

\* At the start there is no edit.
LEMMA EditInit == Init => EditWaits
BY DEF Init, EditWaits

\* An edit is either read, or seen by every save before it writes: the recorded
\* time is that of an older file, or the file could not be read.
LEMMA EditStep ==
    ASSUME ~PartialReads
    PROVE  TypeOK /\ EditWaits /\ [Next]_vars => EditWaits'
<1> SUFFICES ASSUME TypeOK, EditWaits, [Next]_vars PROVE EditWaits'
  OBVIOUS
<1>0. edit = "quiet" => /\ file.there /\ (~known \/ readOnly)
                        /\ pc \notin {"write", "flush", "move", "time"}
  BY DEF EditWaits
<1>t. dirty \in BOOLEAN
  BY DEF TypeOK
<1>a. ASSUME UNCHANGED <<edit, known, readOnly, file>>,
             pc' \in {pc, "idle", "down", "end"}
      PROVE  EditWaits'
  BY <1>0, <1>a DEF EditWaits
<1>b. ASSUME UNCHANGED file, pc' \in {pc, "idle", "end"},
             edit' \in {edit, "none"}, edit' = "quiet" => ~known' \/ readOnly'
      PROVE  EditWaits'
  BY <1>0, <1>b DEF EditWaits
<1>1. CASE Edit
  <2>1. PICK text \in SUBSET Words, big \in BOOLEAN :
          file' = [there |-> TRUE, text |-> text, whole |-> TRUE, big |-> big]
    BY <1>1 DEF Edit
  <2> QED BY <1>1, <2>1 DEF Edit, EditWaits
<1>2. CASE Delete
  BY <1>2 DEF Delete, EditWaits
<1>3. CASE Lock \/ Unlock
  BY <1>3, <1>a DEF Lock, Unlock, process, history
<1>4. CASE Start
  <2>1. UNCHANGED file /\ pc' = "idle"
    BY <1>4 DEF Start, disk
  <2>2. CASE on
    BY <1>4, <1>b, <2>1, <2>2, Loaded, Truths DEF Start
  <2>3. CASE ~on
    BY <1>4, <1>a, <2>1, <2>3 DEF Start, Unloaded
  <2> QED BY <2>2, <2>3
<1>5. CASE \E w \in Words : Learn(w)
  BY <1>5, <1>a DEF Learn, disk
<1>6. ASSUME NEW next, NEW unsaved \in BOOLEAN, Save(next, unsaved)
      PROVE  EditWaits'
  <2>1. UNCHANGED file /\ edit' \in {edit, "none"}
    BY <1>6, Saved DEF disk
  <2>2. CASE Load(unsaved) /\ pc' = "end"
    BY <1>b, <2>1, <2>2, Loaded
  <2>3. CASE ~Edited /\ pc' = (IF unsaved /\ ~readOnly THEN "write" ELSE "end")
             /\ dirty' = unsaved /\ UNCHANGED <<active, readOnly, memory, known, edit>>
    <3>1. CASE edit = "quiet"
      <4>1. readOnly
        BY <1>0, <2>3, <3>1 DEF Edited
      <4> QED BY <1>a, <2>1, <2>3, <4>1
    <3>2. CASE edit # "quiet"
      BY <2>3, <3>2 DEF EditWaits
    <3> QED BY <3>1, <3>2
  <2> QED BY <1>6, <2>2, <2>3, Saved
<1>7. CASE SaveTimer \/ Open \/ TurnOff
  BY <1>t, <1>6, <1>7, Truths DEF SaveTimer, Open, TurnOff
<1>8. CASE TurnOn
  <2>1. UNCHANGED <<pc, file>> /\ Load(dirty)
    BY <1>8 DEF TurnOn, disk
  <2> QED BY <1>t, <1>b, <2>1, Loaded
<1>9. CASE Exit
  BY <1>t, <1>6, <1>9, <1>a DEF Exit, disk, history
<1>10. CASE Forget
  BY <1>10 DEF Forget, EditWaits
<1>11. CASE Crash
  BY <1>0, <1>11 DEF Crash, disk, history, EditWaits
<1>12. CASE Write \/ Flush
  BY <1>0, <1>12 DEF Write, Flush, Fail, history, EditWaits
<1>13. CASE Move
  BY <1>0, <1>13 DEF Move, Fail, history, EditWaits
<1>14. CASE ReadTime \/ Return
  BY <1>0, <1>14 DEF ReadTime, Return, disk, history, EditWaits
<1>15. CASE UNCHANGED vars
  BY <1>15, <1>a DEF vars, process, disk, history
<1> QED BY <1>1, <1>2, <1>3, <1>4, <1>5, <1>7, <1>8, <1>9, <1>10, <1>11, <1>12, <1>13, <1>14, <1>15
        DEF Next, Calls

\* An edit made while no save runs is never overwritten before it was read,
\* where a file that opens can be read.
THEOREM EditsByHandWin == ASSUME ~PartialReads PROVE Spec => HandEditsWin
<1>1. Init => EditWaits
  BY EditInit
<1>2. TypeOK /\ EditWaits /\ [Next]_vars => EditWaits'
  BY EditStep
<1>3. EditWaits => (Move /\ file' # file => edit # "quiet")
  BY DEF EditWaits, Move
<1> QED BY <1>1, <1>2, <1>3, TypesAreRight, PTL DEF Spec, HandEditsWin

-----------------------------------------------------------------------------
(* What was learned.                                                        *)

\* At the start nothing is learned.
LEMMA UnsavedInit == Init => NothingUnsaved
BY DEF Init, NothingUnsaved

\* What a memory that was just loaded holds is in its file.
LEMMA LoadedIsSaved ==
    ASSUME TypeOK, NEW unsaved \in BOOLEAN, Load(unsaved), UNCHANGED file
    PROVE  NothingUnsaved'
<1>1. \A w \in Words : memory'[w] = 2 => w \in file.text \/ readOnly'
  BY Loaded
<1> QED BY <1>1 DEF NothingUnsaved, Kept

\* Words that are worth saving are written, or the save failed, or it could not be made.
LEMMA UnsavedStep == TypeOK /\ NothingUnsaved /\ [Next]_vars => NothingUnsaved'
<1> SUFFICES ASSUME TypeOK, NothingUnsaved, [Next]_vars PROVE NothingUnsaved'
  OBVIOUS
<1>0. active /\ (~dirty \/ pc \in {"time", "end"}) => \A w \in Words : Kept(w)
  BY DEF NothingUnsaved
<1>t. dirty \in BOOLEAN /\ active \in BOOLEAN
  BY DEF TypeOK
<1>a. ASSUME UNCHANGED <<active, dirty, memory, file, failed, readOnly, edit>>,
             pc' \in {"time", "end"} => pc \in {"time", "end"} \/ ~dirty
      PROVE  NothingUnsaved'
  BY <1>0, <1>a DEF NothingUnsaved, Kept
<1>b. ASSUME failed' \/ edit' # "none" \/ ~file'.there \/ ~active' \/ readOnly'
      PROVE  NothingUnsaved'
  BY <1>b DEF NothingUnsaved, Kept
<1>1. CASE Edit
  BY <1>1, <1>b DEF Edit
<1>2. CASE Delete
  BY <1>2, <1>b DEF Delete, NoFile
<1>3. CASE Lock \/ Unlock
  BY <1>3, <1>a DEF Lock, Unlock, process, history
<1>4. CASE Start
  <2>1. UNCHANGED file
    BY <1>4 DEF Start, disk
  <2>2. CASE on
    BY <1>4, <2>1, <2>2, LoadedIsSaved, Truths DEF Start
  <2>3. CASE ~on
    BY <1>4, <1>b, <2>3 DEF Start, Unloaded
  <2> QED BY <2>2, <2>3
<1>5. CASE \E w \in Words : Learn(w)
  BY <1>5 DEF Learn, NothingUnsaved
<1>6. ASSUME NEW next, NEW unsaved \in BOOLEAN, Save(next, unsaved), pc = "idle", dirty => unsaved
      PROVE  NothingUnsaved'
  <2>1. UNCHANGED <<file, failed>>
    BY <1>6, Saved DEF disk
  <2>2. CASE Load(unsaved) /\ pc' = "end"
    BY <2>1, <2>2, LoadedIsSaved
  <2>3. CASE ~Edited /\ pc' = (IF unsaved /\ ~readOnly THEN "write" ELSE "end")
             /\ dirty' = unsaved /\ UNCHANGED <<active, readOnly, memory, known, edit>>
    <3>1. CASE unsaved /\ ~readOnly
      BY <2>3, <3>1 DEF NothingUnsaved
    <3>2. CASE readOnly
      BY <1>b, <2>3, <3>2
    <3>3. CASE ~unsaved
      BY <1>0, <1>6, <2>1, <2>3, <3>3 DEF NothingUnsaved, Kept
    <3> QED BY <3>1, <3>2, <3>3
  <2> QED BY <1>6, <2>2, <2>3, Saved
<1>7. CASE SaveTimer \/ Open \/ TurnOff
  BY <1>t, <1>6, <1>7, Truths DEF SaveTimer, Open, TurnOff
<1>8. CASE TurnOn
  BY <1>t, <1>8, LoadedIsSaved DEF TurnOn, disk
<1>9. CASE Exit
  <2>1. CASE active
    BY <1>t, <1>6, <1>9, <2>1 DEF Exit
  <2>2. CASE Save("exit", dirty)
    BY <1>t, <1>6, <1>9, <2>2 DEF Exit
  <2>3. CASE ~active /\ UNCHANGED <<on, active, readOnly, memory, dirty, known, failed, disk, history>>
    BY <1>b, <2>3
  <2> QED BY <1>9, <2>2, <2>3 DEF Exit
<1>10. CASE Forget
  BY <1>10, Memories DEF Forget, NothingUnsaved, Kept
<1>11. CASE Crash
  BY <1>11, <1>b DEF Crash
<1>12. CASE Write
  BY <1>12, <1>a DEF Write, history
<1>13. CASE Flush
  <2>1. CASE failed' = TRUE
    BY <1>b, <2>1
  <2>2. CASE pc' = "move" /\ UNCHANGED <<file, known, dirty, failed>>
    BY <1>13, <1>a, <2>2 DEF Flush, history
  <2> QED BY <1>13, <2>1, <2>2 DEF Flush, Fail
<1>14. CASE Move
  <2>1. CASE failed' = TRUE
    BY <1>b, <2>1
  <2>2. CASE file' = [there |-> TRUE, text |-> Serialized, whole |-> tmp = "whole", big |-> FALSE]
    <3>1. memory' = memory
      BY <1>14 DEF Move
    <3>2. \A w \in Words : memory'[w] = 2 => w \in file'.text
      BY <2>2, <3>1 DEF Serialized
    <3> QED BY <3>2 DEF NothingUnsaved, Kept
  <2> QED BY <1>14, <2>1, <2>2 DEF Move, Fail
<1>15. CASE ReadTime
  BY <1>15, <1>a DEF ReadTime, disk, history
<1>16. CASE Return
  <2>1. CASE active' = FALSE
    BY <1>b, <2>1
  <2>2. CASE pc' = "idle" /\ UNCHANGED <<on, active, memory, dirty>>
    BY <1>16, <1>a, <2>2 DEF Return, disk, history
  <2> QED BY <1>16, <2>1, <2>2 DEF Return
<1>17. CASE UNCHANGED vars
  BY <1>17, <1>a DEF vars, process, disk, history
<1> QED BY <1>1, <1>2, <1>3, <1>4, <1>5, <1>7, <1>8, <1>9, <1>10, <1>11, <1>12, <1>13, <1>14, <1>15,
           <1>16, <1>17 DEF Next, Calls

\* Learning stops, or the program ends, with all that is worth saving in the file,
\* unless a save failed, the file could not be read, or the user changed it.
THEOREM NothingIsLost == Spec => StopsWithoutLoss
<1>1. Init => NothingUnsaved
  BY UnsavedInit
<1>2. TypeOK /\ NothingUnsaved /\ [Next]_vars => NothingUnsaved'
  BY UnsavedStep
<1>3. NothingUnsaved =>
        (active /\ ~active' /\ pc = "end" =>
           \A w \in Words : memory[w] = 2 =>
              w \in file.text \/ failed \/ readOnly \/ edit # "none" \/ ~file.there)
  BY DEF NothingUnsaved, Kept
<1> QED BY <1>1, <1>2, <1>3, TypesAreRight, PTL DEF Spec, StopsWithoutLoss

=============================================================================
