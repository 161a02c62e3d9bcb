--------------------------- MODULE WritingMemory ----------------------------
(***************************************************************************)
(* The writing memory in use (memory_learn_or_repair, memory_note_word,    *)
(* remember_prev_word and try_undo of app.c, over the tables of memory.c): *)
(* words are counted when they end, hand repairs are learned, a repair     *)
(* that was learned is made for the user, Undo unlearns it, Backspace      *)
(* after a word takes its use back, and a restart goes through the file.   *)
(***************************************************************************)
EXTENDS WordTable

CONSTANTS
    Real,           \* words of the dictionary
    Pairs,          \* ks_memory_is_fix_pair: <<typo, repair>> of a whole word
    MidPairs,       \* ks_memory_is_fix_pair_midword
    None,           \* no word
    MaxClock,       \* bound: sightings between restarts
    MaxRestarts     \* bound

ASSUME MemoryAssumption ==
    /\ Real \subseteq Words /\ MidPairs \subseteq Pairs /\ Pairs \subseteq Words \X Words
    /\ \A p \in Pairs : p[1] # p[2]
    /\ None \notin Words

VARIABLES
    table,          \* g_memory: the words
    fixes,          \* g_memory: the repairs
    peak,           \* g_word_peak of the word being typed, and whether complete
    prev,           \* g_prev_word
    undo,           \* g_undo: what was replaced by what, by a learned repair
    noted,          \* g_last_noted
    made,           \* history: hand repairs since the pair was last rejected
    restarts

vars == <<table, fixes, peak, prev, undo, noted, made, restarts>>

NoPeak == [text |-> None, complete |-> FALSE]
NoUndo == [typo |-> None, fix |-> None, learned |-> FALSE]
Enough == 3         \* bound of the history: more repairs tell nothing new

Init ==
    /\ table = EmptyTable /\ fixes = <<>>
    /\ peak = NoPeak /\ prev = None /\ undo = NoUndo /\ noted = None
    /\ made = [p \in Pairs |-> 0]
    /\ restarts = 0

TypeOK ==
    /\ Len(table.words) <= MaxWords /\ Len(fixes) <= MaxFixes
    /\ \A i \in DOMAIN table.words :
         table.words[i] \in [text : Words, count : 0 .. MaxCount, seen : 0 .. table.clock]
    /\ table.slots \in [0 .. Slots - 1 -> 0 .. Len(table.words)]
    /\ \A i \in DOMAIN fixes : fixes[i] \in [typo : Words, fix : Words, count : 0 .. MaxCount]
    /\ peak.text \in Words \cup {None} /\ prev \in Words \cup {None}
    /\ noted \in Words \cup {None}

-----------------------------------------------------------------------------
\* memory_learn_or_repair, the word was edited: the repair is recorded when the
\* result is a word of the dictionary or one the user types often.
Records(w) ==
    /\ peak.text # None
    /\ <<peak.text, w>> \in IF peak.complete THEN Pairs ELSE MidPairs
    /\ w \in Real \/ CountOf(table, w) >= Known

\* memory_learn_or_repair, the word was typed straight: the learned repair of
\* it, unless it is a real word left alone as often as it was repaired.
RepairFor(w) ==
    LET i == Learned(fixes, w, w \in Real)
    IN  IF \/ peak.text # None \/ i = Absent
           \/ w \in Real /\ CountOf(table, w) >= FixCount(fixes, w)
          THEN None ELSE fixes[i].fix

\* memory_note_word, at a Space only.
Notes(w, space) ==
    IF space THEN table' \in Counted(table, w, 1) /\ noted' = w
             ELSE UNCHANGED <<table, noted>>

\* The word has a learned repair, and the replacement is sent.
Repairs(w, space) ==
    LET fix == RepairFor(w)
    IN  /\ fix # None
        /\ Notes(fix, space)
        /\ undo' = [typo |-> w, fix |-> fix, learned |-> TRUE]
        /\ peak' = NoPeak /\ prev' = None
        /\ UNCHANGED <<fixes, made>>

\* The word ends and stands as `text`, which is w itself, or the word of the
\* dictionary that the layout or the spelling correction made of it.  (A replacement that could not be sent
\* leaves w.)
Ends(w, text, space) ==
    /\ IF Records(w) /\ space
         THEN /\ fixes' = Repaired(fixes, peak.text, w)
              /\ made' = [made EXCEPT ![<<peak.text, w>>] = Least(@ + 1, Enough)]
         ELSE UNCHANGED <<fixes, made>>
    /\ Notes(text, space)
    /\ prev' = IF space /\ text = w THEN w ELSE None
    /\ undo' = IF text = w THEN NoUndo ELSE [typo |-> w, fix |-> text, learned |-> FALSE]
    /\ peak' = NoPeak

\* A word boundary; at a Space the memory learns.
Boundary(w, space) ==
    /\ table.clock < MaxClock
    /\ Repairs(w, space) \/ \E text \in Real \cup {w} : Ends(w, text, space)
    /\ UNCHANGED restarts

\* Backspace within the word: its longest form is remembered.
EditWord(w) ==
    /\ \E p \in Pairs : p[1] = w          \* any other longest form tells nothing
    /\ peak' = [text |-> w, complete |-> FALSE]
    /\ peak.text = None
    /\ prev' = None /\ undo' = NoUndo
    /\ UNCHANGED <<table, fixes, noted, made, restarts>>

\* Backspace straight after word and Space: the word is reopened, its use taken
\* back.
Reopen ==
    /\ prev # None
    /\ peak' = [text |-> prev, complete |-> TRUE]
    /\ table' = TakenBack(table, prev)
    /\ prev' = None /\ undo' = NoUndo
    /\ UNCHANGED <<fixes, noted, made, restarts>>

\* Mutant: the repair that was rejected is counted down, not forgotten.
RejectedOnce(f, typo) ==
    LET i == FixOf(f, typo)
    IN  IF i = Absent \/ f[i].count = 0 THEN f ELSE [f EXCEPT ![i].count = @ - 1]
Unlearned(f, typo) == Rejected(f, typo)

\* try_undo: the use that was noted is taken back, and a learned repair is
\* unlearned.
Undo ==
    /\ undo.fix # None
    /\ table' = IF noted = undo.fix THEN TakenBack(table, undo.fix) ELSE table
    /\ noted' = None
    /\ fixes' = IF undo.learned THEN Unlearned(fixes, undo.typo) ELSE fixes
    /\ made' = [p \in Pairs |-> IF undo.learned /\ p[1] = undo.typo THEN 0 ELSE made[p]]
    /\ undo' = NoUndo /\ prev' = None /\ peak' = NoPeak
    /\ UNCHANGED restarts

\* The memory is written and the program starts again; repairs are kept as they
\* are.
Restart ==
    /\ restarts < MaxRestarts /\ restarts' = restarts + 1
    /\ table' \in Reloaded(table)
    /\ peak' = NoPeak /\ prev' = None /\ undo' = NoUndo /\ noted' = None
    /\ UNCHANGED <<fixes, made>>

Next ==
    \/ \E w \in Words, space \in BOOLEAN : Boundary(w, space)
    \/ \E w \in Words : EditWord(w)
    \/ Reopen \/ Undo \/ Restart

Spec == Init /\ [][Next]_vars

-----------------------------------------------------------------------------
\* Every word of the table is found at its own position and no other word is
\* found, whatever was evicted, aged, reloaded or left at a count of zero.
WordsAreFindable ==
    \A w \in Words :
        LET i == Find(table, w)
            places == {p \in DOMAIN table.words : table.words[p].text = w}
        IN  places = IF i = Absent THEN {} ELSE {i}

\* A repair is made for the user only when the same repair was made by hand at
\* least twice (three times for a real word) since the user last undid one.
RepairsAreEarned ==
    \A w \in Words : LET fix == RepairFor(w)
                     IN  fix # None => made[<<w, fix>>] >= IF w \in Real THEN 3 ELSE 2

\* A known word the user wrote since the last eviction stays known when other
\* words push some out, unless it is one of the least used itself: then no word
\* that stays was used less.
KnownInUse(i) == table.words[i].count >= Known /\ table.words[i].seen > table.aged
KnownStaysKnown ==
    [][\A i \in DOMAIN table.words :
         KnownInUse(i) /\ ~Undo /\ ~Reopen =>
           LET now == Find(table', table.words[i].text)
           IN  IF now # Absent THEN table'.words[now].count >= Known
               ELSE \A j \in DOMAIN table.words :
                      Find(table', table.words[j].text) # Absent
                        => table.words[j].count >= table.words[i].count]_vars

\* The table implements the plain vocabulary.
Promised == INSTANCE Vocabulary WITH
    uses <- [w \in {table.words[i].text : i \in DOMAIN table.words} |-> CountOf(table, w)],
    Kept <- MaxWords - MaxWords \div Share
ImplementsVocabulary == Promised!Spec
=============================================================================
