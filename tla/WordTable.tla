----------------------------- MODULE WordTable ------------------------------
(***************************************************************************)
(* The tables of the writing memory (memory.c): the words with their       *)
(* counts, found through open-addressing hash slots, and the repairs.  A   *)
(* word is an opaque value; its hash is a constant.                        *)
(***************************************************************************)
EXTENDS Integers, Sequences, FiniteSets, SequencesExt

CONSTANTS
    Words,          \* valid words: 2 to 32 letters
    Hash,           \* word_hash, modulo Slots
    Slots,          \* KS_MEMORY_SLOTS
    MaxWords,       \* KS_MEMORY_WORDS
    Share,          \* 8: an eviction forgets one Share of MaxWords
    MaxCount,       \* 1000000
    MaxFixes        \* KS_MEMORY_FIXES

ASSUME TableAssumption ==
    /\ {Slots, MaxWords, Share, MaxCount, MaxFixes} \subseteq Nat \ {0}
    /\ Slots > MaxWords /\ Share <= MaxWords
    /\ Hash \in [Words -> 0 .. Slots - 1]

Absent == 0
Known == 3          \* KS_MEMORY_KNOWN_COUNT
Least(a, b) == IF a < b THEN a ELSE b

EmptyTable == [words |-> <<>>, slots |-> [s \in 0 .. Slots - 1 |-> Absent],
               clock |-> 0, aged |-> 0]

-----------------------------------------------------------------------------
\* find_word: the first slot from the hash on that is empty or holds w, with
\* slots naming positions in words.
Probe(w, d) == (Hash[w] + d) % Slots
Stops(words, slots, w, d) ==
    LET entry == slots[Probe(w, d)] IN entry = Absent \/ words[entry].text = w
SlotOf(words, slots, w) ==
    Probe(w, CHOOSE d \in 0 .. Slots - 1 :
                /\ Stops(words, slots, w, d)
                /\ \A e \in 0 .. d - 1 : ~Stops(words, slots, w, e))
Find(t, w) == t.slots[SlotOf(t.words, t.slots, w)]

\* ks_memory_word_count.
CountOf(t, w) == LET i == Find(t, w) IN IF i = Absent THEN 0 ELSE t.words[i].count

\* Mutant: each word is put at its hash, whatever is there.
RebuiltAtHash(words) ==
    [s \in 0 .. Slots - 1 |->
        IF \E i \in DOMAIN words : Hash[words[i].text] = s
          THEN CHOOSE i \in DOMAIN words : Hash[words[i].text] = s ELSE Absent]
\* rebuild_slots: the words are placed anew, one after the other.
Rebuilt(words) ==
    LET placed[i \in 0 .. Len(words)] ==
          IF i = 0 THEN EmptyTable.slots
          ELSE [placed[i - 1] EXCEPT ![SlotOf(words, placed[i - 1], words[i].text)] = i]
    IN  placed[Len(words)]

\* Mutant: the most recently seen first.
BeforeByAge(a, b) == a.seen > b.seen \/ (a.seen = b.seen /\ a.count > b.count)
\* by_count_descending: most used first, then most recently seen.
Before(a, b) == a.count > b.count \/ (a.count = b.count /\ a.seen > b.seen)

\* What qsort may make of a set of words: equal ones come in any order.
Ranked(entries) == {s \in SetToSeqs(entries) :
                      \A i, j \in DOMAIN s : Before(s[j], s[i]) => j < i}

\* Mutant: a word in use loses the larger share as well.
AgedAlike(w, aged) ==
    [w EXCEPT !.count = IF @ > 1 THEN @ - (@ + 3) \div 4 ELSE @]
\* A word seen since the last eviction loses the smaller share of its count.
Aged(w, aged) ==
    [w EXCEPT !.count = IF w.seen > aged THEN @ - @ \div 4
                        ELSE IF @ > 1 THEN @ - (@ + 3) \div 4 ELSE @]

\* evict_words.
Evicted(t) ==
    LET Kept(s) == [i \in 1 .. MaxWords - MaxWords \div Share |-> Aged(s[i], t.aged)]
    IN  {[t EXCEPT !.words = Kept(s), !.slots = Rebuilt(Kept(s)), !.aged = t.clock] :
            s \in Ranked(ToSet(t.words))}

\* add_word_count of a word that is not in the table.
Added(t, w, n) ==
    [t EXCEPT !.words = Append(@, [text |-> w, count |-> Least(n, MaxCount), seen |-> t.clock]),
              !.slots[SlotOf(t.words, t.slots, w)] = Len(t.words) + 1]

\* add_word_count, the tables it may leave.
Counted(t, w, n) ==
    LET u == [t EXCEPT !.clock = @ + 1]
        i == Find(t, w)
    IN  IF n = 0 THEN {t}
        ELSE IF i # Absent
          THEN {[u EXCEPT !.words[i].count = Least(@ + n, MaxCount), !.words[i].seen = u.clock]}
        ELSE IF Len(t.words) >= MaxWords THEN {Added(e, w, n) : e \in Evicted(u)}
        ELSE {Added(u, w, n)}

\* Mutant: a count of zero is counted down as well.
TakenBackBelow(t, w) ==
    LET i == Find(t, w) IN IF i = Absent THEN t ELSE [t EXCEPT !.words[i].count = @ - 1]
\* ks_memory_unobserve_word: a count of zero stays in the table.
TakenBack(t, w) ==
    LET i == Find(t, w)
    IN  IF i = Absent \/ CountOf(t, w) = 0 THEN t ELSE [t EXCEPT !.words[i].count = @ - 1]

\* ks_memory_serialize and ks_memory_parse: the words used at least twice are
\* sorted and come back in that order; none is older than another.
Reloaded(t) ==
    {[words |-> [i \in DOMAIN s |-> [s[i] EXCEPT !.seen = 1]], slots |-> Rebuilt(s),
      clock |-> 1, aged |-> 0] :
        s \in Ranked({e \in ToSet(t.words) : e.count >= 2})}

-----------------------------------------------------------------------------
\* find_fix.
FixOf(fixes, typo) ==
    IF \E i \in DOMAIN fixes : fixes[i].typo = typo
      THEN CHOOSE i \in DOMAIN fixes :
             fixes[i].typo = typo /\ \A j \in 1 .. i - 1 : fixes[j].typo # typo
      ELSE Absent
FixCount(fixes, typo) ==
    IF FixOf(fixes, typo) = Absent THEN 0 ELSE fixes[FixOf(fixes, typo)].count

\* The first of the repairs seen least.
Weakest(fixes) ==
    CHOOSE i \in DOMAIN fixes :
        /\ \A j \in DOMAIN fixes : fixes[i].count <= fixes[j].count
        /\ \A j \in 1 .. i - 1 : fixes[i].count < fixes[j].count

\* add_fix_count: another repair of the same typo starts at one.
Repaired(fixes, typo, fix) ==
    LET i == FixOf(fixes, typo)
        entry == [typo |-> typo, fix |-> fix, count |-> 1]
    IN  IF i # Absent /\ fixes[i].fix = fix
          THEN [fixes EXCEPT ![i].count = Least(@ + 1, MaxCount)]
        ELSE IF i # Absent THEN [fixes EXCEPT ![i] = entry]
        ELSE IF Len(fixes) >= MaxFixes THEN [fixes EXCEPT ![Weakest(fixes)] = entry]
        ELSE Append(fixes, entry)

\* ks_memory_reject_fix.
Rejected(fixes, typo) ==
    LET i == FixOf(fixes, typo)
    IN  IF i = Absent THEN fixes ELSE [fixes EXCEPT ![i].count = 0]

\* ks_memory_lookup_fix: 0 when nothing is learned; real words need a third
\* repair.
Learned(fixes, typo, real) ==
    LET i == FixOf(fixes, typo)
    IN  IF i # Absent /\ fixes[i].count >= (IF real THEN 3 ELSE 2) THEN i ELSE Absent
=============================================================================
