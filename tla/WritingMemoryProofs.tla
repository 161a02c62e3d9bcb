------------------------- MODULE WritingMemoryProofs ------------------------
(* The writing memory, for any words, any hash and any tables: every word is *)
(* found, and the repairs that are made were earned.                         *)
EXTENDS WritingMemory, FiniteSetTheorems, SequenceTheorems, WellFoundedInduction, TLAPS

(***************************************************************************)
(* The table of words: open addressing finds every word.                    *)
(***************************************************************************)
Positions == 0 .. Slots - 1
WordEntries == [text : Words, count : 0 .. MaxCount, seen : Nat]

\* No word is in the table twice.
Distinct(ws) == \A i, j \in DOMAIN ws : ws[i].text = ws[j].text => i = j

\* The slots hold the first n words, each at one place that is reached from its hash
\* over slots that are taken.
Reached(ws, slots, i, d) ==
    /\ slots[Probe(ws[i].text, d)] = i
    /\ \A e \in 0 .. d - 1 : slots[Probe(ws[i].text, e)] # Absent
Holds(ws, slots, n) ==
    /\ slots \in [Positions -> 0 .. n]
    /\ \A s, r \in Positions : slots[s] = slots[r] /\ slots[s] # Absent => s = r
    /\ \A i \in 1 .. n : ws[i].text \in Words /\ \E d \in Positions : Reached(ws, slots, i, d)

\* A set of numbers that is not empty has a smallest member.
LEMMA Smallest == ASSUME NEW T \in SUBSET Nat, T # {} PROVE \E x \in T : \A y \in T : x <= y
<1>1. PICK x \in T : \A y \in T : ~(<<y, x>> \in OpToRel(<, Nat))
  BY NatLessThanWellFounded, WFMin
<1>2. \A y \in T : ~(y < x)
  BY <1>1, Zenon DEF OpToRel
<1>3. x \in T
  BY <1>1, Zenon
<1>4. \A y \in T : x <= y
  BY <1>2, <1>3
<1> QED BY <1>3, <1>4, Zenon

\* The constants as numbers.
LEMMA Numbers ==
    /\ Slots \in Nat /\ MaxWords \in Nat /\ Share \in Nat /\ MaxCount \in Nat /\ MaxFixes \in Nat
    /\ 0 < MaxWords /\ MaxWords < Slots /\ 0 < Share /\ Share <= MaxWords /\ 0 < MaxCount /\ 0 < MaxFixes
    /\ \A w \in Words : Hash[w] \in Positions
BY TableAssumption DEF Positions

\* A remainder after at most one subtraction.
LEMMA Remainder ==
    ASSUME NEW a \in Nat, NEW b \in Nat, b > 0, a < b + b
    PROVE  a % b = IF a < b THEN a ELSE a - b
OBVIOUS

\* Probing stays in the table,
LEMMA ProbeStays == ASSUME NEW w \in Words, NEW d \in Positions PROVE Probe(w, d) \in Positions
<1>1. Hash[w] \in Nat /\ Hash[w] < Slots /\ d \in Nat /\ d < Slots /\ Slots \in Nat
  BY Numbers DEF Positions
<1> DEFINE a == Hash[w] + d
<1>2. a \in Nat /\ a < Slots + Slots /\ Slots > 0
  BY <1>1
<1>3. a % Slots = IF a < Slots THEN a ELSE a - Slots
  <2> HIDE DEF a
  <2> QED BY <1>1, <1>2, Remainder
<1>4. a % Slots \in Positions
  BY <1>1, <1>2, <1>3 DEF Positions
<1> QED BY <1>4 DEF Probe

\* and comes to every slot.
LEMMA ProbeReaches ==
    ASSUME NEW w \in Words, NEW s \in Positions PROVE \E d \in Positions : Probe(w, d) = s
<1>1. Hash[w] \in Nat /\ Hash[w] < Slots /\ s \in Nat /\ s < Slots /\ Slots \in Nat
  BY Numbers DEF Positions
<1> DEFINE d == IF s >= Hash[w] THEN s - Hash[w] ELSE s - Hash[w] + Slots
<1>2. d \in Nat /\ d < Slots /\ Hash[w] + d = IF s >= Hash[w] THEN s ELSE s + Slots
  BY <1>1
<1> DEFINE a == Hash[w] + d
<1>3. a \in Nat /\ a < Slots + Slots /\ Slots > 0 /\ s = IF a < Slots THEN a ELSE a - Slots
  BY <1>1, <1>2
<1>4. a % Slots = s
  <2> HIDE DEF a
  <2> QED BY <1>1, <1>3, Remainder
<1> QED BY <1>1, <1>2, <1>4 DEF Probe, Positions

\* A table with fewer words than slots has a free one.
LEMMA FreeSlot ==
    ASSUME NEW n \in Nat, n < Slots, NEW slots \in [Positions -> 0 .. n],
           \A s, r \in Positions : slots[s] = slots[r] /\ slots[s] # Absent => s = r
    PROVE  \E s \in Positions : slots[s] = Absent
<1> SUFFICES ASSUME \A s \in Positions : slots[s] # Absent PROVE FALSE
  OBVIOUS
<1>1. slots \in [Positions -> 1 .. n]
  BY DEF Absent
<1>2. IsFiniteSet(Positions) /\ Cardinality(Positions) = Slots
  BY FS_Interval, Numbers DEF Positions
<1>3. IsFiniteSet(1 .. n) /\ Cardinality(1 .. n) = n
  BY FS_Interval
<1>4. Cardinality(1 .. n) < Cardinality(Positions)
  BY <1>2, <1>3
<1>5. \E s, r \in Positions : s # r /\ slots[s] = slots[r]
  BY <1>1, <1>2, <1>3, <1>4, FS_PigeonHole
<1> QED BY <1>5

\* Where the search for a word ends.
LEMMA SearchEnds ==
    ASSUME NEW ws, NEW n \in Nat, n < Slots, NEW slots, Holds(ws, slots, n), NEW w \in Words
    PROVE  \E d \in Positions : /\ SlotOf(ws, slots, w) = Probe(w, d)
                                /\ Stops(ws, slots, w, d)
                                /\ \A e \in 0 .. d - 1 : ~Stops(ws, slots, w, e)
<1> DEFINE T == {d \in Positions : Stops(ws, slots, w, d)}
           First(d) == Stops(ws, slots, w, d) /\ \A e \in 0 .. d - 1 : ~Stops(ws, slots, w, e)
<1>1. PICK s \in Positions : slots[s] = Absent
  BY FreeSlot DEF Holds
<1>2. PICK d \in Positions : Probe(w, d) = s
  BY ProbeReaches
<1>3. d \in T
  BY <1>1, <1>2 DEF Stops
<1>4. T \subseteq Nat /\ T # {}
  BY <1>3 DEF Positions
<1>5. PICK f \in T : \A e \in T : f <= e
  BY <1>4, Smallest
<1>6. f \in Positions /\ f \in Nat
  BY <1>4, <1>5
<1>7. First(f)
  <2>1. Stops(ws, slots, w, f)
    BY <1>5
  <2>2. ASSUME NEW e \in 0 .. f - 1 PROVE ~Stops(ws, slots, w, e)
    <3>1. e \in Positions /\ ~(f <= e)
      BY <1>6, Numbers DEF Positions
    <3> QED BY <1>5, <3>1
  <2> QED BY <2>1, <2>2
<1>8. SlotOf(ws, slots, w) = Probe(w, CHOOSE x \in Positions : First(x))
  BY Zenon DEF SlotOf, Positions
<1> HIDE DEF First
<1>9. (CHOOSE x \in Positions : First(x)) \in Positions /\ First(CHOOSE x \in Positions : First(x))
  BY <1>6, <1>7, Zenon
<1> QED BY <1>8, <1>9 DEF First

\* A word is found where it is, and nowhere when it is not there.
LEMMA Found ==
    ASSUME NEW ws, NEW n \in Nat, n < Slots, NEW slots, Holds(ws, slots, n), NEW w \in Words
    PROVE  /\ SlotOf(ws, slots, w) \in Positions
           /\ slots[SlotOf(ws, slots, w)] \in 0 .. n
           /\ slots[SlotOf(ws, slots, w)] = Absent => \A i \in 1 .. n : ws[i].text # w
           /\ slots[SlotOf(ws, slots, w)] # Absent => ws[slots[SlotOf(ws, slots, w)]].text = w
<1>1. PICK d \in Positions : /\ SlotOf(ws, slots, w) = Probe(w, d)
                             /\ Stops(ws, slots, w, d)
                             /\ \A e \in 0 .. d - 1 : ~Stops(ws, slots, w, e)
  BY SearchEnds
<1>2. Probe(w, d) \in Positions
  BY ProbeStays
<1>3. slots \in [Positions -> 0 .. n]
  BY DEF Holds
<1>4. slots[Probe(w, d)] # Absent => ws[slots[Probe(w, d)]].text = w
  BY <1>1 DEF Stops
<1>5. ASSUME slots[Probe(w, d)] = Absent, NEW i \in 1 .. n, ws[i].text = w PROVE FALSE
  <2>1. PICK f \in Positions : Reached(ws, slots, i, f)
    BY DEF Holds
  <2>2. slots[Probe(w, f)] = i /\ i # Absent /\ \A e \in 0 .. f - 1 : slots[Probe(w, e)] # Absent
    BY <1>5, <2>1 DEF Reached, Absent
  <2>3. Stops(ws, slots, w, f)
    BY <1>5, <2>2 DEF Stops
  <2>4. d \in Nat /\ f \in Nat
    BY DEF Positions
  <2>5. ~(f < d)
    BY <1>1, <2>3, <2>4
  <2>6. ~(d < f)
    BY <1>5, <2>2, <2>4
  <2>7. d = f
    BY <2>4, <2>5, <2>6
  <2> QED BY <1>5, <2>2, <2>7
<1> QED BY <1>1, <1>2, <1>3, <1>4, <1>5, Zenon

\* A word that is not there yet is put where the search for it ends.
LEMMA PlacedNext ==
    ASSUME NEW ws, NEW n \in Nat, n < Slots, NEW slots, Holds(ws, slots, n), NEW w \in Words,
           \A i \in 1 .. n : ws[i].text # w,
           NEW more, \A i \in 1 .. n : more[i].text = ws[i].text, more[n + 1].text = w
    PROVE  Holds(more, [slots EXCEPT ![SlotOf(ws, slots, w)] = n + 1], n + 1)
<1> DEFINE at == SlotOf(ws, slots, w)
           next == [slots EXCEPT ![at] = n + 1]
<1>1. at \in Positions /\ slots \in [Positions -> 0 .. n]
  BY Found DEF Holds
<1>2. slots[at] = Absent
  <2>1. slots[at] \in 0 .. n /\ (slots[at] # Absent => ws[slots[at]].text = w)
    BY Found
  <2> QED BY <2>1 DEF Absent
<1>3. PICK d \in Positions : /\ at = Probe(w, d)
                             /\ Stops(ws, slots, w, d)
                             /\ \A e \in 0 .. d - 1 : ~Stops(ws, slots, w, e)
  BY SearchEnds
<1> HIDE DEF at
<1>4. next \in [Positions -> 0 .. n + 1]
  BY <1>1
<1>5. ASSUME NEW s \in Positions, NEW r \in Positions, next[s] = next[r], next[s] # Absent PROVE s = r
  BY <1>1, <1>5 DEF Holds
<1>6. ASSUME NEW i \in 1 .. n
      PROVE  more[i].text \in Words /\ \E f \in Positions : Reached(more, next, i, f)
  <2>1. ws[i].text \in Words /\ more[i].text = ws[i].text
    BY DEF Holds
  <2>2. PICK f \in Positions : Reached(ws, slots, i, f)
    BY DEF Holds
  <2>3. \A e \in Positions : Probe(ws[i].text, e) \in Positions
    BY <2>1, ProbeStays
  <2>4. next[Probe(ws[i].text, f)] = i
    BY <1>1, <1>2, <2>2, <2>3 DEF Reached, Absent
  <2>5. ASSUME NEW e \in 0 .. f - 1 PROVE next[Probe(ws[i].text, e)] # Absent
    <3>1. e \in Positions
      BY Numbers DEF Positions
    <3>2. slots[Probe(ws[i].text, e)] # Absent
      BY <2>2 DEF Reached
    <3> QED BY <1>1, <2>3, <3>1, <3>2 DEF Absent
  <2> HIDE DEF next
  <2> QED BY <2>1, <2>4, <2>5 DEF Reached
<1>7. more[n + 1].text \in Words /\ Reached(more, next, n + 1, d)
  <2>1. next[Probe(w, d)] = n + 1
    BY <1>1, <1>3
  <2>2. ASSUME NEW e \in 0 .. d - 1 PROVE next[Probe(w, e)] # Absent
    <3>1. slots[Probe(w, e)] # Absent
      BY <1>3 DEF Stops
    <3>2. Probe(w, e) \in Positions
      BY ProbeStays, Numbers DEF Positions
    <3> QED BY <1>1, <3>1, <3>2 DEF Absent
  <2> HIDE DEF next
  <2> QED BY <2>1, <2>2 DEF Reached
<1>8. \A i \in 1 .. n + 1 : i \in 1 .. n \/ i = n + 1
  OBVIOUS
<1> HIDE DEF next
<1>9. Holds(more, next, n + 1)
  BY <1>4, <1>5, <1>6, <1>7, <1>8 DEF Holds
<1> QED BY <1>9 DEF next, at

\* No word is in an empty table.
LEMMA NothingPlaced == ASSUME NEW ws PROVE Holds(ws, EmptyTable.slots, 0)
BY DEF Holds, EmptyTable, Positions, Absent

-----------------------------------------------------------------------------
(* The slots rebuilt: the recursion over the words is well defined, and each *)
(* word it has placed stays where it is found.                               *)

\* One word after the other, up to the n-th.
IsPlacing(ws, n, f) ==
    f = [i \in 0 .. n |-> IF i = 0 THEN EmptyTable.slots
                          ELSE [f[i - 1] EXCEPT ![SlotOf(ws, f[i - 1], ws[i].text)] = i]]

\* There is such a placing for every number of words.
LEMMA PlacingExists == ASSUME NEW ws, NEW n \in Nat PROVE \E f : IsPlacing(ws, n, f)
<1> DEFINE T == {k \in Nat : ~\E f : IsPlacing(ws, k, f)}
<1> SUFFICES ASSUME T # {} PROVE FALSE
  OBVIOUS
<1>1. PICK k \in T : \A j \in T : k <= j
  BY Smallest
<1>2. k \in Nat /\ ~\E f : IsPlacing(ws, k, f)
  OBVIOUS
<1>3. k # 0
  <2> DEFINE f == [i \in 0 .. 0 |-> EmptyTable.slots]
  <2>1. IsPlacing(ws, 0, f)
    BY DEF IsPlacing
  <2> QED BY <1>2, <2>1
<1>4. k - 1 \in Nat /\ ~(k <= k - 1)
  BY <1>2, <1>3
<1>5. PICK g : IsPlacing(ws, k - 1, g)
  BY <1>1, <1>4
<1> DEFINE h == [i \in 0 .. k |-> IF i < k THEN g[i]
                                  ELSE [g[i - 1] EXCEPT ![SlotOf(ws, g[i - 1], ws[i].text)] = i]]
           step == [i \in 0 .. k |-> IF i = 0 THEN EmptyTable.slots
                                     ELSE [h[i - 1] EXCEPT ![SlotOf(ws, h[i - 1], ws[i].text)] = i]]
<1>6. ASSUME NEW i \in 0 .. k PROVE h[i] = step[i]
  <2>1. i # 0 => i - 1 \in 0 .. k /\ i - 1 < k /\ h[i - 1] = g[i - 1]
    BY <1>2
  <2>2. i < k => i \in 0 .. k - 1 /\ h[i] = g[i]
    BY <1>2
  <2>3. i \in 0 .. k - 1 => g[i] = IF i = 0 THEN EmptyTable.slots
                               ELSE [g[i - 1] EXCEPT ![SlotOf(ws, g[i - 1], ws[i].text)] = i]
    BY <1>5 DEF IsPlacing
  <2>4. ~(i < k) => h[i] = [g[i - 1] EXCEPT ![SlotOf(ws, g[i - 1], ws[i].text)] = i] /\ i # 0
    BY <1>2, <1>3
  <2>5. step[i] = IF i = 0 THEN EmptyTable.slots
                  ELSE [h[i - 1] EXCEPT ![SlotOf(ws, h[i - 1], ws[i].text)] = i]
    OBVIOUS
  <2> HIDE DEF h, step
  <2> QED BY <2>1, <2>2, <2>3, <2>4, <2>5
<1>7. h = step
  BY <1>6
<1>8. IsPlacing(ws, k, h)
  BY <1>7 DEF IsPlacing
<1> QED BY <1>2, <1>8

\* A placing of words that differ holds each word it has placed.
LEMMA PlacingHolds ==
    ASSUME NEW ws \in Seq(WordEntries), Distinct(ws), Len(ws) < Slots,
           NEW f, IsPlacing(ws, Len(ws), f)
    PROVE  \A i \in 0 .. Len(ws) : Holds(ws, f[i], i)
<1> DEFINE n == Len(ws)
           T == {k \in 0 .. n : ~Holds(ws, f[k], k)}
<1>0. n \in Nat /\ DOMAIN ws = 1 .. n
  OBVIOUS
<1> SUFFICES ASSUME T # {} PROVE FALSE
  OBVIOUS
<1>1. T \subseteq Nat
  BY <1>0
<1>2. PICK k \in T : \A j \in T : k <= j
  BY <1>1, Smallest
<1>3. k \in 0 .. n /\ k \in Nat /\ ~Holds(ws, f[k], k)
  BY <1>1
<1>4. k # 0
  <2>1. f[0] = EmptyTable.slots
    BY <1>0 DEF IsPlacing
  <2> QED BY <1>3, <2>1, NothingPlaced
<1> DEFINE m == k - 1
<1>5. m \in Nat /\ m \in 0 .. n /\ m < n /\ m + 1 = k /\ ~(k <= m) /\ k \in 1 .. n
  BY <1>0, <1>3, <1>4
<1>6. Holds(ws, f[m], m)
  BY <1>2, <1>5
<1>7. f[k] = [f[m] EXCEPT ![SlotOf(ws, f[m], ws[k].text)] = m + 1]
  BY <1>0, <1>3, <1>4, <1>5 DEF IsPlacing
<1>8. ws[k] \in WordEntries
  BY <1>0, <1>5
<1>9. ws[k].text \in Words
  BY <1>8 DEF WordEntries
<1>10. \A i \in 1 .. m : ws[i].text # ws[k].text
  <2>1. \A i \in 1 .. m : i \in DOMAIN ws /\ k \in DOMAIN ws /\ i # k
    BY <1>0, <1>5
  <2> QED BY <2>1 DEF Distinct
<1>11. m < Slots
  BY <1>0, <1>5, Numbers
<1> HIDE DEF m
<1>12. ws[m + 1].text = ws[k].text
  BY <1>5
<1>13. Holds(ws, [f[m] EXCEPT ![SlotOf(ws, f[m], ws[k].text)] = m + 1], m + 1)
  BY <1>5, <1>6, <1>9, <1>10, <1>11, <1>12, PlacedNext
<1> QED BY <1>3, <1>5, <1>7, <1>13

\* The rebuilt slots find every word.
LEMMA RebuiltHolds ==
    ASSUME NEW ws \in Seq(WordEntries), Distinct(ws), Len(ws) < Slots
    PROVE  Holds(ws, Rebuilt(ws), Len(ws))
<1>1. Len(ws) \in Nat
  OBVIOUS
<1> DEFINE f == CHOOSE g : IsPlacing(ws, Len(ws), g)
<1>2. IsPlacing(ws, Len(ws), f)
  BY <1>1, PlacingExists, Zenon
<1>3. Rebuilt(ws) = f[Len(ws)]
  BY Zenon DEF Rebuilt, IsPlacing
<1> HIDE DEF f
<1>4. Len(ws) \in 0 .. Len(ws)
  BY <1>1
<1> QED BY <1>2, <1>3, <1>4, PlacingHolds

-----------------------------------------------------------------------------
(* Tables.                                                                  *)

\* A table of words that are all found.
TableOK(t) ==
    /\ t \in [words : Seq(WordEntries), slots : [Positions -> Nat], clock : Nat, aged : Nat]
    /\ Len(t.words) <= MaxWords
    /\ \A i \in DOMAIN t.words : t.words[i].seen <= t.clock
    /\ Distinct(t.words)
    /\ Holds(t.words, t.slots, Len(t.words))

\* The facts about a table the proofs below need, in one place.
LEMMA Table ==
    ASSUME NEW t, TableOK(t)
    PROVE  /\ t.words \in Seq(WordEntries) /\ t.clock \in Nat /\ t.aged \in Nat
           /\ t.slots \in [Positions -> Nat] /\ Len(t.words) \in Nat /\ Len(t.words) <= MaxWords
           /\ Len(t.words) < Slots /\ DOMAIN t.words = 1 .. Len(t.words)
           /\ Distinct(t.words) /\ Holds(t.words, t.slots, Len(t.words))
           /\ \A i \in DOMAIN t.words : /\ t.words[i].text \in Words /\ t.words[i].count \in 0 .. MaxCount
                                        /\ t.words[i].seen \in Nat /\ t.words[i].seen <= t.clock
                                        /\ t.words[i] \in WordEntries
<1>1. /\ t.words \in Seq(WordEntries) /\ t.clock \in Nat /\ t.aged \in Nat
      /\ t.slots \in [Positions -> Nat] /\ Len(t.words) <= MaxWords
      /\ Distinct(t.words) /\ Holds(t.words, t.slots, Len(t.words))
      /\ \A i \in DOMAIN t.words : t.words[i].seen <= t.clock
  BY DEF TableOK
<1>2. Len(t.words) \in Nat /\ DOMAIN t.words = 1 .. Len(t.words)
      /\ \A i \in DOMAIN t.words : t.words[i] \in WordEntries
  BY <1>1
<1>3. Len(t.words) < Slots
  BY <1>1, <1>2, Numbers
<1>4. \A e \in WordEntries : e.text \in Words /\ e.count \in 0 .. MaxCount /\ e.seen \in Nat
  BY DEF WordEntries
<1> QED BY <1>1, <1>2, <1>3, <1>4, Zenon

\* What slots hold depends on the texts alone.
LEMMA SameTexts ==
    ASSUME NEW ws, NEW more, NEW n \in Nat, NEW slots, Holds(ws, slots, n),
           \A i \in 1 .. n : more[i].text = ws[i].text
    PROVE  Holds(more, slots, n)
<1>1. \A i \in 1 .. n : \A d : Reached(ws, slots, i, d) => Reached(more, slots, i, d)
  BY DEF Reached
<1> QED BY <1>1 DEF Holds

\* A search finds the word, and its count.
LEMMA Lookup ==
    ASSUME NEW t, TableOK(t), NEW w \in Words
    PROVE  /\ Find(t, w) \in 0 .. Len(t.words)
           /\ Find(t, w) = Absent => (\A i \in DOMAIN t.words : t.words[i].text # w) /\ CountOf(t, w) = 0
           /\ Find(t, w) # Absent => /\ Find(t, w) \in DOMAIN t.words /\ t.words[Find(t, w)].text = w
                                     /\ CountOf(t, w) = t.words[Find(t, w)].count
<1>1. /\ Len(t.words) \in Nat /\ Len(t.words) < Slots /\ DOMAIN t.words = 1 .. Len(t.words)
      /\ Holds(t.words, t.slots, Len(t.words))
  BY Table
<1>2. /\ Find(t, w) \in 0 .. Len(t.words)
      /\ Find(t, w) = Absent => \A i \in 1 .. Len(t.words) : t.words[i].text # w
      /\ Find(t, w) # Absent => t.words[Find(t, w)].text = w
  BY <1>1, Found DEF Find
<1>3. CountOf(t, w) = IF Find(t, w) = Absent THEN 0 ELSE t.words[Find(t, w)].count
  BY DEF CountOf
<1> HIDE DEF Find
<1> QED BY <1>1, <1>2, <1>3 DEF Absent

\* In particular a word of the table at its own place.
LEMMA LookupOwn ==
    ASSUME NEW t, TableOK(t), NEW i \in DOMAIN t.words
    PROVE  Find(t, t.words[i].text) = i /\ CountOf(t, t.words[i].text) = t.words[i].count
<1> DEFINE j == Find(t, t.words[i].text)
<1>1. t.words[i].text \in Words /\ Distinct(t.words)
  BY Table
<1>2. j # Absent /\ j \in DOMAIN t.words /\ t.words[j].text = t.words[i].text
      /\ CountOf(t, t.words[i].text) = t.words[j].count
  BY <1>1, Lookup
<1> HIDE DEF j
<1>3. j = i
  BY <1>1, <1>2 DEF Distinct
<1> QED BY <1>2, <1>3 DEF j

\* Parts make a table.
LEMMA IsTable ==
    ASSUME NEW ws \in Seq(WordEntries), NEW slots, NEW clock \in Nat, NEW aged \in Nat,
           Len(ws) <= MaxWords, \A i \in DOMAIN ws : ws[i].seen <= clock, Distinct(ws),
           Holds(ws, slots, Len(ws)),
           NEW t, t = [words |-> ws, slots |-> slots, clock |-> clock, aged |-> aged]
    PROVE  TableOK(t)
<1>1. Len(ws) \in Nat
  OBVIOUS
<1>2. slots \in [Positions -> 0 .. Len(ws)]
  BY DEF Holds
<1>3. slots \in [Positions -> Nat]
  BY <1>1, <1>2
<1>4. t.words = ws /\ t.slots = slots /\ t.clock = clock /\ t.aged = aged
      /\ t \in [words : Seq(WordEntries), slots : [Positions -> Nat], clock : Nat, aged : Nat]
  BY <1>3
<1> QED BY <1>4 DEF TableOK

\* The table at the start.
LEMMA EmptyOK == TableOK(EmptyTable)
<1>1. /\ EmptyTable = [words |-> <<>>, slots |-> EmptyTable.slots, clock |-> 0, aged |-> 0]
  BY DEF EmptyTable
<1>2. <<>> \in Seq(WordEntries) /\ Len(<<>>) = 0 /\ DOMAIN <<>> = {}
  OBVIOUS
<1>3. Holds(<<>>, EmptyTable.slots, 0)
  BY NothingPlaced
<1>4. Distinct(<<>>)
  BY <1>2 DEF Distinct
<1> DEFINE ws == <<>>
<1>5. ws \in Seq(WordEntries) /\ Len(ws) <= MaxWords /\ (\A i \in DOMAIN ws : ws[i].seen <= 0)
      /\ Distinct(ws) /\ Holds(ws, EmptyTable.slots, Len(ws)) /\ 0 \in Nat
  BY <1>2, <1>3, <1>4, Numbers
<1> HIDE DEF ws
<1> QED BY <1>1, <1>5, IsTable DEF ws

-----------------------------------------------------------------------------
(* Counting a word.                                                         *)

\* The smaller of two counts is a count.
LEMMA LeastCount ==
    ASSUME NEW m \in Nat PROVE Least(m, MaxCount) \in 0 .. MaxCount
BY Numbers DEF Least

\* An entry that keeps its text may change its count and when it was seen.
LEMMA Recounted ==
    ASSUME NEW t, TableOK(t), NEW i \in DOMAIN t.words, NEW c \in 0 .. MaxCount,
           NEW clock \in Nat, t.clock <= clock, NEW seen \in Nat, seen <= clock,
           NEW x, x = [words |-> [t.words EXCEPT ![i] = [text |-> t.words[i].text, count |-> c, seen |-> seen]],
                       slots |-> t.slots, clock |-> clock, aged |-> t.aged]
    PROVE  TableOK(x)
<1> DEFINE ws == [t.words EXCEPT ![i] = [text |-> t.words[i].text, count |-> c, seen |-> seen]]
           n == Len(t.words)
<1>1. /\ t.words \in Seq(WordEntries) /\ n \in Nat /\ n <= MaxWords /\ DOMAIN t.words = 1 .. n
      /\ Distinct(t.words) /\ Holds(t.words, t.slots, n) /\ t.clock \in Nat /\ t.aged \in Nat
      /\ \A k \in DOMAIN t.words : t.words[k].text \in Words /\ t.words[k].seen \in Nat /\ t.words[k].seen <= t.clock
  BY Table
<1>2. [text |-> t.words[i].text, count |-> c, seen |-> seen] \in WordEntries
  BY <1>1 DEF WordEntries
<1>3. ws \in Seq(WordEntries) /\ Len(ws) = n /\ DOMAIN ws = 1 .. n
  BY <1>1, <1>2
<1>4. \A k \in 1 .. n : ws[k].text = t.words[k].text
  BY <1>1
<1>5. \A k \in 1 .. n : ws[k].seen <= clock
  BY <1>1
<1> HIDE DEF ws
<1>6. Distinct(ws)
  BY <1>1, <1>3, <1>4 DEF Distinct
<1>7. Holds(ws, t.slots, Len(ws))
  BY <1>1, <1>3, <1>4, SameTexts
<1> HIDE DEF n
<1>8. Len(ws) <= MaxWords
  BY <1>1, <1>3
<1> QED BY <1>1, <1>3, <1>5, <1>6, <1>7, <1>8, IsTable DEF ws

\* Entries and tables, field by field.
LEMMA EntryFields ==
    ASSUME NEW e \in WordEntries, NEW c
    PROVE  [e EXCEPT !.count = c] = [text |-> e.text, count |-> c, seen |-> e.seen]
BY DEF WordEntries

\* An entry seen at another time.
LEMMA EntrySeen ==
    ASSUME NEW text, NEW c, NEW old, NEW seen, NEW f, f = [text |-> text, count |-> c, seen |-> old]
    PROVE  [f EXCEPT !.seen = seen] = [text |-> text, count |-> c, seen |-> seen]
OBVIOUS

\* A table with other words, and with other words and one slot changed.
LEMMA TableFields ==
    ASSUME NEW S, NEW t \in [words : S, slots : [Positions -> Nat], clock : Nat, aged : Nat], NEW ws
    PROVE  [t EXCEPT !.words = ws] = [words |-> ws, slots |-> t.slots, clock |-> t.clock, aged |-> t.aged]
OBVIOUS

\* The same with one slot changed.
LEMMA TableSlot ==
    ASSUME NEW words, NEW slots, NEW clock, NEW aged, NEW k, NEW v,
           NEW t, t = [words |-> words, slots |-> slots, clock |-> clock, aged |-> aged]
    PROVE  [t EXCEPT !.slots[k] = v]
             = [words |-> words, slots |-> [slots EXCEPT ![k] = v], clock |-> clock, aged |-> aged]
OBVIOUS

\* A use taken back.
LEMMA TakenBackOK ==
    ASSUME NEW t, TableOK(t), NEW w \in Words
    PROVE  /\ TableOK(TakenBack(t, w))
           /\ \/ TakenBack(t, w) = t
              \/ \E i \in DOMAIN t.words :
                   /\ t.words[i].text = w /\ t.words[i].count > 0
                   /\ TakenBack(t, w).words
                        = [t.words EXCEPT ![i] = [text |-> w, count |-> t.words[i].count - 1, seen |-> t.words[i].seen]]
<1> DEFINE i == Find(t, w)
<1>1. CASE i = Absent \/ CountOf(t, w) = 0
  <2>1. TakenBack(t, w) = t
    BY <1>1, Zenon DEF TakenBack
  <2> QED BY <2>1
<1>2. CASE ~(i = Absent \/ CountOf(t, w) = 0)
  <2> DEFINE e == t.words[i]
             entry == [text |-> e.text, count |-> e.count - 1, seen |-> e.seen]
             x == [words |-> [t.words EXCEPT ![i] = entry], slots |-> t.slots, clock |-> t.clock, aged |-> t.aged]
  <2>1. i \in DOMAIN t.words /\ e.text = w /\ CountOf(t, w) = e.count
    BY <1>2, Lookup
  <2>2. /\ t \in [words : Seq(WordEntries), slots : [Positions -> Nat], clock : Nat, aged : Nat]
        /\ e \in WordEntries /\ e.seen \in Nat /\ e.seen <= t.clock /\ e.count \in 0 .. MaxCount /\ t.clock \in Nat
    BY <2>1, Table DEF TableOK
  <2>3. e.count - 1 \in 0 .. MaxCount /\ e.count > 0
    BY <1>2, <2>1, <2>2, Numbers
  <2>4. TakenBack(t, w) = [t EXCEPT !.words[i].count = @ - 1]
    BY <1>2, Zenon DEF TakenBack
  <2> HIDE DEF i
  <2>5. [t EXCEPT !.words[i].count = @ - 1] = x
    <3>1. [e EXCEPT !.count = e.count - 1] = entry
      <4> HIDE DEF e
      <4> QED BY <2>2, EntryFields
    <3>2. [t EXCEPT !.words[i].count = @ - 1] = [t EXCEPT !.words = [t.words EXCEPT ![i] = entry]]
      BY <2>1, <2>2, <3>1
    <3> HIDE DEF entry
    <3>3. [t EXCEPT !.words = [t.words EXCEPT ![i] = entry]] = x
      BY <2>2, TableFields
    <3> QED BY <3>2, <3>3
  <2> HIDE DEF x
  <2>6. TableOK(x)
    <3>1. x = [words |-> [t.words EXCEPT ![i] = [text |-> t.words[i].text, count |-> e.count - 1, seen |-> e.seen]],
               slots |-> t.slots, clock |-> t.clock, aged |-> t.aged]
      BY DEF x
    <3> HIDE DEF e
    <3>2. t.clock <= t.clock
      BY <2>2
    <3> QED BY <2>1, <2>2, <2>3, <3>1, <3>2, Recounted
  <2>7. x.words = [t.words EXCEPT ![i] = entry]
    BY DEF x
  <2> QED BY <2>1, <2>3, <2>4, <2>5, <2>6, <2>7
<1> QED BY <1>1, <1>2

-----------------------------------------------------------------------------
(* Sorting words.                                                           *)

\* The words of a table, as a set.
LEMMA Entering ==
    ASSUME NEW ws \in Seq(WordEntries), Distinct(ws)
    PROVE  /\ IsFiniteSet(ToSet(ws)) /\ Cardinality(ToSet(ws)) = Len(ws)
           /\ ToSet(ws) \subseteq WordEntries
           /\ \A e \in ToSet(ws) : \E i \in DOMAIN ws : ws[i] = e
           /\ \A i \in DOMAIN ws : ws[i] \in ToSet(ws)
           /\ \A e, f \in ToSet(ws) : e.text = f.text => e = f
<1> DEFINE n == Len(ws)
           E == ToSet(ws)
<1>1. n \in Nat /\ DOMAIN ws = 1 .. n /\ \A i \in 1 .. n : ws[i] \in WordEntries
  OBVIOUS
<1>2. E = {ws[i] : i \in 1 .. n}
  BY <1>1 DEF ToSet
<1> HIDE DEF E
<1>3. ws \in [1 .. n -> E]
  BY <1>1, <1>2
<1>4. ws \in Surjection(1 .. n, E)
  BY <1>2, <1>3 DEF Surjection
<1>5. \A i, j \in 1 .. n : ws[i] = ws[j] => i = j
  BY <1>1 DEF Distinct
<1>6. ws \in Injection(1 .. n, E)
  BY <1>3, <1>5 DEF Injection, IsInjective
<1>7. IsFiniteSet(1 .. n) /\ Cardinality(1 .. n) = n
  <2> HIDE DEF n
  <2> QED BY <1>1, FS_Interval
<1>8. IsFiniteSet(E) /\ Cardinality(E) = n
  BY <1>4, <1>6, <1>7, FS_Surjection
<1>9. \A e, f \in E : e.text = f.text => e = f
  BY <1>1, <1>2 DEF Distinct
<1> HIDE DEF n
<1>10. E \subseteq WordEntries /\ (\A e \in E : \E i \in DOMAIN ws : ws[i] = e) /\ \A i \in DOMAIN ws : ws[i] \in E
  BY <1>1, <1>2
<1> QED BY <1>8, <1>9, <1>10 DEF E, n

\* Sorted words are those that were given, each once.
LEMMA Sorted ==
    ASSUME NEW ws \in Seq(WordEntries), Distinct(ws), NEW E \in SUBSET ToSet(ws), NEW s \in Ranked(E)
    PROVE  /\ s \in Seq(WordEntries) /\ Distinct(s)
           /\ Len(s) = Cardinality(E) /\ Len(s) \in Nat /\ Len(s) <= Len(ws) /\ DOMAIN s = 1 .. Len(s)
           /\ \A i \in DOMAIN s : s[i] \in E
           /\ \A e \in E : \E i \in DOMAIN s : s[i] = e
           /\ \A i, j \in DOMAIN s : Before(s[j], s[i]) => j < i
<1> DEFINE n == Cardinality(E)
<1>1. /\ IsFiniteSet(ToSet(ws)) /\ Cardinality(ToSet(ws)) = Len(ws)
      /\ ToSet(ws) \subseteq WordEntries
      /\ \A e, f \in ToSet(ws) : e.text = f.text => e = f
  BY Entering
<1>2. IsFiniteSet(E) /\ n <= Len(ws) /\ n \in Nat
  BY <1>1, FS_Subset, FS_CardinalityType
<1>3. /\ s \in [1 .. n -> E] /\ \A i, j \in 1 .. n : i # j => s[i] # s[j]
      /\ \A i, j \in DOMAIN s : Before(s[j], s[i]) => j < i
  BY Zenon DEF Ranked, SetToSeqs
<1> HIDE DEF n
<1>4. s \in Seq(E) /\ Len(s) = n /\ DOMAIN s = 1 .. n
  BY <1>2, <1>3
<1>5. E \subseteq WordEntries
  BY <1>1
<1>6. s \in Seq(WordEntries) /\ \A i \in DOMAIN s : s[i] \in E
  BY <1>2, <1>3, <1>4, <1>5
<1>7. Distinct(s)
  BY <1>1, <1>3, <1>4, <1>6 DEF Distinct
<1>8. s \in Injection(1 .. n, E)
  BY <1>3 DEF Injection, IsInjective
<1>9. IsFiniteSet(1 .. n) /\ Cardinality(1 .. n) = n
  BY <1>2, FS_Interval
<1>10. s \in Surjection(1 .. n, E)
  BY <1>2, <1>8, <1>9, FS_Injection DEF n
<1>11. \A e \in E : \E i \in DOMAIN s : s[i] = e
  BY <1>4, <1>10 DEF Surjection
<1> QED BY <1>2, <1>3, <1>4, <1>6, <1>7, <1>11 DEF n

-----------------------------------------------------------------------------
(* Eviction, new words, and the file.                                       *)

\* How many words an eviction leaves.
Staying == MaxWords - MaxWords \div Share

\* Some stay, and one at least goes.
LEMMA StayingOK == Staying \in Nat /\ Staying < MaxWords
<1>1. ASSUME NEW m \in Nat, NEW n \in Nat, 0 < n, n <= m PROVE m \div n \in 1 .. m
  BY <1>1
<1>2. MaxWords \div Share \in 1 .. MaxWords
  BY <1>1, Numbers
<1> QED BY <1>2, Numbers DEF Staying

\* Ageing keeps the word and leaves no larger count.
LEMMA AgedOK ==
    ASSUME NEW e \in WordEntries, NEW aged \in Nat
    PROVE  /\ Aged(e, aged) \in WordEntries
           /\ Aged(e, aged).text = e.text /\ Aged(e, aged).seen = e.seen
           /\ Aged(e, aged).count
                = IF e.seen > aged THEN e.count - e.count \div 4
                  ELSE IF e.count > 1 THEN e.count - (e.count + 3) \div 4 ELSE e.count
<1> DEFINE c == IF e.seen > aged THEN e.count - e.count \div 4
                ELSE IF e.count > 1 THEN e.count - (e.count + 3) \div 4 ELSE e.count
<1>1. e.text \in Words /\ e.count \in 0 .. MaxCount /\ e.seen \in Nat
  BY DEF WordEntries
<1>2. c \in 0 .. MaxCount
  BY <1>1, Numbers
<1>3. Aged(e, aged) = [e EXCEPT !.count = c]
  BY DEF Aged
<1> HIDE DEF c
<1>4. Aged(e, aged) = [text |-> e.text, count |-> c, seen |-> e.seen]
  BY <1>3, EntryFields
<1>5. Aged(e, aged).text = e.text /\ Aged(e, aged).count = c /\ Aged(e, aged).seen = e.seen
  BY <1>4
<1>6. Aged(e, aged) \in WordEntries
  BY <1>1, <1>2, <1>4 DEF WordEntries
<1> QED BY <1>5, <1>6 DEF c

\* An eviction keeps the most used words in their order, older.
LEMMA EvictedOK ==
    ASSUME NEW t, TableOK(t), Len(t.words) = MaxWords, NEW x \in Evicted(t)
    PROVE  /\ TableOK(x) /\ Len(x.words) = Staying /\ x.clock = t.clock /\ x.aged = t.clock
           /\ \E s \in Ranked(ToSet(t.words)) :
                /\ Len(s) = MaxWords
                /\ x.words = [i \in 1 .. Staying |-> Aged(s[i], t.aged)]
<1> DEFINE Old(s) == [i \in 1 .. Staying |-> Aged(s[i], t.aged)]
<1>1. PICK s \in Ranked(ToSet(t.words)) :
        x = [t EXCEPT !.words = Old(s), !.slots = Rebuilt(Old(s)), !.aged = t.clock]
  BY Zenon DEF Evicted, Staying
<1>2. t.words \in Seq(WordEntries) /\ Distinct(t.words) /\ t.clock \in Nat /\ t.aged \in Nat
      /\ t \in [words : Seq(WordEntries), slots : [Positions -> Nat], clock : Nat, aged : Nat]
      /\ \A i \in DOMAIN t.words : t.words[i].seen <= t.clock
  BY Table DEF TableOK
<1>3. Cardinality(ToSet(t.words)) = MaxWords /\ ToSet(t.words) \in SUBSET ToSet(t.words)
      /\ \A e \in ToSet(t.words) : \E i \in DOMAIN t.words : t.words[i] = e
  BY <1>2, Entering
<1>4. /\ s \in Seq(WordEntries) /\ Distinct(s) /\ Len(s) = MaxWords /\ DOMAIN s = 1 .. MaxWords
      /\ \A i \in DOMAIN s : s[i] \in ToSet(t.words)
  BY <1>1, <1>2, <1>3, Sorted
<1> DEFINE ws == Old(s)
<1>5. Staying \in Nat /\ Staying < MaxWords /\ \A i \in 1 .. Staying : i \in DOMAIN s
  BY <1>4, StayingOK, Numbers
<1>6. \A i \in DOMAIN s : s[i] \in WordEntries
  BY <1>4
<1>7. \A i \in 1 .. Staying : /\ ws[i] = Aged(s[i], t.aged) /\ ws[i] \in WordEntries
                              /\ ws[i].text = s[i].text /\ ws[i].seen = s[i].seen
  BY <1>2, <1>5, <1>6, AgedOK
<1>8. ws \in Seq(WordEntries) /\ Len(ws) = Staying /\ DOMAIN ws = 1 .. Staying
  <2>1. ws \in [1 .. Staying -> WordEntries]
    BY <1>7
  <2> HIDE DEF ws
  <2> QED BY <1>5, <2>1
<1>9. \A i \in DOMAIN ws : ws[i].seen <= t.clock
  BY <1>2, <1>3, <1>4, <1>5, <1>7, <1>8
<1> HIDE DEF ws
<1>10. Distinct(ws)
  BY <1>4, <1>5, <1>7, <1>8 DEF Distinct
<1>11. Len(ws) < Slots /\ Len(ws) <= MaxWords
  BY <1>5, <1>8, Numbers
<1>12. Holds(ws, Rebuilt(ws), Len(ws))
  BY <1>8, <1>10, <1>11, RebuiltHolds
<1>13. x = [t EXCEPT !.words = ws, !.slots = Rebuilt(ws), !.aged = t.clock]
  BY <1>1 DEF ws
<1>14. x = [words |-> ws, slots |-> Rebuilt(ws), clock |-> t.clock, aged |-> t.clock]
  BY <1>2, <1>13
<1>15. TableOK(x)
  BY <1>2, <1>8, <1>9, <1>10, <1>11, <1>12, <1>14, IsTable
<1>16. x.words = ws /\ x.clock = t.clock /\ x.aged = t.clock
  BY <1>14
<1> QED BY <1>1, <1>4, <1>8, <1>15, <1>16 DEF ws

\* A new word in a table with room.
LEMMA AddedOK ==
    ASSUME NEW t, TableOK(t), Len(t.words) < MaxWords, NEW w \in Words,
           \A i \in DOMAIN t.words : t.words[i].text # w
    PROVE  /\ TableOK(Added(t, w, 1))
           /\ Added(t, w, 1).words = Append(t.words, [text |-> w, count |-> 1, seen |-> t.clock])
           /\ Added(t, w, 1).clock = t.clock /\ Added(t, w, 1).aged = t.aged
<1> DEFINE n == Len(t.words)
           entry == [text |-> w, count |-> 1, seen |-> t.clock]
           ws == Append(t.words, entry)
           slots == [t.slots EXCEPT ![SlotOf(t.words, t.slots, w)] = n + 1]
           x == Added(t, w, 1)
<1>1. /\ t.words \in Seq(WordEntries) /\ t.clock \in Nat /\ t.aged \in Nat
      /\ n \in Nat /\ n < Slots /\ DOMAIN t.words = 1 .. n /\ n < MaxWords
      /\ Distinct(t.words) /\ Holds(t.words, t.slots, n)
      /\ \A i \in DOMAIN t.words : t.words[i].seen <= t.clock /\ t.words[i].text \in Words
      /\ t \in [words : Seq(WordEntries), slots : [Positions -> Nat], clock : Nat, aged : Nat]
  BY Table DEF TableOK
<1>2. Least(1, MaxCount) = 1 /\ 1 \in 0 .. MaxCount
  BY Numbers DEF Least
<1>3. entry \in WordEntries /\ entry.text = w /\ entry.seen = t.clock
  BY <1>1, <1>2 DEF WordEntries
<1>4. x = [words |-> ws, slots |-> slots, clock |-> t.clock, aged |-> t.aged]
  <2>1. x = [t EXCEPT !.words = ws, !.slots[SlotOf(t.words, t.slots, w)] = n + 1]
    BY <1>2, Zenon DEF Added
  <2> HIDE DEF x, ws, n
  <2>2. [t EXCEPT !.words = ws, !.slots[SlotOf(t.words, t.slots, w)] = n + 1]
          = [words |-> ws, slots |-> [t.slots EXCEPT ![SlotOf(t.words, t.slots, w)] = n + 1],
             clock |-> t.clock, aged |-> t.aged]
    <3>1. [t EXCEPT !.words = ws] = [words |-> ws, slots |-> t.slots, clock |-> t.clock, aged |-> t.aged]
      BY <1>1, TableFields
    <3> DEFINE v == [t EXCEPT !.words = ws]
    <3>2. [v EXCEPT !.slots[SlotOf(t.words, t.slots, w)] = n + 1]
            = [words |-> ws, slots |-> [t.slots EXCEPT ![SlotOf(t.words, t.slots, w)] = n + 1],
               clock |-> t.clock, aged |-> t.aged]
      <4>1. v = [words |-> ws, slots |-> t.slots, clock |-> t.clock, aged |-> t.aged]
        BY <3>1
      <4> HIDE DEF v
      <4> QED BY <4>1, TableSlot
    <3> QED BY <3>2
  <2> QED BY <2>1, <2>2 DEF n
<1> HIDE DEF x, entry
<1>5. ws \in Seq(WordEntries) /\ Len(ws) = n + 1 /\ DOMAIN ws = 1 .. n + 1
      /\ (\A i \in 1 .. n : ws[i] = t.words[i]) /\ ws[n + 1] = entry
  BY <1>1, <1>3
<1> HIDE DEF ws, n
<1>6. (\A i \in 1 .. n : ws[i].text = t.words[i].text) /\ ws[n + 1].text = w
  BY <1>3, <1>5
<1>7. \A i \in 1 .. n + 1 : i \in 1 .. n \/ i = n + 1
  BY <1>1
<1>8. \A i \in DOMAIN ws : ws[i].seen <= t.clock
  BY <1>1, <1>3, <1>5, <1>7
<1>9. Distinct(ws)
  BY <1>1, <1>5, <1>6, <1>7 DEF Distinct
<1>10. Holds(ws, slots, Len(ws))
  <2>1. Holds(ws, slots, n + 1)
    BY <1>1, <1>6, PlacedNext
  <2> QED BY <1>5, <2>1
<1> HIDE DEF slots
<1>11. Len(ws) <= MaxWords
  BY <1>1, <1>5, Numbers
<1>12. TableOK(x)
  BY <1>1, <1>4, <1>5, <1>8, <1>9, <1>10, <1>11, IsTable
<1>13. x.words = ws /\ x.clock = t.clock /\ x.aged = t.aged
  BY <1>4
<1> QED BY <1>12, <1>13 DEF x, ws, entry

\* The tables a use may leave: the word counted once more, a new one, or a new one
\* after an eviction.
CountedUp(t, w, x) ==
    \E i \in DOMAIN t.words, c \in 0 .. MaxCount :
        /\ t.words[i].text = w /\ c = Least(t.words[i].count + 1, MaxCount)
        /\ x.words = [t.words EXCEPT ![i] = [text |-> w, count |-> c, seen |-> t.clock + 1]]
        /\ x.aged = t.aged
NewWord(t, w, x) ==
    /\ \A i \in DOMAIN t.words : t.words[i].text # w
    /\ Len(t.words) < MaxWords
    /\ x.words = Append(t.words, [text |-> w, count |-> 1, seen |-> t.clock + 1])
    /\ x.aged = t.aged
NewWhenFull(t, w, x) ==
    /\ \A i \in DOMAIN t.words : t.words[i].text # w
    /\ Len(t.words) = MaxWords
    /\ \E s \in Ranked(ToSet(t.words)) :
         /\ Len(s) = MaxWords
         /\ x.words = Append([i \in 1 .. Staying |-> Aged(s[i], t.aged)],
                             [text |-> w, count |-> 1, seen |-> t.clock + 1])

\* A table with another clock.
LEMMA Ticked ==
    ASSUME NEW t, TableOK(t)
    PROVE  LET u == [t EXCEPT !.clock = @ + 1]
           IN  /\ TableOK(u) /\ u.words = t.words /\ u.slots = t.slots /\ u.aged = t.aged
               /\ u.clock = t.clock + 1
<1> DEFINE u == [t EXCEPT !.clock = @ + 1]
<1>1. /\ t.words \in Seq(WordEntries) /\ t.clock \in Nat /\ t.aged \in Nat
      /\ Distinct(t.words) /\ Holds(t.words, t.slots, Len(t.words)) /\ Len(t.words) <= MaxWords
      /\ \A i \in DOMAIN t.words : t.words[i].seen \in Nat /\ t.words[i].seen <= t.clock
      /\ t \in [words : Seq(WordEntries), slots : [Positions -> Nat], clock : Nat, aged : Nat]
  BY Table DEF TableOK
<1>2. u = [words |-> t.words, slots |-> t.slots, clock |-> t.clock + 1, aged |-> t.aged]
  BY <1>1
<1>3. u.words = t.words /\ u.slots = t.slots /\ u.aged = t.aged /\ u.clock = t.clock + 1
  BY <1>2
<1>4. t.clock + 1 \in Nat /\ \A i \in DOMAIN t.words : t.words[i].seen <= t.clock + 1
  BY <1>1
<1> HIDE DEF u
<1>5. TableOK(u)
  BY <1>1, <1>2, <1>4, IsTable
<1> QED BY <1>3, <1>5 DEF u

\* A use of a word.
LEMMA CountedOK ==
    ASSUME NEW t, TableOK(t), NEW w \in Words, NEW x \in Counted(t, w, 1)
    PROVE  TableOK(x) /\ (CountedUp(t, w, x) \/ NewWord(t, w, x) \/ NewWhenFull(t, w, x))
<1> DEFINE u == [t EXCEPT !.clock = @ + 1]
           i == Find(t, w)
<1>0. /\ TableOK(u) /\ u.words = t.words /\ u.slots = t.slots /\ u.aged = t.aged
      /\ u.clock = t.clock + 1
  BY Ticked
<1>1. /\ t.words \in Seq(WordEntries) /\ t.clock \in Nat /\ DOMAIN t.words = 1 .. Len(t.words)
      /\ Len(t.words) \in Nat /\ Len(t.words) <= MaxWords
      /\ t \in [words : Seq(WordEntries), slots : [Positions -> Nat], clock : Nat, aged : Nat]
  BY Table DEF TableOK
<1>2. /\ i = Absent => \A k \in DOMAIN t.words : t.words[k].text # w
      /\ i # Absent => i \in DOMAIN t.words /\ t.words[i].text = w
  BY Lookup
<1> DEFINE one == 1
<1>9. one # 0
  OBVIOUS
<1>3. CASE i # Absent
  <2> DEFINE e == t.words[i]
             c == Least(e.count + 1, MaxCount)
             entry == [text |-> e.text, count |-> c, seen |-> u.clock]
  <2>1. i \in DOMAIN t.words /\ e.text = w /\ e \in WordEntries /\ e.count \in Nat
    <3>1. i \in DOMAIN t.words /\ e.text = w
      BY <1>2, <1>3
    <3>2. e.count \in 0 .. MaxCount /\ e \in WordEntries
      BY <3>1, Table
    <3> QED BY <3>1, <3>2
  <2>2. c \in 0 .. MaxCount
    BY <2>1, LeastCount
  <2>3. x = [u EXCEPT !.words[i].count = Least(@ + 1, MaxCount), !.words[i].seen = u.clock]
    BY <1>3, <1>9, Zenon DEF Counted
  <2> HIDE DEF i
  <2>4. [[e EXCEPT !.count = c] EXCEPT !.seen = u.clock] = entry
    <3>1. [e EXCEPT !.count = c] = [text |-> e.text, count |-> c, seen |-> e.seen]
      <4> HIDE DEF c, e
      <4> QED BY <2>1, EntryFields
    <3> DEFINE f == [e EXCEPT !.count = c]
    <3>2. f = [text |-> e.text, count |-> c, seen |-> e.seen]
      BY <3>1
    <3>3. [f EXCEPT !.seen = u.clock] = [text |-> e.text, count |-> c, seen |-> u.clock]
      <4> HIDE DEF c, e, u, f
      <4> QED BY <3>2, EntrySeen
    <3> QED BY <3>3
  <2>5. u \in [words : Seq(WordEntries), slots : [Positions -> Nat], clock : Nat, aged : Nat]
    BY <1>0 DEF TableOK
  <2>6. x = [u EXCEPT !.words = [u.words EXCEPT ![i] = entry]]
    <3> HIDE DEF u, entry
    <3> QED BY <1>0, <2>1, <2>3, <2>4, <2>5
  <2>7. x = [words |-> [u.words EXCEPT ![i] = entry], slots |-> u.slots, clock |-> u.clock, aged |-> u.aged]
    <3> HIDE DEF u, entry
    <3> QED BY <2>5, <2>6, TableFields
  <2>8. TableOK(x)
    <3>1. i \in DOMAIN u.words /\ u.clock \in Nat /\ u.clock <= u.clock
      BY <1>0, <1>1, <2>1
    <3>2. x = [words |-> [u.words EXCEPT ![i] = [text |-> u.words[i].text, count |-> c, seen |-> u.clock]],
               slots |-> u.slots, clock |-> u.clock, aged |-> u.aged]
      BY <1>0, <2>7
    <3> HIDE DEF c, u
    <3> QED BY <1>0, <2>2, <3>1, <3>2, Recounted
  <2>9. CountedUp(t, w, x)
    <3>1. x.words = [t.words EXCEPT ![i] = [text |-> w, count |-> c, seen |-> t.clock + 1]] /\ x.aged = t.aged
      BY <1>0, <2>1, <2>7
    <3> QED BY <2>1, <2>2, <3>1 DEF CountedUp
  <2> QED BY <2>8, <2>9
<1>4. CASE i = Absent /\ Len(t.words) >= MaxWords
  <2>1. PICK v \in Evicted(u) : x = Added(v, w, 1)
    BY <1>0, <1>4, <1>9, Zenon DEF Counted
  <2>2. Len(u.words) = MaxWords
    BY <1>0, <1>1, <1>4, Numbers
  <2> HIDE DEF u
  <2>3. /\ TableOK(v) /\ Len(v.words) = Staying /\ v.clock = u.clock /\ v.aged = u.clock
        /\ \E s \in Ranked(ToSet(u.words)) :
             /\ Len(s) = MaxWords
             /\ v.words = [k \in 1 .. Staying |-> Aged(s[k], u.aged)]
    BY <1>0, <2>1, <2>2, EvictedOK
  <2>4. PICK s \in Ranked(ToSet(t.words)) :
             /\ Len(s) = MaxWords
             /\ v.words = [k \in 1 .. Staying |-> Aged(s[k], t.aged)]
    BY <1>0, <2>3
  <2>5. \A k \in DOMAIN v.words : v.words[k].text # w
    <3>1. Distinct(t.words) /\ t.aged \in Nat
      BY Table
    <3>2. /\ s \in Seq(WordEntries) /\ DOMAIN s = 1 .. Len(s)
          /\ \A k \in DOMAIN s : s[k] \in ToSet(t.words)
      BY <1>1, <2>4, <3>1, Sorted
    <3>3. \A e \in ToSet(t.words) : e.text # w
      BY <1>2, <1>4 DEF ToSet
    <3>4. ASSUME NEW k \in 1 .. Staying PROVE v.words[k].text # w
      <4>1. k \in DOMAIN s
        BY <2>4, <3>2, StayingOK, Numbers
      <4>2. s[k] \in WordEntries /\ s[k].text # w
        BY <3>2, <3>3, <4>1
      <4>3. v.words[k] = Aged(s[k], t.aged)
        BY <2>4
      <4> QED BY <3>1, <4>2, <4>3, AgedOK
    <3>5. DOMAIN v.words = 1 .. Staying
      BY <2>4
    <3> QED BY <3>4, <3>5
  <2>6. Len(v.words) < MaxWords
    BY <2>3, StayingOK
  <2>7. TableOK(x) /\ x.words = Append(v.words, [text |-> w, count |-> 1, seen |-> v.clock])
    BY <2>1, <2>3, <2>5, <2>6, AddedOK
  <2>8. x.words = Append([k \in 1 .. Staying |-> Aged(s[k], t.aged)],
                         [text |-> w, count |-> 1, seen |-> t.clock + 1])
    BY <1>0, <2>3, <2>4, <2>7
  <2>9. Len(t.words) = MaxWords
    BY <1>0, <2>2
  <2>10. NewWhenFull(t, w, x)
    BY <1>2, <1>4, <2>4, <2>8, <2>9 DEF NewWhenFull
  <2> QED BY <2>7, <2>10
<1>5. CASE i = Absent /\ ~(Len(t.words) >= MaxWords)
  <2>1. x = Added(u, w, 1)
    BY <1>0, <1>5, <1>9, Zenon DEF Counted
  <2>2. Len(u.words) < MaxWords /\ \A k \in DOMAIN u.words : u.words[k].text # w
    BY <1>0, <1>1, <1>2, <1>5, Numbers
  <2> HIDE DEF u
  <2>3. TableOK(x) /\ x.words = Append(u.words, [text |-> w, count |-> 1, seen |-> u.clock]) /\ x.aged = u.aged
    BY <1>0, <2>1, <2>2, AddedOK
  <2>4. NewWord(t, w, x)
    BY <1>0, <1>2, <1>5, <2>2, <2>3 DEF NewWord
  <2> QED BY <2>3, <2>4
<1> QED BY <1>3, <1>4, <1>5

\* The words used at least twice come back from the file, none older than another.
LEMMA ReloadedOK ==
    ASSUME NEW t, TableOK(t), NEW x \in Reloaded(t)
    PROVE  /\ TableOK(x)
           /\ \A i \in DOMAIN x.words : \E j \in DOMAIN t.words :
                /\ x.words[i].text = t.words[j].text /\ x.words[i].count = t.words[j].count
                /\ t.words[j].count >= 2
           /\ \A j \in DOMAIN t.words : t.words[j].count >= 2 =>
                \E i \in DOMAIN x.words : x.words[i].text = t.words[j].text
<1> DEFINE E == {e \in ToSet(t.words) : e.count >= 2}
           Fresh(s) == [i \in DOMAIN s |-> [s[i] EXCEPT !.seen = 1]]
<1>1. PICK s \in Ranked(E) :
        x = [words |-> Fresh(s), slots |-> Rebuilt(s), clock |-> 1, aged |-> 0]
  BY Zenon DEF Reloaded
<1>2. t.words \in Seq(WordEntries) /\ Distinct(t.words) /\ Len(t.words) \in Nat
      /\ Len(t.words) <= MaxWords /\ Len(t.words) < Slots
  BY Table
<1>3. /\ E \in SUBSET ToSet(t.words)
      /\ \A e \in ToSet(t.words) : \E j \in DOMAIN t.words : t.words[j] = e
      /\ \A j \in DOMAIN t.words : t.words[j] \in ToSet(t.words)
  BY <1>2, Entering
<1>4. \A e \in E : e \in ToSet(t.words) /\ e.count >= 2
  OBVIOUS
<1>5. \A e \in ToSet(t.words) : e.count >= 2 => e \in E
  OBVIOUS
<1> HIDE DEF E
<1>6. /\ s \in Seq(WordEntries) /\ Distinct(s) /\ Len(s) \in Nat /\ Len(s) <= Len(t.words)
      /\ DOMAIN s = 1 .. Len(s) /\ (\A i \in DOMAIN s : s[i] \in E)
      /\ \A e \in E : \E i \in DOMAIN s : s[i] = e
  BY <1>1, <1>2, <1>3, Sorted
<1> DEFINE n == Len(s)
           ws == Fresh(s)
<1>7. \A i \in 1 .. n : /\ ws[i] \in WordEntries /\ ws[i].seen = 1
                        /\ ws[i].text = s[i].text /\ ws[i].count = s[i].count
  <2>1. ASSUME NEW i \in 1 .. n
        PROVE  /\ ws[i] \in WordEntries /\ ws[i].seen = 1
               /\ ws[i].text = s[i].text /\ ws[i].count = s[i].count
    <3>1. ws[i] = [s[i] EXCEPT !.seen = 1] /\ s[i] \in WordEntries
      BY <1>6
    <3> DEFINE e == s[i]
               f == ws[i]
    <3>2. e \in WordEntries /\ f = [e EXCEPT !.seen = 1]
      BY <3>1
    <3> HIDE DEF e, f, ws
    <3>3. f = [text |-> e.text, count |-> e.count, seen |-> 1]
      BY <3>2 DEF WordEntries
    <3>4. e.text \in Words /\ e.count \in 0 .. MaxCount
      BY <3>2 DEF WordEntries
    <3>5. f \in WordEntries
      BY <3>3, <3>4 DEF WordEntries
    <3>6. f.seen = 1 /\ f.text = e.text /\ f.count = e.count
      BY <3>3
    <3> QED BY <3>5, <3>6 DEF e, f
  <2> QED BY <2>1
<1>8. ws \in Seq(WordEntries) /\ Len(ws) = n /\ DOMAIN ws = 1 .. n
  <2>1. ws \in [1 .. n -> WordEntries]
    BY <1>6, <1>7
  <2> HIDE DEF ws
  <2>2. n \in Nat
    BY <1>6
  <2> HIDE DEF n
  <2> QED BY <2>1, <2>2
<1>9. x.words = ws /\ x = [words |-> ws, slots |-> Rebuilt(s), clock |-> 1, aged |-> 0]
  BY <1>1
<1> HIDE DEF ws
<1>10. Distinct(ws)
  BY <1>6, <1>7, <1>8 DEF Distinct
<1>11. n <= MaxWords /\ n < Slots
  BY <1>2, <1>6, Numbers
<1>12. Holds(s, Rebuilt(s), n)
  BY <1>6, <1>11, RebuiltHolds
<1>13. Holds(ws, Rebuilt(s), n)
  BY <1>6, <1>7, <1>12, SameTexts
<1>14. \A i \in DOMAIN ws : ws[i].seen <= 1
  BY <1>7, <1>8
<1>15. TableOK(x)
  <2>1. Len(ws) <= MaxWords /\ Holds(ws, Rebuilt(s), Len(ws)) /\ 1 \in Nat /\ 0 \in Nat
    BY <1>8, <1>11, <1>13
  <2> QED BY <1>8, <1>9, <1>10, <1>14, <2>1, IsTable
<1>16. ASSUME NEW i \in DOMAIN x.words
       PROVE  \E j \in DOMAIN t.words :
                /\ x.words[i].text = t.words[j].text /\ x.words[i].count = t.words[j].count
                /\ t.words[j].count >= 2
  <2>1. s[i] \in ToSet(t.words) /\ s[i].count >= 2 /\ i \in 1 .. n
    BY <1>4, <1>6, <1>8, <1>9
  <2> QED BY <1>3, <1>7, <1>9, <2>1
<1>17. ASSUME NEW j \in DOMAIN t.words, t.words[j].count >= 2
       PROVE  \E i \in DOMAIN x.words : x.words[i].text = t.words[j].text
  <2>1. PICK i \in DOMAIN s : s[i] = t.words[j]
    BY <1>3, <1>5, <1>6, <1>17
  <2>2. i \in 1 .. n
    BY <1>6
  <2> QED BY <1>7, <1>8, <1>9, <2>1, <2>2
<1> QED BY <1>15, <1>16, <1>17

-----------------------------------------------------------------------------
(* The learned repairs.                                                     *)

Entries == [typo : Words, fix : Words, count : Nat]

\* The repairs are pairs the program learns.
RepairTypes ==
    /\ fixes \in Seq(Entries)
    /\ \A i \in DOMAIN fixes : <<fixes[i].typo, fixes[i].fix>> \in Pairs
    /\ made \in [Pairs -> 0 .. Enough]

\* A typo has one repair.
OneRepair(f) == \A i, j \in DOMAIN f : f[i].typo = f[j].typo => i = j

\* A repair was made by hand as often as it is counted, as far as that is told apart.
MadeByHand ==
    \A i \in DOMAIN fixes : Least(fixes[i].count, Enough) <= made[<<fixes[i].typo, fixes[i].fix>>]

RepairInv == RepairTypes /\ OneRepair(fixes) /\ MadeByHand

-----------------------------------------------------------------------------
(* The table of repairs.                                                    *)

\* The smaller of two counts.
LEMMA LeastOf ==
    ASSUME NEW m \in Nat, NEW n \in Nat
    PROVE  Least(m, n) \in Nat /\ Least(m, n) <= m /\ Least(m, n) <= n /\ Least(m, n) \in {m, n}
BY DEF Least

\* The repair of a typo is found, and only that one.
LEMMA FixFound ==
    ASSUME NEW f \in Seq(Entries), OneRepair(f), NEW typo
    PROVE  /\ FixOf(f, typo) # Absent => FixOf(f, typo) \in DOMAIN f /\ f[FixOf(f, typo)].typo = typo
           /\ FixOf(f, typo) = Absent => \A i \in DOMAIN f : f[i].typo # typo
<1>0. DOMAIN f = 1 .. Len(f) /\ Len(f) \in Nat
  OBVIOUS
<1>1. CASE \E i \in DOMAIN f : f[i].typo = typo
  <2>1. PICK i \in DOMAIN f : f[i].typo = typo
    BY <1>1
  <2>2. \A j \in 1 .. i - 1 : j \in DOMAIN f /\ j # i
    BY <1>0, <2>1
  <2>3. \A j \in 1 .. i - 1 : f[j].typo # typo
    BY <2>1, <2>2 DEF OneRepair
  <2> DEFINE First(k) == f[k].typo = typo /\ \A j \in 1 .. k - 1 : f[j].typo # typo
  <2>4. First(i)
    BY <2>1, <2>3
  <2>5. FixOf(f, typo) = CHOOSE k \in DOMAIN f : First(k)
    BY <1>1 DEF FixOf
  <2> HIDE DEF First
  <2>6. FixOf(f, typo) \in DOMAIN f /\ First(FixOf(f, typo))
    BY <2>1, <2>4, <2>5
  <2>7. FixOf(f, typo) # Absent
    BY <1>0, <2>6 DEF Absent
  <2> QED BY <2>6, <2>7 DEF First
<1>2. CASE ~\E i \in DOMAIN f : f[i].typo = typo
  BY <1>2 DEF FixOf
<1> QED BY <1>1, <1>2

\* What an entry is after a repair: as before, a new one, or counted once more.
Amended(g, f, typo, fix, i) ==
    \/ i \in DOMAIN f /\ g[i] = f[i] /\ (f[i].typo # typo \/ f[i].fix # fix)
    \/ g[i].typo = typo /\ g[i].fix = fix /\ g[i].count = 1
    \/ /\ g[i].typo = typo /\ g[i].fix = fix
       /\ i \in DOMAIN f /\ f[i].typo = typo /\ f[i].fix = fix
       /\ g[i].count <= f[i].count + 1

\* Counting a repair once more, replacing that of a typo or another, and adding one.
LEMMA RepairedTable ==
    ASSUME NEW f \in Seq(Entries), OneRepair(f), NEW typo \in Words, NEW fix \in Words,
           NEW g, g = Repaired(f, typo, fix)
    PROVE  /\ g \in Seq(Entries) /\ OneRepair(g)
           /\ \A i \in DOMAIN g : Amended(g, f, typo, fix, i)
<1> DEFINE n == FixOf(f, typo)
           entry == [typo |-> typo, fix |-> fix, count |-> 1]
           Good(h) == /\ h \in Seq(Entries) /\ OneRepair(h)
                      /\ \A i \in DOMAIN h : Amended(h, f, typo, fix, i)
<1>0. entry \in Entries /\ \A i \in DOMAIN f : f[i] \in Entries
  <2>1. entry \in Entries
    BY DEF Entries
  <2>2. \A i \in DOMAIN f : f[i] \in Entries
    OBVIOUS
  <2> QED BY <2>1, <2>2
<1>1. /\ n # Absent => n \in DOMAIN f /\ f[n].typo = typo
      /\ n = Absent => \A i \in DOMAIN f : f[i].typo # typo
  BY FixFound
<1>c. MaxCount \in Nat
  BY TableAssumption
<1>2. ASSUME NEW k, NEW e \in Entries, e.typo = typo, k \in DOMAIN f => f[k].typo = typo \/ n = Absent
      PROVE  /\ [f EXCEPT ![k] = e] \in Seq(Entries) /\ OneRepair([f EXCEPT ![k] = e])
             /\ DOMAIN [f EXCEPT ![k] = e] = DOMAIN f
             /\ \A i \in DOMAIN f : [f EXCEPT ![k] = e][i] = IF i = k THEN e ELSE f[i]
  <2> DEFINE h == [f EXCEPT ![k] = e]
  <2>1. DOMAIN h = DOMAIN f /\ \A i \in DOMAIN f : h[i] = IF i = k THEN e ELSE f[i]
    OBVIOUS
  <2>2. h \in Seq(Entries)
    <3>1. DOMAIN f = 1 .. Len(f) /\ Len(f) \in Nat
      OBVIOUS
    <3>2. h \in [1 .. Len(f) -> Entries]
      BY <1>0, <2>1, <3>1
    <3> QED BY <3>1, <3>2, SeqDef
  <2>3. ASSUME NEW i \in DOMAIN h, NEW j \in DOMAIN h, h[i].typo = h[j].typo PROVE i = j
    <3>1. CASE i # k /\ j # k
      BY <2>1, <2>3, <3>1 DEF OneRepair
    <3>2. CASE i = k /\ j # k
      <4>1. f[j].typo = typo /\ k \in DOMAIN f
        BY <1>2, <2>1, <2>3, <3>2
      <4> QED BY <1>1, <1>2, <2>1, <3>2, <4>1 DEF OneRepair
    <3>3. CASE i # k /\ j = k
      <4>1. f[i].typo = typo /\ k \in DOMAIN f
        BY <1>2, <2>1, <2>3, <3>3
      <4> QED BY <1>1, <1>2, <2>1, <3>3, <4>1 DEF OneRepair
    <3> QED BY <3>1, <3>2, <3>3
  <2> HIDE DEF h
  <2>4. OneRepair(h)
    BY <2>3 DEF OneRepair
  <2> QED BY <2>1, <2>2, <2>4 DEF h
<1>3. CASE n # Absent /\ f[n].fix = fix
  <2> DEFINE e == [f[n] EXCEPT !.count = Least(@ + 1, MaxCount)]
             h == [f EXCEPT ![n] = e]
  <2>1. f[n] \in Entries /\ f[n].count \in Nat
    BY <1>0, <1>1, <1>3 DEF Entries
  <2>2. e \in Entries /\ e.typo = typo /\ e.fix = fix /\ e.count <= f[n].count + 1
    <3> DEFINE m == Least(f[n].count + 1, MaxCount)
    <3>1. m \in Nat /\ m <= f[n].count + 1
      <4>1. f[n].count + 1 \in Nat
        BY <2>1
      <4> QED BY <1>c, <4>1, LeastOf
    <3>2. e = [f[n] EXCEPT !.count = m]
      OBVIOUS
    <3> HIDE DEF m, n, e
    <3>3. e \in Entries /\ e.typo = f[n].typo /\ e.fix = f[n].fix /\ e.count = m
      BY <2>1, <3>1, <3>2 DEF Entries
    <3> QED BY <1>1, <1>3, <3>1, <3>3
  <2>3. g = [f EXCEPT ![n].count = Least(@ + 1, MaxCount)]
    BY <1>3 DEF Repaired
  <2>4. g = h
    BY <1>1, <1>3, <2>3
  <2> HIDE DEF e
  <2>5. /\ h \in Seq(Entries) /\ OneRepair(h) /\ DOMAIN h = DOMAIN f
        /\ \A i \in DOMAIN f : h[i] = IF i = n THEN e ELSE f[i]
    BY <1>1, <1>2, <1>3, <2>2
  <2> HIDE DEF h, n
  <2>6. \A i \in DOMAIN f : i # n => f[i].typo # typo
    BY <1>1, <1>3 DEF OneRepair
  <2>7. Good(h)
    BY <1>1, <1>3, <2>2, <2>5, <2>6 DEF Amended
  <2> QED BY <2>4, <2>7
<1>4. CASE n # Absent /\ f[n].fix # fix
  <2> DEFINE h == [f EXCEPT ![n] = entry]
  <2>1. g = h
    BY <1>4 DEF Repaired
  <2>2. /\ h \in Seq(Entries) /\ OneRepair(h) /\ DOMAIN h = DOMAIN f
        /\ \A i \in DOMAIN f : h[i] = IF i = n THEN entry ELSE f[i]
    BY <1>0, <1>1, <1>2, <1>4
  <2> HIDE DEF h, n
  <2>3. \A i \in DOMAIN f : i # n => f[i].typo # typo
    BY <1>1, <1>4 DEF OneRepair
  <2>4. Good(h)
    BY <1>1, <1>4, <2>2, <2>3 DEF Amended
  <2> QED BY <2>1, <2>4
<1>5. CASE n = Absent /\ Len(f) >= MaxFixes
  <2> DEFINE k == Weakest(f)
             h == [f EXCEPT ![k] = entry]
  <2>1. g = h
    BY <1>5 DEF Repaired
  <2> HIDE DEF k
  <2>2. /\ h \in Seq(Entries) /\ OneRepair(h) /\ DOMAIN h = DOMAIN f
        /\ \A i \in DOMAIN f : h[i] = IF i = k THEN entry ELSE f[i]
    BY <1>0, <1>1, <1>2, <1>5
  <2> HIDE DEF h, n
  <2>3. Good(h)
    BY <1>1, <1>5, <2>2 DEF Amended
  <2> QED BY <2>1, <2>3
<1>6. CASE n = Absent /\ ~(Len(f) >= MaxFixes)
  <2> DEFINE h == Append(f, entry)
  <2>1. g = h
    BY <1>6 DEF Repaired
  <2> HIDE DEF entry
  <2>2. /\ h \in Seq(Entries) /\ Len(h) = Len(f) + 1 /\ Len(f) \in Nat
        /\ \A i \in 1 .. Len(f) : h[i] = f[i]
        /\ h[Len(f) + 1] = entry
        /\ DOMAIN h = 1 .. Len(f) + 1 /\ DOMAIN f = 1 .. Len(f)
    BY <1>0
  <2> HIDE DEF h, n
  <2>3. \A i \in DOMAIN h : (i \in DOMAIN f /\ h[i] = f[i]) \/ (i = Len(f) + 1 /\ h[i] = entry)
    BY <2>2
  <2>4. entry.typo = typo /\ entry.fix = fix /\ entry.count = 1
    BY DEF entry
  <2>5. OneRepair(h)
    BY <1>1, <1>6, <2>3, <2>4 DEF OneRepair
  <2>6. Good(h)
    BY <1>1, <1>6, <2>2, <2>3, <2>4, <2>5 DEF Amended
  <2> QED BY <2>1, <2>6
<1> HIDE DEF n
<1> QED BY <1>3, <1>4, <1>5, <1>6

-----------------------------------------------------------------------------
(* Repairs are earned.                                                      *)

\* Pairs are of words.
LEMMA PairWords ==
    /\ \A p, q : <<p, q>> \in Pairs => p \in Words /\ q \in Words
    /\ \A p, q : <<p, q>> \in MidPairs => <<p, q>> \in Pairs
BY MemoryAssumption

\* At the start no repair is learned.
LEMMA RepairInit == Init => RepairInv
BY DEF Init, RepairInv, RepairTypes, OneRepair, MadeByHand, Enough

\* The parts of the invariant.
LEMMA RepairParts ==
    RepairInv <=> /\ fixes \in Seq(Entries) /\ made \in [Pairs -> 0 .. 3] /\ OneRepair(fixes)
                  /\ \A i \in DOMAIN fixes :
                       /\ <<fixes[i].typo, fixes[i].fix>> \in Pairs
                       /\ Least(fixes[i].count, 3) <= made[<<fixes[i].typo, fixes[i].fix>>]
BY DEF RepairInv, RepairTypes, MadeByHand, Enough

\* A repair by hand is counted once in each.
LEMMA RecordStep ==
    ASSUME RepairInv, NEW w, Records(w),
           fixes' = Repaired(fixes, peak.text, w),
           made' = [made EXCEPT ![<<peak.text, w>>] = Least(@ + 1, Enough)]
    PROVE  RepairInv'
<1> DEFINE p == peak.text
<1>1. <<p, w>> \in Pairs /\ p \in Words /\ w \in Words
  BY PairWords DEF Records
<1>2. /\ fixes \in Seq(Entries) /\ made \in [Pairs -> 0 .. 3] /\ OneRepair(fixes)
      /\ \A i \in DOMAIN fixes :
           /\ <<fixes[i].typo, fixes[i].fix>> \in Pairs
           /\ Least(fixes[i].count, 3) <= made[<<fixes[i].typo, fixes[i].fix>>]
  BY RepairParts
<1>3. \A i \in DOMAIN fixes : fixes[i].count \in Nat
  <2>1. \A i \in DOMAIN fixes : fixes[i] \in Entries
    BY <1>2
  <2> QED BY <2>1 DEF Entries
<1>4. /\ fixes' \in Seq(Entries) /\ OneRepair(fixes')
      /\ \A i \in DOMAIN fixes' : Amended(fixes', fixes, p, w, i)
  <2>1. fixes' = Repaired(fixes, p, w)
    OBVIOUS
  <2> HIDE DEF p
  <2> QED BY <1>1, <1>2, <2>1, RepairedTable
<1>5. \A i \in DOMAIN fixes' : fixes'[i].count \in Nat
  <2>1. \A i \in DOMAIN fixes' : fixes'[i] \in Entries
    BY <1>4
  <2> QED BY <2>1 DEF Entries
<1>6. made' = [made EXCEPT ![<<p, w>>] = Least(made[<<p, w>>] + 1, 3)]
  BY DEF Enough
<1>7. made[<<p, w>>] \in 0 .. 3
  BY <1>1, <1>2
<1>8. Least(made[<<p, w>>] + 1, 3) \in 0 .. 3
  BY <1>7 DEF Least
<1>9. /\ made' \in [Pairs -> 0 .. 3]
      /\ made'[<<p, w>>] = Least(made[<<p, w>>] + 1, 3)
      /\ \A q \in Pairs : q # <<p, w>> => made'[q] = made[q]
  BY <1>1, <1>2, <1>6, <1>8
<1> HIDE DEF p
<1>10. ASSUME NEW i \in DOMAIN fixes'
       PROVE  /\ <<fixes'[i].typo, fixes'[i].fix>> \in Pairs
              /\ Least(fixes'[i].count, 3) <= made'[<<fixes'[i].typo, fixes'[i].fix>>]
  <2>1. CASE i \in DOMAIN fixes /\ fixes'[i] = fixes[i] /\ (fixes[i].typo # p \/ fixes[i].fix # w)
    <3>1. <<fixes[i].typo, fixes[i].fix>> # <<p, w>>
      BY <2>1
    <3> QED BY <1>2, <1>9, <2>1, <3>1
  <2>2. CASE fixes'[i].typo = p /\ fixes'[i].fix = w /\ fixes'[i].count = 1
    <3>1. Least(1, 3) <= Least(made[<<p, w>>] + 1, 3)
      BY <1>7 DEF Least
    <3> QED BY <1>1, <1>9, <2>2, <3>1
  <2>3. CASE /\ fixes'[i].typo = p /\ fixes'[i].fix = w
             /\ i \in DOMAIN fixes /\ fixes[i].typo = p /\ fixes[i].fix = w
             /\ fixes'[i].count <= fixes[i].count + 1
    <3> DEFINE a == fixes[i].count
               b == fixes'[i].count
               m == made[<<p, w>>]
    <3>1. a \in Nat /\ b \in Nat /\ m \in 0 .. 3 /\ b <= a + 1 /\ Least(a, 3) <= m
      BY <1>2, <1>3, <1>5, <1>7, <2>3
    <3> HIDE DEF a, b, m
    <3>2. Least(b, 3) <= Least(m + 1, 3)
      BY <3>1 DEF Least
    <3> QED BY <1>1, <1>9, <2>3, <3>2 DEF b, m
  <2> QED BY <1>4, <2>1, <2>2, <2>3 DEF Amended
<1> QED BY <1>4, <1>9, <1>10 DEF RepairInv, RepairTypes, MadeByHand, Enough

\* A repair that was undone is counted anew in each.
LEMMA UndoStep == ASSUME RepairInv, Undo PROVE RepairInv'
<1> DEFINE t == undo.typo
           n == FixOf(fixes, t)
<1>2. /\ fixes \in Seq(Entries) /\ made \in [Pairs -> 0 .. 3] /\ OneRepair(fixes)
      /\ \A i \in DOMAIN fixes :
           /\ <<fixes[i].typo, fixes[i].fix>> \in Pairs
           /\ Least(fixes[i].count, 3) <= made[<<fixes[i].typo, fixes[i].fix>>]
  BY RepairParts
<1>3. made' = [p \in Pairs |-> IF undo.learned /\ p[1] = t THEN 0 ELSE made[p]]
  BY DEF Undo
<1>4. made' \in [Pairs -> 0 .. 3]
  BY <1>2, <1>3
<1>5. CASE ~undo.learned
  <2>1. fixes' = fixes
    BY <1>5 DEF Undo
  <2>2. \A p \in Pairs : made'[p] = made[p]
    BY <1>3, <1>5
  <2> QED BY <1>2, <1>4, <2>1, <2>2 DEF RepairInv, RepairTypes, MadeByHand, Enough
<1>6. CASE undo.learned
  <2>1. fixes' = Rejected(fixes, t)
    BY <1>6 DEF Undo, Unlearned
  <2>2. /\ n # Absent => n \in DOMAIN fixes /\ fixes[n].typo = t
        /\ n = Absent => \A i \in DOMAIN fixes : fixes[i].typo # t
    BY <1>2, FixFound
  <2>3. \A i \in DOMAIN fixes : fixes[i] \in Entries
    BY <1>2
  <2>4. \A p \in Pairs : p[1] # t => made'[p] = made[p]
    BY <1>3
  <2>5. CASE n = Absent
    <3>1. fixes' = fixes
      BY <2>1, <2>5 DEF Rejected
    <3>2. \A i \in DOMAIN fixes :
            Least(fixes[i].count, 3) <= made'[<<fixes[i].typo, fixes[i].fix>>]
      BY <1>2, <2>2, <2>4, <2>5
    <3> QED BY <1>2, <1>4, <3>1, <3>2 DEF RepairInv, RepairTypes, MadeByHand, Enough
  <2>6. CASE n # Absent
    <3>1. fixes' = [fixes EXCEPT ![n].count = 0]
      BY <2>1, <2>6 DEF Rejected
    <3> HIDE DEF n, t
    <3>2. /\ DOMAIN fixes' = DOMAIN fixes
          /\ \A i \in DOMAIN fixes : i # n => fixes'[i] = fixes[i]
          /\ fixes'[n] = [fixes[n] EXCEPT !.count = 0]
      BY <2>2, <2>6, <3>1
    <3>3. fixes'[n] \in Entries /\ fixes'[n].typo = t /\ fixes'[n].fix = fixes[n].fix
          /\ fixes'[n].count = 0
      BY <2>2, <2>3, <2>6, <3>2 DEF Entries
    <3>4. fixes' \in Seq(Entries)
      <4>1. DOMAIN fixes = 1 .. Len(fixes) /\ Len(fixes) \in Nat
        BY <1>2
      <4>2. fixes' \in [1 .. Len(fixes) -> Entries]
        BY <2>3, <3>1, <3>2, <3>3, <4>1
      <4> QED BY <4>1, <4>2, SeqDef
    <3>5. OneRepair(fixes')
      BY <1>2, <2>2, <2>6, <3>2, <3>3 DEF OneRepair
    <3>6. ASSUME NEW i \in DOMAIN fixes'
          PROVE  /\ <<fixes'[i].typo, fixes'[i].fix>> \in Pairs
                 /\ Least(fixes'[i].count, 3) <= made'[<<fixes'[i].typo, fixes'[i].fix>>]
      <4>1. CASE i = n
        <5>1. <<fixes'[i].typo, fixes'[i].fix>> \in Pairs
          BY <1>2, <2>2, <2>6, <3>3, <4>1
        <5>2. Least(0, 3) = 0
          BY DEF Least
        <5> QED BY <1>4, <3>3, <4>1, <5>1, <5>2
      <4>2. CASE i # n
        <5>1. fixes'[i] = fixes[i] /\ fixes[i].typo # t
          BY <1>2, <2>2, <2>6, <3>2, <4>2 DEF OneRepair
        <5> QED BY <1>2, <2>4, <3>2, <5>1
      <4> QED BY <4>1, <4>2
    <3> QED BY <1>4, <3>4, <3>5, <3>6 DEF RepairInv, RepairTypes, MadeByHand, Enough
  <2> QED BY <2>5, <2>6
<1> QED BY <1>5, <1>6

\* Nothing else changes what was learned.
LEMMA RepairStep == RepairInv /\ [Next]_vars => RepairInv'
<1> SUFFICES ASSUME RepairInv, [Next]_vars PROVE RepairInv'
  OBVIOUS
<1>a. ASSUME UNCHANGED <<fixes, made>> PROVE RepairInv'
  BY <1>a DEF RepairInv, RepairTypes, MadeByHand
<1>1. ASSUME NEW w \in Words, NEW space \in BOOLEAN, Boundary(w, space) PROVE RepairInv'
  <2>1. CASE Repairs(w, space)
    BY <1>a, <2>1 DEF Repairs
  <2>2. ASSUME NEW text, Ends(w, text, space) PROVE RepairInv'
    <3>1. CASE Records(w) /\ space
      BY <2>2, <3>1, RecordStep DEF Ends
    <3>2. CASE ~(Records(w) /\ space)
      BY <1>a, <2>2, <3>2 DEF Ends
    <3> QED BY <3>1, <3>2
  <2> QED BY <1>1, <2>1, <2>2 DEF Boundary
<1>2. ASSUME NEW w \in Words, EditWord(w) PROVE RepairInv'
  BY <1>2, <1>a DEF EditWord
<1>3. CASE Reopen \/ Restart
  BY <1>3, <1>a DEF Reopen, Restart
<1>4. CASE Undo
  BY <1>4, UndoStep
<1>5. CASE UNCHANGED vars
  BY <1>5, <1>a DEF vars
<1> QED BY <1>1, <1>2, <1>3, <1>4, <1>5 DEF Next

\* A repair that would be made was made by hand often enough.
LEMMA EarnedNow == RepairInv => RepairsAreEarned
<1> SUFFICES ASSUME RepairInv, NEW w \in Words, RepairFor(w) # None
             PROVE  made[<<w, RepairFor(w)>>] >= IF w \in Real THEN 3 ELSE 2
  BY DEF RepairsAreEarned
<1> DEFINE n == FixOf(fixes, w)
<1>2. /\ fixes \in Seq(Entries) /\ made \in [Pairs -> 0 .. 3] /\ OneRepair(fixes)
      /\ \A i \in DOMAIN fixes :
           /\ <<fixes[i].typo, fixes[i].fix>> \in Pairs
           /\ Least(fixes[i].count, 3) <= made[<<fixes[i].typo, fixes[i].fix>>]
  BY RepairParts
<1>3. /\ Learned(fixes, w, w \in Real) # Absent
      /\ RepairFor(w) = fixes[Learned(fixes, w, w \in Real)].fix
  BY DEF RepairFor
<1>4. /\ n # Absent /\ fixes[n].count >= (IF w \in Real THEN 3 ELSE 2)
      /\ Learned(fixes, w, w \in Real) = n
  BY <1>3 DEF Learned
<1>5. n \in DOMAIN fixes /\ fixes[n].typo = w
  BY <1>2, <1>4, FixFound
<1>6. RepairFor(w) = fixes[n].fix
  BY <1>3, <1>4
<1> HIDE DEF n
<1>7. fixes[n].count \in Nat /\ made[<<w, fixes[n].fix>>] \in 0 .. 3
  <2>1. fixes[n] \in Entries /\ <<w, fixes[n].fix>> \in Pairs
    BY <1>2, <1>5
  <2> QED BY <1>2, <2>1 DEF Entries
<1>8. Least(fixes[n].count, 3) <= made[<<w, fixes[n].fix>>]
  BY <1>2, <1>5
<1> QED BY <1>4, <1>6, <1>7, <1>8 DEF Least

\* A repair is made for the user only when it was made by hand at least twice, three
\* times for a real word, since the user last undid one of that word.
THEOREM EarnedByHand == Spec => []RepairsAreEarned
<1>1. Init => RepairInv
  BY RepairInit
<1>2. RepairInv /\ [Next]_vars => RepairInv'
  BY RepairStep
<1>3. RepairInv => RepairsAreEarned
  BY EarnedNow
<1> QED BY <1>1, <1>2, <1>3, PTL DEF Spec

-----------------------------------------------------------------------------
(* The memory in use.                                                       *)

FixEntries == [typo : Words, fix : Words, count : 0 .. MaxCount]
MaybeWord == Words \cup {None}

\* A word of the table is at one place, and the repairs and what is remembered of the
\* typing are words.
MemoryTypes ==
    /\ fixes \in Seq(FixEntries) /\ Len(fixes) <= MaxFixes
    /\ peak \in [text : MaybeWord, complete : BOOLEAN]
    /\ undo \in [typo : MaybeWord, fix : MaybeWord, learned : BOOLEAN]
    /\ prev \in MaybeWord /\ noted \in MaybeWord
MemoryInv == TableOK(table) /\ MemoryTypes

\* The typing as the program finds it at the start.
LEMMA NothingTyped == NoPeak \in [text : MaybeWord, complete : BOOLEAN]
                      /\ NoUndo \in [typo : MaybeWord, fix : MaybeWord, learned : BOOLEAN]
BY DEF NoPeak, NoUndo, MaybeWord

\* At the start the tables are empty.
LEMMA MemoryInit == Init => MemoryInv
<1> SUFFICES ASSUME Init PROVE MemoryInv
  OBVIOUS
<1>1. TableOK(table)
  BY EmptyOK DEF Init
<1>2. <<>> \in Seq(FixEntries) /\ Len(<<>>) = 0
  OBVIOUS
<1>3. fixes \in Seq(FixEntries) /\ Len(fixes) <= MaxFixes
  BY <1>2, Numbers DEF Init
<1> QED BY <1>1, <1>3, NothingTyped DEF Init, MemoryInv, MemoryTypes, MaybeWord

\* The table of repairs stays one.
LEMMA FixesStay ==
    ASSUME NEW f \in Seq(FixEntries), OneRepair(f), NEW typo \in Words, NEW fix \in Words
    PROVE  /\ Len(f) <= MaxFixes => Len(Repaired(f, typo, fix)) <= MaxFixes
           /\ Repaired(f, typo, fix) \in Seq(FixEntries)
           /\ Rejected(f, typo) \in Seq(FixEntries) /\ Len(Rejected(f, typo)) = Len(f)
<1> DEFINE n == FixOf(f, typo)
           entry == [typo |-> typo, fix |-> fix, count |-> 1]
<1>1. entry \in FixEntries /\ \A i \in DOMAIN f : f[i] \in FixEntries
  <2>1. 1 \in 0 .. MaxCount
    BY Numbers
  <2>2. entry \in FixEntries
    BY <2>1 DEF FixEntries
  <2> QED BY <2>2
<1>2. Len(f) \in Nat /\ DOMAIN f = 1 .. Len(f)
  OBVIOUS
<1>3. ASSUME NEW k, NEW e \in FixEntries
      PROVE  [f EXCEPT ![k] = e] \in Seq(FixEntries) /\ Len([f EXCEPT ![k] = e]) = Len(f)
  <2> DEFINE h == [f EXCEPT ![k] = e]
             m == Len(f)
  <2>1. h \in [1 .. m -> FixEntries]
    BY <1>1, <1>2
  <2>2. m \in Nat
    BY <1>2
  <2> HIDE DEF h, m
  <2>3. h \in Seq(FixEntries) /\ Len(h) = m
    BY <2>1, <2>2
  <2> QED BY <2>3 DEF h, m
<1>4. ASSUME NEW k \in DOMAIN f, NEW c \in 0 .. MaxCount
      PROVE  [f EXCEPT ![k].count = c] \in Seq(FixEntries) /\ Len([f EXCEPT ![k].count = c]) = Len(f)
  <2> DEFINE e == [f[k] EXCEPT !.count = c]
  <2>1. e \in FixEntries
    BY <1>1 DEF FixEntries
  <2>2. [f EXCEPT ![k].count = c] = [f EXCEPT ![k] = e]
    OBVIOUS
  <2> HIDE DEF e
  <2> QED BY <1>3, <2>1, <2>2
<1>5. n # Absent => n \in DOMAIN f
  <2>1. f \in Seq(Entries)
    <3>1. \A i \in DOMAIN f : f[i] \in Entries
      BY <1>1 DEF FixEntries, Entries
    <3> QED BY <1>2, <3>1, SeqDef
  <2> QED BY <2>1, FixFound
<1>6. Rejected(f, typo) \in Seq(FixEntries) /\ Len(Rejected(f, typo)) = Len(f)
  <2>1. Rejected(f, typo) = IF n = Absent THEN f ELSE [f EXCEPT ![n].count = 0]
    BY Zenon DEF Rejected
  <2>2. 0 \in 0 .. MaxCount
    BY Numbers
  <2> HIDE DEF n
  <2>3. n # Absent => [f EXCEPT ![n].count = 0] \in Seq(FixEntries) /\ Len([f EXCEPT ![n].count = 0]) = Len(f)
    BY <1>4, <1>5, <2>2
  <2> QED BY <2>1, <2>3
<1> DEFINE g == Repaired(f, typo, fix)
<1>7. CASE n # Absent /\ f[n].fix = fix
  <2> DEFINE c == Least(f[n].count + 1, MaxCount)
  <2>1. f[n].count \in 0 .. MaxCount
    BY <1>1, <1>5, <1>7 DEF FixEntries
  <2>2. c \in 0 .. MaxCount
    <3>1. f[n].count + 1 \in Nat
      BY <2>1, Numbers
    <3> QED BY <3>1, LeastCount
  <2>3. g = [f EXCEPT ![n].count = Least(@ + 1, MaxCount)]
    BY <1>7, Zenon DEF Repaired
  <2> HIDE DEF n
  <2>4. g = [f EXCEPT ![n].count = c]
    BY <2>3
  <2> HIDE DEF c, g
  <2> QED BY <1>4, <1>5, <1>6, <1>7, <2>2, <2>4 DEF g
<1>8. CASE n # Absent /\ f[n].fix # fix
  <2>1. g = [f EXCEPT ![n] = entry]
    BY <1>8, Zenon DEF Repaired
  <2> HIDE DEF g, n, entry
  <2> QED BY <1>1, <1>3, <1>6, <2>1 DEF g
<1>9. CASE n = Absent /\ Len(f) >= MaxFixes
  <2>1. g = [f EXCEPT ![Weakest(f)] = entry]
    BY <1>9, Zenon DEF Repaired
  <2> HIDE DEF g, n, entry
  <2> QED BY <1>1, <1>3, <1>6, <2>1 DEF g
<1>10. CASE n = Absent /\ ~(Len(f) >= MaxFixes)
  <2>1. g = Append(f, entry)
    BY <1>10, Zenon DEF Repaired
  <2> HIDE DEF g, n, entry
  <2>2. g \in Seq(FixEntries) /\ Len(g) = Len(f) + 1
    BY <1>1, <2>1
  <2>3. Len(g) <= MaxFixes
    BY <1>2, <1>10, <2>2, Numbers
  <2> QED BY <1>6, <2>2, <2>3 DEF g
<1> HIDE DEF n
<1> QED BY <1>7, <1>8, <1>9, <1>10

\* A learned repair puts in a word.
LEMMA RepairIsWord == ASSUME RepairInv, NEW w PROVE RepairFor(w) \in MaybeWord
<1> DEFINE n == FixOf(fixes, w)
           i == Learned(fixes, w, w \in Real)
<1>1. fixes \in Seq(Entries) /\ OneRepair(fixes)
  BY RepairParts
<1>2. n # Absent => n \in DOMAIN fixes
  BY <1>1, FixFound
<1>3. i # Absent => i = n /\ n # Absent
  BY Zenon DEF Learned
<1>4. RepairFor(w) = None \/ (i # Absent /\ RepairFor(w) = fixes[i].fix)
  <2> DEFINE Left == w \in Real /\ CountOf(table, w) >= FixCount(fixes, w)
  <2>1. RepairFor(w) = IF peak.text # None \/ i = Absent \/ Left THEN None ELSE fixes[i].fix
    BY DEF RepairFor
  <2> DEFINE text == RepairFor(w)
             own == fixes[i].fix
  <2>2. text = IF peak.text # None \/ i = Absent \/ Left THEN None ELSE own
    BY <2>1
  <2> HIDE DEF i, Left, text, own
  <2>3. CASE peak.text # None \/ i = Absent \/ Left
    <3>1. text = None
      BY <2>2, <2>3, Zenon
    <3> QED BY <3>1 DEF text
  <2>4. CASE ~(peak.text # None \/ i = Absent \/ Left)
    <3>1. text = own
      BY <2>2, <2>4, Zenon
    <3> QED BY <2>4, <3>1, Zenon DEF text, own
  <2> QED BY <2>3, <2>4, Zenon
<1>5. \A k \in DOMAIN fixes : fixes[k].fix \in Words
  <2>1. \A k \in DOMAIN fixes : fixes[k] \in Entries
    BY <1>1
  <2> QED BY <2>1 DEF Entries
<1> HIDE DEF n, i
<1> QED BY <1>2, <1>3, <1>4, <1>5 DEF MaybeWord

\* What is remembered of a word keeps to words.
LEMMA NotesStay ==
    ASSUME MemoryInv, NEW w \in Words, NEW space \in BOOLEAN, Notes(w, space)
    PROVE  TableOK(table)' /\ noted' \in MaybeWord
<1>1. CASE space
  <2>1. table' \in Counted(table, w, 1) /\ noted' = w
    BY <1>1 DEF Notes
  <2>2. TableOK(table)
    BY DEF MemoryInv
  <2> QED BY <2>1, <2>2, CountedOK DEF MaybeWord
<1>2. CASE ~space
  BY <1>2 DEF Notes, MemoryInv, MemoryTypes
<1> QED BY <1>1, <1>2

\* Every step keeps the tables.
LEMMA MemoryStep == RepairInv /\ MemoryInv /\ [Next]_vars => MemoryInv'
<1> SUFFICES ASSUME RepairInv, MemoryInv, [Next]_vars PROVE MemoryInv'
  OBVIOUS
<1>0. /\ TableOK(table) /\ fixes \in Seq(FixEntries) /\ Len(fixes) <= MaxFixes /\ OneRepair(fixes)
      /\ peak \in [text : MaybeWord, complete : BOOLEAN]
      /\ undo \in [typo : MaybeWord, fix : MaybeWord, learned : BOOLEAN]
      /\ prev \in MaybeWord /\ noted \in MaybeWord
      /\ Words \subseteq MaybeWord /\ None \in MaybeWord /\ None \notin Words
      /\ \A w \in MaybeWord : w # None => w \in Words
  BY RepairParts, MemoryAssumption DEF MemoryInv, MemoryTypes, MaybeWord
<1>1. ASSUME NEW w \in Words, NEW space \in BOOLEAN, Boundary(w, space) PROVE MemoryInv'
  <2>1. CASE Repairs(w, space)
    <3> DEFINE fix == RepairFor(w)
    <3>1. /\ fix # None /\ Notes(fix, space) /\ undo' = [typo |-> w, fix |-> fix, learned |-> TRUE]
          /\ peak' = NoPeak /\ prev' = None /\ fixes' = fixes
      BY <2>1 DEF Repairs
    <3>2. fix \in Words
      BY <1>0, <3>1, RepairIsWord
    <3> HIDE DEF fix
    <3>3. TableOK(table)' /\ noted' \in MaybeWord
      BY <3>1, <3>2, NotesStay
    <3>4. undo' \in [typo : MaybeWord, fix : MaybeWord, learned : BOOLEAN]
      BY <1>0, <3>1, <3>2
    <3> QED BY <1>0, <3>1, <3>3, <3>4, NothingTyped DEF MemoryInv, MemoryTypes
  <2>2. ASSUME NEW text \in Real \cup {w}, Ends(w, text, space) PROVE MemoryInv'
    <3>1. text \in Words
      BY MemoryAssumption
    <3>2. TableOK(table)' /\ noted' \in MaybeWord
      BY <2>2, <3>1, NotesStay DEF Ends
    <3>3. fixes' \in Seq(FixEntries) /\ Len(fixes') <= MaxFixes
      <4>1. CASE Records(w) /\ space
        <5>1. peak.text \in Words
          BY <1>0, <4>1 DEF Records
        <5>2. fixes' = Repaired(fixes, peak.text, w)
          BY <2>2, <4>1 DEF Ends
        <5> QED BY <1>0, <5>1, <5>2, FixesStay
      <4>2. CASE ~(Records(w) /\ space)
        <5>1. fixes' = fixes
          BY <2>2, <4>2 DEF Ends
        <5> QED BY <1>0, <5>1
      <4> QED BY <4>1, <4>2
    <3>4. undo' \in [typo : MaybeWord, fix : MaybeWord, learned : BOOLEAN]
      <4>1. undo' = IF text = w THEN NoUndo ELSE [typo |-> w, fix |-> text, learned |-> FALSE]
        BY <2>2 DEF Ends
      <4> QED BY <1>0, <3>1, <4>1, NothingTyped
    <3>5. prev' \in MaybeWord /\ peak' = NoPeak
      BY <1>0, <2>2 DEF Ends
    <3> QED BY <3>2, <3>3, <3>4, <3>5, NothingTyped DEF MemoryInv, MemoryTypes
  <2> QED BY <1>1, <2>1, <2>2 DEF Boundary
<1>2. ASSUME NEW w \in Words, EditWord(w) PROVE MemoryInv'
  <2>1. /\ peak' = [text |-> w, complete |-> FALSE] /\ prev' = None /\ undo' = NoUndo
        /\ table' = table /\ fixes' = fixes /\ noted' = noted
    BY <1>2 DEF EditWord
  <2>2. peak' \in [text : MaybeWord, complete : BOOLEAN]
    BY <1>0, <2>1
  <2> QED BY <1>0, <2>1, <2>2, NothingTyped DEF MemoryInv, MemoryTypes
<1>3. CASE Reopen
  <2>1. /\ prev # None /\ peak' = [text |-> prev, complete |-> TRUE] /\ prev' = None /\ undo' = NoUndo
        /\ table' = TakenBack(table, prev) /\ fixes' = fixes /\ noted' = noted
    BY <1>3 DEF Reopen
  <2>2. peak' \in [text : MaybeWord, complete : BOOLEAN]
    BY <1>0, <2>1
  <2>3. TableOK(TakenBack(table, prev))
    BY <1>0, <2>1, TakenBackOK
  <2> QED BY <1>0, <2>1, <2>2, <2>3, NothingTyped DEF MemoryInv, MemoryTypes
<1>4. CASE Undo
  <2>1. /\ undo.fix # None /\ undo' = NoUndo /\ prev' = None /\ peak' = NoPeak /\ noted' = None
        /\ table' = IF noted = undo.fix THEN TakenBack(table, undo.fix) ELSE table
        /\ fixes' = IF undo.learned THEN Rejected(fixes, undo.typo) ELSE fixes
    BY <1>4 DEF Undo, Unlearned
  <2>2. TableOK(TakenBack(table, undo.fix))
    BY <1>0, <2>1, TakenBackOK
  <2>3. fixes' \in Seq(FixEntries) /\ Len(fixes') <= MaxFixes
    <3>1. undo.typo = None => fixes' \in Seq(FixEntries) /\ Len(fixes') <= MaxFixes
      <4>1. ASSUME undo.typo = None PROVE Rejected(fixes, None) = fixes
        <5>1. \A i \in DOMAIN fixes : fixes[i].typo # None
          <6>1. \A i \in DOMAIN fixes : fixes[i] \in FixEntries
            BY <1>0
          <6> QED BY <1>0, <6>1 DEF FixEntries
        <5>2. FixOf(fixes, None) = Absent
          BY <5>1, Zenon DEF FixOf
        <5> QED BY <5>2, Zenon DEF Rejected
      <4> QED BY <1>0, <2>1, <4>1
    <3>2. undo.typo # None => fixes' \in Seq(FixEntries) /\ Len(fixes') <= MaxFixes
      <4>1. ASSUME undo.typo # None
            PROVE  Rejected(fixes, undo.typo) \in Seq(FixEntries) /\ Len(Rejected(fixes, undo.typo)) = Len(fixes)
        <5>1. undo.typo \in Words
          BY <1>0, <4>1
        <5> QED BY <1>0, <5>1, FixesStay
      <4> QED BY <1>0, <2>1, <4>1
    <3> QED BY <3>1, <3>2
  <2>4. TableOK(table)'
    BY <1>0, <2>1, <2>2
  <2> QED BY <1>0, <2>1, <2>3, <2>4, NothingTyped DEF MemoryInv, MemoryTypes
<1>5. CASE Restart
  <2>1. /\ table' \in Reloaded(table) /\ peak' = NoPeak /\ prev' = None /\ undo' = NoUndo /\ noted' = None
        /\ fixes' = fixes
    BY <1>5 DEF Restart
  <2>2. TableOK(table)'
    BY <1>0, <2>1, ReloadedOK
  <2> QED BY <1>0, <2>1, <2>2, NothingTyped DEF MemoryInv, MemoryTypes
<1>6. CASE UNCHANGED vars
  BY <1>0, <1>6 DEF vars, MemoryInv, MemoryTypes
<1> QED BY <1>1, <1>2, <1>3, <1>4, <1>5, <1>6 DEF Next

\* The types, of the invariant.
LEMMA TypesNow == MemoryInv => TypeOK
<1> SUFFICES ASSUME MemoryInv PROVE TypeOK
  OBVIOUS
<1>1. TableOK(table) /\ MemoryTypes
  BY DEF MemoryInv
<1>2. /\ Len(table.words) <= MaxWords /\ Len(table.words) \in Nat /\ table.clock \in Nat
      /\ Holds(table.words, table.slots, Len(table.words))
      /\ \A i \in DOMAIN table.words : /\ table.words[i] \in WordEntries
                                       /\ table.words[i].seen \in 0 .. table.clock
  BY <1>1, Table
<1>3. \A i \in DOMAIN table.words :
        table.words[i] \in [text : Words, count : 0 .. MaxCount, seen : 0 .. table.clock]
  BY <1>2 DEF WordEntries
<1>4. table.slots \in [0 .. Slots - 1 -> 0 .. Len(table.words)]
  BY <1>2 DEF Holds, Positions
<1>5. \A i \in DOMAIN fixes : fixes[i] \in [typo : Words, fix : Words, count : 0 .. MaxCount]
  <2>1. \A i \in DOMAIN fixes : fixes[i] \in FixEntries
    BY <1>1 DEF MemoryTypes
  <2> QED BY <2>1 DEF FixEntries
<1>6. peak.text \in Words \cup {None} /\ prev \in Words \cup {None} /\ noted \in Words \cup {None}
      /\ Len(fixes) <= MaxFixes
  BY <1>1 DEF MemoryTypes, MaybeWord
<1> QED BY <1>2, <1>3, <1>4, <1>5, <1>6 DEF TypeOK

\* Each word is found where it is, of the invariant.
LEMMA FindableNow == MemoryInv => WordsAreFindable
<1> SUFFICES ASSUME MemoryInv, NEW w \in Words
             PROVE  {p \in DOMAIN table.words : table.words[p].text = w}
                      = IF Find(table, w) = Absent THEN {} ELSE {Find(table, w)}
  BY DEF WordsAreFindable
<1>1. TableOK(table)
  BY DEF MemoryInv
<1>2. /\ Find(table, w) = Absent => \A i \in DOMAIN table.words : table.words[i].text # w
      /\ Find(table, w) # Absent => Find(table, w) \in DOMAIN table.words /\ table.words[Find(table, w)].text = w
  BY <1>1, Lookup
<1>3. \A i, j \in DOMAIN table.words : table.words[i].text = table.words[j].text => i = j
  BY <1>1, Table DEF Distinct
<1> DEFINE f == Find(table, w)
<1> HIDE DEF f
<1> QED BY <1>2, <1>3 DEF f

\* The tables hold words and counts within their limits, and the slots positions of words.
THEOREM TypesAreRight == Spec => []TypeOK
<1>1. Init => RepairInv /\ MemoryInv
  BY RepairInit, MemoryInit
<1>2. (RepairInv /\ MemoryInv) /\ [Next]_vars => (RepairInv /\ MemoryInv)'
  BY RepairStep, MemoryStep
<1>3. RepairInv /\ MemoryInv => TypeOK
  BY TypesNow
<1> QED BY <1>1, <1>2, <1>3, PTL DEF Spec

\* Every word of the table is found at its own place and no other word is found, whatever
\* was evicted, aged, reloaded or left at a count of zero.
THEOREM EveryWordIsFound == Spec => []WordsAreFindable
<1>1. Init => RepairInv /\ MemoryInv
  BY RepairInit, MemoryInit
<1>2. (RepairInv /\ MemoryInv) /\ [Next]_vars => (RepairInv /\ MemoryInv)'
  BY RepairStep, MemoryStep
<1>3. RepairInv /\ MemoryInv => WordsAreFindable
  BY FindableNow
<1> QED BY <1>1, <1>2, <1>3, PTL DEF Spec

-----------------------------------------------------------------------------
(* Known words stay known.                                                  *)

\* The word at i of t is in x with a count that makes it known, or only words that were
\* used no less are.
StaysKnown(t, x, i) ==
    \/ \E k \in DOMAIN x.words : x.words[k].text = t.words[i].text /\ x.words[k].count >= Known
    \/ /\ \A k \in DOMAIN x.words : x.words[k].text # t.words[i].text
       /\ \A j \in DOMAIN t.words : \A k \in DOMAIN x.words :
            x.words[k].text = t.words[j].text => t.words[j].count >= t.words[i].count

\* A new word in a full table: the words in order of use, the first of them aged and
\* the new one after them.
TurnedOver(t, w, x, s) ==
    /\ Distinct(s) /\ DOMAIN s = 1 .. MaxWords
    /\ \A k \in DOMAIN s : s[k] \in WordEntries /\ s[k].text \in Words /\ s[k].count \in 0 .. MaxCount
    /\ \A k \in DOMAIN s : \E j \in DOMAIN t.words : t.words[j] = s[k]
    /\ \A j \in DOMAIN t.words : \E k \in DOMAIN s : s[k] = t.words[j]
    /\ \A k, m \in DOMAIN s : k < m => s[k].count >= s[m].count
    /\ DOMAIN x.words = 1 .. Staying + 1
    /\ x.words[Staying + 1].text = w /\ x.words[Staying + 1].count = 1
    /\ \A k \in 1 .. Staying : /\ x.words[k].text = s[k].text
                               /\ x.words[k].count = Aged(s[k], t.aged).count

\* There is such an order.
LEMMA Turnover ==
    ASSUME NEW t, TableOK(t), NEW x, NEW w \in Words, NewWhenFull(t, w, x)
    PROVE  \E s : TurnedOver(t, w, x, s)
<1> DEFINE Old(s) == [k \in 1 .. Staying |-> Aged(s[k], t.aged)]
           new == [text |-> w, count |-> 1, seen |-> t.clock + 1]
<1>0. t.words \in Seq(WordEntries) /\ Distinct(t.words) /\ t.aged \in Nat
  BY Table
<1>1. PICK s \in Ranked(ToSet(t.words)) : Len(s) = MaxWords /\ x.words = Append(Old(s), new)
  BY DEF NewWhenFull
<1>2. /\ ToSet(t.words) \in SUBSET ToSet(t.words) /\ ToSet(t.words) \subseteq WordEntries
      /\ \A k \in DOMAIN t.words : t.words[k] \in ToSet(t.words)
      /\ \A e \in ToSet(t.words) : \E k \in DOMAIN t.words : t.words[k] = e
  BY <1>0, Entering
<1>3. /\ s \in Seq(WordEntries) /\ Distinct(s) /\ DOMAIN s = 1 .. MaxWords
      /\ (\A k \in DOMAIN s : s[k] \in ToSet(t.words))
      /\ (\A e \in ToSet(t.words) : \E k \in DOMAIN s : s[k] = e)
      /\ \A k, m \in DOMAIN s : Before(s[m], s[k]) => m < k
  BY <1>0, <1>1, <1>2, Sorted
<1>4. \A k \in DOMAIN s : s[k] \in WordEntries /\ s[k].text \in Words /\ s[k].count \in 0 .. MaxCount
  <2>1. \A k \in DOMAIN s : s[k] \in WordEntries
    <3>1. \A k \in DOMAIN s : s[k] \in ToSet(t.words)
      BY <1>3
    <3> QED BY <1>2, <3>1
  <2> QED BY <2>1 DEF WordEntries
<1>5. Staying \in Nat /\ Staying < MaxWords /\ MaxWords \in Nat
  BY StayingOK, Numbers
<1> DEFINE ws == Old(s)
<1>6. \A k \in 1 .. Staying : /\ ws[k].text = s[k].text
                              /\ ws[k].count = Aged(s[k], t.aged).count
                              /\ ws[k] \in WordEntries
  <2>1. \A k \in 1 .. Staying : k \in DOMAIN s
    BY <1>3, <1>5
  <2>2. \A k \in 1 .. Staying : ws[k] = Aged(s[k], t.aged) /\ s[k] \in WordEntries
    BY <1>4, <2>1
  <2>3. t.aged \in Nat
    BY <1>0
  <2> HIDE DEF ws
  <2>4. ASSUME NEW k \in 1 .. Staying
        PROVE  ws[k].text = s[k].text /\ ws[k].count = Aged(s[k], t.aged).count /\ ws[k] \in WordEntries
    <3>1. s[k] \in WordEntries /\ ws[k] = Aged(s[k], t.aged)
      BY <2>2
    <3>2. Aged(s[k], t.aged) \in WordEntries /\ Aged(s[k], t.aged).text = s[k].text
      BY <2>3, <3>1, AgedOK
    <3> QED BY <3>1, <3>2
  <2> QED BY <2>4
<1>7. Len(ws) = Staying
  BY <1>5
<1>8. /\ DOMAIN x.words = 1 .. Staying + 1 /\ x.words[Staying + 1].text = w /\ x.words[Staying + 1].count = 1
      /\ \A k \in 1 .. Staying : /\ x.words[k].text = s[k].text
                                 /\ x.words[k].count = Aged(s[k], t.aged).count
  <2>1. ws \in Seq(WordEntries)
    <3>1. ws \in [1 .. Staying -> WordEntries]
      BY <1>6
    <3> HIDE DEF ws
    <3> QED BY <1>5, <3>1
  <2> HIDE DEF ws, new
  <2>2. x.words = Append(ws, new) /\ new.text = w /\ new.count = 1
    BY <1>1 DEF ws, new
  <2>3. /\ DOMAIN x.words = 1 .. Staying + 1 /\ x.words[Staying + 1] = new
        /\ \A k \in 1 .. Staying : x.words[k] = ws[k]
    BY <1>5, <1>7, <2>1, <2>2
  <2> QED BY <1>6, <2>2, <2>3
<1> HIDE DEF ws, new, Old
<1>9. ASSUME NEW k \in DOMAIN s, NEW m \in DOMAIN s, k < m PROVE s[k].count >= s[m].count
  <2>1. k \in Nat /\ m \in Nat /\ ~(m < k)
    BY <1>3, <1>5, <1>9
  <2>2. ~Before(s[m], s[k])
    BY <1>3, <2>1
  <2>3. ~(s[m].count > s[k].count)
    BY <2>2 DEF Before
  <2>4. s[m].count \in Nat /\ s[k].count \in Nat
    BY <1>4, Numbers
  <2> QED BY <2>3, <2>4
<1>10. /\ \A k \in DOMAIN s : \E j \in DOMAIN t.words : t.words[j] = s[k]
       /\ \A j \in DOMAIN t.words : \E k \in DOMAIN s : s[k] = t.words[j]
  BY <1>2, <1>3
<1>11. TurnedOver(t, w, x, s)
  BY <1>3, <1>4, <1>8, <1>9, <1>10 DEF TurnedOver
<1> QED BY <1>11

\* A use of a word leaves known words known.
LEMMA KnownWhenCounted ==
    ASSUME NEW t, TableOK(t), NEW x, TableOK(x), NEW w \in Words,
           CountedUp(t, w, x) \/ NewWord(t, w, x) \/ NewWhenFull(t, w, x),
           NEW i \in DOMAIN t.words, t.words[i].count >= Known, t.words[i].seen > t.aged
    PROVE  StaysKnown(t, x, i)
<1>1. /\ t.words \in Seq(WordEntries) /\ Len(t.words) \in Nat /\ DOMAIN t.words = 1 .. Len(t.words)
      /\ Distinct(t.words) /\ t.aged \in Nat
      /\ \A k \in DOMAIN t.words : t.words[k] \in WordEntries /\ t.words[k].count \in 0 .. MaxCount
  BY Table
<1>2. CASE CountedUp(t, w, x)
  <2>1. PICK k \in DOMAIN t.words, c \in 0 .. MaxCount :
          /\ t.words[k].text = w /\ c = Least(t.words[k].count + 1, MaxCount)
          /\ x.words = [t.words EXCEPT ![k] = [text |-> w, count |-> c, seen |-> t.clock + 1]]
    BY <1>2 DEF CountedUp
  <2>2. DOMAIN x.words = DOMAIN t.words /\ x.words[i].text = t.words[i].text
        /\ x.words[i].count = IF i = k THEN c ELSE t.words[i].count
    BY <2>1
  <2>3. c >= t.words[k].count
    BY <1>1, <2>1, Numbers DEF Least
  <2>4. x.words[i].count >= Known
    BY <1>1, <2>1, <2>2, <2>3 DEF Known
  <2> QED BY <2>2, <2>4 DEF StaysKnown
<1>3. CASE NewWord(t, w, x)
  <2>1. x.words = Append(t.words, [text |-> w, count |-> 1, seen |-> t.clock + 1])
    BY <1>3 DEF NewWord
  <2>2. i \in DOMAIN x.words /\ x.words[i] = t.words[i]
    BY <1>1, <2>1
  <2> QED BY <2>2 DEF StaysKnown
<1>4. CASE NewWhenFull(t, w, x)
  <2>1. PICK s : TurnedOver(t, w, x, s)
    BY <1>4, Turnover
  <2>2. Staying \in Nat /\ Staying < MaxWords /\ MaxWords \in Nat
    BY StayingOK, Numbers
  <2>3. /\ Distinct(s) /\ DOMAIN s = 1 .. MaxWords
        /\ \A k \in DOMAIN s : s[k] \in WordEntries
        /\ \A j \in DOMAIN t.words : \E k \in DOMAIN s : s[k] = t.words[j]
        /\ \A k, m \in DOMAIN s : k < m => s[k].count >= s[m].count
        /\ DOMAIN x.words = 1 .. Staying + 1 /\ x.words[Staying + 1].text = w
        /\ \A k \in 1 .. Staying : /\ x.words[k].text = s[k].text
                                   /\ x.words[k].count = Aged(s[k], t.aged).count
    BY <2>1 DEF TurnedOver
  <2>4. PICK m \in DOMAIN s : s[m] = t.words[i]
    BY <2>3
  <2>5. CASE m <= Staying
    <3>1. m \in 1 .. Staying /\ m \in DOMAIN x.words
      BY <2>2, <2>3, <2>4, <2>5
    <3>2. x.words[m].text = t.words[i].text /\ x.words[m].count = Aged(s[m], t.aged).count
      BY <2>3, <2>4, <3>1
    <3>3. s[m].seen > t.aged /\ s[m] \in WordEntries
      BY <2>3, <2>4
    <3>4. Aged(s[m], t.aged).count = s[m].count - s[m].count \div 4
      BY <1>1, <3>3, AgedOK
    <3> DEFINE c == s[m].count
    <3>5. c \in Nat /\ c >= 3
      BY <1>1, <2>4 DEF Known
    <3> HIDE DEF c
    <3>6. c - c \div 4 >= 3
      BY <3>5
    <3>7. x.words[m].count >= Known
      BY <3>2, <3>4, <3>6 DEF c, Known
    <3> QED BY <3>1, <3>2, <3>7 DEF StaysKnown
  <2>6. CASE ~(m <= Staying)
    <3>1. \A k \in DOMAIN t.words : t.words[k].text # w
      BY <1>4 DEF NewWhenFull
    <3>2. \A k \in DOMAIN x.words : k \in 1 .. Staying \/ k = Staying + 1
      BY <2>2, <2>3
    <3>3. \A k \in 1 .. Staying : k \in DOMAIN s /\ k < m /\ k # m
      BY <2>2, <2>3, <2>4, <2>6
    <3>4. ASSUME NEW k \in DOMAIN x.words PROVE x.words[k].text # t.words[i].text
      BY <2>3, <2>4, <3>1, <3>2, <3>3 DEF Distinct
    <3>5. ASSUME NEW j \in DOMAIN t.words, NEW k \in DOMAIN x.words, x.words[k].text = t.words[j].text
          PROVE  t.words[j].count >= t.words[i].count
      <4>1. k \in 1 .. Staying
        BY <2>3, <3>1, <3>2, <3>5
      <4>2. PICK n \in DOMAIN s : s[n] = t.words[j]
        BY <2>3
      <4>3. s[k].text = s[n].text /\ k \in DOMAIN s /\ k < m
        BY <2>3, <3>3, <3>5, <4>1, <4>2
      <4>4. k = n
        BY <2>3, <4>2, <4>3 DEF Distinct
      <4> QED BY <2>3, <2>4, <4>2, <4>3, <4>4
    <3> QED BY <3>4, <3>5 DEF StaysKnown
  <2> QED BY <2>5, <2>6
<1> QED BY <1>2, <1>3, <1>4

\* A restart does, too.
LEMMA KnownWhenReloaded ==
    ASSUME NEW t, TableOK(t), NEW x \in Reloaded(t), NEW i \in DOMAIN t.words, t.words[i].count >= Known
    PROVE  StaysKnown(t, x, i)
<1>1. t.words[i].count >= 2 /\ Distinct(t.words)
  <2>1. t.words[i].count \in 0 .. MaxCount /\ Distinct(t.words)
    BY Table
  <2> QED BY <2>1, Numbers DEF Known
<1>2. PICK k \in DOMAIN x.words : x.words[k].text = t.words[i].text
  BY <1>1, ReloadedOK
<1>3. PICK j \in DOMAIN t.words :
        x.words[k].text = t.words[j].text /\ x.words[k].count = t.words[j].count
  BY ReloadedOK
<1>4. j = i
  BY <1>1, <1>2, <1>3 DEF Distinct
<1> QED BY <1>2, <1>3, <1>4 DEF StaysKnown

\* What the property says of a step, of what the tables hold.
LEMMA KnownByFind ==
    ASSUME NEW t, TableOK(t), NEW x, TableOK(x), NEW i \in DOMAIN t.words, StaysKnown(t, x, i)
    PROVE  IF Find(x, t.words[i].text) # Absent
             THEN x.words[Find(x, t.words[i].text)].count >= Known
             ELSE \A j \in DOMAIN t.words :
                    Find(x, t.words[j].text) # Absent => t.words[j].count >= t.words[i].count
<1>1. \A j \in DOMAIN t.words : t.words[j].text \in Words
  BY Table
<1>2. \A j \in DOMAIN t.words :
        Find(x, t.words[j].text) # Absent
          => /\ Find(x, t.words[j].text) \in DOMAIN x.words
             /\ x.words[Find(x, t.words[j].text)].text = t.words[j].text
  BY <1>1, Lookup
<1>3. \A k \in DOMAIN x.words : Find(x, x.words[k].text) = k /\ k # Absent
  <2>1. DOMAIN x.words = 1 .. Len(x.words)
    BY Table
  <2> QED BY <2>1, LookupOwn DEF Absent
<1> HIDE DEF Find
<1>4. CASE \E k \in DOMAIN x.words : x.words[k].text = t.words[i].text /\ x.words[k].count >= Known
  BY <1>3, <1>4
<1>5. CASE /\ \A k \in DOMAIN x.words : x.words[k].text # t.words[i].text
           /\ \A j \in DOMAIN t.words : \A k \in DOMAIN x.words :
                x.words[k].text = t.words[j].text => t.words[j].count >= t.words[i].count
  BY <1>2, <1>5
<1> QED BY <1>4, <1>5 DEF StaysKnown

\* What a step does to the table of words.
LEMMA TableSteps ==
    ASSUME RepairInv, MemoryInv, [Next]_vars
    PROVE  \/ table' = table
           \/ \E w \in Words : table' \in Counted(table, w, 1)
           \/ (Undo \/ Reopen) /\ \E w \in Words : table' = TakenBack(table, w)
           \/ table' \in Reloaded(table)
<1>0. /\ prev \in MaybeWord /\ undo.fix \in MaybeWord
      /\ \A w \in MaybeWord : w # None => w \in Words
  BY DEF MemoryInv, MemoryTypes, MaybeWord
<1>1. ASSUME NEW w \in Words, NEW space \in BOOLEAN, Boundary(w, space)
      PROVE  table' = table \/ \E v \in Words : table' \in Counted(table, v, 1)
  <2>1. CASE Repairs(w, space)
    <3>1. RepairFor(w) \in Words /\ Notes(RepairFor(w), space)
      BY <1>0, <2>1, RepairIsWord DEF Repairs
    <3> QED BY <3>1 DEF Notes
  <2>2. ASSUME NEW text \in Real \cup {w}, Ends(w, text, space)
        PROVE  table' = table \/ \E v \in Words : table' \in Counted(table, v, 1)
    <3>1. text \in Words /\ Notes(text, space)
      BY <2>2, MemoryAssumption DEF Ends
    <3> QED BY <3>1 DEF Notes
  <2> QED BY <1>1, <2>1, <2>2 DEF Boundary
<1>2. ASSUME NEW w \in Words, EditWord(w) PROVE table' = table
  BY <1>2 DEF EditWord
<1>3. CASE Reopen
  BY <1>0, <1>3 DEF Reopen
<1>4. CASE Undo
  <2>1. undo.fix \in Words /\ table' = IF noted = undo.fix THEN TakenBack(table, undo.fix) ELSE table
    BY <1>0, <1>4 DEF Undo
  <2> QED BY <1>4, <2>1
<1>5. CASE Restart
  BY <1>5 DEF Restart
<1>6. CASE UNCHANGED vars
  BY <1>6 DEF vars
<1> QED BY <1>1, <1>2, <1>3, <1>4, <1>5, <1>6 DEF Next

\* The property of a step.
KnownStep ==
    \A i \in DOMAIN table.words :
        KnownInUse(i) /\ ~Undo /\ ~Reopen =>
          LET now == Find(table', table.words[i].text)
          IN  IF now # Absent THEN table'.words[now].count >= Known
              ELSE \A j \in DOMAIN table.words :
                     Find(table', table.words[j].text) # Absent
                       => table.words[j].count >= table.words[i].count

\* Every step has it.
LEMMA KnownStepOK ==
    ASSUME RepairInv, MemoryInv, [Next]_vars, MemoryInv' PROVE KnownStep
<1> SUFFICES ASSUME NEW i \in DOMAIN table.words, KnownInUse(i), ~Undo, ~Reopen
             PROVE  LET now == Find(table', table.words[i].text)
                    IN  IF now # Absent THEN table'.words[now].count >= Known
                        ELSE \A j \in DOMAIN table.words :
                               Find(table', table.words[j].text) # Absent
                                 => table.words[j].count >= table.words[i].count
  BY DEF KnownStep
<1>1. table.words[i].count >= Known /\ table.words[i].seen > table.aged
  BY DEF KnownInUse
<1>2. TableOK(table) /\ TableOK(table)'
  BY DEF MemoryInv
<1> DEFINE x == table'
<1>3. TableOK(x)
  BY <1>2
<1>4. x = table \/ (\E w \in Words : x \in Counted(table, w, 1)) \/ x \in Reloaded(table)
  BY TableSteps
<1> HIDE DEF x
<1>5. StaysKnown(table, x, i)
  <2>1. CASE x = table
    BY <1>1, <2>1 DEF StaysKnown
  <2>2. ASSUME NEW w \in Words, x \in Counted(table, w, 1) PROVE StaysKnown(table, x, i)
    <3>1. CountedUp(table, w, x) \/ NewWord(table, w, x) \/ NewWhenFull(table, w, x)
      BY <1>2, <2>2, CountedOK
    <3> QED BY <1>1, <1>2, <1>3, <3>1, KnownWhenCounted
  <2>3. CASE x \in Reloaded(table)
    BY <1>1, <1>2, <2>3, KnownWhenReloaded
  <2> QED BY <1>4, <2>1, <2>2, <2>3
<1>6. IF Find(x, table.words[i].text) # Absent
        THEN x.words[Find(x, table.words[i].text)].count >= Known
        ELSE \A j \in DOMAIN table.words :
               Find(x, table.words[j].text) # Absent => table.words[j].count >= table.words[i].count
  BY <1>2, <1>3, <1>5, KnownByFind
<1> QED BY <1>6 DEF x

\* A known word in use stays known when other words push some out, unless it is one of
\* the least used itself.
THEOREM KnownWordsStay == Spec => KnownStaysKnown
<1>1. Init => RepairInv /\ MemoryInv
  BY RepairInit, MemoryInit
<1>2. (RepairInv /\ MemoryInv) /\ [Next]_vars => (RepairInv /\ MemoryInv)'
  BY RepairStep, MemoryStep
<1>3. (RepairInv /\ MemoryInv) /\ (RepairInv /\ MemoryInv)' /\ [Next]_vars => [KnownStep]_vars
  BY KnownStepOK
<1>4. Spec => [][KnownStep]_vars
  BY <1>1, <1>2, <1>3, PTL DEF Spec
<1> QED BY <1>4, Zenon DEF KnownStaysKnown, KnownStep

-----------------------------------------------------------------------------
(* The table implements the vocabulary.                                     *)

\* How often each word of a table was used.
TextsOf(t) == {t.words[i].text : i \in DOMAIN t.words}
UsesOf(t) == [w \in TextsOf(t) |-> CountOf(t, w)]
IsOn(f, D) == f = [w \in D |-> f[w]]

\* The uses are the counts of the words, each at its own place.
LEMMA UsesFacts ==
    ASSUME NEW t, TableOK(t)
    PROVE  /\ DOMAIN UsesOf(t) = TextsOf(t) /\ UsesOf(t) = [w \in TextsOf(t) |-> UsesOf(t)[w]]
           /\ TextsOf(t) \subseteq Words
           /\ \A i \in DOMAIN t.words : t.words[i].text \in TextsOf(t) /\ UsesOf(t)[t.words[i].text] = t.words[i].count
           /\ \A w \in TextsOf(t) : UsesOf(t)[w] \in 0 .. MaxCount
           /\ Cardinality(TextsOf(t)) = Len(t.words) /\ IsFiniteSet(TextsOf(t))
<1>1. /\ Distinct(t.words) /\ Len(t.words) \in Nat /\ DOMAIN t.words = 1 .. Len(t.words)
      /\ \A i \in DOMAIN t.words : t.words[i].text \in Words /\ t.words[i].count \in 0 .. MaxCount
  BY Table
<1>2. \A i \in DOMAIN t.words : CountOf(t, t.words[i].text) = t.words[i].count
  BY LookupOwn
<1>3. /\ DOMAIN UsesOf(t) = TextsOf(t) /\ UsesOf(t) = [w \in TextsOf(t) |-> UsesOf(t)[w]]
      /\ \A w \in TextsOf(t) : UsesOf(t)[w] = CountOf(t, w)
  BY DEF UsesOf
<1>4. TextsOf(t) \subseteq Words /\ \A i \in DOMAIN t.words : t.words[i].text \in TextsOf(t)
  BY <1>1 DEF TextsOf
<1>5. \A i \in DOMAIN t.words : UsesOf(t)[t.words[i].text] = t.words[i].count
  BY <1>2, <1>3, <1>4
<1>6. \A w \in TextsOf(t) : UsesOf(t)[w] \in 0 .. MaxCount
  BY <1>1, <1>5 DEF TextsOf
<1>7. Cardinality(TextsOf(t)) = Len(t.words) /\ IsFiniteSet(TextsOf(t))
  <2> DEFINE n == Len(t.words)
             S == TextsOf(t)
             f == [i \in 1 .. n |-> t.words[i].text]
  <2>1. f \in [1 .. n -> S] /\ (\A i, j \in 1 .. n : f[i] = f[j] => i = j)
        /\ \A w \in S : \E i \in 1 .. n : f[i] = w
    BY <1>1 DEF TextsOf, Distinct
  <2>2. n \in Nat
    BY <1>1
  <2> HIDE DEF n, S, f
  <2>3. f \in Injection(1 .. n, S) /\ f \in Surjection(1 .. n, S)
    BY <2>1 DEF Injection, IsInjective, Surjection
  <2>4. IsFiniteSet(1 .. n) /\ Cardinality(1 .. n) = n
    BY <2>2, FS_Interval
  <2>5. IsFiniteSet(S) /\ Cardinality(S) = n
    BY <2>3, <2>4, FS_Surjection
  <2> QED BY <2>5 DEF n, S
<1> QED BY <1>3, <1>4, <1>5, <1>6, <1>7

\* A function that gives each word its count is the uses of the table.
LEMMA UsesAre ==
    ASSUME NEW t, TableOK(t), NEW D, NEW f, IsOn(f, D),
           \A i \in DOMAIN t.words : t.words[i].text \in D /\ f[t.words[i].text] = t.words[i].count,
           \A w \in D : \E i \in DOMAIN t.words : t.words[i].text = w
    PROVE  UsesOf(t) = f
<1>1. D = TextsOf(t)
  BY DEF TextsOf
<1>2. /\ UsesOf(t) = [w \in TextsOf(t) |-> UsesOf(t)[w]]
      /\ \A i \in DOMAIN t.words : UsesOf(t)[t.words[i].text] = t.words[i].count
  BY UsesFacts
<1>3. \A w \in D : UsesOf(t)[w] = f[w]
  BY <1>2
<1> DEFINE u == UsesOf(t)
<1>4. u = [w \in D |-> u[w]] /\ \A w \in D : u[w] = f[w]
  BY <1>1, <1>2, <1>3
<1> HIDE DEF u
<1>5. u = f
  BY <1>4 DEF IsOn
<1> QED BY <1>5 DEF u

\* One entry counted anew changes the uses of that word alone.
LEMMA UsesRecounted ==
    ASSUME NEW t, TableOK(t), NEW x, TableOK(x), NEW i \in DOMAIN t.words, NEW c, NEW seen,
           x.words = [t.words EXCEPT ![i] = [text |-> t.words[i].text, count |-> c, seen |-> seen]]
    PROVE  UsesOf(x) = [UsesOf(t) EXCEPT ![t.words[i].text] = c]
<1> DEFINE u == UsesOf(t)
           w == t.words[i].text
           D == TextsOf(t)
           f == [u EXCEPT ![w] = c]
<1>1. /\ u = [v \in D |-> u[v]] /\ DOMAIN u = D
      /\ \A k \in DOMAIN t.words : t.words[k].text \in D /\ u[t.words[k].text] = t.words[k].count
      /\ \A k \in DOMAIN t.words : t.words[k].text = w => k = i
  BY UsesFacts, Table DEF Distinct
<1>2. /\ DOMAIN x.words = DOMAIN t.words /\ x.words[i].text = w /\ x.words[i].count = c
      /\ \A k \in DOMAIN t.words : k # i => x.words[k] = t.words[k]
  OBVIOUS
<1>3. \A v \in D : \E k \in DOMAIN t.words : t.words[k].text = v
  BY DEF TextsOf
<1> HIDE DEF u, w, D
<1>4. f = [v \in D |-> f[v]] /\ \A v \in D : f[v] = IF v = w THEN c ELSE u[v]
  BY <1>1
<1> HIDE DEF f
<1>5. w \in D
  BY <1>1 DEF w
<1>6. \A k \in DOMAIN x.words : x.words[k].text \in D /\ f[x.words[k].text] = x.words[k].count
  BY <1>1, <1>2, <1>4, <1>5
<1>7. \A v \in D : \E k \in DOMAIN x.words : x.words[k].text = v
  <2>1. \A k \in DOMAIN t.words : x.words[k].text = t.words[k].text
    BY <1>2 DEF w
  <2> QED BY <1>2, <1>3, <2>1
<1>8. UsesOf(x) = f
  <2>1. IsOn(f, D)
    BY <1>4 DEF IsOn
  <2> QED BY <1>6, <1>7, <2>1, UsesAre
<1> QED BY <1>8 DEF f, u, w

\* A word used again.
LEMMA UsesCountedUp ==
    ASSUME NEW t, TableOK(t), NEW x, TableOK(x), NEW w \in Words, CountedUp(t, w, x)
    PROVE  w \in TextsOf(t) /\ UsesOf(x) = [UsesOf(t) EXCEPT ![w] = IF @ < MaxCount THEN @ + 1 ELSE @]
<1>1. PICK i \in DOMAIN t.words, c \in 0 .. MaxCount :
        /\ t.words[i].text = w /\ c = Least(t.words[i].count + 1, MaxCount)
        /\ x.words = [t.words EXCEPT ![i] = [text |-> w, count |-> c, seen |-> t.clock + 1]]
  BY DEF CountedUp
<1>2. UsesOf(x) = [UsesOf(t) EXCEPT ![w] = c]
  BY <1>1, UsesRecounted
<1>3. w \in TextsOf(t) /\ UsesOf(t)[w] = t.words[i].count /\ t.words[i].count \in 0 .. MaxCount
  BY <1>1, UsesFacts, Table
<1> DEFINE u == UsesOf(t)
<1>4. c = IF u[w] < MaxCount THEN u[w] + 1 ELSE u[w]
  BY <1>1, <1>3, Numbers DEF Least
<1> HIDE DEF u
<1>5. [u EXCEPT ![w] = c] = [u EXCEPT ![w] = IF @ < MaxCount THEN @ + 1 ELSE @]
  BY <1>4
<1> QED BY <1>2, <1>3, <1>5 DEF u

\* A new word, when there is room.
LEMMA UsesNewWord ==
    ASSUME NEW t, TableOK(t), NEW x, TableOK(x), NEW w \in Words, NewWord(t, w, x)
    PROVE  /\ w \notin TextsOf(t) /\ Cardinality(TextsOf(t)) < MaxWords
           /\ UsesOf(x) = [v \in TextsOf(t) \cup {w} |-> IF v = w THEN 1 ELSE UsesOf(t)[v]]
<1> DEFINE u == UsesOf(t)
           D == TextsOf(t)
           f == [v \in D \cup {w} |-> IF v = w THEN 1 ELSE u[v]]
           n == Len(t.words)
<1>1. /\ \A i \in DOMAIN t.words : t.words[i].text # w
      /\ n < MaxWords
      /\ x.words = Append(t.words, [text |-> w, count |-> 1, seen |-> t.clock + 1])
      /\ t.words \in Seq(WordEntries) /\ n \in Nat /\ DOMAIN t.words = 1 .. n
  BY Table DEF NewWord
<1>2. /\ Cardinality(D) = n
      /\ \A k \in DOMAIN t.words : t.words[k].text \in D /\ u[t.words[k].text] = t.words[k].count
  BY UsesFacts
<1>3. \A v \in D : \E k \in DOMAIN t.words : t.words[k].text = v
  BY DEF TextsOf
<1>4. /\ DOMAIN x.words = 1 .. n + 1 /\ x.words[n + 1].text = w /\ x.words[n + 1].count = 1
      /\ \A k \in 1 .. n : x.words[k] = t.words[k]
  BY <1>1
<1> HIDE DEF u, D, n
<1>5. \A k \in 1 .. n + 1 : k \in 1 .. n \/ k = n + 1
  BY <1>1
<1>6. 1 .. n \subseteq 1 .. n + 1 /\ n + 1 \in 1 .. n + 1
  BY <1>1
<1>7. w \notin D
  BY <1>1, <1>3
<1>8. f = [v \in D \cup {w} |-> f[v]] /\ f[w] = 1 /\ \A v \in D : f[v] = u[v]
  BY <1>7
<1> HIDE DEF f
<1>9. \A k \in DOMAIN x.words : x.words[k].text \in D \cup {w} /\ f[x.words[k].text] = x.words[k].count
  BY <1>1, <1>2, <1>4, <1>5, <1>8
<1>10. \A v \in D \cup {w} : \E k \in DOMAIN x.words : x.words[k].text = v
  BY <1>1, <1>3, <1>4, <1>6
<1>11. UsesOf(x) = f
  <2> DEFINE E == D \cup {w}
  <2> HIDE DEF E
  <2>1. IsOn(f, E)
        /\ (\A k \in DOMAIN x.words : x.words[k].text \in E /\ f[x.words[k].text] = x.words[k].count)
        /\ \A v \in E : \E k \in DOMAIN x.words : x.words[k].text = v
    BY <1>8, <1>9, <1>10 DEF E, IsOn
  <2> QED BY <2>1, UsesAre
<1> QED BY <1>1, <1>2, <1>7, <1>11 DEF f, u, D

\* A use taken back.
LEMMA UsesTakenBack ==
    ASSUME NEW t, TableOK(t), NEW w \in Words
    PROVE  \/ TakenBack(t, w) = t
           \/ /\ w \in TextsOf(t) /\ UsesOf(t)[w] > 0
              /\ UsesOf(TakenBack(t, w)) = [UsesOf(t) EXCEPT ![w] = @ - 1]
<1> DEFINE x == TakenBack(t, w)
<1> SUFFICES ASSUME x # t
             PROVE  /\ w \in TextsOf(t) /\ UsesOf(t)[w] > 0
                    /\ UsesOf(x) = [UsesOf(t) EXCEPT ![w] = @ - 1]
  OBVIOUS
<1>1. TableOK(x)
  BY TakenBackOK
<1>2. PICK i \in DOMAIN t.words :
        /\ t.words[i].text = w /\ t.words[i].count > 0
        /\ x.words = [t.words EXCEPT ![i] = [text |-> w, count |-> t.words[i].count - 1, seen |-> t.words[i].seen]]
  BY TakenBackOK
<1> HIDE DEF x
<1>3. UsesOf(x) = [UsesOf(t) EXCEPT ![w] = t.words[i].count - 1]
  BY <1>1, <1>2, UsesRecounted
<1>4. w \in TextsOf(t) /\ UsesOf(t)[w] = t.words[i].count
  BY <1>2, UsesFacts
<1> QED BY <1>2, <1>3, <1>4

\* A restart keeps the words used at least twice.
LEMMA UsesReloaded ==
    ASSUME NEW t, TableOK(t), NEW x \in Reloaded(t)
    PROVE  UsesOf(x) = [w \in {v \in TextsOf(t) : UsesOf(t)[v] >= 2} |-> UsesOf(t)[w]]
<1> DEFINE u == UsesOf(t)
           D == {v \in TextsOf(t) : u[v] >= 2}
           f == [w \in D |-> u[w]]
<1>1. /\ TableOK(x)
      /\ \A i \in DOMAIN x.words : \E j \in DOMAIN t.words :
           /\ x.words[i].text = t.words[j].text /\ x.words[i].count = t.words[j].count
           /\ t.words[j].count >= 2
      /\ \A j \in DOMAIN t.words : t.words[j].count >= 2 =>
           \E i \in DOMAIN x.words : x.words[i].text = t.words[j].text
  BY ReloadedOK
<1>2. \A k \in DOMAIN t.words : t.words[k].text \in TextsOf(t) /\ u[t.words[k].text] = t.words[k].count
  BY UsesFacts
<1>3. \A v \in TextsOf(t) : \E k \in DOMAIN t.words : t.words[k].text = v
  BY DEF TextsOf
<1> HIDE DEF u
<1>4. \A i \in DOMAIN x.words : x.words[i].text \in D /\ u[x.words[i].text] = x.words[i].count
  BY <1>1, <1>2
<1>5. \A v \in D : \E i \in DOMAIN x.words : x.words[i].text = v
  BY <1>1, <1>2, <1>3
<1> HIDE DEF D
<1>6. f = [w \in D |-> f[w]] /\ \A v \in D : f[v] = u[v]
  OBVIOUS
<1> HIDE DEF f
<1>7. \A i \in DOMAIN x.words : x.words[i].text \in D /\ f[x.words[i].text] = x.words[i].count
  BY <1>4, <1>6
<1>8. UsesOf(x) = f
  <2>1. IsOn(f, D)
    BY <1>6 DEF IsOn
  <2> QED BY <1>1, <1>5, <1>7, <2>1, UsesAre
<1> QED BY <1>8 DEF f, D, u

\* An aged count, as the vocabulary says it.
LEMMA AgedLess ==
    ASSUME NEW e \in WordEntries, NEW aged \in Nat
    PROVE  Aged(e, aged).count \in 0 .. MaxCount /\ Aged(e, aged).count \in Promised!Less(e.count)
<1>1. Aged(e, aged) \in WordEntries
  BY AgedOK
<1>2. Aged(e, aged).count \in 0 .. MaxCount
  BY <1>1 DEF WordEntries
<1>3. Aged(e, aged).count
        = IF e.seen > aged THEN e.count - e.count \div 4
          ELSE IF e.count > 1 THEN e.count - (e.count + 3) \div 4 ELSE e.count
  BY AgedOK
<1>4. Aged(e, aged).count \in Promised!Less(e.count)
  BY <1>3 DEF Promised!Less
<1> QED BY <1>2, <1>4

\* A new word when there is none: the most used words stay, aged.
LEMMA UsesTurnedOver ==
    ASSUME NEW t, TableOK(t), NEW x, TableOK(x), NEW w \in Words, NewWhenFull(t, w, x)
    PROVE  /\ w \notin TextsOf(t) /\ Cardinality(TextsOf(t)) = MaxWords
           /\ \E kept \in SUBSET TextsOf(t) :
                /\ Cardinality(kept) = Staying
                /\ \A k \in kept, d \in TextsOf(t) \ kept : UsesOf(t)[k] >= UsesOf(t)[d]
                /\ \E aged \in [kept -> 0 .. MaxCount] :
                     /\ \A k \in kept : aged[k] \in Promised!Less(UsesOf(t)[k])
                     /\ UsesOf(x) = [v \in kept \cup {w} |-> IF v = w THEN 1 ELSE aged[v]]
<1>1. PICK s : TurnedOver(t, w, x, s)
  BY Turnover
<1>2. Staying \in Nat /\ Staying < MaxWords /\ MaxWords \in Nat
  BY StayingOK, Numbers
<1>3. /\ Distinct(s) /\ DOMAIN s = 1 .. MaxWords
      /\ \A k \in DOMAIN s : s[k] \in WordEntries
      /\ \A k \in DOMAIN s : \E j \in DOMAIN t.words : t.words[j] = s[k]
      /\ \A j \in DOMAIN t.words : \E k \in DOMAIN s : s[k] = t.words[j]
      /\ \A k, m \in DOMAIN s : k < m => s[k].count >= s[m].count
      /\ DOMAIN x.words = 1 .. Staying + 1
      /\ x.words[Staying + 1].text = w /\ x.words[Staying + 1].count = 1
      /\ \A k \in 1 .. Staying : /\ x.words[k].text = s[k].text
                                 /\ x.words[k].count = Aged(s[k], t.aged).count
  BY <1>1 DEF TurnedOver
<1>4. /\ \A i \in DOMAIN t.words : t.words[i].text # w
      /\ Len(t.words) = MaxWords /\ t.aged \in Nat
  BY Table DEF NewWhenFull
<1> DEFINE u == UsesOf(t)
           D == TextsOf(t)
           kept == {s[k].text : k \in 1 .. Staying}
<1>5. /\ Cardinality(D) = MaxWords
      /\ \A j \in DOMAIN t.words : t.words[j].text \in D /\ u[t.words[j].text] = t.words[j].count
  BY <1>4, UsesFacts
<1>6. \A v \in D : \E j \in DOMAIN t.words : t.words[j].text = v
  BY DEF TextsOf
<1> HIDE DEF u, D
<1>7. \A k \in 1 .. Staying : k \in DOMAIN s
  BY <1>2, <1>3
<1>8. \A k \in DOMAIN s : s[k].text \in D /\ u[s[k].text] = s[k].count
  BY <1>3, <1>5
<1>9. \A v \in D : \E k \in DOMAIN s : s[k].text = v
  BY <1>3, <1>6
<1>10. w \notin D
  BY <1>4, <1>6
<1>11. kept \subseteq D /\ \A v \in kept : \E k \in 1 .. Staying : s[k].text = v
  BY <1>7, <1>8
<1>12. Cardinality(kept) = Staying
  <2> DEFINE n == Staying
             f == [k \in 1 .. n |-> s[k].text]
  <2>1. f \in [1 .. n -> kept] /\ (\A i, j \in 1 .. n : f[i] = f[j] => i = j)
        /\ \A v \in kept : \E i \in 1 .. n : f[i] = v
    BY <1>3, <1>7 DEF Distinct
  <2>2. n \in Nat
    BY <1>2
  <2> HIDE DEF n, kept, f
  <2>3. f \in Injection(1 .. n, kept) /\ f \in Surjection(1 .. n, kept)
    BY <2>1 DEF Injection, IsInjective, Surjection
  <2>4. IsFiniteSet(1 .. n) /\ Cardinality(1 .. n) = n
    BY <2>2, FS_Interval
  <2>5. Cardinality(kept) = n
    BY <2>3, <2>4, FS_Surjection
  <2> QED BY <2>5 DEF n
<1>13. \A k \in 1 .. Staying : s[k].text \in kept
  OBVIOUS
<1> HIDE DEF kept
<1>14. ASSUME NEW v \in kept, NEW d \in D \ kept PROVE u[v] >= u[d]
  <2>1. PICK k \in 1 .. Staying : s[k].text = v
    BY <1>11
  <2>2. PICK m \in DOMAIN s : s[m].text = d
    BY <1>9
  <2>3. m \notin 1 .. Staying
    BY <1>13, <2>2
  <2>4. k < m /\ k \in DOMAIN s
    BY <1>2, <1>3, <1>7, <2>2, <2>3
  <2>5. s[k].count >= s[m].count
    BY <1>3, <2>2, <2>4
  <2> QED BY <1>8, <2>1, <2>2, <2>4, <2>5
<1> DEFINE y == UsesOf(x)
           aged == [v \in kept |-> y[v]]
<1>15. \A k \in DOMAIN x.words : y[x.words[k].text] = x.words[k].count
  BY UsesFacts
<1> HIDE DEF y
<1>16. \A k \in 1 .. Staying : k \in DOMAIN x.words
  BY <1>2, <1>3
<1>17. \A k \in 1 .. Staying : y[s[k].text] = Aged(s[k], t.aged).count
  BY <1>3, <1>15, <1>16
<1>18. ASSUME NEW v \in kept
       PROVE  aged[v] \in 0 .. MaxCount /\ aged[v] \in Promised!Less(u[v])
  <2>1. PICK k \in 1 .. Staying : s[k].text = v
    BY <1>11
  <2>2. aged[v] = Aged(s[k], t.aged).count /\ u[v] = s[k].count /\ s[k] \in WordEntries
    BY <1>3, <1>7, <1>8, <1>17, <2>1
  <2> HIDE DEF aged
  <2>3. Aged(s[k], t.aged).count \in 0 .. MaxCount
        /\ Aged(s[k], t.aged).count \in Promised!Less(s[k].count)
    BY <1>4, <2>2, AgedLess
  <2> QED BY <2>2, <2>3
<1>19. aged \in [kept -> 0 .. MaxCount]
  BY <1>18
<1> DEFINE E == kept \cup {w}
           f == [v \in E |-> IF v = w THEN 1 ELSE aged[v]]
<1>20. y = f
  <2>1. \A v \in kept : v # w /\ aged[v] = y[v]
    BY <1>10, <1>11
  <2> HIDE DEF aged
  <2>2. IsOn(f, E) /\ f[w] = 1 /\ \A v \in kept : f[v] = y[v]
    BY <2>1 DEF IsOn
  <2>3. w \in E /\ (\A v \in kept : v \in E) /\ \A v \in E : v \in kept \/ v = w
    OBVIOUS
  <2> HIDE DEF f, E
  <2>4. \A k \in DOMAIN x.words : k \in 1 .. Staying \/ k = Staying + 1
    BY <1>2, <1>3
  <2>5. \A k \in DOMAIN x.words : x.words[k].text \in E /\ f[x.words[k].text] = x.words[k].count
    BY <1>3, <1>13, <1>15, <2>2, <2>3, <2>4
  <2>6. \A v \in E : \E k \in DOMAIN x.words : x.words[k].text = v
    <3>1. Staying + 1 \in DOMAIN x.words
      BY <1>2, <1>3
    <3> QED BY <1>3, <1>11, <1>16, <2>3, <3>1
  <2>7. UsesOf(x) = f
    BY <2>2, <2>5, <2>6, UsesAre
  <2> QED BY <2>7 DEF y
<1> HIDE DEF aged
<1>21. \E h \in [kept -> 0 .. MaxCount] :
         /\ \A k \in kept : h[k] \in Promised!Less(u[k])
         /\ y = [v \in kept \cup {w} |-> IF v = w THEN 1 ELSE h[v]]
  BY <1>18, <1>19, <1>20
<1>22. \E S \in SUBSET D :
         /\ Cardinality(S) = Staying
         /\ \A k \in S, d \in D \ S : u[k] >= u[d]
         /\ \E h \in [S -> 0 .. MaxCount] :
              /\ \A k \in S : h[k] \in Promised!Less(u[k])
              /\ y = [v \in S \cup {w} |-> IF v = w THEN 1 ELSE h[v]]
  BY <1>11, <1>12, <1>14, <1>21
<1> QED BY <1>5, <1>10, <1>22 DEF u, D, y

\* The uses of the table in use.
Uses == UsesOf(table)

\* The steps of the vocabulary, of the uses before and after.
UsedAgain(u, y, w) == w \in DOMAIN u /\ y = [u EXCEPT ![w] = IF @ < MaxCount THEN @ + 1 ELSE @]
UsedNew(u, y, w) ==
    /\ w \in Words \ DOMAIN u
    /\ Cardinality(DOMAIN u) < MaxWords
    /\ y = Promised!With(u, w)
UsedNewWhenFull(u, y, w) ==
    /\ w \in Words \ DOMAIN u
    /\ Cardinality(DOMAIN u) = MaxWords
    /\ \E kept \in SUBSET DOMAIN u :
         /\ Cardinality(kept) = Staying
         /\ \A k \in kept, d \in DOMAIN u \ kept : u[k] >= u[d]
         /\ \E aged \in [kept -> 0 .. MaxCount] :
              /\ \A k \in kept : aged[k] \in Promised!Less(u[k])
              /\ y = Promised!With(aged, w)
GivenBack(u, y, w) == w \in DOMAIN u /\ u[w] > 0 /\ y = [u EXCEPT ![w] = @ - 1]
Restarted(u, y) == y = [w \in {v \in DOMAIN u : u[v] >= 2} |-> u[w]]

\* Every step of the memory is one of the vocabulary, or leaves it as it is.
LEMMA VocabularyStep ==
    ASSUME RepairInv, MemoryInv, [Next]_vars, MemoryInv'
    PROVE  \/ Uses' = Uses
           \/ Restarted(Uses, Uses')
           \/ \E w \in Words : \/ UsedAgain(Uses, Uses', w) \/ UsedNew(Uses, Uses', w)
                               \/ UsedNewWhenFull(Uses, Uses', w) \/ GivenBack(Uses, Uses', w)
<1> DEFINE x == table'
           u == UsesOf(table)
           y == UsesOf(x)
           D == TextsOf(table)
<1>1. TableOK(table) /\ TableOK(x)
  BY DEF MemoryInv
<1>2. \/ x = table
      \/ \E w \in Words : x \in Counted(table, w, 1)
      \/ \E w \in Words : x = TakenBack(table, w)
      \/ x \in Reloaded(table)
  BY TableSteps
<1>3. Uses = u /\ Uses' = y
  BY DEF Uses
<1>4. DOMAIN u = D /\ D \subseteq Words
  BY <1>1, UsesFacts
<1> HIDE DEF x
<1>5. CASE x = table
  BY <1>3, <1>5
<1>6. ASSUME NEW w \in Words, x \in Counted(table, w, 1)
      PROVE  UsedAgain(u, y, w) \/ UsedNew(u, y, w) \/ UsedNewWhenFull(u, y, w)
  <2>1. CountedUp(table, w, x) \/ NewWord(table, w, x) \/ NewWhenFull(table, w, x)
    BY <1>1, <1>6, CountedOK
  <2>2. CASE CountedUp(table, w, x)
    <3>1. w \in D /\ y = [u EXCEPT ![w] = IF @ < MaxCount THEN @ + 1 ELSE @]
      BY <1>1, <2>2, UsesCountedUp
    <3> HIDE DEF u, y, D
    <3> QED BY <1>4, <3>1 DEF UsedAgain
  <2>3. CASE NewWord(table, w, x)
    <3>1. /\ w \notin D /\ Cardinality(D) < MaxWords
          /\ y = [v \in D \cup {w} |-> IF v = w THEN 1 ELSE u[v]]
      BY <1>1, <2>3, UsesNewWord
    <3> HIDE DEF u, y, D
    <3>2. y = Promised!With(u, w)
      BY <1>4, <3>1 DEF Promised!With
    <3> QED BY <1>4, <3>1, <3>2 DEF UsedNew
  <2>4. CASE NewWhenFull(table, w, x)
    <3>1. /\ w \notin D /\ Cardinality(D) = MaxWords
          /\ \E kept \in SUBSET D :
               /\ Cardinality(kept) = Staying
               /\ \A k \in kept, d \in D \ kept : u[k] >= u[d]
               /\ \E aged \in [kept -> 0 .. MaxCount] :
                    /\ \A k \in kept : aged[k] \in Promised!Less(u[k])
                    /\ y = [v \in kept \cup {w} |-> IF v = w THEN 1 ELSE aged[v]]
      BY <1>1, <2>4, UsesTurnedOver
    <3> HIDE DEF u, y, D
    <3>2. PICK kept \in SUBSET D :
            /\ Cardinality(kept) = Staying
            /\ \A k \in kept, d \in D \ kept : u[k] >= u[d]
            /\ \E aged \in [kept -> 0 .. MaxCount] :
                 /\ \A k \in kept : aged[k] \in Promised!Less(u[k])
                 /\ y = [v \in kept \cup {w} |-> IF v = w THEN 1 ELSE aged[v]]
      BY <3>1
    <3>3. PICK aged \in [kept -> 0 .. MaxCount] :
            /\ \A k \in kept : aged[k] \in Promised!Less(u[k])
            /\ y = [v \in kept \cup {w} |-> IF v = w THEN 1 ELSE aged[v]]
      BY <3>2
    <3>4. DOMAIN aged = kept
      OBVIOUS
    <3>5. y = Promised!With(aged, w)
      BY <3>3, <3>4 DEF Promised!With
    <3>6. \E h \in [kept -> 0 .. MaxCount] :
            (\A k \in kept : h[k] \in Promised!Less(u[k])) /\ y = Promised!With(h, w)
      BY <3>3, <3>5
    <3> QED BY <1>4, <3>1, <3>2, <3>6 DEF UsedNewWhenFull
  <2> HIDE DEF u, y
  <2> QED BY <2>1, <2>2, <2>3, <2>4
<1>7. ASSUME NEW w \in Words, x = TakenBack(table, w)
      PROVE  y = u \/ GivenBack(u, y, w)
  <2>1. \/ TakenBack(table, w) = table
        \/ w \in D /\ u[w] > 0 /\ UsesOf(TakenBack(table, w)) = [u EXCEPT ![w] = @ - 1]
    BY <1>1, UsesTakenBack
  <2>2. CASE TakenBack(table, w) = table
    BY <1>7, <2>2
  <2>3. CASE w \in D /\ u[w] > 0 /\ UsesOf(TakenBack(table, w)) = [u EXCEPT ![w] = @ - 1]
    <3>1. w \in D /\ u[w] > 0 /\ y = [u EXCEPT ![w] = @ - 1]
      BY <1>7, <2>3
    <3> HIDE DEF u, y, D
    <3> QED BY <1>4, <3>1 DEF GivenBack
  <2> QED BY <2>1, <2>2, <2>3
<1>8. ASSUME x \in Reloaded(table) PROVE Restarted(u, y)
  <2>1. y = [w \in {v \in D : u[v] >= 2} |-> u[w]]
    BY <1>1, <1>8, UsesReloaded
  <2> HIDE DEF u, y, D
  <2> QED BY <1>4, <2>1 DEF Restarted
<1> HIDE DEF u, y, D
<1> QED BY <1>2, <1>3, <1>5, <1>6, <1>7, <1>8

\* The vocabulary counts words as everyone does.
LEMMA SameCardinality == \A S : Promised!Cardinality(S) = Cardinality(S)
BY DEF Cardinality, Promised!Cardinality

\* The uses in use, as the vocabulary is told of them.
LEMMA VocabularyNext ==
    ASSUME RepairInv, MemoryInv, [Next]_vars, MemoryInv' PROVE [Promised!Next]_Uses
<1>1. CASE Uses' = Uses
  BY <1>1
<1>2. CASE Restarted(Uses, Uses')
  <2>1. Promised!Restart
    BY <1>2, Zenon DEF Restarted, Promised!Restart, Uses, UsesOf, TextsOf
  <2> QED BY <2>1 DEF Promised!Next
<1>3. ASSUME NEW w \in Words, UsedAgain(Uses, Uses', w) PROVE Promised!UseAgain(w)
  BY <1>3, Zenon DEF UsedAgain, Promised!UseAgain, Uses, UsesOf, TextsOf
<1>4. ASSUME NEW w \in Words, UsedNew(Uses, Uses', w) PROVE Promised!UseNew(w)
  BY <1>4, SameCardinality, Zenon DEF UsedNew, Promised!UseNew, Uses, UsesOf, TextsOf
<1>5. ASSUME NEW w \in Words, UsedNewWhenFull(Uses, Uses', w) PROVE Promised!UseNewWhenFull(w)
  BY <1>5, SameCardinality, Zenon DEF UsedNewWhenFull, Promised!UseNewWhenFull, Staying, Uses, UsesOf, TextsOf
<1>6. ASSUME NEW w \in Words, GivenBack(Uses, Uses', w) PROVE Promised!TakeBack(w)
  BY <1>6, Zenon DEF GivenBack, Promised!TakeBack, Uses, UsesOf, TextsOf
<1>7. \/ Uses' = Uses
      \/ Restarted(Uses, Uses')
      \/ \E w \in Words : \/ UsedAgain(Uses, Uses', w) \/ UsedNew(Uses, Uses', w)
                          \/ UsedNewWhenFull(Uses, Uses', w) \/ GivenBack(Uses, Uses', w)
  BY VocabularyStep
<1> QED BY <1>1, <1>2, <1>3, <1>4, <1>5, <1>6, <1>7, Zenon DEF Promised!Next

\* The table of words, with its hash slots, order, clock, eviction and file, counts as the
\* plain vocabulary does.
THEOREM VocabularyImplemented == Spec => ImplementsVocabulary
<1>1. Init => RepairInv /\ MemoryInv /\ Promised!Init
  <2> SUFFICES ASSUME Init PROVE Promised!Init
    BY RepairInit, MemoryInit
  <2>1. table.words = <<>> /\ DOMAIN <<>> = {}
    BY DEF Init, EmptyTable
  <2>2. {table.words[i].text : i \in DOMAIN table.words} = {}
    BY <2>1
  <2> QED BY <2>2 DEF Promised!Init
<1>2. (RepairInv /\ MemoryInv) /\ [Next]_vars => (RepairInv /\ MemoryInv)'
  BY RepairStep, MemoryStep
<1>3. (RepairInv /\ MemoryInv) /\ (RepairInv /\ MemoryInv)' /\ [Next]_vars => [Promised!Next]_Uses
  BY VocabularyNext
<1>4. Spec => Promised!Init /\ [][Promised!Next]_Uses
  BY <1>1, <1>2, <1>3, PTL DEF Spec
<1> QED BY <1>4, PTL DEF ImplementsVocabulary, Promised!Spec, Uses, UsesOf, TextsOf
=============================================================================
