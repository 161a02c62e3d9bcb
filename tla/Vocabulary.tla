----------------------------- MODULE Vocabulary -----------------------------
(***************************************************************************)
(* What the word table promises, without slots, order and clock: how often *)
(* each of a bounded number of words was used.  A new word in a full       *)
(* vocabulary costs the least used words, and every other a share of its   *)
(* count.                                                                  *)
(***************************************************************************)
EXTENDS Integers, FiniteSets

CONSTANTS Words, MaxWords, Kept, MaxCount
VARIABLE uses       \* how often each word of the vocabulary was used

Type == \A w \in DOMAIN uses : w \in Words /\ uses[w] \in 0 .. MaxCount

Init == uses = [w \in {} |-> 0]

\* A use of a word that is in the vocabulary.
UseAgain(w) ==
    /\ w \in DOMAIN uses
    /\ uses' = [uses EXCEPT ![w] = IF @ < MaxCount THEN @ + 1 ELSE @]

\* A word added to those of old.
With(old, w) == [v \in DOMAIN old \cup {w} |-> IF v = w THEN 1 ELSE old[v]]

UseNew(w) ==
    /\ w \in Words \ DOMAIN uses
    /\ Cardinality(DOMAIN uses) < MaxWords
    /\ uses' = With(uses, w)

\* About a quarter of a count, at most.
Less(n) == {n - n \div 4} \cup {IF n > 1 THEN n - (n + 3) \div 4 ELSE n}

UseNewWhenFull(w) ==
    /\ w \in Words \ DOMAIN uses
    /\ Cardinality(DOMAIN uses) = MaxWords
    /\ \E kept \in SUBSET DOMAIN uses :
         /\ Cardinality(kept) = Kept
         /\ \A k \in kept, d \in DOMAIN uses \ kept : uses[k] >= uses[d]
         /\ \E aged \in [kept -> 0 .. MaxCount] :
              /\ \A k \in kept : aged[k] \in Less(uses[k])
              /\ uses' = With(aged, w)

TakeBack(w) ==
    /\ w \in DOMAIN uses /\ uses[w] > 0
    /\ uses' = [uses EXCEPT ![w] = @ - 1]

\* The program ends and starts again: words used once are gone.
Restart == uses' = [w \in {v \in DOMAIN uses : uses[v] >= 2} |-> uses[w]]

Next ==
    \/ Restart
    \/ \E w \in Words : UseAgain(w) \/ UseNew(w) \/ UseNewWhenFull(w) \/ TakeBack(w)

Spec == Init /\ [][Next]_uses
=============================================================================
