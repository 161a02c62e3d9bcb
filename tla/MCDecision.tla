----------------------------- MODULE MCDecision -----------------------------
(* Instances of Decision for TLC. *)
EXTENDS Decision

\* A word by how its readings rank: 0 unknown, 1 rare, 2 everyday, 3 frequent, 4 a
\* word of the user's own.
Ranked(keys, a, b, begins, common, quoted, prior) ==
  LET Least(n) == (IF a >= n THEN {"A"} ELSE {}) \cup (IF b >= n THEN {"B"} ELSE {})
  IN [keys |-> keys, known |-> Least(1), aliased |-> Least(1) \ Least(2),
      everyday |-> Least(2), frequent |-> Least(3),
      own |-> IF keys > 2 THEN Least(4) ELSE {}, begins |-> begins,
      beginsCommon |-> common, quoted |-> quoted, prior |-> prior]

\* Collisions at the ends of the range of the priors, and two keys at theirs, also
\* where one reading is known by another spelling only.
Collisions ==
  {Ranked(3, a, b, {}, {}, {}, p) : a \in 1..4, b \in 1..4, p \in {-59, 0, 75}}
    \cup {Ranked(2, a, b, {}, {}, {}, p) : a \in {1, 3}, b \in {1, 3}, p \in {-38, 0}}

\* One reading, neither, and words that may still grow or stand in quotes.
OneSided ==
  {Ranked(k, 0, b, {}, {}, {}, 0) : k \in {3, 5}, b \in 1..3}
    \cup {Ranked(2, 0, 3, {}, {}, {}, 0), Ranked(5, 0, 0, {}, {}, {}, 0), Ranked(5, 3, 0, {}, {}, {}, 0)}
Growing ==
  {Ranked(5, a, 3, {"A"}, c, {}, 0) : a \in {0, 1}, c \in {{}, {"A"}}}
    \cup {Ranked(3, 0, 3, {}, {}, {"A"}, 0), Ranked(3, 2, 2, {}, {}, {}, 30)}

SomeWords == Collisions \cup OneSided \cup Growing
EarlierWords == LET known == Ranked(5, 3, 0, {}, {}, {}, 0)
                    clash == Ranked(3, 1, 3, {}, {}, {}, 0)
                    other == Ranked(5, 0, 2, {}, {}, {}, 0)
                IN {<<known>>, <<clash>>, <<other, clash>>, <<clash, clash, clash>>}

\* README.md:236 as it stands: "a two-key collision is never guessed from frequency
\* alone", whichever spelling its readings are known by.
TwoKeysNeverGuessed ==
  [][ /\ typed'.stage = "turned" /\ typed.stage # "turned" /\ Len(typed'.text) = 1
      => \/ typed'.text[1].keys > 2 \/ ~Collision(typed'.text[1])
         \/ Intent(typed'.at).slot = Other(typed'.from) ]_dvars
=============================================================================
