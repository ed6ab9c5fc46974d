---------------------------- MODULE BlockMatcher ----------------------------
(***************************************************************************)
(* border-dns-domain-knowledge/block_matcher.rs: the trie of block rules.  *)
(*                                                                         *)
(* A label is a sequence of characters, lower case throughout.  A token of *)
(* a rule is what split('*') makes of a label of it: one part for a plain  *)
(* label, several for a glob, and none stands for "**".  Names and rules   *)
(* are written from left to right and stored from right to left.           *)
(***************************************************************************)
EXTENDS Integers, Sequences, SequencesExt, FiniteSets

CONSTANT Chars   \* the characters of a label

Label == Seq(Chars)
Token == Seq(Label)

Multi == <<>>
IsGlob(token) == Len(token) > 1

\* Where part begins in target, at position p or later, in ascending order.
FoundAt(part, target, p) ==
    {k \in p .. Len(target) - Len(part) : SubSeq(target, k + 1, k + Len(part)) = part}

\* The first part is a prefix and the last one a suffix of the label, and the
\* parts between are found one after the other, each as early as possible.
\* The suffix is not asked to begin after the part before it.
label_matches_glob(token, target) ==
    LET n == Len(token)
        Pos[i \in 1 .. n - 1] ==
            IF i = 1 THEN IF IsPrefix(token[1], target) THEN Len(token[1]) ELSE -1
            ELSE LET found == FoundAt(token[i], target, Pos[i - 1])
                 IN  IF Pos[i - 1] < 0 \/ found = {} THEN -1
                     ELSE Len(token[i]) + CHOOSE k \in found : \A l \in found : k <= l
    IN  IF n = 1 THEN token[1] = target
        ELSE Pos[n - 1] >= 0 /\ IsSuffix(token[n], target)
-----------------------------------------------------------------------------
(* The trie.  A node is the path that leads to it, its terminal nodes are  *)
(* the rules, and a node is a multi node when its last edge is "**".       *)

Matcher(rules, rule_count) == [rules |-> rules, rule_count |-> rule_count]
EmptyMatcher == Matcher({}, 0)

Nodes(rules) == {<<>>} \cup UNION {{SubSeq(r, 1, n) : n \in 1 .. Len(r)} : r \in rules}

\* Slip: only a "**" at the end of a rule loops.
is_multi_first(node) == node = <<Multi>>

is_multi(node) == node # <<>> /\ Last(node) = Multi

\* Slip: the end of a rule is enough.
Accepts_early(rules, node, atEnd) == node \in rules

\* The rule ends here: all labels are consumed, or the rest is for a "**".
Accepts(rules, node, atEnd) == node \in rules /\ (atEnd \/ is_multi(node))

\* Whether the labels from index on lead from a node to the end of a rule.
\* The memo of the code keeps results and changes none.
match_node(rules, labels) ==
    LET nodes == Nodes(rules)
        Children(node) == {m \in nodes : m # <<>> /\ Front(m) = node /\ Last(m) # Multi}
        Match[at \in nodes \X (0 .. Len(labels))] ==
            LET node == at[1]
                index == at[2]
                multi == Append(node, Multi)
            IN  \/ Accepts(rules, node, index = Len(labels))
                \/ multi \in nodes /\ Match[<<multi, index>>]
                \/ /\ index < Len(labels)
                   /\ \/ \E child \in Children(node) :
                            /\ label_matches_glob(Last(child), labels[index + 1])
                            /\ (is_multi(node) /\ child \in rules) \/ Match[<<child, index + 1>>]
                      \/ is_multi(node) /\ Match[<<node, index + 1>>]
                      \/ multi \in nodes /\ Match[<<multi, index + 1>>]
    IN  Match[<<<<>>, 0>>]

\* A rule of a single label with a star gets ".**".
normalize_rule(rule) ==
    IF Len(rule) = 1 /\ (IsGlob(rule[1]) \/ rule[1] = Multi) THEN Append(rule, Multi) ELSE rule

\* Slip: a rule is counted whether it is new or not.
add_pattern_counts(m, rule) ==
    IF rule = <<>> THEN m
    ELSE Matcher(m.rules \cup {Reverse(normalize_rule(rule))}, m.rule_count + 1)

\* An empty rule is left out, and one that is there is not counted again.
add_pattern(m, rule) ==
    LET path == Reverse(normalize_rule(rule))
    IN  IF rule = <<>> \/ path \in m.rules THEN m
        ELSE Matcher(m.rules \cup {path}, m.rule_count + 1)

\* A suffix of the configuration is a rule with "**." before it.
SuffixRule(suffix) == <<Multi>> \o suffix

\* The root name is never blocked.
is_blocked(m, name) == name # <<>> /\ match_node(m.rules, Reverse(name))
-----------------------------------------------------------------------------
(* What the table at the head of block_matcher.rs says of a rule.          *)

\* A label is the parts of the token with anything between them.
GlobMeans(token, target) ==
    LET n == Len(token)
    IN  IF n = 1 THEN token[1] = target
        ELSE \E at \in [1 .. n -> 0 .. Len(target)] :
                /\ at[1] = 0 /\ at[n] + Len(token[n]) = Len(target)
                /\ \A i \in 1 .. n : at[i] \in FoundAt(token[i], target, 0)
                /\ \A i \in 1 .. n - 1 : at[i] + Len(token[i]) <= at[i + 1]

\* The tokens match the labels one by one, "**" any number of them.
RuleMeans(rule, name, Means(_, _)) ==
    LET From[at \in (1 .. Len(rule) + 1) \X (1 .. Len(name) + 1)] ==
            LET i == at[1]
                j == at[2]
            IN  IF i > Len(rule) THEN j > Len(name)
                ELSE IF rule[i] = Multi
                THEN From[<<i + 1, j>>] \/ (j <= Len(name) /\ From[<<i, j + 1>>])
                ELSE /\ j <= Len(name)
                     /\ Means(rule[i], name[j])
                     /\ From[<<i + 1, j + 1>>]
    IN  From[<<1, 1>>]
=============================================================================
