----------------------------- MODULE Overrides ------------------------------
(***************************************************************************)
(* The answers that need no upstream: the first stages of handle_dns_query *)
(* in border-dns-runtime/handler.rs and of Pipeline::resolve in            *)
(* border-dns-pipeline, which are the same, on the hosts table and the     *)
(* block rules.  Both are enabled; a table that is not is empty and not    *)
(* looked at.  The rules are added when the process starts, one by one,    *)
(* from the configuration and from files; the hosts files may be reloaded  *)
(* later.                                                                  *)
(***************************************************************************)
EXTENDS BlockMatcher, HostsTable

CONSTANTS
    Rules,             \* the lines that may be configured as domains or patterns
    BlockedSuffixes,   \* the names that may be configured as suffixes
    MaxRules,          \* bound: how many are
    ServingRules,      \* bound: those with which hosts files change too
    Names,             \* what clients ask for
    SuppressQtypes,    \* suppress_qtypes of the block configuration
    BlackholeV4, BlackholeV6

ASSUME OverridesAssumption ==
    /\ BlackholeV4 \in IPv4 /\ BlackholeV6 \in IPv6
    /\ Rules \subseteq Seq(Token) /\ BlockedSuffixes \subseteq Seq(Token)
    /\ Names \subseteq Seq(Label)

VARIABLES
    block_matcher,   \* the trie
    built            \* build_block_matcher_from_config has returned

vars == <<entries, file_mtimes, loading, disk, now, unread, block_matcher, built>>

Qtypes == {"A", "AAAA", "HTTPS"}

TypeOK ==
    /\ HostsTypeOK
    /\ block_matcher.rule_count = Cardinality(block_matcher.rules)
    /\ block_matcher.rules \subseteq Seq(Token) \ {<<>>} /\ IsFiniteSet(block_matcher.rules)
    /\ built \in BOOLEAN

Init ==
    /\ HostsInit
    /\ block_matcher = EmptyMatcher
    /\ built = FALSE

\* A rule as it was written, from its path in the trie.
Rule(path) == Reverse(path)

\* A file of rules that cannot be read is skipped, with the rules before it kept.
AddRule ==
    /\ ~built /\ block_matcher.rule_count < MaxRules
    /\ \E rule \in Rules \cup {SuffixRule(s) : s \in BlockedSuffixes} :
          block_matcher' = add_pattern(block_matcher, rule)
    /\ UNCHANGED <<hostsVars, built>>

\* The table of hosts is built first, but shares nothing with the rules.
Built ==
    /\ ~built
    /\ built' = TRUE
    /\ UNCHANGED <<hostsVars, block_matcher>>

Serving ==
    /\ built /\ \A r \in block_matcher.rules : Rule(r) \in ServingRules
    /\ HostsNext
    /\ UNCHANGED <<block_matcher, built>>

Next == AddRule \/ Built \/ Serving

Spec == Init /\ [][Next]_vars
-----------------------------------------------------------------------------
Record(type, ip) == [type |-> type, ip |-> ip]

\* A blocked name: the blackhole address of its family, or an SOA and no
\* address for other types and for the suppressed ones.
build_block_response(qtype) ==
    CASE qtype \in SuppressQtypes -> <<>>
      [] qtype = "A" -> <<Record("A", BlackholeV4)>>
      [] qtype = "AAAA" -> <<Record("AAAA", BlackholeV6)>>
      [] OTHER -> <<>>

\* What the client gets, or "forward": hosts first, then the rules.
Override(name, qtype) ==
    LET hosts == match_domain([name |-> name, dot |-> TRUE], qtype)
    IN  IF hosts # <<>>
        THEN [source |-> "hosts", records |-> [k \in DOMAIN hosts |-> Record(qtype, hosts[k].ip)]]
        ELSE IF is_blocked(block_matcher, name)
        THEN [source |-> "block", records |-> build_block_response(qtype)]
        ELSE [source |-> "forward", records |-> <<>>]
-----------------------------------------------------------------------------
\* The names that the rules are checked with while they are being added.
Checked == IF built THEN {} ELSE Names \ {<<>>}

\* However the rules share nodes of the trie, a name that a rule means is
\* blocked: "**" for no label and for many, stars within a label, and the
\* "first complete match wins" of the walk lose nothing.
NothingMissed ==
    \A name \in Checked :
        (\E r \in block_matcher.rules : RuleMeans(Rule(r), name, GlobMeans))
            => is_blocked(block_matcher, name)

\* An exact name, or "**." and a name: what BlockMatcher::new makes of domains
\* and suffixes.
Plain(rule) ==
    \A k \in DOMAIN rule : Len(rule[k]) = 1 \/ (k = 1 /\ rule[k] = Multi /\ Len(rule) > 1)

\* The tokens of such a rule from the i-th on are the last labels of a name.
EndsIn(rule, i, name) ==
    LET n == Len(rule) + 1 - i
    IN  n <= Len(name) /\ \A k \in 1 .. n : rule[i - 1 + k] = <<name[Len(name) - n + k]>>

\* With plain rules only, a name is blocked exactly when it is one of the names,
\* or one of the suffixes or below it: rules that share labels in the trie, or
\* of which one is the end of another, neither hide nor extend each other.
PlainRulesAreExact ==
    (\A r \in block_matcher.rules : Plain(Rule(r))) =>
        \A name \in Checked :
            is_blocked(block_matcher, name) <=>
                \E r \in block_matcher.rules :
                    IF Rule(r)[1] = Multi THEN EndsIn(Rule(r), 2, name)
                    ELSE Len(Rule(r)) = Len(name) /\ EndsIn(Rule(r), 1, name)

\* When has_file_changes sees nothing to reload, every line of every file that
\* could be read is in the table, even one that was written while
\* reload_all_files ran.
ReadFilesAreCurrent ==
    loading = Idle /\ ~has_file_changes =>
        \A i \in (1 .. Files) \ unread : ToSet(FileEntries(i)) \subseteq ToSet(entries)

\* The entries of the configuration answer before those of the files, whatever
\* was reloaded: "inline entries are preserved".
InlineEntriesKept ==
    \A name \in Names, qtype \in {"A", "AAAA"} :
        LET inline == Among(Inline, {e \in ToSet(Inline) :
                          /\ e.domain = [name |-> name, dot |-> FALSE]
                          /\ e.ip \in IF qtype = "A" THEN IPv4 ELSE IPv6})
        IN  inline # <<>> =>
                /\ Override(name, qtype).source = "hosts"
                /\ IsPrefix([k \in DOMAIN inline |-> Record(qtype, inline[k].ip)],
                            Override(name, qtype).records)

\* A record has the type that was asked for and an address of that family,
\* whichever table it comes from: the type is taken from the question and the
\* data from the table.
RecordsFitTheirType ==
    \A name \in Names, qtype \in Qtypes :
        LET records == Override(name, qtype).records
        IN  \A k \in DOMAIN records :
                /\ records[k].type = qtype
                /\ records[k].ip \in IF qtype = "A" THEN IPv4 ELSE IPv6
-----------------------------------------------------------------------------
(* What comments of the source say and the code does not keep *)

\* The table at the head of block_matcher.rs and the comment on the order of the
\* parts: a name is blocked only when a rule means it.
BlocksOnlyMeant ==
    \A name \in Checked :
        is_blocked(block_matcher, name) =>
            \E r \in block_matcher.rules : RuleMeans(Rule(r), name, GlobMeans)

\* What has_file_changes is to tell, whether a file has changed since it was
\* loaded: when it says no, every line of every file is in the table.
UnchangedTableIsCurrent ==
    loading = Idle /\ ~has_file_changes =>
        \A i \in 1 .. Files : ToSet(FileEntries(i)) \subseteq ToSet(entries)
=============================================================================
