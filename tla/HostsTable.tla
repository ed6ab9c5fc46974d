----------------------------- MODULE HostsTable -----------------------------
(***************************************************************************)
(* border-dns-domain-knowledge/hosts_table.rs: the static addresses, some  *)
(* from the configuration and some from files that are edited while the    *)
(* table is read and reloaded.  A name as a string is the name and whether *)
(* a dot follows it.                                                       *)
(***************************************************************************)
EXTENDS Integers, Sequences, SequencesExt, FiniteSets

CONSTANTS
    Files,        \* the number of hosts files
    Hostnames,    \* the names that entries may be for
    Inline,       \* the entries of the configuration, in the order in which they are read
    Contents,     \* what a file may hold: sequences of lines, each an address and names
    IPv4, IPv6,   \* the addresses; a string that is neither does not parse
    MaxEdits      \* bound: how often the files are edited

String == [name : Hostnames, dot : BOOLEAN]
Ips == IPv4 \cup IPv6
HostEntry == [domain : String, ip : Ips]

ASSUME HostsAssumption ==
    /\ Files \in Nat /\ MaxEdits \in Nat \ {0}
    /\ Inline \in Seq([domain : String, ip : STRING])
    /\ Contents \subseteq Seq([ip : STRING, names : Seq(String)])

VARIABLES
    entries,       \* pairs of a name, as a string, and an address
    file_mtimes,   \* file_mtimes[i]: the time of file i that was last seen, or None
    loading,       \* the position in reload_all_files: a file and the call to be made
    disk,          \* disk[i]: the time and the lines of file i
    now,           \* the clock of the file system
    unread         \* history: the files whose lines could not be read last time

hostsVars == <<entries, file_mtimes, loading, disk, now, unread>>

None == 0
Missing == [mtime |-> None, lines |-> <<>>]
Idle == <<"idle", 0>>

strip_dot(name) == [name EXCEPT !.dot = FALSE]

HostsTypeOK ==
    /\ entries \in Seq(HostEntry)
    /\ file_mtimes \in [1 .. Files -> 0 .. MaxEdits]
    /\ loading \in {"idle", "stat", "read"} \X (0 .. Files)
    /\ now \in 0 .. MaxEdits
    /\ unread \subseteq 1 .. Files

\* The elements of a sequence that are in a set, in their order.
Among(s, S) == FlattenSeq([k \in DOMAIN s |-> IF s[k] \in S THEN <<s[k]>> ELSE <<>>])

\* What is added for an entry of the configuration: a name keeps its dot, and
\* an address that does not parse is left out.
with_entry(e) == IF e.ip \in Ips THEN <<e>> ELSE <<>>

Configured == FlattenSeq([k \in DOMAIN Inline |-> with_entry(Inline[k])])

\* with_entry for the configuration, with_file for each path, and build.
HostsInit ==
    /\ entries = Configured
    /\ file_mtimes = [i \in 1 .. Files |-> None]
    /\ loading = IF Files = 0 THEN Idle ELSE <<"stat", 1>>
    /\ disk \in [1 .. Files -> [mtime : {1}, lines : Contents]]
    /\ now = 1
    /\ unread = {}

\* Slip: the records of the other family are not filtered out.
match_domain_anyFamily(name, qtype) ==
    IF qtype \notin {"A", "AAAA"} THEN <<>>
    ELSE Among(entries, {e \in ToSet(entries) : e.domain = strip_dot(name)})

match_domain(name, qtype) ==
    Among(entries, {e \in ToSet(entries) :
                      /\ e.domain = strip_dot(name)
                      /\ \/ qtype = "A" /\ e.ip \in IPv4
                         \/ qtype = "AAAA" /\ e.ip \in IPv6})

\* The entries of a line; "." is no name.
LineEntries(line) ==
    IF line.ip \notin Ips THEN <<>>
    ELSE [k \in DOMAIN line.names |-> [domain |-> strip_dot(line.names[k]), ip |-> line.ip]]

\* A file that is missing has no lines.
FileEntries(i) == FlattenSeq([k \in DOMAIN disk[i].lines |-> LineEntries(disk[i].lines[k])])

\* Slip: all of the files must have changed.
has_file_changes_all == \A i \in 1 .. Files : disk[i].mtime # file_mtimes[i]

has_file_changes == \E i \in 1 .. Files : disk[i].mtime # file_mtimes[i]
-----------------------------------------------------------------------------
\* Slip: the table starts again from nothing.
ReloadIfChanged_clears ==
    /\ loading = Idle /\ has_file_changes
    /\ loading' = <<"stat", 1>>
    /\ entries' = <<>>
    /\ UNCHANGED <<file_mtimes, disk, now, unread>>

\* reload_if_changed.  The entries of the files stay in the table.
ReloadIfChanged ==
    /\ loading = Idle /\ has_file_changes
    /\ loading' = <<"stat", 1>>
    /\ UNCHANGED <<entries, file_mtimes, disk, now, unread>>

\* reload_all_files, for file i: its time ...
Stat(i) ==
    /\ loading = <<"stat", i>>
    /\ file_mtimes' = [file_mtimes EXCEPT ![i] = disk[i].mtime]
    /\ loading' = <<"read", i>>
    /\ UNCHANGED <<entries, disk, now, unread>>

\* ... and then its lines, after what the table has.
ReadLines(i) ==
    /\ loading = <<"read", i>>
    /\ entries' = entries \o FileEntries(i)
    /\ loading' = IF i = Files THEN Idle ELSE <<"stat", i + 1>>
    /\ unread' = unread \ {i}
    /\ UNCHANGED <<file_mtimes, disk, now>>

\* The file is there and read_to_string fails: nothing is added, the error is
\* dropped, and the time that was stored stays.
ReadFails(i) ==
    /\ loading = <<"read", i>> /\ disk[i] # Missing
    /\ loading' = IF i = Files THEN Idle ELSE <<"stat", i + 1>>
    /\ unread' = unread \cup {i}
    /\ UNCHANGED <<entries, file_mtimes, disk, now>>

\* Someone writes or removes a file; every change has a time of its own.
EditFile(i) ==
    /\ now < MaxEdits
    /\ now' = now + 1
    /\ \/ \E lines \in Contents : disk' = [disk EXCEPT ![i] = [mtime |-> now', lines |-> lines]]
       \/ disk' = [disk EXCEPT ![i] = Missing]
    /\ UNCHANGED <<entries, file_mtimes, loading, unread>>

HostsNext ==
    \/ ReloadIfChanged
    \/ \E i \in 1 .. Files : Stat(i) \/ ReadLines(i) \/ ReadFails(i) \/ EditFile(i)
=============================================================================
