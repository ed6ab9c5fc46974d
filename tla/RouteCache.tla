----------------------------- MODULE RouteCache -----------------------------
(***************************************************************************)
(* border-dns-cache: the route-scoped answer cache shared by all handler   *)
(* tasks.  The DashMap makes each map operation atomic; the operations of  *)
(* the cache are several map operations, so they interleave:               *)
(*   - get_scoped looks an entry up, drops its guard, and removes the key  *)
(*     of an expired entry in a second step;                               *)
(*   - insert_scoped_with_ttl reads the length, scans for the oldest       *)
(*     entry, removes it and stores the new one in four steps.             *)
(*                                                                         *)
(* A message is reduced to the request it answers.  Instants are reduced   *)
(* to whole seconds; entries stored within the same second may be ordered  *)
(* either way, so the scan picks any of the oldest.                        *)
(***************************************************************************)
EXTENDS Integers, FiniteSets

CONSTANTS
    Callers,      \* handler tasks running on the worker threads
    Requests,     \* (route, (qtype, domain)) triples
    CacheKeys,    \* the values of CacheKey
    Hash,         \* CacheKey::new as a function on Requests
    MaxEntries,   \* config.max_entries
    MinTtl,       \* config.min_ttl_secs
    MaxTtl,       \* config.max_ttl_secs
    NegativeTtl,  \* config.negative_ttl_secs
    Ttls,         \* the TTLs that answers come with
    MaxTime,      \* bound on the clock
    NoEntry, NoKey, NoAnswer

\* The hash tells any two requests apart: the assumption that the comment on
\* CacheKey makes ("Collisions are astronomically rare").
ASSUME HashAssumption ==
    /\ Hash \in [Requests -> CacheKeys]
    /\ \A r, s \in Requests : Hash[r] = Hash[s] => r = s

ASSUME CacheConfigAssumption ==
    /\ MaxEntries \in Nat /\ MinTtl \in Nat /\ MaxTtl \in Nat /\ NegativeTtl \in Nat
    /\ Ttls \subseteq Nat
    /\ MinTtl <= MaxTtl
    /\ MaxTime \in Nat

ASSUME NoValueAssumption ==
    /\ NoEntry \notin [for : Requests, at : Nat, ttl : Nat]
    /\ NoKey \notin CacheKeys
    /\ NoAnswer \notin [asked : Requests, entry : [for : Requests, at : Nat, ttl : Nat],
                        served : Nat]

VARIABLES
    entries,   \* entries[k]: the CacheEntry under key k, or NoEntry
    now,       \* the clock, in seconds
    pc,        \* pc[c]: the step of the cache operation that caller c is in
    req,       \* req[c]: the request of that operation
    ttl,       \* ttl[c]: the clamped TTL of an insertion
    victim,    \* victim[c]: the key that the scan of evict_oldest picked
    answer     \* answer[c]: the result of the last call

vars == <<entries, now, pc, req, ttl, victim, answer>>

Entry == [for : Requests, at : Nat, ttl : Nat]
Answer == [asked : Requests, entry : Entry, served : Nat]
Steps == {"idle", "remove", "insert", "evict", "remove_oldest", "store"}

Stored == {k \in CacheKeys : entries[k] # NoEntry}

\* Slip: an entry lives a second too long.
is_expired_late(e) == now - e.at > e.ttl

is_expired(e) == now - e.at >= e.ttl

\* Slip: the lower limit is forgotten.
clamp_ttl_upper(t) == IF t > MaxTtl THEN MaxTtl ELSE t

clamp_ttl(t) == IF t < MinTtl THEN MinTtl ELSE IF t > MaxTtl THEN MaxTtl ELSE t

Init ==
    /\ entries = [k \in CacheKeys |-> NoEntry]
    /\ now = 0
    /\ pc = [c \in Callers |-> "idle"]
    /\ req \in [Callers -> Requests]
    /\ ttl = [c \in Callers |-> 0]
    /\ victim = [c \in Callers |-> NoKey]
    /\ answer = [c \in Callers |-> NoAnswer]
-----------------------------------------------------------------------------
(* get_scoped *)

\* Slip: the lookup key leaves the route out.
GetHit_unscoped(c, r) ==
    \E s \in Requests : LET e == entries[Hash[s]] IN
    /\ s[2] = r[2]
    /\ pc[c] = "idle"
    /\ e # NoEntry
    /\ ~is_expired(e)
    /\ answer' = [answer EXCEPT ![c] = [asked |-> r, entry |-> e, served |-> now]]
    /\ req' = [req EXCEPT ![c] = r]
    /\ UNCHANGED <<entries, now, pc, ttl, victim>>

\* The entry is there and not expired: it is handed out as it is, with the
\* TTL it was stored with.
GetHit(c, r) ==
    LET e == entries[Hash[r]] IN
    /\ pc[c] = "idle"
    /\ e # NoEntry
    /\ ~is_expired(e)
    /\ answer' = [answer EXCEPT ![c] = [asked |-> r, entry |-> e, served |-> now]]
    /\ req' = [req EXCEPT ![c] = r]
    /\ UNCHANGED <<entries, now, pc, ttl, victim>>

GetMiss(c, r) ==
    /\ pc[c] = "idle"
    /\ entries[Hash[r]] = NoEntry
    /\ answer' = [answer EXCEPT ![c] = NoAnswer]
    /\ req' = [req EXCEPT ![c] = r]
    /\ UNCHANGED <<entries, now, pc, ttl, victim>>

\* The entry is expired: the guard is dropped here, the removal comes next.
GetExpired(c, r) ==
    LET e == entries[Hash[r]] IN
    /\ pc[c] = "idle"
    /\ e # NoEntry
    /\ is_expired(e)
    /\ pc' = [pc EXCEPT ![c] = "remove"]
    /\ req' = [req EXCEPT ![c] = r]
    /\ answer' = [answer EXCEPT ![c] = NoAnswer]
    /\ UNCHANGED <<entries, now, ttl, victim>>

\* Removes whatever the key holds by now.
GetRemove(c) ==
    /\ pc[c] = "remove"
    /\ entries' = [entries EXCEPT ![Hash[req[c]]] = NoEntry]
    /\ pc' = [pc EXCEPT ![c] = "idle"]
    /\ UNCHANGED <<now, req, ttl, victim, answer>>
-----------------------------------------------------------------------------
(* insert_scoped_with_ttl, evict_oldest *)

InsertBegin(c, r, t) ==
    /\ pc[c] = "idle"
    /\ pc' = [pc EXCEPT ![c] = "insert"]
    /\ req' = [req EXCEPT ![c] = r]
    /\ ttl' = [ttl EXCEPT ![c] = clamp_ttl(t)]
    /\ answer' = [answer EXCEPT ![c] = NoAnswer]
    /\ UNCHANGED <<entries, now, victim>>

InsertCheckLen(c) ==
    /\ pc[c] = "insert"
    /\ pc' = [pc EXCEPT ![c] = IF Cardinality(Stored) >= MaxEntries THEN "evict" ELSE "store"]
    /\ UNCHANGED <<entries, now, req, ttl, victim, answer>>

Oldest == {k \in Stored : \A j \in Stored : entries[k].at <= entries[j].at}

\* Only entries strictly older than the start of the scan are candidates.
EvictScan(c) ==
    /\ pc[c] = "evict"
    /\ \/ /\ \E k \in Oldest : victim' = [victim EXCEPT ![c] = k]
          /\ pc' = [pc EXCEPT ![c] = "remove_oldest"]
       \/ /\ \A k \in Stored : entries[k].at = now
          /\ pc' = [pc EXCEPT ![c] = "store"]
          /\ UNCHANGED victim
    /\ UNCHANGED <<entries, now, req, ttl, answer>>

EvictRemove(c) ==
    /\ pc[c] = "remove_oldest"
    /\ entries' = [entries EXCEPT ![victim[c]] = NoEntry]
    /\ victim' = [victim EXCEPT ![c] = NoKey]
    /\ pc' = [pc EXCEPT ![c] = "store"]
    /\ UNCHANGED <<now, req, ttl, answer>>

\* Slip: the entry is stamped with the end of its life.
InsertStore_until(c) ==
    /\ pc[c] = "store"
    /\ entries' = [entries EXCEPT ![Hash[req[c]]] =
                      [for |-> req[c], at |-> now + ttl[c], ttl |-> ttl[c]]]
    /\ pc' = [pc EXCEPT ![c] = "idle"]
    /\ UNCHANGED <<now, req, ttl, victim, answer>>

InsertStore(c) ==
    /\ pc[c] = "store"
    /\ entries' = [entries EXCEPT ![Hash[req[c]]] =
                      [for |-> req[c], at |-> now, ttl |-> ttl[c]]]
    /\ pc' = [pc EXCEPT ![c] = "idle"]
    /\ UNCHANGED <<now, req, ttl, victim, answer>>
-----------------------------------------------------------------------------
\* insert_negative_scoped: stores at once, without clamping or a capacity check.
InsertNegative(c, r) ==
    /\ pc[c] = "idle"
    /\ entries' = [entries EXCEPT ![Hash[r]] = [for |-> r, at |-> now, ttl |-> NegativeTtl]]
    /\ req' = [req EXCEPT ![c] = r]
    /\ answer' = [answer EXCEPT ![c] = NoAnswer]
    /\ UNCHANGED <<now, pc, ttl, victim>>

Clear(c) ==
    /\ pc[c] = "idle"
    /\ entries' = [k \in CacheKeys |-> NoEntry]
    /\ answer' = [answer EXCEPT ![c] = NoAnswer]
    /\ UNCHANGED <<now, pc, req, ttl, victim>>

Tick ==
    /\ now < MaxTime
    /\ now' = now + 1
    /\ UNCHANGED <<entries, pc, req, ttl, victim, answer>>

Get(c, r) == GetHit(c, r) \/ GetMiss(c, r) \/ GetExpired(c, r)

Step(c) == GetRemove(c) \/ InsertCheckLen(c) \/ EvictScan(c) \/ EvictRemove(c) \/ InsertStore(c)

\* What the query handlers do with the cache.
HandlerNext ==
    \/ \E c \in Callers, r \in Requests :
          \/ Get(c, r)
          \/ \E t \in Ttls : InsertBegin(c, r, t)
    \/ \E c \in Callers : Step(c)
    \/ Tick

\* The whole interface: no handler calls insert_negative or clear.
Next ==
    \/ HandlerNext
    \/ \E c \in Callers : Clear(c) \/ \E r \in Requests : InsertNegative(c, r)

Spec == Init /\ [][Next]_vars

HandlerSpec == Init /\ [][HandlerNext]_vars
-----------------------------------------------------------------------------
\* Every variable holds a value of its type; in particular a scan that has
\* picked a victim has picked a key, and every stored TTL is one the
\* configuration allows.
Lifetimes == (MinTtl .. MaxTtl) \cup {NegativeTtl}

TypeOK ==
    /\ entries \in [CacheKeys -> [for : Requests, at : Nat, ttl : Lifetimes] \cup {NoEntry}]
    /\ now \in Nat
    /\ pc \in [Callers -> Steps]
    /\ req \in [Callers -> Requests]
    /\ ttl \in [Callers -> Nat]
    /\ victim \in [Callers -> CacheKeys \cup {NoKey}]
    /\ answer \in [Callers -> Answer \cup {NoAnswer}]
    /\ \A c \in Callers : pc[c] = "remove_oldest" => victim[c] \in CacheKeys
    /\ \A c \in Callers : pc[c] \in {"insert", "evict", "remove_oldest", "store"} =>
                             ttl[c] \in Lifetimes

\* get_scoped: "Different routes (china/foreign) must never share cache
\* entries."  Whatever other callers insert, evict and remove in between, an
\* answer was stored by an insertion for the very request of the lookup.
RouteIsolation ==
    \A c \in Callers : answer[c] # NoAnswer => answer[c].entry.for = answer[c].asked

\* get_scoped returns "a valid (non-expired) entry": no answer is handed out
\* once its lifetime has passed, and no entry claims to come from the future.
NeverServedExpired ==
    \A c \in Callers : answer[c] # NoAnswer =>
        /\ answer[c].entry.at <= answer[c].served
        /\ answer[c].served < answer[c].entry.at + answer[c].entry.ttl

\* The cache seen as a lossy map on requests.
Promise == INSTANCE TtlMap WITH
    store <- [r \in Requests |-> entries[Hash[r]]]

\* Every behaviour of the cache, with its operations interleaved step by
\* step, is a behaviour of the lossy map whose operations are atomic.
ImplementsTtlMap == Promise!Spec
=============================================================================
