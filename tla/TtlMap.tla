------------------------------- MODULE TtlMap -------------------------------
(***************************************************************************)
(* What the answer cache promises its callers: a map from requests to      *)
(* answers that is allowed to forget anything at any time, but that never  *)
(* hands out an answer stored for another request and never one whose TTL  *)
(* has run out.  border-dns-cache is shown to implement this map.          *)
(***************************************************************************)
EXTENDS Integers

CONSTANTS
    Callers,   \* threads that use the cache
    Requests,  \* (route, question) pairs
    Lifetimes, \* the TTLs, in seconds, that the cache may give an entry
    NoEntry,   \* nothing is stored for this request
    NoAnswer   \* the last call gave its caller no answer

VARIABLES
    store,     \* store[r]: the answer kept for request r, or NoEntry
    now,       \* the clock, in seconds
    answer     \* answer[c]: what the last call of caller c returned

vars == <<store, now, answer>>

Entry == [for : Requests, at : Nat, ttl : Lifetimes]

\* An answer is the entry it was copied from and the moment it was handed out.
Answer == [asked : Requests, entry : Entry, served : Nat]

Live(e, t) == t - e.at < e.ttl

Init ==
    /\ store = [r \in Requests |-> NoEntry]
    /\ now = 0
    /\ answer = [c \in Callers |-> NoAnswer]

Put(c, r) ==
    /\ \E ttl \in Lifetimes :
          store' = [store EXCEPT ![r] = [for |-> r, at |-> now, ttl |-> ttl]]
    /\ answer' = [answer EXCEPT ![c] = NoAnswer]
    /\ UNCHANGED now

Hit(c, r) ==
    /\ store[r] # NoEntry
    /\ Live(store[r], now)
    /\ answer' = [answer EXCEPT ![c] = [asked |-> r, entry |-> store[r], served |-> now]]
    /\ UNCHANGED <<store, now>>

Miss(c) ==
    /\ answer' = [answer EXCEPT ![c] = NoAnswer]
    /\ UNCHANGED <<store, now>>

\* Any set of requests may be forgotten, together with a call's own result.
Forget ==
    /\ \E R \in SUBSET Requests :
          store' = [r \in Requests |-> IF r \in R THEN NoEntry ELSE store[r]]
    /\ \/ UNCHANGED answer
       \/ \E c \in Callers : answer' = [answer EXCEPT ![c] = NoAnswer]
    /\ UNCHANGED now

Tick ==
    /\ now' = now + 1
    /\ UNCHANGED <<store, answer>>

Next ==
    \/ \E c \in Callers, r \in Requests : Put(c, r) \/ Hit(c, r)
    \/ \E c \in Callers : Miss(c)
    \/ Forget
    \/ Tick

Spec == Init /\ [][Next]_vars
=============================================================================
