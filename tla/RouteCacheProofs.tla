-------------------------- MODULE RouteCacheProofs --------------------------
(***************************************************************************)
(* What the runs on RouteCache check for two callers and two requests, for *)
(* any callers, any requests and any cache configuration.                  *)
(***************************************************************************)
EXTENDS RouteCache, TLAPS

\* The values that stand for "nothing" are told apart from entries whatever
\* lifetimes the configuration allows.
LEMMA LifetimeFacts ==
    /\ Lifetimes \subseteq Nat
    /\ \A t \in Ttls : clamp_ttl(t) \in Lifetimes
    /\ NegativeTtl \in Lifetimes
    /\ NoEntry \notin [for : Requests, at : Nat, ttl : Lifetimes]
    /\ [for : Requests, at : Nat, ttl : Lifetimes] \subseteq Entry
<1>1. Lifetimes \subseteq Nat
  BY CacheConfigAssumption DEF Lifetimes
<1>2. \A t \in Ttls : clamp_ttl(t) \in Lifetimes
  BY CacheConfigAssumption DEF Lifetimes, clamp_ttl
<1>3. [for : Requests, at : Nat, ttl : Lifetimes] \subseteq Entry
  BY <1>1 DEF Entry
<1>4. NoEntry \notin Entry
  BY NoValueAssumption DEF Entry
<1>5. QED
  BY <1>1, <1>2, <1>3, <1>4 DEF Lifetimes

\* Type correctness of the cache under every interleaving of its callers: a
\* stored entry always carries a TTL that the configuration allows.
THEOREM TypeCorrect == Spec => []TypeOK
<1> USE LifetimeFacts, HashAssumption
<1>1. Init => TypeOK
  BY DEF Init, TypeOK, Steps
<1>2. TypeOK /\ [Next]_vars => TypeOK'
  <2> SUFFICES ASSUME TypeOK, [Next]_vars PROVE TypeOK'
    OBVIOUS
  <2>1. ASSUME NEW c \in Callers, NEW r \in Requests, Get(c, r) PROVE TypeOK'
    <3>1. CASE GetHit(c, r)
      BY <3>1, NoValueAssumption DEF TypeOK, GetHit, Answer, Entry, Steps
    <3>2. CASE GetMiss(c, r)
      BY <3>2 DEF TypeOK, GetMiss, Steps
    <3>3. CASE GetExpired(c, r)
      BY <3>3 DEF TypeOK, GetExpired, Steps
    <3>4. QED
      BY <2>1, <3>1, <3>2, <3>3 DEF Get
  <2>2. ASSUME NEW c \in Callers, NEW r \in Requests, NEW t \in Ttls, InsertBegin(c, r, t)
        PROVE TypeOK'
    BY <2>2 DEF TypeOK, InsertBegin, Steps
  <2>3. ASSUME NEW c \in Callers, Step(c) PROVE TypeOK'
    <3>1. CASE GetRemove(c)
      BY <3>1 DEF TypeOK, GetRemove, Steps
    <3>2. CASE InsertCheckLen(c)
      BY <3>2 DEF TypeOK, InsertCheckLen, Steps
    <3>3. CASE EvictScan(c)
      BY <3>3 DEF TypeOK, EvictScan, Oldest, Stored, Steps
    <3>4. CASE EvictRemove(c)
      BY <3>4 DEF TypeOK, EvictRemove, Steps
    <3>5. CASE InsertStore(c)
      BY <3>5 DEF TypeOK, InsertStore, Steps
    <3>6. QED
      BY <2>3, <3>1, <3>2, <3>3, <3>4, <3>5 DEF Step
  <2>4. ASSUME NEW c \in Callers, Clear(c) PROVE TypeOK'
    BY <2>4 DEF TypeOK, Clear, Steps
  <2>5. ASSUME NEW c \in Callers, NEW r \in Requests, InsertNegative(c, r) PROVE TypeOK'
    BY <2>5 DEF TypeOK, InsertNegative, Steps
  <2>6. CASE Tick
    BY <2>6 DEF TypeOK, Tick, Steps
  <2>7. CASE UNCHANGED vars
    BY <2>7 DEF TypeOK, vars
  <2>8. QED
    BY <2>1, <2>2, <2>3, <2>4, <2>5, <2>6, <2>7 DEF Next, HandlerNext
<1>3. QED
  BY <1>1, <1>2, PTL DEF Spec
-----------------------------------------------------------------------------
(***************************************************************************)
(* RouteIsolation is not inductive: a lookup answers with what the map     *)
(* holds, so the map itself must be right.  CacheInv says that it is: an   *)
(* entry sits under the key of the request it was stored for, with a stamp *)
(* in the past; and a caller inside an insertion holds no answer.          *)
(***************************************************************************)
EntryUnderOwnKey ==
    \A r \in Requests : entries[Hash[r]] # NoEntry => entries[Hash[r]].for = r

EntryFromThePast ==
    \A k \in CacheKeys : entries[k] # NoEntry => entries[k].at <= now

InserterHasNoAnswer ==
    \A c \in Callers : pc[c] # "idle" => answer[c] = NoAnswer

CacheInv ==
    /\ TypeOK
    /\ EntryUnderOwnKey
    /\ EntryFromThePast
    /\ InserterHasNoAnswer
    /\ RouteIsolation
    /\ NeverServedExpired

LEMMA CacheInvInit == Init => CacheInv
<1> SUFFICES ASSUME Init PROVE CacheInv
  OBVIOUS
<1>1. TypeOK
  BY LifetimeFacts DEF Init, TypeOK, Steps
<1>2. QED
  BY <1>1, HashAssumption DEF Init, CacheInv, EntryUnderOwnKey, EntryFromThePast,
     InserterHasNoAnswer, RouteIsolation, NeverServedExpired

LEMMA CacheInvStep == CacheInv /\ TypeOK' /\ [Next]_vars => CacheInv'
<1> SUFFICES ASSUME CacheInv, TypeOK', [Next]_vars PROVE CacheInv'
  OBVIOUS
<1> USE LifetimeFacts, HashAssumption, NoValueAssumption
        DEF CacheInv, EntryUnderOwnKey, EntryFromThePast, InserterHasNoAnswer,
            RouteIsolation, NeverServedExpired
<1>1. ASSUME NEW c \in Callers, NEW r \in Requests, Get(c, r) PROVE CacheInv'
  <2>1. CASE GetHit(c, r)
    BY <2>1 DEF GetHit, TypeOK, is_expired, Entry
  <2>2. CASE GetMiss(c, r)
    BY <2>2 DEF GetMiss, TypeOK
  <2>3. CASE GetExpired(c, r)
    BY <2>3 DEF GetExpired, TypeOK
  <2>4. QED
    BY <1>1, <2>1, <2>2, <2>3 DEF Get
<1>2. ASSUME NEW c \in Callers, NEW r \in Requests, NEW t \in Ttls, InsertBegin(c, r, t)
      PROVE CacheInv'
  BY <1>2 DEF InsertBegin, TypeOK
<1>3. ASSUME NEW c \in Callers, Step(c) PROVE CacheInv'
  <2>1. CASE GetRemove(c)
    BY <2>1 DEF GetRemove, TypeOK
  <2>2. CASE InsertCheckLen(c)
    BY <2>2 DEF InsertCheckLen, TypeOK
  <2>3. CASE EvictScan(c)
    BY <2>3 DEF EvictScan, TypeOK
  <2>4. CASE EvictRemove(c)
    BY <2>4 DEF EvictRemove, TypeOK
  <2>5. CASE InsertStore(c)
    BY <2>5 DEF InsertStore, TypeOK
  <2>6. QED
    BY <1>3, <2>1, <2>2, <2>3, <2>4, <2>5 DEF Step
<1>4. ASSUME NEW c \in Callers, Clear(c) PROVE CacheInv'
  BY <1>4 DEF Clear, TypeOK
<1>5. ASSUME NEW c \in Callers, NEW r \in Requests, InsertNegative(c, r) PROVE CacheInv'
  BY <1>5 DEF InsertNegative, TypeOK
<1>6. CASE Tick
  BY <1>6 DEF Tick, TypeOK
<1>7. CASE UNCHANGED vars
  BY <1>7 DEF vars, TypeOK
<1>8. QED
  BY <1>1, <1>2, <1>3, <1>4, <1>5, <1>6, <1>7 DEF Next, HandlerNext

LEMMA CacheInvariant == Spec => []CacheInv
  BY TypeCorrect, CacheInvInit, CacheInvStep, PTL DEF Spec

\* However many callers look up, insert, evict and remove at the same time,
\* no lookup returns an entry of another route or another question.
THEOREM RouteIsolationHolds == Spec => []RouteIsolation
<1>1. CacheInv => RouteIsolation
  BY DEF CacheInv
<1>2. QED
  BY <1>1, CacheInvariant, PTL

\* No lookup returns an entry past its lifetime.
THEOREM NeverServedExpiredHolds == Spec => []NeverServedExpired
<1>1. CacheInv => NeverServedExpired
  BY DEF CacheInv
<1>2. QED
  BY <1>1, CacheInvariant, PTL
-----------------------------------------------------------------------------
(***************************************************************************)
(* Refinement.  A lookup or an insertion is one step of the lossy map at   *)
(* the moment it touches the DashMap; removals and evictions are the map's *)
(* forgetting; the other steps do not show.                                *)
(***************************************************************************)
LEMMA RefinementInit == Init => Promise!Init
  BY HashAssumption DEF Init, Promise!Init

LEMMA RefinementStep == CacheInv /\ [Next]_vars => [Promise!Next]_(Promise!vars)
<1> SUFFICES ASSUME CacheInv, [Next]_vars PROVE [Promise!Next]_(Promise!vars)
  OBVIOUS
<1> DEFINE store == [r \in Requests |-> entries[Hash[r]]]
<1> USE LifetimeFacts, HashAssumption DEF CacheInv, TypeOK
<1>f. ASSUME NEW k \in CacheKeys, entries' = [entries EXCEPT ![k] = NoEntry],
             UNCHANGED <<answer, now>>
      PROVE  Promise!Forget
  <2>1. store' = [r \in Requests |->
                    IF r \in {s \in Requests : Hash[s] = k} THEN NoEntry ELSE store[r]]
    BY <1>f
  <2>2. QED
    BY <1>f, <2>1 DEF Promise!Forget
<1>p. ASSUME NEW c \in Callers, NEW r \in Requests, NEW t \in Lifetimes,
             entries' = [entries EXCEPT ![Hash[r]] = [for |-> r, at |-> now, ttl |-> t]],
             answer' = [answer EXCEPT ![c] = NoAnswer], UNCHANGED now
      PROVE  Promise!Put(c, r)
  <2>1. store' = [store EXCEPT ![r] = [for |-> r, at |-> now, ttl |-> t]]
    BY <1>p
  <2>2. QED
    BY <1>p, <2>1 DEF Promise!Put
<1>1. ASSUME NEW c \in Callers, NEW r \in Requests, Get(c, r) PROVE Promise!Next
  <2>1. CASE GetHit(c, r)
    <3>1. Promise!Live(store[r], now)
      BY <2>1 DEF GetHit, is_expired, Promise!Live, Entry
    <3>2. Promise!Hit(c, r)
      BY <2>1, <3>1 DEF GetHit, Promise!Hit
    <3>3. QED
      BY <3>2 DEF Promise!Next
  <2>2. CASE GetMiss(c, r) \/ GetExpired(c, r)
    <3>1. Promise!Miss(c)
      BY <2>2 DEF GetMiss, GetExpired, Promise!Miss
    <3>2. QED
      BY <3>1 DEF Promise!Next
  <2>3. QED
    BY <1>1, <2>1, <2>2 DEF Get
<1>2. ASSUME NEW c \in Callers, NEW r \in Requests, NEW t \in Ttls, InsertBegin(c, r, t)
      PROVE Promise!Next
  <2>1. Promise!Miss(c)
    BY <1>2 DEF InsertBegin, Promise!Miss
  <2>2. QED
    BY <2>1 DEF Promise!Next
<1>3. ASSUME NEW c \in Callers, Step(c) PROVE Promise!Next \/ UNCHANGED Promise!vars
  <2>1. CASE GetRemove(c)
    BY <2>1, <1>f DEF GetRemove, Promise!Next
  <2>2. CASE InsertCheckLen(c) \/ EvictScan(c)
    BY <2>2 DEF InsertCheckLen, EvictScan, Promise!vars
  <2>3. CASE EvictRemove(c)
    BY <2>3, <1>f DEF EvictRemove, Promise!Next
  <2>4. CASE InsertStore(c)
    <3>1. answer' = [answer EXCEPT ![c] = NoAnswer]
      BY <2>4 DEF InsertStore, InserterHasNoAnswer
    <3>2. PICK r \in Requests, t \in Lifetimes : r = req[c] /\ t = ttl[c]
      BY <2>4 DEF InsertStore
    <3>3. Promise!Put(c, r)
      BY <2>4, <3>1, <3>2, <1>p DEF InsertStore
    <3>4. QED
      BY <3>3 DEF Promise!Next
  <2>5. QED
    BY <1>3, <2>1, <2>2, <2>3, <2>4 DEF Step
<1>4. ASSUME NEW c \in Callers, Clear(c) PROVE Promise!Next
  <2>1. store' = [r \in Requests |-> IF r \in Requests THEN NoEntry ELSE store[r]]
    BY <1>4 DEF Clear
  <2>2. Promise!Forget
    BY <1>4, <2>1 DEF Clear, Promise!Forget
  <2>3. QED
    BY <2>2 DEF Promise!Next
<1>5. ASSUME NEW c \in Callers, NEW r \in Requests, InsertNegative(c, r) PROVE Promise!Next
  <2>1. Promise!Put(c, r)
    BY <1>5, <1>p DEF InsertNegative
  <2>2. QED
    BY <2>1 DEF Promise!Next
<1>6. CASE Tick
  BY <1>6 DEF Tick, Promise!Tick, Promise!Next
<1>7. CASE UNCHANGED vars
  BY <1>7 DEF vars, Promise!vars
<1>8. QED
  BY <1>1, <1>2, <1>3, <1>4, <1>5, <1>6, <1>7 DEF Next, HandlerNext

\* The cache, with its operations interleaved map access by map access,
\* implements a lossy map whose operations are atomic.
THEOREM CacheRefinesTtlMap == Spec => ImplementsTtlMap
<1>1. Spec => Promise!Spec
  BY CacheInvariant, RefinementInit, RefinementStep, PTL DEF Spec, Promise!Spec
<1>2. QED
  BY <1>1 DEF ImplementsTtlMap
=============================================================================
