---------------------------- MODULE HttpDialProofs ----------------------------
(***************************************************************************)
(* What holds of the dials of the HTTP proxy for any dials, names, jump    *)
(* services and outproxies, any cache limit and any number of calls of     *)
(* SetOptions.                                                             *)
(***************************************************************************)
EXTENDS HttpDial, FiniteSetTheorems, TLAPS

OnOutproxy == {"isEnabled", "isConfigured", "dialOutproxy"}
OnLookup == {"evict", "query", "put"}

\* SetOptions holds fieldsMu while it applies options that have been accepted.
SetterInv ==
  /\ fieldsMu <=> setter # "idle"
  /\ setter # "idle" => opts \in Options /\ Accepted(opts)

\* A dial of a clearnet host goes by the outproxy, a dial of a name that has come
\* to the cache has a service to ask, and a dial that is not over has dialled nothing.
RouteInv ==
  /\ host \in [Dials -> Names \cup {Base32, Clearnet}]
  /\ settled \in [Dials -> BOOLEAN]
  /\ \A d \in Dials :
       /\ pc[d] \in OnOutproxy \cup {"refused"} => host[d] = Clearnet
       /\ pc[d] = "resolve" => host[d] # Clearnet
       /\ pc[d] \in OnLookup => host[d] \in Names /\ service[d] # None
       /\ pc[d] # "over" => dialled[d] = None

\* The services that h.Jump or a dial holds have been made; one that has not been
\* made has cached nothing.
MadeInv ==
  /\ jump \in 1..made \cup {None}
  /\ \A d \in Dials : service[d] \in 1..made \cup {None}
  /\ \A k \in Services : k > made => Cached(k) = {}

\* A dial that has dialled an answer holds the service that has given it.
HeldInv == \A d \in Dials : dialled[d] \in Answers => service[d] \in 1..made

\* The number of names cached is a number.
FiniteInv == \A k \in Services : IsFiniteSet(Cached(k))

\* What SetOptions has yet to apply is what separates the outproxy from what the
\* options ask for; a settled dial has seen them agree.
PendingInv ==
  /\ setter = "idle" => address = asked.address /\ enabled = asked.enabled
  /\ setter = "address" =>
       /\ asked.address = IF opts.outproxy = None THEN address ELSE opts.outproxy
       /\ asked.enabled = IF opts.enabled # None THEN opts.enabled
                          ELSE IF opts.outproxy = None THEN enabled ELSE opts.outproxy # Empty
  /\ setter = "enable" =>
       /\ asked.address = address
       /\ asked.enabled = IF opts.enabled # None THEN opts.enabled
                          ELSE IF opts.outproxy = None THEN enabled ELSE opts.outproxy # Empty
  /\ setter = "override" =>
       /\ asked.address = address
       /\ asked.enabled = IF opts.enabled # None THEN opts.enabled ELSE enabled
SettledInv ==
  \A d \in Dials :
    host[d] = Clearnet /\ settled[d] /\ pc[d] # "idle" =>
      /\ setter = "idle"
      /\ pc[d] = "isConfigured" => asked.enabled
      /\ pc[d] = "dialOutproxy" => asked.enabled /\ asked.address # Empty

-----------------------------------------------------------------------------

\* Types of what SetOptions writes, of the caches, and of the dials.
SetterOK ==
  /\ jump \in Services \cup {None}
  /\ address \in Exits \cup {Empty} /\ enabled \in BOOLEAN
  /\ made \in Services /\ url \in [Services -> Urls]
  /\ caching \in [Services -> BOOLEAN]
  /\ setter \in {"idle", "address", "enable", "override"} /\ opts \in Options \cup {None}
  /\ asked \in [address : Exits \cup {Empty}, enabled : BOOLEAN]
  /\ changes \in 0..MaxChanges
  /\ fieldsMu \in BOOLEAN
  /\ SetterInv

CacheOK == cache \in [Services -> [Names -> Entries \cup {None}]]

DialsOK ==
  /\ pc \in [Dials -> {"idle", "resolve", "over", "refused"} \cup OnOutproxy \cup OnLookup]
  /\ service \in [Dials -> Services \cup {None}]
  /\ dialled \in [Dials -> Exits \cup {Empty, Base32, None} \cup Names \cup Answers]
  /\ RouteInv

\* What a step of a dial leaves alone.
LEMMA DialStepFrame ==
  ASSUME NEW d \in Dials, DialStep(d)
  PROVE  UNCHANGED <<options, made, url, caching, host>>
BY DEF DialStep, Snapshot, IsEnabled, IsConfigured, DialOutproxy, NoLookup, CacheHit, CacheMiss,
       Evict, Query, QueryError, PutCache, DialI2P, services

\* SetOptions keeps the types of what it writes, of every caller.
LEMMA SetterSteps ==
  ASSUME SetterOK, [Next]_vars
  PROVE  SetterOK'
<1> USE DialBoundAssumption DEF SetterOK, SetterInv, Services, options, services, outproxy
<1>1. CASE SetOptions
  <2>1. PICK o \in Options :
          /\ Accepted(o)
          /\ opts' = o
          /\ asked' = Asked(o)
          /\ CASE o.jumpservice = None -> UNCHANGED <<jump, services>>
               [] o.jumpservice = Empty -> jump' = None /\ UNCHANGED services
               [] OTHER -> ReplaceService(o.jumpservice)
    BY <1>1 DEF SetOptions
  <2>2. /\ o.jumpservice \in Urls \cup {Empty, None}
        /\ o.outproxy \in Exits \cup {Empty, None}
        /\ o.enabled \in BOOLEAN \cup {None}
    BY <2>1 DEF Options, Accepted
  <2>3. asked' \in [address : Exits \cup {Empty}, enabled : BOOLEAN]
    BY <2>1, <2>2 DEF Asked
  <2>4. /\ jump' \in Services \cup {None} /\ made' \in Services
        /\ url' \in [Services -> Urls] /\ caching' \in [Services -> BOOLEAN]
    BY <2>1, <2>2 DEF ReplaceService
  <2> QED
    BY <1>1, <2>1, <2>3, <2>4 DEF SetOptions
<1>2. CASE ApplyAddress
  BY <1>2 DEF ApplyAddress, Options, Accepted
<1>3. CASE ApplyEnabled
  BY <1>3 DEF ApplyEnabled
<1>4. CASE OverrideEnabled
  BY <1>4 DEF OverrideEnabled, EnabledAsAsked, Options
<1>5. CASE Expire \/ ClearCache \/ SetCacheTTL
  BY <1>5 DEF Expire, ClearCache, SetCacheTTL
<1>6. ASSUME NEW d \in Dials, DialStep(d) PROVE SetterOK'
  BY <1>6, DialStepFrame
<1>7. CASE UNCHANGED vars
  BY <1>7 DEF vars
<1> QED
  BY <1>1, <1>2, <1>3, <1>4, <1>5, <1>6, <1>7 DEF Next, SetterStep

\* What a step does to the caches: one entry is filled, emptied or expires, or one
\* cache is emptied.  An entry is filled by a dial with the answer to its own question.
Filled(k, n) == [answer |-> [by |-> url[k], for |-> n], live |-> TRUE]

LEMMA CacheSteps ==
  ASSUME SetterOK, CacheOK, DialsOK, [Next]_vars
  PROVE  \/ UNCHANGED cache
         \/ \E k \in Services : cache' = [cache EXCEPT ![k] = Forgotten]
         \/ \E k \in Services : \E n \in Names : cache' = [cache EXCEPT ![k][n] = None]
         \/ \E k \in 1..made : \E n \in Cached(k) : cache' = [cache EXCEPT ![k][n].live = FALSE]
         \/ \E d \in Dials : \E n \in Names :
              /\ service[d] \in Services \ {None}
              /\ \/ Full(service[d])
                    /\ cache' = [cache EXCEPT ![service[d]] =
                                   [Forgotten EXCEPT ![n] = Filled(service[d], n)]]
                 \/ ~Full(service[d])
                    /\ cache' = [cache EXCEPT ![service[d]] =
                                   [cache[service[d]] EXCEPT ![n] = Filled(service[d], n)]]
<1>1. CASE SetOptions
  BY <1>1 DEF SetOptions, ReplaceService, services
<1>2. CASE ApplyAddress \/ ApplyEnabled \/ OverrideEnabled
  BY <1>2 DEF ApplyAddress, ApplyEnabled, OverrideEnabled, services
<1>3. CASE Expire
  BY <1>3 DEF Expire
<1>4. CASE ClearCache \/ SetCacheTTL
  BY <1>4 DEF ClearCache, SetCacheTTL, SetterOK
<1>5. ASSUME NEW d \in Dials, Evict(d)
      PROVE  \E k \in Services : \E n \in Names : cache' = [cache EXCEPT ![k][n] = None]
  <2>1. service[d] \in Services /\ host[d] \in Names
    BY <1>5 DEF Evict, Goto, DialsOK, RouteInv, OnLookup
  <2> QED
    BY <1>5, <2>1 DEF Evict
<1>6. ASSUME NEW d \in Dials, PutCache(d), caching[service[d]]
      PROVE  \E n \in Names :
              /\ service[d] \in Services \ {None}
              /\ \/ Full(service[d])
                    /\ cache' = [cache EXCEPT ![service[d]] =
                                   [Forgotten EXCEPT ![n] = Filled(service[d], n)]]
                 \/ ~Full(service[d])
                    /\ cache' = [cache EXCEPT ![service[d]] =
                                   [cache[service[d]] EXCEPT ![n] = Filled(service[d], n)]]
  <2>1. service[d] \in Services \ {None} /\ host[d] \in Names
    BY <1>6 DEF PutCache, Goto, DialsOK, RouteInv, OnLookup
  <2>2. CASE Full(service[d])
    BY <1>6, <2>1, <2>2 DEF PutCache, Filled
  <2>3. CASE ~Full(service[d])
    BY <1>6, <2>1, <2>3 DEF PutCache, Filled
  <2> QED
    BY <2>1, <2>2, <2>3
<1>7. ASSUME NEW d \in Dials, PutCache(d), ~caching[service[d]] PROVE UNCHANGED cache
  <2>1. service[d] \in Services
    BY <1>7 DEF PutCache, Goto, DialsOK, RouteInv, OnLookup
  <2> QED
    BY <1>7, <2>1 DEF PutCache, CacheOK
<1>8. ASSUME NEW d \in Dials, DialStep(d), ~Evict(d), ~PutCache(d) PROVE UNCHANGED cache
  BY <1>8 DEF DialStep, Snapshot, IsEnabled, IsConfigured, DialOutproxy, NoLookup, CacheHit,
              CacheMiss, Query, QueryError, DialI2P, services
<1>9. CASE UNCHANGED vars
  BY <1>9 DEF vars, services
<1> QED
  BY <1>1, <1>2, <1>3, <1>4, <1>5, <1>6, <1>7, <1>8, <1>9 DEF Next, SetterStep

\* Every cache holds answers only.
LEMMA CacheTypeSteps ==
  ASSUME SetterOK, CacheOK, DialsOK, [Next]_vars
  PROVE  CacheOK'
<1> USE DEF CacheOK
<1>1. Forgotten \in [Names -> Entries \cup {None}]
  BY DEF Forgotten
<1>2. ASSUME NEW d \in Dials, NEW n \in Names, service[d] \in Services
      PROVE  Filled(service[d], n) \in Entries
  BY <1>2 DEF Filled, Entries, Answers, SetterOK
<1>3. ASSUME NEW k \in 1..made, NEW n \in Cached(k), cache' = [cache EXCEPT ![k][n].live = FALSE]
      PROVE  CacheOK'
  <2>1. k \in Services /\ n \in Names /\ cache[k][n] \in Entries
    BY <1>3, DialBoundAssumption DEF Cached, Services, SetterOK
  <2>2. [cache[k][n] EXCEPT !.live = FALSE] \in Entries
    BY <2>1 DEF Entries
  <2> QED
    BY <1>3, <2>1, <2>2
<1>4. ASSUME NEW d \in Dials, NEW n \in Names, service[d] \in Services,
             NEW kept \in [Names -> Entries \cup {None}],
             cache' = [cache EXCEPT ![service[d]] = [kept EXCEPT ![n] = Filled(service[d], n)]]
      PROVE  CacheOK'
  <2>1. [kept EXCEPT ![n] = Filled(service[d], n)] \in [Names -> Entries \cup {None}]
    BY <1>2, <1>4
  <2> QED
    BY <1>4, <2>1
<1>5. ASSUME NEW k \in Services, cache' = [cache EXCEPT ![k] = Forgotten] PROVE CacheOK'
  BY <1>1, <1>5
<1>6. ASSUME NEW k \in Services, NEW n \in Names, cache' = [cache EXCEPT ![k][n] = None] PROVE CacheOK'
  BY <1>6
<1>7. CASE UNCHANGED cache
  BY <1>7
<1>8. ASSUME NEW d \in Dials, service[d] \in Services PROVE cache[service[d]] \in [Names -> Entries \cup {None}]
  BY <1>8
<1> HIDE DEF CacheOK
<1> QED
  BY <1>1, <1>3, <1>4, <1>5, <1>6, <1>7, <1>8, CacheSteps

\* Every dial is where it may be and has dialled what it may dial.
LEMMA DialsSteps ==
  ASSUME SetterOK, CacheOK, DialsOK, [Next]_vars
  PROVE  DialsOK'
<1> USE DEF DialsOK, RouteInv, OnOutproxy, OnLookup, Goto
<1>1. CASE SetOptions
  BY <1>1 DEF SetOptions
<1>2. CASE ApplyAddress \/ ApplyEnabled \/ OverrideEnabled \/ Expire \/ ClearCache \/ SetCacheTTL
  BY <1>2 DEF ApplyAddress, ApplyEnabled, OverrideEnabled, Expire, ClearCache, SetCacheTTL, dials
<1>3. ASSUME NEW d \in Dials, DialStep(d) PROVE DialsOK'
  <2>1. CASE Snapshot(d)
    BY <2>1 DEF Snapshot, SetterOK
  <2>2. CASE IsEnabled(d) \/ IsConfigured(d)
    BY <2>2 DEF IsEnabled, IsConfigured
  <2>3. CASE DialOutproxy(d)
    BY <2>3 DEF DialOutproxy, DialI2P, SetterOK
  <2>4. CASE NoLookup(d) \/ QueryError(d)
    BY <2>4, DialNamesAssumption DEF NoLookup, QueryError, DialI2P
  <2>5. CASE CacheHit(d)
    <3>1. /\ service[d] \in Services /\ host[d] \in Names
          /\ cache[service[d]][host[d]] # None
      BY <2>5 DEF CacheHit
    <3>2. cache[service[d]][host[d]].answer \in Answers
      BY <3>1 DEF CacheOK, Entries
    <3> QED
      BY <2>5, <3>2 DEF CacheHit, DialI2P
  <2>6. CASE CacheMiss(d)
    BY <2>6 DEF CacheMiss
  <2>7. CASE Evict(d) \/ Query(d)
    BY <2>7 DEF Evict, Query
  <2>8. CASE PutCache(d)
    <3>1. service[d] \in Services /\ host[d] \in Names
      BY <2>8 DEF PutCache
    <3>2. [by |-> url[service[d]], for |-> host[d]] \in Answers
      BY <3>1 DEF SetterOK, Answers
    <3> QED
      BY <2>8, <3>2 DEF PutCache
  <2> QED
    BY <1>3, <2>1, <2>2, <2>3, <2>4, <2>5, <2>6, <2>7, <2>8 DEF DialStep
<1>4. CASE UNCHANGED vars
  BY <1>4 DEF vars, dials
<1> QED
  BY <1>1, <1>2, <1>3, <1>4 DEF Next, SetterStep

DialInv == SetterOK /\ CacheOK /\ DialsOK

\* Every variable has its type, whatever calls of SetOptions and dials overlap: an
\* outproxy that SetOptions refuses never comes to be dialled.
THEOREM DialTypeCorrect == Spec => [](DialTypeOK /\ DialInv)
<1>1. Init => DialInv
  <2>1. Init => SetterOK
    <3> SUFFICES ASSUME Init PROVE SetterOK
      OBVIOUS
    <3>1. 1 \in Services /\ url \in [Services -> Urls] /\ 0 \in 0..MaxChanges
      BY DialBoundAssumption DEF Init, Services
    <3> QED
      BY <3>1 DEF Init, SetterOK, SetterInv
  <2>2. Init => CacheOK
    BY DEF Init, CacheOK, Forgotten
  <2>3. Init => DialsOK
    BY DEF Init, DialsOK, RouteInv, OnOutproxy, OnLookup
  <2> QED
    BY <2>1, <2>2, <2>3 DEF DialInv
<1>2. DialInv /\ [Next]_vars => DialInv'
  BY SetterSteps, CacheTypeSteps, DialsSteps DEF DialInv
<1>3. DialInv => DialTypeOK
  BY DEF DialInv, DialTypeOK, SetterOK, CacheOK, DialsOK, OnOutproxy, OnLookup
<1> QED
  BY <1>1, <1>2, <1>3, PTL DEF Spec

-----------------------------------------------------------------------------
\* A cache loses entries, or is emptied and gets one entry, or gets one entry more
\* when it is not full.
LEMMA CachedSteps ==
  ASSUME DialInv, [Next]_vars, NEW k \in Services
  PROVE  \/ Cached(k)' \subseteq Cached(k)
         \/ \E n \in Names : Cached(k)' \subseteq {n}
         \/ ~Full(k) /\ \E n \in Names : Cached(k)' \subseteq Cached(k) \cup {n}
<1> USE DEF Cached, CacheOK
<1>1. CacheOK
  BY DEF DialInv
<1>2. ASSUME NEW j \in 1..made, NEW n \in Cached(j), cache' = [cache EXCEPT ![j][n].live = FALSE]
      PROVE  Cached(k)' \subseteq Cached(k)
  <2>1. j \in Services /\ n \in Names /\ cache[j][n] # None
    BY <1>2, DialBoundAssumption DEF DialInv, Services, SetterOK
  <2> QED
    BY <1>1, <1>2, <2>1
<1>3. ASSUME NEW j \in Services, cache' = [cache EXCEPT ![j] = Forgotten]
      PROVE  Cached(k)' \subseteq Cached(k)
  BY <1>1, <1>3 DEF Forgotten
<1>4. ASSUME NEW j \in Services, NEW n \in Names, cache' = [cache EXCEPT ![j][n] = None]
      PROVE  Cached(k)' \subseteq Cached(k)
  BY <1>1, <1>4
<1>5. ASSUME NEW j \in Services, NEW n \in Names,
             cache' = [cache EXCEPT ![j] = [Forgotten EXCEPT ![n] = Filled(j, n)]]
      PROVE  Cached(k)' \subseteq Cached(k) \/ Cached(k)' \subseteq {n}
  BY <1>1, <1>5 DEF Forgotten
<1>6. ASSUME NEW j \in Services, NEW n \in Names, ~Full(j),
             cache' = [cache EXCEPT ![j] = [cache[j] EXCEPT ![n] = Filled(j, n)]]
      PROVE  Cached(k)' \subseteq Cached(k) \/ (~Full(k) /\ Cached(k)' \subseteq Cached(k) \cup {n})
  BY <1>1, <1>6
<1>7. CASE UNCHANGED cache
  BY <1>7
<1> HIDE DEF Cached
<1> QED
  BY <1>2, <1>3, <1>4, <1>5, <1>6, <1>7, CacheSteps DEF DialInv

\* resolver cache, putCache: whatever lookups, evictions and refreshes overlap, no
\* cache grows beyond maxCacheEntries.
THEOREM CacheBoundedCorrect == Spec => [](CacheBounded /\ FiniteInv)
<1>1. Init => CacheBounded /\ FiniteInv
  <2> SUFFICES ASSUME Init, NEW k \in Services
               PROVE  IsFiniteSet(Cached(k)) /\ Cardinality(Cached(k)) <= MaxEntries
    BY DEF CacheBounded, FiniteInv
  <2>1. Cached(k) = {}
    BY DEF Init, Cached, Forgotten
  <2>2. IsFiniteSet({}) /\ Cardinality({}) = 0
    BY FS_EmptySet
  <2>3. MaxEntries \in Nat
    BY DialBoundAssumption
  <2> QED
    BY <2>1, <2>2, <2>3
<1>2. DialInv /\ CacheBounded /\ FiniteInv /\ [Next]_vars => CacheBounded' /\ FiniteInv'
  <2> SUFFICES ASSUME DialInv, CacheBounded, FiniteInv, [Next]_vars, NEW k \in Services
               PROVE  IsFiniteSet(Cached(k)') /\ Cardinality(Cached(k)') <= MaxEntries
    BY DEF CacheBounded, FiniteInv
  <2>1. /\ IsFiniteSet(Cached(k)) /\ Cardinality(Cached(k)) \in Nat
        /\ Cardinality(Cached(k)) <= MaxEntries /\ MaxEntries \in Nat \ {0}
    BY FS_CardinalityType, DialBoundAssumption DEF CacheBounded, FiniteInv
  <2>2. ASSUME NEW S, IsFiniteSet(S), Cardinality(S) <= MaxEntries, Cached(k)' \subseteq S
        PROVE  IsFiniteSet(Cached(k)') /\ Cardinality(Cached(k)') <= MaxEntries
    <3>1. IsFiniteSet(Cached(k)') /\ Cardinality(Cached(k)') <= Cardinality(S)
      BY <2>2, FS_Subset
    <3>2. Cardinality(Cached(k)') \in Nat /\ Cardinality(S) \in Nat
      BY <2>2, <3>1, FS_CardinalityType
    <3> QED
      BY <2>1, <2>2, <3>1, <3>2
  <2>3. ASSUME NEW n \in Names PROVE IsFiniteSet({n}) /\ Cardinality({n}) <= MaxEntries
    <3>1. IsFiniteSet({n}) /\ Cardinality({n}) = 1
      BY FS_Singleton
    <3> QED
      BY <2>1, <3>1
  <2>4. ASSUME NEW n \in Names, ~Full(k)
        PROVE  IsFiniteSet(Cached(k) \cup {n}) /\ Cardinality(Cached(k) \cup {n}) <= MaxEntries
    <3>1. /\ IsFiniteSet(Cached(k) \cup {n})
          /\ Cardinality(Cached(k) \cup {n}) \in {Cardinality(Cached(k)), Cardinality(Cached(k)) + 1}
      BY <2>1, FS_AddElement
    <3> QED
      BY <2>1, <2>4, <3>1 DEF Full
  <2> QED
    BY <2>1, <2>2, <2>3, <2>4, CachedSteps
<1> QED
  BY <1>1, <1>2, DialTypeCorrect, PTL DEF Spec

-----------------------------------------------------------------------------
\* A jump service keeps its URL: SetOptions makes another one.
LEMMA ServiceSteps ==
  ASSUME DialInv, MadeInv, [Next]_vars
  PROVE  /\ made \in Services /\ made' \in Services /\ made <= made'
         /\ \A k \in 1..made : url'[k] = url[k]
         /\ jump' \in 1..made' \cup {None}
<1> USE DialBoundAssumption DEF DialInv, SetterOK, Services, options, services, MadeInv
<1>1. CASE SetOptions
  <2>1. PICK o \in Options :
          CASE o.jumpservice = None -> UNCHANGED <<jump, services>>
            [] o.jumpservice = Empty -> jump' = None /\ UNCHANGED services
            [] OTHER -> ReplaceService(o.jumpservice)
    BY <1>1 DEF SetOptions
  <2> QED
    BY <2>1 DEF ReplaceService
<1>2. CASE ApplyAddress \/ ApplyEnabled \/ OverrideEnabled
  BY <1>2 DEF ApplyAddress, ApplyEnabled, OverrideEnabled
<1>3. CASE Expire \/ ClearCache \/ SetCacheTTL
  BY <1>3 DEF Expire, ClearCache, SetCacheTTL
<1>4. ASSUME NEW d \in Dials, DialStep(d) PROVE UNCHANGED <<made, url, jump>>
  BY <1>4, DialStepFrame
<1>5. CASE UNCHANGED vars
  BY <1>5 DEF vars
<1> QED
  BY <1>1, <1>2, <1>3, <1>4, <1>5 DEF Next, SetterStep

\* What a step of a dial does to the answers dialled: an answer that comes to be
\* dialled was cached for the dial's host, or has just been given for it.
LEMMA AnswerSteps ==
  ASSUME DialInv, NEW d \in Dials, DialStep(d)
  PROVE  /\ \A e \in Dials : e # d => UNCHANGED <<dialled[e], service[e], settled[e], pc[e]>>
         /\ dialled[d] \in Answers => UNCHANGED <<dialled[d], service[d]>>
         /\ dialled'[d] \in Answers /\ dialled[d] \notin Answers =>
              /\ UNCHANGED service
              /\ service[d] \in Services \ {None} /\ host[d] \in Names
              /\ \/ dialled'[d] = [by |-> url[service[d]], for |-> host[d]]
                 \/ host[d] \in Cached(service[d]) /\ dialled'[d] = cache[service[d]][host[d]].answer
<1> USE DEF DialInv, DialsOK, RouteInv, OnLookup, Goto
<1>1. CASE Snapshot(d)
  BY <1>1, AnswersAssumption DEF Snapshot
<1>2. CASE IsEnabled(d) \/ IsConfigured(d) \/ CacheMiss(d) \/ Evict(d) \/ Query(d)
  BY <1>2, AnswersAssumption DEF IsEnabled, IsConfigured, CacheMiss, Evict, Query
<1>3. CASE DialOutproxy(d)
  BY <1>3, AnswersAssumption DEF DialOutproxy, DialI2P, SetterOK
<1>4. CASE NoLookup(d) \/ QueryError(d)
  BY <1>4, AnswersAssumption DEF NoLookup, QueryError, DialI2P
<1>5. CASE CacheHit(d)
  BY <1>5, AnswersAssumption DEF CacheHit, DialI2P, Cached
<1>6. CASE PutCache(d)
  <2>1. dialled[d] = None /\ service[d] \in Services \ {None} /\ host[d] \in Names
    BY <1>6 DEF PutCache
  <2> QED
    BY <1>6, <2>1, AnswersAssumption DEF PutCache
<1> QED
  BY <1>1, <1>2, <1>3, <1>4, <1>5, <1>6 DEF DialStep

\* The services are made one after the other; a dial's is one that has been made.
LEMMA MadeSteps ==
  ASSUME DialInv, MadeInv, [Next]_vars
  PROVE  MadeInv'
<1>1. jump' \in 1..made' \cup {None} /\ made \in Services /\ made' \in Services /\ made <= made'
  BY ServiceSteps
<1>2. \A d \in Dials : service'[d] \in 1..made' \cup {None}
  <2>1. ASSUME NEW d \in Dials, DialStep(d) PROVE \A e \in Dials : service'[e] \in {service[e], jump}
    BY <2>1 DEF DialInv, DialsOK, DialStep, Snapshot, IsEnabled, IsConfigured, DialOutproxy, NoLookup, CacheHit,
       CacheMiss, Evict, Query, QueryError, PutCache, DialI2P
  <2>2. CASE SetOptions \/ SetterStep \/ Expire \/ ClearCache \/ SetCacheTTL \/ UNCHANGED vars
    <3>1. UNCHANGED service
      BY <2>2 DEF SetOptions, SetterStep, ApplyAddress, ApplyEnabled, OverrideEnabled, Expire, ClearCache,
         SetCacheTTL, vars, dials
    <3> QED
      BY <1>1, <3>1 DEF MadeInv, Services
  <2> QED
    BY <1>1, <2>1, <2>2 DEF Next, MadeInv, Services
<1>3. \A k \in Services : k > made' => Cached(k)' = {}
  <2> SUFFICES ASSUME NEW k \in Services, k > made' PROVE Cached(k)' \subseteq Cached(k)
    BY <1>1 DEF MadeInv, Services
  <2> USE DEF Cached, CacheOK, DialInv
  <2>1. ASSUME NEW j \in 1..made, NEW n \in Cached(j), cache' = [cache EXCEPT ![j][n].live = FALSE]
        PROVE  Cached(k)' \subseteq Cached(k)
    BY <1>1, <2>1 DEF Services
  <2>2. ASSUME NEW j \in Services, cache' = [cache EXCEPT ![j] = Forgotten]
        PROVE  Cached(k)' \subseteq Cached(k)
    BY <2>2 DEF Forgotten
  <2>3. ASSUME NEW j \in Services, NEW n \in Names, cache' = [cache EXCEPT ![j][n] = None]
        PROVE  Cached(k)' \subseteq Cached(k)
    BY <2>3
  <2>4. ASSUME NEW d \in Dials, service[d] \in Services \ {None}, NEW f, cache' = [cache EXCEPT ![service[d]] = f]
        PROVE  Cached(k)' \subseteq Cached(k)
    <3>1. service[d] # k
      BY <1>1, <2>4 DEF MadeInv, Services
    <3> QED
      BY <2>4, <3>1
  <2>5. CASE UNCHANGED cache
    BY <2>5
  <2> HIDE DEF Cached, CacheOK
  <2> QED
    BY <2>1, <2>2, <2>3, <2>4, <2>5, CacheSteps
<1> QED
  BY <1>1, <1>2, <1>3 DEF MadeInv

CachedOwn == \A k \in Services : \A n \in Cached(k) : cache[k][n].answer = [by |-> url[k], for |-> n]

\* No step puts an answer into a cache that is not its own.
LEMMA CachedOwnSteps ==
  ASSUME DialInv, MadeInv, CachedOwn, [Next]_vars
  PROVE  CachedOwn'
<1> USE DEF CachedOwn, Cached, CacheOK, DialInv
<1>1. \A k \in 1..made : url'[k] = url[k]
  BY ServiceSteps
<1>2. \A k \in Services : \A n \in Cached(k) : url'[k] = url[k]
  BY <1>1 DEF MadeInv, Services, SetterOK
<1>3. ASSUME NEW j \in 1..made, NEW n \in Cached(j), cache' = [cache EXCEPT ![j][n].live = FALSE]
      PROVE  CachedOwn'
  <2>1. j \in Services /\ n \in Names /\ cache[j][n] \in Entries
    BY <1>3, DialBoundAssumption DEF Services, SetterOK
  <2>2. [cache[j][n] EXCEPT !.live = FALSE].answer = cache[j][n].answer
    BY <2>1 DEF Entries
  <2>3. \A k \in Services : \A m \in Names :
          /\ cache'[k][m].answer = cache[k][m].answer
          /\ m \in Cached(k)' => m \in Cached(k)
    BY <1>3, <2>1, <2>2
  <2> QED
    BY <1>2, <2>3
<1>4. ASSUME NEW j \in Services, cache' = [cache EXCEPT ![j] = Forgotten] PROVE CachedOwn'
  BY <1>2, <1>4 DEF Forgotten
<1>5. ASSUME NEW j \in Services, NEW n \in Names, cache' = [cache EXCEPT ![j][n] = None] PROVE CachedOwn'
  BY <1>2, <1>5
<1>6. ASSUME NEW d \in Dials, NEW n \in Names, service[d] \in Services \ {None},
             NEW kept \in {Forgotten, cache[service[d]]},
             cache' = [cache EXCEPT ![service[d]] = [kept EXCEPT ![n] = Filled(service[d], n)]]
      PROVE  CachedOwn'
  <2>1. service[d] \in 1..made
    BY <1>6 DEF MadeInv
  <2>2. Filled(service[d], n).answer = [by |-> url'[service[d]], for |-> n]
    BY <1>1, <2>1 DEF Filled
  <2>3. ASSUME NEW m \in Names, m # n PROVE [kept EXCEPT ![n] = Filled(service[d], n)][m] \in {None, cache[service[d]][m]}
    BY <1>6, <2>3 DEF Forgotten
  <2>4. kept \in [Names -> Entries \cup {None}]
    BY <1>6 DEF Forgotten
  <2> QED
    BY <1>2, <1>6, <2>2, <2>3, <2>4
<1>7. CASE UNCHANGED cache
  BY <1>2, <1>7
<1> HIDE DEF CachedOwn, Cached, CacheOK
<1> QED
  BY <1>3, <1>4, <1>5, <1>6, <1>7, CacheSteps

DialledOwn ==
  \A d \in Dials :
    dialled[d] \in Answers =>
      dialled[d] = [by |-> url[service[d]], for |-> host[d]] /\ host[d] \in Names

\* Whatever dial and SetOptions overlap, a name is dialled as the answer that was
\* given for it by the service that was configured when the dial began, and no
\* cache holds an answer for another name or from another URL.
THEOREM AnswersAreOwnCorrect == Spec => []AnswersAreOwn
<1> DEFINE OwnInv == MadeInv /\ HeldInv /\ CachedOwn /\ DialledOwn
<1>1. Init => OwnInv
  <2> SUFFICES ASSUME Init PROVE OwnInv
    OBVIOUS
  <2>1. \A k \in Services : Cached(k) = {}
    BY DEF Init, Cached, Forgotten
  <2>2. \A d \in Dials : dialled[d] \notin Answers /\ service[d] = None
    BY AnswersAssumption DEF Init
  <2>3. jump \in 1..made \cup {None}
    BY DEF Init
  <2> QED
    BY <2>1, <2>2, <2>3 DEF MadeInv, HeldInv, CachedOwn, DialledOwn
<1>2. DialInv /\ OwnInv /\ [Next]_vars => OwnInv'
  <2> SUFFICES ASSUME DialInv, OwnInv, [Next]_vars PROVE OwnInv'
    OBVIOUS
  <2>1. MadeInv' /\ CachedOwn'
    BY MadeSteps, CachedOwnSteps
  <2>2. made \in Services /\ made' \in Services /\ made <= made' /\ \A k \in 1..made : url'[k] = url[k]
    BY ServiceSteps
  <2>3. CASE UNCHANGED <<dialled, service, host>>
    <3>1. 1..made \subseteq 1..made'
      BY <2>2, DialBoundAssumption DEF Services
    <3>2. HeldInv'
      BY <2>3, <3>1 DEF HeldInv
    <3>3. ASSUME NEW d \in Dials, dialled[d] \in Answers PROVE url'[service[d]] = url[service[d]]
      BY <2>2, <3>3 DEF HeldInv
    <3>4. DialledOwn'
      BY <2>3, <3>3 DEF DialledOwn
    <3> QED
      BY <2>1, <3>2, <3>4
  <2>4. ASSUME NEW d \in Dials, DialStep(d) PROVE HeldInv' /\ DialledOwn'
    <3>1. UNCHANGED <<made, url, host>>
      BY <2>4, DialStepFrame
    <3>2. \A e \in Dials : e # d => UNCHANGED <<dialled[e], service[e]>>
      BY <2>4, AnswerSteps
    <3>3. CASE dialled[d] \in Answers
      <4>1. UNCHANGED <<dialled[d], service[d]>>
        BY <2>4, <3>3, AnswerSteps
      <4> QED
        BY <3>1, <3>2, <4>1 DEF HeldInv, DialledOwn
    <3>4. CASE dialled[d] \notin Answers /\ dialled'[d] \in Answers
      <4>1. /\ UNCHANGED service
            /\ service[d] \in Services \ {None} /\ host[d] \in Names
            /\ \/ dialled'[d] = [by |-> url[service[d]], for |-> host[d]]
               \/ host[d] \in Cached(service[d]) /\ dialled'[d] = cache[service[d]][host[d]].answer
        BY <2>4, <3>4, AnswerSteps
      <4>2. service[d] \in 1..made
        BY <4>1 DEF MadeInv
      <4>3. dialled'[d] = [by |-> url[service[d]], for |-> host[d]]
        BY <4>1 DEF CachedOwn
      <4> QED
        BY <3>1, <3>2, <4>1, <4>2, <4>3 DEF HeldInv, DialledOwn
    <3>5. CASE dialled'[d] \notin Answers
      BY <3>1, <3>2, <3>5 DEF HeldInv, DialledOwn
    <3> QED
      BY <3>3, <3>4, <3>5
  <2>5. CASE SetOptions \/ SetterStep \/ Expire \/ ClearCache \/ SetCacheTTL \/ UNCHANGED vars
    <3>1. UNCHANGED <<dialled, service, host>>
      BY <2>5 DEF SetOptions, SetterStep, ApplyAddress, ApplyEnabled, OverrideEnabled, Expire, ClearCache,
         SetCacheTTL, vars, dials
    <3> QED
      BY <2>3, <3>1
  <2> QED
    BY <2>1, <2>3, <2>4, <2>5 DEF Next
<1>3. OwnInv => AnswersAreOwn
  BY DEF CachedOwn, DialledOwn, AnswersAreOwn
<1> QED
  BY <1>1, <1>2, <1>3, DialTypeCorrect, PTL DEF Spec

-----------------------------------------------------------------------------
\* A step of a dial of a clearnet host by the outproxy, if the dial is settled:
\* it goes from one question to the next as the outproxy answers them.
LEMMA OutproxySteps ==
  ASSUME DialInv, NEW d \in Dials, DialStep(d), host[d] = Clearnet
  PROVE  \/ pc[d] = "idle" /\ pc'[d] = "isEnabled" /\ setter = "idle"
         \/ UNCHANGED settled[d] /\ pc[d] = "isEnabled" /\ pc'[d] = IF enabled THEN "isConfigured" ELSE "refused"
         \/ UNCHANGED settled[d] /\ pc[d] = "isConfigured" /\ pc'[d] = IF address # Empty THEN "dialOutproxy" ELSE "refused"
         \/ UNCHANGED settled[d] /\ pc[d] = "dialOutproxy" /\ pc'[d] = "over" /\ dialled'[d] = address
<1> USE DialNamesAssumption DEF DialInv, DialsOK, RouteInv, OnLookup, Goto
<1>1. CASE Snapshot(d)
  BY <1>1 DEF Snapshot, SetterOK, SetterInv
<1>2. CASE IsEnabled(d) \/ IsConfigured(d)
  BY <1>2 DEF IsEnabled, IsConfigured
<1>3. CASE DialOutproxy(d)
  BY <1>3 DEF DialOutproxy, DialI2P
<1>4. CASE NoLookup(d) \/ QueryError(d) \/ CacheHit(d) \/ CacheMiss(d) \/ Evict(d) \/ Query(d) \/ PutCache(d)
  BY <1>4 DEF NoLookup, QueryError, CacheHit, CacheMiss, Evict, Query, PutCache, DialI2P
<1> QED
  BY <1>1, <1>2, <1>3, <1>4 DEF DialStep

\* dialOutproxySnapshot and applyOutproxyAddress, applyOutproxyEnabled: a clearnet
\* dial that no SetOptions has overlapped goes to the outproxy that the options ask
\* for, and is refused when they ask for none.
THEOREM OutproxyAsAskedCorrect == Spec => []OutproxyAsAsked
<1> DEFINE AskedInv == PendingInv /\ SettledInv /\ OutproxyAsAsked
<1>1. Init => AskedInv
  <2> SUFFICES ASSUME Init PROVE AskedInv
    OBVIOUS
  <2>1. PendingInv
    BY DEF Init, PendingInv
  <2>2. \A d \in Dials : pc[d] = "idle"
    BY DEF Init
  <2> QED
    BY <2>1, <2>2 DEF SettledInv, OutproxyAsAsked
<1>2. DialInv /\ AskedInv /\ [Next]_vars => AskedInv'
  <2> SUFFICES ASSUME DialInv, AskedInv, [Next]_vars PROVE AskedInv'
    OBVIOUS
  <2> USE DEF PendingInv, SettledInv, OutproxyAsAsked
  <2>1. CASE SetOptions
    <3>1. \A d \in Dials : ~settled'[d]
      BY <2>1 DEF SetOptions
    <3>2. PendingInv'
      <4>1. /\ setter = "idle" /\ setter' = "address" /\ UNCHANGED outproxy
            /\ asked' = Asked(opts')
        BY <2>1 DEF SetOptions
      <4>2. address = asked.address /\ enabled = asked.enabled
        BY <4>1
      <4> QED
        BY <4>1, <4>2 DEF Asked, outproxy
    <3> QED
      BY <3>1, <3>2
  <2>2. CASE ApplyAddress
    BY <2>2 DEF ApplyAddress, dials
  <2>3. CASE ApplyEnabled
    BY <2>3 DEF ApplyEnabled, dials
  <2>4. CASE OverrideEnabled
    BY <2>4 DEF OverrideEnabled, EnabledAsAsked, dials
  <2>5. CASE Expire \/ ClearCache \/ SetCacheTTL \/ UNCHANGED vars
    BY <2>5 DEF Expire, ClearCache, SetCacheTTL, vars, options, outproxy, dials
  <2>6. ASSUME NEW d \in Dials, DialStep(d) PROVE AskedInv'
    <3>1. UNCHANGED <<options, host>>
      BY <2>6, DialStepFrame
    <3>2. \A e \in Dials : e # d => UNCHANGED <<dialled[e], settled[e], pc[e]>>
      BY <2>6, AnswerSteps
    <3>3. PendingInv'
      BY <3>1 DEF options, outproxy
    <3>4. ASSUME NEW e \in Dials, host'[e] = Clearnet, settled'[e]
          PROVE  /\ pc'[e] # "idle" =>
                      /\ setter = "idle"
                      /\ pc'[e] = "isConfigured" => asked.enabled
                      /\ pc'[e] = "dialOutproxy" => asked.enabled /\ asked.address # Empty
                 /\ pc'[e] = "over" => asked.enabled /\ asked.address # Empty /\ dialled'[e] = asked.address
                 /\ pc'[e] = "refused" => ~(asked.enabled /\ asked.address # Empty)
      <4>1. host[e] = Clearnet
        BY <3>1, <3>4
      <4>2. CASE e # d
        BY <3>2, <3>4, <4>1, <4>2
      <4>3. CASE e = d
        BY <2>6, <3>4, <4>1, <4>3, OutproxySteps
      <4> QED
        BY <4>2, <4>3
    <3>5. UNCHANGED asked /\ UNCHANGED setter
      BY <3>1 DEF options
    <3> QED
      BY <3>1, <3>3, <3>4, <3>5
  <2> QED
    BY <2>1, <2>2, <2>3, <2>4, <2>5, <2>6 DEF Next, SetterStep
<1>3. AskedInv => OutproxyAsAsked
  OBVIOUS
<1> QED
  BY <1>1, <1>2, <1>3, DialTypeCorrect, PTL DEF Spec
=============================================================================
