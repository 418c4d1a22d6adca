-------------------------------- MODULE HttpDial -------------------------------
(***************************************************************************)
(* How the HTTP proxy reaches a host (lib/http/client): a dial takes h.Jump *)
(* and h.Outproxy under fieldsMu and then goes on without it, while        *)
(* SetOptions replaces the jump service and writes into the outproxy that  *)
(* the dial holds.  Human-readable names are looked up in the jump         *)
(* service, whose cache is read, emptied and filled in separate critical   *)
(* sections.  A service is a number in the order they are made; an answer  *)
(* is the service URL that gave it and the name it was asked for.          *)
(***************************************************************************)
EXTENDS Naturals, FiniteSets

CONSTANTS
  Dials,        \* the dials that may be made
  Names,        \* hosts that end in .i2p and need a lookup
  Base32,       \* a host that ends in .b32.i2p
  Clearnet,     \* a host that does not end in .i2p
  Urls,         \* jump service URLs
  Exits,        \* outproxy addresses, all of them I2P addresses
  Empty,        \* the empty string
  None,         \* nil, an absent option
  MaxEntries,   \* maxCacheEntries
  MaxServices,  \* bound on the jump services made
  MaxChanges    \* bound on the calls of SetOptions

ASSUME DialNamesAssumption ==
  /\ Cardinality({Base32, Clearnet, Empty, None}) = 4
  /\ {Base32, Clearnet, Empty, None} \cap (Names \cup Urls \cup Exits) = {}
  /\ Names \cap Exits = {}

ASSUME DialBoundAssumption ==
  MaxEntries \in Nat \ {0} /\ MaxServices \in Nat \ {0} /\ MaxChanges \in Nat

VARIABLES
  jump,          \* h.Jump: a service, or None
  address,       \* h.Outproxy.Address
  enabled,       \* h.Outproxy.Enabled
  fieldsMu,      \* SetOptions holds h.fieldsMu
  made,          \* how many services have been made
  url, cache,    \* of each service
  caching,       \* the service's cacheTTL is positive
  setter, opts,  \* where SetOptions stands, and the options it applies
  asked,         \* the outproxy that the options of all calls so far ask for
  changes,       \* how often SetOptions has been called
  pc, host,      \* where each dial stands, and the host it is for
  service,       \* the jump service each dial holds
  settled,       \* no SetOptions since the dial has taken its fields
  dialled        \* what each dial has passed to Garlic.Dial

outproxy == <<address, enabled>>
services == <<made, url, cache, caching>>
options == <<jump, outproxy, fieldsMu, setter, opts, asked, changes>>
dials == <<pc, host, service, settled, dialled>>
vars == <<options, services, dials>>

Services == 1..MaxServices
Answers == [by : Urls, for : Names]
Entries == [answer : Answers, live : BOOLEAN]

\* An answer is not itself a host or an address that can be dialled.
ASSUME AnswersAssumption == Answers \cap (Names \cup Exits \cup {Base32, Empty, None}) = {}

Options == [jumpservice : Urls \cup {Empty, None}, outproxy : Exits \cup {Clearnet, Empty, None},
            enabled : BOOLEAN \cup {None}]
Cached(k) == {n \in Names : cache[k][n] # None}
Forgotten == [n \in Names |-> None]

Goto(d, from, to) == pc[d] = from /\ pc' = [pc EXCEPT ![d] = to]

\* NewHTTPClient: the default jump service, and an outproxy that is not configured.
Init ==
  /\ jump = 1 /\ address = Empty /\ enabled = FALSE
  /\ fieldsMu = FALSE
  /\ made = 1
  /\ url \in {[k \in Services |-> u] : u \in Urls}
  /\ cache = [k \in Services |-> Forgotten]
  /\ caching = [k \in Services |-> TRUE]
  /\ setter = "idle" /\ opts = None
  /\ asked = [address |-> Empty, enabled |-> FALSE] /\ changes = 0
  /\ pc = [d \in Dials |-> "idle"]
  /\ host \in [Dials -> Names \cup {Base32, Clearnet}]
  /\ service = [d \in Dials |-> None]
  /\ settled = [d \in Dials |-> TRUE]
  /\ dialled = [d \in Dials |-> None]

-----------------------------------------------------------------------------
\* Slip: the address is not looked at.
AcceptedSlip(o) == TRUE
\* validateHTTPClientOpts: an outproxy that is no I2P address is refused.
Accepted(o) == o.outproxy # Clearnet

\* Slip: the service is kept and its URL replaced.
ReplaceServiceSlip(u) ==
  /\ url' = [url EXCEPT ![jump] = u]
  /\ UNCHANGED <<jump, made, cache, caching>>
\* h.Jump = NewJumpService(..., jumpURL), with a cache of its own.
ReplaceService(u) ==
  /\ made < MaxServices
  /\ made' = made + 1
  /\ jump' = made + 1
  /\ url' = [url EXCEPT ![made + 1] = u]
  /\ UNCHANGED <<cache, caching>>

\* Slip: one entry too many.
FullSlip(k) == Cardinality(Cached(k)) > MaxEntries
\* len(j.cache) >= maxCacheEntries
Full(k) == Cardinality(Cached(k)) >= MaxEntries

\* Slip: what the address has set is kept.
EnabledAsAskedSlip(e) == IF address = Empty THEN FALSE ELSE enabled
\* applyOutproxyEnabled, after applyOutproxyAddress.
EnabledAsAsked(e) == e

-----------------------------------------------------------------------------
(***************************************************************************)
(* SetOptions.  Its writes to the outproxy are seen by dials one by one.   *)
(***************************************************************************)
\* What a call asks of the outproxy: its address enables it, unless the call
\* says otherwise.
Asked(o) ==
  [address |-> IF o.outproxy = None THEN asked.address ELSE o.outproxy,
   enabled |-> IF o.enabled # None THEN o.enabled
               ELSE IF o.outproxy = None THEN asked.enabled ELSE o.outproxy # Empty]

\* The call, and its write to h.Jump under fieldsMu.  Calls that are refused change
\* nothing here (the common options are not part of this module).
SetOptions ==
  /\ setter = "idle" /\ changes < MaxChanges
  /\ \E o \in Options :
       /\ Accepted(o)
       /\ opts' = o
       /\ asked' = Asked(o)
       /\ CASE o.jumpservice = None -> UNCHANGED <<jump, services>>
            [] o.jumpservice = Empty -> jump' = None /\ UNCHANGED services
            [] OTHER -> ReplaceService(o.jumpservice)
  /\ fieldsMu' = TRUE
  /\ setter' = "address"
  /\ changes' = changes + 1
  /\ settled' = [d \in Dials |-> FALSE]
  /\ UNCHANGED <<outproxy, pc, host, service, dialled>>

\* applyOutproxyAddress writes Address first ...
ApplyAddress ==
  /\ setter = "address"
  /\ setter' = "enable"
  /\ address' = IF opts.outproxy = None THEN address ELSE opts.outproxy
  /\ UNCHANGED <<jump, enabled, fieldsMu, opts, asked, changes, services, dials>>

\* ... then Enabled.
ApplyEnabled ==
  /\ setter = "enable"
  /\ setter' = "override"
  /\ enabled' = IF opts.outproxy = None THEN enabled ELSE opts.outproxy # Empty
  /\ UNCHANGED <<jump, address, fieldsMu, opts, asked, changes, services, dials>>

\* applyOutproxyEnabled, and the deferred unlock.
OverrideEnabled ==
  /\ setter = "override"
  /\ setter' = "idle"
  /\ enabled' = IF opts.enabled = None THEN enabled ELSE EnabledAsAsked(opts.enabled)
  /\ opts' = None
  /\ fieldsMu' = FALSE
  /\ UNCHANGED <<jump, address, asked, changes, services, dials>>

SetterStep == ApplyAddress \/ ApplyEnabled \/ OverrideEnabled

-----------------------------------------------------------------------------
(***************************************************************************)
(* A dial: connectDial, DialContext or Dial.                               *)
(***************************************************************************)
\* Garlic.Dial with what the dial has come to.
DialI2P(d, from, what) ==
  /\ Goto(d, from, "over")
  /\ dialled' = [dialled EXCEPT ![d] = what]
  /\ UNCHANGED <<options, services, host, service, settled>>

\* h.Jump and h.Outproxy are taken under fieldsMu.
Snapshot(d) ==
  /\ ~fieldsMu
  /\ IF host[d] = Clearnet THEN Goto(d, "idle", "isEnabled") ELSE Goto(d, "idle", "resolve")
  /\ service' = [service EXCEPT ![d] = jump]
  /\ settled' = [settled EXCEPT ![d] = TRUE]
  /\ UNCHANGED <<options, services, host, dialled>>

\* dialOutproxySnapshot: IsActive reads Enabled, then Address; the dial reads Address again.
IsEnabled(d) ==
  /\ Goto(d, "isEnabled", IF enabled THEN "isConfigured" ELSE "refused")
  /\ UNCHANGED <<options, services, host, service, settled, dialled>>

IsConfigured(d) ==
  /\ Goto(d, "isConfigured", IF address # Empty THEN "dialOutproxy" ELSE "refused")
  /\ UNCHANGED <<options, services, host, service, settled, dialled>>

DialOutproxy(d) == DialI2P(d, "dialOutproxy", address)

\* resolveJumpSnapshot: no service, or nothing to look up.
NoLookup(d) ==
  /\ service[d] = None \/ host[d] = Base32
  /\ DialI2P(d, "resolve", host[d])

\* getCached under the read lock.
CacheHit(d) ==
  /\ service[d] # None /\ host[d] \in Names
  /\ LET entry == cache[service[d]][host[d]]
     IN entry # None /\ entry.live /\ DialI2P(d, "resolve", entry.answer)

CacheMiss(d) ==
  /\ service[d] # None /\ host[d] \in Names
  /\ LET entry == cache[service[d]][host[d]]
     IN \/ entry = None /\ Goto(d, "resolve", "query")
        \/ entry # None /\ ~entry.live /\ Goto(d, "resolve", "evict")
  /\ UNCHANGED <<options, services, host, service, settled, dialled>>

\* The expired entry is removed under the write lock, as whatever it is by then.
Evict(d) ==
  /\ Goto(d, "evict", "query")
  /\ cache' = [cache EXCEPT ![service[d]][host[d]] = None]
  /\ UNCHANGED <<options, made, url, caching, host, service, settled, dialled>>

\* The jump service answers ...
Query(d) ==
  /\ Goto(d, "query", "put")
  /\ UNCHANGED <<options, services, host, service, settled, dialled>>

\* ... or not, and the name itself is dialled.
QueryError(d) == DialI2P(d, "query", host[d])

\* putCache, which empties a cache that is full.
PutCache(d) ==
  LET k == service[d]
      answer == [by |-> url[k], for |-> host[d]]
      kept == IF Full(k) THEN Forgotten ELSE cache[k]
  IN /\ Goto(d, "put", "over")
     /\ cache' = [cache EXCEPT ![k] =
                    IF caching[k] THEN [kept EXCEPT ![host[d]] = [answer |-> answer, live |-> TRUE]]
                                  ELSE @]
     /\ dialled' = [dialled EXCEPT ![d] = answer]
     /\ UNCHANGED <<options, made, url, caching, host, service, settled>>

DialStep(d) ==
  \/ Snapshot(d) \/ IsEnabled(d) \/ IsConfigured(d) \/ DialOutproxy(d) \/ NoLookup(d)
  \/ CacheHit(d) \/ CacheMiss(d) \/ Evict(d) \/ Query(d) \/ QueryError(d) \/ PutCache(d)

-----------------------------------------------------------------------------
\* Time passes: an entry expires.
Expire ==
  /\ \E k \in 1..made : \E n \in Cached(k) :
       cache' = [cache EXCEPT ![k][n].live = FALSE]
  /\ UNCHANGED <<options, made, url, caching, dials>>

\* Calls on h.Jump, an exported field.
ClearCache ==
  /\ jump # None
  /\ cache' = [cache EXCEPT ![jump] = Forgotten]
  /\ UNCHANGED <<options, made, url, caching, dials>>

SetCacheTTL ==
  /\ jump # None
  /\ \E positive \in BOOLEAN : caching' = [caching EXCEPT ![jump] = positive]
  /\ UNCHANGED <<options, made, url, cache, dials>>

Next == \/ SetOptions \/ SetterStep \/ Expire \/ ClearCache \/ SetCacheTTL
        \/ \E d \in Dials : DialStep(d)

Spec == Init /\ [][Next]_vars

-----------------------------------------------------------------------------
\* Every variable has its type.
DialTypeOK ==
  /\ jump \in Services \cup {None}
  /\ address \in Exits \cup {Empty} /\ enabled \in BOOLEAN /\ fieldsMu \in BOOLEAN
  /\ made \in Services /\ url \in [Services -> Urls]
  /\ cache \in [Services -> [Names -> Entries \cup {None}]]
  /\ caching \in [Services -> BOOLEAN]
  /\ setter \in {"idle", "address", "enable", "override"} /\ opts \in Options \cup {None}
  /\ asked \in [address : Exits \cup {Empty}, enabled : BOOLEAN]
  /\ changes \in 0..MaxChanges
  /\ pc \in [Dials -> {"idle", "isEnabled", "isConfigured", "dialOutproxy", "resolve",
                        "evict", "query", "put", "over", "refused"}]
  /\ service \in [Dials -> Services \cup {None}]
  /\ dialled \in [Dials -> Exits \cup {Empty, Base32, None} \cup Names \cup Answers]

\* putCache: no cache grows beyond its limit, whatever lookups, evictions and
\* refreshes of one entry overlap.
CacheBounded == \A k \in Services : Cardinality(Cached(k)) <= MaxEntries

\* A name is dialled as the answer given for it by the service that was configured
\* when the dial began, also if SetOptions has moved on to another URL since; no
\* cache holds an answer for another name or from another URL.
AnswersAreOwn ==
  /\ \A d \in Dials :
       dialled[d] \in Answers =>
         dialled[d] = [by |-> url[service[d]], for |-> host[d]] /\ host[d] \in Names
  /\ \A k \in Services : \A n \in Cached(k) :
       cache[k][n].answer = [by |-> url[k], for |-> n]

\* A clearnet dial that no SetOptions has overlapped goes to the outproxy that the
\* options ask for, and is refused when they ask for none.
OutproxyAsAsked ==
  \A d \in Dials :
    host[d] = Clearnet /\ settled[d] =>
      LET active == asked.enabled /\ asked.address # Empty
      IN /\ pc[d] = "over" => active /\ dialled[d] = asked.address
         /\ pc[d] = "refused" => ~active
=============================================================================
