---------------------------- MODULE TenantCache ----------------------------
(***************************************************************************)
(* The tenant lookup cache: TenantService.findWithCache fills Redis keys   *)
(* from MongoDB (src/tenant/tenant.service.ts), the change stream of       *)
(* TenantCacheInvalidationService deletes them (src/tenant/                *)
(* tenant-cache-invalidation.service.ts), and every key has a TTL.         *)
(* Tenants are edited in MongoDB directly; the server itself only creates  *)
(* them.                                                                   *)
(***************************************************************************)
EXTENDS Integers, Sequences

CONSTANTS
  Tenants, Slugs, Domains,
  NoDomain,      \* a tenant without customDomain
  Unborn, Gone,  \* no document yet, and no document any more
  Lookup,        \* the fullDocument of an update event: looked up on delivery
  Empty,         \* a Redis key that is not there
  Readers,       \* lookups
  MaxRev,        \* bound: edits of one tenant
  MaxLookups,    \* bound: lookups one reader makes
  Failures       \* which of "drop" (of the stream) and "del" (of a DEL) can happen

Doc == [slug: Slugs, domain: Domains \cup {NoDomain}, live: BOOLEAN, rev: 0..MaxRev]

ASSUME TenantCacheAssumption ==
  /\ NoDomain \notin Domains /\ Unborn \notin Doc \cup {Gone}
  /\ MaxRev \in Nat /\ MaxLookups \in Nat /\ Failures \subseteq {"drop", "del"}

Key == ({"slug"} \X Slugs) \cup ({"id"} \X Tenants) \cup ({"domain"} \X Domains)

VARIABLES
  doc,      \* doc[t]: the tenant's document in MongoDB
  cache,    \* cache[k]: the Redis value and, as history, whether it was overtaken
  reader,   \* reader[r]: a lookup in progress
  lookups,  \* lookups[r]: how many lookups r has made
  up,       \* the change stream is open
  events,   \* change events not delivered yet
  dels,     \* DEL commands sent and not executed yet
  missed    \* history: missed[t], the last change of t was not acted upon

vars == <<doc, cache, reader, lookups, up, events, dels, missed>>

Exists(t) == doc[t] \notin {Unborn, Gone}

(* The keys invalidateAllCacheKeys, or for want of a document               *)
(* invalidateCacheById, deletes for tenant t with document d.               *)
KeysOf(t, d) ==
  IF d = Gone THEN {<<"id", t>>}
  ELSE {<<"id", t>>, <<"slug", d.slug>>}
       \cup (IF d.domain = NoDomain THEN {} ELSE {<<"domain", d.domain>>})

Idle == [pc |-> "idle"]

TypeOK ==
  /\ doc \in [Tenants -> Doc \cup {Unborn, Gone}]
  /\ cache \in [Key -> [of: Tenants, doc: Doc, overtaken: BOOLEAN, ttl: BOOLEAN] \cup {Empty}]
  /\ reader \in [Readers ->
       {Idle} \cup [pc: {"query"}, key: Key]
              \cup [pc: {"set"}, key: Key, of: Tenants, doc: Doc, overtaken: BOOLEAN]]
  /\ lookups \in [Readers -> 0..MaxLookups]
  /\ up \in BOOLEAN
  /\ events \in Seq([of: Tenants, full: Doc \cup {Gone, Lookup}])
  /\ dels \in Seq([of: Tenants, keys: SUBSET Key])
  /\ missed \in [Tenants -> BOOLEAN]

Init ==
  /\ doc \in [Tenants -> {Unborn} \cup [slug: Slugs, domain: Domains \cup {NoDomain},
                                        live: {TRUE}, rev: {0}]]
  /\ \E t \in Tenants : Exists(t)
  /\ \A t, u \in Tenants : t # u /\ Exists(t) /\ Exists(u) =>
       doc[t].slug # doc[u].slug /\ (doc[t].domain # doc[u].domain \/ doc[t].domain = NoDomain)
  /\ cache = [k \in Key |-> Empty]
  /\ reader = [r \in Readers |-> Idle]
  /\ lookups = [r \in Readers |-> 0]
  /\ up = TRUE
  /\ events = <<>> /\ dels = <<>>
  /\ missed = [t \in Tenants |-> FALSE]

-----------------------------------------------------------------------------
(* findWithCache: GET, findOne, SET with EX *)

Matches(k, t) == Exists(t) /\ doc[t].live /\ k \in KeysOf(t, doc[t])

(* A hit ends the lookup; a miss, or a failing GET, goes on to MongoDB. *)
Get(r, k) ==
  /\ reader[r] = Idle /\ lookups[r] < MaxLookups
  /\ lookups' = [lookups EXCEPT ![r] = @ + 1]
  /\ \/ reader' = [reader EXCEPT ![r] = [pc |-> "query", key |-> k]]
     \/ cache[k] # Empty /\ UNCHANGED reader
  /\ UNCHANGED <<doc, cache, up, events, dels, missed>>

Query(r) ==
  /\ reader[r].pc = "query"
  /\ \/ \E t \in Tenants :
          /\ Matches(reader[r].key, t)
          /\ reader' = [reader EXCEPT ![r] =
               [pc |-> "set", key |-> @.key, of |-> t, doc |-> doc[t], overtaken |-> FALSE]]
     \/ /\ \A t \in Tenants : ~Matches(reader[r].key, t)
        /\ reader' = [reader EXCEPT ![r] = Idle]
  /\ UNCHANGED <<doc, cache, lookups, up, events, dels, missed>>

(* Mutant of SetKey: without 'EX', cacheTtl. *)
SetWithoutTtl(r) ==
  /\ reader[r].pc = "set"
  /\ cache' = [cache EXCEPT ![reader[r].key] =
       [of |-> reader[r].of, doc |-> reader[r].doc, overtaken |-> reader[r].overtaken,
        ttl |-> FALSE]]
  /\ reader' = [reader EXCEPT ![r] = Idle]
  /\ UNCHANGED <<doc, lookups, up, events, dels, missed>>

SetKey(r) ==
  /\ reader[r].pc = "set"
  /\ \/ cache' = [cache EXCEPT ![reader[r].key] =
          [of |-> reader[r].of, doc |-> reader[r].doc, overtaken |-> reader[r].overtaken,
           ttl |-> TRUE]]
     \/ UNCHANGED cache                        \* 'Redis SET failed'
  /\ reader' = [reader EXCEPT ![r] = Idle]
  /\ UNCHANGED <<doc, lookups, up, events, dels, missed>>

Expire(k) ==
  /\ cache[k] # Empty /\ cache[k].ttl
  /\ cache' = [cache EXCEPT ![k] = Empty]
  /\ UNCHANGED <<doc, reader, lookups, up, events, dels, missed>>

-----------------------------------------------------------------------------
(* tenants *)

Free(t, d) ==
  \A u \in Tenants \ {t} :
    Exists(u) => doc[u].slug # d.slug /\ (doc[u].domain # d.domain \/ d.domain = NoDomain)

(* create: an insert is not an event the stream matches. *)
CreateTenant(t) ==
  /\ doc[t] = Unborn
  /\ \E d \in Doc :
       /\ d.live /\ d.rev = 0 /\ Free(t, d)
       /\ doc' = [doc EXCEPT ![t] = d]
  /\ UNCHANGED <<cache, reader, lookups, up, events, dels, missed>>

Announce(t, full) ==
  IF up THEN events' = Append(events, [of |-> t, full |-> full]) /\ UNCHANGED missed
        ELSE missed' = [missed EXCEPT ![t] = TRUE] /\ UNCHANGED events

(* An update, whose event has the document as it is when it is delivered,   *)
(* or a replacement, whose event carries the new document.                  *)
Edit(t) ==
  /\ Exists(t) /\ doc[t].rev < MaxRev
  /\ \E d \in Doc :
       /\ d.rev = doc[t].rev + 1 /\ Free(t, d)
       /\ doc' = [doc EXCEPT ![t] = d]
       /\ Announce(t, Lookup) \/ Announce(t, d)
  /\ UNCHANGED <<cache, reader, lookups, up, dels>>

HardDelete(t) ==
  /\ Exists(t)
  /\ doc' = [doc EXCEPT ![t] = Gone]
  /\ Announce(t, Gone)
  /\ UNCHANGED <<cache, reader, lookups, up, dels>>

-----------------------------------------------------------------------------
(* the change stream *)

(* Mutants of keysToDelete: the customDomain key is never pushed, or pushed *)
(* without asking whether there is one; invalidateCacheById for all events. *)
keysWithoutDomain(t, d) == KeysOf(t, d) \ ({"domain"} \X Domains)
keysAnyDomain(t, d) == KeysOf(t, d) \cup (IF d = Gone THEN {} ELSE {<<"domain", d.domain>>})
keysById(t, d) == {<<"id", t>>}

keysToDelete(t, d) == KeysOf(t, d)

(* handleChange: the DEL is sent and not waited for. *)
handleChange ==
  /\ up /\ events # <<>>
  /\ LET t == Head(events).of
         fullDocument == IF Head(events).full = Lookup THEN doc[t] ELSE Head(events).full
     IN  /\ dels' = Append(dels, [of |-> t, keys |-> keysToDelete(t, fullDocument)])
         /\ missed' = [missed EXCEPT ![t] = FALSE]
  /\ events' = Tail(events)
  /\ UNCHANGED <<doc, cache, reader, lookups, up>>

(* Lookups that have read MongoDB and not written Redis are overtaken. *)
Del ==
  /\ dels # <<>>
  /\ LET keys == Head(dels).keys IN
       /\ cache' = [k \in Key |-> IF k \in keys THEN Empty ELSE cache[k]]
       /\ reader' = [r \in Readers |->
            IF reader[r].pc = "set" /\ reader[r].key \in keys
              THEN [reader[r] EXCEPT !.overtaken = TRUE] ELSE reader[r]]
  /\ dels' = Tail(dels)
  /\ UNCHANGED <<doc, lookups, up, events, missed>>

(* 'Failed to invalidate Redis cache': logged, not repeated. *)
DelFails ==
  /\ "del" \in Failures /\ dels # <<>>
  /\ missed' = [missed EXCEPT ![Head(dels).of] = TRUE]
  /\ dels' = Tail(dels)
  /\ UNCHANGED <<doc, cache, reader, lookups, up, events>>

(* The stream ends with an error that the driver cannot resume from; a new  *)
(* watch() starts at the present.                                           *)
Drop ==
  /\ "drop" \in Failures /\ up
  /\ up' = FALSE
  /\ events' = <<>>
  /\ missed' = [t \in Tenants |-> missed[t] \/ \E i \in DOMAIN events : events[i].of = t]
  /\ UNCHANGED <<doc, cache, reader, lookups, dels>>

Reconnect ==
  /\ ~up
  /\ up' = TRUE
  /\ UNCHANGED <<doc, cache, reader, lookups, events, dels, missed>>

-----------------------------------------------------------------------------

FindWithCache(r) == (\E k \in Key : Get(r, k)) \/ Query(r) \/ SetKey(r)
TenantChange(t) == CreateTenant(t) \/ Edit(t) \/ HardDelete(t)
Stream == handleChange \/ Del \/ DelFails \/ Drop \/ Reconnect

Next ==
  \/ \E r \in Readers : FindWithCache(r)
  \/ \E k \in Key : Expire(k)
  \/ \E t \in Tenants : TenantChange(t)
  \/ Stream

Spec == Init /\ [][Next]_vars

(* A lookup goes on, the time of every key passes. *)
FairSpec ==
  /\ Spec
  /\ \A r \in Readers : WF_vars(Query(r)) /\ WF_vars(SetKey(r))
  /\ \A k \in Key : WF_vars(Expire(k))

-----------------------------------------------------------------------------

Stale(k) == cache[k] # Empty /\ doc[cache[k].of] # cache[k].doc

InvalidationPending(t) ==
  \/ \E i \in DOMAIN events : events[i].of = t
  \/ \E i \in DOMAIN dels : dels[i].of = t

(* A cached tenant differs from its document only while the invalidation is *)
(* under way, or for one of the known reasons: a slow lookup wrote it after *)
(* the DEL, the stream or a DEL failed, or the key is a name the tenant no  *)
(* longer has (or it was deleted and the key is not its id).                *)
StalenessExplained ==
  \A k \in Key : Stale(k) =>
    LET t == cache[k].of IN
      \/ InvalidationPending(t)
      \/ cache[k].overtaken
      \/ missed[t]
      \/ k \notin KeysOf(t, doc[t])

(* Whatever went wrong, the TTL ends it: in the end nothing stale is        *)
(* cached and nothing stale is written any more.                            *)
EventuallyFresh == <>[](\A k \in Key : ~Stale(k))

(* "ensures that cached tenant data never becomes stale" (tenant-cache-     *)
(* invalidation.service.ts line 27), read as: while no stream and no DEL    *)
(* fails, a stale entry is one whose invalidation is under way.             *)
NeverStale ==
  \A k \in Key : Stale(k) => InvalidationPending(cache[k].of)
=============================================================================
