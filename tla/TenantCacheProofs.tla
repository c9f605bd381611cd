------------------------- MODULE TenantCacheProofs --------------------------
(***************************************************************************)
(* Theorems about TenantCache, for any number of tenants, names, lookups,  *)
(* edits and failures.  StalenessExplained is not inductive: what is       *)
(* cached was in the hands of a lookup before (Explained is about both),   *)
(* and an event must not only be there but lead to a DEL of the right key  *)
(* (Telling: the last event of a tenant has its present document).         *)
(* And about ChangeStream, for any number of streams, changes and errors:   *)
(* it takes no step that ChangeFeed does not allow, never gives up before   *)
(* it is destroyed, and keeps one stream or timer more with every error.    *)
(* StreamInv is needed because what a stream has not delivered must be lost *)
(* with it: only open streams have a queue.  TimersInv counts streams and   *)
(* timers together.                                                         *)
(***************************************************************************)
EXTENDS TenantCache, ChangeStream, Sums, TLAPS

(* Copies of tenants, cached or about to be, ... *)
Copy == [key: Key, of: Tenants, doc: Doc]
CopyOf(k, e) == [key |-> k, of |-> e.of, doc |-> e.doc]

Announced(t) == \E i \in DOMAIN events : events[i].of = t
Sent(t, k) == \E i \in DOMAIN dels : dels[i].of = t /\ k \in dels[i].keys

(* ... and those that no DEL has overtaken and that are true or for a known *)
(* reason not.                                                              *)
Explained ==
  {c \in Copy :
     /\ doc[c.of] # Unborn
     /\ \/ doc[c.of] = c.doc
        \/ missed[c.of]
        \/ c.key \notin KeysOf(c.of, doc[c.of])
        \/ Announced(c.of) \/ Sent(c.of, c.key)}

(* The last event of a tenant will be handled with its present document;    *)
(* there are none without a stream.                                         *)
Telling ==
  /\ up \/ events = <<>>
  /\ \A i \in DOMAIN events :
       /\ doc[events[i].of] # Unborn
       /\ \/ events[i].full \in {Lookup, doc[events[i].of]}
          \/ \E j \in DOMAIN events : j > i /\ events[j].of = events[i].of

CopiesExplained ==
  /\ \A k \in Key : cache[k] # Empty => cache[k].overtaken \/ CopyOf(k, cache[k]) \in Explained
  /\ \A r \in Readers : reader[r].pc = "set" =>
       reader[r].overtaken \/ CopyOf(reader[r].key, reader[r]) \in Explained

CacheInv == TypeOK /\ Telling /\ CopiesExplained

-----------------------------------------------------------------------------
(* Queues.                                                                  *)

(* What Append does. *)
LEMMA Joins ==
  ASSUME NEW S, NEW q \in Seq(S), NEW e \in S
  PROVE  /\ Append(q, e) \in Seq(S)
         /\ DOMAIN Append(q, e) = DOMAIN q \cup {Len(q) + 1}
         /\ \A i \in DOMAIN q : i \in Nat /\ i < Len(q) + 1 /\ Append(q, e)[i] = q[i]
         /\ Append(q, e)[Len(q) + 1] = e
OBVIOUS

(* What Tail and Head do. *)
LEMMA Leaves ==
  ASSUME NEW S, NEW q \in Seq(S), q # <<>>
  PROVE  /\ Tail(q) \in Seq(S) /\ Head(q) \in S
         /\ 1 \in DOMAIN q /\ Head(q) = q[1]
         /\ \A i \in DOMAIN Tail(q) : i \in Nat /\ i + 1 \in DOMAIN q /\ Tail(q)[i] = q[i + 1]
         /\ \A i \in DOMAIN q : i \in Nat /\ (i = 1 \/ (i - 1 \in DOMAIN Tail(q) /\ Tail(q)[i - 1] = q[i]))
<1>1. /\ Tail(q) \in Seq(S) /\ Len(Tail(q)) = Len(q) - 1 /\ Len(q) \in Nat \ {0}
      /\ Head(q) = q[1] /\ \A i \in 1..Len(q) - 1 : Tail(q)[i] = q[i + 1]
  OBVIOUS
<1>2. /\ DOMAIN q = 1..Len(q) /\ DOMAIN Tail(q) = 1..(Len(q) - 1) /\ q[1] \in S
  BY <1>1
<1> QED BY <1>1, <1>2

-----------------------------------------------------------------------------
(* Types.                                                                   *)

Cached == [of: Tenants, doc: Doc, overtaken: BOOLEAN, ttl: BOOLEAN]
Querying == [pc: {"query"}, key: Key]
Setting == [pc: {"set"}, key: Key, of: Tenants, doc: Doc, overtaken: BOOLEAN]
Event == [of: Tenants, full: Doc \cup {Gone, Lookup}]
Deletion == [of: Tenants, keys: SUBSET Key]

(* The keys of a document are keys. *)
LEMMA KeysAreKeys ==
  ASSUME NEW t \in Tenants, NEW d \in Doc \cup {Gone}
  PROVE  KeysOf(t, d) \in SUBSET Key
<1>1. <<"id", t>> \in Key
  BY DEF Key
<1>2. ASSUME d \in Doc PROVE <<"slug", d.slug>> \in Key
  BY <1>2 DEF Key, Doc
<1>3. ASSUME d \in Doc, d.domain # NoDomain PROVE <<"domain", d.domain>> \in Key
  BY <1>3 DEF Key, Doc
<1> QED BY <1>1, <1>2, <1>3 DEF KeysOf

(* TypeOK by its parts, and where a lookup is. *)
LEMMA Types ==
  ASSUME TypeOK
  PROVE  /\ doc \in [Tenants -> Doc \cup {Unborn, Gone}]
         /\ cache \in [Key -> Cached \cup {Empty}]
         /\ reader \in [Readers -> {Idle} \cup Querying \cup Setting]
         /\ events \in Seq(Event) /\ dels \in Seq(Deletion)
         /\ missed \in [Tenants -> BOOLEAN]
         /\ \A i \in DOMAIN events : events[i] \in Event /\ events[i].of \in Tenants
         /\ \A k \in Key : cache[k] # Empty => cache[k] \in Cached
         /\ \A r \in Readers : /\ reader[r].pc = "query" => reader[r] \in Querying
                               /\ reader[r].pc = "set" => reader[r] \in Setting
<1>1. /\ doc \in [Tenants -> Doc \cup {Unborn, Gone}]
      /\ cache \in [Key -> Cached \cup {Empty}]
      /\ reader \in [Readers -> {Idle} \cup Querying \cup Setting]
      /\ events \in Seq(Event) /\ dels \in Seq(Deletion)
      /\ missed \in [Tenants -> BOOLEAN]
  BY DEF TypeOK, Cached, Querying, Setting, Event, Deletion
<1>2. \A x \in {Idle} \cup Querying \cup Setting :
        /\ x.pc = "query" => x \in Querying
        /\ x.pc = "set" => x \in Setting
  BY DEF Idle, Querying, Setting
<1>3. \A i \in DOMAIN events : events[i] \in Event
  BY <1>1
<1>4. \A e \in Event : e.of \in Tenants
  BY DEF Event
<1> QED BY <1>1, <1>2, <1>3, <1>4

(* An announcement is an event more, or a miss. *)
LEMMA AnnounceTypes ==
  ASSUME TypeOK, NEW t \in Tenants, NEW full \in Doc \cup {Gone, Lookup}, Announce(t, full)
  PROVE  events' \in Seq(Event) /\ missed' \in [Tenants -> BOOLEAN]
<1>1. [of |-> t, full |-> full] \in Event
  BY DEF Event
<1>2. events \in Seq(Event) /\ missed \in [Tenants -> BOOLEAN]
  BY Types
<1>3. CASE up
  BY <1>1, <1>2, <1>3, Joins DEF Announce
<1>4. CASE ~up
  BY <1>2, <1>4 DEF Announce
<1> QED BY <1>3, <1>4

(* Every step keeps the types. *)
LEMMA TypeStep ==
  ASSUME TypeOK, Telling, [Next]_vars
  PROVE  TypeOK'
<1> DEFINE DocT == doc' \in [Tenants -> Doc \cup {Unborn, Gone}]
           CacheT == cache' \in [Key -> Cached \cup {Empty}]
           ReaderT == reader' \in [Readers -> {Idle} \cup Querying \cup Setting]
           LookupsT == lookups' \in [Readers -> 0..MaxLookups]
           QueuesT == events' \in Seq(Event) /\ dels' \in Seq(Deletion)
           RestT == up' \in BOOLEAN /\ missed' \in [Tenants -> BOOLEAN]
<1>1. DocT /\ CacheT /\ ReaderT /\ LookupsT /\ QueuesT /\ RestT => TypeOK'
  BY DEF TypeOK, Cached, Querying, Setting, Event, Deletion
<1> HIDE DEF DocT, CacheT, ReaderT, LookupsT, QueuesT, RestT
<1>2. ASSUME UNCHANGED doc PROVE DocT
  BY <1>2, Types DEF DocT
<1>3. ASSUME UNCHANGED cache PROVE CacheT
  BY <1>3, Types DEF CacheT
<1>4. ASSUME UNCHANGED reader PROVE ReaderT
  BY <1>4, Types DEF ReaderT
<1>5. ASSUME UNCHANGED lookups PROVE LookupsT
  BY <1>5 DEF TypeOK, LookupsT
<1>6. ASSUME UNCHANGED <<events, dels>> PROVE QueuesT
  BY <1>6, Types DEF QueuesT
<1>7. ASSUME UNCHANGED <<up, missed>> PROVE RestT
  BY <1>7, Types DEF TypeOK, RestT
<1>8. ASSUME NEW r \in Readers, NEW k \in Key, Get(r, k) PROVE TypeOK'
  <2>1. LookupsT
    BY <1>8, TenantCacheAssumption DEF Get, TypeOK, LookupsT
  <2>2. [pc |-> "query", key |-> k] \in Querying
    BY DEF Querying
  <2>3. ReaderT
    BY <1>8, <2>2, Types DEF Get, ReaderT
  <2> QED BY <1>1, <1>2, <1>3, <1>6, <1>7, <1>8, <2>1, <2>3 DEF Get
<1>9. ASSUME NEW r \in Readers, Query(r) PROVE TypeOK'
  <2>1. reader[r] \in Querying /\ reader[r].key \in Key
    BY <1>9, Types DEF Query, Querying
  <2>2. ASSUME NEW t \in Tenants, Exists(t)
        PROVE  [pc |-> "set", key |-> reader[r].key, of |-> t, doc |-> doc[t], overtaken |-> FALSE] \in Setting
    BY <2>1, <2>2, Types DEF Exists, Setting
  <2>3. ReaderT
    BY <1>9, <2>2, Types DEF Query, Matches, ReaderT
  <2> QED BY <1>1, <1>2, <1>3, <1>5, <1>6, <1>7, <1>9, <2>3 DEF Query
<1>10. ASSUME NEW r \in Readers, SetKey(r) PROVE TypeOK'
  <2>1. reader[r] \in Setting
    BY <1>10, Types DEF SetKey
  <2>2. /\ reader[r].key \in Key
        /\ [of |-> reader[r].of, doc |-> reader[r].doc, overtaken |-> reader[r].overtaken, ttl |-> TRUE] \in Cached
    BY <2>1 DEF Setting, Cached
  <2>3. CacheT /\ ReaderT
    BY <1>10, <2>2, Types DEF SetKey, CacheT, ReaderT
  <2> QED BY <1>1, <1>2, <1>5, <1>6, <1>7, <1>10, <2>3 DEF SetKey
<1>11. ASSUME NEW k \in Key, Expire(k) PROVE TypeOK'
  <2>1. CacheT
    BY <1>11, Types DEF Expire, CacheT
  <2> QED BY <1>1, <1>2, <1>4, <1>5, <1>6, <1>7, <1>11, <2>1 DEF Expire
<1>12. ASSUME NEW t \in Tenants, CreateTenant(t) PROVE TypeOK'
  <2>1. DocT
    BY <1>12, Types DEF CreateTenant, DocT
  <2> QED BY <1>1, <1>3, <1>4, <1>5, <1>6, <1>7, <1>12, <2>1 DEF CreateTenant
<1>13. ASSUME NEW t \in Tenants, Edit(t) \/ HardDelete(t) PROVE TypeOK'
  <2>1. DocT
    BY <1>13, Types DEF Edit, HardDelete, DocT
  <2>2. events' \in Seq(Event) /\ missed' \in [Tenants -> BOOLEAN]
    BY <1>13, AnnounceTypes DEF Edit, HardDelete
  <2>3. dels' = dels /\ up' = up
    BY <1>13 DEF Edit, HardDelete
  <2>4. QueuesT /\ RestT
    BY <2>2, <2>3, Types DEF QueuesT, RestT, TypeOK
  <2> QED BY <1>1, <1>3, <1>4, <1>5, <1>13, <2>1, <2>4 DEF Edit, HardDelete
<1>14. CASE handleChange
  <2> DEFINE t == Head(events).of
             full == IF Head(events).full = Lookup THEN doc[t] ELSE Head(events).full
  <2>1. events # <<>> /\ events \in Seq(Event)
    BY <1>14, Types DEF handleChange
  <2>2. Tail(events) \in Seq(Event) /\ Head(events) \in Event /\ 1 \in DOMAIN events /\ Head(events) = events[1]
    BY <2>1, Leaves
  <2>3. t \in Tenants /\ Head(events).full \in Doc \cup {Gone, Lookup} /\ doc[t] # Unborn
    BY <2>2 DEF Event, Telling
  <2>4. full \in Doc \cup {Gone}
    BY <2>3, Types
  <2>5. [of |-> t, keys |-> keysToDelete(t, full)] \in Deletion
    BY <2>3, <2>4, KeysAreKeys DEF Deletion, keysToDelete
  <2>6. dels' = Append(dels, [of |-> t, keys |-> keysToDelete(t, full)])
        /\ missed' = [missed EXCEPT ![t] = FALSE] /\ events' = Tail(events) /\ up' = up
    BY <1>14 DEF handleChange
  <2> HIDE DEF t, full
  <2>7. dels' \in Seq(Deletion)
    BY <2>5, <2>6, Types, Joins
  <2>8. QueuesT /\ RestT
    BY <2>2, <2>6, <2>7, Types DEF QueuesT, RestT, TypeOK
  <2> QED BY <1>1, <1>2, <1>3, <1>4, <1>5, <1>14, <2>8 DEF handleChange
<1>15. CASE Del \/ DelFails
  <2>1. dels # <<>> /\ dels \in Seq(Deletion) /\ dels' = Tail(dels) /\ events' = events /\ up' = up
    BY <1>15, Types DEF Del, DelFails
  <2>2. dels' \in Seq(Deletion) /\ Head(dels) \in Deletion
    BY <2>1, Leaves
  <2>3. \A x \in Setting : [x EXCEPT !.overtaken = TRUE] \in Setting
    BY DEF Setting
  <2>4. CacheT
    BY <1>15, Types DEF Del, DelFails, CacheT
  <2>5. ReaderT
    BY <1>15, <2>3, Types DEF Del, DelFails, ReaderT
  <2>6. RestT
    BY <1>15, <2>1, Types DEF Del, DelFails, RestT, TypeOK
  <2>7. QueuesT
    BY <2>1, <2>2, Types DEF QueuesT
  <2> QED BY <1>1, <1>2, <1>5, <1>15, <2>4, <2>5, <2>6, <2>7 DEF Del, DelFails
<1>16. CASE Drop \/ Reconnect
  <2>1. QueuesT
    <3>1. <<>> \in Seq(Event)
      OBVIOUS
    <3> QED BY <1>16, <3>1, Types DEF Drop, Reconnect, QueuesT
  <2>2. RestT
    BY <1>16, Types DEF Drop, Reconnect, RestT
  <2> QED BY <1>1, <1>2, <1>3, <1>4, <1>5, <1>16, <2>1, <2>2 DEF Drop, Reconnect
<1>17. CASE UNCHANGED vars
  BY <1>1, <1>2, <1>3, <1>4, <1>5, <1>6, <1>7, <1>17 DEF vars
<1> QED BY <1>8, <1>9, <1>10, <1>11, <1>12, <1>13, <1>14, <1>15, <1>16, <1>17
        DEF Next, FindWithCache, TenantChange, Stream

-----------------------------------------------------------------------------
(* What is announced.                                                       *)

(* An edit or deletion of t, by what becomes of its document. *)
LEMMA ChangeEffect ==
  ASSUME TypeOK, NEW t \in Tenants, Edit(t) \/ HardDelete(t)
  PROVE  \E d \in Doc \cup {Gone}, full \in Doc \cup {Gone, Lookup} :
           /\ d # Unborn /\ full \in {Lookup, d}
           /\ doc' = [doc EXCEPT ![t] = d] /\ Announce(t, full)
           /\ UNCHANGED <<cache, reader, lookups, up, dels>>
<1>1. Gone # Unborn /\ \A d \in Doc : d # Unborn
  BY TenantCacheAssumption
<1>2. CASE Edit(t)
  BY <1>1, <1>2 DEF Edit
<1>3. CASE HardDelete(t)
  BY <1>1, <1>3 DEF HardDelete
<1> QED BY <1>2, <1>3

(* A new event is told after those before it; a change without a stream     *)
(* meets no event that could be false.                                      *)
LEMMA TellingStep ==
  ASSUME TypeOK, Telling, [Next]_vars
  PROVE  Telling'
<1>0. events \in Seq(Event) /\ doc \in [Tenants -> Doc \cup {Unborn, Gone}]
      /\ \A i \in DOMAIN events : events[i] \in Event /\ events[i].of \in Tenants
  BY Types
<1>1. ASSUME UNCHANGED <<events, up, doc>> PROVE Telling'
  BY <1>1 DEF Telling
<1>2. ASSUME NEW t \in Tenants, CreateTenant(t) PROVE Telling'
  <2>1. \A u \in Tenants : doc[u] # Unborn => doc'[u] = doc[u]
    BY <1>0, <1>2 DEF CreateTenant
  <2>2. up' = up /\ events' = events
    BY <1>2 DEF CreateTenant
  <2>3. \A i \in DOMAIN events : doc'[events[i].of] = doc[events[i].of]
    BY <1>0, <2>1 DEF Telling
  <2> QED BY <2>2, <2>3 DEF Telling
<1>3. ASSUME NEW t \in Tenants, Edit(t) \/ HardDelete(t) PROVE Telling'
  <2>1. PICK d \in Doc \cup {Gone}, full \in Doc \cup {Gone, Lookup} :
           /\ d # Unborn /\ full \in {Lookup, d}
           /\ doc' = [doc EXCEPT ![t] = d] /\ Announce(t, full)
           /\ UNCHANGED <<cache, reader, lookups, up, dels>>
    BY <1>3, ChangeEffect
  <2>2. CASE ~up
    BY <2>1, <2>2 DEF Announce, Telling
  <2>3. CASE up
    <3> DEFINE e == [of |-> t, full |-> full]
               n == Len(events) + 1
    <3>1. events' = Append(events, e) /\ e \in Event
      BY <2>1, <2>3 DEF Announce, Event
    <3>2. /\ DOMAIN events' = DOMAIN events \cup {n} /\ events'[n] = e
          /\ \A i \in DOMAIN events : i \in Nat /\ i < n /\ events'[i] = events[i]
      BY <1>0, <3>1, Joins
    <3>3. e.of = t /\ e.full = full /\ doc'[t] = d
      BY <1>0, <2>1
    <3> HIDE DEF e, n
    <3>4. doc'[events'[n].of] # Unborn /\ events'[n].full \in {Lookup, doc'[events'[n].of]}
      BY <2>1, <3>2, <3>3
    <3>5. ASSUME NEW i \in DOMAIN events
          PROVE  /\ doc'[events'[i].of] # Unborn
                 /\ \/ events'[i].full \in {Lookup, doc'[events'[i].of]}
                    \/ \E j \in DOMAIN events' : j > i /\ events'[j].of = events'[i].of
      <4>1. CASE events[i].of = t
        <5>1. n \in DOMAIN events' /\ n > i /\ events'[n].of = events'[i].of
          BY <3>2, <3>3, <4>1
        <5>2. doc'[events'[i].of] # Unborn
          BY <2>1, <3>2, <3>3, <4>1
        <5> QED BY <5>1, <5>2
      <4>2. CASE events[i].of # t
        <5>1. doc'[events'[i].of] = doc[events[i].of]
          BY <1>0, <2>1, <3>2, <4>2
        <5>2. \A j \in DOMAIN events : j \in DOMAIN events' /\ events'[j] = events[j]
          BY <3>2
        <5> QED BY <5>1, <5>2 DEF Telling
      <4> QED BY <4>1, <4>2
    <3>6. up'
      BY <2>1, <2>3
    <3> QED BY <3>2, <3>4, <3>5, <3>6 DEF Telling
  <2> QED BY <2>2, <2>3
<1>4. CASE handleChange
  <2>1. events # <<>> /\ events' = Tail(events) /\ up' /\ UNCHANGED doc
    BY <1>4 DEF handleChange
  <2>2. /\ \A i \in DOMAIN events' : i \in Nat /\ i + 1 \in DOMAIN events /\ events'[i] = events[i + 1]
        /\ \A i \in DOMAIN events : i \in Nat /\ (i = 1 \/ (i - 1 \in DOMAIN events' /\ events'[i - 1] = events[i]))
    BY <1>0, <2>1, Leaves
  <2>3. ASSUME NEW i \in DOMAIN events', NEW j \in DOMAIN events, j > i + 1
        PROVE  j - 1 \in DOMAIN events' /\ j - 1 > i /\ events'[j - 1] = events[j]
    BY <2>2, <2>3
  <2>4. ASSUME NEW i \in DOMAIN events'
        PROVE  /\ doc'[events'[i].of] # Unborn
               /\ \/ events'[i].full \in {Lookup, doc'[events'[i].of]}
                  \/ \E j \in DOMAIN events' : j > i /\ events'[j].of = events'[i].of
    <3>1. i + 1 \in DOMAIN events /\ events'[i] = events[i + 1] /\ doc' = doc
      BY <2>1, <2>2
    <3>2. CASE events[i + 1].full \in {Lookup, doc[events[i + 1].of]}
      BY <3>1, <3>2 DEF Telling
    <3>3. CASE \E j \in DOMAIN events : j > i + 1 /\ events[j].of = events[i + 1].of
      <4>1. PICK j \in DOMAIN events : j > i + 1 /\ events[j].of = events[i + 1].of
        BY <3>3
      <4> QED BY <2>3, <3>1, <4>1 DEF Telling
    <3> QED BY <3>1, <3>2, <3>3 DEF Telling
  <2> QED BY <2>1, <2>4 DEF Telling
<1>5. CASE Drop \/ Reconnect
  <2>1. events' = <<>> /\ DOMAIN events' = {}
    BY <1>5 DEF Drop, Reconnect, Telling
  <2> QED BY <2>1 DEF Telling
<1>6. CASE Del \/ DelFails \/ UNCHANGED vars
  BY <1>1, <1>6 DEF Del, DelFails, vars
<1>7. ASSUME NEW r \in Readers, FindWithCache(r) PROVE Telling'
  BY <1>1, <1>7 DEF FindWithCache, Get, Query, SetKey
<1>8. ASSUME NEW k \in Key, Expire(k) PROVE Telling'
  BY <1>1, <1>8 DEF Expire
<1> QED BY <1>2, <1>3, <1>4, <1>5, <1>6, <1>7, <1>8 DEF Next, TenantChange, Stream

-----------------------------------------------------------------------------
(* Explained.                                                               *)

(* What is explained stays so, until a DEL removes it.                      *)
LEMMA ExplainedStep ==
  ASSUME TypeOK, Telling, [Next]_vars, NEW c \in Explained
  PROVE  c \in Explained' \/ (Del /\ c.key \in Head(dels).keys)
<1>0. /\ events \in Seq(Event) /\ dels \in Seq(Deletion)
      /\ doc \in [Tenants -> Doc \cup {Unborn, Gone}] /\ missed \in [Tenants -> BOOLEAN]
      /\ c \in Copy /\ c.of \in Tenants /\ c.key \in Key /\ doc[c.of] # Unborn
      /\ \/ doc[c.of] = c.doc \/ missed[c.of]
         \/ c.key \notin KeysOf(c.of, doc[c.of])
         \/ Announced(c.of) \/ Sent(c.of, c.key)
  BY Types DEF Explained, Copy
<1>1. ASSUME doc'[c.of] # Unborn,
             \/ doc'[c.of] = c.doc \/ missed'[c.of]
             \/ c.key \notin KeysOf(c.of, doc'[c.of])
             \/ Announced(c.of)' \/ Sent(c.of, c.key)'
      PROVE  c \in Explained'
  BY <1>0, <1>1 DEF Explained
<1>2. ASSUME UNCHANGED <<doc, events, dels, missed>> PROVE c \in Explained'
  BY <1>0, <1>1, <1>2 DEF Announced, Sent
<1>3. ASSUME NEW t \in Tenants, CreateTenant(t) PROVE c \in Explained'
  <2>1. doc'[c.of] = doc[c.of]
    BY <1>0, <1>3 DEF CreateTenant
  <2>2. UNCHANGED <<events, dels, missed>>
    BY <1>3 DEF CreateTenant
  <2> QED BY <1>0, <1>1, <2>1, <2>2 DEF Announced, Sent
<1>4. ASSUME NEW t \in Tenants, Edit(t) \/ HardDelete(t) PROVE c \in Explained'
  <2>1. PICK d \in Doc \cup {Gone}, full \in Doc \cup {Gone, Lookup} :
           /\ d # Unborn /\ full \in {Lookup, d}
           /\ doc' = [doc EXCEPT ![t] = d] /\ Announce(t, full)
           /\ UNCHANGED <<cache, reader, lookups, up, dels>>
    BY <1>4, ChangeEffect
  <2>2. Sent(c.of, c.key) => Sent(c.of, c.key)'
    BY <2>1 DEF Sent
  <2>3. CASE up
    <3> DEFINE e == [of |-> t, full |-> full]
               n == Len(events) + 1
    <3>1. events' = Append(events, e) /\ e \in Event /\ UNCHANGED missed
      BY <2>1, <2>3 DEF Announce, Event
    <3>2. /\ DOMAIN events' = DOMAIN events \cup {n} /\ events'[n] = e
          /\ \A i \in DOMAIN events : events'[i] = events[i]
      BY <1>0, <3>1, Joins
    <3>3. e.of = t
      OBVIOUS
    <3> HIDE DEF e, n
    <3>4. Announced(t)' /\ (Announced(c.of) => Announced(c.of)')
      BY <3>2, <3>3 DEF Announced
    <3>5. CASE c.of = t
      BY <1>0, <1>1, <2>1, <3>4, <3>5
    <3>6. CASE c.of # t
      <4>1. doc'[c.of] = doc[c.of]
        BY <1>0, <2>1, <3>6
      <4> QED BY <1>0, <1>1, <2>2, <3>1, <3>4, <4>1
    <3> QED BY <3>5, <3>6
  <2>4. CASE ~up
    <3>1. missed' = [missed EXCEPT ![t] = TRUE] /\ UNCHANGED events
      BY <2>1, <2>4 DEF Announce
    <3>2. CASE c.of = t
      BY <1>0, <1>1, <2>1, <3>1, <3>2
    <3>3. CASE c.of # t
      <4>1. doc'[c.of] = doc[c.of] /\ missed'[c.of] = missed[c.of]
        BY <1>0, <2>1, <3>1, <3>3
      <4>2. Announced(c.of)' = Announced(c.of)
        BY <3>1 DEF Announced
      <4> QED BY <1>0, <1>1, <2>2, <4>1, <4>2
    <3> QED BY <3>2, <3>3
  <2> QED BY <2>3, <2>4
<1>5. CASE handleChange
  <2>0. PICK t \in Tenants : t = events[1].of /\ events[1] \in Event
    <3>1. 1 \in DOMAIN events
      BY <1>0, <1>5, Leaves DEF handleChange
    <3> QED BY <3>1, Types
  <2> DEFINE full == IF events[1].full = Lookup THEN doc[t] ELSE events[1].full
             e == [of |-> t, keys |-> keysToDelete(t, full)]
             n == Len(dels) + 1
  <2>1. /\ events # <<>> /\ events' = Tail(events) /\ UNCHANGED doc
        /\ 1 \in DOMAIN events /\ Head(events) = events[1]
        /\ \A i \in DOMAIN events : i = 1 \/ (i - 1 \in DOMAIN events' /\ events'[i - 1] = events[i])
    BY <1>0, <1>5, Leaves DEF handleChange
  <2>2. events[1].full \in Doc \cup {Gone, Lookup} /\ doc[t] # Unborn
    BY <2>0, <2>1 DEF Event, Telling
  <2>3. full \in Doc \cup {Gone}
    BY <1>0, <2>2
  <2>4. e \in Deletion
    BY <2>3, KeysAreKeys DEF Deletion, keysToDelete
  <2>5. dels' = Append(dels, e) /\ missed' = [missed EXCEPT ![t] = FALSE]
    BY <1>5, <2>0, <2>1 DEF handleChange
  <2>6. e.of = t /\ e.keys = KeysOf(t, full)
    BY DEF keysToDelete
  <2>7. events[1].full \in {Lookup, doc[t]} => full = doc[t]
    OBVIOUS
  <2>8. /\ DOMAIN dels' = DOMAIN dels \cup {n} /\ dels'[n] = e
        /\ \A i \in DOMAIN dels : dels'[i] = dels[i]
    BY <1>0, <2>4, <2>5, Joins
  <2> HIDE DEF full, e, n
  <2>9. Sent(c.of, c.key) => Sent(c.of, c.key)'
    BY <2>8 DEF Sent
  <2>10. CASE c.of # t
    <3>1. missed'[c.of] = missed[c.of]
      BY <1>0, <2>5, <2>10
    <3>2. Announced(c.of) => Announced(c.of)'
      BY <2>0, <2>1, <2>10 DEF Announced
    <3> QED BY <1>0, <1>1, <2>1, <2>9, <3>1, <3>2
  <2>11. CASE c.of = t
    <3>1. CASE \E j \in DOMAIN events : j > 1 /\ events[j].of = t
      <4>1. Announced(t)'
        <5>1. PICK j \in DOMAIN events : j > 1 /\ events[j].of = t
          BY <3>1
        <5>2. j \in Nat /\ j # 1
          BY <1>0, <5>1
        <5>3. j - 1 \in DOMAIN events' /\ events'[j - 1] = events[j]
          BY <2>1, <5>2
        <5> QED BY <5>1, <5>3 DEF Announced
      <4> QED BY <1>0, <1>1, <2>1, <2>11, <4>1
    <3>2. CASE full = doc[t]
      <4>1. c.key \in KeysOf(t, doc[t]) => Sent(t, c.key)'
        BY <2>6, <2>8, <3>2 DEF Sent
      <4> QED BY <1>0, <1>1, <2>1, <2>11, <4>1
    <3>3. /\ 1 \in DOMAIN events
          /\ events[1].full \in {Lookup, doc[t]} \/ \E j \in DOMAIN events : j > 1 /\ events[j].of = t
      BY <2>0, <2>1 DEF Telling
    <3> QED BY <2>7, <3>1, <3>2, <3>3
  <2> QED BY <2>10, <2>11
<1>6. CASE Del \/ DelFails
  <2>1. /\ dels # <<>> /\ dels' = Tail(dels) /\ UNCHANGED <<doc, events>>
        /\ 1 \in DOMAIN dels /\ Head(dels) = dels[1]
        /\ \A i \in DOMAIN dels : i = 1 \/ (i - 1 \in DOMAIN dels' /\ dels'[i - 1] = dels[i])
    BY <1>0, <1>6, Leaves DEF Del, DelFails
  <2>2. Sent(c.of, c.key) => Sent(c.of, c.key)' \/ (c.of = dels[1].of /\ c.key \in dels[1].keys)
    BY <2>1 DEF Sent
  <2>3. Announced(c.of)' = Announced(c.of)
    BY <2>1 DEF Announced
  <2>4. CASE Del
    <3>1. UNCHANGED missed
      BY <2>4 DEF Del
    <3> QED BY <1>0, <1>1, <2>1, <2>2, <2>3, <2>4, <3>1
  <2>5. CASE DelFails
    <3>1. missed[c.of] \/ c.of = dels[1].of => missed'[c.of]
      BY <1>0, <2>1, <2>5 DEF DelFails
    <3> QED BY <1>0, <1>1, <2>1, <2>2, <2>3, <3>1
  <2> QED BY <1>6, <2>4, <2>5
<1>7. CASE Drop
  <2>1. missed'[c.of] = (missed[c.of] \/ Announced(c.of)) /\ UNCHANGED <<doc, dels>>
    BY <1>0, <1>7 DEF Drop, Announced
  <2>2. Sent(c.of, c.key)' = Sent(c.of, c.key)
    BY <2>1 DEF Sent
  <2> QED BY <1>0, <1>1, <2>1, <2>2
<1>8. CASE Reconnect \/ UNCHANGED vars
  BY <1>2, <1>8 DEF Reconnect, vars
<1>9. ASSUME NEW r \in Readers, FindWithCache(r) PROVE c \in Explained'
  BY <1>2, <1>9 DEF FindWithCache, Get, Query, SetKey
<1>10. ASSUME NEW k \in Key, Expire(k) PROVE c \in Explained'
  BY <1>2, <1>10 DEF Expire
<1> QED BY <1>3, <1>4, <1>5, <1>6, <1>7, <1>8, <1>9, <1>10 DEF Next, TenantChange, Stream

-----------------------------------------------------------------------------
(* Copies pass from lookups to the cache, and a DEL takes or marks those    *)
(* whose key it names.                                                      *)
LEMMA CopiesStep ==
  ASSUME CacheInv, [Next]_vars
  PROVE  CopiesExplained'
<1>0. TypeOK /\ Telling /\ CopiesExplained
  BY DEF CacheInv
<1> DEFINE CachedFine == \A k \in Key : cache'[k] # Empty =>
                           cache'[k].overtaken \/ CopyOf(k, cache'[k]) \in Explained'
           HeldFine == \A r \in Readers : reader'[r].pc = "set" =>
                         reader'[r].overtaken \/ CopyOf(reader'[r].key, reader'[r]) \in Explained'
<1>1. CachedFine /\ HeldFine => CopiesExplained'
  BY DEF CopiesExplained, CopyOf
<1> HIDE DEF CachedFine, HeldFine
<1>2. \A c \in Explained : c \in Explained' \/ (Del /\ c.key \in Head(dels).keys)
  BY <1>0, ExplainedStep
<1>3. ASSUME ~Del, UNCHANGED cache PROVE CachedFine
  BY <1>0, <1>2, <1>3 DEF CachedFine, CopiesExplained
<1>4. ASSUME ~Del, UNCHANGED reader PROVE HeldFine
  BY <1>0, <1>2, <1>4 DEF HeldFine, CopiesExplained
<1>5. CASE Del
  <2> DEFINE keys == Head(dels).keys
  <2>1. /\ cache' = [k \in Key |-> IF k \in keys THEN Empty ELSE cache[k]]
        /\ reader' = [r \in Readers |->
             IF reader[r].pc = "set" /\ reader[r].key \in keys
               THEN [reader[r] EXCEPT !.overtaken = TRUE] ELSE reader[r]]
    BY <1>5 DEF Del
  <2>2. \A k, e : CopyOf(k, e) \in Explained /\ k \notin keys => CopyOf(k, e) \in Explained'
    BY <1>2 DEF CopyOf
  <2> HIDE DEF keys
  <2>3. CachedFine
    BY <1>0, <2>1, <2>2 DEF CachedFine, CopiesExplained
  <2>4. \A x \in Setting : [x EXCEPT !.overtaken = TRUE].overtaken
    BY DEF Setting
  <2>5. \A r \in Readers : reader[r].pc = "set" => reader[r] \in Setting
    BY <1>0, Types
  <2>6. HeldFine
    <3> SUFFICES ASSUME NEW r \in Readers, reader'[r].pc = "set"
                 PROVE  reader'[r].overtaken \/ CopyOf(reader'[r].key, reader'[r]) \in Explained'
      BY DEF HeldFine
    <3>1. CASE reader[r].pc = "set" /\ reader[r].key \in keys
      BY <2>1, <2>4, <2>5, <3>1
    <3>2. CASE ~(reader[r].pc = "set" /\ reader[r].key \in keys)
      <4>1. reader'[r] = reader[r]
        BY <2>1, <3>2
      <4> QED BY <1>0, <2>2, <3>2, <4>1 DEF CopiesExplained
    <3> QED BY <3>1, <3>2
  <2> QED BY <1>1, <2>3, <2>6
<1>6. ASSUME ~Del, NEW r \in Readers, NEW k \in Key, Get(r, k) PROVE CopiesExplained'
  <2>1. HeldFine
    <3> SUFFICES ASSUME NEW s \in Readers, reader'[s].pc = "set"
                 PROVE  reader'[s] = reader[s]
      BY <1>0, <1>2, <1>6 DEF HeldFine, CopiesExplained
    <3> QED BY <1>0, <1>6, Types DEF Get
  <2> QED BY <1>1, <1>3, <1>6, <2>1 DEF Get
<1>7. ASSUME ~Del, NEW r \in Readers, Query(r) PROVE CopiesExplained'
  <2>1. reader[r].key \in Key /\ UNCHANGED <<doc, cache, events, dels, missed>>
    BY <1>0, <1>7, Types DEF Query, Querying
  <2>2. ASSUME NEW t \in Tenants, Exists(t),
               reader' = [reader EXCEPT ![r] =
                 [pc |-> "set", key |-> @.key, of |-> t, doc |-> doc[t], overtaken |-> FALSE]]
        PROVE  HeldFine
    <3>1. CopyOf(reader'[r].key, reader'[r]) = [key |-> reader[r].key, of |-> t, doc |-> doc[t]]
      BY <1>0, <2>2, Types DEF CopyOf
    <3>2. doc[t] \in Doc /\ doc[t] # Unborn /\ doc' = doc
      BY <1>0, <2>1, <2>2, Types DEF Exists
    <3>3. [key |-> reader[r].key, of |-> t, doc |-> doc[t]] \in Explained'
      BY <2>1, <3>2 DEF Explained, Copy
    <3>4. \A s \in Readers : s # r => reader'[s] = reader[s]
      BY <1>0, <2>2, Types
    <3> QED BY <1>0, <1>2, <1>7, <3>1, <3>3, <3>4 DEF HeldFine, CopiesExplained
  <2>3. ASSUME reader' = [reader EXCEPT ![r] = Idle] PROVE HeldFine
    <3> SUFFICES ASSUME NEW s \in Readers, reader'[s].pc = "set"
                 PROVE  reader'[s] = reader[s]
      BY <1>0, <1>2, <1>7 DEF HeldFine, CopiesExplained
    <3> QED BY <1>0, <2>3, Types DEF Idle
  <2>4. HeldFine
    BY <1>7, <2>2, <2>3 DEF Query, Matches
  <2> QED BY <1>1, <1>3, <1>7, <2>1, <2>4
<1>8. ASSUME ~Del, NEW r \in Readers, SetKey(r) PROVE CopiesExplained'
  <2>1. reader[r] \in Setting /\ reader[r].pc = "set" /\ reader' = [reader EXCEPT ![r] = Idle]
    BY <1>0, <1>8, Types DEF SetKey
  <2>2. HeldFine
    <3> SUFFICES ASSUME NEW s \in Readers, reader'[s].pc = "set"
                 PROVE  reader'[s] = reader[s]
      BY <1>0, <1>2, <1>8 DEF HeldFine, CopiesExplained
    <3> QED BY <1>0, <2>1, Types DEF Idle
  <2>3. CASE UNCHANGED cache
    BY <1>1, <1>3, <1>8, <2>2, <2>3
  <2>4. CASE ~UNCHANGED cache
    <3> DEFINE key == reader[r].key
               e == [of |-> reader[r].of, doc |-> reader[r].doc,
                     overtaken |-> reader[r].overtaken, ttl |-> TRUE]
    <3>1. cache' = [cache EXCEPT ![key] = e]
      BY <1>8, <2>4 DEF SetKey
    <3>2. e.overtaken = reader[r].overtaken /\ CopyOf(key, e) = CopyOf(reader[r].key, reader[r])
      BY DEF CopyOf
    <3>3. reader[r].overtaken \/ CopyOf(reader[r].key, reader[r]) \in Explained
      BY <1>0, <2>1 DEF CopiesExplained
    <3> HIDE DEF key, e
    <3>4. e.overtaken \/ CopyOf(key, e) \in Explained'
      BY <1>2, <1>8, <3>2, <3>3
    <3>5. \A k \in Key : cache'[k] = IF k = key THEN e ELSE cache[k]
      BY <1>0, <3>1, Types
    <3>6. CachedFine
      <4> SUFFICES ASSUME NEW k \in Key, cache'[k] # Empty
                   PROVE  cache'[k].overtaken \/ CopyOf(k, cache'[k]) \in Explained'
        BY DEF CachedFine
      <4>1. CASE k = key
        BY <3>4, <3>5, <4>1
      <4>2. CASE k # key
        BY <1>0, <1>2, <1>8, <3>5, <4>2 DEF CopiesExplained
      <4> QED BY <4>1, <4>2
    <3> QED BY <1>1, <2>2, <3>6
  <2> QED BY <2>3, <2>4
<1>9. ASSUME ~Del, NEW k \in Key, Expire(k) PROVE CopiesExplained'
  <2>1. \A l \in Key : cache'[l] # Empty => cache'[l] = cache[l]
    BY <1>0, <1>9, Types DEF Expire
  <2>2. CachedFine
    BY <1>0, <1>2, <1>9, <2>1 DEF CachedFine, CopiesExplained
  <2> QED BY <1>1, <1>4, <1>9, <2>2 DEF Expire
<1>10. ASSUME ~Del, UNCHANGED <<cache, reader>> PROVE CopiesExplained'
  BY <1>1, <1>3, <1>4, <1>10
<1>11. ASSUME ~Del, NEW t \in Tenants, TenantChange(t) PROVE CopiesExplained'
  BY <1>10, <1>11 DEF TenantChange, CreateTenant, Edit, HardDelete
<1>12. CASE ~Del /\ (Stream \/ UNCHANGED vars)
  BY <1>10, <1>12 DEF Stream, handleChange, DelFails, Drop, Reconnect, vars
<1> QED BY <1>5, <1>6, <1>7, <1>8, <1>9, <1>11, <1>12 DEF Next, FindWithCache

-----------------------------------------------------------------------------
(* Theorems.                                                                *)

(* At the beginning nothing is cached, asked for or announced. *)
LEMMA CacheInit ==
  ASSUME Init PROVE CacheInv
<1>1. events = <<>> /\ DOMAIN events = {} /\ dels = <<>> /\ up = TRUE
  BY DEF Init
<1>2. /\ \A k \in Key : cache[k] = Empty
      /\ \A r \in Readers : reader[r] = Idle
  BY DEF Init
<1>3. doc \in [Tenants -> Doc \cup {Unborn, Gone}]
  <2>1. doc \in [Tenants -> {Unborn} \cup [slug: Slugs, domain: Domains \cup {NoDomain},
                                           live: {TRUE}, rev: {0}]]
    BY DEF Init
  <2>2. 0 \in 0..MaxRev
    BY TenantCacheAssumption
  <2>3. \A d \in [slug: Slugs, domain: Domains \cup {NoDomain}, live: {TRUE}, rev: {0}] : d \in Doc
    BY <2>2 DEF Doc
  <2> QED BY <2>1, <2>3
<1>4. <<>> \in Seq(Event) /\ <<>> \in Seq(Deletion)
  OBVIOUS
<1>5. lookups \in [Readers -> 0..MaxLookups] /\ missed \in [Tenants -> BOOLEAN]
  BY TenantCacheAssumption DEF Init
<1>6. cache = [k \in Key |-> Empty] /\ reader = [r \in Readers |-> Idle]
  BY DEF Init
<1>7. TypeOK
  BY <1>1, <1>3, <1>4, <1>5, <1>6 DEF TypeOK, Event, Deletion
<1>8. Telling
  BY <1>1 DEF Telling
<1>9. CopiesExplained
  BY <1>2 DEF CopiesExplained, Idle
<1> QED BY <1>7, <1>8, <1>9 DEF CacheInv

(* Every copy of a tenant is explained, whatever fails and overlaps. *)
THEOREM CacheCorrect == Spec => []CacheInv
<1>1. Init => CacheInv
  BY CacheInit
<1>2. CacheInv /\ [Next]_vars => CacheInv'
  BY TypeStep, TellingStep, CopiesStep DEF CacheInv
<1> QED BY <1>1, <1>2, PTL DEF Spec

(* Every variable of TenantCache keeps its type. *)
THEOREM TypeCorrect == Spec => []TypeOK
<1>1. CacheInv => TypeOK
  BY DEF CacheInv
<1> QED BY <1>1, CacheCorrect, PTL

(* A tenant is stale in the cache only for one of the reasons named, for    *)
(* any number of tenants sharing any names, lookups, edits, failing         *)
(* streams and failing deletions.                                           *)
THEOREM StalenessIsExplained == Spec => []StalenessExplained
<1>1. CacheInv => StalenessExplained
  <2> SUFFICES ASSUME CacheInv, NEW k \in Key, Stale(k), ~cache[k].overtaken
               PROVE  LET t == cache[k].of IN
                        InvalidationPending(t) \/ missed[t] \/ k \notin KeysOf(t, doc[t])
    BY DEF StalenessExplained
  <2>1. CopyOf(k, cache[k]) \in Explained /\ doc[cache[k].of] # cache[k].doc
    BY DEF CacheInv, CopiesExplained, Stale
  <2>2. CopyOf(k, cache[k]).key = k /\ CopyOf(k, cache[k]).of = cache[k].of
        /\ CopyOf(k, cache[k]).doc = cache[k].doc
    BY DEF CopyOf
  <2> QED BY <2>1, <2>2 DEF Explained, Announced, Sent, InvalidationPending
<1> QED BY <1>1, CacheCorrect, PTL

-----------------------------------------------------------------------------
(* ChangeStream: what a queue holds. *)
Elements(q) == {q[i] : i \in DOMAIN q}

StreamInv ==
  /\ queue \in [Streams -> Seq(Changes)]
  /\ stream \in [Streams -> {"none", "open", "failed", "closing"}]
  /\ \A s \in Streams : stream[s] # "open" => queue[s] = <<>>
  /\ \A s \in Streams : Elements(queue[s]) \subseteq made
  /\ handled \subseteq made

-----------------------------------------------------------------------------
(* A change joins a queue at its end and leaves it from its head.           *)
LEMMA Queued ==
  ASSUME NEW q \in Seq(Changes), NEW c \in Changes
  PROVE  /\ Append(q, c) \in Seq(Changes) /\ Elements(Append(q, c)) = Elements(q) \cup {c}
         /\ Elements(<<>>) = {}
         /\ q # <<>> => /\ Head(q) \in Elements(q) /\ Tail(q) \in Seq(Changes)
                        /\ Elements(q) = Elements(Tail(q)) \cup {Head(q)}
<1>1. Append(q, c) \in Seq(Changes) /\ Len(Append(q, c)) = Len(q) + 1
  OBVIOUS
<1>2. Elements(Append(q, c)) = Elements(q) \cup {c}
  <2>1. /\ \A i \in DOMAIN q : i \in DOMAIN Append(q, c) /\ Append(q, c)[i] = q[i]
        /\ Len(q) + 1 \in DOMAIN Append(q, c) /\ Append(q, c)[Len(q) + 1] = c
    BY <1>1
  <2>2. \A i \in DOMAIN Append(q, c) : i \in DOMAIN q \/ i = Len(q) + 1
    BY <1>1
  <2>3. Elements(q) \cup {c} \subseteq Elements(Append(q, c))
    BY <2>1 DEF Elements
  <2>4. Elements(Append(q, c)) \subseteq Elements(q) \cup {c}
    BY <2>1, <2>2 DEF Elements
  <2> QED BY <2>3, <2>4
<1>3. ASSUME q # <<>>
      PROVE  /\ Head(q) \in Elements(q) /\ Tail(q) \in Seq(Changes)
             /\ Elements(q) = Elements(Tail(q)) \cup {Head(q)}
  <2>1. /\ Tail(q) \in Seq(Changes) /\ Len(Tail(q)) = Len(q) - 1 /\ Len(q) \in Nat \ {0}
        /\ Head(q) = q[1] /\ \A i \in 1..Len(q) - 1 : Tail(q)[i] = q[i + 1]
    BY <1>3
  <2>2. \A i \in DOMAIN q : i = 1 \/ (i - 1 \in DOMAIN Tail(q) /\ Tail(q)[i - 1] = q[i])
    BY <2>1
  <2>3. \A i \in DOMAIN Tail(q) : i + 1 \in DOMAIN q /\ Tail(q)[i] = q[i + 1]
    BY <2>1
  <2>4. 1 \in DOMAIN q
    BY <2>1
  <2>5. Elements(Tail(q)) \cup {Head(q)} \subseteq Elements(q)
    BY <2>1, <2>3, <2>4 DEF Elements
  <2>6. Elements(q) \subseteq Elements(Tail(q)) \cup {Head(q)}
    <3> SUFFICES ASSUME NEW i \in DOMAIN q PROVE q[i] \in Elements(Tail(q)) \cup {Head(q)}
      BY DEF Elements
    <3>1. CASE i = 1
      BY <2>1, <3>1
    <3>2. CASE i - 1 \in DOMAIN Tail(q) /\ Tail(q)[i - 1] = q[i]
      BY <3>2, Zenon DEF Elements
    <3> QED BY <2>2, <3>1, <3>2
  <2>7. Head(q) \in Elements(q)
    BY <2>1, <2>4 DEF Elements
  <2> QED BY <2>1, <2>5, <2>6, <2>7
<1>4. Elements(<<>>) = {}
  BY DEF Elements
<1> QED BY <1>1, <1>2, <1>3, <1>4

(* What waits, element by element.                                          *)
LEMMA WaitingIs ==
  \A x : x \in Waiting <=> x \notin handled /\ \E s \in Streams : x \in Elements(queue[s])
BY DEF Waiting, Elements

(* The same after a step.                                                   *)
LEMMA WaitingIsNow ==
  \A x : x \in Waiting' <=> x \notin handled' /\ \E s \in Streams : x \in Elements(queue'[s])
BY DEF Waiting, Elements

-----------------------------------------------------------------------------
(* The steps of ChangeFeed, in the terms of ChangeStream.                   *)

(* A change is made: every open stream queues it.                           *)
LEMMA MakeIs ==
  ASSUME StreamInv, NEW c \in Changes, Change(c)
  PROVE  Feed!Next /\ StreamInv'
<1>1. /\ made' = made \cup {c} /\ handled' = handled /\ stream' = stream /\ c \notin made
      /\ queue' = [s \in Streams |-> IF stream[s] = "open" THEN Append(queue[s], c) ELSE queue[s]]
  BY DEF Change
<1>2. Listening' <=> Listening
  BY <1>1, Zenon DEF Listening
<1>3. \A s \in Streams : /\ queue[s] \in Seq(Changes) /\ queue'[s] \in Seq(Changes)
                         /\ stream[s] = "open" => Elements(queue'[s]) = Elements(queue[s]) \cup {c}
                         /\ stream[s] # "open" => queue'[s] = queue[s]
  BY <1>1, Queued DEF StreamInv
<1>4. c \notin handled
  BY <1>1 DEF StreamInv
<1>5. Waiting' = IF Listening THEN Waiting \cup {c} ELSE Waiting
  <2>1. CASE Listening
    <3>1. PICK o \in Streams : stream[o] = "open"
      BY <2>1 DEF Listening
    <3>2. ASSUME NEW x PROVE x \in Waiting' <=> x \in Waiting \cup {c}
      <4>1. CASE x = c
        <5>1. c \in Elements(queue'[o])
          BY <1>3, <3>1
        <5> QED BY <1>1, <1>4, <4>1, <5>1, WaitingIsNow
      <4>2. CASE x # c
        <5>1. \A s \in Streams : x \in Elements(queue'[s]) <=> x \in Elements(queue[s])
          BY <1>3, <4>2
        <5> QED BY <1>1, <4>2, <5>1, WaitingIs, WaitingIsNow
      <4> QED BY <4>1, <4>2
    <3>3. Waiting' = Waiting \cup {c}
      BY <3>2
    <3> QED BY <2>1, <3>3, Zenon
  <2>2. CASE ~Listening
    <3>1. \A s \in Streams : queue'[s] = queue[s]
      BY <1>3, <2>2 DEF Listening
    <3>2. ASSUME NEW x PROVE x \in Waiting' <=> x \in Waiting
      BY <1>1, <3>1, WaitingIs, WaitingIsNow
    <3>3. Waiting' = Waiting
      BY <3>2
    <3> QED BY <2>2, <3>3, Zenon
  <2> QED BY <2>1, <2>2
<1>6. Feed!Make(c)
  BY <1>1, <1>2, <1>5, Zenon DEF Feed!Make
<1>7. StreamInv'
  <2>1. queue' \in [Streams -> Seq(Changes)]
    BY <1>1, <1>3
  <2>2. \A s \in Streams : /\ stream'[s] # "open" => queue'[s] = <<>>
                           /\ Elements(queue'[s]) \subseteq made'
    BY <1>1, <1>3 DEF StreamInv
  <2> QED BY <1>1, <2>1, <2>2 DEF StreamInv
<1> QED BY <1>6, <1>7, Zenon DEF Feed!Next

(* A stream hands a change over, which another may have done before.        *)
LEMMA DeliverIs ==
  ASSUME StreamInv, NEW s \in Streams, Deliver(s)
  PROVE  (Feed!Next \/ UNCHANGED Feed!feed) /\ StreamInv'
<1> DEFINE c == Head(queue[s])
<1>1. /\ handled' = handled \cup {c} /\ queue' = [queue EXCEPT ![s] = Tail(queue[s])]
      /\ made' = made /\ stream' = stream /\ queue[s] # <<>>
  BY DEF Deliver
<1>2. Listening' <=> Listening
  BY <1>1, Zenon DEF Listening
<1>3. /\ c \in Elements(queue[s]) /\ c \in Changes /\ Tail(queue[s]) \in Seq(Changes)
      /\ Elements(queue[s]) = Elements(Tail(queue[s])) \cup {c}
  BY <1>1, Queued DEF StreamInv
<1>4. \A u \in Streams : /\ u = s => queue'[u] = Tail(queue[s])
                         /\ u # s => queue'[u] = queue[u]
  BY <1>1 DEF StreamInv
<1> HIDE DEF c
<1>5. ASSUME NEW x, x # c
      PROVE  \A u \in Streams : x \in Elements(queue'[u]) <=> x \in Elements(queue[u])
  BY <1>3, <1>4, <1>5
<1>6. ASSUME NEW x PROVE x \in Waiting' <=> x \in Waiting \ {c}
  BY <1>1, <1>5, WaitingIs, WaitingIsNow
<1>7. Waiting' = Waiting \ {c}
  BY <1>6
<1>8. StreamInv'
  <2>1. queue' \in [Streams -> Seq(Changes)]
    BY <1>1, <1>3 DEF StreamInv
  <2>2. ASSUME NEW u \in Streams
        PROVE  /\ stream'[u] # "open" => queue'[u] = <<>>
               /\ Elements(queue'[u]) \subseteq made'
    BY <1>1, <1>3, <1>4 DEF StreamInv
  <2>3. c \in made
    BY <1>3 DEF StreamInv
  <2> QED BY <1>1, <2>1, <2>2, <2>3 DEF StreamInv
<1>9. CASE c \in handled
  <2>1. handled' = handled
    BY <1>1, <1>9
  <2>2. c \notin Waiting
    BY <1>9, WaitingIs
  <2>3. Waiting' = Waiting
    BY <1>7, <2>2
  <2>4. UNCHANGED Feed!feed
    BY <1>1, <1>2, <2>1, <2>3, Zenon DEF Feed!feed
  <2> QED BY <1>8, <2>4
<1>10. CASE c \notin handled
  <2>1. c \in Waiting
    BY <1>3, <1>10, WaitingIs
  <2>2. Feed!Handle(c)
    BY <1>1, <1>2, <1>7, <2>1, Zenon DEF Feed!Handle
  <2>3. Feed!Next
    BY <1>3, <2>2, Zenon DEF Feed!Next
  <2> QED BY <1>8, <2>3
<1> QED BY <1>9, <1>10

(* A stream fails, closes, or is being closed: what it holds is lost.       *)
LEMMA LoseIs ==
  ASSUME StreamInv, NEW s \in Streams, NEW state \in {"none", "failed", "closing"},
         stream' = [stream EXCEPT ![s] = state], queue' = [queue EXCEPT ![s] = <<>>],
         made' = made, handled' = handled
  PROVE  (Feed!Next \/ UNCHANGED Feed!feed) /\ StreamInv'
<1>1. \A u \in Streams : /\ u = s => queue'[u] = <<>> /\ stream'[u] = state
                         /\ u # s => queue'[u] = queue[u] /\ stream'[u] = stream[u]
  BY DEF StreamInv
<1>2. Elements(<<>>) = {}
  BY DEF Elements
<1>3. StreamInv'
  <2>1. queue' \in [Streams -> Seq(Changes)]
    BY DEF StreamInv
  <2> QED BY <1>1, <1>2, <2>1 DEF StreamInv
<1>4. Waiting' \subseteq Waiting
  <2>1. ASSUME NEW x, x \in Waiting' PROVE x \in Waiting
    BY <1>1, <1>2, <2>1, WaitingIs, WaitingIsNow
  <2> QED BY <2>1
<1>5. ~Listening' => Waiting' = {}
  <2>1. ASSUME ~Listening', NEW x PROVE x \notin Waiting'
    <3>1. \A u \in Streams : stream'[u] # "open"
      BY <2>1 DEF Listening
    <3>2. \A u \in Streams : queue'[u] = <<>>
      BY <1>3, <3>1 DEF StreamInv
    <3> QED BY <1>2, <3>2, WaitingIsNow
  <2> QED BY <2>1
<1>6. CASE Listening
  <2>1. Listening' \in BOOLEAN
    BY DEF Listening
  <2>2. Feed!Lose
    BY <1>4, <1>5, <1>6, <2>1, Zenon DEF Feed!Lose
  <2> QED BY <1>3, <2>2, Zenon DEF Feed!Next
<1>7. CASE ~Listening
  <2>1. \A u \in Streams : stream[u] # "open" /\ queue[u] = <<>>
    BY <1>7 DEF Listening, StreamInv
  <2>2. ~Listening'
    BY <1>1, <2>1 DEF Listening
  <2>3. \A x : x \notin Waiting
    BY <1>2, <2>1, WaitingIs
  <2>4. Waiting' = Waiting
    BY <1>4, <2>3
  <2>5. Listening' <=> Listening
    BY <1>7, <2>2, Zenon
  <2>6. UNCHANGED Feed!feed
    BY <2>4, <2>5, Zenon DEF Feed!feed
  <2> QED BY <1>3, <2>6
<1> QED BY <1>6, <1>7

(* watch returns: the service listens, if it did not.                       *)
LEMMA OpenIs ==
  ASSUME StreamInv, NEW pending, Watch(pending), queue' = queue, made' = made, handled' = handled
  PROVE  (Feed!Next \/ UNCHANGED Feed!feed) /\ StreamInv'
<1>1. PICK s \in Streams : stream' = [stream EXCEPT ![s] = "open"]
  BY DEF Watch
<1>2. \A u \in Streams : /\ u = s => stream'[u] = "open"
                         /\ u # s => stream'[u] = stream[u]
  BY <1>1 DEF StreamInv
<1>3. StreamInv'
  BY <1>1, <1>2 DEF StreamInv
<1>4. Waiting' = Waiting
  <2>1. ASSUME NEW x PROVE x \in Waiting' <=> x \in Waiting
    BY WaitingIs, WaitingIsNow
  <2> QED BY <2>1
<1>5. Listening'
  BY <1>2 DEF Listening
<1>6. CASE Listening
  BY <1>3, <1>4, <1>5, <1>6, Zenon DEF Feed!feed
<1>7. CASE ~Listening
  <2>1. Listening' = TRUE
    BY <1>5, Zenon
  <2>2. Feed!Resume
    BY <1>4, <1>7, <2>1, Zenon DEF Feed!Resume
  <2> QED BY <1>3, <2>2, Zenon DEF Feed!Next
<1> QED BY <1>6, <1>7

(* Nothing is done to streams and queues.                                   *)
LEMMA StutterIs ==
  ASSUME StreamInv, stream' = stream, queue' = queue, made' = made, handled' = handled
  PROVE  UNCHANGED Feed!feed /\ StreamInv'
<1>1. ASSUME NEW x PROVE x \in Waiting' <=> x \in Waiting
  BY WaitingIs, WaitingIsNow
<1>2. Waiting' = Waiting
  BY <1>1
<1>3. Listening' <=> Listening
  BY Zenon DEF Listening
<1>4. UNCHANGED Feed!feed
  BY <1>2, <1>3, Zenon DEF Feed!feed
<1>5. StreamInv'
  BY DEF StreamInv
<1> QED BY <1>4, <1>5

-----------------------------------------------------------------------------
(* Every step of the service is one of ChangeFeed, or none.                 *)
LEMMA StepFeeds ==
  ASSUME StreamInv, [StreamNext]_streamVars
  PROVE  (Feed!Next \/ UNCHANGED Feed!feed) /\ StreamInv'
<1>1. CASE onModuleInit
  <2>1. queue' = queue /\ made' = made /\ handled' = handled
    BY <1>1 DEF onModuleInit
  <2>2. CASE Watch(timers)
    BY <2>1, <2>2, OpenIs
  <2>3. CASE WatchThrows(timers)
    BY <2>1, <2>3, StutterIs DEF WatchThrows
  <2> QED BY <1>1, <2>2, <2>3 DEF onModuleInit
<1>2. CASE onModuleDestroy
  <2>1. CASE changeStream # NoStream /\ stream[changeStream] = "open"
    <3>1. /\ stream' = [stream EXCEPT ![changeStream] = "closing"]
          /\ queue' = [queue EXCEPT ![changeStream] = <<>>]
          /\ made' = made /\ handled' = handled
      BY <1>2, <2>1 DEF onModuleDestroy
    <3>2. CASE changeStream \in Streams
      BY <3>1, <3>2, LoseIs
    <3>3. CASE changeStream \notin Streams
      <4>1. stream' = stream /\ queue' = queue
        BY <3>1, <3>3 DEF StreamInv
      <4> QED BY <3>1, <4>1, StutterIs
    <3> QED BY <3>2, <3>3
  <2>2. CASE ~(changeStream # NoStream /\ stream[changeStream] = "open")
    BY <1>2, <2>2, StutterIs DEF onModuleDestroy
  <2> QED BY <2>1, <2>2
<1>3. CASE ReconnectSucceeds
  BY <1>3, OpenIs DEF ReconnectSucceeds
<1>4. CASE ReconnectFails
  BY <1>4, StutterIs DEF ReconnectFails, WatchThrows
<1>5. ASSUME NEW s \in Streams, Error(s) \/ Close(s)
      PROVE  (Feed!Next \/ UNCHANGED Feed!feed) /\ StreamInv'
  <2>1. CASE Error(s)
    <3>1. /\ stream' = [stream EXCEPT ![s] = "failed"] /\ queue' = [queue EXCEPT ![s] = <<>>]
          /\ made' = made /\ handled' = handled
      BY <2>1 DEF Error
    <3> QED BY <3>1, LoseIs
  <2>2. CASE Close(s)
    <3>1. /\ stream' = [stream EXCEPT ![s] = "none"] /\ queue' = [queue EXCEPT ![s] = <<>>]
          /\ made' = made /\ handled' = handled
      BY <2>2 DEF Close
    <3> QED BY <3>1, LoseIs
  <2> QED BY <1>5, <2>1, <2>2
<1>6. CASE \E s \in Streams : Deliver(s)
  BY <1>6, DeliverIs
<1>7. CASE \E c \in Changes : Change(c)
  BY <1>7, MakeIs
<1>8. CASE UNCHANGED streamVars
  BY <1>8, StutterIs DEF streamVars
<1> QED BY <1>1, <1>2, <1>3, <1>4, <1>5, <1>6, <1>7, <1>8 DEF StreamNext

(* Only an open stream holds changes it has not delivered, and what was     *)
(* handled had been made.                                                   *)
THEOREM StreamCorrect == StreamSpec => []StreamInv
<1>1. StreamInit => StreamInv
  BY DEF StreamInit, StreamInv, Elements
<1>2. StreamInv /\ [StreamNext]_streamVars => StreamInv'
  BY StepFeeds
<1> QED BY <1>1, <1>2, PTL DEF StreamSpec

(* Whatever streams fail, close or are opened twice, and whenever watch     *)
(* throws, the service does to changes what ChangeFeed allows: a change is  *)
(* handled only when it was made while the service listened, and given up   *)
(* only with a stream that fails.  This is the safety of FeedSpec.          *)
THEOREM FeedImplemented == StreamSpec => Feed!Init /\ [][Feed!Next]_(Feed!feed)
<1>1. StreamInit => Feed!Init
  <2> SUFFICES ASSUME StreamInit PROVE Feed!Init
    OBVIOUS
  <2>1. \A x : x \notin Waiting
    BY WaitingIs DEF StreamInit, Elements
  <2>2. Waiting = {}
    BY <2>1
  <2>3. Listening = FALSE
    BY DEF StreamInit, Listening
  <2> QED BY <2>2, <2>3, Zenon DEF StreamInit, Feed!Init
<1>2. StreamInv /\ [StreamNext]_streamVars => [Feed!Next]_(Feed!feed)
  BY StepFeeds, Zenon
<1> QED BY <1>1, <1>2, StreamCorrect, PTL DEF StreamSpec

-----------------------------------------------------------------------------
(* A bag to which a timer was added is not empty.                           *)
LEMMA NotEmpty ==
  ASSUME NEW bag, NEW d PROVE bag (+) SetToBag({d}) # EmptyBag
<1>1. d \in DOMAIN SetToBag({d})
  BY DEF SetToBag
<1>2. d \in DOMAIN (bag (+) SetToBag({d}))
  BY <1>1, Zenon DEF (+)
<1>3. DOMAIN EmptyBag = {}
  BY DEF EmptyBag, SetToBag
<1> QED BY <1>2, <1>3, Zenon

(* A step leaves a stream or a timer behind.                                *)
LEMMA StepGoesOn ==
  ASSUME StreamInv, NeverGivesUp, [StreamNext]_streamVars
  PROVE  NeverGivesUp'
<1>1. ASSUME NEW pending, Watch(pending) PROVE NeverGivesUp'
  <2>1. PICK s \in Streams : stream' = [stream EXCEPT ![s] = "open"]
    BY <1>1 DEF Watch
  <2>2. stream'[s] = "open"
    BY <2>1 DEF StreamInv
  <2>3. s \in Present'
    BY <2>2 DEF Present
  <2> QED BY <2>3 DEF NeverGivesUp
<1>2. ASSUME NEW pending, scheduleReconnect(pending) PROVE NeverGivesUp'
  BY <1>2, NotEmpty, Zenon DEF scheduleReconnect, NeverGivesUp
<1>3. ASSUME NEW s \in Streams, Deliver(s) PROVE NeverGivesUp'
  BY <1>3, Zenon DEF Deliver, NeverGivesUp, Present
<1>4. ASSUME NEW c \in Changes, Change(c) PROVE NeverGivesUp'
  BY <1>4, Zenon DEF Change, NeverGivesUp, Present
<1>5. CASE onModuleDestroy
  BY <1>5 DEF onModuleDestroy, NeverGivesUp
<1>6. CASE UNCHANGED streamVars
  BY <1>6, Zenon DEF streamVars, NeverGivesUp, Present
<1>7. CASE StreamNext /\ ~onModuleDestroy
  BY <1>1, <1>2, <1>3, <1>4, <1>7, Zenon
     DEF StreamNext, onModuleInit, ReconnectSucceeds, ReconnectFails, WatchThrows, Error, Close
<1> QED BY <1>5, <1>6, <1>7

(* No number of errors, closes and failing calls of watch, in any order,    *)
(* leaves the service without a stream and without a timer to open one      *)
(* before onModuleDestroy.                                                  *)
THEOREM AlwaysReconnects == StreamSpec => []NeverGivesUp
<1>1. StreamInit => NeverGivesUp
  BY DEF StreamInit, NeverGivesUp
<1>2. StreamInv /\ NeverGivesUp /\ [StreamNext]_streamVars => NeverGivesUp'
  BY StepGoesOn
<1> QED BY <1>1, <1>2, StreamCorrect, PTL DEF StreamSpec
-----------------------------------------------------------------------------
(* Bags of timers.                                                          *)

(* One more timeout of d seconds.                                           *)
LEMMA OneTimerMore ==
  ASSUME NEW bag, IsABag(bag), IsFiniteSet(BagToSet(bag)), NEW d
  PROVE  /\ IsABag(bag (+) SetToBag({d}))
         /\ BagToSet(bag (+) SetToBag({d})) = BagToSet(bag) \cup {d}
         /\ Pending(bag (+) SetToBag({d})) = Pending(bag) + 1
<1> DEFINE D == DOMAIN bag
           more == bag (+) SetToBag({d})
<1>1. /\ DOMAIN more = D \cup {d}
      /\ \A x \in D \cup {d} : more[x] = (IF x \in D THEN bag[x] ELSE 0) + (IF x = d THEN 1 ELSE 0)
  BY DEF (+), SetToBag
<1>2. more = [x \in DOMAIN more |-> more[x]]
  BY DEF (+)
<1>3. \A x \in D : bag[x] \in Nat /\ bag[x] > 0
  BY DEF IsABag
<1>4. IsFiniteSet(D)
  BY DEF BagToSet
<1> HIDE DEF more, D
<1>5. \A x \in D \cup {d} : more[x] \in Nat /\ more[x] > 0
  BY <1>1, <1>3
<1>6. IsABag(more)
  BY <1>1, <1>2, <1>5 DEF IsABag
<1>7. Pending(bag) = SumFunctionOnSet(bag, D) /\ Pending(more) = SumFunctionOnSet(more, D \cup {d})
  BY <1>1 DEF Pending, BagToSet, D
<1>8. SumFunctionOnSet(bag, D) \in Int
  BY <1>3, <1>4, SumIs
<1>9. SumFunctionOnSet(more, D \cup {d}) = SumFunctionOnSet(bag, D) + 1
  <2>1. CASE d \in D
    <3>1. D \cup {d} = D
      BY <2>1
    <3>2. \A x \in D : bag[x] \in Int /\ more[x] \in Int /\ (x # d => bag[x] = more[x])
      BY <1>1, <1>3, <1>5
    <3>3. SumFunctionOnSet(more, D) = SumFunctionOnSet(bag, D) + more[d] - bag[d]
      BY <1>4, <2>1, <3>2, SumWithChange
    <3>4. more[d] = bag[d] + 1 /\ bag[d] \in Nat
      BY <1>1, <1>3, <2>1
    <3>5. SumFunctionOnSet(more, D) = SumFunctionOnSet(bag, D) + 1
      BY <1>8, <3>3, <3>4
    <3> QED BY <3>1, <3>5
  <2>2. CASE d \notin D
    <3>1. \A x \in D : bag[x] \in Int /\ more[x] \in Int /\ bag[x] = more[x]
      BY <1>1, <1>3, <1>5, <2>2
    <3>2. more[d] = 1
      BY <1>1, <2>2
    <3>3. SumFunctionOnSet(more, D \cup {d}) = SumFunctionOnSet(more, D) + more[d]
      BY <1>4, <2>2, <3>1, <3>2, SumWithOne
    <3>4. SumFunctionOnSet(bag, D) = SumFunctionOnSet(more, D)
      BY <1>4, <3>1, SumOfSame
    <3> QED BY <3>2, <3>3, <3>4
  <2> QED BY <2>1, <2>2
<1> QED BY <1>1, <1>6, <1>7, <1>9 DEF more, BagToSet, D

(* A timeout of d seconds fires.                                            *)
LEMMA OneTimerLess ==
  ASSUME NEW bag, IsABag(bag), IsFiniteSet(BagToSet(bag)), NEW d \in BagToSet(bag)
  PROVE  /\ IsABag(bag (-) SetToBag({d}))
         /\ BagToSet(bag (-) SetToBag({d})) \subseteq BagToSet(bag)
         /\ Pending(bag (-) SetToBag({d})) = Pending(bag) - 1
<1> DEFINE D == DOMAIN bag
           less == bag (-) SetToBag({d})
           E == DOMAIN less
<1>1. d \in D /\ \A x \in D : bag[x] \in Nat /\ bag[x] > 0
  BY DEF IsABag, BagToSet
<1>2. /\ E = {x \in D : IF x = d THEN bag[x] - 1 > 0 ELSE bag[x] > 0}
      /\ \A x \in E : less[x] = IF x = d THEN bag[x] - 1 ELSE bag[x]
      /\ less = [x \in E |-> less[x]]
  BY DEF (-), SetToBag
<1>3. IsFiniteSet(D)
  BY DEF BagToSet
<1> HIDE DEF less, D, E
<1>4. E \subseteq D /\ D \ {d} \subseteq E /\ (d \in E <=> bag[d] > 1)
  BY <1>1, <1>2
<1>5. \A x \in E : less[x] \in Nat /\ less[x] > 0 /\ (x # d => less[x] = bag[x])
  BY <1>1, <1>2
<1>6. IsABag(less)
  BY <1>2, <1>5 DEF IsABag, E
<1>7. Pending(bag) = SumFunctionOnSet(bag, D) /\ Pending(less) = SumFunctionOnSet(less, E)
  BY DEF Pending, BagToSet, D, E
<1>8. SumFunctionOnSet(bag, D) \in Int
  <2>1. \A x \in D : bag[x] \in Int
    BY <1>1
  <2> QED BY <1>3, <2>1, SumIs
<1>9. SumFunctionOnSet(less, E) = SumFunctionOnSet(bag, D) - 1
  <2>1. CASE bag[d] > 1
    <3>1. E = D /\ less[d] = bag[d] - 1
      BY <1>2, <1>4, <2>1
    <3>2. \A x \in D : bag[x] \in Int /\ less[x] \in Int /\ (x # d => bag[x] = less[x])
      BY <1>1, <1>5, <3>1
    <3>3. SumFunctionOnSet(less, D) = SumFunctionOnSet(bag, D) + less[d] - bag[d]
      BY <1>1, <1>3, <3>2, SumWithChange
    <3> QED BY <1>1, <1>8, <3>1, <3>3
  <2>2. CASE ~(bag[d] > 1)
    <3>1. E = D \ {d} /\ D = E \cup {d} /\ d \notin E /\ bag[d] = 1
      BY <1>1, <1>4, <2>2
    <3>2. IsFiniteSet(E)
      BY <1>3, <1>4, FS_Subset
    <3>3. \A x \in E : bag[x] \in Int /\ less[x] \in Int /\ bag[x] = less[x]
      BY <1>1, <1>5, <3>1
    <3>4. SumFunctionOnSet(bag, D) = SumFunctionOnSet(bag, E) + bag[d]
      BY <3>1, <3>2, <3>3, SumWithOne
    <3>5. SumFunctionOnSet(bag, E) = SumFunctionOnSet(less, E) /\ SumFunctionOnSet(bag, E) \in Int
      BY <3>2, <3>3, SumOfSame, SumIs
    <3> QED BY <3>1, <3>4, <3>5
  <2> QED BY <2>1, <2>2
<1> QED BY <1>4, <1>6, <1>7, <1>9 DEF less, E, D, BagToSet

(* There are only so many delays, none of them above 30 seconds.            *)
LEMMA Delays ==
  /\ IsFiniteSet({Delay(a) : a \in 0..MaxAttempts})
  /\ \A a \in 0..MaxAttempts : Delay(a) <= 30
<1> DEFINE S == 0..MaxAttempts
           T == {Delay(a) : a \in S}
           f == [a \in S |-> Delay(a)]
<1>1. ASSUME NEW a \in Nat PROVE Delay(a) <= 30
  <2>1. 2 ^ a \in Int
    OBVIOUS
  <2> QED BY <2>1 DEF Delay
<1>2. IsFiniteSet(S) /\ S \subseteq Nat
  <2>1. 0 \in Int /\ 5 \in Int
    OBVIOUS
  <2>2. IsFiniteSet(0..5)
    BY <2>1, FS_Interval
  <2> QED BY <2>2 DEF MaxAttempts
<1>3. f \in Surjection(S, T)
  BY DEF Surjection
<1>4. IsFiniteSet(T)
  BY <1>2, <1>3, FS_Surjection DEF ExistsSurjection
<1> QED BY <1>1, <1>2, <1>4
-----------------------------------------------------------------------------
(* What the service's timers and streams come to.                           *)

(* Before onModuleInit nothing has happened; from then on every stream and  *)
(* every timer stands for one error, or for the first call of watch.        *)
TimersInv ==
  /\ StreamTypeOK
  /\ phase = "booting" => Present = {} /\ timers = EmptyBag /\ errors = 0
  /\ OneMorePerError

(* The timers are a finite bag, and there are finitely many streams.        *)
LEMMA TimersAreFinite ==
  ASSUME StreamTypeOK
  PROVE  /\ IsABag(timers) /\ IsFiniteSet(BagToSet(timers)) /\ Pending(timers) \in Nat
         /\ IsFiniteSet(Present) /\ Cardinality(Present) \in Nat
<1>1. IsABag(timers) /\ IsFiniteSet(BagToSet(timers))
  <2>1. BagToSet(timers) \subseteq {Delay(a) : a \in 0..MaxAttempts}
    BY DEF StreamTypeOK
  <2>2. IsFiniteSet(BagToSet(timers))
    BY <2>1, Delays, FS_Subset
  <2> QED BY <2>2 DEF StreamTypeOK
<1>2. \A x \in BagToSet(timers) : timers[x] \in Nat
  BY <1>1 DEF IsABag, BagToSet
<1>3. Pending(timers) \in Nat
  BY <1>1, <1>2, SumIs DEF Pending
<1>4. Present \subseteq Streams
  BY DEF Present
<1>5. IsFiniteSet(Present) /\ Cardinality(Present) \in Nat
  BY <1>4, ChangeStreamAssumption, FS_Subset, FS_CardinalityType
<1> QED BY <1>1, <1>3, <1>5

(* A bag of timers: what StreamTypeOK says of it.                           *)
TimersOK(bag) ==
  /\ IsABag(bag) /\ BagToSet(bag) \subseteq {Delay(a) : a \in 0..MaxAttempts}
  /\ \A d \in BagToSet(bag) : d <= 30

(* scheduleReconnect adds one timer, and there is one then.                 *)
LEMMA Scheduled ==
  ASSUME NEW bag, TimersOK(bag), reconnectAttempts \in 0..MaxAttempts, scheduleReconnect(bag)
  PROVE  /\ TimersOK(timers') /\ Pending(timers') = Pending(bag) + 1 /\ timers' # EmptyBag
         /\ reconnectAttempts' \in 0..MaxAttempts
<1> DEFINE d == Delay(reconnectAttempts)
           S == {Delay(a) : a \in 0..MaxAttempts}
<1>1. timers' = bag (+) SetToBag({d})
  BY DEF scheduleReconnect
<1>2. d \in S /\ \A x \in S : x <= 30
  BY Delays
<1>3. IsFiniteSet(S) /\ IsABag(bag) /\ BagToSet(bag) \subseteq S
  BY Delays DEF TimersOK
<1> HIDE DEF S, d
<1>4. IsFiniteSet(BagToSet(bag))
  BY <1>3, FS_Subset
<1>5. /\ IsABag(timers') /\ BagToSet(timers') = BagToSet(bag) \cup {d}
      /\ Pending(timers') = Pending(bag) + 1
  BY <1>1, <1>3, <1>4, OneTimerMore
<1>6. timers' # EmptyBag
  BY <1>1, NotEmpty
<1>7. BagToSet(timers') \subseteq S
  BY <1>2, <1>3, <1>5
<1>8. TimersOK(timers')
  BY <1>2, <1>5, <1>7 DEF TimersOK, S
<1>9. reconnectAttempts' \in 0..MaxAttempts
  BY DEF scheduleReconnect, MaxAttempts
<1> QED BY <1>5, <1>6, <1>8, <1>9

(* A timer fires: one less.                                                 *)
LEMMA Fired ==
  ASSUME TimersOK(timers), NEW d \in BagToSet(timers)
  PROVE  /\ TimersOK(timers (-) SetToBag({d}))
         /\ Pending(timers (-) SetToBag({d})) = Pending(timers) - 1
<1> DEFINE less == timers (-) SetToBag({d})
<1>1. IsFiniteSet(BagToSet(timers))
  BY Delays, FS_Subset DEF TimersOK
<1>2. IsABag(less) /\ BagToSet(less) \subseteq BagToSet(timers) /\ Pending(less) = Pending(timers) - 1
  BY <1>1, OneTimerLess DEF TimersOK
<1> HIDE DEF less
<1>3. TimersOK(less)
  BY <1>2 DEF TimersOK
<1> QED BY <1>2, <1>3 DEF less

(* A stream comes or goes.                                                  *)
LEMMA OneStream ==
  ASSUME StreamTypeOK, NEW s \in Streams, NEW state \in {"none", "open", "failed", "closing"},
         stream' = [stream EXCEPT ![s] = state]
  PROVE  /\ stream[s] = "none" /\ state # "none" => Cardinality(Present') = Cardinality(Present) + 1
         /\ stream[s] # "none" /\ state = "none" => Cardinality(Present') = Cardinality(Present) - 1
         /\ stream[s] # "none" /\ state # "none" => Present' = Present
<1>1. IsFiniteSet(Present)
  BY TimersAreFinite
<1>2. stream'[s] = state /\ \A u \in Streams : u # s => stream'[u] = stream[u]
  BY DEF StreamTypeOK
<1>3. ASSUME stream[s] = "none", state # "none"
      PROVE  Cardinality(Present') = Cardinality(Present) + 1
  <2>1. Present' = Present \cup {s} /\ s \notin Present
    BY <1>2, <1>3 DEF Present
  <2> QED BY <1>1, <2>1, FS_AddElement
<1>4. ASSUME stream[s] # "none", state = "none"
      PROVE  Cardinality(Present') = Cardinality(Present) - 1
  <2>1. Present' = Present \ {s} /\ s \in Present
    BY <1>2, <1>4 DEF Present
  <2> QED BY <1>1, <2>1, FS_RemoveElement
<1>5. ASSUME stream[s] # "none", state # "none"
      PROVE  Present' = Present
  BY <1>2, <1>5 DEF Present
<1> QED BY <1>3, <1>4, <1>5
(* startChangeStream opens a stream, with the timers there are besides it.  *)
LEMMA WatchCounts ==
  ASSUME StreamTypeOK, NEW bag, TimersOK(bag), Watch(bag)
  PROVE  /\ stream' \in [Streams -> {"none", "open", "failed", "closing"}]
         /\ changeStream' \in Streams /\ reconnectAttempts' = 0 /\ timers' = bag
         /\ Cardinality(Present') = Cardinality(Present) + 1
<1>1. PICK s \in Streams : stream[s] = "none" /\ stream' = [stream EXCEPT ![s] = "open"] /\ changeStream' = s
  BY DEF Watch
<1>2. Cardinality(Present') = Cardinality(Present) + 1
  BY <1>1, OneStream
<1>3. stream' \in [Streams -> {"none", "open", "failed", "closing"}]
  BY <1>1 DEF StreamTypeOK
<1> QED BY <1>1, <1>2, <1>3 DEF Watch

(* startChangeStream does not: one timer more, and no change to streams.    *)
LEMMA ThrowCounts ==
  ASSUME StreamTypeOK, NEW bag, TimersOK(bag), WatchThrows(bag)
  PROVE  /\ stream' = stream /\ changeStream' = changeStream /\ Present' = Present
         /\ reconnectAttempts' \in 0..MaxAttempts /\ TimersOK(timers')
         /\ timers' # EmptyBag /\ Pending(timers') = Pending(bag) + 1
<1>1. stream' = stream /\ changeStream' = changeStream /\ scheduleReconnect(bag)
  BY DEF WatchThrows
<1>2. Present' = Present
  BY <1>1 DEF Present
<1>3. reconnectAttempts \in 0..MaxAttempts
  BY DEF StreamTypeOK
<1> QED BY <1>1, <1>2, <1>3, Scheduled

(* Queues hold changes that were made, and only those are handled.          *)
LEMMA QueuesKeepTypes ==
  ASSUME StreamInv', made \subseteq Changes, [StreamNext]_streamVars
  PROVE  queue' \in [Streams -> Seq(Changes)] /\ made' \subseteq Changes /\ handled' \subseteq made'
<1>1. queue' \in [Streams -> Seq(Changes)] /\ handled' \subseteq made'
  BY DEF StreamInv
<1>2. made' \subseteq Changes
  <2>1. CASE \E c \in Changes : Change(c)
    BY <2>1 DEF Change
  <2>2. CASE ~\E c \in Changes : Change(c)
    <3>1. made' = made
      BY <2>2 DEF StreamNext, streamVars, onModuleInit, onModuleDestroy, ReconnectSucceeds, ReconnectFails,
                  Error, Close, Deliver
    <3> QED BY <3>1
  <2> QED BY <2>1, <2>2
<1> QED BY <1>1, <1>2

-----------------------------------------------------------------------------
(* Every step keeps count.                                                  *)
LEMMA StepCounts ==
  ASSUME StreamInv, StreamInv', TimersInv, [StreamNext]_streamVars
  PROVE  TimersInv'
<1>1. /\ StreamTypeOK /\ TimersOK(timers) /\ made \subseteq Changes
      /\ reconnectAttempts \in 0..MaxAttempts /\ errors \in Nat /\ errors \in 0..MaxErrors
      /\ phase \in {"booting", "up", "destroyed"} /\ changeStream \in Streams \cup {NoStream}
      /\ stream \in [Streams -> {"none", "open", "failed", "closing"}]
  BY ChangeStreamAssumption DEF TimersInv, StreamTypeOK, TimersOK
<1>2. /\ Pending(timers) \in Nat /\ IsFiniteSet(Present) /\ Cardinality(Present) \in Nat
  BY <1>1, TimersAreFinite
<1>3. queue' \in [Streams -> Seq(Changes)] /\ made' \subseteq Changes /\ handled' \subseteq made'
  BY <1>1, QueuesKeepTypes
<1> DEFINE Good ==
        /\ stream' \in [Streams -> {"none", "open", "failed", "closing"}]
        /\ changeStream' \in Streams \cup {NoStream}
        /\ reconnectAttempts' \in 0..MaxAttempts /\ TimersOK(timers')
        /\ phase' \in {"booting", "up", "destroyed"} /\ errors' \in 0..MaxErrors
        /\ phase' = "booting" => Present' = {} /\ timers' = EmptyBag /\ errors' = 0
        /\ phase' # "booting" => Cardinality(Present') + Pending(timers') = 1 + errors'
<1>4. SUFFICES Good
  BY <1>3 DEF TimersInv, StreamTypeOK, TimersOK, OneMorePerError
<1>5. /\ phase = "booting" => Present = {} /\ timers = EmptyBag /\ errors = 0
      /\ phase # "booting" => Cardinality(Present) + Pending(timers) = 1 + errors
  BY DEF TimersInv, OneMorePerError
<1>6. CASE onModuleInit
  <2>1. /\ phase = "booting" /\ phase' = "up" /\ errors' = errors
        /\ Watch(timers) \/ WatchThrows(timers)
    BY <1>6 DEF onModuleInit
  <2>2. Cardinality(Present) = 0 /\ Pending(timers) = 0 /\ errors = 0 /\ timers = EmptyBag
    <3>1. Pending(EmptyBag) = 0
      BY SumOfNothing DEF Pending, EmptyBag, SetToBag, BagToSet
    <3> QED BY <1>5, <2>1, <3>1, FS_EmptySet
  <2>3. CASE Watch(timers)
    <3>1. /\ stream' \in [Streams -> {"none", "open", "failed", "closing"}]
          /\ changeStream' \in Streams /\ reconnectAttempts' = 0 /\ timers' = timers
          /\ Cardinality(Present') = Cardinality(Present) + 1
      BY <1>1, <2>3, WatchCounts
    <3> QED BY <1>1, <2>1, <2>2, <3>1 DEF MaxAttempts
  <2>4. CASE WatchThrows(timers)
    <3>1. /\ stream' = stream /\ changeStream' = changeStream /\ Present' = Present
          /\ reconnectAttempts' \in 0..MaxAttempts /\ TimersOK(timers')
          /\ timers' # EmptyBag /\ Pending(timers') = Pending(timers) + 1
      BY <1>1, <2>4, ThrowCounts
    <3> QED BY <1>1, <2>1, <2>2, <3>1
  <2> QED BY <2>1, <2>3, <2>4
<1>7. CASE ReconnectSucceeds
  <2>1. PICK d \in BagToSet(timers) : Watch(timers (-) SetToBag({d}))
    BY <1>7 DEF ReconnectSucceeds
  <2>2. errors' = errors /\ phase' = phase
    BY <1>7 DEF ReconnectSucceeds
  <2>3. phase # "booting"
    <3>1. BagToSet(EmptyBag) = {}
      BY DEF BagToSet, EmptyBag, SetToBag
    <3> QED BY <1>5, <2>1, <3>1
  <2> DEFINE less == timers (-) SetToBag({d})
  <2>4. TimersOK(less) /\ Pending(less) = Pending(timers) - 1 /\ Watch(less)
    BY <1>1, <2>1, Fired
  <2> HIDE DEF less
  <2>5. /\ stream' \in [Streams -> {"none", "open", "failed", "closing"}]
        /\ changeStream' \in Streams /\ reconnectAttempts' = 0 /\ timers' = less
        /\ Cardinality(Present') = Cardinality(Present) + 1
    BY <1>1, <2>4, WatchCounts
  <2>6. Cardinality(Present') + Pending(timers') = 1 + errors'
    BY <1>2, <1>5, <2>2, <2>3, <2>4, <2>5
  <2> QED BY <1>1, <2>2, <2>3, <2>4, <2>5, <2>6 DEF MaxAttempts
<1>8. CASE ReconnectFails
  <2>1. PICK d \in BagToSet(timers) : WatchThrows(timers (-) SetToBag({d}))
    BY <1>8 DEF ReconnectFails
  <2>2. errors' = errors /\ phase' = phase
    BY <1>8 DEF ReconnectFails
  <2>3. phase # "booting"
    <3>1. BagToSet(EmptyBag) = {}
      BY DEF BagToSet, EmptyBag, SetToBag
    <3> QED BY <1>5, <2>1, <3>1
  <2> DEFINE less == timers (-) SetToBag({d})
  <2>4. TimersOK(less) /\ Pending(less) = Pending(timers) - 1 /\ WatchThrows(less)
    BY <1>1, <2>1, Fired
  <2> HIDE DEF less
  <2>5. /\ stream' = stream /\ changeStream' = changeStream /\ Present' = Present
        /\ reconnectAttempts' \in 0..MaxAttempts /\ TimersOK(timers')
        /\ timers' # EmptyBag /\ Pending(timers') = Pending(less) + 1
    BY <1>1, <2>4, ThrowCounts
  <2>6. Cardinality(Present') + Pending(timers') = 1 + errors'
    BY <1>2, <1>5, <2>2, <2>3, <2>4, <2>5
  <2> QED BY <1>1, <2>2, <2>3, <2>5, <2>6
<1>9. ASSUME NEW s \in Streams, Error(s)
      PROVE  Good
  <2>1. /\ stream[s] = "open" /\ errors < MaxErrors /\ errors' = errors + 1 /\ phase' = phase
        /\ stream' = [stream EXCEPT ![s] = "failed"] /\ scheduleReconnect(timers)
        /\ changeStream' = changeStream
    BY <1>9 DEF Error
  <2>2. Present' = Present
    BY <1>1, <2>1, OneStream
  <2>3. /\ TimersOK(timers') /\ Pending(timers') = Pending(timers) + 1 /\ timers' # EmptyBag
        /\ reconnectAttempts' \in 0..MaxAttempts
    BY <1>1, <2>1, Scheduled
  <2>4. phase # "booting"
    BY <1>5, <2>1 DEF Present
  <2>5. stream' \in [Streams -> {"none", "open", "failed", "closing"}]
    BY <1>1, <2>1
  <2>6. errors' \in 0..MaxErrors /\ Cardinality(Present') + Pending(timers') = 1 + errors'
    BY <1>1, <1>2, <1>5, <2>1, <2>2, <2>3, <2>4, ChangeStreamAssumption
  <2> QED BY <1>1, <2>1, <2>3, <2>4, <2>5, <2>6
<1>10. ASSUME NEW s \in Streams, Close(s)
       PROVE  Good
  <2>1. /\ stream[s] # "none" /\ errors' = errors /\ phase' = phase
        /\ stream' = [stream EXCEPT ![s] = "none"] /\ scheduleReconnect(timers)
        /\ changeStream' = changeStream
    BY <1>10 DEF Close
  <2>2. Cardinality(Present') = Cardinality(Present) - 1
    BY <1>1, <2>1, OneStream
  <2>3. /\ TimersOK(timers') /\ Pending(timers') = Pending(timers) + 1 /\ timers' # EmptyBag
        /\ reconnectAttempts' \in 0..MaxAttempts
    BY <1>1, <2>1, Scheduled
  <2>4. phase # "booting"
    BY <1>5, <2>1 DEF Present
  <2>5. stream' \in [Streams -> {"none", "open", "failed", "closing"}]
    BY <1>1, <2>1
  <2>6. Cardinality(Present') + Pending(timers') = 1 + errors'
    BY <1>1, <1>2, <1>5, <2>1, <2>2, <2>3, <2>4
  <2> QED BY <1>1, <2>1, <2>3, <2>4, <2>5, <2>6
<1>11. CASE onModuleDestroy
  <2>1. /\ phase = "up" /\ phase' = "destroyed"
        /\ UNCHANGED <<changeStream, reconnectAttempts, timers, errors>>
    BY <1>11 DEF onModuleDestroy
  <2>2. stream' \in [Streams -> {"none", "open", "failed", "closing"}] /\ Present' = Present
    <3>1. CASE changeStream # NoStream /\ stream[changeStream] = "open"
      <4>1. changeStream \in Streams /\ stream' = [stream EXCEPT ![changeStream] = "closing"]
        BY <1>1, <1>11, <3>1 DEF onModuleDestroy
      <4>2. Present' = Present
        BY <1>1, <3>1, <4>1, OneStream
      <4> QED BY <1>1, <4>1, <4>2
    <3>2. CASE ~(changeStream # NoStream /\ stream[changeStream] = "open")
      <4>1. stream' = stream
        BY <1>11, <3>2 DEF onModuleDestroy
      <4> QED BY <1>1, <4>1 DEF Present
    <3> QED BY <3>1, <3>2
  <2> QED BY <1>1, <1>5, <2>1, <2>2
<1>12. ASSUME UNCHANGED <<stream, changeStream, reconnectAttempts, timers, phase, errors>>
       PROVE  Good
  <2>1. Present' = Present
    BY <1>12 DEF Present
  <2> QED BY <1>1, <1>5, <1>12, <2>1
<1>13. CASE \/ \E s \in Streams : Deliver(s)
            \/ \E c \in Changes : Change(c)
            \/ UNCHANGED streamVars
  <2>1. UNCHANGED <<stream, changeStream, reconnectAttempts, timers, phase, errors>>
    BY <1>13 DEF Deliver, Change, streamVars
  <2> QED BY <1>12, <2>1
<1> QED BY <1>6, <1>7, <1>8, <1>9, <1>10, <1>11, <1>13 DEF StreamNext

(* The inductive invariant of the timers.                                   *)
THEOREM TimersCorrect == StreamSpec => []TimersInv
<1>1. StreamInit => TimersInv
  <2> SUFFICES ASSUME StreamInit PROVE TimersInv
    OBVIOUS
  <2>1. /\ stream = [s \in Streams |-> "none"] /\ queue = [s \in Streams |-> <<>>]
        /\ changeStream = NoStream /\ reconnectAttempts = 0 /\ timers = EmptyBag /\ phase = "booting"
        /\ made = {} /\ handled = {} /\ errors = 0
    BY DEF StreamInit
  <2>2. Present = {}
    BY <2>1 DEF Present
  <2>3. IsABag(timers) /\ BagToSet(timers) = {}
    BY <2>1 DEF IsABag, BagToSet, EmptyBag, SetToBag
  <2>4. StreamTypeOK
    BY <2>1, <2>3, ChangeStreamAssumption DEF StreamTypeOK, MaxAttempts
  <2> QED BY <2>1, <2>2, <2>4 DEF TimersInv, OneMorePerError
<1>2. StreamInv /\ StreamInv' /\ TimersInv /\ [StreamNext]_streamVars => TimersInv'
  BY StepCounts
<1> QED BY <1>1, <1>2, StreamCorrect, PTL DEF StreamSpec

(* Every variable has its type, and no reconnection waits for more than the *)
(* 30 seconds of maxReconnectDelay.                                         *)
THEOREM StreamTypeCorrect == StreamSpec => []StreamTypeOK
<1>1. TimersInv => StreamTypeOK
  BY DEF TimersInv
<1> QED BY <1>1, TimersCorrect, PTL

(* Every 'error' leaves exactly one stream or timer more than there was,    *)
(* whatever is closed, reopened or fails to in between: what the service    *)
(* holds grows with its errors and never shrinks, onModuleDestroy included. *)
THEOREM OneMorePerErrorHolds == StreamSpec => []OneMorePerError
<1>1. TimersInv => OneMorePerError
  BY DEF TimersInv
<1> QED BY <1>1, TimersCorrect, PTL
=============================================================================
