-------------------------- MODULE RateLimitProofs ---------------------------
(***************************************************************************)
(* WindowWithinLimit for every set of tenants and requests, every limit    *)
(* and every length of the window.  Why: a counter is at least the number  *)
(* of requests let through in the current window (Counted), because it     *)
(* cannot expire before its window ends (Lasting).                         *)
(* RefusedByOwnTraffic and CallsWereGranted in the same generality.  Why: a *)
(* counter is at most the number of runs of the guard, for requests of its  *)
(* own tenant, that were counted in its window (TrafficInv).                *)
(* RollingWithinTwice: a stretch as long as a window touches two windows,   *)
(* and each of them keeps to the limit.                                     *)
(***************************************************************************)
EXTENDS RateLimit, Sums, FiniteSetTheorems, TLAPS

(* Requests of t whose last run was let through in the window w, its own.   *)
Through(rq, t, w) ==
  {r \in Requests : /\ rq[r].pc \in {"guard", "served"} /\ rq[r].tenant = t
                    /\ rq[r].window = w /\ Window(rq[r].at) = w}

(* What request r of rq has behind it at the time c. *)
Past(rq, c, r) ==
  rq[r] # New =>
    /\ rq[r].at <= c /\ rq[r].window <= Window(c)
    /\ rq[r].pc \in {"guard", "eval"} => rq[r].granted < rq[r].passes

(* The counter of t and w outlives every moment of its window. *)
Lasting(counters, t, w) ==
  counters[<<t, w>>].n > 0 => \A c \in 0..MaxClock : Window(c) <= w => c < counters[<<t, w>>].dies

Counted(t) == Cardinality(Through(req, t, Window(clock))) <= counter[<<t, Window(clock)>>].n

RateInv ==
  /\ TypeOK
  /\ \A r \in Requests : Past(req, clock, r)
  /\ \A t \in Tenants, w \in Windows : Lasting(counter, t, w) /\ Cardinality(Through(req, t, w)) <= Limit[t]
  /\ \A t \in Tenants : Counted(t)

-----------------------------------------------------------------------------
(* Windows of the clock.                                                    *)

(* A moment lies in its window.                                             *)
LEMMA DivBounds ==
  ASSUME NEW n \in Nat, NEW d \in Nat \ {0}
  PROVE  /\ n \div d \in Nat
         /\ (n \div d) * d <= n
         /\ n < (n \div d) * d + d
OBVIOUS

(* Products are monotone.                                                   *)
LEMMA Product ==
  ASSUME NEW a \in Nat, NEW b \in Nat, NEW d \in Nat, a <= b
  PROVE  a * d <= b * d
OBVIOUS

(* The later of two windows cannot lie more than its length before.         *)
LEMMA WindowsApart ==
  ASSUME NEW c \in Nat, NEW d \in Nat, Window(c) <= Window(d)
  PROVE  c < d + WindowLen
<1> DEFINE v == c \div WindowLen
           w == d \div WindowLen
<1>1. v \in Nat /\ w \in Nat /\ c < v * WindowLen + WindowLen /\ w * WindowLen <= d
  BY RateLimitAssumption, DivBounds
<1>2. v <= w
  BY DEF Window
<1> HIDE DEF v, w
<1>3. v * WindowLen <= w * WindowLen /\ v * WindowLen \in Nat /\ w * WindowLen \in Nat
  BY <1>1, <1>2, Product, RateLimitAssumption
<1> QED BY <1>1, <1>3, RateLimitAssumption

(* Windows follow the clock.                                                *)
LEMMA WindowOrder ==
  ASSUME NEW c \in Nat, NEW d \in Nat, c <= d
  PROVE  Window(c) \in Nat /\ Window(d) \in Nat /\ Window(c) <= Window(d)
<1> DEFINE v == c \div WindowLen
           w == d \div WindowLen
<1>1. v \in Nat /\ w \in Nat /\ v * WindowLen <= c /\ d < w * WindowLen + WindowLen
  BY RateLimitAssumption, DivBounds
<1>2. Window(c) = v /\ Window(d) = w
  BY DEF Window
<1> HIDE DEF v, w
<1>3. ASSUME w < v PROVE FALSE
  <2>1. w + 1 <= v /\ (w + 1) * WindowLen = w * WindowLen + WindowLen
    BY <1>1, <1>3, RateLimitAssumption
  <2>2. (w + 1) * WindowLen <= v * WindowLen /\ v * WindowLen \in Nat /\ w * WindowLen \in Nat
    BY <1>1, <2>1, Product, RateLimitAssumption
  <2> QED BY <1>1, <2>1, <2>2, RateLimitAssumption
<1> QED BY <1>1, <1>2, <1>3

(* The clock's window is one.                                               *)
LEMMA WindowIsOne ==
  ASSUME NEW c \in 0..MaxClock
  PROVE  Window(c) \in Windows
<1>1. c \in Nat /\ MaxClock \in Nat /\ c <= MaxClock
  BY RateLimitAssumption
<1> QED BY <1>1, WindowOrder DEF Windows

-----------------------------------------------------------------------------
(* Requests.                                                                *)

(* Requests let through are finitely many.                                  *)
LEMMA ThroughIsFinite ==
  ASSUME NEW t, NEW w
  PROVE  IsFiniteSet(Through(req, t, w)) /\ IsFiniteSet(Through(req', t, w))
<1>1. Through(req, t, w) \subseteq Requests /\ Through(req', t, w) \subseteq Requests
  BY DEF Through
<1> QED BY <1>1, FS_Subset, RateLimitAssumption

(* A request that is not new has its fields.                                *)
LEMMA RequestFields ==
  ASSUME TypeOK, NEW r \in Requests, req[r].pc # "new"
  PROVE  /\ req[r] \in Request /\ req[r] # New
         /\ req[r].tenant \in Tenants /\ req[r].passes \in Passes /\ req[r].granted \in 0..2
         /\ req[r].window \in Windows /\ req[r].counted \in SUBSET Windows /\ req[r].at \in 0..MaxClock
         /\ windowKey(r) = <<req[r].tenant, req[r].window>>
         /\ windowKey(r) \in Tenants \X Windows
BY RateLimitAssumption DEF TypeOK, Request, New, windowKey

(* The script counts one more, for longer than the window lasts.            *)
LEMMA ScriptCounts ==
  ASSUME RateInv, NEW k \in Tenants \X Windows,
         counter' = [counter EXCEPT ![k] = script(@)], clock' = clock,
         k[2] <= Window(clock)
  PROVE  /\ counter' \in [Tenants \X Windows -> [n : Nat, dies : Nat]]
         /\ counter'[k].n = counter[k].n + 1
         /\ \A j \in Tenants \X Windows : j # k => counter'[j] = counter[j]
         /\ \A t \in Tenants, w \in Windows : Lasting(counter', t, w)
<1>1. /\ counter \in [Tenants \X Windows -> [n : Nat, dies : Nat]]
      /\ clock \in 0..MaxClock /\ clock \in Nat /\ Ttl \in Nat /\ WindowLen \in Nat /\ Ttl > WindowLen
  BY RateLimitAssumption DEF RateInv, TypeOK
<1>2. /\ counter[k].n \in Nat /\ counter[k].dies \in Nat
      /\ script(counter[k]) \in [n : Nat, dies : Nat]
      /\ script(counter[k]).n = counter[k].n + 1
      /\ script(counter[k]).dies = IF counter[k].n = 0 THEN clock + Ttl ELSE counter[k].dies
  BY <1>1 DEF script
<1>3. /\ counter' \in [Tenants \X Windows -> [n : Nat, dies : Nat]]
      /\ counter'[k] = script(counter[k])
      /\ \A j \in Tenants \X Windows : j # k => counter'[j] = counter[j]
  BY <1>1, <1>2
<1>4. ASSUME NEW t \in Tenants, NEW w \in Windows PROVE Lasting(counter', t, w)
  <2>1. Lasting(counter, t, w) /\ <<t, w>> \in Tenants \X Windows
    BY DEF RateInv
  <2>2. CASE <<t, w>> # k
    <3>1. counter'[<<t, w>>] = counter[<<t, w>>]
      BY <1>3, <2>1, <2>2
    <3> QED BY <2>1, <3>1 DEF Lasting, Window
  <2>3. CASE <<t, w>> = k
    <3> SUFFICES ASSUME NEW c \in 0..MaxClock, Window(c) <= w PROVE c < counter'[k].dies
      BY <2>3 DEF Lasting, Window
    <3>1. CASE counter[k].n = 0
      <4>1. w \in Int /\ Window(c) \in Int /\ Window(clock) \in Int /\ w <= Window(clock) /\ c \in Nat
        BY <1>1, <2>3, WindowIsOne, RateLimitAssumption DEF Windows
      <4>2. c < clock + WindowLen
        BY <1>1, <4>1, WindowsApart
      <4> QED BY <1>1, <1>2, <1>3, <3>1, <4>1, <4>2
    <3>2. CASE counter[k].n # 0
      <4>1. counter[<<t, w>>].n > 0
        BY <1>2, <2>3, <3>2
      <4>2. c < counter[<<t, w>>].dies
        BY <2>1, <4>1 DEF Lasting
      <4> QED BY <1>2, <1>3, <2>3, <3>2, <4>2
    <3> QED BY <3>1, <3>2
  <2> QED BY <2>2, <2>3
<1> QED BY <1>2, <1>3, <1>4

(* A request let through.                                                   *)
LEMMA GrantKeeps ==
  ASSUME RateInv, NEW r \in Requests, req[r].pc = "eval", Grant(r, req[r].passes)
  PROVE  /\ req' \in [Requests -> Request \cup {New}]
         /\ req'[r].pc \in {"served", "guard"} /\ req'[r].at = clock
         /\ req'[r].pc = "guard" => req'[r].granted < req[r].passes
         /\ req'[r].tenant = req[r].tenant /\ req'[r].window = req[r].window
         /\ req'[r].passes = req[r].passes
         /\ \A q \in Requests : q # r => req'[q] = req[q]
<1> DEFINE pc == IF req[r].granted + 1 = req[r].passes THEN "served" ELSE "guard"
           new == [req[r] EXCEPT !.pc = pc, !.granted = req[r].granted + 1, !.at = clock]
<1>1. req' = [req EXCEPT ![r] = new]
  BY DEF Grant
<1>2. /\ TypeOK /\ req \in [Requests -> Request \cup {New}] /\ clock \in 0..MaxClock
      /\ req[r] \in Request /\ req[r].granted \in 0..2 /\ req[r].passes \in {1, 2}
      /\ req[r].granted < req[r].passes
  <2>1. TypeOK /\ req \in [Requests -> Request \cup {New}] /\ clock \in 0..MaxClock /\ Past(req, clock, r)
    BY DEF RateInv, TypeOK
  <2>2. req[r].pc # "new"
    OBVIOUS
  <2>3. req[r] \in Request /\ req[r] # New /\ req[r].granted \in 0..2 /\ req[r].passes \in Passes
    BY <2>1, <2>2, RequestFields, Zenon
  <2>4. req[r].granted < req[r].passes
    BY <2>1, <2>3 DEF Past
  <2> QED BY <2>1, <2>3, <2>4, RateLimitAssumption
<1>3. req[r].granted + 1 \in 0..2 /\ (pc = "guard" => req[r].granted + 1 < req[r].passes)
  BY <1>2
<1>4. pc \in {"served", "guard"}
  OBVIOUS
<1> HIDE DEF pc
<1>5. new \in Request
  BY <1>2, <1>3, <1>4 DEF Request
<1>6. /\ new.pc = pc /\ new.granted = req[r].granted + 1 /\ new.at = clock
      /\ new.tenant = req[r].tenant /\ new.window = req[r].window /\ new.passes = req[r].passes
  BY <1>2 DEF Request
<1> HIDE DEF new
<1> QED BY <1>1, <1>2, <1>3, <1>4, <1>5, <1>6

-----------------------------------------------------------------------------
(* Steps.                                                                   *)

(* A step after which no more requests are through, and no counter less.    *)
LEMMA NoMoreThrough ==
  ASSUME RateInv, TypeOK', clock' = clock,
         \A k \in Tenants \X Windows : counter'[k].n >= counter[k].n,
         \A t \in Tenants, w \in Windows : Lasting(counter', t, w),
         \A r \in Requests : Past(req', clock', r),
         \A t \in Tenants, w \in Windows : Through(req', t, w) \subseteq Through(req, t, w)
  PROVE  RateInv'
<1>1. ASSUME NEW t \in Tenants, NEW w \in Windows
      PROVE  /\ Cardinality(Through(req', t, w)) <= Cardinality(Through(req, t, w))
             /\ Cardinality(Through(req', t, w)) \in Nat /\ Cardinality(Through(req, t, w)) \in Nat
  BY ThroughIsFinite, FS_Subset, FS_CardinalityType
<1>2. ASSUME NEW t \in Tenants, NEW w \in Windows PROVE Cardinality(Through(req', t, w)) <= Limit[t]
  <2>1. Cardinality(Through(req, t, w)) <= Limit[t] /\ Limit[t] \in Nat
    BY RateLimitAssumption DEF RateInv
  <2> QED BY <1>1, <2>1
<1>3. ASSUME NEW t \in Tenants PROVE Counted(t)'
  <2>1. PICK w \in Windows : w = Window(clock)
    BY WindowIsOne DEF RateInv, TypeOK
  <2>2. Window(clock)' = w
    BY <2>1 DEF Window
  <2>3. /\ counter[<<t, w>>].n \in Nat /\ counter'[<<t, w>>].n \in Nat
        /\ counter'[<<t, w>>].n >= counter[<<t, w>>].n
    BY DEF RateInv, TypeOK
  <2>4. Cardinality(Through(req, t, w)) <= counter[<<t, w>>].n
    BY <2>1 DEF RateInv, Counted
  <2>5. Cardinality(Through(req', t, w)) <= counter'[<<t, w>>].n
    <3>1. /\ Cardinality(Through(req', t, w)) <= Cardinality(Through(req, t, w))
          /\ Cardinality(Through(req', t, w)) \in Nat /\ Cardinality(Through(req, t, w)) \in Nat
      BY <1>1
    <3> QED BY <2>3, <2>4, <3>1
  <2>6. Through(req', t, Window(clock)') = Through(req', t, w)
    BY <2>2 DEF Through
  <2> QED BY <2>2, <2>5, <2>6 DEF Counted
<1> QED BY <1>2, <1>3 DEF RateInv

(* Requests of which one has gone on without being let through.             *)
LEMMA NotThrough ==
  ASSUME NEW r \in Requests, req'[r].pc \notin {"guard", "served"},
         \A q \in Requests : q # r => req'[q] = req[q], NEW t, NEW w
  PROVE  Through(req', t, w) \subseteq Through(req, t, w)
BY DEF Through, Window

(* Others keep their past.                                                  *)
LEMMA PastKeeps ==
  ASSUME RateInv, clock' = clock, NEW q \in Requests, req'[q] = req[q]
  PROVE  Past(req', clock', q)
BY DEF RateInv, Past, Window

(* Counters that are not touched.                                           *)
LEMMA CountersStay ==
  ASSUME RateInv, counter' = counter
  PROVE  /\ \A k \in Tenants \X Windows : counter'[k].n >= counter[k].n
         /\ \A t \in Tenants, w \in Windows : Lasting(counter', t, w)
<1>1. ASSUME NEW k \in Tenants \X Windows PROVE counter'[k].n >= counter[k].n
  <2>1. counter[k].n \in Nat
    BY DEF RateInv, TypeOK
  <2> QED BY <2>1
<1>2. ASSUME NEW t \in Tenants, NEW w \in Windows PROVE Lasting(counter', t, w)
  BY DEF RateInv, Lasting, Window
<1> QED BY <1>1, <1>2

(* A request comes.                                                         *)
LEMMA ArriveKeeps ==
  ASSUME RateInv, NEW r \in Requests, Arrive(r)
  PROVE  RateInv'
<1>1. PICK t \in Tenants, p \in Passes :
        req' = [req EXCEPT ![r] = [pc |-> "eval", tenant |-> t, passes |-> p, granted |-> 0,
                                   window |-> Window(clock), counted |-> {Window(clock)}, at |-> clock]]
  BY DEF Arrive
<1> DEFINE new == [pc |-> "eval", tenant |-> t, passes |-> p, granted |-> 0,
                   window |-> Window(clock), counted |-> {Window(clock)}, at |-> clock]
<1>2. UNCHANGED <<clock, counter, calls, tracking>>
  BY DEF Arrive
<1>3. TypeOK /\ clock \in 0..MaxClock /\ Window(clock) \in Windows /\ p \in {1, 2}
  BY WindowIsOne, RateLimitAssumption DEF RateInv, TypeOK
<1>4. new \in Request
  BY <1>3, RateLimitAssumption DEF Request
<1>5. /\ new.pc = "eval" /\ new.at = clock /\ new.window = Window(clock)
      /\ new.granted = 0 /\ new.passes = p
  OBVIOUS
<1> HIDE DEF new
<1>6. /\ req' \in [Requests -> Request \cup {New}] /\ req'[r] = new
      /\ \A q \in Requests : q # r => req'[q] = req[q]
  BY <1>1, <1>3, <1>4 DEF TypeOK, new
<1>7. TypeOK'
  BY <1>2, <1>3, <1>6 DEF TypeOK
<1>8. Past(req', clock', r)
  <2>1. Window(clock) <= Window(clock) /\ clock <= clock /\ 0 < p
    BY <1>3, RateLimitAssumption DEF Windows
  <2> QED BY <1>2, <1>5, <1>6, <2>1 DEF Past, Window
<1>9. \A q \in Requests : Past(req', clock', q)
  BY <1>2, <1>6, <1>8, PastKeeps
<1>10. \A v \in Tenants, w \in Windows : Through(req', v, w) \subseteq Through(req, v, w)
  BY <1>5, <1>6, NotThrough
<1>11. /\ \A k \in Tenants \X Windows : counter'[k].n >= counter[k].n
       /\ \A v \in Tenants, w \in Windows : Lasting(counter', v, w)
  BY <1>2, CountersStay
<1> QED BY <1>2, <1>7, <1>9, <1>10, <1>11, NoMoreThrough

(* A request comes to the guard of its controller.                          *)
LEMMA PassAgainKeeps ==
  ASSUME RateInv, NEW r \in Requests, PassAgain(r)
  PROVE  RateInv'
<1> DEFINE new == [req[r] EXCEPT !.pc = "eval", !.window = Window(clock),
                                 !.counted = req[r].counted \cup {Window(clock)}]
<1>1. req' = [req EXCEPT ![r] = new] /\ UNCHANGED <<clock, counter, calls, tracking>>
  BY DEF PassAgain
<1>2. TypeOK /\ clock \in 0..MaxClock /\ Window(clock) \in Windows /\ req[r].pc = "guard" /\ Past(req, clock, r)
  BY WindowIsOne DEF RateInv, TypeOK, PassAgain
<1>3. req[r] \in Request /\ req[r] # New
  BY <1>2, RequestFields
<1>4. new \in Request
  BY <1>2, <1>3 DEF Request
<1>5. /\ new.pc = "eval" /\ new.window = Window(clock) /\ new.at = req[r].at
      /\ new.granted = req[r].granted /\ new.passes = req[r].passes
  BY <1>3 DEF Request
<1> HIDE DEF new
<1>6. /\ req' \in [Requests -> Request \cup {New}] /\ req'[r] = new
      /\ \A q \in Requests : q # r => req'[q] = req[q]
  BY <1>1, <1>2, <1>4 DEF TypeOK
<1>7. TypeOK'
  BY <1>1, <1>2, <1>6 DEF TypeOK
<1>8. Past(req', clock', r)
  <2>1. Window(clock) <= Window(clock)
    BY <1>2, RateLimitAssumption DEF Windows
  <2>2. req[r].at <= clock /\ req[r].granted < req[r].passes
    BY <1>2, <1>3 DEF Past
  <2> QED BY <1>1, <1>5, <1>6, <2>1, <2>2 DEF Past, Window
<1>9. \A q \in Requests : Past(req', clock', q)
  BY <1>1, <1>6, <1>8, PastKeeps
<1>10. \A v \in Tenants, w \in Windows : Through(req', v, w) \subseteq Through(req, v, w)
  BY <1>5, <1>6, NotThrough
<1>11. /\ \A k \in Tenants \X Windows : counter'[k].n >= counter[k].n
       /\ \A v \in Tenants, w \in Windows : Lasting(counter', v, w)
  BY <1>1, CountersStay
<1> QED BY <1>1, <1>7, <1>9, <1>10, <1>11, NoMoreThrough

(* A run of the guard: the request is counted, and let through only if      *)
(* there is room.                                                           *)
LEMMA EvalKeeps ==
  ASSUME RateInv, NEW r \in Requests, Eval(r)
  PROVE  RateInv'
<1> DEFINE k == windowKey(r)
           t == req[r].tenant
           w == req[r].window
           count == counter[k].n + 1
<1>1. /\ req[r].pc = "eval" /\ UNCHANGED <<clock, calls>>
      /\ counter' = [counter EXCEPT ![k] = script(@)]
  BY DEF Eval
<1>2. /\ TypeOK /\ Past(req, clock, r) /\ clock \in 0..MaxClock /\ Window(clock) \in Windows
      /\ req \in [Requests -> Request \cup {New}]
  BY WindowIsOne DEF RateInv, TypeOK
<1>3. /\ req[r] \in Request /\ req[r] # New /\ t \in Tenants /\ w \in Windows
      /\ k = <<t, w>> /\ k \in Tenants \X Windows
  BY <1>1, <1>2, RequestFields
<1>4. w <= Window(clock)
  BY <1>2, <1>3 DEF Past
<1>5. /\ counter' \in [Tenants \X Windows -> [n : Nat, dies : Nat]]
      /\ counter'[k].n = count
      /\ \A j \in Tenants \X Windows : j # k => counter'[j] = counter[j]
      /\ \A v \in Tenants, x \in Windows : Lasting(counter', v, x)
  <2>1. k[2] <= Window(clock) /\ clock' = clock
    BY <1>1, <1>3, <1>4
  <2>2. /\ counter' \in [Tenants \X Windows -> [n : Nat, dies : Nat]]
        /\ counter'[k].n = counter[k].n + 1
        /\ \A j \in Tenants \X Windows : j # k => counter'[j] = counter[j]
        /\ \A v \in Tenants, x \in Windows : Lasting(counter', v, x)
    <3> HIDE DEF k
    <3> QED BY <1>1, <1>3, <2>1, ScriptCounts, Zenon
  <2> QED BY <2>2
<1>6. \A j \in Tenants \X Windows : counter[j].n \in Nat /\ counter'[j].n >= counter[j].n
  BY <1>2, <1>5 DEF TypeOK
<1>7. CASE req' = [req EXCEPT ![r].pc = "refused"] /\ UNCHANGED tracking
  <2>1. [req[r] EXCEPT !.pc = "refused"] \in Request /\ [req[r] EXCEPT !.pc = "refused"].pc = "refused"
        /\ [req[r] EXCEPT !.pc = "refused"].at = req[r].at
        /\ [req[r] EXCEPT !.pc = "refused"].window = req[r].window
    BY <1>3 DEF Request
  <2>2. /\ req' \in [Requests -> Request \cup {New}] /\ req'[r] = [req[r] EXCEPT !.pc = "refused"]
        /\ \A q \in Requests : q # r => req'[q] = req[q]
    BY <1>2, <1>7, <2>1
  <2>3. TypeOK'
    BY <1>1, <1>2, <1>5, <1>7, <2>2 DEF TypeOK
  <2>4. Past(req', clock', r)
    BY <1>1, <1>2, <1>3, <2>1, <2>2 DEF Past, Window
  <2>5. \A q \in Requests : Past(req', clock', q)
    BY <1>1, <2>2, <2>4, PastKeeps
  <2>6. \A v \in Tenants, x \in Windows : Through(req', v, x) \subseteq Through(req, v, x)
    BY <2>1, <2>2, NotThrough
  <2> QED BY <1>1, <1>5, <1>6, <2>3, <2>5, <2>6, NoMoreThrough
<1>8. CASE ~tooMany(count, t) /\ Grant(r, req[r].passes) /\ tracking' = [tracking EXCEPT ![t] = @ + 1]
  <2>1. /\ req' \in [Requests -> Request \cup {New}]
        /\ req'[r].pc \in {"served", "guard"} /\ req'[r].at = clock
        /\ req'[r].pc = "guard" => req'[r].granted < req[r].passes
        /\ req'[r].tenant = t /\ req'[r].window = w
        /\ req'[r].passes = req[r].passes
        /\ \A q \in Requests : q # r => req'[q] = req[q]
    BY <1>1, <1>8, GrantKeeps
  <2>2. count <= Limit[t] /\ Limit[t] \in Nat /\ count \in Nat /\ counter[k].n \in Nat
    BY <1>3, <1>6, <1>8, RateLimitAssumption DEF tooMany
  <2>3. tracking' \in [Tenants -> Nat]
    BY <1>2, <1>3, <1>8 DEF TypeOK
  <2>4. TypeOK'
    BY <1>1, <1>2, <1>5, <2>1, <2>3 DEF TypeOK
  <2>5. Past(req', clock', r)
    <3>1. clock <= clock
      BY <1>2, RateLimitAssumption
    <3> QED BY <1>1, <1>4, <2>1, <3>1 DEF Past, Window
  <2>6. \A q \in Requests : Past(req', clock', q)
    BY <1>1, <2>1, <2>5, PastKeeps
  <2>7. ASSUME NEW v \in Tenants, NEW x \in Windows
        PROVE  \/ Through(req', v, x) \subseteq Through(req, v, x)
               \/ v = t /\ x = w /\ x = Window(clock) /\ Through(req', v, x) \subseteq Through(req, v, x) \cup {r}
    BY <1>1, <2>1 DEF Through, Window
  <2>8. ASSUME NEW v \in Tenants, NEW x \in Windows
        PROVE  /\ Cardinality(Through(req', v, x)) \in Nat /\ Cardinality(Through(req, v, x)) \in Nat
               /\ \/ Cardinality(Through(req', v, x)) <= Cardinality(Through(req, v, x))
                  \/ /\ v = t /\ x = w /\ x = Window(clock)
                     /\ Cardinality(Through(req', v, x)) <= Cardinality(Through(req, v, x)) + 1
    <3>1. /\ IsFiniteSet(Through(req, v, x)) /\ IsFiniteSet(Through(req', v, x))
          /\ Cardinality(Through(req', v, x)) \in Nat /\ Cardinality(Through(req, v, x)) \in Nat
      BY ThroughIsFinite, FS_CardinalityType
    <3>2. CASE Through(req', v, x) \subseteq Through(req, v, x)
      BY <3>1, <3>2, FS_Subset
    <3>3. CASE v = t /\ x = w /\ x = Window(clock) /\ Through(req', v, x) \subseteq Through(req, v, x) \cup {r}
      <4>1. /\ IsFiniteSet(Through(req, v, x) \cup {r})
            /\ Cardinality(Through(req, v, x) \cup {r}) <= Cardinality(Through(req, v, x)) + 1
            /\ Cardinality(Through(req, v, x) \cup {r}) \in Nat
        <5>1. /\ IsFiniteSet(Through(req, v, x) \cup {r})
              /\ Cardinality(Through(req, v, x) \cup {r}) =
                   IF r \in Through(req, v, x) THEN Cardinality(Through(req, v, x))
                   ELSE Cardinality(Through(req, v, x)) + 1
          BY <3>1, FS_AddElement, Zenon
        <5> QED BY <3>1, <5>1
      <4>2. Cardinality(Through(req', v, x)) <= Cardinality(Through(req, v, x) \cup {r})
        BY <3>3, <4>1, FS_Subset
      <4> QED BY <3>1, <3>3, <4>1, <4>2
    <3> QED BY <2>7, <3>2, <3>3
  <2>9. ASSUME NEW v \in Tenants, NEW x \in Windows, x = Window(clock)
        PROVE  Cardinality(Through(req', v, x)) <= counter'[<<v, x>>].n
    <3>1. Cardinality(Through(req, v, x)) <= counter[<<v, x>>].n
      BY <2>9 DEF RateInv, Counted
    <3>2. <<v, x>> \in Tenants \X Windows /\ (v = t /\ x = w => <<v, x>> = k)
      BY <1>3
    <3>3. counter[<<v, x>>].n \in Nat /\ counter'[<<v, x>>].n \in Nat /\ counter'[<<v, x>>].n >= counter[<<v, x>>].n
      BY <1>5, <1>6, <3>2
    <3>4. v = t /\ x = w => counter'[<<v, x>>].n = counter[<<v, x>>].n + 1
      BY <1>5, <3>2
    <3> QED BY <2>8, <3>1, <3>3, <3>4
  <2>10. ASSUME NEW v \in Tenants, NEW x \in Windows PROVE Cardinality(Through(req', v, x)) <= Limit[v]
    <3>1. Cardinality(Through(req, v, x)) <= Limit[v] /\ Limit[v] \in Nat
      BY RateLimitAssumption DEF RateInv
    <3>2. CASE Cardinality(Through(req', v, x)) <= Cardinality(Through(req, v, x))
      BY <2>8, <3>1, <3>2
    <3>3. CASE v = t /\ x = w /\ x = Window(clock)
      <4>1. Cardinality(Through(req', v, x)) <= counter'[<<v, x>>].n
        BY <2>9, <3>3
      <4>2. counter'[<<v, x>>].n = count
        BY <1>3, <1>5, <3>3
      <4> QED BY <2>2, <2>8, <3>3, <4>1, <4>2
    <3> QED BY <2>8, <3>2, <3>3
  <2>11. ASSUME NEW v \in Tenants PROVE Counted(v)'
    <3>1. PICK x \in Windows : x = Window(clock)
      BY <1>2
    <3>2. Window(clock)' = x
      BY <1>1, <3>1 DEF Window
    <3>3. Through(req', v, Window(clock)') = Through(req', v, x)
      BY <3>2 DEF Through
    <3> QED BY <2>9, <3>1, <3>2, <3>3 DEF Counted
  <2> QED BY <1>5, <2>4, <2>6, <2>10, <2>11 DEF RateInv
<1> QED BY <1>7, <1>8 DEF Eval, Pass

(* The connection breaks: the request is through no more, and perhaps       *)
(* counted.                                                                 *)
LEMMA EvalFailsKeeps ==
  ASSUME RateInv, NEW r \in Requests, EvalFails(r)
  PROVE  RateInv'
<1> DEFINE k == windowKey(r)
           new == [req[r] EXCEPT !.pc = "failed"]
<1>1. /\ req[r].pc = "eval" /\ UNCHANGED <<clock, calls, tracking>>
      /\ req' = [req EXCEPT ![r] = new]
      /\ counter' = counter \/ counter' = [counter EXCEPT ![k] = script(@)]
  BY DEF EvalFails
<1>2. TypeOK /\ Past(req, clock, r)
  BY DEF RateInv
<1>3. /\ req[r] \in Request /\ req[r] # New /\ req[r].window \in Windows
      /\ k = <<req[r].tenant, req[r].window>> /\ k \in Tenants \X Windows
  BY <1>1, <1>2, RequestFields
<1>4. /\ new \in Request /\ new.pc = "failed"
      /\ new.at = req[r].at /\ new.window = req[r].window
  BY <1>3 DEF Request
<1>5. k[2] <= Window(clock)
  BY <1>2, <1>3 DEF Past
<1> HIDE DEF k, new
<1>6. /\ req' \in [Requests -> Request \cup {New}] /\ req'[r] = new
      /\ \A q \in Requests : q # r => req'[q] = req[q]
  BY <1>1, <1>2, <1>4 DEF TypeOK
<1>7. /\ counter' \in [Tenants \X Windows -> [n : Nat, dies : Nat]]
      /\ \A j \in Tenants \X Windows : counter'[j].n >= counter[j].n
      /\ \A v \in Tenants, w \in Windows : Lasting(counter', v, w)
  <2>1. CASE counter' = counter
    BY <1>2, <2>1, CountersStay DEF TypeOK
  <2>2. CASE counter' = [counter EXCEPT ![k] = script(@)]
    <3>1. /\ counter' \in [Tenants \X Windows -> [n : Nat, dies : Nat]]
          /\ counter'[k].n = counter[k].n + 1
          /\ \A j \in Tenants \X Windows : j # k => counter'[j] = counter[j]
          /\ \A v \in Tenants, w \in Windows : Lasting(counter', v, w)
      BY <1>1, <1>3, <1>5, <2>2, ScriptCounts, Zenon
    <3>2. \A j \in Tenants \X Windows : counter[j].n \in Nat
      BY <1>2 DEF TypeOK
    <3> QED BY <3>1, <3>2
  <2> QED BY <1>1, <2>1, <2>2
<1>8. TypeOK'
  BY <1>1, <1>2, <1>6, <1>7 DEF TypeOK
<1>9. Past(req', clock', r)
  BY <1>1, <1>2, <1>3, <1>4, <1>6 DEF Past
<1>10. \A q \in Requests : Past(req', clock', q)
  BY <1>1, <1>6, <1>9, PastKeeps
<1>11. \A v \in Tenants, w \in Windows : Through(req', v, w) \subseteq Through(req, v, w)
  BY <1>4, <1>6, NotThrough
<1> QED BY <1>1, <1>7, <1>8, <1>10, <1>11, NoMoreThrough

(* The usage is counted, the guard does not look at it.                     *)
LEMMA TrackKeeps ==
  ASSUME RateInv, NEW t \in Tenants, trackApiCall(t)
  PROVE  RateInv'
<1>1. /\ UNCHANGED <<clock, counter, req>> /\ tracking[t] > 0
      /\ tracking' = [tracking EXCEPT ![t] = @ - 1]
      /\ calls' = [calls EXCEPT ![t] = @ + 1] \/ calls' = calls
  BY DEF trackApiCall
<1>2. TypeOK'
  BY <1>1 DEF RateInv, TypeOK
<1>3. \A r \in Requests : Past(req', clock', r)
  BY <1>1 DEF RateInv
<1>4. \A v \in Tenants, w \in Windows : Through(req', v, w) \subseteq Through(req, v, w)
  BY <1>1
<1> QED BY <1>1, <1>2, <1>3, <1>4, CountersStay, NoMoreThrough

(* Time passes: what expires is of a window that is over, and in a new      *)
(* window nobody is through.                                                *)
LEMMA TickKeeps ==
  ASSUME RateInv, Tick
  PROVE  RateInv'
<1> DEFINE now == clock + 1
<1>1. /\ clock < MaxClock /\ clock' = now
      /\ counter' = [k \in Tenants \X Windows |-> IF counter[k].dies <= clock' THEN NoCounter ELSE counter[k]]
      /\ UNCHANGED <<req, calls, tracking>>
  BY DEF Tick
<1>2. /\ TypeOK /\ clock \in 0..MaxClock /\ clock \in Nat /\ now \in 0..MaxClock /\ now \in Nat
  BY <1>1, RateLimitAssumption DEF RateInv, TypeOK
<1>3. /\ Window(clock) \in Windows /\ Window(now) \in Windows /\ Window(clock) <= Window(now)
  BY <1>2, WindowIsOne, WindowOrder
<1> HIDE DEF now
<1>4. \A k \in Tenants \X Windows :
        /\ counter[k] \in [n : Nat, dies : Nat] /\ counter'[k] \in [n : Nat, dies : Nat]
        /\ counter'[k] = counter[k] \/ (counter'[k].n = 0 /\ counter[k].dies <= now)
  <2>1. NoCounter \in [n : Nat, dies : Nat] /\ NoCounter.n = 0
    BY DEF NoCounter
  <2> QED BY <1>1, <1>2, <2>1 DEF TypeOK
<1>5. TypeOK'
  BY <1>1, <1>2, <1>4 DEF TypeOK
<1>6. \A r \in Requests : Past(req', clock', r)
  <2> SUFFICES ASSUME NEW r \in Requests, req[r] # New
               PROVE  /\ req[r].at <= now /\ req[r].window <= Window(now)
                      /\ req[r].pc \in {"guard", "eval"} => req[r].granted < req[r].passes
    BY <1>1 DEF Past
  <2>1. /\ req[r] \in Request
        /\ req[r].at <= clock /\ req[r].window <= Window(clock)
        /\ req[r].pc \in {"guard", "eval"} => req[r].granted < req[r].passes
    BY <1>2 DEF RateInv, TypeOK, Past
  <2>2. req[r].at \in Int /\ req[r].window \in Int /\ Window(clock) \in Int /\ Window(now) \in Int
    BY <1>3, <2>1, RateLimitAssumption DEF Request, Windows
  <2> QED BY <1>2, <1>3, <2>1, <2>2 DEF now
<1>7. \A t \in Tenants, w \in Windows : Lasting(counter', t, w)
  <2> SUFFICES ASSUME NEW t \in Tenants, NEW w \in Windows, counter'[<<t, w>>].n > 0,
                      NEW c \in 0..MaxClock, Window(c) <= w
               PROVE  c < counter'[<<t, w>>].dies
    BY DEF Lasting
  <2>1. counter'[<<t, w>>] = counter[<<t, w>>]
    BY <1>4
  <2> QED BY <2>1 DEF RateInv, Lasting
<1>8. \A t \in Tenants, w \in Windows : Cardinality(Through(req', t, w)) <= Limit[t]
  BY <1>1 DEF RateInv
<1>9. ASSUME NEW t \in Tenants PROVE Counted(t)'
  <2>1. PICK w \in Windows : w = Window(now)
    BY <1>3
  <2>2. w \in Int /\ Window(clock) \in Int /\ Window(clock) <= w
    BY <1>3, <2>1, RateLimitAssumption DEF Windows
  <2>3. Cardinality(Through(req, t, w)) <= counter'[<<t, w>>].n
    <3>1. CASE Window(clock) = w
      <4>1. Cardinality(Through(req, t, w)) <= counter[<<t, w>>].n /\ Lasting(counter, t, w)
        BY <3>1 DEF RateInv, Counted
      <4>2. counter'[<<t, w>>].n = counter[<<t, w>>].n
        <5>1. CASE counter'[<<t, w>>] = counter[<<t, w>>]
          BY <5>1
        <5>2. CASE counter'[<<t, w>>].n = 0 /\ counter[<<t, w>>].dies <= now
          <6>1. counter[<<t, w>>].n \in Nat /\ counter[<<t, w>>].dies \in Nat /\ Window(now) <= w
            BY <1>4, <2>1, <2>2
          <6>2. ~(now < counter[<<t, w>>].dies)
            BY <1>2, <5>2, <6>1
          <6>3. ~(counter[<<t, w>>].n > 0)
            BY <1>2, <4>1, <6>1, <6>2 DEF Lasting
          <6> QED BY <5>2, <6>1, <6>3
        <5> QED BY <1>4, <5>1, <5>2
      <4> QED BY <4>1, <4>2
    <3>2. CASE Window(clock) # w
      <4>1. ASSUME NEW r \in Through(req, t, w) PROVE FALSE
        <5>1. r \in Requests /\ req[r].pc \in {"guard", "served"} /\ Window(req[r].at) = w
          BY DEF Through
        <5>2. req[r] # New /\ req[r].at \in 0..MaxClock /\ req[r].at <= clock
          <6>1. req[r].pc # "new"
            BY <5>1
          <6>2. req[r] # New /\ req[r].at \in 0..MaxClock
            BY <1>2, <5>1, <6>1, RequestFields, Zenon
          <6> QED BY <5>1, <6>2 DEF RateInv, Past
        <5>3. req[r].at \in Nat /\ Window(req[r].at) <= Window(clock)
          BY <1>2, <5>2, WindowOrder, RateLimitAssumption
        <5> QED BY <2>2, <3>2, <5>1, <5>3
      <4>2. Cardinality(Through(req, t, w)) = 0
        BY <4>1, FS_EmptySet
      <4>3. counter'[<<t, w>>].n \in Nat
        BY <1>4
      <4> QED BY <4>2, <4>3
    <3> QED BY <3>1, <3>2
  <2> QED BY <1>1, <2>1, <2>3 DEF Counted
<1> QED BY <1>5, <1>6, <1>7, <1>8, <1>9 DEF RateInv

-----------------------------------------------------------------------------

(* The invariant holds at first.                                            *)
LEMMA InitRate == Init => RateInv
<1> SUFFICES ASSUME Init PROVE RateInv
  OBVIOUS
<1>1. TypeOK
  <2>1. NoCounter \in [n : Nat, dies : Nat]
    BY DEF NoCounter
  <2>2. /\ clock \in 0..MaxClock
        /\ counter \in [Tenants \X Windows -> [n : Nat, dies : Nat]]
        /\ req \in [Requests -> Request \cup {New}]
        /\ calls \in [Tenants -> Nat] /\ tracking \in [Tenants -> Nat]
    BY <2>1, RateLimitAssumption DEF Init
  <2> QED BY <2>2 DEF TypeOK
<1>2. \A r \in Requests : Past(req, clock, r)
  BY DEF Init, Past
<1>3. \A k \in Tenants \X Windows : counter[k].n = 0
  BY DEF Init, NoCounter
<1>4. \A t \in Tenants, w \in Windows : Lasting(counter, t, w)
  BY <1>3 DEF Lasting
<1>5. \A t, w : Through(req, t, w) = {}
  BY DEF Init, Through, New
<1>6. \A t \in Tenants, w \in Windows : Cardinality(Through(req, t, w)) <= Limit[t]
  <2>1. \A t \in Tenants : 0 <= Limit[t]
    BY RateLimitAssumption
  <2> QED BY <1>5, <2>1, FS_EmptySet
<1>7. \A t \in Tenants : Counted(t)
  <2>1. Window(clock) \in Windows
    BY <1>1, WindowIsOne DEF TypeOK
  <2> QED BY <1>3, <1>5, <2>1, FS_EmptySet DEF Counted
<1> QED BY <1>1, <1>2, <1>4, <1>6, <1>7 DEF RateInv

(* The invariant is inductive.                                              *)
LEMMA NextRate == RateInv /\ [Next]_vars => RateInv'
<1> SUFFICES ASSUME RateInv, [Next]_vars PROVE RateInv'
  OBVIOUS
<1>1. ASSUME NEW r \in Requests, Handle(r) PROVE RateInv'
  BY <1>1, ArriveKeeps, PassAgainKeeps, EvalKeeps, EvalFailsKeeps DEF Handle
<1>2. ASSUME NEW t \in Tenants, trackApiCall(t) PROVE RateInv'
  BY <1>2, TrackKeeps
<1>3. CASE Tick
  BY <1>3, TickKeeps
<1>4. CASE UNCHANGED vars
  BY <1>4 DEF vars, RateInv, TypeOK, Counted, Window
<1> QED BY <1>1, <1>2, <1>3, <1>4 DEF Next

(* RateInv holds in every reachable state.                                  *)
THEOREM RateCorrect == Spec => []RateInv
BY InitRate, NextRate, PTL DEF Spec

(* Counters and requests keep their types; no request passes the guard      *)
(* oftener than it is registered.                                           *)
THEOREM TypeCorrect == Spec => []TypeOK
<1>1. RateInv => TypeOK
  BY DEF RateInv
<1> QED BY <1>1, RateCorrect, PTL

(* For any number of tenants and requests, every limit and every length of  *)
(* the window that is shorter than the counters' time to live: the guards   *)
(* let no more than apiRateLimit requests of a tenant through in a window   *)
(* (rate-limit.guard.ts:41 to 71).                                          *)
THEOREM WindowWithinLimitHolds == Spec => []WindowWithinLimit
<1>1. RateInv => WindowWithinLimit
  <2> SUFFICES ASSUME RateInv, NEW t \in Tenants, NEW w \in Windows
               PROVE  Cardinality({r \in Served(t) : req[r].window = w /\ Window(req[r].at) = w}) <= Limit[t]
    BY DEF WindowWithinLimit
  <2> DEFINE served == {r \in Served(t) : req[r].window = w /\ Window(req[r].at) = w}
  <2>1. served \subseteq Through(req, t, w)
    BY DEF Served, Through
  <2> HIDE DEF served
  <2>2. /\ Cardinality(served) <= Cardinality(Through(req, t, w))
        /\ Cardinality(served) \in Nat /\ Cardinality(Through(req, t, w)) \in Nat
    BY <2>1, ThroughIsFinite, FS_Subset, FS_CardinalityType
  <2>3. Cardinality(Through(req, t, w)) <= Limit[t] /\ Limit[t] \in Nat
    BY RateLimitAssumption DEF RateInv
  <2> QED BY <2>2, <2>3 DEF served
<1> QED BY <1>1, RateCorrect, PTL

-----------------------------------------------------------------------------
(* What the counters count.                                                 *)

(* How often the guard ran for a request, and what a request that goes on   *)
(* keeps.                                                                   *)
Done(q) == q.granted + IF q.pc \in {"refused", "failed"} THEN 1 ELSE 0

Further(a, b) ==
  a # New => /\ b.tenant = a.tenant /\ b.passes = a.passes /\ a.counted \subseteq b.counted
             /\ a.granted <= b.granted /\ Done(a) <= Done(b)

CountedIn(q, t, w) == q # New /\ q.tenant = t /\ w \in q.counted

(* The runs of requests that were counted in window w of t at some time.    *)
Runs(t, w) == [r \in Requests |-> IF CountedIn(req[r], t, w) THEN Done(req[r]) ELSE 0]

(* A counter counts runs of requests of its tenant and its window.          *)
TrafficInv ==
  /\ \A r \in Requests : req[r] # New =>
       Done(req[r]) <= req[r].passes /\ req[r].window \in req[r].counted
  /\ \A t \in Tenants, w \in Windows : counter[<<t, w>>].n <= SumFunctionOnSet(Runs(t, w), Requests)
  /\ RefusedByOwnTraffic
  /\ CallsWereGranted

(* All that is added up are naturals.                                       *)
LEMMA Tallies ==
  ASSUME TypeOK, NEW r \in Requests, NEW t, NEW w
  PROVE  /\ Runs(t, w)[r] \in Nat /\ Traffic(t, w)[r] \in Nat /\ Granted(t)[r] \in Nat
         /\ req[r] # New => Done(req[r]) \in Nat /\ req[r].passes \in Nat /\ req[r].granted \in Nat
<1>1. ASSUME req[r] # New
      PROVE  Done(req[r]) \in Nat /\ req[r].passes \in Nat /\ req[r].granted \in Nat
  <2>1. req[r] \in Request
    BY <1>1 DEF TypeOK
  <2>2. req[r].granted \in Nat /\ req[r].passes \in Passes
    BY <2>1 DEF Request
  <2>3. req[r].passes \in {1, 2}
    BY <2>2, RateLimitAssumption
  <2> QED BY <2>2, <2>3 DEF Done
<1> QED BY <1>1 DEF Runs, Traffic, Granted, CountedIn

(* The same of the next state.                                              *)
LEMMA TalliesNow ==
  ASSUME TypeOK', NEW r \in Requests, NEW t, NEW w
  PROVE  Runs(t, w)'[r] \in Nat /\ Traffic(t, w)'[r] \in Nat /\ Granted(t)'[r] \in Nat
<1>1. ASSUME req'[r] # New
      PROVE  Done(req'[r]) \in Nat /\ req'[r].passes \in Nat /\ req'[r].granted \in Nat
  <2>1. req'[r] \in Request
    BY <1>1 DEF TypeOK
  <2>2. req'[r].granted \in Nat /\ req'[r].passes \in Passes
    BY <2>1 DEF Request
  <2>3. req'[r].passes \in {1, 2}
    BY <2>2, RateLimitAssumption
  <2> QED BY <2>2, <2>3 DEF Done
<1> QED BY <1>1 DEF Runs, Traffic, Granted, CountedIn

(* What one request does does not change what is added up for the others,   *)
(* and nothing that is added up shrinks.                                    *)
LEMMA TalliesGrow ==
  ASSUME TypeOK, TypeOK', NEW r \in Requests, \A q \in Requests : q # r => req'[q] = req[q],
         req'[r] # New, Further(req[r], req'[r]), NEW t, NEW w
  PROVE  /\ \A q \in Requests : q # r => /\ Runs(t, w)'[q] = Runs(t, w)[q]
                                         /\ Traffic(t, w)'[q] = Traffic(t, w)[q]
                                         /\ Granted(t)'[q] = Granted(t)[q]
         /\ \A q \in Requests : /\ Runs(t, w)[q] <= Runs(t, w)'[q]
                                /\ Traffic(t, w)[q] <= Traffic(t, w)'[q]
                                /\ Granted(t)[q] <= Granted(t)'[q]
<1>1. \A q \in Requests : q # r => /\ Runs(t, w)'[q] = Runs(t, w)[q]
                                   /\ Traffic(t, w)'[q] = Traffic(t, w)[q]
                                   /\ Granted(t)'[q] = Granted(t)[q]
  BY DEF Runs, Traffic, Granted, CountedIn
<1>2. \A q \in Requests : /\ Runs(t, w)[q] \in Nat /\ Runs(t, w)'[q] \in Nat
                          /\ Traffic(t, w)[q] \in Nat /\ Traffic(t, w)'[q] \in Nat
                          /\ Granted(t)[q] \in Nat /\ Granted(t)'[q] \in Nat
  BY Tallies, TalliesNow
<1>3. CASE req[r] = New
  <2>1. Runs(t, w)[r] = 0 /\ Traffic(t, w)[r] = 0 /\ Granted(t)[r] = 0
    BY <1>3 DEF Runs, Traffic, Granted, CountedIn
  <2>2. ASSUME NEW q \in Requests
        PROVE  /\ Runs(t, w)[q] <= Runs(t, w)'[q]
               /\ Traffic(t, w)[q] <= Traffic(t, w)'[q]
               /\ Granted(t)[q] <= Granted(t)'[q]
    BY <1>1, <1>2, <2>1
  <2> QED BY <1>1, <2>2
<1>4. CASE req[r] # New
  <2>1. /\ req'[r].tenant = req[r].tenant /\ req'[r].passes = req[r].passes
        /\ req[r].counted \subseteq req'[r].counted
        /\ req[r].granted <= req'[r].granted /\ Done(req[r]) <= Done(req'[r])
    BY <1>4 DEF Further
  <2>2. Runs(t, w)[r] <= Runs(t, w)'[r]
    <3>1. CASE CountedIn(req[r], t, w)
      <4>1. CountedIn(req'[r], t, w)
        BY <2>1, <3>1 DEF CountedIn
      <4>2. Runs(t, w)[r] = Done(req[r]) /\ Runs(t, w)'[r] = Done(req'[r])
        BY <3>1, <4>1 DEF Runs
      <4> QED BY <2>1, <4>2
    <3>2. CASE ~CountedIn(req[r], t, w)
      <4>1. Runs(t, w)[r] = 0
        BY <3>2 DEF Runs
      <4> QED BY <1>2, <4>1
    <3> QED BY <3>1, <3>2
  <2>3. Traffic(t, w)[r] <= Traffic(t, w)'[r]
    <3>1. Traffic(t, w)[r] = Traffic(t, w)'[r] \/ Traffic(t, w)[r] = 0
      BY <2>1 DEF Traffic
    <3> QED BY <1>2, <3>1
  <2>4. Granted(t)[r] <= Granted(t)'[r]
    <3>1. CASE req[r].tenant = t
      BY <1>4, <2>1, <3>1 DEF Granted
    <3>2. CASE req[r].tenant # t
      <4>1. Granted(t)[r] = 0
        BY <3>2 DEF Granted
      <4> QED BY <1>2, <4>1
    <3> QED BY <3>1, <3>2
  <2>5. ASSUME NEW q \in Requests
        PROVE  /\ Runs(t, w)[q] <= Runs(t, w)'[q]
               /\ Traffic(t, w)[q] <= Traffic(t, w)'[q]
               /\ Granted(t)[q] <= Granted(t)'[q]
    BY <1>1, <1>2, <2>2, <2>3, <2>4
  <2> QED BY <1>1, <2>5
<1> QED BY <1>3, <1>4

(* What a step of a request does to it, to the counters and to the usage.   *)
Steps(r) ==
  LET a == req[r]
      b == req'[r]
      k == <<b.tenant, b.window>>
  IN /\ \A q \in Requests : q # r => req'[q] = req[q]
     /\ b # New /\ Further(a, b) /\ a.pc \notin {"refused", "failed", "served"}
     /\ b.tenant \in Tenants /\ b.window \in Windows /\ b.window \in b.counted /\ Done(b) <= b.passes
     /\ \/ counter' = counter
        \/ /\ a # New /\ b.window \in a.counted /\ Done(b) = Done(a) + 1
           /\ counter'[k].n = counter[k].n + 1
           /\ \A j \in Tenants \X Windows : j # k => counter'[j] = counter[j]
     /\ calls' = calls
     /\ \/ tracking' = tracking
        \/ /\ a # New /\ b.granted = a.granted + 1
           /\ tracking' = [tracking EXCEPT ![b.tenant] = @ + 1]
     /\ b.pc = "refused" =>
          /\ a # New /\ b.window \in a.counted /\ Done(a) < b.passes
          /\ counter[k].n >= Limit[b.tenant]

LEMMA ArriveSteps ==
  ASSUME RateInv, NEW r \in Requests, Arrive(r)
  PROVE  Steps(r)
<1>1. PICK t \in Tenants, p \in Passes :
        req' = [req EXCEPT ![r] = [pc |-> "eval", tenant |-> t, passes |-> p, granted |-> 0,
                                   window |-> Window(clock), counted |-> {Window(clock)}, at |-> clock]]
  BY DEF Arrive
<1> DEFINE b == [pc |-> "eval", tenant |-> t, passes |-> p, granted |-> 0,
                 window |-> Window(clock), counted |-> {Window(clock)}, at |-> clock]
<1>2. req[r] = New /\ UNCHANGED <<counter, calls, tracking>>
  BY DEF Arrive
<1>3. Window(clock) \in Windows /\ p \in {1, 2}
  BY WindowIsOne, RateLimitAssumption DEF RateInv, TypeOK
<1>4. /\ b.pc = "eval" /\ b.tenant = t /\ b.passes = p /\ b.granted = 0
      /\ b.window = Window(clock) /\ b.window \in b.counted
  OBVIOUS
<1>5. Done(b) = 0 /\ Done(b) <= b.passes
  BY <1>3, <1>4 DEF Done
<1>6. req[r].pc = "new" /\ b # New
  BY <1>2, <1>4 DEF New
<1> HIDE DEF b
<1>7. req'[r] = b /\ \A q \in Requests : q # r => req'[q] = req[q]
  BY <1>1 DEF RateInv, TypeOK, b
<1> QED BY <1>2, <1>3, <1>4, <1>5, <1>6, <1>7 DEF Steps, Further

LEMMA PassAgainSteps ==
  ASSUME RateInv, TrafficInv, NEW r \in Requests, PassAgain(r)
  PROVE  Steps(r)
<1> DEFINE a == req[r]
           b == [a EXCEPT !.pc = "eval", !.window = Window(clock), !.counted = a.counted \cup {Window(clock)}]
<1>1. TypeOK /\ Window(clock) \in Windows /\ a.pc = "guard"
  BY WindowIsOne DEF RateInv, TypeOK, PassAgain
<1>2. a \in Request /\ a # New /\ a.tenant \in Tenants
  BY <1>1, RequestFields
<1>3. Done(a) <= a.passes
  BY <1>2 DEF TrafficInv
<1>4. req' = [req EXCEPT ![r] = b] /\ UNCHANGED <<counter, calls, tracking>>
  BY DEF PassAgain
<1>5. /\ b.pc = "eval" /\ b.tenant = a.tenant /\ b.passes = a.passes /\ b.granted = a.granted
      /\ b.window = Window(clock) /\ b.counted = a.counted \cup {Window(clock)}
  BY <1>2 DEF Request
<1>6. req'[r] = b /\ \A q \in Requests : q # r => req'[q] = req[q]
  BY <1>1, <1>4 DEF TypeOK
<1> HIDE DEF b
<1>7. Done(b) = Done(a) /\ Done(a) \in Nat /\ a.granted \in Nat
  BY <1>1, <1>2, <1>5, Tallies DEF Done
<1>8. b # New
  BY <1>5 DEF New
<1> QED BY <1>1, <1>2, <1>3, <1>4, <1>5, <1>6, <1>7, <1>8 DEF Steps, Further

LEMMA EvalSteps ==
  ASSUME RateInv, TrafficInv, NEW r \in Requests, Eval(r) \/ EvalFails(r)
  PROVE  Steps(r)
<1> DEFINE a == req[r]
           b == req'[r]
           k == windowKey(r)
<1>1. TypeOK /\ a.pc = "eval" /\ Past(req, clock, r)
  BY DEF RateInv, Eval, EvalFails
<1>2. /\ a \in Request /\ a # New /\ a.tenant \in Tenants /\ a.window \in Windows
      /\ k = <<a.tenant, a.window>> /\ k \in Tenants \X Windows
  BY <1>1, RequestFields
<1>3. a.granted < a.passes /\ a.granted \in Nat /\ a.passes \in Nat /\ Done(a) = a.granted
  BY <1>1, <1>2, Tallies DEF Past, Done
<1>4. a.window \in a.counted
  BY <1>2 DEF TrafficInv
<1>5. counter' = counter \/ counter' = [counter EXCEPT ![k] = script(@)]
  BY DEF Eval, EvalFails
<1>6. counter[k].n \in Nat /\ Limit[a.tenant] \in Nat
  BY <1>1, <1>2, RateLimitAssumption DEF TypeOK
<1>7. \/ counter' = counter
      \/ /\ counter'[k].n = counter[k].n + 1
         /\ \A j \in Tenants \X Windows : j # k => counter'[j] = counter[j]
  BY <1>1, <1>2, <1>5 DEF TypeOK, script
<1>8. ASSUME NEW new, req' = [req EXCEPT ![r] = new], calls' = calls,
             new.tenant = a.tenant, new.window = a.window, new.passes = a.passes, new.counted = a.counted,
             Done(new) = Done(a) + 1, new # New,
             \/ new.granted = a.granted /\ tracking' = tracking
             \/ new.granted = a.granted + 1 /\ tracking' = [tracking EXCEPT ![a.tenant] = @ + 1],
             new.pc = "refused" => counter[k].n >= Limit[a.tenant]
      PROVE  Steps(r)
  <2>1. b = new /\ \A q \in Requests : q # r => req'[q] = req[q]
    BY <1>1, <1>8 DEF TypeOK
  <2>2. Further(a, b)
    BY <1>3, <1>8, <2>1 DEF Further
  <2>3. Done(b) <= b.passes
    BY <1>3, <1>8, <2>1
  <2> QED BY <1>1, <1>2, <1>3, <1>4, <1>7, <1>8, <2>1, <2>2, <2>3 DEF Steps
<1>9. ASSUME NEW state \in {"refused", "failed"}, req' = [req EXCEPT ![r].pc = state],
             UNCHANGED <<calls, tracking>>, state = "refused" => counter[k].n >= Limit[a.tenant]
      PROVE  Steps(r)
  <2> DEFINE new == [a EXCEPT !.pc = state]
  <2>1. /\ new.tenant = a.tenant /\ new.window = a.window /\ new.passes = a.passes
        /\ new.counted = a.counted /\ new.granted = a.granted /\ new.pc = state
    BY <1>2 DEF Request
  <2>2. Done(new) = Done(a) + 1 /\ new # New
    BY <1>3, <2>1 DEF Done, New
  <2>3. req' = [req EXCEPT ![r] = new]
    BY <1>9
  <2> HIDE DEF new
  <2> QED BY <1>8, <1>9, <2>1, <2>2, <2>3
<1>10. CASE EvalFails(r)
  BY <1>9, <1>10 DEF EvalFails
<1>11. CASE Eval(r) /\ tooMany(counter[k].n + 1, a.tenant) /\ req' = [req EXCEPT ![r].pc = "refused"]
            /\ tracking' = tracking
  <2>1. counter[k].n >= Limit[a.tenant]
    BY <1>6, <1>11 DEF tooMany
  <2> QED BY <1>9, <1>11, <2>1 DEF Eval
<1>12. CASE Eval(r) /\ Grant(r, a.passes) /\ tracking' = [tracking EXCEPT ![a.tenant] = @ + 1]
  <2> DEFINE state == IF a.granted + 1 = a.passes THEN "served" ELSE "guard"
             new == [a EXCEPT !.pc = state, !.granted = a.granted + 1, !.at = clock]
  <2>1. /\ new.tenant = a.tenant /\ new.window = a.window /\ new.passes = a.passes
        /\ new.counted = a.counted /\ new.granted = a.granted + 1 /\ new.pc = state
    BY <1>2 DEF Request
  <2>2. state \in {"served", "guard"}
    OBVIOUS
  <2>3. req' = [req EXCEPT ![r] = new] /\ calls' = calls
    BY <1>12 DEF Grant, Eval
  <2> HIDE DEF new, state
  <2>4. Done(new) = Done(a) + 1 /\ new # New /\ new.pc # "refused"
    BY <1>3, <2>1, <2>2 DEF Done, New
  <2> QED BY <1>8, <1>12, <2>1, <2>3, <2>4
<1> QED BY <1>10, <1>11, <1>12 DEF Eval, Pass

(* A run that is counted is the run of a request that was counted there.    *)
LEMMA CountersExplained ==
  ASSUME RateInv, RateInv', TrafficInv, NEW r \in Requests, Steps(r), NEW t \in Tenants, NEW w \in Windows
  PROVE  counter'[<<t, w>>].n <= SumFunctionOnSet(Runs(t, w)', Requests)
<1> DEFINE runs == Runs(t, w)
<1>1. TypeOK /\ TypeOK' /\ IsFiniteSet(Requests)
  BY RateLimitAssumption DEF RateInv
<1>2. \A q \in Requests : /\ runs[q] \in Int /\ runs'[q] \in Int /\ runs[q] <= runs'[q]
                          /\ q # r => runs[q] = runs'[q]
  <2>1. \A q \in Requests : runs[q] \in Nat /\ runs'[q] \in Nat
    BY <1>1, Tallies, TalliesNow
  <2>2. /\ \A q \in Requests : q # r => req'[q] = req[q]
        /\ req'[r] # New /\ Further(req[r], req'[r])
    BY DEF Steps
  <2>3. \A q \in Requests : runs[q] <= runs'[q] /\ (q # r => runs'[q] = runs[q])
    BY <1>1, <2>2, TalliesGrow
  <2> QED BY <2>1, <2>3
<1>3. counter[<<t, w>>].n <= SumFunctionOnSet(runs, Requests) /\ counter[<<t, w>>].n \in Nat
  BY <1>1 DEF TrafficInv, TypeOK
<1>4. CASE CountedIn(req[r], t, w) /\ Done(req'[r]) = Done(req[r]) + 1
           /\ counter'[<<t, w>>].n = counter[<<t, w>>].n + 1
  <2>1. CountedIn(req'[r], t, w)
    BY <1>4 DEF CountedIn, Steps, Further
  <2>2. runs'[r] = runs[r] + 1
    BY <1>4, <2>1 DEF Runs
  <2> HIDE DEF runs
  <2>3. SumFunctionOnSet(runs', Requests) = SumFunctionOnSet(runs, Requests) + runs'[r] - runs[r]
    BY <1>1, <1>2, SumWithChange
  <2>4. SumFunctionOnSet(runs, Requests) \in Int /\ runs[r] \in Int
    BY <1>1, <1>2, SumIs
  <2>5. counter'[<<t, w>>].n <= SumFunctionOnSet(runs', Requests)
    BY <1>3, <1>4, <2>2, <2>3, <2>4
  <2> QED BY <2>5 DEF runs
<1>5. CASE counter'[<<t, w>>].n = counter[<<t, w>>].n
  <2> HIDE DEF runs
  <2>1. SumFunctionOnSet(runs, Requests) <= SumFunctionOnSet(runs', Requests)
    BY <1>1, <1>2, SumOfMore
  <2>2. SumFunctionOnSet(runs, Requests) \in Int /\ SumFunctionOnSet(runs', Requests) \in Int
    BY <1>1, <1>2, SumIs
  <2>3. counter'[<<t, w>>].n <= SumFunctionOnSet(runs', Requests)
    BY <1>3, <1>5, <2>1, <2>2
  <2> QED BY <2>3 DEF runs
<1>6. CASE <<t, w>> = <<req'[r].tenant, req'[r].window>> /\ counter' # counter
  <2>1. /\ req[r] # New /\ req'[r].window \in req[r].counted /\ Done(req'[r]) = Done(req[r]) + 1
        /\ counter'[<<t, w>>].n = counter[<<t, w>>].n + 1 /\ req'[r].tenant = req[r].tenant
    BY <1>6 DEF Steps, Further
  <2>2. CountedIn(req[r], t, w)
    BY <1>6, <2>1 DEF CountedIn
  <2> QED BY <1>4, <2>1, <2>2
<1>7. CASE <<t, w>> # <<req'[r].tenant, req'[r].window>> \/ counter' = counter
  <2>1. counter'[<<t, w>>] = counter[<<t, w>>]
    BY <1>7 DEF Steps
  <2> QED BY <1>5, <2>1
<1> QED BY <1>6, <1>7

(* A run that is tracked was let through.                                   *)
LEMMA CallsExplained ==
  ASSUME RateInv, RateInv', TrafficInv, NEW r \in Requests, Steps(r), NEW t \in Tenants
  PROVE  calls'[t] + tracking'[t] <= SumFunctionOnSet(Granted(t)', Requests)
<1> DEFINE granted == Granted(t)
<1>1. TypeOK /\ TypeOK' /\ IsFiniteSet(Requests)
  BY RateLimitAssumption DEF RateInv
<1>2. \A q \in Requests : /\ granted[q] \in Int /\ granted'[q] \in Int /\ granted[q] <= granted'[q]
                          /\ q # r => granted[q] = granted'[q]
  <2>1. \A q \in Requests : granted[q] \in Nat /\ granted'[q] \in Nat
    BY <1>1, Tallies, TalliesNow
  <2>2. /\ \A q \in Requests : q # r => req'[q] = req[q]
        /\ req'[r] # New /\ Further(req[r], req'[r])
    BY DEF Steps
  <2>3. \A q \in Requests : granted[q] <= granted'[q] /\ (q # r => granted'[q] = granted[q])
    BY <1>1, <2>2, TalliesGrow
  <2> QED BY <2>1, <2>3
<1>3. calls[t] + tracking[t] <= SumFunctionOnSet(granted, Requests) /\ calls[t] \in Nat /\ tracking[t] \in Nat
  BY <1>1 DEF TrafficInv, CallsWereGranted, TypeOK
<1>4. calls' = calls
  BY DEF Steps
<1>5. CASE tracking'[t] = tracking[t] + 1 /\ granted'[r] = granted[r] + 1
  <2> HIDE DEF granted
  <2>1. SumFunctionOnSet(granted', Requests) = SumFunctionOnSet(granted, Requests) + granted'[r] - granted[r]
    BY <1>1, <1>2, SumWithChange
  <2>2. SumFunctionOnSet(granted, Requests) \in Int /\ granted[r] \in Int
    BY <1>1, <1>2, SumIs
  <2>3. calls'[t] + tracking'[t] <= SumFunctionOnSet(granted', Requests)
    BY <1>3, <1>4, <1>5, <2>1, <2>2
  <2> QED BY <2>3 DEF granted
<1>6. CASE tracking'[t] = tracking[t]
  <2> HIDE DEF granted
  <2>1. SumFunctionOnSet(granted, Requests) <= SumFunctionOnSet(granted', Requests)
    BY <1>1, <1>2, SumOfMore
  <2>2. SumFunctionOnSet(granted, Requests) \in Int /\ SumFunctionOnSet(granted', Requests) \in Int
    BY <1>1, <1>2, SumIs
  <2>3. calls'[t] + tracking'[t] <= SumFunctionOnSet(granted', Requests)
    BY <1>3, <1>4, <1>6, <2>1, <2>2
  <2> QED BY <2>3 DEF granted
<1>7. CASE t = req'[r].tenant /\ tracking' # tracking
  <2>1. /\ req[r] # New /\ req'[r] # New /\ req'[r].granted = req[r].granted + 1
        /\ tracking' = [tracking EXCEPT ![t] = @ + 1] /\ req'[r].tenant = req[r].tenant
    BY <1>7 DEF Steps, Further
  <2>2. tracking'[t] = tracking[t] + 1
    BY <1>1, <2>1 DEF TypeOK
  <2>3. granted'[r] = granted[r] + 1
    BY <1>7, <2>1 DEF Granted
  <2> QED BY <1>5, <2>2, <2>3
<1>8. CASE t # req'[r].tenant \/ tracking' = tracking
  <2>1. tracking'[t] = tracking[t]
    BY <1>1, <1>8 DEF Steps, TypeOK
  <2> QED BY <1>6, <2>1
<1> QED BY <1>7, <1>8

(* A refused request found the limit used up by what else was counted: its  *)
(* own runs before this one are fewer than it has in all.                   *)
LEMMA RefusalExplained ==
  ASSUME RateInv, RateInv', TrafficInv, NEW r \in Requests, Steps(r), req'[r].pc = "refused",
         NEW t, NEW w, t = req'[r].tenant, w = req'[r].window
  PROVE  SumFunctionOnSet(Traffic(t, w)', Requests \ {r}) + req'[r].passes - 1 >= Limit[t]
<1> DEFINE others == Requests \ {r}
<1>1. TypeOK /\ TypeOK' /\ IsFiniteSet(Requests)
  BY RateLimitAssumption DEF RateInv
<1>2. /\ t \in Tenants /\ w \in Windows /\ req[r] # New /\ req'[r] # New /\ w \in req[r].counted
      /\ Done(req[r]) < req'[r].passes /\ counter[<<t, w>>].n >= Limit[t]
      /\ Further(req[r], req'[r]) /\ \A q \in Requests : q # r => req'[q] = req[q]
  BY DEF Steps
<1>3. CountedIn(req[r], t, w)
  BY <1>2 DEF CountedIn, Further
<1>4. counter[<<t, w>>].n <= SumFunctionOnSet(Runs(t, w), Requests) /\ counter[<<t, w>>].n \in Nat
  BY <1>1, <1>2 DEF TrafficInv, TypeOK
<1>5. Requests = others \cup {r} /\ r \notin others /\ IsFiniteSet(others) /\ others \subseteq Requests
  BY <1>1, FS_RemoveElement
<1> HIDE DEF others
<1>6. \A q \in Requests : Runs(t, w)[q] \in Int
  BY <1>1, Tallies
<1>7. SumFunctionOnSet(Runs(t, w), Requests) = SumFunctionOnSet(Runs(t, w), others) + Runs(t, w)[r]
  BY <1>5, <1>6, SumWithOne
<1>8. Runs(t, w)[r] = Done(req[r])
  BY <1>3 DEF Runs
<1>9. ASSUME NEW q \in others
      PROVE  /\ Runs(t, w)[q] \in Int /\ Traffic(t, w)'[q] \in Int
             /\ Runs(t, w)[q] <= Traffic(t, w)'[q]
  <2>1. Runs(t, w)[q] \in Int /\ Traffic(t, w)'[q] \in Int /\ Traffic(t, w)'[q] \in Nat
    BY <1>1, <1>5, Tallies, TalliesNow
  <2>2. req'[q] = req[q] /\ q \in Requests
    BY <1>2, <1>5
  <2>3. CASE CountedIn(req[q], t, w)
    <3>1. Done(req[q]) <= req[q].passes
      BY <2>2, <2>3 DEF CountedIn, TrafficInv
    <3>2. Runs(t, w)[q] = Done(req[q])
      BY <2>2, <2>3 DEF Runs
    <3>3. Traffic(t, w)'[q] = req'[q].passes
      <4>1. CountedIn(req'[q], t, w)
        BY <2>2, <2>3
      <4> QED BY <2>2, <4>1 DEF CountedIn, Traffic
    <3> QED BY <2>1, <2>2, <3>1, <3>2, <3>3
  <2>4. CASE ~CountedIn(req[q], t, w)
    <3>1. Runs(t, w)[q] = 0
      BY <2>2, <2>4 DEF Runs
    <3> QED BY <2>1, <3>1
  <2> QED BY <2>3, <2>4
<1>10. /\ SumFunctionOnSet(Runs(t, w), others) <= SumFunctionOnSet(Traffic(t, w)', others)
       /\ SumFunctionOnSet(Runs(t, w), others) \in Int /\ SumFunctionOnSet(Traffic(t, w)', others) \in Int
  BY <1>5, <1>9, SumOfMore, SumIs
<1>11. Done(req[r]) \in Nat /\ Limit[t] \in Nat /\ req'[r].passes \in Nat
  <2>1. req'[r].passes = req[r].passes
    BY <1>2 DEF Further
  <2> QED BY <1>1, <1>2, <2>1, Tallies, RateLimitAssumption
<1>12. SumFunctionOnSet(Traffic(t, w)', others) + req'[r].passes - 1 >= Limit[t]
  BY <1>2, <1>4, <1>7, <1>8, <1>10, <1>11
<1> QED BY <1>12 DEF others

(* All of it holds at first and stays.                                      *)
LEMMA InitTraffic ==
  ASSUME Init PROVE TrafficInv
<1>1. /\ \A r \in Requests : req[r] = New
      /\ \A t \in Tenants : calls[t] = 0 /\ tracking[t] = 0
      /\ \A t \in Tenants, w \in Windows : counter[<<t, w>>].n = 0
  BY DEF Init, NoCounter
<1>2. IsFiniteSet(Requests) /\ New.pc # "refused"
  BY RateLimitAssumption DEF New
<1>3. ASSUME NEW t \in Tenants, NEW w
      PROVE  SumFunctionOnSet(Runs(t, w), Requests) = 0 /\ SumFunctionOnSet(Granted(t), Requests) = 0
  <2>1. \A r \in Requests : Runs(t, w)[r] = 0 /\ Granted(t)[r] = 0
    BY <1>1 DEF Runs, Granted, CountedIn
  <2> QED BY <1>2, <2>1, SumOfZeros
<1> QED BY <1>1, <1>2, <1>3 DEF TrafficInv, RefusedByOwnTraffic, CallsWereGranted

LEMMA HandleTraffic ==
  ASSUME RateInv, RateInv', TrafficInv, NEW r \in Requests, Steps(r)
  PROVE  TrafficInv'
<1>1. TypeOK /\ TypeOK' /\ IsFiniteSet(Requests)
  BY RateLimitAssumption DEF RateInv
<1>2. /\ req'[r] # New /\ Further(req[r], req'[r]) /\ \A q \in Requests : q # r => req'[q] = req[q]
      /\ req[r].pc # "refused" /\ Done(req'[r]) <= req'[r].passes /\ req'[r].window \in req'[r].counted
  BY DEF Steps
<1>3. \A q \in Requests : req'[q] # New => Done(req'[q]) <= req'[q].passes /\ req'[q].window \in req'[q].counted
  BY <1>2 DEF TrafficInv
<1>4. ASSUME NEW q \in Requests, req'[q].pc = "refused",
             NEW t, NEW w, t = req'[q].tenant, w = req'[q].window
      PROVE  SumFunctionOnSet(Traffic(t, w)', Requests \ {q}) + req'[q].passes - 1 >= Limit[t]
  <2>1. CASE q = r
    BY <1>4, <2>1, RefusalExplained
  <2>2. CASE q # r
    <3> DEFINE others == Requests \ {q}
    <3>1. req'[q] = req[q]
      BY <1>2, <2>2
    <3>2. SumFunctionOnSet(Traffic(t, w), others) + req[q].passes - 1 >= Limit[t]
      BY <1>4, <3>1 DEF TrafficInv, RefusedByOwnTraffic
    <3>3. req[q].passes \in Nat /\ Limit[t] \in Nat
      <4>1. req[q] # New
        BY <1>4, <3>1 DEF New
      <4>2. t \in Tenants
        <5>1. req[q] \in Request
          BY <1>1, <4>1 DEF TypeOK
        <5> QED BY <1>4, <3>1, <5>1 DEF Request
      <4> QED BY <1>1, <4>1, <4>2, Tallies, RateLimitAssumption
    <3>4. IsFiniteSet(others)
      BY <1>1, FS_RemoveElement
    <3>5. \A p \in others : /\ Traffic(t, w)[p] \in Int /\ Traffic(t, w)'[p] \in Int
                            /\ Traffic(t, w)[p] <= Traffic(t, w)'[p]
      <4>1. \A p \in Requests : Traffic(t, w)[p] \in Nat /\ Traffic(t, w)'[p] \in Nat
        BY <1>1, Tallies, TalliesNow
      <4>2. \A p \in Requests : Traffic(t, w)[p] <= Traffic(t, w)'[p]
        BY <1>1, <1>2, TalliesGrow
      <4> QED BY <4>1, <4>2
    <3> HIDE DEF others
    <3>6. /\ SumFunctionOnSet(Traffic(t, w), others) <= SumFunctionOnSet(Traffic(t, w)', others)
          /\ SumFunctionOnSet(Traffic(t, w), others) \in Int /\ SumFunctionOnSet(Traffic(t, w)', others) \in Int
      BY <3>4, <3>5, SumOfMore, SumIs
    <3>7. SumFunctionOnSet(Traffic(t, w)', others) + req[q].passes - 1 >= Limit[t]
      BY <3>2, <3>3, <3>6
    <3> QED BY <3>1, <3>7 DEF others
  <2> QED BY <2>1, <2>2
<1>5. RefusedByOwnTraffic'
  BY <1>4 DEF RefusedByOwnTraffic, Traffic
<1>6. CallsWereGranted'
  BY CallsExplained DEF CallsWereGranted
<1> QED BY <1>3, <1>5, <1>6, CountersExplained DEF TrafficInv

(* Other steps count nothing.                                               *)
LEMMA TimeTraffic ==
  ASSUME RateInv, TrafficInv, UNCHANGED req,
         \A k \in Tenants \X Windows : counter'[k].n \in Nat /\ counter'[k].n <= counter[k].n,
         \A t \in Tenants : /\ calls'[t] \in Nat /\ tracking'[t] \in Nat
                            /\ calls'[t] + tracking'[t] <= calls[t] + tracking[t]
  PROVE  TrafficInv'
<1>1. TypeOK /\ IsFiniteSet(Requests)
  BY RateLimitAssumption DEF RateInv
<1>2. ASSUME NEW t \in Tenants, NEW w \in Windows
      PROVE  /\ SumFunctionOnSet(Runs(t, w), Requests) \in Int
             /\ SumFunctionOnSet(Granted(t), Requests) \in Int
  <2>1. \A r \in Requests : Runs(t, w)[r] \in Int /\ Granted(t)[r] \in Int
    BY <1>1, Tallies
  <2> QED BY <1>1, <2>1, SumIs
<1>3. ASSUME NEW t \in Tenants, NEW w \in Windows
      PROVE  counter'[<<t, w>>].n <= SumFunctionOnSet(Runs(t, w)', Requests)
  <2>1. Runs(t, w)' = Runs(t, w)
    BY DEF Runs
  <2>2. /\ counter[<<t, w>>].n <= SumFunctionOnSet(Runs(t, w), Requests) /\ counter[<<t, w>>].n \in Nat
        /\ counter'[<<t, w>>].n \in Nat /\ counter'[<<t, w>>].n <= counter[<<t, w>>].n
    BY <1>1 DEF TrafficInv, TypeOK
  <2> QED BY <1>2, <2>1, <2>2
<1>4. ASSUME NEW t \in Tenants
      PROVE  calls'[t] + tracking'[t] <= SumFunctionOnSet(Granted(t)', Requests)
  <2>1. Granted(t)' = Granted(t)
    BY DEF Granted
  <2>2. SumFunctionOnSet(Granted(t), Requests) \in Int
    <3>1. \A r \in Requests : Granted(t)[r] \in Int
      BY <1>1, Tallies
    <3> QED BY <1>1, <3>1, SumIs
  <2>3. calls[t] + tracking[t] <= SumFunctionOnSet(Granted(t), Requests) /\ calls[t] \in Nat /\ tracking[t] \in Nat
    BY <1>1 DEF TrafficInv, CallsWereGranted, TypeOK
  <2> QED BY <2>1, <2>2, <2>3
<1>5. CallsWereGranted'
  BY <1>4 DEF CallsWereGranted
<1>6. RefusedByOwnTraffic'
  BY DEF TrafficInv, RefusedByOwnTraffic, Traffic
<1> QED BY <1>3, <1>5, <1>6 DEF TrafficInv

LEMMA NextTraffic ==
  ASSUME RateInv, TrafficInv, [Next]_vars
  PROVE  TrafficInv'
<1>1. RateInv' /\ TypeOK /\ TypeOK'
  BY NextRate DEF RateInv
<1>2. ASSUME NEW r \in Requests, Handle(r) PROVE TrafficInv'
  <2>1. Steps(r)
    BY <1>2, ArriveSteps, PassAgainSteps, EvalSteps DEF Handle
  <2> QED BY <1>1, <2>1, HandleTraffic
<1>3. /\ \A k \in Tenants \X Windows : counter[k].n \in Nat /\ counter'[k].n \in Nat
      /\ \A t \in Tenants : calls[t] \in Nat /\ tracking[t] \in Nat /\ calls'[t] \in Nat /\ tracking'[t] \in Nat
  BY <1>1 DEF TypeOK
<1>4. ASSUME NEW t \in Tenants, trackApiCall(t) PROVE TrafficInv'
  <2>1. /\ tracking[t] > 0 /\ tracking' = [tracking EXCEPT ![t] = @ - 1]
        /\ calls' = [calls EXCEPT ![t] = @ + 1] \/ calls' = calls
        /\ UNCHANGED <<req, counter>>
    BY <1>4 DEF trackApiCall
  <2>2. \A u \in Tenants : calls'[u] + tracking'[u] <= calls[u] + tracking[u]
    BY <1>1, <1>3, <2>1 DEF TypeOK
  <2> QED BY <1>3, <2>1, <2>2, TimeTraffic
<1>5. CASE Tick
  <2>1. UNCHANGED <<req, calls, tracking>>
    BY <1>5 DEF Tick
  <2>2. \A k \in Tenants \X Windows : counter'[k] = NoCounter \/ counter'[k] = counter[k]
    BY <1>5 DEF Tick
  <2>3. \A k \in Tenants \X Windows : counter'[k].n <= counter[k].n
    BY <1>3, <2>2 DEF NoCounter
  <2> QED BY <1>3, <2>1, <2>3, TimeTraffic
<1>6. CASE UNCHANGED vars
  <2>1. UNCHANGED <<req, calls, tracking, counter>>
    BY <1>6 DEF vars
  <2> QED BY <1>3, <2>1, TimeTraffic
<1> QED BY <1>2, <1>4, <1>5, <1>6 DEF Next

(* Requests of t let through in the stretch of WindowLen ticks from c, and  *)
(* in the window they were counted in.                                      *)
ServedFrom(t, c) ==
  {r \in Served(t) : Window(req[r].at) = req[r].window /\ req[r].at \in c..(c + WindowLen - 1)}

(* No stretch of the clock as long as a window lets more than twice the     *)
(* limit through, wherever it starts.                                       *)
RollingWithinTwice ==
  \A t \in Tenants, c \in 0..MaxClock : Cardinality(ServedFrom(t, c)) <= 2 * Limit[t]

(* A stretch as long as a window lies in two of them.                       *)
LEMMA StretchInTwo ==
  ASSUME NEW c \in Nat, NEW d \in c..(c + WindowLen - 1)
  PROVE  Window(d) = Window(c) \/ Window(d) = Window(c) + 1
<1> DEFINE v == c \div WindowLen
           w == d \div WindowLen
<1>1. /\ d \in Nat /\ WindowLen \in Nat /\ c <= d /\ d < c + WindowLen
      /\ v \in Nat /\ w \in Nat /\ w * WindowLen <= d /\ c < v * WindowLen + WindowLen
  BY RateLimitAssumption, DivBounds
<1>2. Window(c) = v /\ Window(d) = w /\ v <= w
  BY <1>1, WindowOrder DEF Window
<1> HIDE DEF v, w
<1>3. ASSUME v + 2 <= w PROVE FALSE
  <2>1. (v + 2) * WindowLen = v * WindowLen + WindowLen + WindowLen /\ v + 2 \in Nat
    BY <1>1
  <2>2. (v + 2) * WindowLen <= w * WindowLen /\ v * WindowLen \in Nat /\ w * WindowLen \in Nat
    BY <1>1, <1>3, <2>1, Product
  <2> QED BY <1>1, <2>1, <2>2
<1> QED BY <1>1, <1>2, <1>3

(* Both windows keep to the limit.                                          *)
LEMMA TwiceAtMost ==
  ASSUME RateInv, NEW t \in Tenants, NEW c \in 0..MaxClock
  PROVE  Cardinality(ServedFrom(t, c)) <= 2 * Limit[t]
<1> DEFINE v == Window(c)
           early == Through(req, t, v)
           late == Through(req, t, v + 1)
<1>1. TypeOK /\ c \in Nat /\ MaxClock \in Nat /\ v \in Windows /\ v \in Nat /\ Limit[t] \in Nat
  BY WindowIsOne, RateLimitAssumption DEF RateInv, Windows
<1>2. Cardinality(early) <= Limit[t] /\ (v + 1 \in Windows => Cardinality(late) <= Limit[t])
  BY <1>1 DEF RateInv
<1>3. IsFiniteSet(early) /\ IsFiniteSet(late)
  BY ThroughIsFinite
<1>4. ServedFrom(t, c) \subseteq early \cup late
  <2> SUFFICES ASSUME NEW r \in ServedFrom(t, c) PROVE r \in early \cup late
    OBVIOUS
  <2>1. /\ r \in Requests /\ req[r].pc = "served" /\ req[r].tenant = t
        /\ Window(req[r].at) = req[r].window /\ req[r].at \in c..(c + WindowLen - 1)
    BY DEF ServedFrom, Served
  <2>2. Window(req[r].at) = v \/ Window(req[r].at) = v + 1
    BY <1>1, <2>1, StretchInTwo
  <2> QED BY <2>1, <2>2 DEF Through
<1>5. v + 1 \notin Windows => late = {}
  <2> SUFFICES ASSUME NEW r \in late PROVE v + 1 \in Windows
    OBVIOUS
  <2>1. r \in Requests /\ req[r].pc \in {"guard", "served"} /\ req[r].window = v + 1
    BY DEF Through
  <2> QED BY <1>1, <2>1, RequestFields
<1> HIDE DEF v, early, late
<1>6. Cardinality(late) <= Limit[t]
  BY <1>1, <1>2, <1>5, FS_EmptySet
<1>7. /\ IsFiniteSet(early \cup late) /\ Cardinality(early \cup late) \in Nat
      /\ Cardinality(early \cup late) <= Limit[t] + Limit[t]
  <2>1. /\ Cardinality(early) \in Nat /\ Cardinality(late) \in Nat
        /\ Cardinality(early \cap late) \in Nat
    BY <1>3, FS_CardinalityType, FS_Intersection
  <2>2. /\ IsFiniteSet(early \cup late)
        /\ Cardinality(early \cup late) = Cardinality(early) + Cardinality(late) - Cardinality(early \cap late)
    BY <1>3, FS_Union
  <2>3. Cardinality(early) <= Limit[t] /\ Limit[t] \in Nat
    BY <1>1, <1>2
  <2> DEFINE a == Cardinality(early)
             b == Cardinality(late)
             both == Cardinality(early \cap late)
             all == Cardinality(early \cup late)
  <2>4. a \in Nat /\ b \in Nat /\ both \in Nat /\ all = a + b - both /\ all \in Nat
    BY <1>3, <2>1, <2>2, FS_Union, FS_CardinalityType
  <2> HIDE DEF a, b, both, all
  <2>5. a <= Limit[t] /\ b <= Limit[t] => all <= Limit[t] + Limit[t]
    BY <2>3, <2>4
  <2> QED BY <1>6, <2>2, <2>3, <2>4, <2>5 DEF a, b, all
<1>8. Cardinality(ServedFrom(t, c)) \in Nat /\ Cardinality(ServedFrom(t, c)) <= Cardinality(early \cup late)
  BY <1>4, <1>7, FS_Subset, FS_CardinalityType
<1> QED BY <1>1, <1>7, <1>8

(* The documents' rolling minute (.agents/skills/rate-limiting/SKILL.md:161 *)
(* to 165) in so far as it is kept: rate-limit.guard.ts:41 starts a new     *)
(* counter at every minute of the clock, so around the turn of it twice     *)
(* apiRateLimit requests may be let through in a minute, and never more.    *)
THEOREM RollingWithinTwiceHolds == Spec => []RollingWithinTwice
<1>1. RateInv => RollingWithinTwice
  BY TwiceAtMost DEF RollingWithinTwice
<1> QED BY <1>1, RateCorrect, PTL

(* A counter never counts more than the runs of requests of its tenant that *)
(* were counted in its window, nor the monthly count more than was let      *)
(* through.                                                                 *)
THEOREM TrafficCorrect == Spec => []TrafficInv
<1>1. Init => TrafficInv
  BY InitTraffic
<1>2. RateInv /\ TrafficInv /\ [Next]_vars => TrafficInv'
  BY NextTraffic
<1> QED BY <1>1, <1>2, RateCorrect, PTL DEF Spec

(* Nothing another tenant did makes the guard refuse a request: before it,  *)
(* apiRateLimit runs for requests of the tenant itself were counted in the  *)
(* same minute of the clock (rate-limit.guard.ts:41 to 71).                 *)
THEOREM RefusedByOwnTrafficHolds == Spec => []RefusedByOwnTraffic
<1>1. TrafficInv => RefusedByOwnTraffic
  BY DEF TrafficInv
<1> QED BY <1>1, TrafficCorrect, PTL

(* Whatever INCR fails or is late, no more API calls of a tenant are        *)
(* counted than runs of the guard let one through.                          *)
THEOREM CallsWereGrantedHolds == Spec => []CallsWereGranted
<1>1. TrafficInv => CallsWereGranted
  BY DEF TrafficInv
<1> QED BY <1>1, TrafficCorrect, PTL
=============================================================================
