----------------------------- MODULE RateLimit -----------------------------
(***************************************************************************)
(* RateLimitGuard (src/common/guards/rate-limit.guard.ts) and the API      *)
(* calls it has UsageTrackingService count: one Redis counter per tenant   *)
(* and window of the clock, incremented by a Lua script that gives a new   *)
(* counter its time to live.  The guard is registered for the whole        *)
(* application and once more on the payment and wallet controllers, so a   *)
(* request passes it once or twice.                                        *)
(***************************************************************************)
EXTENDS Integers, FiniteSets, Functions

CONSTANTS
  Tenants, Requests,
  Limit,      \* Limit[t]: apiRateLimit of t
  Passes,     \* how often the guard runs for a request: 1, 2 or either
  WindowLen,  \* windowMs, in ticks of the clock
  Ttl,        \* the EXPIRE of a counter, in ticks: 61 seconds for 60 000 ms
  MaxClock    \* bound: ticks

ASSUME RateLimitAssumption ==
  /\ IsFiniteSet(Requests)
  /\ Limit \in [Tenants -> Nat]
  /\ Passes \subseteq {1, 2}
  /\ WindowLen \in Nat \ {0} /\ Ttl \in Nat /\ Ttl > WindowLen
  /\ MaxClock \in Nat

VARIABLES
  clock,
  counter,  \* counter[t, w]: the Redis key ratelimit:t:w, n = 0 when there is none
  req,      \* req[r]: a request on its way through the guards
  calls,    \* calls[t]: the Redis key usage:t:month:api
  tracking  \* tracking[t]: calls of trackApiCall that are under way

vars == <<clock, counter, req, calls, tracking>>

Window(time) == time \div WindowLen
Windows == 0..Window(MaxClock)
NoCounter == [n |-> 0, dies |-> 0]

New == [pc |-> "new"]

(* Before the next run of canActivate; awaiting the script with the window  *)
(* already chosen; and how the request left the guards.                     *)
Request ==
  [pc: {"guard", "eval", "served", "refused", "failed"},
   tenant: Tenants, passes: Passes, granted: 0..2,  \* runs in all, and let through
   window: Windows, counted: SUBSET Windows,        \* of the last run; of all runs
   at: 0..MaxClock]                                 \* when a run last let it through

TypeOK ==
  /\ clock \in 0..MaxClock
  /\ counter \in [Tenants \X Windows -> [n: Nat, dies: Nat]]
  /\ req \in [Requests -> Request \cup {New}]
  /\ calls \in [Tenants -> Nat]
  /\ tracking \in [Tenants -> Nat]

Init ==
  /\ clock = 0
  /\ counter = [k \in Tenants \X Windows |-> NoCounter]
  /\ req = [r \in Requests |-> New]
  /\ calls = [t \in Tenants |-> 0]
  /\ tracking = [t \in Tenants |-> 0]

-----------------------------------------------------------------------------

(* The guard is entered: const now = Date.now() chooses the window before   *)
(* the script runs.                                                         *)
Arrive(r) ==
  /\ req[r] = New
  /\ \E t \in Tenants, p \in Passes :
       req' = [req EXCEPT ![r] = [pc |-> "eval", tenant |-> t, passes |-> p, granted |-> 0,
                                  window |-> Window(clock), counted |-> {Window(clock)},
                                  at |-> clock]]
  /\ UNCHANGED <<clock, counter, calls, tracking>>

PassAgain(r) ==
  /\ req[r].pc = "guard"
  /\ req' = [req EXCEPT ![r] = [req[r] EXCEPT
       !.pc = "eval", !.window = Window(clock), !.counted = req[r].counted \cup {Window(clock)}]]
  /\ UNCHANGED <<clock, counter, calls, tracking>>

(* Mutant of windowKey: one counter for all tenants. *)
keyOfAll(r) == <<CHOOSE t \in Tenants : TRUE, req[r].window>>

windowKey(r) == <<req[r].tenant, req[r].window>>

(* Mutant of script: EXPIRE takes less than a window. *)
scriptHalfWindow(c) == [n |-> c.n + 1, dies |-> IF c.n = 0 THEN clock + 1 ELSE c.dies]

(* SLIDING_WINDOW_LUA_SCRIPT: INCR, and EXPIRE when the counter is new. *)
script(c) == [n |-> c.n + 1, dies |-> IF c.n = 0 THEN clock + Ttl ELSE c.dies]

tooMany(count, t) == count > Limit[t]

(* How request r goes on when its run was let through. *)
Grant(r, last) ==
  req' = [req EXCEPT ![r] = [req[r] EXCEPT
    !.pc = IF req[r].granted + 1 = last THEN "served" ELSE "guard",
    !.granted = req[r].granted + 1, !.at = clock]]

(* Mutants of Pass: the usage is counted whatever the answer; the guard     *)
(* runs once more than it is registered.                                    *)
PassTrackedFirst(r) ==
  /\ IF tooMany(counter[windowKey(r)].n + 1, req[r].tenant)
       THEN req' = [req EXCEPT ![r].pc = "refused"]
       ELSE Grant(r, req[r].passes)
  /\ tracking' = [tracking EXCEPT ![req[r].tenant] = @ + 1]
PassOnceMore(r) ==
  /\ Grant(r, req[r].passes + 1)
  /\ tracking' = [tracking EXCEPT ![req[r].tenant] = @ + 1]

(* The rest of canActivate, with the count the script returned. *)
Pass(r) ==
  LET t == req[r].tenant
      count == counter[windowKey(r)].n + 1
  IN \/ /\ tooMany(count, t)
        /\ req' = [req EXCEPT ![r].pc = "refused"]
        /\ UNCHANGED tracking
     \/ /\ ~tooMany(count, t)
        /\ Grant(r, req[r].passes)
        /\ tracking' = [tracking EXCEPT ![t] = @ + 1]

Eval(r) ==
  /\ req[r].pc = "eval"
  /\ counter' = [counter EXCEPT ![windowKey(r)] = script(@)]
  /\ Pass(r)
  /\ UNCHANGED <<clock, calls>>

(* The connection to Redis breaks: eval rejects, whether the script ran or not. *)
EvalFails(r) ==
  /\ req[r].pc = "eval"
  /\ \/ counter' = [counter EXCEPT ![windowKey(r)] = script(@)]
     \/ UNCHANGED counter
  /\ req' = [req EXCEPT ![r].pc = "failed"]
  /\ UNCHANGED <<clock, calls, tracking>>

-----------------------------------------------------------------------------
(* trackApiCall, fire and forget, and the clock *)

(* INCR; a failure is swallowed by the empty catch. *)
trackApiCall(t) ==
  /\ tracking[t] > 0
  /\ tracking' = [tracking EXCEPT ![t] = @ - 1]
  /\ \/ calls' = [calls EXCEPT ![t] = @ + 1]
     \/ UNCHANGED calls
  /\ UNCHANGED <<clock, counter, req>>

Tick ==
  /\ clock < MaxClock
  /\ clock' = clock + 1
  /\ counter' = [k \in Tenants \X Windows |->
       IF counter[k].dies <= clock' THEN NoCounter ELSE counter[k]]
  /\ UNCHANGED <<req, calls, tracking>>

Handle(r) == Arrive(r) \/ PassAgain(r) \/ Eval(r) \/ EvalFails(r)

Next ==
  \/ \E r \in Requests : Handle(r)
  \/ \E t \in Tenants : trackApiCall(t)
  \/ Tick

Spec == Init /\ [][Next]_vars

-----------------------------------------------------------------------------

Served(t) == {r \in Requests : req[r].pc = "served" /\ req[r].tenant = t}

(* Of the requests of a tenant that the guards let through inside the       *)
(* window they were counted in, there are never more than apiRateLimit: a   *)
(* counter does not expire before its window ends (the 61 seconds), however *)
(* the requests interleave.                                                 *)
WindowWithinLimit ==
  \A t \in Tenants, w \in Windows :
    Cardinality({r \in Served(t) : req[r].window = w /\ Window(req[r].at) = w}) <= Limit[t]

(* The runs of the guard for a request that was counted in window w of t.   *)
Traffic(t, w) ==
  [r \in Requests |-> IF req[r] # New /\ req[r].tenant = t /\ w \in req[r].counted
                         THEN req[r].passes ELSE 0]

(* A request is only refused after apiRateLimit other runs of the guard, of *)
(* requests of its own tenant, were counted in the same minute of the clock *)
(* (lines 41 and 55): what other tenants send uses up nothing.  The         *)
(* documents promise a rolling minute (.agents/skills/rate-limiting/        *)
(* SKILL.md:161 to 165, .agents/rules/project-context.md:72), under which   *)
(* the traffic of the minute before would count as well; that it does not   *)
(* is no virtue, and RollingWithinTwice of RateLimitProofs says what is     *)
(* left of that promise.                                                    *)
RefusedByOwnTraffic ==
  \A r \in Requests : req[r].pc = "refused" =>
    SumFunctionOnSet(Traffic(req[r].tenant, req[r].window), Requests \ {r})
      + req[r].passes - 1 >= Limit[req[r].tenant]

Granted(t) ==
  [r \in Requests |-> IF req[r] # New /\ req[r].tenant = t THEN req[r].granted ELSE 0]

(* The monthly count of API calls never exceeds the runs of the guard that  *)
(* let a request through: nothing refused is counted.                       *)
CallsWereGranted ==
  \A t \in Tenants : calls[t] + tracking[t] <= SumFunctionOnSet(Granted(t), Requests)

(* "Make 61 requests/min as a Starter tenant -- the 61st should return 429" *)
(* (GEMINI.md line 69): a request is only refused when apiRateLimit other   *)
(* requests of the tenant were made in the same window.                     *)
OnlySurplusRefused ==
  \A r \in Requests : req[r].pc = "refused" =>
    Cardinality({q \in Requests \ {r} :
      /\ req[q] # New
      /\ req[q].tenant = req[r].tenant
      /\ req[r].window \in req[q].counted}) >= Limit[req[r].tenant]
=============================================================================
