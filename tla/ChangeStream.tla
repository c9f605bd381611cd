---------------------------- MODULE ChangeStream ----------------------------
(***************************************************************************)
(* How TenantCacheInvalidationService (src/tenant/tenant-cache-            *)
(* invalidation.service.ts) keeps a change stream open: watch, the         *)
(* listeners for error and close, the timers of scheduleReconnect, and     *)
(* onModuleDestroy.  TenantCache models what is done with a change.        *)
(* Timers may fire in any order, whatever their delays.                    *)
(***************************************************************************)
EXTENDS Integers, FiniteSets, Sequences, Bags, Functions

CONSTANTS
  Changes,    \* updates and deletions of tenants
  Streams,    \* streams that can be there at a time
  NoStream,
  MaxErrors   \* bound: 'error' events

ASSUME ChangeStreamAssumption ==
  /\ IsFiniteSet(Streams) /\ Cardinality(Streams) > MaxErrors /\ NoStream \notin Streams
  /\ MaxErrors \in Nat

VARIABLES
  stream,     \* stream[s]: a stream and its listeners
  queue,      \* queue[s]: changes s has not delivered yet
  changeStream, \* this.changeStream
  reconnectAttempts,
  timers,     \* bag of the delays, in seconds, of timeouts that have not fired
  phase,      \* of the module
  made, handled,  \* changes made, and handed to handleChange
  errors      \* history: how many 'error' events there were

streamVars == <<stream, queue, changeStream, reconnectAttempts, timers, phase, made, handled, errors>>

(* Attempts beyond these make no difference to the delay. *)
MaxAttempts == 5

(* Mutant of Delay: without Math.min. *)
DelayUncapped(attempts) == 2 ^ attempts

Delay(attempts) == IF 2 ^ attempts > 30 THEN 30 ELSE 2 ^ attempts

StreamTypeOK ==
  /\ stream \in [Streams -> {"none", "open", "failed", "closing"}]
  /\ queue \in [Streams -> Seq(Changes)]
  /\ changeStream \in Streams \cup {NoStream}
  /\ reconnectAttempts \in 0..MaxAttempts
  /\ IsABag(timers) /\ BagToSet(timers) \subseteq {Delay(a) : a \in 0..MaxAttempts}
  /\ \A d \in BagToSet(timers) : d <= 30
  /\ phase \in {"booting", "up", "destroyed"}
  /\ made \subseteq Changes /\ handled \subseteq made
  /\ errors \in 0..MaxErrors

StreamInit ==
  /\ stream = [s \in Streams |-> "none"]
  /\ queue = [s \in Streams |-> <<>>]
  /\ changeStream = NoStream
  /\ reconnectAttempts = 0
  /\ timers = EmptyBag
  /\ phase = "booting"
  /\ made = {} /\ handled = {}
  /\ errors = 0

-----------------------------------------------------------------------------

(* One more timer than there are in pending. *)
scheduleReconnect(pending) ==
  /\ timers' = pending (+) SetToBag({Delay(reconnectAttempts)})
  /\ reconnectAttempts' = IF reconnectAttempts = MaxAttempts THEN MaxAttempts
                          ELSE reconnectAttempts + 1

(* startChangeStream: watch returns; older streams stay as they are, and    *)
(* reconnectAttempts is reset before the new one is known to work.          *)
Watch(pending) ==
  \E s \in Streams :
    /\ stream[s] = "none"
    /\ stream' = [stream EXCEPT ![s] = "open"]
    /\ changeStream' = s
    /\ timers' = pending
    /\ reconnectAttempts' = 0

(* Mutant of WatchThrows: the error is logged and no more. *)
WatchThrowsLogged(pending) ==
  timers' = pending /\ UNCHANGED <<stream, changeStream, reconnectAttempts>>

(* startChangeStream: watch throws. *)
WatchThrows(pending) ==
  scheduleReconnect(pending) /\ UNCHANGED <<stream, changeStream>>

onModuleInit ==
  /\ phase = "booting"
  /\ phase' = "up"
  /\ Watch(timers) \/ WatchThrows(timers)
  /\ UNCHANGED <<queue, made, handled, errors>>

ReconnectSucceeds ==
  /\ \E d \in BagToSet(timers) : Watch(timers (-) SetToBag({d}))
  /\ UNCHANGED <<queue, phase, made, handled, errors>>

ReconnectFails ==
  /\ \E d \in BagToSet(timers) : WatchThrows(timers (-) SetToBag({d}))
  /\ UNCHANGED <<queue, phase, made, handled, errors>>

(* The driver gives a stream up: 'error' now, 'close' when its cursor is    *)
(* closed.                                                                  *)
Error(s) ==
  /\ stream[s] = "open" /\ errors < MaxErrors
  /\ errors' = errors + 1
  /\ stream' = [stream EXCEPT ![s] = "failed"]
  /\ queue' = [queue EXCEPT ![s] = <<>>]
  /\ scheduleReconnect(timers)
  /\ UNCHANGED <<changeStream, phase, made, handled>>

(* Mutants of Close: no close listener; an end listener beside it.          *)
CloseUnheard(s) ==
  /\ stream[s] # "none"
  /\ stream' = [stream EXCEPT ![s] = "none"]
  /\ queue' = [queue EXCEPT ![s] = <<>>]
  /\ UNCHANGED <<changeStream, reconnectAttempts, timers, phase, made, handled, errors>>
CloseAndEnd(s) ==
  /\ stream[s] # "none"
  /\ stream' = [stream EXCEPT ![s] = "none"]
  /\ queue' = [queue EXCEPT ![s] = <<>>]
  /\ scheduleReconnect(timers (+) SetToBag({Delay(reconnectAttempts)}))
  /\ UNCHANGED <<changeStream, phase, made, handled, errors>>

(* 'close': after an error, after close(), or by itself. *)
Close(s) ==
  /\ stream[s] # "none"
  /\ stream' = [stream EXCEPT ![s] = "none"]
  /\ queue' = [queue EXCEPT ![s] = <<>>]
  /\ scheduleReconnect(timers)
  /\ UNCHANGED <<changeStream, phase, made, handled, errors>>

(* Only the last stream opened is closed, no timer is cleared. *)
onModuleDestroy ==
  /\ phase = "up"
  /\ phase' = "destroyed"
  /\ IF changeStream # NoStream /\ stream[changeStream] = "open"
       THEN /\ stream' = [stream EXCEPT ![changeStream] = "closing"]
            /\ queue' = [queue EXCEPT ![changeStream] = <<>>]
       ELSE UNCHANGED <<stream, queue>>
  /\ UNCHANGED <<changeStream, reconnectAttempts, timers, made, handled, errors>>

(* A change is an event of every open stream, ... *)
Change(c) ==
  /\ c \notin made
  /\ made' = made \cup {c}
  /\ queue' = [s \in Streams |-> IF stream[s] = "open" THEN Append(queue[s], c) ELSE queue[s]]
  /\ UNCHANGED <<stream, changeStream, reconnectAttempts, timers, phase, handled, errors>>

(* ... and each of them hands it to handleChange. *)
Deliver(s) ==
  /\ queue[s] # <<>>
  /\ handled' = handled \cup {Head(queue[s])}
  /\ queue' = [queue EXCEPT ![s] = Tail(@)]
  /\ UNCHANGED <<stream, changeStream, reconnectAttempts, timers, phase, made, errors>>

StreamNext ==
  \/ onModuleInit \/ onModuleDestroy
  \/ ReconnectSucceeds \/ ReconnectFails
  \/ \E s \in Streams : Error(s) \/ Close(s) \/ Deliver(s)
  \/ \E c \in Changes : Change(c)

(* The module is initialised, timers fire and watch does not throw for      *)
(* ever, events of an open stream are emitted, an error and close() are     *)
(* followed by the event close.                                             *)
StreamSpec ==
  /\ StreamInit /\ [][StreamNext]_streamVars
  /\ WF_streamVars(onModuleInit) /\ WF_streamVars(ReconnectSucceeds)
  /\ \A s \in Streams : /\ WF_streamVars(Deliver(s))
                        /\ WF_streamVars(stream[s] \in {"failed", "closing"} /\ Close(s))

-----------------------------------------------------------------------------

Present == {s \in Streams : stream[s] # "none"}

(* While the module is up, no sequence of errors, closes and failing        *)
(* reconnections leaves it without a stream and without a timer that opens  *)
(* one, "automatic reconnection ... if the stream drops" (line 25).         *)
(* Nothing is asked after onModuleDestroy: the code reconnects then as well *)
(* (lines 57 and 91 to 94), where line 53 says the stream is gracefully     *)
(* closed.                                                                  *)
NeverGivesUp == phase = "up" => Present # {} \/ timers # EmptyBag

(* How many timeouts have not fired. *)
Pending(bag) == SumFunctionOnSet(bag, BagToSet(bag))

(* An error schedules one reconnection and the close that follows it        *)
(* another (lines 86 to 94): every error leaves one stream more, for good,  *)
(* and every change is handled that many times.                             *)
OneMorePerError ==
  phase # "booting" => Cardinality(Present) + Pending(timers) = 1 + errors

(* What the service is to its cache: it listens while a stream is open, and *)
(* what any stream has yet to deliver, and none has, is waiting.            *)
Listening == \E s \in Streams : stream[s] = "open"
Waiting == (UNION {{queue[s][i] : i \in DOMAIN queue[s]} : s \in Streams}) \ handled

(* Whatever fails, the changes are fed to the cache as ChangeFeed says: all *)
(* that are made while a stream is open are handled unless it fails first,  *)
(* and some stream is open again after every failure, which includes those  *)
(* that onModuleDestroy closes: the timer of their close fires if the       *)
(* process lives so long, and StreamSpec supposes that it does.             *)
Feed == INSTANCE ChangeFeed WITH listening <- Listening, waiting <- Waiting
FeedSpec == Feed!Spec
=============================================================================
