----------------------------- MODULE ChangeFeed -----------------------------
(***************************************************************************)
(* What TenantCacheInvalidationService promises of the changes of tenants: *)
(* while it listens it acts on every change, when it stops listening what  *)
(* waits may be lost, and it never stops listening for good.               *)
(***************************************************************************)
CONSTANT Changes

VARIABLES
  made,       \* changes made in MongoDB
  listening,  \* a stream is open
  waiting,    \* changes to be acted upon
  handled     \* changes acted upon, each at least once

feed == <<made, listening, waiting, handled>>

Init ==
  /\ made = {} /\ waiting = {} /\ handled = {}
  /\ listening = FALSE

Make(c) ==
  /\ c \notin made
  /\ made' = made \cup {c}
  /\ waiting' = IF listening THEN waiting \cup {c} ELSE waiting
  /\ UNCHANGED <<listening, handled>>

Handle(c) ==
  /\ c \in waiting
  /\ waiting' = waiting \ {c}
  /\ handled' = handled \cup {c}
  /\ UNCHANGED <<made, listening>>

Lose ==
  /\ listening
  /\ listening' \in BOOLEAN
  /\ waiting' \in SUBSET waiting
  /\ ~listening' => waiting' = {}
  /\ UNCHANGED <<made, handled>>

Resume ==
  /\ ~listening
  /\ listening' = TRUE
  /\ UNCHANGED <<made, waiting, handled>>

Next == (\E c \in Changes : Make(c) \/ Handle(c)) \/ Lose \/ Resume

Spec ==
  /\ Init /\ [][Next]_feed
  /\ WF_feed(Resume)
  /\ \A c \in Changes : WF_feed(Handle(c))
=============================================================================
