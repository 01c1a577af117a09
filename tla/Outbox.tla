-------------------------------- MODULE Outbox --------------------------------
(***************************************************************************)
(* What the edge gateway's publishing path promises for every message it   *)
(* accepts: the message is held until the broker has taken it, and it is   *)
(* given up only by an event that the gateway reports as a loss (the       *)
(* process dies, or the polling task is cancelled in mid-publish).         *)
(* Delivery is at least once: a message may be delivered again, and it may *)
(* still be delivered after it was released or given up.                   *)
(***************************************************************************)
CONSTANT Messages     \* every message that could ever be produced

VARIABLES held,       \* messages the gateway answers for
          delivered,  \* messages the broker has taken at least once
          lost        \* messages given up before the broker took them

outboxVars == <<held, delivered, lost>>

OutboxTypeOK ==
  /\ held \subseteq Messages
  /\ delivered \subseteq Messages
  /\ lost \subseteq Messages

OutboxInit == held = {} /\ delivered = {} /\ lost = {}

\* A message enters the outbox once in its life.
Produce(m) ==
  /\ m \notin held \cup delivered \cup lost
  /\ held' = held \cup {m}
  /\ UNCHANGED <<delivered, lost>>

\* The broker takes a message that was produced, perhaps not for the first time.
Deliver(m) ==
  /\ m \in held \cup delivered \cup lost
  /\ delivered' = delivered \cup {m}
  /\ UNCHANGED <<held, lost>>

\* The gateway forgets messages that the broker has.
Release(ms) ==
  /\ ms \subseteq held \cap delivered
  /\ held' = held \ ms
  /\ UNCHANGED <<delivered, lost>>

\* The gateway is made to forget messages; those not delivered are lost.
GiveUp(ms) ==
  /\ ms \subseteq held
  /\ held' = held \ ms
  /\ lost' = lost \cup (ms \ delivered)
  /\ UNCHANGED delivered

OutboxNext ==
  \/ \E m \in Messages : Produce(m) \/ Deliver(m)
  \/ \E ms \in SUBSET held : Release(ms) \/ GiveUp(ms)

OutboxSpec == OutboxInit /\ [][OutboxNext]_outboxVars
===============================================================================
