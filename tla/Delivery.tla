------------------------------ MODULE Delivery ------------------------------
(***************************************************************************)
(* What a subscriber of an at-least-once subscription owes each message,   *)
(* with no word on how: a message gets one fate and keeps it however often *)
(* it is delivered, and it leaves the queue only after it has got it.      *)
(***************************************************************************)
CONSTANTS
    Items,      \* messages
    Outcomes    \* the fates a message can have

VARIABLES
    fate,       \* the fate of each message
    acked       \* messages that have left the queue

Pending == "pending"

\* A message may be beyond reading, and so have its fate, from the start.
Init ==
    /\ fate \in [Items -> Outcomes \cup {Pending}]
    /\ acked = {}

\* Messages without a fate get one.
Settle ==
    /\ fate' \in [Items -> Outcomes \cup {Pending}]
    /\ \A i \in Items : fate[i] # Pending => fate'[i] = fate[i]
    /\ UNCHANGED acked

\* Only what has a fate leaves the queue.
Acknowledge ==
    /\ acked \subseteq acked'
    /\ \A i \in acked' \ acked : fate[i] # Pending
    /\ UNCHANGED fate

\* The broker may bring anything back.
Redeliver == acked' \subseteq acked /\ UNCHANGED fate

Next == Settle \/ Acknowledge \/ Redeliver

Spec == Init /\ [][Next]_<<fate, acked>>
=============================================================================
