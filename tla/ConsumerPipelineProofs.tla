----------------------- MODULE ConsumerPipelineProofs -----------------------
(***************************************************************************)
(* The safety of the streaming consumer, and that it implements Delivery,  *)
(* for any number of consumers and chunks, any assignment of faults and    *)
(* any schedule of failures, crashes, expired leases and redeliveries.     *)
(*                                                                         *)
(* What ties two consumers of one chunk together is its fault, which is    *)
(* the same on every delivery: only a chunk no stage before the write      *)
(* objects to gets to the event tables, only a readable one that some      *)
(* stage objects to gets to quarantine (StoreInv).  For that, a consumer's stage and failure code must tell    *)
(* the fault of the chunk in hand (FlowInv), and before its                *)
(* acknowledgement that the chunk is kept (AckInv).                        *)
(***************************************************************************)
EXTENDS ConsumerPipeline, TLAPS

\* The chunk is out of harm's way: refused, written or held.
Kept(ch) == fault[ch] = "malformed" \/ ch \in written \/ Held(ch)

\* The codes that only a fault of the chunk raises.
FaultCodes == {"MAPPING_CONFIG_INVALID", "SUITE_REF_UNSUPPORTED", "CONTRACT_VIOLATION"}

\* What the stage and the failure code of a consumer say of its chunk.
FlowInv ==
    \A c \in Consumers :
        /\ pc[c] # "idle" => job[c] \in Chunks
        /\ pc[c] \notin {"idle", "ack"} => fault[job[c]] # "malformed"
        /\ pc[c] = "write" => fault[job[c]] \in Writable
        /\ pc[c] = "classify" => code[c] \in Codes
        /\ pc[c] = "classify" /\ code[c] \in FaultCodes => fault[job[c]] \notin Writable
        /\ pc[c] = "hold" => code[c] \in Codes /\ fault[job[c]] \notin Writable

\* A consumer that is about to acknowledge has kept its chunk.
AckInv == \A c \in Consumers : pc[c] = "ack" => Kept(job[c])

\* Where a chunk may be, by its fault.
StoreInv ==
    /\ written \subseteq events
    /\ \A ch \in Chunks : /\ ch \in events => fault[ch] \in Writable
                          /\ Held(ch) => fault[ch] \notin Writable \cup {"malformed"}

\* The inductive invariant.
IInv ==
    /\ TypeOK
    /\ FlowInv
    /\ AckInv
    /\ StoreInv
    /\ AckedIsKept
    /\ TrailIsTrue

----------------------------------------------------------------------------
\* Initially nothing is stored and nobody works.
LEMMA InitIInv == Init => IInv
BY ConstantsAssumption
   DEF Init, IInv, TypeOK, FlowInv, AckInv, StoreInv, AckedIsKept, TrailIsTrue,
       Held, Stages, Codes

\* A pull and the stages before the write touch no table.
LEMMA StageStep ==
    ASSUME IInv, UNCHANGED fault, NEW c \in Consumers,
           \/ \E ch \in Chunks : Receive(c, ch)
           \/ Fetch(c) \/ Parse(c) \/ Lookup(c) \/ Gates(c) \/ Classify(c)
    PROVE  IInv'
<1> USE DEF stores, Goto, Raise, NoteBronze, Quarantinable
<1>1. TypeOK'
  <2>1. CASE \E ch \in Chunks : Receive(c, ch)
    BY <2>1 DEF IInv, TypeOK, Stages, Receive
  <2>2. CASE Fetch(c) \/ Parse(c) \/ Classify(c)
    BY <2>2 DEF IInv, TypeOK, Stages, Codes, Fetch, Parse, Classify
  <2>3. CASE Lookup(c) \/ Gates(c)
    BY <2>3 DEF IInv, TypeOK, Stages, Codes, Lookup, Gates
  <2> QED
    BY <2>1, <2>2, <2>3
<1>2. UNCHANGED <<events, written, heldChunks, heldRows, trail>>
  BY DEF Receive, Fetch, Parse, Lookup, Gates, Classify
<1>3. FlowInv'
  BY DEF IInv, TypeOK, FlowInv, FaultCodes, Codes, Writable, Receive, Fetch, Parse,
         Lookup, Gates, Classify
<1>4. \A ch : Kept(ch)' <=> Kept(ch)
  BY <1>2 DEF Kept, Held
<1>5. AckInv'
  <2>1. CASE \E ch \in Chunks : Receive(c, ch)
    BY <1>4, <2>1 DEF IInv, TypeOK, AckInv, Kept, Receive
  <2>2. CASE Fetch(c) \/ Parse(c) \/ Lookup(c) \/ Gates(c) \/ Classify(c)
    BY <1>4, <2>2 DEF IInv, TypeOK, AckInv, Fetch, Parse, Lookup, Gates, Classify
  <2> QED
    BY <2>1, <2>2
<1>6. \A ch \in Chunks : msg'[ch] = "acked" => msg[ch] = "acked"
  BY DEF IInv, TypeOK, Receive, Fetch, Parse, Lookup, Gates, Classify
<1>7. AckedIsKept'
  BY <1>4, <1>6 DEF IInv, AckedIsKept, Kept
<1>8. StoreInv' /\ TrailIsTrue'
  BY <1>2 DEF IInv, StoreInv, TrailIsTrue, Held
<1> QED
  BY <1>1, <1>3, <1>5, <1>7, <1>8 DEF IInv

\* What is kept stays kept while the tables only grow.
LEMMA KeptGrows ==
    ASSUME UNCHANGED fault, written \subseteq written', heldRows \subseteq heldRows',
           heldChunks \subseteq heldChunks', NEW ch
    PROVE  /\ Held(ch) => Held(ch)'
           /\ Kept(ch) => Kept(ch)'
BY DEF Kept, Held

\* The write, complete, short of positions, refused by a CHECK or broken off: no
\* stage objected to the chunk in hand, so nobody holds it.
LEMMA WriteStep ==
    ASSUME IInv, UNCHANGED fault, NEW c \in Consumers, Write(c) \/ StageFails(c)
    PROVE  IInv'
<1> USE DEF Write, StageFails, Goto, Raise, Emit
<1>1. TypeOK'
  BY DEF IInv, TypeOK, FlowInv, Stages, Codes
<1>2. FlowInv'
  BY DEF IInv, TypeOK, FlowInv, FaultCodes, Codes
<1>3. \A ch : (Held(ch) => Held(ch)') /\ (Kept(ch) => Kept(ch)')
  BY KeptGrows
<1>4. AckInv'
  BY <1>3 DEF IInv, TypeOK, AckInv, Kept
<1>5. AckedIsKept'
  BY <1>3 DEF IInv, AckedIsKept, Kept
<1>6. StoreInv'
  BY DEF IInv, FlowInv, StoreInv, Held
<1>7. TrailIsTrue'
  BY <1>3 DEF IInv, TrailIsTrue
<1> QED
  BY <1>1, <1>2, <1>4, <1>5, <1>6, <1>7 DEF IInv

\* The hold: a stage objected to the chunk in hand, so nobody has written it.
LEMMA HoldStep ==
    ASSUME IInv, UNCHANGED fault, NEW c \in Consumers, Hold(c) \/ HoldFails(c)
    PROVE  IInv'
<1> USE DEF Hold, HoldFails, FallBack, Goto, Emit
<1>1. TypeOK'
  BY DEF IInv, TypeOK, FlowInv, Stages
<1>2. FlowInv'
  BY DEF IInv, TypeOK, FlowInv, FaultCodes
<1>3. \A ch : (Held(ch) => Held(ch)') /\ (Kept(ch) => Kept(ch)')
  BY KeptGrows
<1>4. Hold(c) => Held(job[c])'
  BY DEF IInv, FlowInv, Held
<1>5. AckInv'
  BY <1>3, <1>4 DEF IInv, TypeOK, AckInv, Kept
<1>6. AckedIsKept'
  BY <1>3 DEF IInv, AckedIsKept, Kept
<1>7. StoreInv'
  BY DEF IInv, FlowInv, StoreInv, Held
<1>8. TrailIsTrue'
  BY <1>3, <1>4 DEF IInv, TrailIsTrue
<1> QED
  BY <1>1, <1>2, <1>5, <1>6, <1>7, <1>8 DEF IInv

\* The end of a delivery, and the broker: only a chunk that is kept leaves the
\* queue, and the tables are left alone.
LEMMA DeliveryStep ==
    ASSUME IInv, UNCHANGED fault,
           \/ \E c \in Consumers : Acknowledge(c) \/ ModifyAckDeadline(c) \/ Crash(c)
           \/ \E ch \in Chunks : LeaseExpires(ch) \/ Redeliver(ch)
    PROVE  IInv'
<1> USE DEF stores, cVars
<1> DEFINE Ends(c) == Acknowledge(c) \/ ModifyAckDeadline(c) \/ Crash(c)
           Comes(ch) == LeaseExpires(ch) \/ Redeliver(ch)
<1>1. UNCHANGED <<events, written, heldChunks, heldRows, trail>>
  BY DEF Acknowledge, ModifyAckDeadline, Crash, LeaseExpires, Redeliver, Done
<1>2. \A ch : Kept(ch)' <=> Kept(ch)
  BY <1>1 DEF Kept, Held
<1>3. StoreInv' /\ TrailIsTrue'
  BY <1>1 DEF IInv, StoreInv, TrailIsTrue, Held
<1>4. ASSUME NEW c \in Consumers, Ends(c)
      PROVE  IInv'
  <2>1. Done(c)
    BY <1>4 DEF Acknowledge, ModifyAckDeadline, Crash
  <2>2. job[c] \in Chunks
    BY <1>4 DEF IInv, FlowInv, Acknowledge, ModifyAckDeadline, Crash
  <2>3. msg' \in [Chunks -> {"ready", "leased", "acked"}]
    BY <1>4, <2>2 DEF IInv, TypeOK, Acknowledge, ModifyAckDeadline, Crash
  <2>4. TypeOK'
    BY <1>1, <2>1, <2>3 DEF IInv, TypeOK, Done, Goto, Stages
  <2>5. \A d \in Consumers : \/ pc'[d] = "idle"
                             \/ pc'[d] = pc[d] /\ job'[d] = job[d] /\ code'[d] = code[d]
    BY <2>1 DEF IInv, TypeOK, Done, Goto
  <2>6. FlowInv'
    BY <2>5 DEF IInv, FlowInv
  <2>7. AckInv'
    BY <1>2, <2>5 DEF IInv, AckInv
  <2>8. \A ch \in Chunks : msg'[ch] = "acked" => msg[ch] = "acked" \/ Kept(ch)
    BY <1>4, <2>2 DEF IInv, TypeOK, AckInv, Acknowledge, ModifyAckDeadline, Crash
  <2>9. AckedIsKept'
    BY <1>2, <2>8 DEF IInv, AckedIsKept, Kept
  <2> QED
    BY <1>3, <2>4, <2>6, <2>7, <2>9 DEF IInv
<1>5. ASSUME NEW ch \in Chunks, Comes(ch)
      PROVE  IInv'
  <2>1. UNCHANGED cVars /\ msg' = [msg EXCEPT ![ch] = "ready"]
    BY <1>5 DEF LeaseExpires, Redeliver
  <2>2. TypeOK'
    BY <1>1, <2>1 DEF IInv, TypeOK
  <2>3. FlowInv' /\ AckInv'
    BY <1>2, <2>1 DEF IInv, FlowInv, AckInv
  <2>4. AckedIsKept'
    BY <1>2, <2>1 DEF IInv, TypeOK, AckedIsKept, Kept
  <2> QED
    BY <1>3, <2>2, <2>3, <2>4 DEF IInv
<1> QED
  BY <1>4, <1>5

\* Every step keeps the invariant.
LEMMA NextIInv == IInv /\ [Next]_vars => IInv'
<1> SUFFICES ASSUME IInv, [Next]_vars
             PROVE  IInv'
  OBVIOUS
<1>1. CASE Next
  BY <1>1, StageStep, WriteStep, HoldStep, DeliveryStep DEF Next, Work, Disturb
<1>2. CASE UNCHANGED vars
  BY <1>2 DEF vars, steps, IInv, TypeOK, FlowInv, AckInv, StoreInv, AckedIsKept,
              TrailIsTrue, Kept, Held
<1> QED
  BY <1>1, <1>2

\* The invariant holds in every reachable state.
LEMMA Invariance == Spec => []IInv
BY InitIInv, NextIInv, PTL DEF Spec

----------------------------------------------------------------------------
\* Every variable keeps its type.
THEOREM TypeCorrect == Spec => []TypeOK
<1>1. IInv => TypeOK
  BY DEF IInv
<1> QED
  BY <1>1, Invariance, PTL

\* No ingress.ready is acknowledged unless its chunk was refused, written or held.
THEOREM NoAckAndLose == Spec => []AckedIsKept
<1>1. IInv => AckedIsKept
  BY DEF IInv
<1> QED
  BY <1>1, Invariance, PTL

\* D82: no row of a held chunk is in the canonical tables, whichever consumers had
\* the chunk in whatever order.
THEOREM NothingHeldIsWritten == Spec => []HeldIsUnwritten
<1>1. IInv => HeldIsUnwritten
  BY DEF IInv, StoreInv, HeldIsUnwritten
<1> QED
  BY <1>1, Invariance, PTL

\* A disposition is audited only after the fact.
THEOREM AuditFollowsFact == Spec => []TrailIsTrue
<1>1. IInv => TrailIsTrue
  BY DEF IInv
<1> QED
  BY <1>1, Invariance, PTL

----------------------------------------------------------------------------
(***************************************************************************)
(* The refinement of Delivery.  A step changes the tables or the queue,    *)
(* never both, so it is a Settle or one of the queue's steps; StoreInv     *)
(* makes a fate final.                                                     *)
(***************************************************************************)

\* The fates are those Delivery knows.
LEMMA FateType == \A ch : Fate(ch) \in {"written", "held", "refused", "pending"}
BY DEF Fate

\* A chunk that is kept has its fate.
LEMMA KeptHasFate == \A ch : Fate(ch) # "pending" <=> Kept(ch)
BY DEF Fate, Kept

\* A fate is final: a later write or hold of the chunk cannot change it.
LEMMA FateIsFinal ==
    ASSUME IInv, IInv', UNCHANGED fault, NEW ch \in Chunks, Fate(ch) # "pending",
           written \subseteq written', Held(ch) => Held(ch)'
    PROVE  Fate(ch)' = Fate(ch)
<1>1. /\ ch \in written' => fault[ch] \in Writable
      /\ Held(ch)' => fault[ch] \notin Writable \cup {"malformed"}
  BY DEF IInv, StoreInv
<1> QED
  BY <1>1 DEF Fate, Writable

\* A step of the consumers' stages is a Settle.
LEMMA StoreStepSettles ==
    ASSUME IInv, IInv', UNCHANGED <<fault, msg>>, written \subseteq written',
           heldRows \subseteq heldRows', heldChunks \subseteq heldChunks'
    PROVE  Contract!Settle
<1>1. ASSUME NEW ch \in Chunks, Fate(ch) # "pending"
      PROVE  Fate(ch)' = Fate(ch)
  BY <1>1, KeptGrows, FateIsFinal
<1>2. \A ch : Fate(ch)' \in {"written", "held", "refused", "pending"}
  BY DEF Fate
<1> QED
  BY <1>1, <1>2 DEF Contract!Settle, Contract!Pending

\* A step of the queue takes out only what is kept, or puts something back.
LEMMA QueueStepDelivers ==
    ASSUME IInv, IInv', UNCHANGED <<fault, events, written, heldChunks, heldRows>>,
           NEW ch \in Chunks, NEW state, msg' = [msg EXCEPT ![ch] = state]
    PROVE  Contract!Acknowledge \/ Contract!Redeliver
<1>1. \A k : Fate(k)' = Fate(k)
  BY DEF Fate, Held
<1>2. \A k \in Chunks : k # ch => msg'[k] = msg[k]
  BY DEF IInv, TypeOK
<1>3. CASE msg'[ch] = "acked"
  <2>1. Fate(ch) # "pending"
    BY <1>1, <1>3, KeptHasFate DEF IInv, AckedIsKept, Kept, Held
  <2> QED
    BY <1>1, <1>2, <1>3, <2>1 DEF Contract!Acknowledge, Contract!Pending
<1>4. CASE msg'[ch] # "acked"
  BY <1>1, <1>2, <1>4 DEF Contract!Redeliver
<1> QED
  BY <1>3, <1>4

\* Every step of the consumers is a step of Delivery or none.
LEMMA StepRefines ==
    ASSUME IInv, IInv', [Next]_vars
    PROVE  [Contract!Next]_<<[ch \in Chunks |-> Fate(ch)],
                             {ch \in Chunks : msg[ch] = "acked"}>>
<1> USE DEF stores, cVars, Done, Contract!Next
<1>1. ASSUME NEW c \in Consumers, UNCHANGED fault,
             \/ Fetch(c) \/ Parse(c) \/ Lookup(c) \/ Gates(c) \/ Classify(c)
             \/ Write(c) \/ StageFails(c) \/ Hold(c) \/ HoldFails(c) \/ Crash(c)
      PROVE  Contract!Settle
  BY <1>1, StoreStepSettles
     DEF Fetch, Parse, Lookup, Gates, Classify, Write, StageFails, Hold, HoldFails, Crash
<1>2. ASSUME NEW c \in Consumers, UNCHANGED fault,
             \/ \E ch \in Chunks : Receive(c, ch)
             \/ Acknowledge(c) \/ ModifyAckDeadline(c)
      PROVE  Contract!Settle \/ Contract!Acknowledge \/ Contract!Redeliver
  <2>1. pc[c] # "idle" => job[c] \in Chunks
    BY DEF IInv, FlowInv
  <2>2. CASE \E ch \in Chunks : Receive(c, ch)
    BY <1>2, <2>2, QueueStepDelivers DEF Receive
  <2>3. CASE Acknowledge(c)
    BY <1>2, <2>1, <2>3, QueueStepDelivers, StoreStepSettles DEF Acknowledge
  <2>4. CASE ModifyAckDeadline(c)
    BY <1>2, <2>1, <2>4, QueueStepDelivers DEF ModifyAckDeadline
  <2> QED
    BY <1>2, <2>2, <2>3, <2>4
<1>3. ASSUME NEW ch \in Chunks, UNCHANGED fault, LeaseExpires(ch) \/ Redeliver(ch)
      PROVE  Contract!Acknowledge \/ Contract!Redeliver
  BY <1>3, QueueStepDelivers DEF LeaseExpires, Redeliver
<1>4. CASE UNCHANGED vars
  BY <1>4, StoreStepSettles DEF vars, steps
<1> QED
  BY <1>1, <1>2, <1>3, <1>4 DEF Next, Work, Disturb

\* The consumer implements the contract of Delivery: one fate for each chunk,
\* written, held or refused, and no acknowledgement before it.
THEOREM Refinement == Spec => ImplementsDelivery
<1>1. Init => Contract!Init
  BY FateType DEF Init, Contract!Init, Contract!Pending
<1>2. IInv /\ IInv' /\ [Next]_vars
        => [Contract!Next]_<<[ch \in Chunks |-> Fate(ch)],
                             {ch \in Chunks : msg[ch] = "acked"}>>
  BY StepRefines
<1> QED
  BY <1>1, <1>2, Invariance, PTL DEF Spec, ImplementsDelivery, Contract!Spec
=============================================================================
