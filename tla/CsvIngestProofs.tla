--------------------------- MODULE CsvIngestProofs ---------------------------
(***************************************************************************)
(* The safety of the upload path for any number of uploads, files and      *)
(* bronze rows, any dedup window and any schedule of crashes, lost answers *)
(* and redeliveries.                                                       *)
(*                                                                         *)
(* None of the properties is inductive by itself.  OneRowPerWindow needs   *)
(* the worker's knowledge between its lookup and its insert (Fresh), which *)
(* survives because one worker inserts and the window only moves on;       *)
(* AckedConcluded needs what the worker has decided to acknowledge         *)
(* (AckInv), which needs that a PUBLISHED row was sent (PublishedInv),     *)
(* which needs what the worker knows of the row in hand (WorkerInv).       *)
(***************************************************************************)
EXTENDS CsvIngest, TLAPS

\* The requests that exist.
Seen == {t \in Traces : phase[t] # "new"}

\* A request's key is fixed when it begins, and only begun requests publish.
UploadInv ==
    \A t \in Traces : /\ t \in Seen => keyOf[t] \in Keys
                      /\ inbox[t] # "absent" => t \in Seen

\* Rows come from uploads and are never dated in the future.
RowInv ==
    \A b \in BronzeIds :
        bronze[b].status # "ABSENT" =>
            /\ bronze[b].key \in Keys
            /\ bronze[b].trace \in Traces
            /\ bronze[b].at <= clock

\* Some ingress.ready of row b was published.
Sent(b) == \E m \in ingress : m.ref = b

\* Marked rows were published.
PublishedInv == \A b \in BronzeIds : bronze[b].status = "PUBLISHED" => Sent(b)

\* No row of key k is inside the dedup window.
Fresh(k) ==
    \A b \in BronzeIds :
        bronze[b].status # "ABSENT" /\ bronze[b].key = k
            => bronze[b].at + Window < clock

\* What the worker knows at each of its steps.
WorkerInv ==
    /\ todo \subseteq Seen
    /\ pc \in {"lookup", "insert", "publish", "mark"} =>
         cur \in Seen /\ cur \in objects
    /\ pc = "insert" => Fresh(keyOf[cur])
    /\ pc \in {"publish", "mark"} =>
         /\ ref \in BronzeIds
         /\ bronze[ref].status = "RECEIVED"
         /\ bronze[ref].key = keyOf[cur]
    /\ pc = "mark" => Sent(ref)

\* A message the worker is about to acknowledge is concluded.
AckInv == \A t \in acks : t \in Seen /\ Concluded(keyOf[t])

\* The inductive invariant.
IInv ==
    /\ TypeOK
    /\ UploadInv
    /\ RowInv
    /\ PublishedInv
    /\ WorkerInv
    /\ AckInv
    /\ BronzeFirst
    /\ OneRowPerWindow
    /\ AckedConcluded

----------------------------------------------------------------------------
\* Initially nothing has happened.
LEMMA InitIInv == Init => IInv
BY ConstantsAssumption
   DEF Init, IInv, TypeOK, UploadInv, RowInv, PublishedInv, WorkerInv, AckInv,
       BronzeFirst, OneRowPerWindow, AckedConcluded, Seen, NoRow, Row, Status,
       Phases, Envelope

\* A new request, its GCS write and its publish: the rows and the worker are
\* left alone, and no existing request changes its key.
LEMMA UploadStep ==
    ASSUME IInv, NEW t \in Traces, Upload(t)
    PROVE  IInv'
<1>1. ASSUME NEW k \in Keys, BeginUpload(t, k)
      PROVE  IInv'
  <2>1. TypeOK' /\ UploadInv'
    BY <1>1, ConstantsAssumption
       DEF IInv, TypeOK, UploadInv, Seen, Phases, BeginUpload, workerVars
  <2>2. WorkerInv' /\ AckInv' /\ AckedConcluded'
    BY <1>1 DEF IInv, TypeOK, UploadInv, WorkerInv, AckInv, AckedConcluded, Seen,
                Fresh, Sent, Concluded, BeginUpload, workerVars
  <2>3. RowInv' /\ PublishedInv' /\ BronzeFirst' /\ OneRowPerWindow'
    BY <1>1 DEF IInv, RowInv, PublishedInv, BronzeFirst, OneRowPerWindow, Sent,
                BeginUpload
  <2> QED
    BY <2>1, <2>2, <2>3 DEF IInv
<1>2. CASE WriteObject(t)
  <2>1. TypeOK' /\ UploadInv'
    BY <1>2 DEF IInv, TypeOK, UploadInv, Seen, Phases, WriteObject, workerVars
  <2>2. WorkerInv' /\ AckInv' /\ AckedConcluded'
    BY <1>2 DEF IInv, TypeOK, UploadInv, WorkerInv, AckInv, AckedConcluded, Seen,
                Fresh, Sent, Concluded, WriteObject, workerVars
  <2>3. RowInv' /\ PublishedInv' /\ BronzeFirst' /\ OneRowPerWindow'
    BY <1>2 DEF IInv, RowInv, PublishedInv, BronzeFirst, OneRowPerWindow, Sent,
                WriteObject
  <2> QED
    BY <2>1, <2>2, <2>3 DEF IInv
<1>3. CASE PublishReceived(t)
  <2>1. TypeOK' /\ UploadInv'
    BY <1>3 DEF IInv, TypeOK, UploadInv, Seen, Phases, PublishReceived, workerVars
  <2>2. WorkerInv' /\ AckInv' /\ AckedConcluded'
    BY <1>3 DEF IInv, TypeOK, UploadInv, WorkerInv, AckInv, AckedConcluded, Seen,
                Fresh, Sent, Concluded, PublishReceived, workerVars
  <2>3. RowInv' /\ PublishedInv' /\ BronzeFirst' /\ OneRowPerWindow'
    BY <1>3 DEF IInv, RowInv, PublishedInv, BronzeFirst, OneRowPerWindow, Sent,
                PublishReceived
  <2> QED
    BY <2>1, <2>2, <2>3 DEF IInv
<1> QED
  BY <1>1, <1>2, <1>3 DEF Upload

\* Pub/Sub: only the delivery state of begun requests changes.
LEMMA BrokerStep ==
    ASSUME IInv, NEW t \in Traces, Broker(t)
    PROVE  IInv'
<1>1. TypeOK' /\ UploadInv' /\ AckedConcluded'
  BY DEF IInv, TypeOK, UploadInv, AckedConcluded, Seen, Concluded, Broker,
         LeaseExpires, Redeliver, uploadVars, workerVars
<1>2. WorkerInv' /\ AckInv'
  BY DEF IInv, WorkerInv, AckInv, Seen, Fresh, Sent, Concluded, Broker,
         LeaseExpires, Redeliver, uploadVars, workerVars
<1>3. RowInv' /\ PublishedInv' /\ BronzeFirst' /\ OneRowPerWindow'
  BY DEF IInv, RowInv, PublishedInv, BronzeFirst, OneRowPerWindow, Sent, Broker,
         LeaseExpires, Redeliver, uploadVars
<1> QED
  BY <1>1, <1>2, <1>3 DEF IInv

\* The clock: the dedup window only moves on, so Fresh stays true.
LEMMA TickStep ==
    ASSUME IInv, Tick
    PROVE  IInv'
<1>1. TypeOK' /\ UploadInv' /\ AckedConcluded'
  BY DEF IInv, TypeOK, UploadInv, AckedConcluded, Seen, Concluded, Tick,
         uploadVars, workerVars
<1>2. RowInv' /\ WorkerInv'
  BY ConstantsAssumption
     DEF IInv, TypeOK, RowInv, WorkerInv, Row, Seen, Fresh, Sent, Tick,
         uploadVars, workerVars
<1>3. AckInv' /\ PublishedInv' /\ BronzeFirst' /\ OneRowPerWindow'
  BY DEF IInv, AckInv, PublishedInv, BronzeFirst, OneRowPerWindow, Seen, Sent,
         Concluded, Tick, uploadVars, workerVars
<1> QED
  BY <1>1, <1>2, <1>3 DEF IInv

\* The ends of a poll pass: messages are leased, acknowledged, released or
\* dropped; rows and published messages are left alone.
LEMMA PassStep ==
    ASSUME IInv,
           \/ \E S \in SUBSET Traces : Pull(S)
           \/ Acknowledge
           \/ ModifyAckDeadline
           \/ Abandon
    PROVE  IInv'
<1>1. TypeOK'
  BY DEF IInv, TypeOK, Pull, Acknowledge, ModifyAckDeadline, Abandon, uploadVars
<1>2. UploadInv' /\ WorkerInv'
  BY DEF IInv, TypeOK, UploadInv, WorkerInv, Seen, Fresh, Sent, Pull,
         Acknowledge, ModifyAckDeadline, Abandon, uploadVars
<1>3. AckInv' /\ AckedConcluded'
  BY DEF IInv, TypeOK, AckInv, AckedConcluded, Seen, Concluded, Pull,
         Acknowledge, ModifyAckDeadline, Abandon, uploadVars
<1>4. RowInv' /\ PublishedInv' /\ BronzeFirst' /\ OneRowPerWindow'
  BY DEF IInv, RowInv, PublishedInv, BronzeFirst, OneRowPerWindow, Sent, Pull,
         Acknowledge, ModifyAckDeadline, Abandon, uploadVars
<1> QED
  BY <1>1, <1>2, <1>3, <1>4 DEF IInv

\* The steps of one message that write nothing: fetch, lookup, and any call
\* that fails.  Lookup is where Fresh and the row to resume become known.
LEMMA ReadStep ==
    ASSUME IInv,
           \/ \E t \in Traces : Fetch(t) \/ FetchFails(t)
           \/ Lookup
           \/ CallFails
    PROVE  IInv'
<1>1. ASSUME NEW t \in Traces, Fetch(t) \/ FetchFails(t)
      PROVE  TypeOK' /\ UploadInv' /\ WorkerInv' /\ AckInv' /\ AckedConcluded'
  BY <1>1 DEF IInv, TypeOK, UploadInv, WorkerInv, AckInv, AckedConcluded, Seen,
              Fresh, Sent, Concluded, Fetch, FetchFails, Ack, Nack, Continue,
              uploadVars
<1>2. ASSUME CallFails
      PROVE  TypeOK' /\ UploadInv' /\ WorkerInv' /\ AckInv' /\ AckedConcluded'
  BY <1>2 DEF IInv, TypeOK, UploadInv, WorkerInv, AckInv, AckedConcluded, Seen,
              Fresh, Sent, Concluded, CallFails, OnTransient, Nack, uploadVars
<1>3. ASSUME Lookup
      PROVE  TypeOK' /\ UploadInv' /\ WorkerInv' /\ AckInv' /\ AckedConcluded'
  <2> USE <1>3 DEF Lookup, Ack, Continue, Resume
  <2>1. TypeOK' /\ UploadInv' /\ AckedConcluded'
    BY DEF IInv, TypeOK, UploadInv, WorkerInv, AckedConcluded, Seen, Concluded,
           uploadVars
  <2>2. WorkerInv'
    BY ConstantsAssumption
       DEF IInv, TypeOK, UploadInv, WorkerInv, Row, Seen, Fresh, IsPrior,
           SameKeyInWindow, InWindow, NeedsResume, uploadVars
  <2>3. ASSUME acks' # acks
        PROVE  Concluded(keyOf[cur])
    <3>1. CASE Verdict[keyOf[cur]] = "pii"
      BY <3>1 DEF Concluded
    <3>2. CASE \E b \in BronzeIds : IsPrior(b, keyOf[cur]) /\ ~NeedsResume(b)
      BY <3>2 DEF IInv, TypeOK, PublishedInv, Row, Status, Sent, Concluded,
                  IsPrior, SameKeyInWindow, NeedsResume
    <3> QED
      BY <2>3, <3>1, <3>2
  <2>4. AckInv'
    BY <2>3 DEF IInv, WorkerInv, AckInv, Seen, Concluded, uploadVars
  <2> QED
    BY <2>1, <2>2, <2>4
<1>4. RowInv' /\ PublishedInv' /\ BronzeFirst' /\ OneRowPerWindow'
  BY DEF IInv, RowInv, PublishedInv, BronzeFirst, OneRowPerWindow, Sent, Fetch,
         FetchFails, Lookup, CallFails, uploadVars
<1> QED
  BY <1>1, <1>2, <1>3, <1>4 DEF IInv

\* The insert: the row lands outside the window of every other row of its key.
LEMMA InsertStep ==
    ASSUME IInv, NEW b \in BronzeIds, Insert(b)
    PROVE  IInv'
<1> USE DEF Insert, NewRow, Ack, Nack, Continue, uploadVars
<1>1. TypeOK' /\ UploadInv' /\ RowInv'
  BY DEF IInv, TypeOK, UploadInv, RowInv, WorkerInv, Row, Status, Seen
<1>2. \A k \in Keys : Concluded(k) => Concluded(k)'
  BY ConstantsAssumption DEF IInv, TypeOK, Row, Concluded
<1>3. OneRowPerWindow'
  BY DEF IInv, TypeOK, RowInv, WorkerInv, OneRowPerWindow, Row, Fresh
<1>4. BronzeFirst' /\ PublishedInv'
  BY DEF IInv, TypeOK, BronzeFirst, PublishedInv, Envelope, Row, Sent
<1>5. WorkerInv'
  BY DEF IInv, TypeOK, WorkerInv, Row, Seen
<1>6. ASSUME acks' # acks, NEW k, k = keyOf[cur]
      PROVE  Concluded(k)'
  <2>1. bronze'[b].key = k /\ bronze'[b].status = "FAILED"
    BY <1>6 DEF IInv, TypeOK, WorkerInv
  <2> QED
    BY <2>1 DEF Concluded
<1>7. cur \in Seen /\ \A t \in Seen : keyOf[t] \in Keys /\ keyOf'[t] = keyOf[t]
  BY DEF IInv, WorkerInv, UploadInv, Seen
<1>8. \A t \in acks' : t \in Seen' /\ Concluded(keyOf[t])'
  BY <1>2, <1>6, <1>7 DEF IInv, AckInv, Seen
<1>9. \A t \in Traces : inbox'[t] = "acked" => Concluded(keyOf[t])'
  BY <1>2, <1>7 DEF IInv, UploadInv, AckedConcluded, Seen
<1> QED
  BY <1>1, <1>3, <1>4, <1>5, <1>8, <1>9 DEF IInv, AckInv, AckedConcluded

\* The publish: one more message, about the RECEIVED row in hand.
LEMMA PublishStep ==
    ASSUME IInv, Publish
    PROVE  IInv'
<1> USE DEF Publish, IngressReady, Nack, Continue, uploadVars
<1>1. ASSUME NEW b \in BronzeIds, b = ref \/ Sent(b)
      PROVE  \E m \in ingress' : m.ref = b
  <2>1. CASE b = ref
    <3> WITNESS IngressReady \in ingress'
    <3> QED
      BY <2>1
  <2>2. CASE Sent(b)
    BY <2>2 DEF Sent
  <2> QED
    BY <1>1, <2>1, <2>2
<1>2. TypeOK' /\ UploadInv' /\ RowInv'
  BY DEF IInv, TypeOK, UploadInv, RowInv, WorkerInv, Envelope, Seen
<1>3. PublishedInv' /\ OneRowPerWindow'
  BY <1>1 DEF IInv, PublishedInv, OneRowPerWindow, Sent
<1>4. WorkerInv'
  BY <1>1 DEF IInv, WorkerInv, Seen, Sent
<1>5. BronzeFirst'
  BY DEF IInv, BronzeFirst, WorkerInv, Seen
<1>6. \A k \in Keys : Concluded(k) => Concluded(k)'
  BY DEF Concluded
<1>7. AckInv' /\ AckedConcluded'
  BY <1>6 DEF IInv, TypeOK, UploadInv, AckInv, AckedConcluded, Seen
<1> QED
  BY <1>2, <1>3, <1>4, <1>5, <1>7 DEF IInv

\* The stamp: the row in hand becomes PUBLISHED, and its message concluded.
LEMMA MarkPublishedStep ==
    ASSUME IInv, MarkPublished
    PROVE  IInv'
<1> USE DEF MarkPublished, Ack, Nack, uploadVars
<1>1. /\ ref \in BronzeIds
      /\ bronze[ref].status = "RECEIVED"
      /\ bronze[ref].key = keyOf[cur]
      /\ Sent(ref)
      /\ cur \in Seen
  BY DEF IInv, WorkerInv
<1>2. /\ bronze' \in [BronzeIds -> Row]
      /\ bronze'[ref].status = "PUBLISHED"
      /\ \A b \in BronzeIds :
           /\ bronze'[b].key = bronze[b].key
           /\ bronze'[b].trace = bronze[b].trace
           /\ bronze'[b].at = bronze[b].at
           /\ b # ref => bronze'[b] = bronze[b]
  BY <1>1 DEF IInv, TypeOK, Row, Status
<1> HIDE DEF MarkPublished
<1>3. TypeOK' /\ UploadInv' /\ RowInv'
  BY <1>1, <1>2 DEF IInv, TypeOK, UploadInv, RowInv, Seen, MarkPublished
<1>4. PublishedInv' /\ OneRowPerWindow'
  BY <1>1, <1>2 DEF IInv, PublishedInv, OneRowPerWindow, Sent, MarkPublished
<1>5. BronzeFirst'
  BY <1>1, <1>2 DEF IInv, TypeOK, BronzeFirst, Envelope, MarkPublished
<1>6. WorkerInv'
  BY DEF IInv, WorkerInv, Seen, MarkPublished
<1>7. ASSUME NEW k, Concluded(k) \/ k = keyOf[cur]
      PROVE  Concluded(k)'
  <2>1. ASSUME NEW b \in BronzeIds, bronze[b].key = k, bronze[b].status = "FAILED"
        PROVE  Concluded(k)'
    BY <1>1, <1>2, <2>1 DEF Concluded
  <2>2. ASSUME NEW b \in BronzeIds, bronze[b].key = k, Sent(b),
               bronze[b].status = "PUBLISHED" \/ b = ref
        PROVE  Concluded(k)'
    BY <1>2, <2>2 DEF Concluded, Sent, MarkPublished
  <2> QED
    BY <1>1, <1>7, <2>1, <2>2 DEF Concluded, Sent
<1>8. \A t \in acks' : t \in Seen' /\ Concluded(keyOf[t])'
  BY <1>1, <1>7 DEF IInv, AckInv, Seen, MarkPublished
<1>9. \A t \in Traces : inbox'[t] = "acked" => Concluded(keyOf[t])'
  BY <1>7 DEF IInv, AckedConcluded, MarkPublished
<1> QED
  BY <1>3, <1>4, <1>5, <1>6, <1>8, <1>9 DEF IInv, AckInv, AckedConcluded

\* Every step keeps the invariant.
LEMMA NextIInv == IInv /\ [Next]_vars => IInv'
<1> SUFFICES ASSUME IInv, [Next]_vars
             PROVE  IInv'
  OBVIOUS
<1>1. ASSUME NEW t \in Traces, Upload(t) \/ Broker(t)
      PROVE  IInv'
  BY <1>1, UploadStep, BrokerStep
<1>2. CASE Tick
  BY <1>2, TickStep
<1>3. CASE Worker
  BY <1>3, PassStep, ReadStep, InsertStep, PublishStep, MarkPublishedStep DEF Worker
<1>4. CASE UNCHANGED vars
  BY <1>4 DEF vars, IInv, TypeOK, UploadInv, RowInv, PublishedInv, WorkerInv,
              AckInv, BronzeFirst, OneRowPerWindow, AckedConcluded, Seen, Sent,
              Fresh, Concluded
<1> QED
  BY <1>1, <1>2, <1>3, <1>4 DEF Next

\* The invariant holds in every reachable state.
LEMMA Invariance == Spec => []IInv
BY InitIInv, NextIInv, PTL DEF Spec

----------------------------------------------------------------------------
\* Every variable keeps its type.
THEOREM TypeCorrect == Spec => []TypeOK
<1>1. IInv => TypeOK
  BY DEF IInv
<1> QED
  BY <1>1, Invariance, PTL

\* D5: bronze lands before its ingress.ready is published, whatever crashes,
\* and no refused file is ever published.
THEOREM BronzeBeforePublish == Spec => []BronzeFirst
<1>1. IInv => BronzeFirst
  BY DEF IInv
<1> QED
  BY <1>1, Invariance, PTL

\* The dedup lookup of the single worker keeps rows of one upload a window apart.
THEOREM DedupHolds == Spec => []OneRowPerWindow
<1>1. IInv => OneRowPerWindow
  BY DEF IInv
<1> QED
  BY <1>1, Invariance, PTL

\* No csv.received is acknowledged before its upload is concluded.
THEOREM NoAckAndLose == Spec => []AckedConcluded
<1>1. IInv => AckedConcluded
  BY DEF IInv
<1> QED
  BY <1>1, Invariance, PTL

\* D59: the worker never publishes again what is marked PUBLISHED.
THEOREM PublishOnceMarked == Spec => []NoSecondPublish
<1>1. IInv => NoSecondPublish
  BY DEF IInv, WorkerInv, NoSecondPublish
<1> QED
  BY <1>1, Invariance, PTL
=============================================================================
