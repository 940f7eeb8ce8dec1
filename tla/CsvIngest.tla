----------------------------- MODULE CsvIngest -----------------------------
(***************************************************************************)
(* From an HTTP upload to a published chunk: dis-ui-server's               *)
(* POST /v1/csv-uploads, the csv.received subscription, the (single)       *)
(* csv-ingest-worker and the bronze table bronze.data_ingress_events.      *)
(*                                                                         *)
(* One request mints one trace_id, writes one GCS object named by it and   *)
(* publishes one csv.received.  The upload_session_id is a digest of       *)
(* tenant, store, template and bytes, so a client that retries produces a  *)
(* second trace, a second object and the SAME session: a Key stands for    *)
(* everything the dedup query compares.  An object and its gcs_uri are     *)
(* identified by the trace in its path.                                    *)
(*                                                                         *)
(* Every remote call (GCS, Pub/Sub, PostgreSQL) is a step of its own that  *)
(* can succeed, fail, or take effect while the caller sees an error; the   *)
(* worker can crash between any two.  Audit rows are fire-and-forget and   *)
(* are left out.  Time is counted in units of which Window make the 24h    *)
(* dedup window.                                                           *)
(***************************************************************************)
EXTENDS Naturals, FiniteSets

CONSTANTS
    Traces,     \* trace ids, one per upload request
    Keys,       \* (tenant, store, template, content) identities
    BronzeIds,  \* bronze row ids (new_uuid7); a bound on the rows inserted
    Verdict,    \* [Keys -> Verdicts]: what the worker's gates say of a file
    Window,     \* DEDUP_WINDOW_HOURS in clock units
    MaxTime,    \* bound on the clock
    MaxPull,    \* max_messages of one pull
    None        \* the null of ids

Verdicts == {"ok", "unparseable", "pii", "malformed"}

ASSUME ConstantsAssumption ==
    /\ Verdict \in [Keys -> Verdicts]
    /\ Window \in Nat
    /\ MaxTime \in Nat
    /\ MaxPull \in Nat \ {0}
    /\ None \notin Traces \cup Keys \cup BronzeIds

VARIABLES
    clock,      \* now_utc
    phase,      \* where each upload request stands
    keyOf,      \* the key a request uploads
    objects,    \* GCS objects, by the trace in their path
    inbox,      \* csv.received messages, by trace
    bronze,     \* bronze.data_ingress_events
    ingress,    \* ingress.ready messages ever published
    pc,         \* the worker's next step
    todo,       \* messages of the current pull not processed yet
    cur,        \* the message in hand
    ref,        \* the bronze row in hand
    acks,       \* messages of this pull decided "ack"
    nacks       \* messages of this pull decided "nack"

uploadVars == <<phase, keyOf, objects>>
workerVars == <<pc, todo, cur, ref, acks, nacks>>
vars == <<clock, phase, keyOf, objects, inbox, bronze, ingress, pc, todo, cur,
          ref, acks, nacks>>

Phases == {"new", "storing", "publishing", "accepted", "failed"}
Status == {"ABSENT", "RECEIVED", "PUBLISHED", "FAILED"}
Row == [status : Status, key : Keys \cup {None}, trace : Traces \cup {None},
        uri : Traces \cup {None}, at : Nat]
NoRow == [status |-> "ABSENT", key |-> None, trace |-> None, uri |-> None,
          at |-> 0]
Envelope == [trace : Traces, ref : BronzeIds, uri : Traces]

\* The type of every variable.
TypeOK ==
    /\ clock \in Nat
    /\ phase \in [Traces -> Phases]
    /\ keyOf \in [Traces -> Keys \cup {None}]
    /\ objects \subseteq Traces
    /\ inbox \in [Traces -> {"absent", "ready", "leased", "acked"}]
    /\ bronze \in [BronzeIds -> Row]
    /\ ingress \subseteq Envelope
    /\ pc \in {"idle", "next", "lookup", "insert", "publish", "mark", "nack"}
    /\ todo \subseteq Traces
    /\ cur \in Traces \cup {None}
    /\ ref \in BronzeIds \cup {None}
    /\ acks \subseteq Traces
    /\ nacks \subseteq Traces

Init ==
    /\ clock = 0
    /\ phase = [t \in Traces |-> "new"]
    /\ keyOf = [t \in Traces |-> None]
    /\ objects = {}
    /\ inbox = [t \in Traces |-> "absent"]
    /\ bronze = [b \in BronzeIds |-> NoRow]
    /\ ingress = {}
    /\ pc = "idle"
    /\ todo = {}
    /\ cur = None
    /\ ref = None
    /\ acks = {}
    /\ nacks = {}

----------------------------------------------------------------------------
(***************************************************************************)
(* dis-ui-server.  A request the 4xx gates reject changes nothing and is   *)
(* not a step.  After them: GCS write, then publish.  A failed call is a   *)
(* 503 that leaves what it did behind (no compensating delete), and the    *)
(* client may retry as a new request.                                      *)
(***************************************************************************)
BeginUpload(t, k) ==
    /\ phase[t] = "new"
    /\ phase' = [phase EXCEPT ![t] = "storing"]
    /\ keyOf' = [keyOf EXCEPT ![t] = k]
    /\ UNCHANGED <<clock, objects, inbox, bronze, ingress, workerVars>>

WriteObject(t) ==
    /\ phase[t] = "storing"
    /\ \/ /\ phase' = [phase EXCEPT ![t] = "publishing"]
          /\ objects' = objects \cup {t}
       \/ /\ phase' = [phase EXCEPT ![t] = "failed"]
          /\ objects' \in {objects, objects \cup {t}}
    /\ UNCHANGED <<clock, keyOf, inbox, bronze, ingress, workerVars>>

PublishReceived(t) ==
    /\ phase[t] = "publishing"
    /\ \/ /\ phase' = [phase EXCEPT ![t] = "accepted"]
          /\ inbox' = [inbox EXCEPT ![t] = "ready"]
       \/ /\ phase' = [phase EXCEPT ![t] = "failed"]
          /\ inbox' \in {inbox, [inbox EXCEPT ![t] = "ready"]}
    /\ UNCHANGED <<clock, keyOf, objects, bronze, ingress, workerVars>>

----------------------------------------------------------------------------
(***************************************************************************)
(* Pub/Sub, as the services use it: at-least-once, an ack deadline after   *)
(* which an unacknowledged message is delivered again, and the occasional  *)
(* redelivery of a message that was acknowledged.                          *)
(***************************************************************************)
LeaseExpires(t) ==
    /\ inbox[t] = "leased"
    /\ inbox' = [inbox EXCEPT ![t] = "ready"]
    /\ UNCHANGED <<clock, uploadVars, bronze, ingress, workerVars>>

Redeliver(t) ==
    /\ inbox[t] = "acked"
    /\ inbox' = [inbox EXCEPT ![t] = "ready"]
    /\ UNCHANGED <<clock, uploadVars, bronze, ingress, workerVars>>

Tick ==
    /\ clock < MaxTime
    /\ clock' = clock + 1
    /\ UNCHANGED <<uploadVars, inbox, bronze, ingress, workerVars>>

----------------------------------------------------------------------------
(***************************************************************************)
(* The worker's poll pass.  The messages of one pull are processed one     *)
(* after the other, in the order the response lists them, and are all      *)
(* acknowledged or nacked at the end.                                      *)
(***************************************************************************)
Pull(S) ==
    /\ pc = "idle"
    /\ S # {} /\ Cardinality(S) <= MaxPull
    /\ \A t \in S : inbox[t] = "ready"
    /\ inbox' = [t \in Traces |-> IF t \in S THEN "leased" ELSE inbox[t]]
    /\ pc' = "next"
    /\ todo' = S
    /\ UNCHANGED <<clock, uploadVars, bronze, ingress, cur, ref, acks, nacks>>

\* process_message's decisions on the message in hand.
Ack(t) == /\ acks' = acks \cup {t}
          /\ pc' = "next"
          /\ cur' = None
          /\ ref' = None
          /\ UNCHANGED nacks

Nack(t) == /\ nacks' = nacks \cup {t}
           /\ pc' = "next"
           /\ cur' = None
           /\ ref' = None
           /\ UNCHANGED acks

Continue(step) == pc' = step /\ UNCHANGED <<acks, nacks>>

\* Parse, path cross-check, download.  An event that does not parse, or whose
\* gcs_uri is another upload's, is terminal.  A gcs_uri that is no path of the
\* bronze layout at all would be a StorageError, nacked for ever; the upload
\* builds every one with build_object_path, so none is.
Fetch(t) ==
    /\ pc = "next" /\ t \in todo
    /\ todo' = todo \ {t}
    /\ \/ Verdict[keyOf[t]] = "malformed" /\ Ack(t)
       \/ /\ Verdict[keyOf[t]] # "malformed" /\ t \in objects
          /\ Continue("lookup") /\ cur' = t /\ UNCHANGED ref
    /\ UNCHANGED <<clock, uploadVars, inbox, bronze, ingress>>

FetchFails(t) ==
    /\ pc = "next" /\ t \in todo
    /\ Verdict[keyOf[t]] # "malformed"
    /\ todo' = todo \ {t}
    /\ Nack(t)
    /\ UNCHANGED <<clock, uploadVars, inbox, bronze, ingress>>

\* Mutant: the cutoff excludes the row exactly one window old.
InWindowShort(b) == bronze[b].at + Window > clock

\* received_at >= now - DEDUP_WINDOW_HOURS.
InWindow(b) == bronze[b].at + Window >= clock

\* The rows find_prior's WHERE clause selects for key k.
SameKeyInWindow(k) ==
    {b \in BronzeIds : /\ bronze[b].status # "ABSENT"
                       /\ bronze[b].key = k
                       /\ InWindow(b)}

\* ORDER BY received_at DESC LIMIT 1.
IsPrior(b, k) ==
    /\ b \in SameKeyInWindow(k)
    /\ \A c \in SameKeyInWindow(k) : bronze[c].at <= bronze[b].at

\* Mutants: resume a FAILED prior too; a PUBLISHED one too.
ResumesUnpublished(b) == bronze[b].status # "PUBLISHED"
ResumesUnfailed(b) == bronze[b].status # "FAILED"

\* The prior ingest landed its row and lost its publish.
NeedsResume(b) == bronze[b].status = "RECEIVED"

\* Mutant: leave the lost publish to a sweeper, the message undecided.
WaitForSweeper(b) == Continue("next") /\ cur' = None /\ ref' = None

\* Resume-and-mark: complete the publish of row b.
Resume(b) == Continue("publish") /\ ref' = b /\ UNCHANGED cur

\* The dedup lookup and the local decisions that follow it: a duplicate is a
\* no-op or a resume, a fresh file goes through preflight and the PII gate.
Lookup ==
    /\ pc = "lookup"
    /\ \/ /\ SameKeyInWindow(keyOf[cur]) = {}
          /\ \/ Verdict[keyOf[cur]] = "pii" /\ Ack(cur)
             \/ /\ Verdict[keyOf[cur]] # "pii"
                /\ Continue("insert") /\ UNCHANGED <<cur, ref>>
       \/ \E b \in BronzeIds :
            /\ IsPrior(b, keyOf[cur])
            /\ \/ ~NeedsResume(b) /\ Ack(cur)
               \/ NeedsResume(b) /\ Resume(b)
    /\ UNCHANGED <<clock, uploadVars, inbox, bronze, ingress, todo>>

\* The row the message in hand lands: FAILED when preflight refused the file.
NewRow ==
    [status |-> IF Verdict[keyOf[cur]] = "unparseable" THEN "FAILED"
                                                       ELSE "RECEIVED",
     key |-> keyOf[cur], trace |-> cur, uri |-> cur, at |-> clock]

Insert(b) ==
    /\ pc = "insert"
    /\ bronze[b].status = "ABSENT"
    /\ bronze' = [bronze EXCEPT ![b] = NewRow]
    /\ \/ NewRow.status = "FAILED" /\ Ack(cur)
       \/ /\ NewRow.status = "RECEIVED"
          /\ Continue("publish") /\ ref' = b /\ UNCHANGED cur
       \/ Nack(cur)               \* committed, but the commit's answer is lost
    /\ UNCHANGED <<clock, uploadVars, inbox, ingress, todo>>

\* Mutant: the pointer goes out without a bronze_ref.
IngressUnbacked == [trace |-> cur, ref |-> None, uri |-> cur]

\* build_ingress_ready: trace_id and bronze_ref are the row's, gcs_uri is the
\* incoming event's.
IngressReady == [trace |-> bronze[ref].trace, ref |-> ref, uri |-> cur]

Publish ==
    /\ pc = "publish"
    /\ ingress' = ingress \cup {IngressReady}
    /\ \/ Continue("mark") /\ UNCHANGED <<cur, ref>>
       \/ Nack(cur)               \* delivered, but publish raised
    /\ UNCHANGED <<clock, uploadVars, inbox, bronze, todo>>

MarkPublished ==
    /\ pc = "mark"
    /\ bronze' = [bronze EXCEPT ![ref].status = "PUBLISHED"]
    /\ Ack(cur) \/ Nack(cur)
    /\ UNCHANGED <<clock, uploadVars, inbox, ingress, todo>>

\* Mutant: an infrastructure error counted among the terminal ones.
TransientIsTerminal == Ack(cur)

\* Any error outside _TERMINAL: nack for redelivery.
OnTransient == Nack(cur)

\* A lookup, insert, publish or mark that raises without effect.
CallFails ==
    /\ pc \in {"lookup", "insert", "publish", "mark"}
    /\ OnTransient
    /\ UNCHANGED <<clock, uploadVars, inbox, bronze, ingress, todo>>

\* acknowledge(ack_ids).  A lease that has run out may or may not count.
Acknowledge ==
    /\ pc = "next" /\ todo = {}
    /\ \E late \in SUBSET {t \in acks : inbox[t] = "ready"} :
         inbox' = [t \in Traces |->
                     IF t \in late \/ (t \in acks /\ inbox[t] = "leased")
                     THEN "acked" ELSE inbox[t]]
    /\ pc' = "nack"
    /\ acks' = {}
    /\ UNCHANGED <<clock, uploadVars, bronze, ingress, todo, cur, ref, nacks>>

\* modify_ack_deadline(nack_ids, 0).
ModifyAckDeadline ==
    /\ pc = "nack"
    /\ inbox' = [t \in Traces |->
                   IF t \in nacks /\ inbox[t] = "leased"
                   THEN "ready" ELSE inbox[t]]
    /\ pc' = "idle"
    /\ nacks' = {}
    /\ UNCHANGED <<clock, uploadVars, bronze, ingress, todo, cur, ref, acks>>

\* The process dies, or an acknowledge/modify call raises out of poll_once:
\* nothing of this pull is acknowledged any more.
Abandon ==
    /\ pc # "idle"
    /\ pc' = "idle"
    /\ todo' = {} /\ acks' = {} /\ nacks' = {}
    /\ cur' = None /\ ref' = None
    /\ UNCHANGED <<clock, uploadVars, inbox, bronze, ingress>>

----------------------------------------------------------------------------
Upload(t) == (\E k \in Keys : BeginUpload(t, k)) \/ WriteObject(t)
             \/ PublishReceived(t)

Broker(t) == LeaseExpires(t) \/ Redeliver(t)

Worker ==
    \/ \E S \in SUBSET Traces : Pull(S)
    \/ \E t \in Traces : Fetch(t) \/ FetchFails(t)
    \/ Lookup
    \/ \E b \in BronzeIds : Insert(b)
    \/ Publish
    \/ MarkPublished
    \/ CallFails
    \/ Acknowledge
    \/ ModifyAckDeadline
    \/ Abandon

Next == (\E t \in Traces : Upload(t) \/ Broker(t)) \/ Worker \/ Tick

Spec == Init /\ [][Next]_vars

(***************************************************************************)
(* Fairness.  run_forever never stops pulling and the broker delivers again *)
(* once a lease has run out: weak fairness of both.  The infrastructure is *)
(* assumed to recover for good at some unknown point: from then on no call *)
(* fails, the worker does not crash and a poll pass is shorter than the    *)
(* ack deadline.  Nothing is assumed of clients.                           *)
(***************************************************************************)
Disturbed ==
    \/ nacks' \ nacks # {}
    \/ pc # "nack" /\ Abandon
    \/ \E t \in Traces : Redeliver(t) \/ (pc # "idle" /\ LeaseExpires(t))

FairSpec ==
    /\ Spec
    /\ WF_vars(Worker)
    /\ \A t \in Traces : WF_vars(LeaseExpires(t))
    /\ <>[][~Disturbed]_vars

----------------------------------------------------------------------------
(***************************************************************************)
(* What must hold.                                                         *)
(***************************************************************************)

\* Bronze before publish (D5): every ingress.ready ever published names a row
\* that had landed, was not refused by preflight, carries the row's trace, and
\* points at an object that exists.
BronzeFirst ==
    \A m \in ingress :
        /\ bronze[m.ref].status \in {"RECEIVED", "PUBLISHED"}
        /\ m.trace = bronze[m.ref].trace
        /\ m.uri \in objects

\* Whatever crashes, redeliveries and client retries happen, the dedup query
\* keeps two rows of one upload more than a whole window apart.
OneRowPerWindow ==
    \A b, c \in BronzeIds :
        /\ b # c
        /\ bronze[b].status # "ABSENT" /\ bronze[c].status # "ABSENT"
        /\ bronze[b].key = bronze[c].key
        => \/ bronze[b].at + Window < bronze[c].at
           \/ bronze[c].at + Window < bronze[b].at

\* What a csv.received may be acknowledged for: the file was refused, or its
\* row is marked PUBLISHED and the ingress.ready of that row was sent.
Concluded(k) ==
    \/ Verdict[k] \in {"malformed", "pii"}
    \/ \E b \in BronzeIds :
        /\ bronze[b].key = k
        /\ \/ bronze[b].status = "FAILED"
           \/ /\ bronze[b].status = "PUBLISHED"
              /\ \E m \in ingress : m.ref = b

\* Never ack-and-lose: an acknowledged csv.received has been concluded.
AckedConcluded ==
    \A t \in Traces : inbox[t] = "acked" => Concluded(keyOf[t])

\* D59: a row that was marked PUBLISHED is never published again, whatever the
\* worker looked up before.
NoSecondPublish ==
    pc \in {"publish", "mark"} => bronze[ref].status = "RECEIVED"

\* Every csv.received that becomes deliverable is acknowledged eventually: no
\* crash point leaves a message that redelivery cannot conclude.
Settles == \A t \in Traces : inbox[t] = "ready" ~> inbox[t] = "acked"

----------------------------------------------------------------------------
(***************************************************************************)
(* What the repository says and the code does not do.                      *)
(***************************************************************************)

\* D59: "Resume-and-mark converges on redelivery with no stall".  The consumer
\* accepts an ingress.ready only if its gcs_uri equals the row's
\* (read_bronze_row), so a row marked PUBLISHED needs one such message: the
\* row's own csv.received is a no-op from then on.
MarkedIsConsumable ==
    \A b \in BronzeIds :
        bronze[b].status = "PUBLISHED" =>
            \E m \in ingress : m.ref = b /\ m.uri = bronze[b].uri
=============================================================================
