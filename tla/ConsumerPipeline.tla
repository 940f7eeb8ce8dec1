-------------------------- MODULE ConsumerPipeline --------------------------
(***************************************************************************)
(* What the streaming-consumer does with one ingress.ready message         *)
(* (orchestrate.py, clients/pubsub.py, sinks/quarantine.py): the stages in *)
(* order, the classification of a failure, the hold in quarantine, the     *)
(* audit trail and the ack or nack.  CanonicalWrite has the detail of the  *)
(* write stage; here it succeeds, fails or misses hot positions.           *)
(*                                                                         *)
(* A chunk's fault is what is wrong with its message, object or mapping.   *)
(* It is the same on every delivery: no code rewrites an object, a bronze  *)
(* row's pointer or an ACTIVE mapping.  Everything else that can fail is   *)
(* infrastructure.  A consumer may crash at any point, and two consumers   *)
(* may hold the same message once its lease has run out.  A pull delivers  *)
(* one message: while a consumer rests before its acknowledgement, another *)
(* does what the rest of a longer pull would do.                           *)
(*                                                                         *)
(* Two faults only the tables see: a row that passes both suites can break *)
(* a CHECK, when its event or catalogue row is inserted or when it is      *)
(* merged into a position.  No code tells that from an outage, so the      *)
(* chunk comes back for ever.                                              *)
(*                                                                         *)
(* The bronze row an event names has a foreign key to its store, so the    *)
(* store is mirrored whenever read_store_facts runs.  Of the audit trail,  *)
(* the two rows that claim a disposition are kept.                         *)
(***************************************************************************)
EXTENDS Naturals, FiniteSets

CONSTANTS
    Consumers,  \* consumer instances
    Chunks,     \* ingress.ready messages
    FaultMaps,  \* the assignments of a fault to every chunk
    Needs       \* [Chunks -> SUBSET Chunks]: catalogue chunks that create the
                \* positions a chunk's rows merge into

Faults == {
    "none",
    "malformed",    \* the envelope does not parse
    "path",         \* gcs_uri disagrees with the event
    "bronze",       \* no bronze row for it, or one that disagrees
    "unparseable",  \* the object is not CSV, or has no row
    "config",       \* no usable ACTIVE mapping
    "suite",        \* the mapping names a validation suite
    "rule",         \* the engine refuses a mapping rule (an unknown time zone)
    "drift",        \* any other deterministic error of the pure stages
    "rows",         \* a gate fails cells of known rows
    "rowless",      \* a gate fails on the shape of the chunk
    "unwritable",   \* a row breaks a CHECK of the table it is inserted into
    "unmergeable" } \* a row breaks a CHECK of the position it is merged into

\* What no stage before the write objects to.
Writable == {"none", "unwritable", "unmergeable"}

ASSUME ConstantsAssumption ==
    /\ FaultMaps \subseteq [Chunks -> Faults]
    /\ Needs \in [Chunks -> SUBSET Chunks]

VARIABLES
    fault,      \* the fault of each chunk
    msg,        \* delivery state of each message
    events,     \* chunks with rows in the event tables
    written,    \* chunks completely written
    heldChunks, \* quarantined_chunks, as <<chunk, failure_reason>>
    heldRows,   \* chunks with rows in quarantined_rows
    trail,      \* disposition rows of audit.events, as <<chunk, stage>>
    pc,         \* next stage of each consumer
    job,        \* the message in hand
    known,      \* whether ctx.dis_channel is known
    code        \* the FailureCode being handled

cVars == <<pc, job, known, code>>
stores == <<events, written, heldChunks, heldRows, trail>>
steps == <<msg, events, written, heldChunks, heldRows, trail, pc, job, known, code>>
vars == <<fault, steps>>

Codes == {"PATH_MISMATCH", "CONTRACT_VIOLATION", "MAPPING_CONFIG_INVALID",
          "SUITE_REF_UNSUPPORTED", "INFRA_FAILURE", "HOT_POSITION_MISSING",
          "GATE_FAILED", "VALIDATION_ROW_FAILED"}
Stages == {"idle", "fetch", "parse", "lookup", "gates", "write", "classify",
           "hold", "ack", "nack"}
None == "none"

\* The type of every variable.
TypeOK ==
    /\ fault \in [Chunks -> Faults]
    /\ msg \in [Chunks -> {"ready", "leased", "acked"}]
    /\ events \subseteq Chunks
    /\ written \subseteq Chunks
    /\ heldChunks \subseteq Chunks \X Codes
    /\ heldRows \subseteq Chunks
    /\ trail \subseteq Chunks \X {"CANONICAL_WRITTEN", "QUARANTINED"}
    /\ pc \in [Consumers -> Stages]
    /\ job \in [Consumers -> Chunks \cup {None}]
    /\ known \in [Consumers -> BOOLEAN]
    /\ code \in [Consumers -> Codes \cup {None}]

Init ==
    /\ fault \in FaultMaps
    /\ msg = [ch \in Chunks |-> "ready"]
    /\ events = {} /\ written = {}
    /\ heldChunks = {} /\ heldRows = {}
    /\ trail = {}
    /\ pc = [c \in Consumers |-> "idle"]
    /\ job = [c \in Consumers |-> None]
    /\ known = [c \in Consumers |-> FALSE]
    /\ code = [c \in Consumers |-> None]

----------------------------------------------------------------------------
(***************************************************************************)
(* Steps of one consumer.                                                  *)
(***************************************************************************)
Goto(c, stage) == pc' = [pc EXCEPT ![c] = stage]

\* ConsumerAudit.emit: fire-and-forget, the row may be lost.
Emit(ch, stage) == trail' \in {trail, trail \cup {<<ch, stage>>}}

\* Mutant: the failure carries its exception class in place of a FailureCode.
RaiseClassName(c, failure) ==
    /\ code' = [code EXCEPT ![c] = "ValueError"]
    /\ Goto(c, "classify")

\* The pipeline raises; the quarantine decision follows.
Raise(c, failure) ==
    /\ code' = [code EXCEPT ![c] = failure]
    /\ Goto(c, "classify")

Held(ch) == ch \in heldRows \/ \E r \in Codes : <<ch, r>> \in heldChunks

\* Pull one message.  parse_ingress_ready failing is terminal.
Receive(c, ch) ==
    /\ pc[c] = "idle"
    /\ msg[ch] = "ready"
    /\ msg' = [msg EXCEPT ![ch] = "leased"]
    /\ job' = [job EXCEPT ![c] = ch]
    /\ IF fault[ch] = "malformed" THEN Goto(c, "ack") ELSE Goto(c, "fetch")
    /\ UNCHANGED <<stores, known, code>>

\* Mutant: the context learns the channel only when the whole stage returns.
LearnsLate(c) == UNCHANGED known

\* ctx.note_bronze, called as soon as the bronze row is read.
NoteBronze(c) == known' = [known EXCEPT ![c] = TRUE]

\* cross_check_path and read_bronze_row.
Fetch(c) ==
    LET f == fault[job[c]]
    IN  /\ pc[c] = "fetch"
        /\ \/ f = "path" /\ Raise(c, "PATH_MISMATCH") /\ UNCHANGED known
           \/ f = "bronze" /\ Raise(c, "CONTRACT_VIOLATION") /\ UNCHANGED known
           \/ f \notin {"path", "bronze"} /\ Goto(c, "parse") /\ NoteBronze(c)
                /\ UNCHANGED code
        /\ UNCHANGED <<msg, stores, job>>

\* Download and parse_chunk.
Parse(c) ==
    /\ pc[c] = "parse"
    /\ \/ fault[job[c]] = "unparseable" /\ Raise(c, "CONTRACT_VIOLATION")
       \/ fault[job[c]] # "unparseable" /\ Goto(c, "lookup") /\ UNCHANGED code
    /\ UNCHANGED <<msg, stores, job, known>>

\* load_active_mapping and read_store_facts.
Lookup(c) ==
    LET f == fault[job[c]]
    IN  /\ pc[c] = "lookup"
        /\ \/ f = "config" /\ Raise(c, "MAPPING_CONFIG_INVALID")
           \/ f = "suite" /\ Raise(c, "SUITE_REF_UNSUPPORTED")
           \/ f \notin {"config", "suite"} /\ Goto(c, "gates") /\ UNCHANGED code
        /\ UNCHANGED <<msg, stores, job, known>>

\* The pre gate, the mapping engine, enrichment and the post gate.  A failed
\* gate goes to the hold directly.
Gates(c) ==
    LET f == fault[job[c]]
    IN  /\ pc[c] = "gates"
        /\ \/ f = "rule" /\ Raise(c, "MAPPING_CONFIG_INVALID")
           \/ f = "drift" /\ Raise(c, "INFRA_FAILURE")
           \/ /\ f \in {"rows", "rowless"}
              /\ code' = [code EXCEPT ![c] = IF f = "rows" THEN "VALIDATION_ROW_FAILED"
                                                            ELSE "GATE_FAILED"]
              /\ Goto(c, "hold")
           \/ f \in Writable /\ Goto(c, "write") /\ UNCHANGED code
        /\ UNCHANGED <<msg, stores, job, known>>

\* Some position the chunk merges into may exist.
Positioned(ch) == Needs[ch] = {} \/ Needs[ch] \cap events # {}

\* write_chunk or write_catalogue_chunk, batch by batch: all of them; the miss
\* of a hot position, which comes after the commit of the batch's event rows;
\* or a CHECK, which undoes its own batch and leaves the earlier ones.  A partly
\* written catalogue may or may not have the positions.  A merge that loses to a
\* newer event changes nothing, so even a row no position accepts can get by.
Write(c) ==
    LET ch == job[c]
    IN  /\ pc[c] = "write"
        /\ \/ /\ fault[ch] # "unwritable"
              /\ Needs[ch] \subseteq events
              /\ events' = events \cup {ch}
              /\ written' = written \cup {ch}
              /\ Emit(ch, "CANONICAL_WRITTEN")
              /\ Goto(c, "ack") /\ UNCHANGED code
           \/ /\ ~(Needs[ch] \subseteq written)
              /\ events' = events \cup {ch}
              /\ Raise(c, "HOT_POSITION_MISSING")
              /\ UNCHANGED <<written, trail>>
           \/ /\ \/ fault[ch] = "unwritable"
                 \/ fault[ch] = "unmergeable" /\ Positioned(ch)
              /\ events' \in {events, events \cup {ch}}
              /\ Raise(c, "INFRA_FAILURE")
              /\ UNCHANGED <<written, trail>>
        /\ UNCHANGED <<msg, heldChunks, heldRows, job, known>>

\* A call of a stage fails; a write may leave committed batches behind.
StageFails(c) ==
    /\ pc[c] \in {"fetch", "parse", "lookup", "write"}
    /\ Raise(c, "INFRA_FAILURE")
    /\ events' \in {events, IF pc[c] = "write" THEN events \cup {job[c]} ELSE events}
    /\ UNCHANGED <<msg, written, heldChunks, heldRows, trail, job, known>>

\* Mutant: the miss of a hot position counts as deterministic.
QuarantinesMisses(c) ==
    /\ code[c] \in {"MAPPING_CONFIG_INVALID", "SUITE_REF_UNSUPPORTED",
                    "CONTRACT_VIOLATION", "HOT_POSITION_MISSING"}
    /\ known[c]

\* _quarantinable: the allowlist and the known-columns guard.
Quarantinable(c) ==
    /\ code[c] \in {"MAPPING_CONFIG_INVALID", "SUITE_REF_UNSUPPORTED",
                    "CONTRACT_VIOLATION"}
    /\ known[c]

\* process's exception handler.
Classify(c) ==
    /\ pc[c] = "classify"
    /\ IF Quarantinable(c) THEN Goto(c, "hold") ELSE Goto(c, "nack")
    /\ UNCHANGED <<msg, stores, job, known, code>>

\* hold_row_failures or hold_chunk_failure, then the QUARANTINED audit.
Hold(c) ==
    /\ pc[c] = "hold"
    /\ \/ /\ code[c] = "VALIDATION_ROW_FAILED"
          /\ heldRows' = heldRows \cup {job[c]} /\ UNCHANGED heldChunks
       \/ /\ code[c] # "VALIDATION_ROW_FAILED"
          /\ heldChunks' = heldChunks \cup {<<job[c], code[c]>>} /\ UNCHANGED heldRows
    /\ \/ Emit(job[c], "QUARANTINED") /\ Goto(c, "ack")
       \/ Goto(c, "nack") /\ UNCHANGED trail    \* landed, but the write raised
    /\ UNCHANGED <<msg, events, written, job, known, code>>

\* Mutants: a hold that failed is logged and acknowledged; or audited anyway.
AckAnyway(c) == Goto(c, "ack") /\ UNCHANGED trail
AuditAnyway(c) == Goto(c, "nack") /\ Emit(job[c], "QUARANTINED")

\* Fail-loud: a chunk that is not held keeps its message.
FallBack(c) == Goto(c, "nack") /\ UNCHANGED trail

\* The hold raises without effect.
HoldFails(c) ==
    /\ pc[c] = "hold"
    /\ FallBack(c)
    /\ UNCHANGED <<msg, events, written, heldChunks, heldRows, job, known, code>>

\* The end of a message: the next one starts with a fresh _FlowContext.
Done(c) ==
    /\ Goto(c, "idle")
    /\ job' = [job EXCEPT ![c] = None]
    /\ known' = [known EXCEPT ![c] = FALSE]
    /\ code' = [code EXCEPT ![c] = None]
    /\ UNCHANGED <<stores>>

\* An acknowledgement after the lease has run out may or may not count.
Acknowledge(c) ==
    /\ pc[c] = "ack"
    /\ \/ msg' = [msg EXCEPT ![job[c]] = "acked"]
       \/ msg[job[c]] # "leased" /\ UNCHANGED msg
    /\ Done(c)

ModifyAckDeadline(c) ==
    /\ pc[c] = "nack"
    /\ msg' = [msg EXCEPT ![job[c]] = IF @ = "leased" THEN "ready" ELSE @]
    /\ Done(c)

\* The process dies or a transport call raises: nothing is acknowledged.
Crash(c) == pc[c] # "idle" /\ Done(c) /\ UNCHANGED msg

\* Pub/Sub: the lease runs out, or an acknowledged message comes again.
LeaseExpires(ch) ==
    /\ msg[ch] = "leased"
    /\ msg' = [msg EXCEPT ![ch] = "ready"]
    /\ UNCHANGED <<stores, cVars>>

Redeliver(ch) ==
    /\ msg[ch] = "acked"
    /\ msg' = [msg EXCEPT ![ch] = "ready"]
    /\ UNCHANGED <<stores, cVars>>

----------------------------------------------------------------------------
Work(c) ==
    \/ Fetch(c)
    \/ Parse(c)
    \/ Lookup(c)
    \/ Gates(c)
    \/ Write(c)
    \/ Classify(c)
    \/ Hold(c)
    \/ Acknowledge(c)
    \/ ModifyAckDeadline(c)

Disturb(c) == StageFails(c) \/ HoldFails(c) \/ Crash(c)

Next ==
    /\ \/ \E c \in Consumers : \/ \E ch \in Chunks : Receive(c, ch)
                               \/ Work(c)
                               \/ Disturb(c)
       \/ \E ch \in Chunks : LeaseExpires(ch) \/ Redeliver(ch)
    /\ UNCHANGED fault

Spec == Init /\ [][Next]_vars

(***************************************************************************)
(* Fairness.  Consumers work and pull for ever, Pub/Sub delivers every     *)
(* message that is deliverable again and again (SF: a consumer takes       *)
(* others in between), expired leases come back, and at some unknown point *)
(* the infrastructure recovers for good.  That a chunk which comes back    *)
(* for ever leaves room for the others is therefore assumed of Pub/Sub,    *)
(* not shown of the consumer, which asks for the next message only.        *)
(***************************************************************************)
Busy(ch) == \E c \in Consumers : job[c] = ch

Disturbed ==
    \/ \E c \in Consumers : \/ Disturb(c)
                            \/ Hold(c) /\ pc'[c] = "nack"
                            \/ Acknowledge(c) /\ msg'[job[c]] # "acked"
    \/ \E ch \in Chunks : Redeliver(ch) \/ (Busy(ch) /\ LeaseExpires(ch))

FairSpec ==
    /\ Spec
    /\ \A c \in Consumers : WF_steps(Work(c))
    /\ \A ch \in Chunks : /\ SF_steps(\E c \in Consumers : Receive(c, ch))
                          /\ WF_steps(LeaseExpires(ch))
    /\ <>[][~Disturbed]_vars

----------------------------------------------------------------------------
(***************************************************************************)
(* What must hold.                                                         *)
(***************************************************************************)

\* Never ack-and-lose: the message of a chunk leaves the queue only if its
\* envelope was rejected, or the chunk is written or held.
AckedIsKept ==
    \A ch \in Chunks : msg[ch] = "acked" =>
        fault[ch] = "malformed" \/ ch \in written \/ Held(ch)

\* D82: "good rows of a held chunk are NOT written", and what waits for a
\* dependency is not held: no delivery of a held chunk has ever reached the
\* canonical tables.
HeldIsUnwritten == \A ch \in Chunks : Held(ch) => ch \notin events

\* "An unheld chunk leaves no disposition trail": QUARANTINED and
\* CANONICAL_WRITTEN audit rows are never ahead of the fact.
TrailIsTrue ==
    \A a \in trail :
        /\ a[2] = "QUARANTINED" => Held(a[1])
        /\ a[2] = "CANONICAL_WRITTEN" => a[1] \in written

\* The fate of a chunk, as the tables tell it.
Fate(ch) ==
    CASE ch \in written -> "written"
      [] ch \notin written /\ Held(ch) -> "held"
      [] ch \notin written /\ ~Held(ch) /\ fault[ch] = "malformed" -> "refused"
      [] OTHER -> "pending"

Contract == INSTANCE Delivery WITH
    Items <- Chunks,
    Outcomes <- {"written", "held", "refused"},
    fate <- [ch \in Chunks |-> Fate(ch)],
    acked <- {ch \in Chunks : msg[ch] = "acked"}

\* The consumer implements the contract of Delivery: however many consumers get
\* a chunk how often, it is written or held or refused once and for all, and
\* acknowledged only after that (orchestrate.py, process).
ImplementsDelivery == Contract!Spec

\* The faults the consumer has no way to set aside: the failure is the same on
\* every delivery, and no stage may hold it.
Stuck(ch) ==
    \/ fault[ch] \in {"path", "bronze", "drift", "unwritable", "unmergeable"}
    \/ fault[ch] = "none" /\ \E n \in Needs[ch] : fault[n] # "none"

\* D82, no redeliver storm: whatever fails in which order, every other chunk is
\* acknowledged, one that misses its positions as soon as they are written.
Settles == \A ch \in Chunks : ~Stuck(ch) => (msg[ch] = "ready" ~> msg[ch] = "acked")
=============================================================================
