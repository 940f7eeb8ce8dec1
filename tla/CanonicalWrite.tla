--------------------------- MODULE CanonicalWrite ---------------------------
(***************************************************************************)
(* The atomic dual write of the streaming-consumer (sinks/canonical.py):   *)
(* several autoscaled consumers write chunks into the event table and the  *)
(* hot table store_sku_current_position of one tenant's store.             *)
(*                                                                         *)
(* A chunk is one ingress.ready message.  It is cut into batches; a batch  *)
(* is one READ COMMITTED transaction: duplicate detection, event insert,   *)
(* one hot merge per natural key in sorted order, commit.  PostgreSQL is   *)
(* modelled from the statements the sink issues: a transaction's writes    *)
(* are private until it commits, a written row stays locked until then, a  *)
(* conditional UPDATE first evaluates its WHERE on the committed rows and  *)
(* evaluates it again once a lock it had to wait for is granted, and ON    *)
(* CONFLICT locks the row whatever its WHERE says.                         *)
(*                                                                         *)
(* The event table is append-only: it is the set of the chunk rows it      *)
(* holds, and the copies a redelivery appends are not told apart.          *)
(***************************************************************************)
EXTENDS Naturals, Sequences, FiniteSetsExt

CONSTANTS
    Consumers,   \* consumer instances (max_instance_count)
    Chunks,      \* chunks, i.e. ingress.ready messages and their trace ids
    Rows,        \* [Chunks -> Seq(row)], the validated rows of each chunk
    EventChunks, \* chunks of a sales or inventory-change mapping
    Complete,    \* chunks whose mapping is hot_complete
    Skus,        \* natural keys, as numbers in hot_sort_key order
    Columns,     \* hot columns the mappings project
    BatchSize,   \* BATCH_SIZE_ROW_PAIRS
    None         \* no chunk, no consumer, a column nothing is asserted of

\* A catalogue chunk is the one kind write_catalogue_chunk takes; it rides the
\* complete path unconditionally.
ASSUME ConstantsAssumption ==
    /\ Skus \subseteq Nat
    /\ BatchSize \in Nat \ {0}
    /\ EventChunks \subseteq Chunks
    /\ Complete \subseteq Chunks
    /\ Chunks \ EventChunks \subseteq Complete
    /\ None \notin Chunks \cup Consumers \cup Nat
    /\ \A ch \in Chunks :
         /\ Rows[ch] \in Seq([sku : Skus, ts : Nat, key : Nat,
                              cols : [Columns -> Nat \cup {None}]])
         /\ Rows[ch] # << >>

VARIABLES
    msg,       \* delivery state of each ingress.ready
    hot,       \* store_sku_current_position
    events,    \* rows of the event tables, as <<chunk, row index>>
    lock,      \* row locks of the hot table
    pc,        \* what each consumer does next
    job,       \* the chunk it writes
    batch,     \* the number of its batch
    todo,      \* natural keys of the batch not merged yet
    dirty,     \* its uncommitted hot rows
    outcome,   \* outcome of each hot merge of the batch
    hits,      \* DuplicateHits collected for the chunk
    dups,      \* duplicate audit rows emitted
    parked,    \* <<chunk, key>> audited HOT_POSITION_MISSING
    merged     \* <<chunk, key>> whose hot merge was written and committed

localVars == <<pc, job, batch, todo, dirty, outcome, hits>>
auditVars == <<dups, parked, merged>>
vars == <<msg, hot, events, lock, pc, job, batch, todo, dirty, outcome, hits,
          dups, parked, merged>>

NoRow == [by |-> <<None, 0>>, ts |-> 0, cols |-> [x \in Columns |-> None]]
IsRow(r) == r # NoRow

HotRow == [by : (Chunks \cup {None}) \X Nat, ts : Nat,
           cols : [Columns -> Nat \cup {None}]]
Hit == [chunk : Chunks, row : Nat, prior : Chunks,
        kind : {"DUPLICATE_NOOP", "DUPLICATE_OVERWRITTEN"}]
Outcomes == {"none", "written", "noop_older", "missing"}

\* The type of every variable.
TypeOK ==
    /\ msg \in [Chunks -> {"ready", "leased", "acked"}]
    /\ hot \in [Skus -> HotRow]
    /\ events \subseteq (EventChunks \X Nat)
    /\ lock \in [Skus -> Consumers \cup {None}]
    /\ pc \in [Consumers -> {"idle", "begin", "merge", "blocked", "exists", "done"}]
    /\ job \in [Consumers -> Chunks \cup {None}]
    /\ batch \in [Consumers -> Nat]
    /\ todo \in [Consumers -> SUBSET Skus]
    /\ dirty \in [Consumers -> [Skus -> HotRow]]
    /\ outcome \in [Consumers -> [Skus -> Outcomes]]
    /\ hits \in [Consumers -> SUBSET Hit]
    /\ dups \subseteq Hit
    /\ parked \subseteq Chunks \X Skus
    /\ merged \subseteq Chunks \X Skus

Clean == [s \in Skus |-> NoRow]
NoOutcome == [s \in Skus |-> "none"]

Init ==
    /\ msg = [ch \in Chunks |-> "ready"]
    /\ hot = Clean
    /\ events = {}
    /\ lock = [s \in Skus |-> None]
    /\ pc = [c \in Consumers |-> "idle"]
    /\ job = [c \in Consumers |-> None]
    /\ batch = [c \in Consumers |-> 0]
    /\ todo = [c \in Consumers |-> {}]
    /\ dirty = [c \in Consumers |-> Clean]
    /\ outcome = [c \in Consumers |-> NoOutcome]
    /\ hits = [c \in Consumers |-> {}]
    /\ dups = {}
    /\ parked = {}
    /\ merged = {}

----------------------------------------------------------------------------
(***************************************************************************)
(* Batches and groups: the pure part of the sink.                          *)
(***************************************************************************)
\* Mutant: the incomplete last batch is forgotten.
LastBatchFloor(ch) == Len(Rows[ch]) \div BatchSize

\* The number of batches.
LastBatch(ch) == (Len(Rows[ch]) + BatchSize - 1) \div BatchSize

\* _batches: the row indices of batch n.
BatchRows(ch, n) == {i \in DOMAIN Rows[ch] : (i - 1) \div BatchSize = n - 1}

BatchSkus(ch, n) == {Rows[ch][i].sku : i \in BatchRows(ch, n)}

\* f's columns, and g's where f asserts nothing.
Over(f, g) == [x \in Columns |-> IF f[x] # None THEN f[x] ELSE g[x]]

\* Mutant: a tie keeps the earlier row.
NewestOnly(ch, i, g) ==
    LET r == Rows[ch][i]
    IN  IF r.ts <= g.ts /\ g.by # <<None, 0>>
        THEN g
        ELSE [by |-> <<ch, i>>, ts |-> r.ts, cols |-> Over(r.cols, g.cols)]

\* One turn of _group_hot's loop: row i of chunk ch joins the group g.  A row
\* at or after the group's time overwrites its columns and provenance, an
\* older one only supplies the columns nobody has asserted yet.
JoinGroup(ch, i, g) ==
    LET r == Rows[ch][i]
    IN  IF r.ts >= g.ts
        THEN [by |-> <<ch, i>>, ts |-> r.ts, cols |-> Over(r.cols, g.cols)]
        ELSE [g EXCEPT !.cols = Over(g.cols, r.cols)]

\* _group_hot: the group of natural key s in batch n, rows taken in file order.
Group(ch, n, s) ==
    LET joins == {i \in BatchRows(ch, n) : Rows[ch][i].sku = s}
        upTo[k \in Nat] == IF k = 0 THEN NoRow
                           ELSE IF k \in joins THEN JoinGroup(ch, k, upTo[k - 1])
                           ELSE upTo[k - 1]
    IN  upTo[Len(Rows[ch])]

----------------------------------------------------------------------------
(***************************************************************************)
(* ingress.ready: at-least-once delivery, a lease that may run out while   *)
(* its consumer still works, redelivery of acknowledged messages.          *)
(***************************************************************************)
Redeliver(ch) ==
    /\ msg[ch] # "ready"
    /\ msg' = [msg EXCEPT ![ch] = "ready"]
    /\ UNCHANGED <<hot, events, lock, localVars, auditVars>>

Receive(c, ch) ==
    /\ pc[c] = "idle"
    /\ msg[ch] = "ready"
    /\ msg' = [msg EXCEPT ![ch] = "leased"]
    /\ pc' = [pc EXCEPT ![c] = "begin"]
    /\ job' = [job EXCEPT ![c] = ch]
    /\ batch' = [batch EXCEPT ![c] = 1]
    /\ UNCHANGED <<hot, events, lock, todo, dirty, outcome, hits, auditVars>>

----------------------------------------------------------------------------
(***************************************************************************)
(* One batch transaction.                                                  *)
(***************************************************************************)

\* The latest event rows of dedup key k; ties in event time are not broken.
LatestPrior(k) ==
    LET same == {e \in events : Rows[e[1]][e[2]].key = k}
    IN  {e \in same : \A f \in same : Rows[f[1]][f[2]].ts <= Rows[e[1]][e[2]].ts}

\* Mutant: prior_trace_id is filled with the row instead of its trace.
HitsWithRow(ch, n, prior) ==
    {[chunk |-> ch, row |-> i, prior |-> prior[Rows[ch][i].key],
      kind |-> "DUPLICATE_NOOP"] :
        i \in {j \in BatchRows(ch, n) : Rows[ch][j].key \in DOMAIN prior}}

\* _detect_duplicates, given the row prior[k] found for each key: a hit takes
\* its prior_trace_id from the last row the query returned (ORDER BY key).
HitsOf(ch, n, prior) ==
    {[chunk |-> ch, row |-> i, prior |-> prior[Max(DOMAIN prior)][1],
      kind |-> LET p == prior[Rows[ch][i].key]
               IN  IF Rows[p[1]][p[2]] = Rows[ch][i]
                   THEN "DUPLICATE_NOOP" ELSE "DUPLICATE_OVERWRITTEN"] :
        i \in {j \in BatchRows(ch, n) : Rows[ch][j].key \in DOMAIN prior}}

\* Duplicate detection and event insert (private until the commit).
Begin(c) ==
    LET ch == job[c]
        keys == {Rows[ch][i].key : i \in BatchRows(ch, batch[c])}
        found == {k \in keys : LatestPrior(k) # {}}
    IN  /\ pc[c] = "begin"
        /\ \/ /\ ch \in EventChunks
              /\ \E prior \in [found -> events] :
                    /\ \A k \in found : prior[k] \in LatestPrior(k)
                    /\ hits' = [hits EXCEPT ![c] = @ \cup HitsOf(ch, batch[c], prior)]
           \/ ch \notin EventChunks /\ UNCHANGED hits
        /\ todo' = [todo EXCEPT ![c] = BatchSkus(ch, batch[c])]
        /\ pc' = [pc EXCEPT ![c] = "merge"]
        /\ UNCHANGED <<msg, hot, events, lock, job, batch, dirty, outcome, auditVars>>

\* Mutant: the groups in arrival order of their first row.
FirstSeenSku(c) ==
    LET first(s) == Min({i \in BatchRows(job[c], batch[c]) : Rows[job[c]][i].sku = s})
    IN  CHOOSE s \in todo[c] : \A u \in todo[c] : first(s) <= first(u)

\* The next group: sorted by hot_sort_key.
NextSku(c) == Min(todo[c])

\* What transaction c sees of key s.
View(c, s) == IF IsRow(dirty[c][s]) THEN dirty[c][s] ELSE hot[s]

\* Mutant: last writer wins.
Always(g, r) == TRUE

\* D64: :incoming >= last_source_event_at.
EventTimeWins(g, r) == g.ts >= r.ts

\* The group as it lands on row r: column-scoped, so r's other columns stay.
Merged(g, r) == [g EXCEPT !.cols = Over(g.cols, r.cols)]

Finish(c, s, result) ==
    /\ outcome' = [outcome EXCEPT ![c][s] = result]
    /\ todo' = [todo EXCEPT ![c] = @ \ {s}]
    /\ pc' = [pc EXCEPT ![c] = "merge"]

\* The statement with the row's lock in hand.
Apply(c, s, g) ==
    /\ lock' = [lock EXCEPT ![s] = c]
    /\ \/ /\ \/ IsRow(View(c, s)) /\ EventTimeWins(g, View(c, s))
             \/ ~IsRow(View(c, s)) /\ job[c] \in Complete
          /\ dirty' = [dirty EXCEPT ![c][s] = Merged(g, View(c, s))]
          /\ Finish(c, s, "written")
       \/ /\ IsRow(View(c, s)) /\ ~EventTimeWins(g, View(c, s))
          /\ UNCHANGED dirty
          /\ \/ job[c] \in Complete /\ Finish(c, s, "written")
             \/ /\ job[c] \notin Complete
                /\ pc' = [pc EXCEPT ![c] = "exists"]
                /\ UNCHANGED <<todo, outcome>>

\* Whether the statement goes for the row lock at all: ON CONFLICT always does,
\* the UPDATE only for a row its snapshot selects.
Locks(c, s, g) ==
    \/ job[c] \in Complete
    \/ IsRow(View(c, s)) /\ EventTimeWins(g, View(c, s))

\* _upsert_hot: the UPDATE or the INSERT .. ON CONFLICT of the next group.
UpsertHot(c) ==
    /\ pc[c] = "merge" /\ todo[c] # {}
    /\ LET s == NextSku(c)
           g == Group(job[c], batch[c], s)
       IN  \/ Locks(c, s, g) /\ lock[s] \in {None, c} /\ Apply(c, s, g)
           \/ /\ Locks(c, s, g) /\ lock[s] \notin {None, c}
              /\ pc' = [pc EXCEPT ![c] = "blocked"]
              /\ UNCHANGED <<lock, todo, dirty, outcome>>
           \/ /\ ~Locks(c, s, g)
              /\ pc' = [pc EXCEPT ![c] = "exists"]
              /\ UNCHANGED <<lock, todo, dirty, outcome>>
    /\ UNCHANGED <<msg, hot, events, job, batch, hits, auditVars>>

\* The lock a statement waits for is granted: EvalPlanQual.
LockGranted(c) ==
    /\ pc[c] = "blocked"
    /\ LET s == NextSku(c)
       IN  lock[s] = None /\ Apply(c, s, Group(job[c], batch[c], s))
    /\ UNCHANGED <<msg, hot, events, job, batch, hits, auditVars>>

\* rowcount 0: the separate existence check of _update_hot_incomplete_path.
ExistenceCheck(c) ==
    /\ pc[c] = "exists"
    /\ LET s == NextSku(c)
       IN  \/ IsRow(View(c, s)) /\ Finish(c, s, "noop_older")
           \/ ~IsRow(View(c, s)) /\ Finish(c, s, "missing")
    /\ UNCHANGED <<msg, hot, events, lock, job, batch, dirty, hits, auditVars>>

With(c, result) == {s \in Skus : outcome[c][s] = result}

\* if misses: raise HotPositionMissingError.
HasMisses(c) == With(c, "missing") # {}

\* Mutant: only the row that wins its group is appended.
InsertWinners(c) == {Group(job[c], batch[c], s).by : s \in BatchSkus(job[c], batch[c])}

\* The event rows of the batch.
Inserted(c) == {<<job[c], i>> : i \in BatchRows(job[c], batch[c])}

Release(c) == lock' = [s \in Skus |-> IF lock[s] = c THEN None ELSE lock[s]]

Rest(c) ==
    /\ pc' = [pc EXCEPT ![c] = "idle"]
    /\ job' = [job EXCEPT ![c] = None]
    /\ batch' = [batch EXCEPT ![c] = 0]
    /\ hits' = [hits EXCEPT ![c] = {}]

\* nack, or the lease that runs out: the message is delivered again.
Nack(ch) == msg' = [msg EXCEPT ![ch] = IF @ = "leased" THEN "ready" ELSE @]

\* The transaction commits, then write_chunk raises for the misses, goes on to
\* the next batch or returns, and the duplicates are audited.  A commit whose
\* answer is lost raises as well.
Commit(c) ==
    /\ pc[c] = "merge" /\ todo[c] = {}
    /\ hot' = [s \in Skus |-> View(c, s)]
    /\ events' = IF job[c] \in EventChunks THEN events \cup Inserted(c) ELSE events
    /\ merged' = merged \cup ({job[c]} \X With(c, "written"))
    /\ Release(c)
    /\ dirty' = [dirty EXCEPT ![c] = Clean]
    /\ outcome' = [outcome EXCEPT ![c] = NoOutcome]
    /\ \/ /\ HasMisses(c)
          /\ parked' = parked \cup ({job[c]} \X With(c, "missing"))
          /\ Nack(job[c]) /\ Rest(c) /\ UNCHANGED dups
       \/ Nack(job[c]) /\ Rest(c) /\ UNCHANGED <<parked, dups>>
       \/ /\ ~HasMisses(c) /\ batch[c] < LastBatch(job[c])
          /\ pc' = [pc EXCEPT ![c] = "begin"]
          /\ batch' = [batch EXCEPT ![c] = @ + 1]
          /\ UNCHANGED <<msg, job, hits, parked, dups>>
       \/ /\ ~HasMisses(c) /\ batch[c] >= LastBatch(job[c])
          /\ pc' = [pc EXCEPT ![c] = "done"]
          /\ dups' = dups \cup hits[c]
          /\ UNCHANGED <<msg, job, batch, hits, parked>>
    /\ UNCHANGED todo

\* "written": the message is acknowledged.  An acknowledgement that comes after
\* the lease may or may not count.
Acknowledge(c) ==
    /\ pc[c] = "done"
    /\ \/ msg' = [msg EXCEPT ![job[c]] = "acked"]
       \/ msg[job[c]] # "leased" /\ UNCHANGED msg
    /\ Rest(c)
    /\ UNCHANGED <<hot, events, lock, todo, dirty, outcome, auditVars>>

\* A statement fails or the process dies: rollback of the batch, nack.
Fail(c) ==
    /\ pc[c] # "idle"
    /\ Release(c)
    /\ dirty' = [dirty EXCEPT ![c] = Clean]
    /\ outcome' = [outcome EXCEPT ![c] = NoOutcome]
    /\ todo' = [todo EXCEPT ![c] = {}]
    /\ Nack(job[c]) /\ Rest(c)
    /\ UNCHANGED <<hot, events, auditVars>>

----------------------------------------------------------------------------
Write(c) ==
    \/ Begin(c)
    \/ UpsertHot(c)
    \/ LockGranted(c)
    \/ ExistenceCheck(c)
    \/ Commit(c)
    \/ Acknowledge(c)

Next ==
    \/ \E ch \in Chunks : Redeliver(ch)
    \/ \E c \in Consumers : \/ \E ch \in Chunks : Receive(c, ch)
                            \/ Write(c)
                            \/ Fail(c)

Spec == Init /\ [][Next]_vars

----------------------------------------------------------------------------
(***************************************************************************)
(* What must hold.                                                         *)
(***************************************************************************)

\* D64 under concurrency: a position row never disappears and its event time
\* never goes back, in whatever order chunks arrive and writers interleave.
HotTimeMonotone ==
    [][\A s \in Skus : IsRow(hot[s]) => IsRow(hot'[s]) /\ hot'[s].ts >= hot[s].ts]_vars

\* D30, either-or-neither: a position that names an event row as its source has
\* that event, and the whole batch it came in, in the event table.
HotHasItsEvents ==
    \A s \in Skus : LET ch == hot[s].by[1]
                        n == (hot[s].by[2] - 1) \div BatchSize + 1
                    IN  ch \in EventChunks =>
                            \A i \in BatchRows(ch, n) : <<ch, i>> \in events

\* _group_hot against its reference: the row a position comes from is the last
\* of its batch, by event time and then file order, for its natural key.
HotIsLatestOfBatch ==
    \A s \in Skus : IsRow(hot[s]) =>
        LET ch == hot[s].by[1]
            k == hot[s].by[2]
            n == (k - 1) \div BatchSize + 1
        IN  \A i \in BatchRows(ch, n) :
                Rows[ch][i].sku = s =>
                    \/ Rows[ch][i].ts < Rows[ch][k].ts
                    \/ Rows[ch][i].ts = Rows[ch][k].ts /\ i <= k

\* No ack-and-lose: an acknowledged chunk has every row in the event table and
\* every natural key in the hot table (a first-seen SKU keeps it unacknowledged).
AckedIsWritten ==
    \A ch \in Chunks : msg[ch] = "acked" =>
        \A i \in DOMAIN Rows[ch] :
            /\ ch \in EventChunks => <<ch, i>> \in events
            /\ IsRow(hot[Rows[ch][i].sku])

\* The sorted merge order: no two batch transactions ever wait for each other.
NoLockCycle ==
    \A c, d \in Consumers :
        ~ /\ pc[c] = "blocked" /\ lock[NextSku(c)] = d
          /\ pc[d] = "blocked" /\ lock[NextSku(d)] = c

----------------------------------------------------------------------------
(***************************************************************************)
(* What the repository says and the code does not do.                      *)
(***************************************************************************)

\* canonical.py, _update_hot_incomplete_path: "present -> noop_older (an older
\* event lost to a newer row, D64)".  An acknowledged chunk then has no row
\* whose time is after that of its position.
AckedIsReflected ==
    \A ch \in Chunks : msg[ch] = "acked" =>
        \A i \in DOMAIN Rows[ch] : hot[Rows[ch][i].sku].ts >= Rows[ch][i].ts

\* D63 as revised: a chunk that missed its position is redelivered "until
\* catalogue/position onboards, then the merge succeeds".
ParkedMergeSucceeds ==
    \A p \in parked : msg[p[1]] = "acked" => p \in merged

\* D33: "prior_trace_id records the trace_id of the prior latest event": the
\* chunk it names holds an event of the duplicate's own key.
PriorTraceHasTheKey ==
    \A d \in dups : \E i \in DOMAIN Rows[d.prior] :
        Rows[d.prior][i].key = Rows[d.chunk][d.row].key

\* _group_hot: "Column-scoped merge within the batch: latest event time wins per
\* column": a position holds, for each column its batch asserts, the value of
\* the latest of the rows that assert it.
ColumnLatestWins ==
    \A s \in Skus, x \in Columns : IsRow(hot[s]) =>
        LET ch == hot[s].by[1]
            n == (hot[s].by[2] - 1) \div BatchSize + 1
            asserting == {i \in BatchRows(ch, n) : /\ Rows[ch][i].sku = s
                                                   /\ Rows[ch][i].cols[x] # None}
        IN  asserting # {} =>
                \E i \in asserting :
                    /\ hot[s].cols[x] = Rows[ch][i].cols[x]
                    /\ \A j \in asserting : Rows[ch][j].ts <= Rows[ch][i].ts
=============================================================================
