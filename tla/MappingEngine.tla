---------------------------- MODULE MappingEngine ----------------------------
(***************************************************************************)
(* One chunk through the pure stages of the streaming consumer, under a    *)
(* template that MappingRules has let through: the source-shape gate, the  *)
(* four sub-stages of dis_mapping (rename, normalize, cast, derive), the   *)
(* enrichment from the store, the canonical-shape gate and the rows that   *)
(* are handed to the sink.                                                 *)
(*                                                                         *)
(* A cell is what the stages can tell of it: "local" is in the format its  *)
(* column declares, "iso" in canonical form, "padded" is local but for     *)
(* blanks around it, "token" stands for no value, "huge" has the right     *)
(* shape and too many digits or characters, "junk" none of these.  A cast  *)
(* makes a typed "value"; enrichment writes a "fact".  A decimal cast has  *)
(* the precision and scale of its model.                                   *)
(***************************************************************************)
EXTENDS MappingRules

CONSTANTS
    MaxRows,    \* rows of a chunk
    MaxOdd      \* cells of a chunk that are not as its source usually writes them

ASSUME BoundsAssumption == MaxRows \in Nat \ {0} /\ MaxOdd \in Nat

VARIABLES
    cells,      \* the chunk: row -> source column -> cell
    frame,      \* the frame of the engine: row -> canonical column -> cell
    failures,   \* CellNormalizationFailures and gate failures
    written     \* rows handed to the sink

vars == <<ruleVars, cells, frame, failures, written>>

Null == "null"
Cells == {"local", "iso", "padded", "token", "huge", "junk", Null}
NoIndex == 0

\* A CellNormalizationFailure or a GateFailure.
Failure(row, column, step, index) ==
    [row |-> row, column |-> column, stage |-> step, index |-> index]

Init == RulesInit /\ cells = <<>> /\ frame = <<>> /\ failures = {} /\ written = <<>>

----------------------------------------------------------------------------
(***************************************************************************)
(* The ops of normalize (engine/normalize.py).  Every op passes null.      *)
(***************************************************************************)
OpValue(spec, v) ==
    CASE v = Null -> Null
      [] spec.op \in ParseOps ->
            IF v = "local" THEN "iso"
            ELSE IF v = "huge" /\ spec.op \in {"parse_decimal", "parse_integer"} THEN v
            ELSE Null
      [] spec.op = "null_tokens" -> IF v = "token" THEN Null ELSE v
      [] spec.op = "normalize_whitespace" -> IF v = "padded" THEN "local" ELSE v
      [] OTHER -> v

\* Mutant: the mask is where the result is null, whatever came in.
FailsOnNull(spec, v) == spec.op \in ParseOps /\ OpValue(spec, v) = Null

\* The failure mask of an op.  parse_percent accepts the shape of a number it
\* then cannot hold, and leaves a null that is no failure.
OpFails(spec, v) ==
    /\ spec.op \in ParseOps
    /\ v \notin {Null, "local"}
    /\ v = "huge" => spec.op \notin {"parse_decimal", "parse_integer", "parse_percent"}

\* apply_transform_list: the value after k ops, and the failures of one column.
After(ops, v) ==
    LET f[k \in 0 .. Len(ops)] == IF k = 0 THEN v ELSE OpValue(ops[k], f[k - 1])
    IN  f

ListFailures(rows, col, ops, step, offset) ==
    UNION {{Failure(r, col, step, offset + (k - 1)) :
                k \in {i \in DOMAIN ops : OpFails(ops[i], After(ops, rows[r][col])[i - 1])}} :
            r \in DOMAIN rows}

\* parse_datetime with a zone polars does not know raises at its first use.
UnknownZone(ops) == \E i \in DOMAIN ops : ops[i].args = "unknown_zone"

\* _cast_string_series.
CastValue(type, v) ==
    IF type = "string" \/ v = Null THEN v ELSE IF v = "iso" THEN "value" ELSE Null
CastFails(type, v) == v # Null /\ CastValue(type, v) = Null

\* _generate.
Generated(g, row) ==
    CASE g.gen = "constant" -> IF g.literal = "string" THEN "iso" ELSE "value"
      [] g.gen = "copy" -> row[g.src]
      [] OTHER -> IF row[g.src] = Null THEN Null ELSE "value"

----------------------------------------------------------------------------
(***************************************************************************)
(* The stages, in the order of _process.                                   *)
(***************************************************************************)
\* What a source writes into a column when nothing is odd.
Usual(col) ==
    IF col \in DOMAIN rules.normalize
         /\ \E i \in DOMAIN rules.normalize[col] : rules.normalize[col][i].op \in ParseOps
    THEN "local" ELSE "iso"

\* A chunk: the declared columns, maybe without one of them, every cell usual
\* but for MaxOdd of them.
Arrive ==
    /\ stage = "loaded"
    /\ \E n \in 1 .. MaxRows, missing \in {{}} \cup {{s} : s \in DOMAIN rules.rename} :
          LET sources == DOMAIN rules.rename \ missing
              usual == [r \in 1 .. n |-> [s \in sources |-> Usual(rules.rename[s])]]
          IN  \E odd \in {o \in SUBSET ((1 .. n) \X sources) : Cardinality(o) <= MaxOdd} :
                \E v \in [odd -> Cells] :
                    cells' = [r \in 1 .. n |-> [s \in sources |->
                        IF <<r, s>> \in odd THEN v[<<r, s>>] ELSE usual[r][s]]]
    /\ stage' = "arrived"
    /\ UNCHANGED <<request, rules, loaded, frame, failures, written>>

\* A gate's failures: at row grain if every one has a row, else the chunk.
HoldStage(gate) ==
    IF \A f \in gate : f.row # NoIndex THEN "held_rows" ELSE "held_chunk"

\* run_source_shape over the suite from_rename: every rename source is there.
PreValidate ==
    LET missing == DOMAIN rules.rename \ DOMAIN cells[1]
        gate == {Failure(NoIndex, s, "pre", 0) : s \in missing}
    IN  /\ stage = "arrived"
        /\ failures' = gate
        /\ stage' = IF gate = {} THEN "shaped" ELSE HoldStage(gate)
        /\ UNCHANGED <<request, rules, loaded, cells, frame, written>>

\* run_rename.
Rename ==
    /\ stage = "shaped"
    /\ frame' = [r \in DOMAIN cells |-> [c \in RenameTargets(rules) |->
                    cells[r][CHOOSE s \in DOMAIN rules.rename : rules.rename[s] = c]]]
    /\ stage' = "renamed"
    /\ UNCHANGED <<request, rules, loaded, cells, failures, written>>

\* run_normalize.
Normalize ==
    LET N == rules.normalize
    IN  /\ stage = "renamed"
        /\ IF \E c \in DOMAIN N : UnknownZone(N[c])
           THEN stage' = "config_error" /\ UNCHANGED <<frame, failures>>
           ELSE /\ frame' = [r \in DOMAIN frame |-> [c \in DOMAIN frame[r] |->
                        IF c \in DOMAIN N THEN After(N[c], frame[r][c])[Len(N[c])]
                        ELSE frame[r][c]]]
                /\ failures' = UNION {ListFailures(frame, c, N[c], "normalize", 0) :
                                        c \in DOMAIN N}
                /\ stage' = "normalized"
        /\ UNCHANGED <<request, rules, loaded, cells, written>>

\* run_cast.
Cast ==
    /\ stage = "normalized"
    /\ frame' = [r \in DOMAIN frame |-> [c \in DOMAIN frame[r] |->
                    CastValue(CastTypeOf(rules, c), frame[r][c])]]
    /\ failures' = failures \cup
          UNION {{Failure(r, c, "cast", 0) :
                    c \in {col \in DOMAIN rules.cast :
                                CastFails(rules.cast[col], frame[r][col])}} :
                  r \in DOMAIN frame}
    /\ stage' = "cast"
    /\ UNCHANGED <<request, rules, loaded, cells, written>>

\* run_derive: the generator, then the rest of the list.
Derive ==
    LET D == rules.derive
        generated == [r \in DOMAIN frame |-> [c \in DOMAIN D |-> Generated(D[c], frame[r])]]
    IN  /\ stage = "cast"
        /\ IF \E c \in DOMAIN D : UnknownZone(D[c].ops)
           THEN stage' = "config_error" /\ UNCHANGED <<frame, failures>>
           ELSE /\ frame' = [r \in DOMAIN frame |->
                        [c \in DOMAIN frame[r] \cup DOMAIN D |->
                            IF c \in DOMAIN D
                            THEN After(D[c].ops, generated[r][c])[Len(D[c].ops)]
                            ELSE frame[r][c]]]
                /\ failures' = failures \cup
                      UNION {ListFailures(generated, c, D[c].ops, "derive", 1) :
                                c \in DOMAIN D}
                /\ stage' = "derived"
        /\ UNCHANGED <<request, rules, loaded, cells, written>>

\* Mutant: a row is dropped for what normalize reports only.
NormalizeFailures == {f \in failures : f.stage = "normalize"}

\* What apply_mapping returns as failures.
MapFailures == failures

\* Any failed cell holds the chunk; otherwise the contribution goes on, with
\* the enrichment of the store where current-position is the target.
FinishMapping ==
    /\ stage = "derived"
    /\ IF MapFailures # {}
       THEN stage' = HoldStage(MapFailures) /\ UNCHANGED frame
       ELSE /\ stage' = "mapped"
            /\ frame' = [r \in DOMAIN frame |->
                    [c \in DOMAIN frame[r] \cup EnrichmentFields(loaded.target) |->
                        IF c \in EnrichmentFields(loaded.target) THEN "fact" ELSE frame[r][c]]]
    /\ UNCHANGED <<request, rules, loaded, cells, failures, written>>

\* The type a column of the contribution has, and the one its model wants.
\* pl.repeat makes a whole number an Int32 if it fits, and the models want Int64.
TypeOf(col) ==
    CASE col \notin DOMAIN rules.derive -> CastTypeOf(rules, col)
      [] col \in DOMAIN rules.derive
            /\ rules.derive[col].gen = "constant" /\ rules.derive[col].literal = "integer"
            -> "int32"
      [] OTHER -> GeneratedType(rules, rules.derive[col])
DtypeFails(col) ==
    LET datatype == Datatype(loaded.target, col)
    IN  /\ col \notin EnrichmentFields(loaded.target)
        /\ datatype \in DOMAIN CastTypeByDatatype
        /\ TypeOf(col) # CastTypeByDatatype[datatype]

\* Nullability, vocabulary and length of a cell.
CellFails(col, v) ==
    \/ v = Null /\ col \in Required[loaded.target]
    \/ v \notin {Null, "iso", "fact"} /\ Datatype(loaded.target, col) = "choice"
    \/ v = "huge" /\ Datatype(loaded.target, col) = "text"

\* run_canonical_shape over the owned columns.
PostValidate ==
    LET columns == DOMAIN frame[1]
        typed == {c \in columns : ~DtypeFails(c)}
        gate == {Failure(NoIndex, c, "post", 0) : c \in columns \ typed}
                \cup UNION {{Failure(r, c, "post", 0) :
                                c \in {col \in typed : CellFails(col, frame[r][col])}} :
                              r \in DOMAIN frame}
    IN  /\ stage = "mapped"
        /\ failures' = gate
        /\ stage' = IF gate = {} THEN "validated" ELSE HoldStage(gate)
        /\ UNCHANGED <<request, rules, loaded, cells, frame, written>>

\* derive_source_event_id: the source's own key if it gave both parts.
SourceEventId(row, r) ==
    IF /\ loaded.target = "sale"
       /\ \A c \in {"transaction_id", "line_item_seq"} : c \in DOMAIN row /\ row[c] # Null
    THEN <<row["transaction_id"], row["line_item_seq"]>>
    ELSE <<"bronze", r>>

\* build_event_rows, _catalogue_groups and the write.
Write ==
    /\ stage = "validated"
    /\ written' = [r \in DOMAIN frame |->
                    [payload |-> frame[r], key |-> SourceEventId(frame[r], r)]]
    /\ stage' = "written"
    /\ UNCHANGED <<request, rules, loaded, cells, frame, failures>>

RulesNext ==
    /\ CreateTemplate \/ EditTemplate \/ LoadMapping
    /\ UNCHANGED <<cells, frame, failures, written>>

Next ==
    \/ RulesNext
    \/ Arrive \/ PreValidate \/ Rename \/ Normalize \/ Cast \/ Derive
    \/ FinishMapping \/ PostValidate \/ Write

Spec == Init /\ [][Next]_vars

----------------------------------------------------------------------------
\* The column whose cell a failure is about: a derived cell is that of its source.
Origin(f) ==
    IF f.stage = "derive" /\ rules.derive[f.column].gen # "constant"
    THEN rules.derive[f.column].src ELSE f.column

\* A cell is reported once, at the first step that refuses it, and only if the
\* source sent something: a cell that normalize or cast nulled is not reported
\* again by a later step of its column, nor by a derive that copies it, and a
\* derived cell is not reported for a source that is empty (engine/cast.py,
\* engine/derive.py).
ReportedOnce ==
    \A f \in failures : f.stage \in {"normalize", "cast", "derive"} =>
        /\ \A g \in failures :
              g.row = f.row /\ g.column \in {f.column, Origin(f)} => g = f
        /\ \A s \in DOMAIN rules.rename :
              rules.rename[s] = Origin(f) => cells[f.row][s] # Null

\* The cell of a source that says there is nothing there.
SaysNothing(v, ops) ==
    \/ v = Null
    \/ v = "token" /\ \E i \in DOMAIN ops : ops[i].op = "null_tokens"

\* A percentage with more digits than _parse_percent can divide.
Undivided(v, ops) == v = "huge" /\ \E i \in DOMAIN ops : ops[i].op = "parse_percent"

OpsOf(col) == IF col \in DOMAIN rules.normalize THEN rules.normalize[col] ELSE <<>>

\* "A row with ANY failed cell is dropped whole (no nulled-cell pass-through)"
\* (engine/apply.py): what the source filled is not written as null.
FilledIsKept ==
    stage = "written" =>
        \A r \in DOMAIN written, s \in DOMAIN rules.rename :
            written[r].payload[rules.rename[s]] = Null =>
                SaysNothing(cells[r][s], OpsOf(rules.rename[s]))

\* A chunk that reaches the sink has every row of its source, every row of a
\* catalogue has all an INSERT needs, and the one way a cell is emptied that its
\* source filled is a percentage too long to divide: no other op, and no cast,
\* loses a value without a failure (engine/apply.py).
WrittenIsWhole ==
    stage = "written" =>
        /\ DOMAIN written = DOMAIN cells
        /\ \A r \in DOMAIN written, s \in DOMAIN rules.rename :
              written[r].payload[rules.rename[s]] = Null =>
                  \/ SaysNothing(cells[r][s], OpsOf(rules.rename[s]))
                  \/ Undivided(cells[r][s], OpsOf(rules.rename[s]))
        /\ \A r \in DOMAIN written, c \in Required[loaded.target] :
              /\ c \in DOMAIN written[r].payload \cup NotSourceOwned[loaded.target]
              /\ c \in DOMAIN written[r].payload => written[r].payload[c] # Null
=============================================================================
