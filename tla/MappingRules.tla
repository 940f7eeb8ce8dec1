---------------------------- MODULE MappingRules ----------------------------
(***************************************************************************)
(* A mapping template on its way into the system and out again: the        *)
(* translation of a create request, the gate of the UI server              *)
(* (mapping_validation.py over the SourceMapping contract of dis-mapping)  *)
(* and, in another service, the loader of the streaming consumer           *)
(* (pipeline/mapping.py), which parses, routes and classifies what the     *)
(* gate let through.  The three canonical models and their provenance      *)
(* partition, from which both services derive their column sets, are       *)
(* written out.                                                            *)
(*                                                                         *)
(* A rules document has the four maps of SourceMapping.  An op is its name *)
(* and what its declared arguments are worth: "declared", "undeclared"     *)
(* (refused by the op's argument validation) or "unknown_zone" (a time     *)
(* zone only the engine finds out about).                                  *)
(***************************************************************************)
EXTENDS Naturals, Sequences, FiniteSets, Functions

CONSTANT Requests   \* create and edit requests that arrive

\* template_type is one of these by the CHECK of the table; an edit replaces a
\* stored template, and the request model of its document has lists of ops.
TemplateTypes == {"snapshot", "sales", "inventory_change"}
IsList(ops) == ops \in Seq(Range(ops))

ASSUME RequestsAssumption ==
    \A q \in Requests : q.kind = "edit" =>
        /\ q.type \in TemplateTypes
        /\ \A c \in DOMAIN q.rules.normalize : IsList(q.rules.normalize[c])
        /\ \A c \in DOMAIN q.rules.derive : IsList(q.rules.derive[c].ops)

----------------------------------------------------------------------------
(***************************************************************************)
(* The canonical models (dis-canonical) and who fills their columns        *)
(* (dis_validation/provenance.py): the columns a mapping may produce, and  *)
(* the required ones among them.                                           *)
(***************************************************************************)
HotColumns == {"sku_id", "sku_variant", "sku_lot_batch", "barcode", "product_name",
    "product_description", "product_category", "product_sub_category",
    "product_department", "supplier_id", "packaging_type", "sku_size",
    "unit_of_measure", "current_retail_price", "unit_cost", "promo_price",
    "promo_identifier", "stock_qty", "lead_time_days", "expiry_date", "receipt_date",
    "expiry_source", "expiry_confidence", "regulatory_flag", "regulatory_type",
    "currency", "reorder_point", "sku_status"}
SaleColumns == {"event_date", "sku_id", "sku_variant", "sku_lot_batch", "event_subtype",
    "source_sale_timestamp", "transaction_id", "line_item_seq", "quantity",
    "unit_retail_price", "unit_sale_price", "discount_amount", "discount_pct",
    "unit_cost", "promo_identifier", "tax_amount", "currency", "payment_method",
    "customer_token", "sale_channel"}
ChangeColumns == {"event_date", "sku_id", "sku_variant", "sku_lot_batch",
    "event_category", "event_subtype", "source_event_timestamp", "effective_from",
    "effective_until", "attribute_name", "value_before", "value_after", "reason_code",
    "reason_note", "change_context"}

\* mapping_produced_columns and enrichment_produced_columns.
MappingProduced == [hot |-> HotColumns, sale |-> SaleColumns, change |-> ChangeColumns]
EnrichmentProduced == [hot |-> {"tax_treatment"}, sale |-> {}, change |-> {}]

\* Consumer-injected, DB-generated and compute-owned columns.
Injected == {"tenant_id", "store_id", "mapping_version_id", "trace_id", "dis_channel",
             "ingest_metadata"}
InjectedEvent == {"source_id", "source_event_id", "store_sku_current_position_id"}
DbGenerated == {"id", "last_updated_at"}
NotSourceOwned ==
    [hot |-> Injected \cup DbGenerated \cup {"last_source_event_at", "velocity_7day",
                "stock_age_days", "unit_cost_trend_30day", "attribute_staleness_map",
                "yesterday_retail_price"},
     sale |-> Injected \cup InjectedEvent \cup DbGenerated
                \cup {"related_sale_event_id", "tax_treatment"},
     change |-> Injected \cup InjectedEvent \cup DbGenerated
                \cup {"numeric_value_before", "numeric_value_after", "numeric_change"}]
ModelFields(model) ==
    MappingProduced[model] \cup EnrichmentProduced[model] \cup NotSourceOwned[model]

\* assert_partition_consistent: no column is classified twice.
ASSUME PartitionConsistent ==
    \A m \in {"hot", "sale", "change"} :
        /\ MappingProduced[m] \cap EnrichmentProduced[m] = {}
        /\ (MappingProduced[m] \cup EnrichmentProduced[m]) \cap NotSourceOwned[m] = {}

HotRequired == {"sku_id", "product_name", "current_retail_price", "tax_treatment",
                "currency"}
SaleRequired == {"event_date", "sku_id", "event_subtype", "source_sale_timestamp",
                 "quantity", "unit_retail_price", "unit_sale_price", "tax_treatment",
                 "currency"}
ChangeRequired == {"event_date", "sku_id", "event_category", "event_subtype",
                   "source_event_timestamp"}
Required == [hot |-> HotRequired, sale |-> SaleRequired, change |-> ChangeRequired]

\* _datatype_and_values: the datatype label of a column of a model.
Datatype(model, col) ==
    CASE col \in {"sku_size", "current_retail_price", "unit_cost", "promo_price",
                  "stock_qty", "expiry_confidence", "reorder_point", "quantity",
                  "unit_retail_price", "unit_sale_price", "discount_amount",
                  "discount_pct", "tax_amount", "yesterday_retail_price",
                  "velocity_7day", "unit_cost_trend_30day", "numeric_value_before",
                  "numeric_value_after", "numeric_change"} -> "number"
      [] col \in {"lead_time_days", "line_item_seq", "stock_age_days",
                  "mapping_version_id"} -> "integer"
      [] col \in {"expiry_date", "receipt_date", "event_date"} -> "date"
      [] col \in {"source_sale_timestamp", "source_event_timestamp",
                  "effective_from", "effective_until", "last_updated_at",
                  "last_source_event_at"} -> "datetime"
      [] col \in {"value_before", "value_after", "change_context", "ingest_metadata",
                  "attribute_staleness_map"} -> "json"
      [] col \in {"id", "tenant_id", "store_id", "trace_id", "related_sale_event_id",
                  "store_sku_current_position_id"} -> "underivable"
      [] col = "regulatory_flag" -> "boolean"
      [] col \in {"expiry_source", "event_category", "tax_treatment"} -> "choice"
      [] col = "event_subtype" /\ model = "sale" -> "choice"
      [] OTHER -> "text"

\* MODEL_BY_TYPE.
ModelForType == [snapshot |-> "hot", sales |-> "sale", inventory_change |-> "change"]

\* ENRICHMENT_REGISTRY: only current-position is enriched.
EnrichmentFields(model) == IF model = "hot" THEN {"currency", "tax_treatment"} ELSE {}

\* mandatory_mapping_produced, less what enrichment guarantees.
Mandatory(model) ==
    (Required[model] \cap MappingProduced[model]) \ EnrichmentFields(model)

----------------------------------------------------------------------------
(***************************************************************************)
(* SourceMapping: the contract both services parse a document with.        *)
(***************************************************************************)
ParseOps == {"parse_date", "parse_datetime", "parse_decimal", "parse_percent",
             "parse_integer", "parse_boolean", "map_enum"}
NormalizeOps == ParseOps \cup {"null_tokens", "normalize_whitespace", "normalize_case"}
CastTypes == {"string", "integer", "decimal", "date", "datetime", "boolean"}
Generators == {"copy", "constant", "date_from_datetime"}

RenameTargets(d) == Range(d.rename)
TargetColumns(d) == RenameTargets(d) \cup DOMAIN d.derive

\* validate_normalize_args over a whole list.
ArgsDeclared(ops) ==
    \A i \in DOMAIN ops : ops[i].op \in NormalizeOps /\ ops[i].args # "undeclared"

CastTypeOf(d, col) == IF col \in DOMAIN d.cast THEN d.cast[col] ELSE "string"

\* The type a generator yields: copy has the type of its source, a constant
\* the type of its literal.
GeneratedType(d, g) ==
    CASE g.gen = "copy" -> CastTypeOf(d, g.src)
      [] g.gen = "constant" -> g.literal
      [] OTHER -> "date"

\* _validate_derive_list: a generator first, off a rename target, then string
\* ops if the generator yields a string.
DeriveListValid(d, g) ==
    /\ g.gen \in Generators
    /\ g.gen # "constant" => g.src \in RenameTargets(d)
    /\ g.gen = "date_from_datetime" =>
          g.src \in DOMAIN d.cast /\ d.cast[g.src] = "datetime"
    /\ ArgsDeclared(g.ops)
    /\ g.ops # <<>> => GeneratedType(d, g) = "string"

\* _validate_rules.
Parses(d) ==
    /\ IsInjective(d.rename)
    /\ DOMAIN d.normalize \subseteq RenameTargets(d)
    /\ DOMAIN d.cast \subseteq RenameTargets(d)
    /\ DOMAIN d.derive \cap RenameTargets(d) = {}
    /\ \A c \in DOMAIN d.normalize : ArgsDeclared(d.normalize[c])
    /\ Range(d.cast) \subseteq CastTypes
    /\ \A c \in DOMAIN d.derive : DeriveListValid(d, d.derive[c])

----------------------------------------------------------------------------
(***************************************************************************)
(* Translation of a create request.  A column of the request names its     *)
(* source and destination and declares a date format (a token of the       *)
(* locked five, another one, or none), its separators (declared, equal to  *)
(* each other, or none) and whether it is a percentage.                    *)
(***************************************************************************)
Ignore == "__ignore__"

\* _CAST_TYPE_BY_DATATYPE; json has no cast target.
CastTypeByDatatype ==
    [text |-> "string", choice |-> "string", integer |-> "integer",
     number |-> "decimal", date |-> "date", datetime |-> "datetime",
     boolean |-> "boolean"]

\* _normalize_ops.
OpsFor(column, datatype) ==
    LET separators == IF column.sep = "declared" THEN "declared" ELSE "undeclared"
    IN  IF column.fmt # "none" /\ datatype \in {"date", "datetime"}
        THEN <<[op |-> IF datatype = "date" THEN "parse_date" ELSE "parse_datetime",
                args |-> "declared"]>>
        ELSE IF datatype = "number" /\ column.pct
        THEN <<[op |-> "parse_percent", args |-> separators]>>
        ELSE IF datatype = "number" /\ column.sep # "none"
        THEN <<[op |-> "parse_decimal", args |-> separators]>>
        ELSE <<>>

\* The columns that are renamed, and those whose shape is reflected: an unknown
\* destination is renamed only, for the gate to refuse.
Kept(columns) == {i \in DOMAIN columns : columns[i].dest # Ignore}
Reflected(model, columns) ==
    {i \in Kept(columns) : columns[i].dest \in ModelFields(model)}

\* The columns date_token_to_strptime, _cast_spec or _datatype_and_values raise on.
Raising(model, columns) ==
    {i \in Reflected(model, columns) :
        LET datatype == Datatype(model, columns[i].dest)
        IN  \/ datatype \notin DOMAIN CastTypeByDatatype
            \/ columns[i].fmt = "unknown" /\ datatype \in {"date", "datetime"}}

\* The first of them raises: a 400, or for a column with no datatype a 500.
TranslationError(model, columns) ==
    LET first == CHOOSE i \in Raising(model, columns) :
                    \A j \in Raising(model, columns) : i <= j
    IN  IF Datatype(model, columns[first].dest) = "underivable"
        THEN "server_error" ELSE "untranslatable"

\* translate_columns_to_mapping_rules.  A source named twice keeps its last
\* destination; the normalize and cast entries of the other stay.
Translate(model, columns) ==
    LET Dest(set) == {columns[i].dest : i \in set}
        Last(set, P(_)) == CHOOSE i \in set : P(i) /\ \A j \in set : P(j) => j <= i
        Of(dest) == Last(Reflected(model, columns), LAMBDA i : columns[i].dest = dest)
        ops == [dest \in Dest(Reflected(model, columns)) |->
                    OpsFor(columns[Of(dest)], Datatype(model, dest))]
    IN  [rename |-> [src \in {columns[i].src : i \in Kept(columns)} |->
                        columns[Last(Kept(columns), LAMBDA i : columns[i].src = src)].dest],
         normalize |-> Restrict(ops, {dest \in DOMAIN ops : ops[dest] # <<>>}),
         cast |-> [dest \in Dest(Reflected(model, columns)) |->
                      CastTypeByDatatype[Datatype(model, dest)]],
         derive |-> <<>>]

----------------------------------------------------------------------------
(***************************************************************************)
(* The gate, validate_mapping_rules_for_type.                              *)
(***************************************************************************)
\* _CATALOGUE_PRESENCE_PAIRINGS, and HOT_CHECK_IMPLICATIONS of the consumer.
Expiry == {"expiry_date", "expiry_source", "expiry_confidence"}
PresencePairings == {<<{"promo_identifier"}, {"promo_price"}>>, <<Expiry, Expiry>>}
Paired(columns) ==
    \A p \in PresencePairings : p[1] \cap columns # {} => p[2] \subseteq columns

\* check_target_legality and check_mandatory_coverage.
Legal(model, d) == TargetColumns(d) \subseteq MappingProduced[model]

\* Mutant: coverage counts only what a rename must provide beyond the key.
CoversKey(model, d) == "sku_id" \in TargetColumns(d)

Covers(model, d) == Mandatory(model) \subseteq TargetColumns(d)

Accepts(type, d) ==
    LET model == ModelForType[type]
    IN  /\ Parses(d)
        /\ DOMAIN d.rename # {}
        /\ Legal(model, d)
        /\ Covers(model, d)
        /\ model = "hot" => Paired(TargetColumns(d))

----------------------------------------------------------------------------
(***************************************************************************)
(* The consumer's side.                                                    *)
(***************************************************************************)
\* SALE_HOT_PROJECTION and CHANGE_HOT_PROJECTION.
SaleHotProjection ==
    [unit_retail_price |-> "current_retail_price", unit_cost |-> "unit_cost",
     promo_identifier |-> "promo_identifier", currency |-> "currency"]
ChangeHotProjection == {<<"PRICE", "current_retail_price">>, <<"COST", "unit_cost">>,
    <<"INVENTORY", "stock_qty">>, <<"CATALOGUE", "product_name">>,
    <<"STATUS", "sku_status">>}

\* _constant_derive: the pinned value of a column derived as a string constant.
ConstantDerive(d, col) ==
    {d.derive[c].src : c \in {c \in DOMAIN d.derive \cap {col} :
        d.derive[c].gen = "constant" /\ d.derive[c].literal = "string"}}

\* guaranteed_hot_columns.
GuaranteedHot(d, model) ==
    CASE model = "hot" ->
            (TargetColumns(d) \cap MappingProduced["hot"]) \cup EnrichmentFields("hot")
      [] model = "sale" ->
            {SaleHotProjection[c] : c \in TargetColumns(d) \cap DOMAIN SaleHotProjection}
      [] OTHER ->
            {p[2] : p \in {p \in ChangeHotProjection :
                /\ p[1] \in ConstantDerive(d, "event_category")
                /\ p[2] \in ConstantDerive(d, "attribute_name")}}

\* classify_hot_completeness against HOT_REQUIRED_FROM_PROJECTION.
HotComplete(d, model) ==
    /\ Mandatory("hot") \subseteq GuaranteedHot(d, model)
    /\ Paired(GuaranteedHot(d, model))

\* route_target_model: the event models the targets fit.
Matches(d) == {m \in {"sale", "change"} : TargetColumns(d) \subseteq MappingProduced[m]}

----------------------------------------------------------------------------
(***************************************************************************)
(* One template, from its request to the consumer.                         *)
(***************************************************************************)
VARIABLES
    stage,      \* where the template, and then its chunk, has got to
    request,    \* the request
    rules,      \* the document of the template
    loaded      \* what load_active_mapping made of it

ruleVars == <<stage, request, rules, loaded>>

NotLoaded == [target |-> "none", hotComplete |-> FALSE]

RulesInit ==
    /\ stage = "request"
    /\ request \in Requests
    /\ rules = <<>>
    /\ loaded = NotLoaded

\* POST /mapping-templates: type, translation, gate, ACTIVE row.
CreateTemplate ==
    /\ stage = "request" /\ request.kind = "create"
    /\ \/ /\ request.type \notin TemplateTypes
          /\ stage' = "refused" /\ UNCHANGED rules
       \/ /\ request.type \in TemplateTypes
          /\ LET model == ModelForType[request.type]
                 d == Translate(model, request.columns)
             IN  IF Raising(model, request.columns) # {}
                 THEN /\ stage' = TranslationError(model, request.columns)
                      /\ UNCHANGED rules
                 ELSE IF Accepts(request.type, d)
                 THEN stage' = "stored" /\ rules' = d
                 ELSE stage' = "refused" /\ UNCHANGED rules
    /\ UNCHANGED <<request, loaded>>

\* PATCH /mapping-templates: a document as it will be stored, gated with the
\* type of the lineage; it runs once an operator has promoted it.
EditTemplate ==
    /\ stage = "request" /\ request.kind = "edit"
    /\ IF Accepts(request.type, request.rules)
       THEN stage' = "stored" /\ rules' = request.rules
       ELSE stage' = "refused" /\ UNCHANGED rules
    /\ UNCHANGED <<request, loaded>>

\* load_active_mapping: parse, refuse an empty rename, route by the stored type.
Loads(d, type) ==
    /\ Parses(d)
    /\ DOMAIN d.rename # {}
    /\ type = "snapshot" \/ Cardinality(Matches(d)) = 1

LoadMapping ==
    LET target == IF request.type = "snapshot" THEN "hot"
                  ELSE CHOOSE m \in Matches(rules) : TRUE
    IN  /\ stage = "stored"
        /\ IF Loads(rules, request.type)
           THEN /\ stage' = "loaded"
                /\ loaded' = [target |-> target, hotComplete |-> HotComplete(rules, target)]
           ELSE stage' = "unloadable" /\ UNCHANGED loaded
        /\ UNCHANGED <<request, rules>>

----------------------------------------------------------------------------
\* The consumer runs what the gate accepts: a stored document never fails to
\* load, it routes to the model of its type, and only a snapshot may create a
\* hot row (the premise of mapping_validation.py, kept by two services that
\* share no code for it).
AcceptedRuns ==
    /\ stage # "unloadable"
    /\ loaded # NotLoaded =>
          /\ loaded.target = ModelForType[request.type]
          /\ loaded.hotComplete <=> (request.type = "snapshot")

\* The translator's table of cast types: "json has no mapping-produced target
\* and is intentionally absent", so no column the catalog offers is one the
\* translator cannot cast.
EveryOfferedColumnCasts ==
    stage = "untranslatable" =>
        \E i \in DOMAIN request.columns :
            \/ request.columns[i].fmt = "unknown"
            \/ request.columns[i].dest \notin
                   MappingProduced[ModelForType[request.type]] \cup {Ignore}
=============================================================================
