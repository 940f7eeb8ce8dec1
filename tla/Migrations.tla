----------------------------- MODULE Migrations -----------------------------
(***************************************************************************)
(* The Alembic migrations 0001 to 0013 of the DIS database, up and down,   *)
(* with rows written between them.                                         *)
(*                                                                         *)
(* 0001 applies the DDL files as they are today, so a database created     *)
(* today has most of the head shape from the start, and every later        *)
(* migration must leave it alone ("fresh == migrated"); a database created *)
(* in the past gets the same shape step by step.  A table is the set of    *)
(* its features; a feature stands for the columns, constraints, indexes    *)
(* or policy that came in together.                                        *)
(*                                                                         *)
(* env.py runs one invocation in one transaction: a migration that refuses *)
(* or fails leaves everything as it was, so an action is a migration that  *)
(* succeeds.  An invocation of several migrations is the same as several,  *)
(* with nothing written in between.  Every migration but 0006 refuses a    *)
(* database that is not DIS before any DDL; such a step is not in here.    *)
(***************************************************************************)
EXTENDS Naturals, FiniteSets

Head == 13

VARIABLES
    rev,      \* the revision in alembic_version, 0 when there is none
    schema,   \* the features of every table
    rows      \* the kinds of rows in the tables that matter to a migration

vars == <<rev, schema, rows>>

----------------------------------------------------------------------------
(***************************************************************************)
(* Shapes.                                                                 *)
(***************************************************************************)

\* The six parents migration 0009 de-partitions.
CanonicalParents == {"sale", "change", "signal"}
StagingParents == {"stSale", "stChange", "stSignal"}

Parents == CanonicalParents \cup StagingParents

TenantTables ==
    Parents \cup {"hot", "stHot", "mappings", "bronze", "chunks", "rows", "audit"}

\* Mutant: the staging hot table is forgotten.
AllButStagingHot == TenantTables \ {"audit", "stHot"}

\* _TENANT_ISOLATION_TABLES.
IsolationTables == TenantTables \ {"audit"}

Tables == TenantTables \cup {"tenants", "stores", "drafts"}

\* The revision that brought each feature, for the tables as their DDL files declare
\* them today: the table, codes, dedup ids, event time, the hot natural key, template
\* grain, row security with its policy, plain instead of partitioned, the audit
\* vocabulary, the template type, the two-GUC policy, nullable columns.
DdlFile(t) ==
    CASE t \in {"tenants", "stores"} -> [table |-> 1, code |-> 2]
      [] t = "mappings" -> [table |-> 1, template |-> 5, rls |-> 5, type |-> 10,
                            platform |-> 11]
      [] t = "hot" -> [table |-> 1, rls |-> 1, eventTime |-> 3, checks |-> 4,
                       arbiter |-> 4, platform |-> 11, nullable |-> 12]
      [] t \in {"sale", "change"} -> [table |-> 1, rls |-> 1, ids |-> 3, plain |-> 9,
                                      platform |-> 11]
      [] t \in {"signal"} \cup StagingParents -> [table |-> 1, rls |-> 1, plain |-> 9,
                                                  platform |-> 11]
      [] t = "bronze" -> [table |-> 1, rls |-> 1, template |-> 6, platform |-> 11]
      [] t = "audit" -> [table |-> 1, rls |-> 1, plain |-> 7, priorTrace |-> 8,
                         vocabulary |-> 8, platform |-> 11]
      [] t \in {"stHot", "chunks", "rows"} -> [table |-> 1, rls |-> 1, platform |-> 11]
      [] t = "drafts" -> [table |-> 13]

Full(t) == DOMAIN DdlFile(t)

\* What a database that was created before revision 2, and migrated to r in its day,
\* looks like; nnd is the NULLS NOT DISTINCT key that 0004 retires.
Legacy(r) ==
    [t \in Tables |->
        {f \in Full(t) : DdlFile(t)[f] <= r}
        \cup (IF t = "hot" /\ r \in 1..3 THEN {"nnd"} ELSE {})]

\* The partitioned DDL frozen in 0009, and in 0007 for audit.
FrozenSaleEvents == {"table", "rls", "ids"}
FrozenChangeEvents == {"table", "rls", "ids"}

\* Mutant: the staging copy with the dedup ids of canonical.
FrozenAsCanonical == {"table", "rls", "ids"}

FrozenSignalHistory == {"table", "rls"}
FrozenStagingSaleEvents == {"table", "rls"}
FrozenStagingChangeEvents == {"table", "rls"}
FrozenStagingSignalHistory == {"table", "rls"}
FrozenAuditEvents == {"table", "rls"}

Frozen(t) ==
    CASE t = "sale" -> FrozenSaleEvents
      [] t = "change" -> FrozenChangeEvents
      [] t = "signal" -> FrozenSignalHistory
      [] t = "stSale" -> FrozenStagingSaleEvents
      [] t = "stChange" -> FrozenStagingChangeEvents
      [] t = "stSignal" -> FrozenStagingSignalHistory

----------------------------------------------------------------------------
(***************************************************************************)
(* Rows: positions, plain, with an empty key segment or without a cost;    *)
(* whether there are events, bronze rows and drafts; audit rows, plain or  *)
(* of a duplicate; the templates of one source, as the kind of data their  *)
(* rules produce mapped to the stored template_type.                       *)
(***************************************************************************)
Kinds == {"snapshot", "sales", "inventory_change"}
HotKinds == {"plain", "emptyKey", "nullCost"}
AuditKinds == {"plain", "duplicate"}

NoTemplates == [k \in Kinds |-> "none"]
Templates == {k \in Kinds : rows.templates[k] # "none"}

NoRows == [hot |-> {}, events |-> FALSE, bronze |-> FALSE, audit |-> {}, drafts |-> FALSE,
           templates |-> NoTemplates]

\* The type of every variable.
TypeOK ==
    /\ rev \in 0..Head
    /\ \A t \in Tables : schema[t] \subseteq Full(t) \cup {"nnd"}
    /\ rows \in [hot : SUBSET HotKinds, events : BOOLEAN, bronze : BOOLEAN,
                 audit : SUBSET AuditKinds, drafts : BOOLEAN,
                 templates : [Kinds -> Kinds \cup {"none", "untyped"}]]

\* No database, or one of any age.
Init ==
    /\ rev \in 0..Head
    /\ schema = Legacy(rev)
    /\ rows = NoRows

----------------------------------------------------------------------------
(***************************************************************************)
(* The migrations.                                                         *)
(***************************************************************************)
Step(from, to) == rev = from /\ rev' = to

With(t, features) == [schema EXCEPT ![t] = @ \cup features]
Without(t, features) == [schema EXCEPT ![t] = @ \ features]

\* 0001: the manifest as it is today, without atlas.
Upgrade0001 ==
    /\ Step(0, 1)
    /\ schema' = [t \in Tables |-> IF t = "drafts" THEN schema[t] ELSE Full(t)]
    /\ UNCHANGED rows

Downgrade0001 ==
    /\ Step(1, 0)
    /\ schema' = [t \in Tables |-> IF t = "drafts" THEN schema[t] ELSE {}]
    /\ rows' = [NoRows EXCEPT !.drafts = rows.drafts]

Upgrade0002 ==
    /\ Step(1, 2)
    /\ schema' = [schema EXCEPT !.tenants = @ \cup {"code"}, !.stores = @ \cup {"code"}]
    /\ UNCHANGED rows

Downgrade0002 ==
    /\ Step(2, 1)
    /\ schema' = [schema EXCEPT !.tenants = @ \ {"code"}, !.stores = @ \ {"code"}]
    /\ UNCHANGED rows

\* 0003: a NOT NULL column without default needs an empty table.
Upgrade0003 ==
    /\ Step(2, 3)
    /\ (\E t \in {"sale", "change"} : "ids" \notin schema[t]) => ~rows.events
    /\ schema' = [schema EXCEPT !.sale = @ \cup {"ids"}, !.change = @ \cup {"ids"},
                                !.hot = @ \cup {"eventTime"}]
    /\ UNCHANGED rows

Downgrade0003 ==
    /\ Step(3, 2)
    /\ schema' = [schema EXCEPT !.sale = @ \ {"ids"}, !.change = @ \ {"ids"},
                                !.hot = @ \ {"eventTime"}]
    /\ UNCHANGED rows

\* Mutant: the index without the CHECKs its sentinel rests on.
RekeyedUnchecked(features) == (features \cup {"arbiter"}) \ {"nnd"}

\* CHECKs, then the COALESCE index, then the old key goes.
Rekeyed(features) == (features \cup {"checks", "arbiter"}) \ {"nnd"}

\* 0004: an empty string would collide with the sentinel.
Upgrade0004 ==
    /\ Step(3, 4)
    /\ "arbiter" \notin schema.hot => "emptyKey" \notin rows.hot
    /\ schema' = [schema EXCEPT !.hot = Rekeyed(@)]
    /\ UNCHANGED rows

Downgrade0004 ==
    /\ Step(4, 3)
    /\ schema' = [schema EXCEPT !.hot = (@ \cup {"nnd"}) \ {"checks", "arbiter"}]
    /\ UNCHANGED rows

\* Mutant: the policy comes, ENABLE and FORCE ROW LEVEL SECURITY do not.
Regrained(features) == features \cup {"template"}

\* Columns and keys of the template grain, and row security last; the policy is
\* created in its single-GUC form unless there is one.
TemplateGrain(features) == features \cup {"template", "rls"}

\* 0005: one template named default per source.
Upgrade0005 ==
    /\ Step(4, 5)
    /\ schema' = [schema EXCEPT !.mappings = TemplateGrain(@)]
    /\ UNCHANGED rows

\* Refused when a source has several templates.
Downgrade0005 ==
    /\ Step(5, 4)
    /\ "template" \in schema.mappings => Cardinality(Templates) <= 1
    /\ schema' = Without("mappings", {"template", "rls", "platform"})
    /\ UNCHANGED rows

Upgrade0006 == Step(5, 6) /\ schema' = With("bronze", {"template"}) /\ UNCHANGED rows
Downgrade0006 == Step(6, 5) /\ schema' = Without("bronze", {"template"}) /\ UNCHANGED rows

\* 0007: the table is dropped and created from its DDL file; its rows are disposable.
Upgrade0007 ==
    /\ Step(6, 7)
    /\ schema' = [schema EXCEPT !.audit = Full("audit")]
    /\ rows' = [rows EXCEPT !.audit = {}]

Downgrade0007 ==
    /\ Step(7, 6)
    /\ schema' = [schema EXCEPT !.audit = FrozenAuditEvents]
    /\ rows' = [rows EXCEPT !.audit = {}]

Upgrade0008 ==
    /\ Step(7, 8)
    /\ schema' = With("audit", {"priorTrace", "vocabulary"})
    /\ UNCHANGED rows

\* Refused over rows of the new vocabulary.
Downgrade0008 ==
    /\ Step(8, 7)
    /\ "duplicate" \notin rows.audit
    /\ schema' = Without("audit", {"priorTrace", "vocabulary"})
    /\ UNCHANGED rows

\* Mutant: CASCADE takes the hot table along.
DroppedCascade == [rows EXCEPT !.events = FALSE, !.hot = {}]

\* What is left of the rows when the parents are dropped and created again.
Dropped == [rows EXCEPT !.events = FALSE]

\* 0009: as 0007, for the six parents.
Upgrade0009 ==
    /\ Step(8, 9)
    /\ schema' = [t \in Tables |-> IF t \in Parents THEN Full(t) ELSE schema[t]]
    /\ rows' = Dropped

Downgrade0009 ==
    /\ Step(9, 8)
    /\ schema' = [t \in Tables |-> IF t \in Parents THEN Frozen(t) ELSE schema[t]]
    /\ rows' = Dropped

\* Mutant: the signature of a change is not looked for.
AllSales(kind) == "sales"

\* The backfill goes by the columns the rules produce: those of a change, those of a
\* sale, else sales.  A snapshot has neither.
Backfill(kind) == IF kind = "inventory_change" THEN "inventory_change" ELSE "sales"

Upgrade0010 ==
    /\ Step(9, 10)
    /\ schema' = With("mappings", {"type"})
    /\ rows' = [rows EXCEPT !.templates =
                  [k \in Kinds |-> IF @[k] = "untyped" THEN Backfill(k) ELSE @[k]]]

Downgrade0010 ==
    /\ Step(10, 9)
    /\ schema' = Without("mappings", {"type"})
    /\ rows' = [rows EXCEPT !.templates =
                  [k \in Kinds |-> IF @[k] = "none" THEN "none" ELSE "untyped"]]

\* 0011: every policy is dropped and created.
Upgrade0011 ==
    /\ Step(10, 11)
    /\ schema' = [t \in Tables |-> schema[t] \cup
                    (IF t \in IsolationTables \cup {"audit"} THEN {"platform"} ELSE {})]
    /\ UNCHANGED rows

Downgrade0011 ==
    /\ Step(11, 10)
    /\ schema' = [t \in Tables |-> schema[t] \ {"platform"}]
    /\ UNCHANGED rows

Upgrade0012 == Step(11, 12) /\ schema' = With("hot", {"nullable"}) /\ UNCHANGED rows

\* SET NOT NULL fails over a NULL.
Downgrade0012 ==
    /\ Step(12, 11)
    /\ "nullCost" \notin rows.hot
    /\ schema' = Without("hot", {"nullable"})
    /\ UNCHANGED rows

Upgrade0013 == Step(12, 13) /\ schema' = With("drafts", {"table"}) /\ UNCHANGED rows

Downgrade0013 ==
    /\ Step(13, 12)
    /\ schema' = Without("drafts", {"table"})
    /\ rows' = [rows EXCEPT !.drafts = FALSE]

Migrate ==
    \/ Upgrade0001 \/ Upgrade0002 \/ Upgrade0003 \/ Upgrade0004 \/ Upgrade0005
    \/ Upgrade0006 \/ Upgrade0007 \/ Upgrade0008 \/ Upgrade0009 \/ Upgrade0010
    \/ Upgrade0011 \/ Upgrade0012 \/ Upgrade0013
    \/ Downgrade0001 \/ Downgrade0002 \/ Downgrade0003 \/ Downgrade0004 \/ Downgrade0005
    \/ Downgrade0006 \/ Downgrade0007 \/ Downgrade0008 \/ Downgrade0009 \/ Downgrade0010
    \/ Downgrade0011 \/ Downgrade0012 \/ Downgrade0013

----------------------------------------------------------------------------
(***************************************************************************)
(* Writes between migrations, as the constraints in force allow them, and  *)
(* an operator's deletes of the rows a migration refused over.             *)
(***************************************************************************)
Allowed(kind) ==
    CASE kind = "emptyKey" -> "checks" \notin schema.hot
      [] kind = "nullCost" -> "nullable" \in schema.hot
      [] OTHER -> TRUE

WriteRows ==
    /\ rev >= 1
    /\ \/ \E k \in HotKinds : Allowed(k) /\ rows' = [rows EXCEPT !.hot = @ \cup {k}]
       \/ rows' = [rows EXCEPT !.events = TRUE]
       \/ rows' = [rows EXCEPT !.bronze = TRUE]
       \/ \E k \in AuditKinds :
             /\ k = "duplicate" => "vocabulary" \in schema.audit
             /\ rows' = [rows EXCEPT !.audit = @ \cup {k}]
       \/ /\ rev = Head
          /\ rows' = [rows EXCEPT !.drafts = TRUE]
    /\ UNCHANGED <<rev, schema>>

\* A template is created; before the template grain a source has one.
CreateTemplate ==
    /\ rev >= 1
    /\ \E k \in Kinds \ Templates :
          /\ "template" \in schema.mappings \/ Templates = {}
          /\ rows' = [rows EXCEPT !.templates[k] =
                        IF "type" \in schema.mappings THEN k ELSE "untyped"]
    /\ UNCHANGED <<rev, schema>>

Resolve ==
    /\ \/ \E k \in rows.hot : rows' = [rows EXCEPT !.hot = @ \ {k}]
       \/ rows.events /\ rows' = [rows EXCEPT !.events = FALSE]
       \/ \E k \in rows.audit : rows' = [rows EXCEPT !.audit = @ \ {k}]
       \/ \E k \in Templates : rows' = [rows EXCEPT !.templates[k] = "none"]
    /\ UNCHANGED <<rev, schema>>

Next == Migrate \/ WriteRows \/ CreateTemplate \/ Resolve

Spec == Init /\ [][Next]_vars

----------------------------------------------------------------------------
(***************************************************************************)
(* What must hold.                                                         *)
(***************************************************************************)

\* "Fresh == migrated": at head a database has one shape, whether it is new, old, or
\* has been down and up again, and whatever rows made a migration refuse on the way.
HeadIsOneShape == rev = Head => schema = Legacy(Head)

\* A downgrade undoes its migration: what was a database of its day at one revision is
\* one at the revision below, the frozen DDL included.
DowngradeRestores ==
    [][rev' < rev /\ schema = Legacy(rev) => schema' = Legacy(rev')]_vars

\* 0004: "no uniqueness gap at any moment", and where COALESCE decides uniqueness no
\* empty string can be, or come, into a key.
KeyNeverGapped ==
    rev >= 1 =>
        /\ schema.hot \cap {"nnd", "arbiter"} # {}
        /\ "arbiter" \in schema.hot => "checks" \in schema.hot /\ "emptyKey" \notin rows.hot

\* Row security is on for every tenant table of every revision from the one that brought
\* it; a table created again from its DDL file or from frozen DDL included.
IsolationOn ==
    /\ \A t \in TenantTables \ {"mappings"} : rev >= 1 => "rls" \in schema[t]
    /\ rev >= 5 => "rls" \in schema.mappings
    /\ rev >= 11 => \A t \in TenantTables : "platform" \in schema[t]

\* Between bootstrap and its undoing, migrations lose audit rows, events and drafts,
\* which are disposable, and no position, bronze row or template.
OnlyDisposableRowsGo ==
    [][rev' # rev /\ rev' # 0 =>
         /\ rows'.hot = rows.hot /\ rows'.bronze = rows.bronze
         /\ \A k \in Kinds : rows.templates[k] # "none" => rows'.templates[k] # "none"]_vars

\* 0010: where template_type is stored, an event template has the type its rules show,
\* also after a round trip; only a snapshot may come back as sales.
TypeMatchesRules ==
    "type" \in schema.mappings =>
        \A k \in Templates : rows.templates[k] \in {k} \cup (IF k = "snapshot" THEN {"sales"}
                                                             ELSE {})
=============================================================================
