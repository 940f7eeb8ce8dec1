-------------------------- MODULE MigrationsProofs --------------------------
(***************************************************************************)
(* Proofs about Migrations.                                                *)
(*                                                                         *)
(* What makes a database of any age arrive at one shape is that a table    *)
(* has, at every revision, at least the features of its day and at most    *)
(* those of its DDL file and the retired key (SchemaInv); at head the two  *)
(* are the same.  The drafts table, which 0001 leaves out, comes with      *)
(* 0013 only, and the retired key is gone from 0004 on.                    *)
(***************************************************************************)
EXTENDS Migrations, TLAPS

\* The features of the day.
OfDay(t, r) == {f \in Full(t) : DdlFile(t)[f] <= r}

\* The features a revision brought.
Brought(t, r) == {f \in Full(t) : DdlFile(t)[f] = r}

\* A table of revision r, whatever the age of its database.
Day(t, features, r) ==
    /\ OfDay(t, r) \subseteq features
    /\ features \subseteq Full(t) \cup (IF t = "hot" THEN {"nnd"} ELSE {})
    /\ r = 0 \/ (t = "drafts" /\ r < 13) => features = {}
    /\ t = "hot" /\ r >= 4 => "nnd" \notin features

SchemaInv ==
    /\ schema = [t \in Tables |-> schema[t]]
    /\ \A t \in Tables : Day(t, schema[t], rev)

\* Constraints and rows of the hot table: an empty key segment is never under the index.
HotInv ==
    /\ rev >= 1 => schema["hot"] \cap {"nnd", "arbiter"} # {}
    /\ "arbiter" \in schema["hot"] => "checks" \in schema["hot"] /\ "emptyKey" \notin rows.hot

\* A template has no type, or one that its rules explain, and one where types are stored.
TemplateInv ==
    /\ \A k \in Kinds : rows.templates[k] \in {"none", "untyped", k}
                           \cup (IF k = "snapshot" THEN {"sales"} ELSE {})
    /\ "type" \in schema["mappings"] => \A k \in Kinds : rows.templates[k] # "untyped"

RowsInv == rev = 0 => rows.hot = {} /\ rows.templates = NoTemplates

\* The inductive invariant.
IInv == TypeOK /\ SchemaInv /\ HotInv /\ TemplateInv /\ RowsInv

----------------------------------------------------------------------------
(***************************************************************************)
(* The DDL files, read as a table.                                         *)
(***************************************************************************)

\* The tables are distinct names, and the DDL file of each is what it is.
LEMMA Files ==
    /\ \A t \in {"tenants", "stores"} : DdlFile(t) = [table |-> 1, code |-> 2]
    /\ DdlFile("mappings") = [table |-> 1, template |-> 5, rls |-> 5, type |-> 10,
                              platform |-> 11]
    /\ DdlFile("hot") = [table |-> 1, rls |-> 1, eventTime |-> 3, checks |-> 4,
                         arbiter |-> 4, platform |-> 11, nullable |-> 12]
    /\ \A t \in {"sale", "change"} :
          DdlFile(t) = [table |-> 1, rls |-> 1, ids |-> 3, plain |-> 9, platform |-> 11]
    /\ \A t \in {"signal"} \cup StagingParents :
          DdlFile(t) = [table |-> 1, rls |-> 1, plain |-> 9, platform |-> 11]
    /\ DdlFile("bronze") = [table |-> 1, rls |-> 1, template |-> 6, platform |-> 11]
    /\ DdlFile("audit") = [table |-> 1, rls |-> 1, plain |-> 7, priorTrace |-> 8,
                           vocabulary |-> 8, platform |-> 11]
    /\ \A t \in {"stHot", "chunks", "rows"} :
          DdlFile(t) = [table |-> 1, rls |-> 1, platform |-> 11]
    /\ DdlFile("drafts") = [table |-> 13]
  BY DEF DdlFile, StagingParents

\* The features of every table.
LEMMA Features ==
    /\ \A t \in {"tenants", "stores"} : Full(t) = {"table", "code"}
    /\ Full("mappings") = {"table", "template", "rls", "type", "platform"}
    /\ Full("hot") = {"table", "rls", "eventTime", "checks", "arbiter", "platform", "nullable"}
    /\ \A t \in {"sale", "change"} : Full(t) = {"table", "rls", "ids", "plain", "platform"}
    /\ \A t \in {"signal"} \cup StagingParents : Full(t) = {"table", "rls", "plain", "platform"}
    /\ Full("bronze") = {"table", "rls", "template", "platform"}
    /\ Full("audit") = {"table", "rls", "plain", "priorTrace", "vocabulary", "platform"}
    /\ \A t \in {"stHot", "chunks", "rows"} : Full(t) = {"table", "rls", "platform"}
    /\ Full("drafts") = {"table"}
  BY Files DEF Full

\* A revision brought every feature, and which one brought what.
LEMMA Origin ==
    ASSUME NEW t \in Tables
    PROVE  /\ \A f \in Full(t) : DdlFile(t)[f] \in 1..13
           /\ Brought(t, 2) = IF t \in {"tenants", "stores"} THEN {"code"} ELSE {}
           /\ Brought(t, 3) = IF t \in {"sale", "change"} THEN {"ids"}
                              ELSE IF t = "hot" THEN {"eventTime"} ELSE {}
           /\ Brought(t, 4) = IF t = "hot" THEN {"checks", "arbiter"} ELSE {}
           /\ Brought(t, 5) = IF t = "mappings" THEN {"template", "rls"} ELSE {}
           /\ Brought(t, 6) = IF t = "bronze" THEN {"template"} ELSE {}
           /\ Brought(t, 7) = IF t = "audit" THEN {"plain"} ELSE {}
           /\ Brought(t, 8) = IF t = "audit" THEN {"priorTrace", "vocabulary"} ELSE {}
           /\ Brought(t, 9) = IF t \in Parents THEN {"plain"} ELSE {}
           /\ Brought(t, 10) = IF t = "mappings" THEN {"type"} ELSE {}
           /\ Brought(t, 11) = IF t \in TenantTables THEN {"platform"} ELSE {}
           /\ Brought(t, 12) = IF t = "hot" THEN {"nullable"} ELSE {}
           /\ Brought(t, 13) = IF t = "drafts" THEN {"table"} ELSE {}
           /\ "nnd" \notin Full(t)
  <1> USE DEF Brought, TenantTables, Parents, CanonicalParents, StagingParents
  <1>1. CASE t \in {"tenants", "stores"}
    BY <1>1, Files, Features
  <1>2. CASE t = "mappings"
    BY <1>2, Files, Features
  <1>3. CASE t = "hot"
    BY <1>3, Files, Features
  <1>4. CASE t \in {"sale", "change"}
    BY <1>4, Files, Features
  <1>5. CASE t \in {"signal"} \cup StagingParents
    BY <1>5, Files, Features
  <1>6. CASE t = "bronze"
    BY <1>6, Files, Features
  <1>7. CASE t = "audit"
    BY <1>7, Files, Features
  <1>8. CASE t \in {"stHot", "chunks", "rows"}
    BY <1>8, Files, Features
  <1>9. CASE t = "drafts"
    BY <1>9, Files, Features
  <1> QED
    BY <1>1, <1>2, <1>3, <1>4, <1>5, <1>6, <1>7, <1>8, <1>9 DEF Tables

\* The day after is the day and what came with it.
LEMMA OfDayStep ==
    ASSUME NEW t \in Tables, NEW r \in 1..13
    PROVE  /\ OfDay(t, r) = OfDay(t, r - 1) \cup Brought(t, r)
           /\ OfDay(t, r - 1) \cap Brought(t, r) = {}
           /\ Brought(t, r) \subseteq Full(t)
           /\ OfDay(t, r) \subseteq Full(t)
  BY Origin DEF OfDay, Brought

\* Nothing is there at first, and at head what the DDL file says.
LEMMA Ends ==
    ASSUME NEW t \in Tables
    PROVE  OfDay(t, 0) = {} /\ OfDay(t, 13) = Full(t)
  BY Origin DEF OfDay

\* The DDL frozen in 0007 and 0009 is that of its day.
LEMMA FrozenIsOfDay ==
    /\ FrozenAuditEvents = OfDay("audit", 6)
    /\ \A t \in Parents : Frozen(t) = OfDay(t, 8)
  <1>1. FrozenAuditEvents = OfDay("audit", 6)
    BY Files, Features DEF FrozenAuditEvents, OfDay
  <1>2. ASSUME NEW t \in {"sale", "change"} PROVE Frozen(t) = OfDay(t, 8)
    <2>1. Frozen(t) = {"table", "rls", "ids"}
      BY DEF Frozen, FrozenSaleEvents, FrozenChangeEvents
    <2>2. OfDay(t, 8) = {"table", "rls", "ids"}
      BY Files, Features DEF OfDay
    <2> QED
      BY <2>1, <2>2
  <1>3. ASSUME NEW t \in {"signal"} \cup StagingParents PROVE Frozen(t) = OfDay(t, 8)
    <2>1. Frozen(t) = {"table", "rls"}
      BY DEF Frozen, FrozenSignalHistory, FrozenStagingSaleEvents, FrozenStagingChangeEvents,
             FrozenStagingSignalHistory, StagingParents
    <2>2. OfDay(t, 8) = {"table", "rls"}
      BY Files, Features DEF OfDay
    <2> QED
      BY <2>1, <2>2
  <1> QED
    BY <1>1, <1>2, <1>3 DEF Parents, CanonicalParents

----------------------------------------------------------------------------
(***************************************************************************)
(* The shape of the tables.                                                *)
(***************************************************************************)

\* An upgrade that adds what its revision brought, or makes a table anew from its DDL
\* file, keeps the shape; from 0004 on the retired key has to be gone.
LEMMA Raised ==
    ASSUME SchemaInv, rev \in 0..12, rev' = rev + 1,
           schema' = [t \in Tables |-> schema'[t]],
           \A t \in Tables :
              /\ \/ schema'[t] = schema[t] \cup Brought(t, rev')
                 \/ schema'[t] = (schema[t] \cup Brought(t, rev')) \ {"nnd"}
                 \/ t # "drafts" /\ schema'[t] = Full(t)
              /\ t = "hot" /\ rev' = 4 => "nnd" \notin schema'[t]
    PROVE  SchemaInv'
  <1> SUFFICES ASSUME NEW t \in Tables PROVE Day(t, schema'[t], rev')
    BY DEF SchemaInv
  <1>1. Day(t, schema[t], rev)
    BY DEF SchemaInv
  <1>2. /\ OfDay(t, rev') = OfDay(t, rev) \cup Brought(t, rev')
        /\ Brought(t, rev') \subseteq Full(t) /\ OfDay(t, rev') \subseteq Full(t)
    BY OfDayStep
  <1>3. "nnd" \notin Full(t) /\ (t = "drafts" /\ rev' < 13 => Brought(t, rev') = {})
    BY Origin, Files, Features DEF Brought
  <1>4. OfDay(t, rev') \subseteq schema'[t]
    BY <1>1, <1>2, <1>3 DEF Day
  <1>5. schema'[t] \subseteq Full(t) \cup (IF t = "hot" THEN {"nnd"} ELSE {})
    BY <1>1, <1>2 DEF Day
  <1>6. t = "drafts" /\ rev' < 13 => schema'[t] = {}
    BY <1>1, <1>3 DEF Day
  <1>7. t = "hot" /\ rev' >= 4 => "nnd" \notin schema'[t]
    BY <1>1, <1>2, <1>3 DEF Day
  <1> QED
    BY <1>4, <1>5, <1>6, <1>7 DEF Day

\* A database of its day, table by table.
LEMMA LegacyAt ==
    ASSUME NEW r \in 0..13
    PROVE  /\ Legacy(r) = [t \in Tables |-> Legacy(r)[t]]
           /\ \A t \in Tables :
                 Legacy(r)[t] =
                    OfDay(t, r) \cup (IF t = "hot" /\ r \in 1..3 THEN {"nnd"} ELSE {})
  BY DEF Legacy, OfDay

\* A table whose downgrade takes away all its revision brought, and nothing older, or
\* makes it anew from the DDL of the day before.
Undone(t, features) ==
    \/ \E less : /\ features = schema[t] \ less
                 /\ Brought(t, rev) \subseteq less
                 /\ less \cap (OfDay(t, rev') \cup {"nnd"}) = {}
                 /\ rev = 1 => t = "drafts"
    \/ features = OfDay(t, rev') /\ (t = "hot" => rev = 1)

\* Such a downgrade keeps the shape and takes a database of its day to one of the day
\* before; so does 0004, which brings the retired key back.
LEMMA Lowered ==
    ASSUME SchemaInv, rev \in 1..13, rev' = rev - 1,
           schema' = [t \in Tables |-> schema'[t]],
           \A t \in Tables :
              IF t = "hot" /\ rev = 4
              THEN schema'[t] = (schema[t] \cup {"nnd"}) \ Brought(t, rev)
              ELSE Undone(t, schema'[t])
    PROVE  SchemaInv' /\ (schema = Legacy(rev) => schema' = Legacy(rev'))
  <1>1. ASSUME NEW t \in Tables
        PROVE  /\ Day(t, schema'[t], rev')
               /\ schema[t] = Legacy(rev)[t] => schema'[t] = Legacy(rev')[t]
    <2>1. Day(t, schema[t], rev)
      BY DEF SchemaInv
    <2>2. /\ OfDay(t, rev) = OfDay(t, rev') \cup Brought(t, rev)
          /\ OfDay(t, rev') \cap Brought(t, rev) = {}
          /\ Brought(t, rev) \subseteq Full(t) /\ OfDay(t, rev) \subseteq Full(t)
      BY OfDayStep
    <2>3. "nnd" \notin Full(t) /\ (rev = 13 /\ t = "drafts" => Brought(t, rev) = Full(t))
      BY Origin, Features
    <2>4. /\ Legacy(rev)[t] =
                OfDay(t, rev) \cup (IF t = "hot" /\ rev \in 1..3 THEN {"nnd"} ELSE {})
          /\ Legacy(rev')[t] =
                OfDay(t, rev') \cup (IF t = "hot" /\ rev' \in 1..3 THEN {"nnd"} ELSE {})
      BY LegacyAt
    <2>5. OfDay(t, 0) = {}
      BY Ends
    <2>6. t = "drafts" /\ rev' < 13 => OfDay(t, rev') = {}
      BY Files, Features DEF OfDay
    <2>7. CASE t = "hot" /\ rev = 4
      BY <2>1, <2>2, <2>3, <2>4, <2>7 DEF Day
    <2>8. CASE ~(t = "hot" /\ rev = 4) /\ schema'[t] = OfDay(t, rev') /\ (t = "hot" => rev = 1)
      BY <2>1, <2>2, <2>3, <2>4, <2>5, <2>6, <2>8 DEF Day
    <2>9. ASSUME NEW less, ~(t = "hot" /\ rev = 4), schema'[t] = schema[t] \ less,
                 Brought(t, rev) \subseteq less, less \cap (OfDay(t, rev') \cup {"nnd"}) = {},
                 rev = 1 => t = "drafts"
          PROVE  /\ Day(t, schema'[t], rev')
                 /\ schema[t] = Legacy(rev)[t] => schema'[t] = Legacy(rev')[t]
      <3>1. Day(t, schema'[t], rev')
        BY <2>1, <2>2, <2>3, <2>9 DEF Day
      <3>2. schema[t] = Legacy(rev)[t] => schema'[t] = Legacy(rev')[t]
        BY <2>1, <2>2, <2>3, <2>4, <2>9 DEF Day
      <3> QED
        BY <3>1, <3>2
    <2> QED
      BY <2>7, <2>8, <2>9 DEF Undone
  <1> QED
    BY <1>1, LegacyAt DEF SchemaInv

Upgrade ==
    \/ Upgrade0001 \/ Upgrade0002 \/ Upgrade0003 \/ Upgrade0004 \/ Upgrade0005
    \/ Upgrade0006 \/ Upgrade0007 \/ Upgrade0008 \/ Upgrade0009 \/ Upgrade0010
    \/ Upgrade0011 \/ Upgrade0012 \/ Upgrade0013

Downgrade ==
    \/ Downgrade0001 \/ Downgrade0002 \/ Downgrade0003 \/ Downgrade0004 \/ Downgrade0005
    \/ Downgrade0006 \/ Downgrade0007 \/ Downgrade0008 \/ Downgrade0009 \/ Downgrade0010
    \/ Downgrade0011 \/ Downgrade0012 \/ Downgrade0013

\* Every upgrade keeps the shape.
LEMMA UpgradeShape ==
    ASSUME SchemaInv, Upgrade
    PROVE  SchemaInv' /\ rev' > rev
  <1>a. schema = [t \in Tables |-> schema[t]]
    BY DEF SchemaInv
  <1>1. CASE Upgrade0001
    <2>0. Brought("drafts", 1) = {}
      BY Files, Features DEF Brought
    <2>1. rev = 0 /\ rev' = 1 /\ schema' = [t \in Tables |-> schema'[t]]
      BY <1>a, <1>1 DEF Upgrade0001, Step
    <2>2. \A t \in Tables : schema'[t] = IF t # "drafts" THEN Full(t)
                                         ELSE schema[t] \cup Brought(t, 1)
      BY <1>a, <1>1, Origin, <2>0 DEF Upgrade0001
    <2> QED
      BY <2>1, <2>2, Raised
  <1>2. CASE Upgrade0002
    <2>1. rev = 1 /\ rev' = 2 /\ schema' = [t \in Tables |-> schema'[t]]
      BY <1>a, <1>2 DEF Upgrade0002, Step
    <2>2. \A t \in Tables : schema'[t] = schema[t] \cup Brought(t, 2)
      BY <1>a, <1>2, Origin DEF Upgrade0002
    <2> QED
      BY <2>1, <2>2, Raised
  <1>3. CASE Upgrade0003
    <2>1. rev = 2 /\ rev' = 3 /\ schema' = [t \in Tables |-> schema'[t]]
      BY <1>a, <1>3 DEF Upgrade0003, Step
    <2>2. \A t \in Tables : schema'[t] = schema[t] \cup Brought(t, 3)
      BY <1>a, <1>3, Origin DEF Upgrade0003
    <2> QED
      BY <2>1, <2>2, Raised
  <1>4. CASE Upgrade0004
    <2>1. rev = 3 /\ rev' = 4 /\ schema' = [t \in Tables |-> schema'[t]]
      BY <1>a, <1>4 DEF Upgrade0004, Step, Rekeyed
    <2>2. \A t \in Tables : schema'[t] = IF t = "hot"
                                       THEN (schema[t] \cup Brought(t, 4)) \ {"nnd"}
                                       ELSE schema[t] \cup Brought(t, 4)
      BY <1>a, <1>4, Origin DEF Upgrade0004, Rekeyed
    <2> QED
      BY <2>1, <2>2, Raised
  <1>5. CASE Upgrade0005
    <2>1. rev = 4 /\ rev' = 5 /\ schema' = [t \in Tables |-> schema'[t]]
      BY <1>a, <1>5 DEF Upgrade0005, Step, TemplateGrain
    <2>2. \A t \in Tables : schema'[t] = schema[t] \cup Brought(t, 5)
      BY <1>a, <1>5, Origin DEF Upgrade0005, TemplateGrain
    <2> QED
      BY <2>1, <2>2, Raised
  <1>6. CASE Upgrade0006
    <2>1. rev = 5 /\ rev' = 6 /\ schema' = [t \in Tables |-> schema'[t]]
      BY <1>a, <1>6 DEF Upgrade0006, Step, With
    <2>2. \A t \in Tables : schema'[t] = schema[t] \cup Brought(t, 6)
      BY <1>a, <1>6, Origin DEF Upgrade0006, With
    <2> QED
      BY <2>1, <2>2, Raised
  <1>7. CASE Upgrade0007
    <2>1. rev = 6 /\ rev' = 7 /\ schema' = [t \in Tables |-> schema'[t]]
      BY <1>a, <1>7 DEF Upgrade0007, Step
    <2>2. \A t \in Tables : schema'[t] = IF t = "audit" THEN Full(t)
                                         ELSE schema[t] \cup Brought(t, 7)
      BY <1>a, <1>7, Origin DEF Upgrade0007
    <2> QED
      BY <2>1, <2>2, Raised
  <1>8. CASE Upgrade0008
    <2>1. rev = 7 /\ rev' = 8 /\ schema' = [t \in Tables |-> schema'[t]]
      BY <1>a, <1>8 DEF Upgrade0008, Step, With
    <2>2. \A t \in Tables : schema'[t] = schema[t] \cup Brought(t, 8)
      BY <1>a, <1>8, Origin DEF Upgrade0008, With
    <2> QED
      BY <2>1, <2>2, Raised
  <1>9. CASE Upgrade0009
    <2>1. rev = 8 /\ rev' = 9 /\ schema' = [t \in Tables |-> schema'[t]]
      BY <1>a, <1>9 DEF Upgrade0009, Step
    <2>2. \A t \in Tables : schema'[t] = IF t \in Parents THEN Full(t)
                                         ELSE schema[t] \cup Brought(t, 9)
      BY <1>a, <1>9, Origin DEF Upgrade0009
    <2> QED
      BY <2>1, <2>2, Raised DEF Parents, CanonicalParents, StagingParents
  <1>10. CASE Upgrade0010
    <2>1. rev = 9 /\ rev' = 10 /\ schema' = [t \in Tables |-> schema'[t]]
      BY <1>a, <1>10 DEF Upgrade0010, Step, With
    <2>2. \A t \in Tables : schema'[t] = schema[t] \cup Brought(t, 10)
      BY <1>a, <1>10, Origin DEF Upgrade0010, With
    <2> QED
      BY <2>1, <2>2, Raised
  <1>11. CASE Upgrade0011
    <2>1. rev = 10 /\ rev' = 11 /\ schema' = [t \in Tables |-> schema'[t]]
      BY <1>a, <1>11 DEF Upgrade0011, Step, IsolationTables, TenantTables
    <2>2. \A t \in Tables : schema'[t] = schema[t] \cup Brought(t, 11)
      BY <1>a, <1>11, Origin DEF Upgrade0011, IsolationTables, TenantTables
    <2> QED
      BY <2>1, <2>2, Raised
  <1>12. CASE Upgrade0012
    <2>1. rev = 11 /\ rev' = 12 /\ schema' = [t \in Tables |-> schema'[t]]
      BY <1>a, <1>12 DEF Upgrade0012, Step, With
    <2>2. \A t \in Tables : schema'[t] = schema[t] \cup Brought(t, 12)
      BY <1>a, <1>12, Origin DEF Upgrade0012, With
    <2> QED
      BY <2>1, <2>2, Raised
  <1>13. CASE Upgrade0013
    <2>1. rev = 12 /\ rev' = 13 /\ schema' = [t \in Tables |-> schema'[t]]
      BY <1>a, <1>13 DEF Upgrade0013, Step, With
    <2>2. \A t \in Tables : schema'[t] = schema[t] \cup Brought(t, 13)
      BY <1>a, <1>13, Origin DEF Upgrade0013, With
    <2> QED
      BY <2>1, <2>2, Raised
  <1> QED
    BY <1>1, <1>2, <1>3, <1>4, <1>5, <1>6, <1>7, <1>8, <1>9, <1>10, <1>11, <1>12,
       <1>13
       DEF Upgrade

\* The two-GUC policy is younger than revision 10.
LEMMA PlatformIsLate ==
    ASSUME NEW t \in Tables, NEW r \in 0..10
    PROVE  "platform" \notin OfDay(t, r)
  <1>1. "platform" \in Full(t) => DdlFile(t)["platform"] = 11
    BY Files, Features DEF Tables, TenantTables, Parents, CanonicalParents, StagingParents
  <1> QED
    BY <1>1 DEF OfDay

\* Taking away what the revision brought, or the policy with it, undoes it.
LEMMA TakenAway ==
    ASSUME NEW t \in Tables, rev \in 2..13, rev' = rev - 1,
           \/ schema'[t] = schema[t] \ Brought(t, rev)
           \/ rev <= 11 /\ schema'[t] = schema[t] \ (Brought(t, rev) \cup {"platform"})
    PROVE  Undone(t, schema'[t])
  <1>1. OfDay(t, rev') \cap Brought(t, rev) = {} /\ "nnd" \notin Brought(t, rev)
    BY OfDayStep, Origin
  <1>2. rev <= 11 => "platform" \notin OfDay(t, rev')
    BY PlatformIsLate
  <1>3. Brought(t, rev) \cap (OfDay(t, rev') \cup {"nnd"}) = {}
    BY <1>1
  <1>4. rev <= 11 => (Brought(t, rev) \cup {"platform"}) \cap (OfDay(t, rev') \cup {"nnd"}) = {}
    BY <1>2, <1>3
  <1>5. CASE schema'[t] = schema[t] \ Brought(t, rev)
    BY <1>3, <1>5 DEF Undone
  <1>6. CASE rev <= 11 /\ schema'[t] = schema[t] \ (Brought(t, rev) \cup {"platform"})
    <2>1. /\ Brought(t, rev) \subseteq Brought(t, rev) \cup {"platform"}
          /\ rev = 1 => t = "drafts"
      OBVIOUS
    <2> QED
      BY <1>4, <1>6, <2>1 DEF Undone
  <1> QED
    BY <1>5, <1>6

\* Every downgrade keeps the shape and undoes its upgrade.
LEMMA DowngradeShape ==
    ASSUME SchemaInv, Downgrade
    PROVE  /\ SchemaInv' /\ rev' < rev
           /\ schema = Legacy(rev) => schema' = Legacy(rev')
  <1>a. schema = [t \in Tables |-> schema[t]]
    BY DEF SchemaInv
  <1>1. CASE Downgrade0001
    <2>1. rev = 1 /\ rev' = 0 /\ schema' = [t \in Tables |-> schema'[t]]
      BY <1>a, <1>1 DEF Downgrade0001, Step
    <2>2. \A t \in Tables : schema'[t] = IF t = "drafts" THEN schema[t] ELSE OfDay(t, 0)
      BY <1>a, <1>1, Ends DEF Downgrade0001
    <2>3. ASSUME NEW t \in Tables, ~(t = "hot" /\ rev = 4) PROVE Undone(t, schema'[t])
      BY <2>1, <2>2, <2>3, TakenAway, Ends, Files, Features DEF Undone, Brought
    <2> QED
      BY <2>1, <2>2, <2>3, Lowered
  <1>2. CASE Downgrade0002
    <2>1. rev = 2 /\ rev' = 1 /\ schema' = [t \in Tables |-> schema'[t]]
      BY <1>a, <1>2 DEF Downgrade0002, Step
    <2>2. \A t \in Tables : schema'[t] = schema[t] \ Brought(t, 2)
      BY <1>a, <1>2, Origin DEF Downgrade0002
    <2>3. ASSUME NEW t \in Tables, ~(t = "hot" /\ rev = 4) PROVE Undone(t, schema'[t])
      BY <2>1, <2>2, <2>3, TakenAway DEF Undone
    <2> QED
      BY <2>1, <2>2, <2>3, Lowered
  <1>3. CASE Downgrade0003
    <2>1. rev = 3 /\ rev' = 2 /\ schema' = [t \in Tables |-> schema'[t]]
      BY <1>a, <1>3 DEF Downgrade0003, Step
    <2>2. \A t \in Tables : schema'[t] = schema[t] \ Brought(t, 3)
      BY <1>a, <1>3, Origin DEF Downgrade0003
    <2>3. ASSUME NEW t \in Tables, ~(t = "hot" /\ rev = 4) PROVE Undone(t, schema'[t])
      BY <2>1, <2>2, <2>3, TakenAway DEF Undone
    <2> QED
      BY <2>1, <2>2, <2>3, Lowered
  <1>4. CASE Downgrade0004
    <2>1. rev = 4 /\ rev' = 3 /\ schema' = [t \in Tables |-> schema'[t]]
      BY <1>a, <1>4 DEF Downgrade0004, Step
    <2>2. \A t \in Tables : schema'[t] = IF t = "hot"
                                       THEN (schema[t] \cup {"nnd"}) \ Brought(t, 4)
                                       ELSE schema[t] \ Brought(t, 4)
      BY <1>a, <1>4, Origin DEF Downgrade0004
    <2>3. ASSUME NEW t \in Tables, ~(t = "hot" /\ rev = 4) PROVE Undone(t, schema'[t])
      BY <2>1, <2>2, <2>3, TakenAway DEF Undone
    <2> QED
      BY <2>1, <2>2, <2>3, Lowered
  <1>5. CASE Downgrade0005
    <2>1. rev = 5 /\ rev' = 4 /\ schema' = [t \in Tables |-> schema'[t]]
      BY <1>a, <1>5 DEF Downgrade0005, Step, Without
    <2>2. \A t \in Tables : schema'[t] = IF t = "mappings"
                                       THEN schema[t] \ (Brought(t, 5) \cup {"platform"})
                                       ELSE schema[t] \ Brought(t, 5)
      BY <1>a, <1>5, Origin DEF Downgrade0005, Without, TenantTables
    <2>3. ASSUME NEW t \in Tables, ~(t = "hot" /\ rev = 4) PROVE Undone(t, schema'[t])
      BY <2>1, <2>2, <2>3, TakenAway DEF Undone
    <2> QED
      BY <2>1, <2>2, <2>3, Lowered
  <1>6. CASE Downgrade0006
    <2>1. rev = 6 /\ rev' = 5 /\ schema' = [t \in Tables |-> schema'[t]]
      BY <1>a, <1>6 DEF Downgrade0006, Step, Without
    <2>2. \A t \in Tables : schema'[t] = schema[t] \ Brought(t, 6)
      BY <1>a, <1>6, Origin DEF Downgrade0006, Without
    <2>3. ASSUME NEW t \in Tables, ~(t = "hot" /\ rev = 4) PROVE Undone(t, schema'[t])
      BY <2>1, <2>2, <2>3, TakenAway DEF Undone
    <2> QED
      BY <2>1, <2>2, <2>3, Lowered
  <1>7. CASE Downgrade0007
    <2>1. rev = 7 /\ rev' = 6 /\ schema' = [t \in Tables |-> schema'[t]]
      BY <1>a, <1>7 DEF Downgrade0007, Step
    <2>2. \A t \in Tables : schema'[t] = IF t = "audit" THEN OfDay(t, 6)
                                         ELSE schema[t] \ Brought(t, 7)
      BY <1>a, <1>7, Origin, FrozenIsOfDay DEF Downgrade0007
    <2>3. ASSUME NEW t \in Tables, ~(t = "hot" /\ rev = 4) PROVE Undone(t, schema'[t])
      BY <2>1, <2>2, <2>3, TakenAway DEF Undone
    <2> QED
      BY <2>1, <2>2, <2>3, Lowered
  <1>8. CASE Downgrade0008
    <2>1. rev = 8 /\ rev' = 7 /\ schema' = [t \in Tables |-> schema'[t]]
      BY <1>a, <1>8 DEF Downgrade0008, Step, Without
    <2>2. \A t \in Tables : schema'[t] = schema[t] \ Brought(t, 8)
      BY <1>a, <1>8, Origin DEF Downgrade0008, Without
    <2>3. ASSUME NEW t \in Tables, ~(t = "hot" /\ rev = 4) PROVE Undone(t, schema'[t])
      BY <2>1, <2>2, <2>3, TakenAway DEF Undone
    <2> QED
      BY <2>1, <2>2, <2>3, Lowered
  <1>9. CASE Downgrade0009
    <2>1. rev = 9 /\ rev' = 8 /\ schema' = [t \in Tables |-> schema'[t]]
      BY <1>a, <1>9 DEF Downgrade0009, Step
    <2>2. \A t \in Tables : schema'[t] = IF t \in Parents THEN OfDay(t, 8)
                                         ELSE schema[t] \ Brought(t, 9)
      BY <1>a, <1>9, Origin, FrozenIsOfDay DEF Downgrade0009
    <2>3. ASSUME NEW t \in Tables, ~(t = "hot" /\ rev = 4) PROVE Undone(t, schema'[t])
      BY <2>1, <2>2, <2>3, TakenAway DEF Undone, Parents, CanonicalParents, StagingParents
    <2> QED
      BY <2>1, <2>2, <2>3, Lowered
  <1>10. CASE Downgrade0010
    <2>1. rev = 10 /\ rev' = 9 /\ schema' = [t \in Tables |-> schema'[t]]
      BY <1>a, <1>10 DEF Downgrade0010, Step, Without
    <2>2. \A t \in Tables : schema'[t] = schema[t] \ Brought(t, 10)
      BY <1>a, <1>10, Origin DEF Downgrade0010, Without
    <2>3. ASSUME NEW t \in Tables, ~(t = "hot" /\ rev = 4) PROVE Undone(t, schema'[t])
      BY <2>1, <2>2, <2>3, TakenAway DEF Undone
    <2> QED
      BY <2>1, <2>2, <2>3, Lowered
  <1>11. CASE Downgrade0011
    <2>1. rev = 11 /\ rev' = 10 /\ schema' = [t \in Tables |-> schema'[t]]
      BY <1>a, <1>11 DEF Downgrade0011, Step
    <2>2. \A t \in Tables : schema'[t] = schema[t] \ (Brought(t, 11) \cup {"platform"})
      BY <1>a, <1>11, Origin DEF Downgrade0011
    <2>3. ASSUME NEW t \in Tables, ~(t = "hot" /\ rev = 4) PROVE Undone(t, schema'[t])
      BY <2>1, <2>2, <2>3, TakenAway DEF Undone
    <2> QED
      BY <2>1, <2>2, <2>3, Lowered
  <1>12. CASE Downgrade0012
    <2>1. rev = 12 /\ rev' = 11 /\ schema' = [t \in Tables |-> schema'[t]]
      BY <1>a, <1>12 DEF Downgrade0012, Step, Without
    <2>2. \A t \in Tables : schema'[t] = schema[t] \ Brought(t, 12)
      BY <1>a, <1>12, Origin DEF Downgrade0012, Without
    <2>3. ASSUME NEW t \in Tables, ~(t = "hot" /\ rev = 4) PROVE Undone(t, schema'[t])
      BY <2>1, <2>2, <2>3, TakenAway DEF Undone
    <2> QED
      BY <2>1, <2>2, <2>3, Lowered
  <1>13. CASE Downgrade0013
    <2>1. rev = 13 /\ rev' = 12 /\ schema' = [t \in Tables |-> schema'[t]]
      BY <1>a, <1>13 DEF Downgrade0013, Step, Without
    <2>2. \A t \in Tables : schema'[t] = schema[t] \ Brought(t, 13)
      BY <1>a, <1>13, Origin DEF Downgrade0013, Without
    <2>3. ASSUME NEW t \in Tables, ~(t = "hot" /\ rev = 4) PROVE Undone(t, schema'[t])
      BY <2>1, <2>2, <2>3, TakenAway DEF Undone
    <2> QED
      BY <2>1, <2>2, <2>3, Lowered
  <1> QED
    BY <1>1, <1>2, <1>3, <1>4, <1>5, <1>6, <1>7, <1>8, <1>9, <1>10, <1>11, <1>12,
       <1>13
       DEF Downgrade

----------------------------------------------------------------------------
(***************************************************************************)
(* The rows.                                                               *)
(***************************************************************************)
RowsType ==
    rows \in [hot : SUBSET HotKinds, events : BOOLEAN, bronze : BOOLEAN,
              audit : SUBSET AuditKinds, drafts : BOOLEAN,
              templates : [Kinds -> Kinds \cup {"none", "untyped"}]]

\* What a migration does to the rows: all but bootstrap's undoing and 0010 leave
\* positions, bronze rows and templates alone.
LEMMA MigrateRows ==
    ASSUME RowsType, Migrate
    PROVE  /\ RowsType'
           /\ rev' # 0 => rows'.hot = rows.hot /\ rows'.bronze = rows.bronze
           /\ rev' # 0 /\ ~Upgrade0010 /\ ~Downgrade0010 => rows'.templates = rows.templates
           /\ rev' = 0 => rows'.hot = {} /\ rows'.templates = NoTemplates
           /\ Upgrade0010 => \A k \in Kinds : rows'.templates[k] =
                 IF rows.templates[k] = "untyped" THEN Backfill(k) ELSE rows.templates[k]
           /\ Downgrade0010 => \A k \in Kinds : rows'.templates[k] =
                 IF rows.templates[k] = "none" THEN "none" ELSE "untyped"
  <1> USE DEF RowsType, Step
  <1>1. CASE Upgrade0001
    BY <1>1 DEF Upgrade0001, Upgrade0010, Downgrade0010
  <1>2. CASE Upgrade0002
    BY <1>2 DEF Upgrade0002, Upgrade0010, Downgrade0010
  <1>3. CASE Upgrade0003
    BY <1>3 DEF Upgrade0003, Upgrade0010, Downgrade0010
  <1>4. CASE Upgrade0004
    BY <1>4 DEF Upgrade0004, Upgrade0010, Downgrade0010
  <1>5. CASE Upgrade0005
    BY <1>5 DEF Upgrade0005, Upgrade0010, Downgrade0010
  <1>6. CASE Upgrade0006
    BY <1>6 DEF Upgrade0006, Upgrade0010, Downgrade0010
  <1>7. CASE Upgrade0007
    BY <1>7 DEF Upgrade0007, Upgrade0010, Downgrade0010
  <1>8. CASE Upgrade0008
    BY <1>8 DEF Upgrade0008, Upgrade0010, Downgrade0010
  <1>9. CASE Upgrade0009
    <2>1. rev = 8 /\ rev' = 9 /\ rows' = [rows EXCEPT !.events = FALSE]
      BY <1>9 DEF Upgrade0009, Dropped
    <2>2. RowsType'
      BY <2>1, Zenon
    <2> QED
      BY <2>1, <2>2 DEF Upgrade0010, Downgrade0010
  <1>10. CASE Upgrade0010
    BY <1>10 DEF Upgrade0010, Downgrade0010, Backfill, Kinds
  <1>11. CASE Upgrade0011
    BY <1>11 DEF Upgrade0011, Upgrade0010, Downgrade0010
  <1>12. CASE Upgrade0012
    BY <1>12 DEF Upgrade0012, Upgrade0010, Downgrade0010
  <1>13. CASE Upgrade0013
    BY <1>13 DEF Upgrade0013, Upgrade0010, Downgrade0010
  <1>14. CASE Downgrade0001
    <2>1. rev = 1 /\ rev' = 0 /\ rows' = [NoRows EXCEPT !.drafts = rows.drafts]
      BY <1>14 DEF Downgrade0001
    <2>2. RowsType'
      BY <2>1, Zenon DEF NoRows, NoTemplates, Kinds
    <2> QED
      BY <2>1, <2>2 DEF Upgrade0010, Downgrade0010, NoRows
  <1>15. CASE Downgrade0002
    BY <1>15 DEF Downgrade0002, Upgrade0010, Downgrade0010
  <1>16. CASE Downgrade0003
    BY <1>16 DEF Downgrade0003, Upgrade0010, Downgrade0010
  <1>17. CASE Downgrade0004
    BY <1>17 DEF Downgrade0004, Upgrade0010, Downgrade0010
  <1>18. CASE Downgrade0005
    BY <1>18 DEF Downgrade0005, Upgrade0010, Downgrade0010
  <1>19. CASE Downgrade0006
    BY <1>19 DEF Downgrade0006, Upgrade0010, Downgrade0010
  <1>20. CASE Downgrade0007
    BY <1>20 DEF Downgrade0007, Upgrade0010, Downgrade0010
  <1>21. CASE Downgrade0008
    BY <1>21 DEF Downgrade0008, Upgrade0010, Downgrade0010
  <1>22. CASE Downgrade0009
    <2>1. rev = 9 /\ rev' = 8 /\ rows' = [rows EXCEPT !.events = FALSE]
      BY <1>22 DEF Downgrade0009, Dropped
    <2>2. RowsType'
      BY <2>1, Zenon
    <2> QED
      BY <2>1, <2>2 DEF Upgrade0010, Downgrade0010
  <1>23. CASE Downgrade0010
    BY <1>23 DEF Downgrade0010, Upgrade0010
  <1>24. CASE Downgrade0011
    BY <1>24 DEF Downgrade0011, Upgrade0010, Downgrade0010
  <1>25. CASE Downgrade0012
    BY <1>25 DEF Downgrade0012, Upgrade0010, Downgrade0010
  <1>26. CASE Downgrade0013
    <2>1. rev = 13 /\ rev' = 12 /\ rows' = [rows EXCEPT !.drafts = FALSE]
      BY <1>26 DEF Downgrade0013
    <2>2. RowsType'
      BY <2>1, Zenon
    <2> QED
      BY <2>1, <2>2 DEF Upgrade0010, Downgrade0010
  <1> QED
    BY <1>1, <1>2, <1>3, <1>4, <1>5, <1>6, <1>7, <1>8, <1>9, <1>10, <1>11, <1>12,
       <1>13, <1>14, <1>15, <1>16, <1>17, <1>18, <1>19, <1>20, <1>21, <1>22, <1>23,
       <1>24, <1>25, <1>26
       DEF Migrate

\* What a migration does to the key of the hot table: only 0001 and 0004 touch it.
LEMMA MigrateKey ==
    ASSUME SchemaInv, Migrate
    PROVE  \/ rev' = 0
           \/ rev = 0 /\ schema'["hot"] = Full("hot")
           \/ Upgrade0004 \/ Downgrade0004
           \/ rev # 0 /\ \A f \in {"nnd", "arbiter", "checks"} :
                            f \in schema'["hot"] <=> f \in schema["hot"]
  <1>a. schema = [t \in Tables |-> schema[t]] /\ "hot" \in Tables /\ "hot" \notin Parents
    BY DEF SchemaInv, Tables, TenantTables, Parents, CanonicalParents, StagingParents
  <1> USE DEF Step, With, Without
  <1>1. CASE Upgrade0001
    BY <1>a, <1>1 DEF Upgrade0001
  <1>2. CASE Upgrade0002
    BY <1>a, <1>2 DEF Upgrade0002
  <1>3. CASE Upgrade0003
    BY <1>a, <1>3 DEF Upgrade0003
  <1>4. CASE Upgrade0005
    BY <1>a, <1>4 DEF Upgrade0005, TemplateGrain
  <1>5. CASE Upgrade0006
    BY <1>a, <1>5 DEF Upgrade0006
  <1>6. CASE Upgrade0007
    BY <1>a, <1>6 DEF Upgrade0007
  <1>7. CASE Upgrade0008
    BY <1>a, <1>7 DEF Upgrade0008
  <1>8. CASE Upgrade0009
    BY <1>a, <1>8 DEF Upgrade0009
  <1>9. CASE Upgrade0010
    BY <1>a, <1>9 DEF Upgrade0010
  <1>10. CASE Upgrade0011
    BY <1>a, <1>10 DEF Upgrade0011, IsolationTables
  <1>11. CASE Upgrade0012
    BY <1>a, <1>11 DEF Upgrade0012
  <1>12. CASE Upgrade0013
    BY <1>a, <1>12 DEF Upgrade0013
  <1>13. CASE Downgrade0001
    BY <1>a, <1>13 DEF Downgrade0001
  <1>14. CASE Downgrade0002
    BY <1>a, <1>14 DEF Downgrade0002
  <1>15. CASE Downgrade0003
    BY <1>a, <1>15 DEF Downgrade0003
  <1>16. CASE Downgrade0005
    BY <1>a, <1>16 DEF Downgrade0005
  <1>17. CASE Downgrade0006
    BY <1>a, <1>17 DEF Downgrade0006
  <1>18. CASE Downgrade0007
    BY <1>a, <1>18 DEF Downgrade0007
  <1>19. CASE Downgrade0008
    BY <1>a, <1>19 DEF Downgrade0008
  <1>20. CASE Downgrade0009
    BY <1>a, <1>20 DEF Downgrade0009
  <1>21. CASE Downgrade0010
    BY <1>a, <1>21 DEF Downgrade0010
  <1>22. CASE Downgrade0011
    BY <1>a, <1>22 DEF Downgrade0011
  <1>23. CASE Downgrade0012
    BY <1>a, <1>23 DEF Downgrade0012
  <1>24. CASE Downgrade0013
    BY <1>a, <1>24 DEF Downgrade0013
  <1> QED
    BY <1>1, <1>2, <1>3, <1>4, <1>5, <1>6, <1>7, <1>8, <1>9, <1>10, <1>11, <1>12,
       <1>13, <1>14, <1>15, <1>16, <1>17, <1>18, <1>19, <1>20, <1>21, <1>22, <1>23,
       <1>24
       DEF Migrate

\* What a migration does to the stored type: only 0001 and 0010 touch it.
LEMMA MigrateType ==
    ASSUME SchemaInv, Migrate
    PROVE  \/ rev' = 0 \/ rev = 0
           \/ Upgrade0010
           \/ Downgrade0010 /\ "type" \notin schema'["mappings"]
           \/ /\ ~Downgrade0010
              /\ "type" \in schema'["mappings"] <=> "type" \in schema["mappings"]
  <1>a. /\ schema = [t \in Tables |-> schema[t]] /\ "mappings" \in Tables
        /\ "mappings" \notin Parents
    BY DEF SchemaInv, Tables, TenantTables, Parents, CanonicalParents, StagingParents
  <1> USE DEF Step, With, Without
  <1>1. CASE Upgrade0001
    BY <1>a, <1>1 DEF Upgrade0001, Downgrade0010
  <1>2. CASE Upgrade0002
    BY <1>a, <1>2 DEF Upgrade0002, Downgrade0010
  <1>3. CASE Upgrade0003
    BY <1>a, <1>3 DEF Upgrade0003, Downgrade0010
  <1>4. CASE Upgrade0004
    BY <1>a, <1>4 DEF Upgrade0004, Downgrade0010
  <1>5. CASE Upgrade0005
    BY <1>a, <1>5 DEF Upgrade0005, TemplateGrain, Downgrade0010
  <1>6. CASE Upgrade0006
    BY <1>a, <1>6 DEF Upgrade0006, Downgrade0010
  <1>7. CASE Upgrade0007
    BY <1>a, <1>7 DEF Upgrade0007, Downgrade0010
  <1>8. CASE Upgrade0008
    BY <1>a, <1>8 DEF Upgrade0008, Downgrade0010
  <1>9. CASE Upgrade0009
    BY <1>a, <1>9 DEF Upgrade0009, Downgrade0010
  <1>10. CASE Upgrade0010
    BY <1>a, <1>10 DEF Upgrade0010
  <1>11. CASE Upgrade0011
    BY <1>a, <1>11 DEF Upgrade0011, IsolationTables, Downgrade0010
  <1>12. CASE Upgrade0012
    BY <1>a, <1>12 DEF Upgrade0012, Downgrade0010
  <1>13. CASE Upgrade0013
    BY <1>a, <1>13 DEF Upgrade0013, Downgrade0010
  <1>14. CASE Downgrade0001
    BY <1>a, <1>14 DEF Downgrade0001, Downgrade0010
  <1>15. CASE Downgrade0002
    BY <1>a, <1>15 DEF Downgrade0002, Downgrade0010
  <1>16. CASE Downgrade0003
    BY <1>a, <1>16 DEF Downgrade0003, Downgrade0010
  <1>17. CASE Downgrade0004
    BY <1>a, <1>17 DEF Downgrade0004, Downgrade0010
  <1>18. CASE Downgrade0005
    BY <1>a, <1>18 DEF Downgrade0005, Downgrade0010
  <1>19. CASE Downgrade0006
    BY <1>a, <1>19 DEF Downgrade0006, Downgrade0010
  <1>20. CASE Downgrade0007
    BY <1>a, <1>20 DEF Downgrade0007, Downgrade0010
  <1>21. CASE Downgrade0008
    BY <1>a, <1>21 DEF Downgrade0008, Downgrade0010
  <1>22. CASE Downgrade0009
    BY <1>a, <1>22 DEF Downgrade0009, Downgrade0010
  <1>23. CASE Downgrade0010
    BY <1>a, <1>23 DEF Downgrade0010
  <1>24. CASE Downgrade0011
    BY <1>a, <1>24 DEF Downgrade0011, Downgrade0010
  <1>25. CASE Downgrade0012
    BY <1>a, <1>25 DEF Downgrade0012, Downgrade0010
  <1>26. CASE Downgrade0013
    BY <1>a, <1>26 DEF Downgrade0013, Downgrade0010
  <1> QED
    BY <1>1, <1>2, <1>3, <1>4, <1>5, <1>6, <1>7, <1>8, <1>9, <1>10, <1>11, <1>12,
       <1>13, <1>14, <1>15, <1>16, <1>17, <1>18, <1>19, <1>20, <1>21, <1>22, <1>23,
       <1>24, <1>25, <1>26
       DEF Migrate

----------------------------------------------------------------------------
(***************************************************************************)
(* The inductive invariant.                                                *)
(***************************************************************************)

\* A database of any age, still empty.
LEMMA InitIInv == Init => IInv
  <1> SUFFICES ASSUME Init PROVE IInv
    OBVIOUS
  <1>1. rev \in 0..13 /\ schema = Legacy(rev) /\ rows = NoRows
    BY DEF Init, Head
  <1>2. SchemaInv
    <2> SUFFICES ASSUME NEW t \in Tables PROVE Day(t, schema[t], rev)
      BY <1>1, LegacyAt DEF SchemaInv
    <2>1. schema[t] = OfDay(t, rev) \cup (IF t = "hot" /\ rev \in 1..3 THEN {"nnd"} ELSE {})
      BY <1>1, LegacyAt
    <2>2. /\ OfDay(t, rev) \subseteq Full(t) /\ "nnd" \notin Full(t)
          /\ rev = 0 => OfDay(t, rev) = {}
      BY Origin, Ends DEF OfDay
    <2>3. t = "drafts" /\ rev < 13 => OfDay(t, rev) = {}
      BY <1>1, Files, Features DEF OfDay
    <2> QED
      BY <1>1, <2>1, <2>2, <2>3 DEF Day
  <1>3. HotInv
    <2>1. schema["hot"] = OfDay("hot", rev) \cup (IF rev \in 1..3 THEN {"nnd"} ELSE {})
      BY <1>1, LegacyAt DEF Tables, TenantTables
    <2>2. /\ "arbiter" \in OfDay("hot", rev) <=> rev >= 4
          /\ "checks" \in OfDay("hot", rev) <=> rev >= 4
      BY <1>1, Files, Features DEF OfDay
    <2> QED
      BY <1>1, <2>1, <2>2 DEF HotInv, NoRows
  <1>4. TemplateInv /\ RowsInv
    BY <1>1 DEF TemplateInv, RowsInv, NoRows, NoTemplates, Kinds
  <1>5. RowsType
    BY <1>1, Zenon DEF RowsType, NoRows, NoTemplates, HotKinds, AuditKinds
  <1>6. TypeOK
    BY <1>1, <1>2, <1>5 DEF TypeOK, RowsType, SchemaInv, Day, Head
  <1> QED
    BY <1>2, <1>3, <1>4, <1>6 DEF IInv

\* A migration keeps the invariant.
LEMMA MigrateInv ==
    ASSUME IInv, Migrate
    PROVE  IInv'
  <1>1. SchemaInv' /\ rev' \in 0..13
    BY UpgradeShape, DowngradeShape DEF IInv, Migrate, Upgrade, Downgrade, Step,
       Upgrade0001, Upgrade0002, Upgrade0003, Upgrade0004, Upgrade0005, Upgrade0006,
       Upgrade0007, Upgrade0008, Upgrade0009, Upgrade0010, Upgrade0011, Upgrade0012,
       Upgrade0013, Downgrade0001, Downgrade0002, Downgrade0003, Downgrade0004,
       Downgrade0005, Downgrade0006, Downgrade0007, Downgrade0008, Downgrade0009,
       Downgrade0010, Downgrade0011, Downgrade0012, Downgrade0013
  <1>2. RowsType /\ "hot" \in Tables /\ "mappings" \in Tables
    BY DEF IInv, TypeOK, RowsType, Tables, TenantTables
  <1>3. TypeOK'
    BY <1>1, <1>2, MigrateRows DEF TypeOK, RowsType, SchemaInv, Day, Head
  <1>4. RowsInv'
    BY <1>2, MigrateRows DEF RowsInv
  <1>5. HotInv'
    <2>1. CASE rev' = 0
      <3>1. schema'["hot"] = {}
        BY <1>1, <1>2, <2>1 DEF SchemaInv, Day
      <3> QED
        BY <2>1, <3>1 DEF HotInv
    <2>2. rev' # 0 => rows'.hot = rows.hot
      BY <1>2, MigrateRows
    <2>3. CASE rev = 0 /\ rev' # 0 /\ schema'["hot"] = Full("hot")
      BY <2>2, <2>3, Features DEF IInv, HotInv, RowsInv
    <2>4. CASE Upgrade0004
      <3>1. schema'["hot"] = (schema["hot"] \cup {"checks", "arbiter"}) \ {"nnd"}
        BY <1>2, <2>4 DEF Upgrade0004, Rekeyed, IInv, SchemaInv
      <3>2. rev' # 0 /\ ("arbiter" \notin schema["hot"] => "emptyKey" \notin rows.hot)
        BY <2>4 DEF Upgrade0004, Step
      <3> QED
        BY <2>2, <3>1, <3>2 DEF IInv, HotInv
    <2>5. CASE Downgrade0004
      <3>1. schema'["hot"] = (schema["hot"] \cup {"nnd"}) \ {"checks", "arbiter"}
        BY <1>2, <2>5 DEF Downgrade0004, IInv, SchemaInv
      <3> QED
        BY <3>1 DEF HotInv
    <2>6. CASE rev # 0 /\ rev' # 0 /\ \A f \in {"nnd", "arbiter", "checks"} :
                                        f \in schema'["hot"] <=> f \in schema["hot"]
      BY <1>1, <2>2, <2>6 DEF IInv, TypeOK, HotInv, Head
    <2> QED
      BY <2>1, <2>3, <2>4, <2>5, <2>6, MigrateKey DEF IInv
  <1>6. TemplateInv'
    <2>1. CASE rev' = 0
      <3>1. schema'["mappings"] = {} /\ rows'.templates = NoTemplates
        BY <1>1, <1>2, <2>1, MigrateRows DEF SchemaInv, Day
      <3> QED
        BY <3>1 DEF TemplateInv, NoTemplates
    <2>2. CASE rev = 0 /\ rev' # 0
      <3>1. rows'.templates = NoTemplates
        BY <1>2, <2>2, MigrateRows DEF IInv, RowsInv, Upgrade0010, Downgrade0010, Step
      <3> QED
        BY <3>1 DEF TemplateInv, NoTemplates
    <2>3. CASE Upgrade0010
      BY <1>2, <2>3, MigrateRows DEF IInv, TemplateInv, Backfill, Kinds
    <2>4. CASE Downgrade0010 /\ "type" \notin schema'["mappings"]
      BY <1>2, <2>4, MigrateRows DEF TemplateInv
    <2>5. CASE /\ rev' # 0 /\ ~Upgrade0010 /\ ~Downgrade0010
               /\ "type" \in schema'["mappings"] <=> "type" \in schema["mappings"]
      BY <1>2, <2>5, MigrateRows DEF IInv, TemplateInv
    <2> QED
      BY <2>1, <2>2, <2>3, <2>4, <2>5, MigrateType DEF IInv
  <1> QED
    BY <1>1, <1>3, <1>4, <1>5, <1>6 DEF IInv

\* So does a write or a delete between migrations.
LEMMA RowsStep ==
    ASSUME IInv, WriteRows \/ CreateTemplate \/ Resolve
    PROVE  IInv'
  <1>1. rev' = rev /\ schema' = schema
    BY DEF WriteRows, CreateTemplate, Resolve
  <1>2. SchemaInv'
    BY <1>1 DEF IInv, SchemaInv
  <1>3. RowsType
    BY DEF IInv, TypeOK, RowsType
  <1>4. CASE WriteRows
    <2>1. RowsType'
      <3>1. CASE \E k \in HotKinds : rows' = [rows EXCEPT !.hot = @ \cup {k}]
        BY <1>3, <3>1 DEF RowsType
      <3>2. CASE \E k \in AuditKinds : rows' = [rows EXCEPT !.audit = @ \cup {k}]
        BY <1>3, <3>2 DEF RowsType
      <3>3. CASE \/ rows' = [rows EXCEPT !.events = TRUE]
                 \/ rows' = [rows EXCEPT !.bronze = TRUE]
                 \/ rows' = [rows EXCEPT !.drafts = TRUE]
        BY <1>3, <3>3, Zenon DEF RowsType
      <3> QED
        BY <1>4, <3>1, <3>2, <3>3, Zenon DEF WriteRows
    <2>2. /\ rev >= 1 /\ rows'.templates = rows.templates
          /\ rows'.hot # rows.hot =>
                \E k \in HotKinds : Allowed(k) /\ rows'.hot = rows.hot \cup {k}
      BY <1>3, <1>4 DEF WriteRows, RowsType
    <2>3. HotInv'
      BY <1>1, <2>2 DEF IInv, HotInv, Allowed, HotKinds
    <2> QED
      BY <1>1, <1>2, <2>1, <2>2, <2>3 DEF IInv, TypeOK, RowsType, TemplateInv, RowsInv
  <1>5. CASE CreateTemplate
    <2>1. PICK k \in Kinds :
             rows' = [rows EXCEPT !.templates[k] =
                        IF "type" \in schema["mappings"] THEN k ELSE "untyped"]
      BY <1>5 DEF CreateTemplate
    <2>2. RowsType' /\ rev >= 1
      BY <1>3, <1>5, <2>1 DEF CreateTemplate, RowsType
    <2>3. HotInv'
      BY <1>1, <1>3, <2>1 DEF IInv, HotInv, RowsType
    <2>4. TemplateInv'
      BY <1>1, <1>3, <2>1 DEF IInv, TemplateInv, RowsType, Kinds
    <2> QED
      BY <1>1, <1>2, <2>2, <2>3, <2>4 DEF IInv, TypeOK, RowsType, RowsInv
  <1>6. CASE Resolve
    <2>1. RowsType'
      <3>1. CASE \/ \E k \in rows.hot : rows' = [rows EXCEPT !.hot = @ \ {k}]
                 \/ \E k \in rows.audit : rows' = [rows EXCEPT !.audit = @ \ {k}]
        BY <1>3, <3>1 DEF RowsType
      <3>2. CASE rows' = [rows EXCEPT !.events = FALSE]
        BY <1>3, <3>2, Zenon DEF RowsType
      <3>3. CASE \E k \in Templates : rows' = [rows EXCEPT !.templates[k] = "none"]
        BY <1>3, <3>3 DEF RowsType
      <3> QED
        BY <1>6, <3>1, <3>2, <3>3, Zenon DEF Resolve
    <2>2. /\ rows'.hot \subseteq rows.hot
          /\ \A k \in Kinds : rows'.templates[k] \in {rows.templates[k], "none"}
      BY <1>3, <1>6 DEF Resolve, RowsType
    <2>3. HotInv'
      BY <1>1, <2>2 DEF IInv, HotInv
    <2>4. TemplateInv'
      BY <1>1, <2>2 DEF IInv, TemplateInv
    <2>5. RowsInv'
      BY <1>1, <1>3, <2>1, <2>2 DEF IInv, RowsInv, RowsType, NoTemplates
    <2> QED
      BY <1>1, <1>2, <2>1, <2>3, <2>4, <2>5 DEF IInv, TypeOK, RowsType
  <1> QED
    BY <1>4, <1>5, <1>6

\* Every step keeps the invariant.
LEMMA NextIInv == IInv /\ [Next]_vars => IInv'
  <1>1. ASSUME IInv, UNCHANGED vars PROVE IInv'
    BY <1>1 DEF vars, IInv, TypeOK, SchemaInv, HotInv, TemplateInv, RowsInv
  <1> QED
    BY <1>1, MigrateInv, RowsStep DEF Next

\* The invariant holds in every reachable state.
LEMMA Invariance == Spec => []IInv
  BY InitIInv, NextIInv, PTL DEF Spec

----------------------------------------------------------------------------
(***************************************************************************)
(* The properties.                                                         *)
(***************************************************************************)

\* Every variable keeps its type.
THEOREM TypeCorrect == Spec => []TypeOK
  <1>1. IInv => TypeOK
    BY DEF IInv
  <1> QED
    BY <1>1, Invariance, PTL

\* At head a database has the one shape the DDL files declare, whatever its age and
\* however often it has been down and up again ("fresh == migrated").
THEOREM FreshIsMigrated == Spec => []HeadIsOneShape
  <1>1. ASSUME IInv, rev = 13 PROVE schema = Legacy(13)
    <2>1. ASSUME NEW t \in Tables PROVE schema[t] = Legacy(13)[t]
      <3>1. OfDay(t, 13) = Full(t)
        BY Ends
      <3>2. Legacy(13)[t] = OfDay(t, 13) \cup (IF t = "hot" /\ 13 \in 1..3 THEN {"nnd"} ELSE {})
        BY LegacyAt
      <3>3. Legacy(13)[t] = Full(t)
        BY <3>1, <3>2
      <3>4. schema[t] = Full(t)
        BY <1>1, <3>1 DEF IInv, SchemaInv, Day
      <3> QED
        BY <3>3, <3>4
    <2>2. schema = [t \in Tables |-> schema[t]]
      BY <1>1 DEF IInv, SchemaInv
    <2> QED
      BY <2>1, <2>2, LegacyAt
  <1>2. IInv => HeadIsOneShape
    BY <1>1 DEF HeadIsOneShape, Head
  <1> QED
    BY <1>2, Invariance, PTL

\* The hot table has a uniqueness key at every revision, and no empty key segment where
\* COALESCE decides uniqueness (0004: "no uniqueness gap at any moment").
THEOREM NoUniquenessGap == Spec => []KeyNeverGapped
  <1>1. IInv => KeyNeverGapped
    BY DEF IInv, HotInv, KeyNeverGapped
  <1> QED
    BY <1>1, Invariance, PTL

\* Row security is on for every tenant table from the revision that brought it, through
\* every table that is dropped and created again.
THEOREM AlwaysIsolated == Spec => []IsolationOn
  <1>1. ASSUME IInv PROVE IsolationOn
    <2>1. TenantTables \subseteq Tables /\ "mappings" \in TenantTables
      BY DEF Tables, TenantTables
    <2>2. rev \in 0..13 /\ \A t \in Tables : OfDay(t, rev) \subseteq schema[t]
      BY <1>1 DEF IInv, TypeOK, SchemaInv, Day, Head
    <2>3. ASSUME NEW t \in TenantTables \ {"mappings"}
          PROVE  rev >= 1 => "rls" \in OfDay(t, rev)
      BY <2>2, Files, Features
         DEF OfDay, TenantTables, Parents, CanonicalParents, StagingParents
    <2>4. rev >= 5 => "rls" \in OfDay("mappings", rev)
      BY <2>2, Files, Features DEF OfDay
    <2>5. ASSUME NEW t \in TenantTables PROVE rev >= 11 => "platform" \in OfDay(t, rev)
      BY <2>2, Files, Features
         DEF OfDay, TenantTables, Parents, CanonicalParents, StagingParents
    <2> QED
      BY <2>1, <2>2, <2>3, <2>4, <2>5 DEF IsolationOn
  <1> QED
    BY <1>1, Invariance, PTL

\* Where template_type is stored it is the one the rules show, but for a snapshot that a
\* round trip through 0010 turned into sales.
THEOREM TypesFollowRules == Spec => []TypeMatchesRules
  <1>1. IInv => TypeMatchesRules
    BY DEF IInv, TemplateInv, TypeMatchesRules, Templates
  <1> QED
    BY <1>1, Invariance, PTL

\* A downgrade takes a database of its day to one of the day before.
THEOREM DowngradeUndoes == Spec => DowngradeRestores
  <1>1. ASSUME IInv, [Next]_vars
        PROVE  [rev' < rev /\ schema = Legacy(rev) => schema' = Legacy(rev')]_vars
    <2>1. CASE Upgrade
      BY <1>1, <2>1, UpgradeShape, MigrateInv
         DEF IInv, TypeOK, Head, Migrate, Upgrade
    <2>2. CASE Downgrade
      BY <1>1, <2>2, DowngradeShape DEF IInv
    <2>3. CASE WriteRows \/ CreateTemplate \/ Resolve
      BY <1>1, <2>3 DEF WriteRows, CreateTemplate, Resolve, IInv, TypeOK, Head
    <2> QED
      BY <1>1, <2>1, <2>2, <2>3 DEF Next, Migrate, Upgrade, Downgrade
  <1> QED
    BY <1>1, Invariance, PTL DEF Spec, DowngradeRestores

\* But for the undoing of bootstrap, no migration loses a position, a bronze row or a
\* template.
THEOREM NothingElseGoes == Spec => OnlyDisposableRowsGo
  <1>1. ASSUME IInv, [Next]_vars
        PROVE  [rev' # rev /\ rev' # 0 =>
                  /\ rows'.hot = rows.hot /\ rows'.bronze = rows.bronze
                  /\ \A k \in Kinds :
                        rows.templates[k] # "none" => rows'.templates[k] # "none"]_vars
    <2>1. CASE Migrate
      BY <1>1, <2>1, MigrateRows DEF IInv, TypeOK, RowsType, Backfill
    <2>2. CASE WriteRows \/ CreateTemplate \/ Resolve
      BY <2>2 DEF WriteRows, CreateTemplate, Resolve
    <2> QED
      BY <1>1, <2>1, <2>2 DEF Next
  <1> QED
    BY <1>1, Invariance, PTL DEF Spec, OnlyDisposableRowsGo
=============================================================================
