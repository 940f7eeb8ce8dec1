------------------------- MODULE MappingEngineProofs -------------------------
(***************************************************************************)
(* The gate, the loader and the stages of the engine for every request,    *)
(* every document the gate accepts, op lists of any length and chunks of   *)
(* any size.                                                               *)
(*                                                                         *)
(* First the pure part: the gate of one service against the loader of the  *)
(* other, and what a list of ops does to a cell, by induction over the     *)
(* list.  Then the stages: a cell of the frame is followed from the cell   *)
(* of the source it came from.                                             *)
(***************************************************************************)
EXTENDS MappingEngine, WellFoundedInduction, FiniteSetTheorems, TLAPS

\* Induction over the naturals, for the set of those that have the property.
LEMMA NatSetInduction ==
    ASSUME NEW S, 0 \in S, \A n \in Nat : n \in S => n + 1 \in S
    PROVE  Nat \subseteq S
<1> SUFFICES ASSUME Nat \ S # {}
             PROVE  FALSE
  OBVIOUS
<1>1. PICK m \in Nat \ S : \A y \in Nat \ S : ~ (<<y, m>> \in OpToRel(<, Nat))
  BY WFMin, NatLessThanWellFounded, Zenon
<1>2. ASSUME NEW y \in Nat \ S
      PROVE  ~ (y < m)
  <2>1. y < m => <<y, m>> \in OpToRel(<, Nat)
    BY Zenon DEF OpToRel
  <2> QED
    BY <1>1, <2>1, Zenon
<1>3. m - 1 \in Nat
  OBVIOUS
<1>4. m - 1 \in S
  BY <1>2, <1>3
<1> QED
  BY <1>3, <1>4

----------------------------------------------------------------------------
(***************************************************************************)
(* A list of ops on one cell.                                              *)
(***************************************************************************)
\* A list has positions 1 to its length.
LEMMA ListShape ==
    ASSUME NEW ops, IsList(ops)
    PROVE  Len(ops) \in Nat /\ DOMAIN ops = 1 .. Len(ops)
<1>1. ops \in Seq(Range(ops))
  BY DEF IsList
<1> QED
  BY <1>1

\* The values of a cell along its list: the recursion of After has a solution.
LEMMA AfterIs ==
    ASSUME NEW ops, IsList(ops), NEW v
    PROVE  /\ After(ops, v)[0] = v
           /\ \A k \in 1 .. Len(ops) :
                 After(ops, v)[k] = OpValue(ops[k], After(ops, v)[k - 1])
<1> DEFINE Body(n, f) == [k \in 0 .. n |-> IF k = 0 THEN v ELSE OpValue(ops[k], f[k - 1])]
           Good == {n \in Nat : \E f : f = Body(n, f)}
<1>1. 0 \in Good
  <2>1. [k \in 0 .. 0 |-> v] = Body(0, [k \in 0 .. 0 |-> v])
    OBVIOUS
  <2> QED
    BY <2>1
<1>2. ASSUME NEW n \in Nat, n \in Good
      PROVE  n + 1 \in Good
  <2>1. PICK f : f = Body(n, f)
    BY <1>2
  <2> DEFINE g == [k \in 0 .. n + 1 |-> IF k <= n THEN f[k] ELSE OpValue(ops[n + 1], f[n])]
  <2>2. ASSUME NEW k \in 0 .. n + 1
        PROVE  g[k] = IF k = 0 THEN v ELSE OpValue(ops[k], g[k - 1])
    <3>1. CASE k = 0
      BY <2>1, <3>1
    <3>2. CASE k \in 1 .. n
      BY <2>1, <3>2
    <3>3. CASE k = n + 1
      BY <3>3
    <3> QED
      BY <3>1, <3>2, <3>3
  <2>3. g = Body(n + 1, g)
    BY <2>2
  <2> HIDE DEF g
  <2> HIDE DEF Body
  <2>4. \E h : h = Body(n + 1, h)
    BY <2>3
  <2> QED
    BY <2>4
<1>3. Len(ops) \in Good
  <2> HIDE DEF Good
  <2> QED
    BY <1>1, <1>2, NatSetInduction, ListShape
<1> DEFINE a == CHOOSE f : f = Body(Len(ops), f)
<1>4. a = Body(Len(ops), a)
  BY <1>3
<1>5. After(ops, v) = a
  BY DEF After
<1> HIDE DEF a
<1> QED
  BY <1>4, <1>5

\* An op that fails was given a value and leaves none.
LEMMA FailNulls ==
    ASSUME NEW spec, NEW v, OpFails(spec, v)
    PROVE  v # Null /\ OpValue(spec, v) = Null
  BY DEF OpFails, OpValue, Null, ParseOps

\* Every op passes null.
LEMMA NullPasses ==
    ASSUME NEW spec
    PROVE  OpValue(spec, Null) = Null
  BY DEF OpValue, Null

\* An op that leaves none has failed, or was given none, a declared token or a
\* percentage too long to divide.
LEMMA NullHasCause ==
    ASSUME NEW spec, NEW v, OpValue(spec, v) = Null, ~OpFails(spec, v), v # Null
    PROVE  \/ v = "token" /\ spec.op = "null_tokens"
           \/ v = "huge" /\ spec.op = "parse_percent"
  BY DEF OpFails, OpValue, Null, ParseOps

\* No op makes a token, or something too long, of something else.
LEMMA NothingMade ==
    ASSUME NEW spec, NEW v, NEW w \in {"token", "huge"}, OpValue(spec, v) = w
    PROVE  v = w
  BY DEF OpValue, Null, ParseOps


\* Op i of the list refuses the cell.
Refuses(ops, v, i) == i \in DOMAIN ops /\ OpFails(ops[i], After(ops, v)[i - 1])

\* What is null stays null to the end of the list.
LEMMA NullStays ==
    ASSUME NEW ops, IsList(ops), NEW v, NEW j \in 0 .. Len(ops),
           After(ops, v)[j] = Null, NEW k \in j .. Len(ops)
    PROVE  After(ops, v)[k] = Null
<1> DEFINE Good == {n \in Nat : j + n <= Len(ops) => After(ops, v)[j + n] = Null}
<1>1. 0 \in Good
  OBVIOUS
<1>2. ASSUME NEW n \in Nat, n \in Good
      PROVE  n + 1 \in Good
  <2> SUFFICES ASSUME j + (n + 1) <= Len(ops)
               PROVE  After(ops, v)[j + (n + 1)] = Null
    OBVIOUS
  <2>1. After(ops, v)[j + n] = Null
    BY <1>2
  <2>2. j + (n + 1) \in 1 .. Len(ops) /\ (j + (n + 1)) - 1 = j + n
    OBVIOUS
  <2>3. After(ops, v)[j + (n + 1)] = OpValue(ops[j + (n + 1)], Null)
    BY <2>1, <2>2, AfterIs
  <2> QED
    BY <2>3, NullPasses
<1>3. k - j \in Good
  <2> HIDE DEF Good
  <2> QED
    BY <1>1, <1>2, NatSetInduction, ListShape
<1> QED
  BY <1>3

\* A list refuses a cell at most once, leaves no value in a cell it refuses, and
\* never refuses an empty one.
LEMMA RefusedOnce ==
    ASSUME NEW ops, IsList(ops), NEW v, NEW i, Refuses(ops, v, i)
    PROVE  /\ v # Null
           /\ After(ops, v)[Len(ops)] = Null
           /\ \A j : Refuses(ops, v, j) => j = i
<1> DEFINE a == After(ops, v)
<1>1. ASSUME NEW j, Refuses(ops, v, j)
      PROVE  j \in 1 .. Len(ops) /\ a[j - 1] # Null /\ a[j] = Null
  <2>1. j \in 1 .. Len(ops) /\ OpFails(ops[j], a[j - 1])
    BY <1>1, ListShape DEF Refuses
  <2>2. a[j] = OpValue(ops[j], a[j - 1])
    BY <2>1, AfterIs
  <2> QED
    BY <2>1, <2>2, FailNulls
<1>2. ASSUME NEW j \in 0 .. Len(ops), NEW k \in j .. Len(ops), a[j] = Null
      PROVE  a[k] = Null
  BY <1>2, NullStays
<1>3. a[0] = v
  BY AfterIs
<1> HIDE DEF a
<1>4. v # Null /\ a[Len(ops)] = Null
  <2>1. i \in 1 .. Len(ops) /\ a[i - 1] # Null /\ a[i] = Null
    BY <1>1
  <2>2. v = Null => a[i - 1] = Null
    BY <1>2, <1>3, <2>1
  <2> QED
    BY <1>2, <2>1, <2>2
<1>5. ASSUME NEW j, Refuses(ops, v, j)
      PROVE  j = i
  <2>1. i \in 1 .. Len(ops) /\ a[i - 1] # Null /\ a[i] = Null
    BY <1>1
  <2>2. j \in 1 .. Len(ops) /\ a[j - 1] # Null /\ a[j] = Null
    BY <1>1, <1>5
  <2>3. ~ (i < j)
    BY <1>2, <2>1, <2>2
  <2>4. ~ (j < i)
    BY <1>2, <2>1, <2>2
  <2> QED
    BY <2>1, <2>2, <2>3, <2>4
<1> QED
  BY <1>4, <1>5 DEF a

\* What a cell can be that is emptied without a failure.
MayBeEmpty(v, ops) == SaysNothing(v, ops) \/ Undivided(v, ops)

\* A cell that ends empty was refused by some op, or its source said so, or it
\* is a percentage too long to divide.
LEMMA EmptyHasCause ==
    ASSUME NEW ops, IsList(ops), NEW v, After(ops, v)[Len(ops)] = Null,
           \A i : ~Refuses(ops, v, i)
    PROVE  MayBeEmpty(v, ops)
<1> DEFINE a == After(ops, v)
           Good == {n \in Nat : n <= Len(ops) =>
                        /\ a[n] = Null => MayBeEmpty(v, ops)
                        /\ \A w \in {"token", "huge"} : a[n] = w => v = w}
<1>1. a[0] = v /\ \A k \in 1 .. Len(ops) : a[k] = OpValue(ops[k], a[k - 1])
  BY AfterIs
<1>2. \A i \in 1 .. Len(ops) : ~OpFails(ops[i], a[i - 1])
  BY ListShape DEF Refuses
<1> HIDE DEF a
<1>3. 0 \in Good
  BY <1>1 DEF MayBeEmpty, SaysNothing, Undivided
<1>4. ASSUME NEW n \in Nat, n \in Good
      PROVE  n + 1 \in Good
  <2> SUFFICES ASSUME n + 1 <= Len(ops)
               PROVE  /\ a[n + 1] = Null => MayBeEmpty(v, ops)
                      /\ \A w \in {"token", "huge"} : a[n + 1] = w => v = w
    OBVIOUS
  <2> DEFINE i == n + 1
  <2>1. /\ i \in 1 .. Len(ops) /\ i \in DOMAIN ops
        /\ a[i] = OpValue(ops[i], a[n]) /\ ~OpFails(ops[i], a[n])
    BY <1>1, <1>2, ListShape
  <2>2. /\ a[n] = Null => MayBeEmpty(v, ops)
        /\ \A w \in {"token", "huge"} : a[n] = w => v = w
    BY <1>4
  <2> HIDE DEF i
  <2>3. ASSUME a[i] = Null, a[n] # Null
        PROVE  MayBeEmpty(v, ops)
    <3>1. \/ a[n] = "token" /\ ops[i].op = "null_tokens"
          \/ a[n] = "huge" /\ ops[i].op = "parse_percent"
      BY <2>1, <2>3, NullHasCause
    <3> QED
      BY <2>1, <2>2, <3>1 DEF MayBeEmpty, SaysNothing, Undivided
  <2>4. ASSUME NEW w \in {"token", "huge"}, a[i] = w
        PROVE  v = w
    <3>1. a[n] = w
      BY <2>1, <2>4, NothingMade
    <3> QED
      BY <2>2, <3>1
  <2> QED
    BY <2>2, <2>3, <2>4 DEF i
<1>5. Len(ops) \in Good
  <2> HIDE DEF Good
  <2> QED
    BY <1>3, <1>4, NatSetInduction, ListShape
<1> QED
  BY <1>5 DEF a


----------------------------------------------------------------------------
(***************************************************************************)
(* The gate of the UI server against the loader of the consumer.           *)
(***************************************************************************)
\* The targets of an accepted document of an event type fit one event model:
\* each has a mandatory column that the other has not.
LEMMA OneMatch ==
    ASSUME NEW type \in TemplateTypes, NEW d, Accepts(type, d), type # "snapshot"
    PROVE  Matches(d) = {ModelForType[type]}
<1> DEFINE targets == TargetColumns(d)
<1>1. CASE type = "sales"
  <2>1. targets \subseteq SaleColumns
    BY <1>1 DEF Accepts, Legal, ModelForType, MappingProduced
  <2>2. "quantity" \in targets /\ "quantity" \notin ChangeColumns
    BY <1>1 DEF Accepts, Covers, Mandatory, Required, SaleRequired, ModelForType,
                MappingProduced, SaleColumns, ChangeColumns, EnrichmentFields
  <2> QED
    BY <1>1, <2>1, <2>2 DEF Matches, MappingProduced, ModelForType
<1>2. CASE type = "inventory_change"
  <2>1. targets \subseteq ChangeColumns
    BY <1>2 DEF Accepts, Legal, ModelForType, MappingProduced
  <2>2. "event_category" \in targets /\ "event_category" \notin SaleColumns
    BY <1>2 DEF Accepts, Covers, Mandatory, Required, ChangeRequired, ModelForType,
                MappingProduced, SaleColumns, ChangeColumns, EnrichmentFields
  <2> QED
    BY <1>2, <2>1, <2>2 DEF Matches, MappingProduced, ModelForType
<1> QED
  BY <1>1, <1>2 DEF TemplateTypes

\* The loader takes what the gate accepts.
LEMMA AcceptedLoads ==
    ASSUME NEW type \in TemplateTypes, NEW d, Accepts(type, d)
    PROVE  Loads(d, type)
<1>1. Parses(d) /\ DOMAIN d.rename # {}
  BY DEF Accepts
<1>2. ASSUME type # "snapshot"
      PROVE  Cardinality(Matches(d)) = 1
  BY <1>2, OneMatch, FS_Singleton
<1> QED
  BY <1>1, <1>2 DEF Loads

\* The columns a hot row is created with are complete for a snapshot ...
LEMMA SnapshotIsComplete ==
    ASSUME NEW d, Accepts("snapshot", d)
    PROVE  HotComplete(d, "hot")
<1> DEFINE targets == TargetColumns(d)
<1>1. targets \subseteq HotColumns /\ Paired(targets) /\ Mandatory("hot") \subseteq targets
  BY DEF Accepts, Legal, Covers, ModelForType, MappingProduced
<1>2. GuaranteedHot(d, "hot") = targets \cup {"currency", "tax_treatment"}
  BY <1>1, Zenon DEF GuaranteedHot, MappingProduced, EnrichmentFields
<1> HIDE DEF targets
<1>3. Paired(targets \cup {"currency", "tax_treatment"})
  BY <1>1 DEF Paired, PresencePairings, Expiry
<1> QED
  BY <1>1, <1>2, <1>3 DEF HotComplete

\* ... and for no event template: none projects the SKU.
LEMMA EventIsIncomplete ==
    ASSUME NEW d, NEW model \in {"sale", "change"}
    PROVE  ~HotComplete(d, model)
<1>1. "sku_id" \in Mandatory("hot")
  BY DEF Mandatory, Required, HotRequired, MappingProduced, HotColumns, EnrichmentFields
<1>2. CASE model = "sale"
  <2>1. GuaranteedHot(d, "sale") =
            {SaleHotProjection[c] : c \in TargetColumns(d) \cap DOMAIN SaleHotProjection}
    BY Zenon DEF GuaranteedHot
  <2>2. \A c \in DOMAIN SaleHotProjection : SaleHotProjection[c] # "sku_id"
    BY DEF SaleHotProjection
  <2> QED
    BY <1>1, <1>2, <2>1, <2>2 DEF HotComplete
<1>3. CASE model = "change"
  <2>1. \A x \in GuaranteedHot(d, "change") : \E p \in ChangeHotProjection : x = p[2]
    BY Zenon DEF GuaranteedHot
  <2>2. \A p \in ChangeHotProjection : p[2] # "sku_id"
    BY DEF ChangeHotProjection
  <2> QED
    BY <1>1, <1>3, <2>1, <2>2 DEF HotComplete
<1> QED
  BY <1>2, <1>3

\* classify_hot_completeness tells snapshots from events.
LEMMA CompleteIsSnapshot ==
    ASSUME NEW type \in TemplateTypes, NEW d, Accepts(type, d)
    PROVE  HotComplete(d, ModelForType[type]) <=> type = "snapshot"
<1>1. CASE type = "snapshot"
  BY <1>1, SnapshotIsComplete DEF ModelForType
<1>2. CASE type # "snapshot"
  <2>1. ModelForType[type] \in {"sale", "change"}
    BY <1>2 DEF ModelForType, TemplateTypes
  <2> QED
    BY <1>2, <2>1, EventIsIncomplete
<1> QED
  BY <1>1, <1>2


----------------------------------------------------------------------------
(***************************************************************************)
(* The invariant.                                                          *)
(***************************************************************************)
Idle == {"request", "refused", "untranslatable", "server_error"}
Arrived == {"arrived", "shaped", "renamed", "normalized", "cast", "derived", "mapped",
            "validated", "written", "held_rows", "held_chunk", "config_error"}
Running == Arrived \cup {"loaded"}
Framed == {"renamed", "normalized", "cast", "derived", "mapped", "validated"}

OpLists(d) ==
    /\ \A c \in DOMAIN d.normalize : IsList(d.normalize[c])
    /\ \A c \in DOMAIN d.derive : IsList(d.derive[c].ops)

\* The document that is stored, loaded and run is one the gate accepted.
StoredInv ==
    /\ stage \in Idle \cup {"stored"} \cup Running
    /\ request \in Requests
    /\ stage \notin Idle => /\ request.type \in TemplateTypes
                            /\ Accepts(request.type, rules)
                            /\ OpLists(rules)

\* It runs against the model of its type.
LoadedInv ==
    /\ stage \notin Running => loaded = NotLoaded
    /\ stage \in Running => /\ loaded.target = ModelForType[request.type]
                            /\ loaded.hotComplete <=> (request.type = "snapshot")

RulesInv == StoredInv /\ LoadedInv

\* The rows and columns of the frame.
FrameColumns ==
    IF stage \in {"renamed", "normalized", "cast"} THEN RenameTargets(rules)
    ELSE IF stage = "derived" THEN TargetColumns(rules)
    ELSE TargetColumns(rules) \cup EnrichmentFields(loaded.target)
FrameInv ==
    /\ stage \in Arrived => 1 \in DOMAIN cells
    /\ stage \in Framed =>
          /\ DOMAIN frame = DOMAIN cells
          /\ \A r \in DOMAIN cells : DOMAIN frame[r] = FrameColumns

Failed(r, col) == \E f \in failures : f.row = r /\ f.column = col

\* A cell that has been emptied was reported, or may be empty.
Quiet(r, s, c) == frame[r][c] = Null => MayBeEmpty(cells[r][s], OpsOf(c))
Followed(r, s, c) ==
    /\ stage = "renamed" => frame[r][c] = cells[r][s]
    /\ stage \in {"normalized", "cast", "derived"} =>
          /\ Failed(r, c) => frame[r][c] = Null /\ cells[r][s] # Null
          /\ ~Failed(r, c) => Quiet(r, s, c)
          /\ cells[r][s] = Null => frame[r][c] = Null
    /\ stage \in {"mapped", "validated"} => Quiet(r, s, c)
CellInv ==
    stage \in Framed =>
        \A r \in DOMAIN cells, s \in DOMAIN rules.rename, c \in RenameTargets(rules) :
            rules.rename[s] = c => Followed(r, s, c)

\* Nothing is reported before there is a chunk, and up to cast only columns of
\* the source are.
FailInv ==
    /\ stage \notin Arrived => failures = {}
    /\ stage \in {"normalized", "cast"} =>
          \A f \in failures : /\ f.row \in DOMAIN cells
                               /\ f.column \in RenameTargets(rules)
                               /\ f.stage \in {"normalize", "cast"}

\* What the canonical gate has let through has what its model requires.
ValidInv ==
    stage = "validated" =>
        \A r \in DOMAIN frame : \A c \in DOMAIN frame[r] :
            c \in Required[loaded.target] => frame[r][c] # Null

DataInv == /\ FrameInv /\ CellInv /\ FailInv /\ ValidInv
           /\ ReportedOnce /\ WrittenIsWhole

IInv == RulesInv /\ DataInv


----------------------------------------------------------------------------
(***************************************************************************)
(* The way of the document.                                                *)
(***************************************************************************)
\* _normalize_ops returns a list.
LEMMA OpsForIsList ==
    ASSUME NEW column, NEW datatype
    PROVE  IsList(OpsFor(column, datatype))
<1>1. \A spec : IsList(<<spec>>)
  BY DEF IsList, Range
<1>2. IsList(<<>>)
  BY DEF IsList
<1> QED
  BY <1>1, <1>2, Zenon DEF OpsFor

\* A translated document has lists of ops.
LEMMA TranslatedLists ==
    ASSUME NEW model, NEW columns
    PROVE  OpLists(Translate(model, columns))
<1> DEFINE d == Translate(model, columns)
<1>1. d.derive = <<>> /\ DOMAIN d.derive = {}
  BY DEF Translate
<1>2. ASSUME NEW c \in DOMAIN d.normalize
      PROVE  IsList(d.normalize[c])
  <2>1. \E column, datatype : d.normalize[c] = OpsFor(column, datatype)
    BY DEF Translate, Restrict
  <2> QED
    BY <2>1, OpsForIsList
<1> QED
  BY <1>1, <1>2 DEF OpLists

\* Initially there is a request and nothing else.
LEMMA InitIInv ==
    ASSUME Init
    PROVE  IInv
<1>1. stage = "request" /\ stage \notin Running /\ stage \in Idle /\ stage \notin Framed
  BY DEF Init, RulesInit, Running, Arrived, Idle, Framed
<1> QED
  BY <1>1 DEF Init, RulesInit, IInv, RulesInv, StoredInv, LoadedInv, DataInv, FrameInv,
              CellInv, FailInv, ValidInv, ReportedOnce, WrittenIsWhole, Running, Idle

\* What a create stores has passed the gate.
LEMMA CreateTemplateStep ==
    ASSUME RulesInv, CreateTemplate
    PROVE  RulesInv' /\ stage' \notin Running
<1>1. /\ stage = "request" /\ loaded = NotLoaded
      /\ UNCHANGED <<request, loaded>> /\ request \in Requests
  BY DEF CreateTemplate, RulesInv, StoredInv, LoadedInv, Running, Arrived
<1>2. \/ stage' \in Idle
      \/ /\ stage' = "stored" /\ request.type \in TemplateTypes
         /\ rules' = Translate(ModelForType[request.type], request.columns)
         /\ Accepts(request.type, rules')
  BY DEF CreateTemplate, Idle, TranslationError
<1>3. stage' \in Idle \cup {"stored"} => stage' \notin Running
  BY DEF Idle, Running, Arrived
<1>4. stage' \notin Idle => OpLists(rules')
  BY <1>2, TranslatedLists
<1> QED
  BY <1>1, <1>2, <1>3, <1>4 DEF RulesInv, StoredInv, LoadedInv

\* What an edit stores has passed the gate.
LEMMA EditTemplateStep ==
    ASSUME RulesInv, EditTemplate
    PROVE  RulesInv' /\ stage' \notin Running
<1>1. /\ stage = "request" /\ loaded = NotLoaded
      /\ UNCHANGED <<request, loaded>> /\ request \in Requests
  BY DEF EditTemplate, RulesInv, StoredInv, LoadedInv, Running, Arrived
<1>2. \/ stage' \in Idle
      \/ /\ stage' = "stored" /\ rules' = request.rules
         /\ Accepts(request.type, rules')
  BY DEF EditTemplate, Idle
<1>3. request.type \in TemplateTypes /\ OpLists(request.rules)
  BY <1>1, RequestsAssumption DEF EditTemplate, OpLists
<1>4. stage' \in Idle \cup {"stored"} => stage' \notin Running
  BY DEF Idle, Running, Arrived
<1> QED
  BY <1>1, <1>2, <1>3, <1>4 DEF RulesInv, StoredInv, LoadedInv

\* What is stored is loaded, against the model of its type.
LEMMA LoadMappingStep ==
    ASSUME RulesInv, LoadMapping
    PROVE  RulesInv' /\ stage' = "loaded"
<1>1. /\ stage = "stored" /\ UNCHANGED <<request, rules>> /\ request \in Requests
      /\ request.type \in TemplateTypes /\ Accepts(request.type, rules) /\ OpLists(rules)
  BY DEF LoadMapping, RulesInv, StoredInv, Idle
<1>2. Loads(rules, request.type)
  BY <1>1, AcceptedLoads
<1> DEFINE target == IF request.type = "snapshot" THEN "hot"
                     ELSE CHOOSE m \in Matches(rules) : TRUE
<1>3. target = ModelForType[request.type]
  BY <1>1, OneMatch DEF ModelForType
<1>4. /\ stage' = "loaded"
      /\ loaded' = [target |-> target, hotComplete |-> HotComplete(rules, target)]
  BY <1>2 DEF LoadMapping
<1>5. HotComplete(rules, target) <=> request.type = "snapshot"
  BY <1>1, <1>3, CompleteIsSnapshot
<1>6. "loaded" \in Running
  BY DEF Running
<1> HIDE DEF target
<1> QED
  BY <1>1, <1>3, <1>4, <1>5, <1>6 DEF RulesInv, StoredInv, LoadedInv

\* The stages of the chunk change neither the document nor what it was loaded as.
LEMMA ChunkKeepsRules ==
    ASSUME RulesInv, stage \in Running, stage' \in Running,
           UNCHANGED <<request, rules, loaded>>
    PROVE  RulesInv'
<1>1. stage \notin Idle /\ stage' \notin Idle
  BY DEF Idle, Running, Arrived
<1> QED
  BY <1>1 DEF RulesInv, StoredInv, LoadedInv

\* A gate that refuses holds rows or the chunk.
LEMMA HoldIsRunning ==
    ASSUME NEW gate
    PROVE  HoldStage(gate) \in {"held_rows", "held_chunk"}
  BY DEF HoldStage

\* The stages of a chunk keep what is known of its template.
LEMMA ChunkStep ==
    ASSUME RulesInv,
           \/ Arrive \/ PreValidate \/ Rename \/ Normalize \/ Cast \/ Derive
           \/ FinishMapping \/ PostValidate \/ Write
    PROVE  RulesInv' /\ stage \in Running /\ stage' \in Arrived
<1>1. stage \in Running /\ stage' \in Arrived /\ UNCHANGED <<request, rules, loaded>>
  BY HoldIsRunning DEF Arrive, PreValidate, Rename, Normalize, Cast, Derive, FinishMapping,
                       PostValidate, Write, Running, Arrived
<1> QED
  BY <1>1, ChunkKeepsRules DEF Running


----------------------------------------------------------------------------
(***************************************************************************)
(* The way of the chunk.                                                   *)
(***************************************************************************)
\* What SourceMapping guarantees of the document that runs.
LEMMA RunningRules ==
    ASSUME RulesInv, stage \in Running
    PROVE  /\ \A s, t \in DOMAIN rules.rename :
                 rules.rename[s] = rules.rename[t] => s = t
           /\ \A s \in DOMAIN rules.rename : rules.rename[s] \in RenameTargets(rules)
           /\ \A c \in RenameTargets(rules) :
                 \E s \in DOMAIN rules.rename : rules.rename[s] = c
           /\ DOMAIN rules.normalize \subseteq RenameTargets(rules)
           /\ DOMAIN rules.cast \subseteq RenameTargets(rules)
           /\ DOMAIN rules.derive \cap RenameTargets(rules) = {}
           /\ \A c \in DOMAIN rules.derive :
                 rules.derive[c].gen # "constant" => rules.derive[c].src \in RenameTargets(rules)
           /\ OpLists(rules)
           /\ request.type \in TemplateTypes
           /\ Accepts(request.type, rules)
           /\ loaded.target = ModelForType[request.type]
<1>1. stage \notin Idle
  BY DEF Running, Arrived, Idle
<1>2. /\ request.type \in TemplateTypes /\ Accepts(request.type, rules) /\ OpLists(rules)
      /\ loaded.target = ModelForType[request.type]
  BY <1>1 DEF RulesInv, StoredInv, LoadedInv
<1>3. Parses(rules)
  BY <1>2 DEF Accepts
<1>4. \A s, t \in DOMAIN rules.rename : rules.rename[s] = rules.rename[t] => s = t
  BY <1>3 DEF Parses, IsInjective
<1>5. \A c \in DOMAIN rules.derive :
          rules.derive[c].gen # "constant" => rules.derive[c].src \in RenameTargets(rules)
  BY <1>3 DEF Parses, DeriveListValid
<1> QED
  BY <1>2, <1>3, <1>4, <1>5 DEF Parses, RenameTargets, Range

\* A failure of a list: a row, and the op that refuses its cell.
LEMMA InListFailures ==
    ASSUME NEW rows, NEW col, NEW ops, NEW step, NEW offset, NEW f
    PROVE  f \in ListFailures(rows, col, ops, step, offset) <=>
              \E r \in DOMAIN rows : \E k : /\ Refuses(ops, rows[r][col], k)
                                            /\ f = Failure(r, col, step, offset + (k - 1))
  BY DEF ListFailures, Refuses

\* The fields of a failure.
LEMMA FailureFields ==
    ASSUME NEW r, NEW col, NEW step, NEW k
    PROVE  /\ Failure(r, col, step, k).row = r
           /\ Failure(r, col, step, k).column = col
           /\ Failure(r, col, step, k).stage = step
  BY DEF Failure

\* A chunk has a row, and nothing is reported of it yet.
LEMMA ArriveStep ==
    ASSUME IInv, Arrive
    PROVE  DataInv'
<1>1. stage = "loaded" /\ stage' = "arrived" /\ UNCHANGED <<request, rules, loaded, failures>>
  BY DEF Arrive
<1>2. failures = {}
  BY <1>1 DEF IInv, DataInv, FailInv, Arrived
<1>3. 1 \in DOMAIN cells'
  BY BoundsAssumption DEF Arrive
<1>4. stage' \notin Framed /\ stage' \in Arrived
  BY <1>1 DEF Framed, Arrived
<1> QED
  BY <1>1, <1>2, <1>3, <1>4 DEF DataInv, FrameInv, CellInv, FailInv, ValidInv, ReportedOnce,
                                WrittenIsWhole

\* The source gate reports columns, not cells.
LEMMA PreValidateStep ==
    ASSUME IInv, PreValidate
    PROVE  DataInv'
<1>1. /\ stage = "arrived" /\ stage' \in {"shaped", "held_rows", "held_chunk"}
      /\ UNCHANGED <<request, rules, loaded, cells>>
  BY HoldIsRunning DEF PreValidate
<1>2. \A f \in failures' : f.stage = "pre"
  BY FailureFields DEF PreValidate
<1>3. 1 \in DOMAIN cells
  BY <1>1 DEF IInv, DataInv, FrameInv, Arrived
<1>4. stage' \notin Framed /\ stage' \in Arrived
  BY <1>1 DEF Framed, Arrived
<1> QED
  BY <1>1, <1>2, <1>3, <1>4 DEF DataInv, FrameInv, CellInv, FailInv, ValidInv, ReportedOnce,
                                WrittenIsWhole

\* Rename moves every cell to the one column its source is mapped to.
LEMMA RenameStep ==
    ASSUME IInv, Rename
    PROVE  DataInv'
<1>1. /\ stage = "shaped" /\ stage' = "renamed"
      /\ UNCHANGED <<request, rules, loaded, cells, failures>>
      /\ frame' = [r \in DOMAIN cells |-> [c \in RenameTargets(rules) |->
                    cells[r][CHOOSE s \in DOMAIN rules.rename : rules.rename[s] = c]]]
  BY DEF Rename
<1>2. stage \in Running /\ stage \in Arrived /\ stage' \in Framed /\ stage' \in Arrived
  BY <1>1 DEF Running, Arrived, Framed
<1>3. FrameInv'
  <2>1. 1 \in DOMAIN cells
    BY <1>2 DEF IInv, DataInv, FrameInv
  <2> QED
    BY <1>1, <2>1 DEF FrameInv, FrameColumns
<1>4. ASSUME NEW r \in DOMAIN cells, NEW s \in DOMAIN rules.rename
      PROVE  frame'[r][rules.rename[s]] = cells[r][s]
  <2>1. rules.rename[s] \in RenameTargets(rules)
    BY <1>2, RunningRules DEF IInv
  <2>2. (CHOOSE t \in DOMAIN rules.rename : rules.rename[t] = rules.rename[s]) = s
    BY <1>2, RunningRules DEF IInv
  <2> QED
    BY <1>1, <2>1, <2>2
<1>5. CellInv'
  <2>1. ASSUME NEW r \in DOMAIN cells, NEW s \in DOMAIN rules.rename, NEW c,
               rules.rename[s] = c
        PROVE  Followed(r, s, c)'
    <3>1. frame'[r][c] = cells'[r][s]
      <4>1. cells' = cells
        BY <1>1
      <4>2. frame'[r][rules.rename[s]] = cells[r][s]
        BY <1>4
      <4> QED
        BY <2>1, <4>1, <4>2
    <3> QED
      BY <1>1, <3>1 DEF Followed
  <2> QED
    BY <1>1, <2>1 DEF CellInv, RenameTargets
<1>6. ReportedOnce'
  BY <1>1 DEF IInv, DataInv, ReportedOnce, Origin
<1> QED
  BY <1>1, <1>2, <1>3, <1>5, <1>6 DEF DataInv, FailInv, ValidInv, WrittenIsWhole


\* A cell that normalize empties was refused by one op of its list, or its source
\* said so.
LEMMA NormalizeStep ==
    ASSUME IInv, Normalize
    PROVE  DataInv'
<1> DEFINE N == rules.normalize
<1>1. /\ stage = "renamed" /\ stage' \in {"normalized", "config_error"}
      /\ UNCHANGED <<request, rules, loaded, cells>>
  BY DEF Normalize
<1>2. stage \in Running /\ stage \in Arrived /\ stage \in Framed /\ stage' \in Arrived
  BY <1>1 DEF Running, Arrived, Framed
<1>3. /\ 1 \in DOMAIN cells /\ DOMAIN frame = DOMAIN cells
      /\ \A r \in DOMAIN cells : DOMAIN frame[r] = RenameTargets(rules)
  BY <1>1, <1>2 DEF IInv, DataInv, FrameInv, FrameColumns
<1>4. \A r \in DOMAIN cells, s \in DOMAIN rules.rename :
          frame[r][rules.rename[s]] = cells[r][s]
  BY <1>1, <1>2, RunningRules DEF IInv, DataInv, CellInv, Followed
<1>5. CASE stage' = "config_error"
  <2>1. failures' = failures /\ stage' \notin Framed
    BY <1>5 DEF Normalize, Framed
  <2>2. ReportedOnce'
    BY <1>1, <2>1 DEF IInv, DataInv, ReportedOnce, Origin
  <2> QED
    BY <1>1, <1>2, <1>3, <1>5, <2>1, <2>2
       DEF DataInv, FrameInv, CellInv, FailInv, ValidInv, WrittenIsWhole
<1>6. CASE stage' = "normalized"
  <2>1. /\ frame' = [r \in DOMAIN frame |-> [c \in DOMAIN frame[r] |->
                        IF c \in DOMAIN N THEN After(N[c], frame[r][c])[Len(N[c])]
                        ELSE frame[r][c]]]
        /\ failures' = UNION {ListFailures(frame, c, N[c], "normalize", 0) : c \in DOMAIN N}
    BY <1>6 DEF Normalize
  <2>2. \A c \in DOMAIN N : c \in RenameTargets(rules) /\ IsList(N[c])
    BY <1>2, RunningRules DEF IInv, OpLists
  <2>3. \A f : f \in failures' <=>
            \E c \in DOMAIN N, r \in DOMAIN cells : \E k :
                /\ Refuses(N[c], frame[r][c], k)
                /\ f = Failure(r, c, "normalize", 0 + (k - 1))
    BY <1>3, <2>1, InListFailures
  <2>4. \A f \in failures' :
            /\ f.row \in DOMAIN cells /\ f.column \in DOMAIN N /\ f.stage = "normalize"
            /\ \E k : /\ Refuses(N[f.column], frame[f.row][f.column], k)
                      /\ f = Failure(f.row, f.column, "normalize", 0 + (k - 1))
    BY <2>3, FailureFields
  <2>5. ASSUME NEW r \in DOMAIN cells, NEW c
        PROVE  Failed(r, c)' <=> c \in DOMAIN N /\ \E k : Refuses(N[c], frame[r][c], k)
    <3>1. ASSUME c \in DOMAIN N, NEW k, Refuses(N[c], frame[r][c], k)
          PROVE  Failed(r, c)'
      <4>1. Failure(r, c, "normalize", 0 + (k - 1)) \in failures'
        BY <2>3, <3>1
      <4> QED
        BY <4>1, FailureFields DEF Failed
    <3>2. ASSUME Failed(r, c)'
          PROVE  c \in DOMAIN N /\ \E k : Refuses(N[c], frame[r][c], k)
      <4>1. PICK f \in failures' : f.row = r /\ f.column = c
        BY <3>2 DEF Failed
      <4> QED
        BY <2>4, <4>1
    <3> QED
      BY <3>1, <3>2
  <2>6. FrameInv'
    BY <1>1, <1>3, <1>6, <2>1 DEF FrameInv, FrameColumns
  <2>7. ASSUME NEW r \in DOMAIN cells, NEW s \in DOMAIN rules.rename, NEW c,
               c = rules.rename[s]
        PROVE  Followed(r, s, c)'
    <3> DEFINE v == cells[r][s]
    <3>1. c \in RenameTargets(rules) /\ frame[r][c] = v
      BY <1>2, <1>4, <2>7, RunningRules DEF IInv
    <3>2. CASE c \in DOMAIN N
      <4>1. frame'[r][c] = After(N[c], v)[Len(N[c])]
        BY <1>3, <2>1, <3>1, <3>2
      <4>2. Failed(r, c)' => frame'[r][c] = Null /\ v # Null
        BY <2>2, <2>5, <3>1, <3>2, <4>1, RefusedOnce
      <4>3. ~Failed(r, c)' /\ frame'[r][c] = Null => MayBeEmpty(v, N[c])
        BY <2>2, <2>5, <3>1, <3>2, <4>1, EmptyHasCause
      <4>4. v = Null => frame'[r][c] = Null
        <5>1. IsList(N[c]) /\ After(N[c], v)[0] = v
          BY <2>2, <3>2, AfterIs
        <5> QED
          BY <4>1, <5>1, NullStays, ListShape
      <4>5. OpsOf(c)' = N[c]
        BY <1>1, <3>2 DEF OpsOf
      <4> QED
        BY <1>1, <1>6, <4>2, <4>3, <4>4, <4>5 DEF Followed, Quiet
    <3>3. CASE c \notin DOMAIN N
      <4>1. frame'[r][c] = v /\ ~Failed(r, c)'
        BY <1>3, <2>1, <2>5, <3>1, <3>3
      <4> QED
        BY <1>1, <1>6, <4>1 DEF Followed, Quiet, MayBeEmpty, SaysNothing, Undivided
    <3> QED
      BY <3>2, <3>3
  <2>8. CellInv'
    BY <1>1, <2>7 DEF CellInv, RenameTargets
  <2>9. FailInv'
    BY <1>1, <1>2, <2>2, <2>4 DEF FailInv
  <2>10. ReportedOnce'
    <3>1. ASSUME NEW f \in failures', NEW g \in failures', g.row = f.row, g.column = f.column
          PROVE  g = f
      <4>1. PICK k : /\ Refuses(N[f.column], frame[f.row][f.column], k)
                     /\ f = Failure(f.row, f.column, "normalize", 0 + (k - 1))
        BY <2>4
      <4>2. PICK j : /\ Refuses(N[f.column], frame[f.row][f.column], j)
                     /\ g = Failure(f.row, f.column, "normalize", 0 + (j - 1))
        BY <2>4, <3>1
      <4>3. IsList(N[f.column])
        BY <2>2, <2>4
      <4>4. j = k
        BY <4>1, <4>2, <4>3, RefusedOnce
      <4> QED
        BY <4>1, <4>2, <4>4
    <3>2. ASSUME NEW f \in failures', NEW s \in DOMAIN rules.rename, rules.rename[s] = f.column
          PROVE  cells[f.row][s] # Null
      <4>1. IsList(N[f.column]) /\ f.row \in DOMAIN cells
        BY <2>2, <2>4
      <4>2. frame[f.row][f.column] # Null
        BY <2>4, <4>1, RefusedOnce
      <4> QED
        BY <1>4, <3>2, <4>1, <4>2
    <3>3. \A f \in failures' : Origin(f)' = f.column
      BY <2>4 DEF Origin
    <3> QED
      BY <1>1, <3>1, <3>2, <3>3 DEF ReportedOnce
  <2> QED
    BY <1>6, <2>6, <2>8, <2>9, <2>10 DEF DataInv, ValidInv, WrittenIsWhole
<1> QED
  BY <1>1, <1>5, <1>6


\* Cast refuses only cells that normalize left a value in.
LEMMA CastStep ==
    ASSUME IInv, Cast
    PROVE  DataInv'
<1>1. /\ stage = "normalized" /\ stage' = "cast"
      /\ UNCHANGED <<request, rules, loaded, cells>>
  BY DEF Cast
<1>2. /\ stage \in Running /\ stage \in Arrived /\ stage \in Framed
      /\ stage' \in Arrived /\ stage' \in Framed
  BY <1>1 DEF Running, Arrived, Framed
<1>3. /\ 1 \in DOMAIN cells /\ DOMAIN frame = DOMAIN cells
      /\ \A r \in DOMAIN cells : DOMAIN frame[r] = RenameTargets(rules)
  BY <1>1, <1>2 DEF IInv, DataInv, FrameInv, FrameColumns
<1>4. /\ frame' = [r \in DOMAIN frame |-> [c \in DOMAIN frame[r] |->
                    CastValue(CastTypeOf(rules, c), frame[r][c])]]
      /\ failures' = failures \cup
            UNION {{Failure(r, c, "cast", 0) :
                      c \in {col \in DOMAIN rules.cast :
                                  CastFails(rules.cast[col], frame[r][col])}} :
                    r \in DOMAIN frame}
  BY DEF Cast
<1>5. \A f : f \in failures' <=>
          \/ f \in failures
          \/ \E r \in DOMAIN cells, c \in DOMAIN rules.cast :
                CastFails(rules.cast[c], frame[r][c]) /\ f = Failure(r, c, "cast", 0)
  BY <1>3, <1>4
<1>6. ASSUME NEW f \in failures', f \notin failures
      PROVE  /\ f.row \in DOMAIN cells /\ f.column \in DOMAIN rules.cast
             /\ f.column \in RenameTargets(rules) /\ f.stage = "cast"
             /\ f = Failure(f.row, f.column, "cast", 0)
             /\ CastFails(rules.cast[f.column], frame[f.row][f.column])
  <2>1. DOMAIN rules.cast \subseteq RenameTargets(rules)
    BY <1>2, RunningRules DEF IInv
  <2> QED
    BY <1>5, <1>6, <2>1, FailureFields
<1>7. \A f \in failures : /\ f.row \in DOMAIN cells /\ f.column \in RenameTargets(rules)
                          /\ f.stage \in {"normalize", "cast"}
  BY <1>1 DEF IInv, DataInv, FailInv
<1>8. ASSUME NEW r \in DOMAIN cells, NEW s \in DOMAIN rules.rename, NEW c,
             c = rules.rename[s]
      PROVE  /\ c \in RenameTargets(rules)
             /\ Failed(r, c) => frame[r][c] = Null /\ cells[r][s] # Null
             /\ ~Failed(r, c) => Quiet(r, s, c)
             /\ cells[r][s] = Null => frame[r][c] = Null
             /\ frame'[r][c] = CastValue(CastTypeOf(rules, c), frame[r][c])
  <2>1. c \in RenameTargets(rules)
    BY <1>2, <1>8, RunningRules DEF IInv
  <2>2. Followed(r, s, c)
    BY <1>2, <1>8, <2>1 DEF IInv, DataInv, CellInv
  <2> QED
    BY <1>1, <1>3, <1>4, <2>1, <2>2 DEF Followed
<1>9. FrameInv'
  BY <1>1, <1>3, <1>4 DEF FrameInv, FrameColumns
<1>10. FailInv'
  BY <1>1, <1>2, <1>6, <1>7 DEF FailInv
<1>11. ASSUME NEW r \in DOMAIN cells, NEW s \in DOMAIN rules.rename, NEW c,
              c = rules.rename[s]
       PROVE  Followed(r, s, c)'
  <2> DEFINE type == CastTypeOf(rules, c)
             v == frame[r][c]
  <2>1. frame'[r][c] = CastValue(type, v)
    BY <1>8, <1>11
  <2>2. v = Null => CastValue(type, v) = Null
    BY DEF CastValue
  <2>3. CastValue(type, v) = Null /\ v # Null => c \in DOMAIN rules.cast /\ CastFails(rules.cast[c], v)
    BY DEF CastValue, CastFails, CastTypeOf
  <2>4. c \in DOMAIN rules.cast /\ CastFails(rules.cast[c], v) => Failed(r, c)'
    <3>1. c \in DOMAIN rules.cast /\ CastFails(rules.cast[c], v)
          => Failure(r, c, "cast", 0) \in failures'
      BY <1>5
    <3> QED
      BY <3>1, FailureFields DEF Failed
  <2>5. Failed(r, c) => Failed(r, c)'
    BY <1>5 DEF Failed
  <2>6. Failed(r, c)' =>
            Failed(r, c) \/ (c \in DOMAIN rules.cast /\ CastFails(rules.cast[c], v))
    BY <1>6 DEF Failed
  <2>7. c \in DOMAIN rules.cast /\ CastFails(rules.cast[c], v) => v # Null /\ CastValue(type, v) = Null
    BY DEF CastFails, CastTypeOf
  <2>8. Failed(r, c)' => frame'[r][c] = Null /\ cells[r][s] # Null
    BY <1>8, <1>11, <2>1, <2>2, <2>6, <2>7
  <2>9. ~Failed(r, c)' /\ frame'[r][c] = Null => v = Null /\ ~Failed(r, c)
    BY <2>1, <2>3, <2>4, <2>5
  <2>10. ~Failed(r, c)' => Quiet(r, s, c)'
    BY <1>1, <1>8, <1>11, <2>9 DEF Quiet, OpsOf
  <2>11. cells[r][s] = Null => frame'[r][c] = Null
    BY <1>8, <1>11, <2>1, <2>2
  <2> QED
    BY <1>1, <2>8, <2>10, <2>11 DEF Followed
<1>12. CellInv'
  BY <1>1, <1>11 DEF CellInv, RenameTargets
<1>13. ReportedOnce'
  <2>1. ASSUME NEW f \in failures', f \notin failures
        PROVE  /\ ~Failed(f.row, f.column)
               /\ \A s \in DOMAIN rules.rename :
                     rules.rename[s] = f.column => cells[f.row][s] # Null
    <3>1. frame[f.row][f.column] # Null
      BY <1>6, <2>1 DEF CastFails
    <3>2. PICK s \in DOMAIN rules.rename : rules.rename[s] = f.column
      BY <1>2, <1>6, <2>1, RunningRules DEF IInv
    <3> QED
      BY <1>6, <1>8, <2>1, <3>1, <3>2
  <2>2. ASSUME NEW f \in failures', NEW g \in failures', g.row = f.row, g.column = f.column
        PROVE  g = f
    <3>1. /\ f \in failures /\ g \in failures
          /\ f.stage \in {"normalize", "cast", "derive"}
          => g = f
      BY <2>2 DEF IInv, DataInv, ReportedOnce, Origin
    <3>2. f \in failures <=> g \in failures
      BY <2>1, <2>2 DEF Failed
    <3>3. f \notin failures /\ g \notin failures => g = f
      BY <1>6, <2>2
    <3>4. f \in failures => f.stage \in {"normalize", "cast", "derive"}
      BY <1>7
    <3> QED
      BY <3>1, <3>2, <3>3, <3>4
  <2>3. ASSUME NEW f \in failures, NEW s \in DOMAIN rules.rename, rules.rename[s] = f.column
        PROVE  cells[f.row][s] # Null
    <3>1. Failed(f.row, f.column) /\ f.row \in DOMAIN cells
      BY <1>7 DEF Failed
    <3> QED
      BY <1>8, <2>3, <3>1
  <2>4. \A f \in failures' : Origin(f)' = f.column
    BY <1>6, <1>7 DEF Origin
  <2> QED
    BY <1>1, <2>1, <2>2, <2>3, <2>4 DEF ReportedOnce
<1> QED
  BY <1>1, <1>9, <1>10, <1>12, <1>13 DEF DataInv, ValidInv, WrittenIsWhole


\* Derive writes and reports only columns that no source is mapped to.
LEMMA DeriveStep ==
    ASSUME IInv, Derive
    PROVE  DataInv'
<1> DEFINE D == rules.derive
           generated == [r \in DOMAIN frame |-> [c \in DOMAIN D |-> Generated(D[c], frame[r])]]
<1>1. /\ stage = "cast" /\ stage' \in {"derived", "config_error"}
      /\ UNCHANGED <<request, rules, loaded, cells>>
  BY DEF Derive
<1>2. stage \in Running /\ stage \in Arrived /\ stage \in Framed /\ stage' \in Arrived
  BY <1>1 DEF Running, Arrived, Framed
<1>3. /\ 1 \in DOMAIN cells /\ DOMAIN frame = DOMAIN cells
      /\ \A r \in DOMAIN cells : DOMAIN frame[r] = RenameTargets(rules)
  BY <1>1, <1>2 DEF IInv, DataInv, FrameInv, FrameColumns
<1>4. \A f \in failures : /\ f.row \in DOMAIN cells /\ f.column \in RenameTargets(rules)
                          /\ f.stage \in {"normalize", "cast"}
  BY <1>1 DEF IInv, DataInv, FailInv
<1>5. CASE stage' = "config_error"
  <2>1. failures' = failures /\ stage' \notin Framed
    BY <1>5 DEF Derive, Framed
  <2>2. ReportedOnce'
    BY <1>1, <2>1 DEF IInv, DataInv, ReportedOnce, Origin
  <2> QED
    BY <1>1, <1>2, <1>3, <1>5, <2>1, <2>2
       DEF DataInv, FrameInv, CellInv, FailInv, ValidInv, WrittenIsWhole
<1>6. CASE stage' = "derived"
  <2>1. /\ frame' = [r \in DOMAIN frame |->
                        [c \in DOMAIN frame[r] \cup DOMAIN D |->
                            IF c \in DOMAIN D
                            THEN After(D[c].ops, generated[r][c])[Len(D[c].ops)]
                            ELSE frame[r][c]]]
        /\ failures' = failures \cup
              UNION {ListFailures(generated, c, D[c].ops, "derive", 1) : c \in DOMAIN D}
    BY <1>6 DEF Derive
  <2>2. DOMAIN generated = DOMAIN cells
    BY <1>3
  <2> HIDE DEF generated
  <2>3. \A c \in DOMAIN D : c \notin RenameTargets(rules) /\ IsList(D[c].ops)
    BY <1>2, RunningRules DEF IInv, OpLists
  <2>4. ASSUME NEW f \in failures', f \notin failures
        PROVE  /\ f.row \in DOMAIN cells /\ f.column \in DOMAIN D
               /\ f.stage = "derive"
               /\ \E k : /\ Refuses(D[f.column].ops, generated[f.row][f.column], k)
                         /\ f = Failure(f.row, f.column, "derive", 1 + (k - 1))
    <3>1. PICK c \in DOMAIN D : f \in ListFailures(generated, c, D[c].ops, "derive", 1)
      BY <2>1, <2>4
    <3>2. PICK r \in DOMAIN generated : \E k :
              Refuses(D[c].ops, generated[r][c], k) /\ f = Failure(r, c, "derive", 1 + (k - 1))
      BY <3>1, InListFailures
    <3>3. f.row = r /\ f.column = c /\ f.stage = "derive"
      BY <3>2, FailureFields
    <3> QED
      BY <2>2, <3>2, <3>3
  <2>5. FrameInv'
    BY <1>1, <1>3, <1>6, <2>1 DEF FrameInv, FrameColumns, TargetColumns
  <2>6. ASSUME NEW r \in DOMAIN cells, NEW s \in DOMAIN rules.rename, NEW c,
               c = rules.rename[s]
        PROVE  Followed(r, s, c)'
    <3>1. c \in RenameTargets(rules) /\ c \notin DOMAIN D
      BY <1>2, <2>3, <2>6, RunningRules DEF IInv
    <3>2. Followed(r, s, c)
      BY <1>2, <2>6, <3>1 DEF IInv, DataInv, CellInv
    <3>3. frame'[r][c] = frame[r][c]
      BY <1>3, <2>1, <3>1
    <3>4. Failed(r, c)' <=> Failed(r, c)
      <4>1. \A f \in failures' : f.column = c => f \in failures
        BY <2>4, <3>1
      <4>2. failures \subseteq failures'
        BY <2>1
      <4> QED
        BY <4>1, <4>2 DEF Failed
    <3>5. Quiet(r, s, c) => Quiet(r, s, c)'
      BY <1>1, <3>3 DEF Quiet, OpsOf
    <3> QED
      BY <1>1, <1>6, <3>2, <3>3, <3>4, <3>5 DEF Followed
  <2>7. CellInv'
    BY <1>1, <2>6 DEF CellInv, RenameTargets
  <2>8. ReportedOnce'
    <3>1. ASSUME NEW f \in failures', NEW g \in failures', g.row = f.row, g.column = f.column
          PROVE  g = f
      <4>1. CASE f.column \in RenameTargets(rules)
        <5>1. f \in failures /\ g \in failures
          BY <2>3, <2>4, <3>1, <4>1
        <5> QED
          BY <1>4, <3>1, <5>1 DEF IInv, DataInv, ReportedOnce, Origin
      <4>2. CASE f.column \notin RenameTargets(rules)
        <5>1. f \notin failures /\ g \notin failures
          BY <1>4, <3>1, <4>2
        <5>2. PICK k : /\ Refuses(D[f.column].ops, generated[f.row][f.column], k)
                       /\ f = Failure(f.row, f.column, "derive", 1 + (k - 1))
          BY <2>4, <5>1
        <5>3. PICK j : /\ Refuses(D[f.column].ops, generated[f.row][f.column], j)
                       /\ g = Failure(f.row, f.column, "derive", 1 + (j - 1))
          BY <2>4, <3>1, <5>1
        <5>4. IsList(D[f.column].ops)
          BY <2>3, <2>4, <5>1
        <5>5. j = k
          BY <5>2, <5>3, <5>4, RefusedOnce
        <5> QED
          BY <5>2, <5>3, <5>5
      <4> QED
        BY <4>1, <4>2
    <3>2. ASSUME NEW f \in failures', NEW s \in DOMAIN rules.rename, rules.rename[s] = f.column
          PROVE  cells[f.row][s] # Null
      <4>1. f.column \in RenameTargets(rules)
        BY <1>2, <3>2, RunningRules DEF IInv
      <4>2. f \in failures
        BY <2>3, <2>4, <4>1
      <4> QED
        BY <1>4, <3>2, <4>2 DEF IInv, DataInv, ReportedOnce, Origin
    <3>3. ASSUME NEW f \in failures', f \notin failures, D[f.column].gen # "constant"
          PROVE  /\ \A g \in failures' : g.row = f.row => g.column # D[f.column].src
                 /\ \A s \in DOMAIN rules.rename :
                       rules.rename[s] = D[f.column].src => cells[f.row][s] # Null
      <4> DEFINE src == D[f.column].src
      <4>1. /\ f.row \in DOMAIN cells /\ f.column \in DOMAIN D
            /\ generated[f.row][f.column] # Null
        BY <2>3, <2>4, <3>3, RefusedOnce
      <4>2. src \in RenameTargets(rules)
        BY <1>2, <3>3, <4>1, RunningRules DEF IInv
      <4>3. frame[f.row][src] # Null
        BY <1>3, <3>3, <4>1 DEF generated, Generated
      <4>4. PICK s \in DOMAIN rules.rename : rules.rename[s] = src
        BY <1>2, <4>2, RunningRules DEF IInv
      <4>5. Followed(f.row, s, src)
        BY <1>2, <4>1, <4>2, <4>4 DEF IInv, DataInv, CellInv
      <4>6. ~Failed(f.row, src) /\ cells[f.row][s] # Null
        BY <1>1, <4>3, <4>5 DEF Followed
      <4>7. \A t \in DOMAIN rules.rename : rules.rename[t] = src => t = s
        BY <1>2, <4>4, RunningRules DEF IInv
      <4>8. \A g \in failures' : g.column = src => g \in failures
        BY <2>3, <2>4, <4>2
      <4> QED
        BY <4>6, <4>7, <4>8 DEF Failed
    <3>4. \A f \in failures' :
              Origin(f)' = IF f \notin failures /\ D[f.column].gen # "constant"
                           THEN D[f.column].src ELSE f.column
      BY <1>1, <1>4, <2>4 DEF Origin
    <3> QED
      BY <1>1, <3>1, <3>2, <3>3, <3>4 DEF ReportedOnce
  <2> QED
    BY <1>2, <1>6, <2>5, <2>7, <2>8 DEF DataInv, FailInv, ValidInv, WrittenIsWhole
<1> QED
  BY <1>1, <1>5, <1>6

\* No failure is left where the mapping goes on; enrichment empties nothing.
LEMMA FinishMappingStep ==
    ASSUME IInv, FinishMapping
    PROVE  DataInv'
<1> DEFINE E == EnrichmentFields(loaded.target)
<1>1. /\ stage = "derived" /\ stage' \in {"mapped", "held_rows", "held_chunk"}
      /\ UNCHANGED <<request, rules, loaded, cells, failures>>
  BY HoldIsRunning DEF FinishMapping
<1>2. stage \in Running /\ stage \in Arrived /\ stage \in Framed /\ stage' \in Arrived
  BY <1>1 DEF Running, Arrived, Framed
<1>3. /\ 1 \in DOMAIN cells /\ DOMAIN frame = DOMAIN cells
      /\ \A r \in DOMAIN cells : DOMAIN frame[r] = TargetColumns(rules)
  BY <1>1, <1>2 DEF IInv, DataInv, FrameInv, FrameColumns
<1>4. ReportedOnce'
  BY <1>1 DEF IInv, DataInv, ReportedOnce, Origin
<1>5. CASE stage' # "mapped"
  <2>1. stage' \notin Framed
    BY <1>1, <1>5 DEF Framed
  <2> QED
    BY <1>1, <1>2, <1>3, <1>4, <2>1
       DEF DataInv, FrameInv, CellInv, FailInv, ValidInv, WrittenIsWhole
<1>6. CASE stage' = "mapped"
  <2>1. /\ failures = {}
        /\ frame' = [r \in DOMAIN frame |-> [c \in DOMAIN frame[r] \cup E |->
                        IF c \in E THEN "fact" ELSE frame[r][c]]]
    <3>1. HoldStage(MapFailures) # "mapped"
      BY HoldIsRunning
    <3> QED
      BY <1>6, <3>1 DEF FinishMapping, MapFailures
  <2> HIDE DEF E
  <2>2. FrameInv'
    <3>1. \A r \in DOMAIN cells : DOMAIN frame'[r] = TargetColumns(rules) \cup E
      BY <1>3, <2>1
    <3> QED
      BY <1>1, <1>3, <1>6, <2>1, <3>1 DEF FrameInv, FrameColumns, E
  <2>3. ASSUME NEW r \in DOMAIN cells, NEW s \in DOMAIN rules.rename, NEW c,
               c = rules.rename[s]
        PROVE  Followed(r, s, c)'
    <3>1. c \in RenameTargets(rules)
      BY <1>2, <2>3, RunningRules DEF IInv
    <3>2. Followed(r, s, c) /\ ~Failed(r, c)
      BY <1>2, <2>1, <2>3, <3>1 DEF IInv, DataInv, CellInv, Failed
    <3>3. Quiet(r, s, c)
      BY <1>1, <3>2 DEF Followed
    <3>4. frame'[r][c] = "fact" \/ frame'[r][c] = frame[r][c]
      BY <1>3, <2>1, <3>1 DEF TargetColumns
    <3>5. Quiet(r, s, c)'
      BY <1>1, <3>3, <3>4 DEF Quiet, OpsOf, Null
    <3> QED
      BY <1>6, <3>5 DEF Followed
  <2>4. CellInv'
    BY <1>1, <2>3 DEF CellInv, RenameTargets
  <2> QED
    BY <1>2, <1>4, <1>6, <2>2, <2>4 DEF DataInv, FailInv, ValidInv, WrittenIsWhole
<1> QED
  BY <1>5, <1>6


\* The canonical gate lets no empty required cell through.
LEMMA PostValidateStep ==
    ASSUME IInv, PostValidate
    PROVE  DataInv'
<1>1. /\ stage = "mapped" /\ stage' \in {"validated", "held_rows", "held_chunk"}
      /\ UNCHANGED <<request, rules, loaded, cells, frame>>
  BY HoldIsRunning DEF PostValidate
<1>2. stage \in Running /\ stage \in Arrived /\ stage \in Framed /\ stage' \in Arrived
  BY <1>1 DEF Running, Arrived, Framed
<1>3. /\ 1 \in DOMAIN cells /\ DOMAIN frame = DOMAIN cells
      /\ \A r \in DOMAIN cells : DOMAIN frame[r] = FrameColumns
  BY <1>2 DEF IInv, DataInv, FrameInv
<1>4. ReportedOnce'
  <2>1. \A f \in failures' : f.stage = "post"
    BY FailureFields DEF PostValidate
  <2> QED
    BY <2>1 DEF ReportedOnce
<1>5. CASE stage' # "validated"
  <2>1. stage' \notin Framed /\ stage' \in {"held_rows", "held_chunk"}
    BY <1>1, <1>5 DEF Framed
  <2>2. FrameInv' /\ CellInv' /\ FailInv'
    BY <1>1, <1>2, <1>3, <2>1 DEF FrameInv, CellInv, FailInv
  <2>3. ValidInv' /\ WrittenIsWhole'
    BY <2>1 DEF ValidInv, WrittenIsWhole
  <2> QED
    BY <1>4, <2>2, <2>3 DEF DataInv
<1>6. CASE stage' = "validated"
  <2>1. FrameInv'
    <3>1. FrameColumns' = FrameColumns
      BY <1>1, <1>6 DEF FrameColumns
    <3> QED
      BY <1>1, <1>3, <3>1 DEF FrameInv
  <2>2. ASSUME NEW r \in DOMAIN cells, NEW s \in DOMAIN rules.rename, NEW c,
               c = rules.rename[s]
        PROVE  Followed(r, s, c)'
    <3>1. c \in RenameTargets(rules)
      BY <1>2, <2>2, RunningRules DEF IInv
    <3>2. Quiet(r, s, c)
      BY <1>1, <1>2, <2>2, <3>1 DEF IInv, DataInv, CellInv, Followed
    <3>3. Quiet(r, s, c)'
      BY <1>1, <3>2 DEF Quiet, OpsOf
    <3> QED
      BY <1>6, <3>3 DEF Followed
  <2>3. CellInv'
    BY <1>1, <2>2 DEF CellInv, RenameTargets
  <2>4. ASSUME NEW r \in DOMAIN frame, NEW c \in DOMAIN frame[r], c \in Required[loaded.target]
        PROVE  frame[r][c] # Null
    <3>1. failures' = {}
      <4>1. \A gate : HoldStage(gate) # "validated"
        BY HoldIsRunning
      <4> QED
        BY <1>6, <4>1 DEF PostValidate
    <3>2. c \in DOMAIN frame[1]
      BY <1>3, <2>4
    <3>3. ~DtypeFails(c)
      BY <3>1, <3>2 DEF PostValidate
    <3>4. ~CellFails(c, frame[r][c])
      <4> DEFINE typed == {k \in DOMAIN frame[1] : ~DtypeFails(k)}
                 bad(q) == {col \in typed : CellFails(col, frame[q][col])}
                 cellwise == UNION {{Failure(q, k, "post", 0) : k \in bad(q)} : q \in DOMAIN frame}
      <4>1. cellwise \subseteq failures'
        BY DEF PostValidate
      <4>2. c \in typed
        BY <3>2, <3>3
      <4>3. c \in bad(r) => Failure(r, c, "post", 0) \in cellwise
        BY <2>4
      <4> QED
        BY <3>1, <4>1, <4>2, <4>3
    <3> QED
      BY <2>4, <3>4 DEF CellFails
  <2>5. ValidInv'
    BY <1>1, <2>4 DEF ValidInv
  <2> QED
    BY <1>2, <1>4, <1>6, <2>1, <2>3, <2>5 DEF DataInv, FailInv, WrittenIsWhole
<1> QED
  BY <1>5, <1>6

\* Who fills a required column: the mapping, the enrichment or the consumer.
LEMMA RequiredIsOwned ==
    ASSUME NEW model \in {"hot", "sale", "change"}
    PROVE  Required[model] \subseteq
               Mandatory(model) \cup EnrichmentFields(model) \cup NotSourceOwned[model]
<1>1. Required["hot"] \subseteq Mandatory("hot") \cup EnrichmentFields("hot")
  BY DEF Required, HotRequired, Mandatory, MappingProduced, HotColumns, EnrichmentFields
<1>2. Required["sale"] \subseteq Mandatory("sale") \cup {"tax_treatment"}
  BY DEF Required, SaleRequired, Mandatory, MappingProduced, SaleColumns, EnrichmentFields
<1>3. "tax_treatment" \in NotSourceOwned["sale"]
  BY DEF NotSourceOwned
<1>4. Required["change"] \subseteq Mandatory("change")
  BY DEF Required, ChangeRequired, Mandatory, MappingProduced, ChangeColumns,
         EnrichmentFields
<1> QED
  BY <1>1, <1>2, <1>3, <1>4

\* What is written is the validated frame.
LEMMA WriteStep ==
    ASSUME IInv, Write
    PROVE  DataInv'
<1>1. /\ stage = "validated" /\ stage' = "written"
      /\ UNCHANGED <<request, rules, loaded, cells, frame, failures>>
      /\ written' = [r \in DOMAIN frame |->
                        [payload |-> frame[r], key |-> SourceEventId(frame[r], r)]]
  BY DEF Write
<1>2. /\ stage \in Running /\ stage \in Arrived /\ stage \in Framed
      /\ stage' \in Arrived /\ stage' \notin Framed
  BY <1>1 DEF Running, Arrived, Framed
<1>3. /\ 1 \in DOMAIN cells /\ DOMAIN frame = DOMAIN cells
      /\ \A r \in DOMAIN cells :
            DOMAIN frame[r] = TargetColumns(rules) \cup EnrichmentFields(loaded.target)
  BY <1>1, <1>2 DEF IInv, DataInv, FrameInv, FrameColumns
<1>4. ReportedOnce'
  BY <1>1 DEF IInv, DataInv, ReportedOnce, Origin
<1>5. \A r \in DOMAIN cells : written'[r].payload = frame[r]
  BY <1>1, <1>3
<1>6. ASSUME NEW r \in DOMAIN cells, NEW s \in DOMAIN rules.rename, NEW c,
             c = rules.rename[s], frame[r][c] = Null
      PROVE  MayBeEmpty(cells[r][s], OpsOf(c))
  <2>1. c \in RenameTargets(rules)
    BY <1>2, <1>6, RunningRules DEF IInv
  <2> QED
    BY <1>1, <1>2, <1>6, <2>1 DEF IInv, DataInv, CellInv, Followed, Quiet
<1>7. ASSUME NEW r \in DOMAIN cells, NEW c \in Required[loaded.target]
      PROVE  /\ c \in DOMAIN frame[r] \cup NotSourceOwned[loaded.target]
             /\ c \in DOMAIN frame[r] => frame[r][c] # Null
  <2>1. loaded.target \in {"hot", "sale", "change"} /\ Covers(loaded.target, rules)
    BY <1>2, RunningRules DEF IInv, Accepts, ModelForType, TemplateTypes
  <2>2. c \in Mandatory(loaded.target) \cup EnrichmentFields(loaded.target)
                \cup NotSourceOwned[loaded.target]
    BY <2>1, RequiredIsOwned
  <2>3. frame[r][c] # Null \/ c \notin DOMAIN frame[r]
    BY <1>1, <1>3 DEF IInv, DataInv, ValidInv
  <2> QED
    BY <1>3, <2>1, <2>2, <2>3 DEF Covers
<1>8. WrittenIsWhole'
  <2>1. DOMAIN written' = DOMAIN cells
    BY <1>1, <1>3
  <2>2. ASSUME NEW r \in DOMAIN cells, NEW s \in DOMAIN rules.rename,
               written'[r].payload[rules.rename[s]] = Null
        PROVE  MayBeEmpty(cells[r][s], OpsOf(rules.rename[s]))
    BY <1>5, <1>6, <2>2
  <2>3. ASSUME NEW r \in DOMAIN cells, NEW c \in Required[loaded.target]
        PROVE  /\ c \in DOMAIN written'[r].payload \cup NotSourceOwned[loaded.target]
               /\ c \in DOMAIN written'[r].payload => written'[r].payload[c] # Null
    BY <1>5, <1>7
  <2> QED
    BY <1>1, <2>1, <2>2, <2>3 DEF WrittenIsWhole, OpsOf, MayBeEmpty
<1> QED
  BY <1>1, <1>2, <1>3, <1>4, <1>8 DEF DataInv, FrameInv, CellInv, FailInv, ValidInv

----------------------------------------------------------------------------
\* Every step preserves the invariant.
LEMMA NextIInv ==
    ASSUME IInv, [Next]_vars
    PROVE  IInv'
<1>1. CASE RulesNext
  <2>1. RulesInv' /\ stage' \notin Arrived
    BY <1>1, CreateTemplateStep, EditTemplateStep, LoadMappingStep
       DEF IInv, RulesNext, Running, Arrived
  <2>2. stage \notin Arrived
    BY <1>1 DEF RulesNext, CreateTemplate, EditTemplate, LoadMapping, Arrived
  <2>3. failures' = {}
    BY <1>1, <2>2 DEF RulesNext, IInv, DataInv, FailInv
  <2>4. stage' \notin Framed /\ stage' # "written"
    BY <2>1 DEF Framed, Arrived
  <2> QED
    BY <2>1, <2>3, <2>4 DEF IInv, DataInv, FrameInv, CellInv, FailInv, ValidInv, ReportedOnce,
                            WrittenIsWhole, Framed
<1>2. CASE Arrive
  BY <1>2, ChunkStep, ArriveStep DEF IInv
<1>3. CASE PreValidate
  BY <1>3, ChunkStep, PreValidateStep DEF IInv
<1>4. CASE Rename
  BY <1>4, ChunkStep, RenameStep DEF IInv
<1>5. CASE Normalize
  BY <1>5, ChunkStep, NormalizeStep DEF IInv
<1>6. CASE Cast
  BY <1>6, ChunkStep, CastStep DEF IInv
<1>7. CASE Derive
  BY <1>7, ChunkStep, DeriveStep DEF IInv
<1>8. CASE FinishMapping
  BY <1>8, ChunkStep, FinishMappingStep DEF IInv
<1>9. CASE PostValidate
  BY <1>9, ChunkStep, PostValidateStep DEF IInv
<1>10. CASE Write
  BY <1>10, ChunkStep, WriteStep DEF IInv
<1>11. CASE UNCHANGED vars
  <2>1. /\ stage' = stage /\ request' = request /\ rules' = rules /\ loaded' = loaded
        /\ cells' = cells /\ frame' = frame /\ failures' = failures /\ written' = written
    BY <1>11 DEF vars, ruleVars
  <2>2. RulesInv'
    BY <2>1 DEF IInv, RulesInv, StoredInv, LoadedInv
  <2>3. FrameInv' /\ FailInv' /\ ValidInv'
    BY <2>1 DEF IInv, DataInv, FrameInv, FrameColumns, FailInv, ValidInv
  <2>4. CellInv'
    <3>1. \A r, s, c : Followed(r, s, c) => Followed(r, s, c)'
      BY <2>1 DEF Followed, Quiet, OpsOf, Failed
    <3> QED
      BY <2>1, <3>1 DEF IInv, DataInv, CellInv
  <2>5. ReportedOnce'
    BY <2>1 DEF IInv, DataInv, ReportedOnce, Origin
  <2>6. WrittenIsWhole'
    BY <2>1 DEF IInv, DataInv, WrittenIsWhole, OpsOf
  <2> QED
    BY <2>2, <2>3, <2>4, <2>5, <2>6 DEF IInv, DataInv
<1> QED
  BY <1>1, <1>2, <1>3, <1>4, <1>5, <1>6, <1>7, <1>8, <1>9, <1>10, <1>11 DEF Next

\* The invariant holds in every reachable state.
LEMMA Invariance == Spec => []IInv
<1>1. Init => IInv
  BY InitIInv
<1>2. IInv /\ [Next]_vars => IInv'
  BY NextIInv
<1> QED
  BY <1>1, <1>2, PTL DEF Spec

\* The consumer loads every template the gate of the UI server accepted, against
\* the model of its type, and only a snapshot may create a hot row: for every
\* request (validate_mapping_rules_for_type against load_active_mapping).
THEOREM GateImpliesLoad == Spec => []AcceptedRuns
<1>1. IInv => AcceptedRuns
  <2>1. "unloadable" \notin Idle \cup {"stored"} \cup Running
    BY DEF Idle, Running, Arrived
  <2> QED
    BY <2>1 DEF IInv, RulesInv, StoredInv, LoadedInv, AcceptedRuns
<1> QED
  BY <1>1, Invariance, PTL

\* A cell is reported once, at the first op that refuses it, whatever the lists
\* of ops and however long, and not again by a derive that copies it
\* (apply_transform_list, run_cast, run_derive).
THEOREM OneReportPerCell == Spec => []ReportedOnce
<1>1. IInv => ReportedOnce
  BY DEF IInv, DataInv
<1> QED
  BY <1>1, Invariance, PTL

\* A chunk that reaches the sink has every row and every column its model
\* requires, and a cell its source filled is empty only if it is a percentage too
\* long to divide, which _parse_percent drops (FilledIsKept does not hold).
THEOREM NothingLostOnTheWay == Spec => []WrittenIsWhole
<1>1. IInv => WrittenIsWhole
  BY DEF IInv, DataInv
<1> QED
  BY <1>1, Invariance, PTL
=============================================================================
