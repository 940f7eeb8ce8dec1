----------------------- MODULE MappingTemplatesProofs -----------------------
(***************************************************************************)
(* The safety of the mapping templates (MappingTemplates) for any number   *)
(* of concurrent requests, templates and names.                            *)
(*                                                                         *)
(* A lineage is its ACTIVE version 1, with at most a DRAFT numbered 2      *)
(* (Shape).  The lock of version 1 stands for the lineage: every PATCH     *)
(* that has decided holds it (TxOK), and a PATCH with rules holds it       *)
(* before its second read, which is why what it decides on is still the    *)
(* lineage when it commits (seen = Keys(Lineage)).  Names need no lock:    *)
(* of two transactions that give the same name the later check sees the    *)
(* other's rows (NameInv).                                                 *)
(***************************************************************************)
EXTENDS MappingTemplates, FiniteSetTheorems, TLAPS

Keys(S) == {Key(v) : v \in S}

\* The versions of a lineage that exists.
Shape(S) ==
    /\ \E v \in S : v.seq = 1
    /\ \A v \in S : \/ v.seq = 1 /\ v.status = "ACTIVE"
                    \/ v.seq = 2 /\ v.status = "DRAFT" /\ v.pred = 1
    /\ \A v, w \in S : v.name = w.name /\ (v.seq = w.seq => v = w)

\* New is what a transaction may make of the lineage Old.
Keeps(Old, New) ==
    \A v \in Old : \E w \in New : /\ Key(w) = Key(v) /\ w.status = v.status
                                  /\ v.status = "ACTIVE" => w.rules = v.rules

TableInv == \A t \in Templates : Lineage(t) = {} \/ Shape(Lineage(t))

LockInv == \A l, m \in locks : l[1] = m[1] => l[2] = m[2]

\* Two POSTs never mint the same id.
MintInv ==
    \A r, q \in Requests : r # q /\ op[r].kind = "create" /\ op[q].kind = "create" =>
        op[r].template # op[q].template

\* A request whose name is settled.
Sure(r) == pc[r] \in {"edit", "checkChain", "commit"}

NameInv ==
    /\ NameHasOneOwner
    /\ \A r \in Requests : Sure(r) =>
          \A v \in dirty[r], w \in table : v.name = w.name => v.template = w.template
    /\ \A r, q \in Requests : r # q /\ Sure(r) /\ Sure(q) =>
          \A v \in dirty[r], w \in dirty[q] : v.name = w.name => v.template = w.template

\* A request that has yet to write, by its step.
Fresh == {"idle", "insert", "read", "begin", "lock", "relock", "done", "refused"}
Decided == {"edit", "checkRename", "checkChain", "commit"}

Owns(r, t) == <<<<t, 1>>, r>> \in locks

\* What a request asks for.
AskOK(r) ==
    /\ pc[r] # "idle" => op[r].template \in Templates
    /\ pc[r] \in {"insert", "checkCreate"} => op[r].kind = "create"
    /\ pc[r] \in {"read", "begin", "lock", "relock", "edit", "checkRename", "checkChain"} =>
          op[r].kind = "patch"
    /\ pc[r] = "commit" => op[r].kind \in {"create", "patch"}
    /\ op[r].kind = "create" => op[r].name \in Names

\* What a request knows of the lineage t it works on.
ReadOK(r, t) ==
    /\ op[r].kind = "create" /\ pc[r] \in {"insert", "checkCreate", "commit"} =>
          Lineage(t) = {}
    /\ pc[r] \in {"lock", "relock"} =>
          /\ want[r] \subseteq seen[r] /\ seen[r] \subseteq Keys(Lineage(t))
          /\ seen[r] # {} => <<t, 1>> \in seen[r]
          /\ \A k \in seen[r] \ want[r] : <<k, r>> \in locks
    /\ op[r].edits /\ pc[r] \in {"begin", "lock", "relock"} => Lineage(t) # {}
    /\ op[r].edits /\ pc[r] = "lock" => seen[r] # {}
    /\ op[r].edits /\ pc[r] = "relock" => Owns(r, t) /\ seen[r] = Keys(Lineage(t))

\* What a request has made of the lineage t.
TxOK(r, t) ==
    /\ pc[r] \in Fresh => dirty[r] = {}
    /\ pc[r] \in Decided /\ op[r].kind = "patch" =>
          /\ Owns(r, t) /\ Lineage(t) # {}
          /\ op[r].edits => seen[r] = Keys(Lineage(t))
    /\ pc[r] \in {"edit", "checkRename"} => Keys(dirty[r]) \subseteq Keys(Lineage(t))
    /\ pc[r] \in Decided \cup {"checkCreate"} =>
          /\ \A v \in dirty[r] : v.template = t
          /\ Shape(View(r, t)) /\ Keeps(Lineage(t), View(r, t))

RequestInv ==
    \A r \in Requests : AskOK(r) /\ ReadOK(r, op[r].template) /\ TxOK(r, op[r].template)

\* The inductive invariant.
IInv ==
    /\ TypeOK
    /\ TableInv
    /\ LockInv
    /\ MintInv
    /\ NameInv
    /\ RequestInv


----------------------------------------------------------------------------
(***************************************************************************)
(* Lineages.                                                               *)
(***************************************************************************)

\* Keys of a lineage tell its versions apart by their number.
LEMMA KeyOfLineage ==
    ASSUME NEW t, NEW v, NEW w, v.template = t, w.template = t
    PROVE  Key(v) = Key(w) <=> v.seq = w.seq
BY DEF Key

\* The keys of a lineage of the right shape.
LEMMA ShapeKeys ==
    ASSUME NEW t, NEW S, Shape(S), \A v \in S : v.template = t
    PROVE  <<t, 1>> \in Keys(S) /\ Keys(S) \subseteq {<<t, 1>>, <<t, 2>>}
BY DEF Shape, Keys, Key

\* The newest version is one of them, with no higher number than any.
LEMMA NewestOf ==
    ASSUME NEW S, Shape(S)
    PROVE  /\ Newest(S) \in S
           /\ Newest(S).seq \in {1, 2}
           /\ (\E v \in S : v.seq = 2) => Newest(S).seq = 2
<1>1. \E v \in S : \A w \in S : w.seq <= v.seq
  <2>1. CASE \E v \in S : v.seq = 2
    BY <2>1 DEF Shape
  <2>2. CASE ~ \E v \in S : v.seq = 2
    BY <2>2 DEF Shape
  <2> QED
    BY <2>1, <2>2
<1>2. Newest(S) \in S /\ \A w \in S : w.seq <= Newest(S).seq
  BY <1>1 DEF Newest
<1>3. Newest(S).seq \in {1, 2}
  BY <1>2 DEF Shape
<1> QED
  BY <1>2, <1>3

\* A transaction that has written only t sees its rows and the others of t.
LEMMA ViewOf ==
    ASSUME NEW r \in Requests, NEW t, \A v \in dirty[r] : v.template = t
    PROVE  View(r, t) = dirty[r] \cup {v \in Lineage(t) : Key(v) \notin Keys(dirty[r])}
BY DEF View, Keys

\* Initially there are seeded templates, of different names, and no request.
LEMMA InitIInv == Init => IInv
<1> SUFFICES ASSUME Init
             PROVE  IInv
  OBVIOUS
<1>1. PICK S \in SUBSET DOMAIN Seeded : table = {First(t, Seeded[t], None) : t \in S}
  BY DEF Init
<1>2. \A v \in table : /\ v \in Version /\ v.seq = 1 /\ v.status = "ACTIVE"
                       /\ v.template \in DOMAIN Seeded /\ v.name = Seeded[v.template]
                       /\ v = First(v.template, Seeded[v.template], None)
  BY <1>1, ConstantsAssumption DEF First, Version
<1>3. TypeOK
  <2>1. NoOp \in Op
    BY DEF NoOp, Op
  <2>2. mirrored \in BOOLEAN
    BY DEF Init
  <2>3. \A x, T : x \in T => [r \in Requests |-> x] \in [Requests -> T]
    OBVIOUS
  <2>4. table \subseteq Version
    BY <1>2
  <2> QED
    BY <2>1, <2>2, <2>3, <2>4, Zenon DEF Init, TypeOK
<1>4. TableInv
  BY <1>2 DEF TableInv, Lineage, Shape
<1>5. LockInv /\ MintInv
  BY DEF Init, LockInv, MintInv, NoOp
<1>6. NameInv
  BY <1>2, ConstantsAssumption DEF Init, NameInv, NameHasOneOwner, Sure
<1>7. RequestInv
  BY DEF Init, RequestInv, AskOK, ReadOK, TxOK, NoOp, Fresh, Decided
<1> QED
  BY <1>3, <1>4, <1>5, <1>6, <1>7 DEF IInv

----------------------------------------------------------------------------
(***************************************************************************)
(* Frames.                                                                 *)
(***************************************************************************)

\* The state of request q is what it was, its locks included.
Same(q) ==
    /\ pc'[q] = pc[q] /\ op'[q] = op[q] /\ dirty'[q] = dirty[q]
    /\ want'[q] = want[q] /\ seen'[q] = seen[q]
    /\ \A k : <<k, q>> \in locks => <<k, q>> \in locks'

RequestOK(r) == AskOK(r) /\ ReadOK(r, op[r].template) /\ TxOK(r, op[r].template)

\* What is true of a request stays true as long as its lineage does not change.
LEMMA RequestFrame ==
    ASSUME IInv, NEW q \in Requests, Same(q),
           NEW t, t = op[q].template, Lineage(t)' = Lineage(t)
    PROVE  RequestOK(q)'
<1>1. AskOK(q) /\ ReadOK(q, t) /\ TxOK(q, t)
  BY DEF IInv, RequestInv
<1>2. AskOK(q)'
  BY <1>1 DEF AskOK, Same
<1>3. View(q, t)' = View(q, t)
  BY DEF View, Same
<1>4. ReadOK(q, t)'
  BY <1>1 DEF ReadOK, Same, Owns
<1>5. TxOK(q, t)'
  BY <1>1, <1>3 DEF TxOK, Same, Owns
<1>6. op'[q].template = t
  BY DEF Same
<1> QED
  BY <1>2, <1>4, <1>5, <1>6 DEF RequestOK

\* A request settles a name that no row of another template has, nor will have.
LEMMA NameFrame ==
    ASSUME IInv, NEW r \in Requests, UNCHANGED table,
           \A q \in Requests : q # r => Same(q),
           Sure(r)' =>
               \A v \in dirty'[r] :
                   /\ \A w \in table : v.name = w.name => v.template = w.template
                   /\ \A q \in Requests : q # r /\ Sure(q) =>
                         \A w \in dirty[q] : v.name = w.name => v.template = w.template
    PROVE  NameInv'
<1>1. NameHasOneOwner'
  BY DEF IInv, NameInv, NameHasOneOwner
<1>2. \A q \in Requests : q # r => (Sure(q)' <=> Sure(q)) /\ dirty'[q] = dirty[q]
  BY DEF Sure, Same
<1>3. \A q \in Requests : Sure(q)' =>
         \A v \in dirty'[q], w \in table : v.name = w.name => v.template = w.template
  BY <1>2 DEF IInv, NameInv
<1>4. ASSUME NEW p \in Requests, NEW q \in Requests, p # q, Sure(p)', Sure(q)',
             NEW v \in dirty'[p], NEW w \in dirty'[q], v.name = w.name
      PROVE  v.template = w.template
  <2>1. CASE p = r
    BY <1>2, <1>4, <2>1
  <2>2. CASE q = r
    BY <1>2, <1>4, <2>2
  <2>3. CASE p # r /\ q # r
    BY <1>2, <1>4, <2>3 DEF IInv, NameInv
  <2> QED
    BY <2>1, <2>2, <2>3
<1> QED
  BY <1>1, <1>3, <1>4 DEF NameInv

\* A step of request r that leaves the table alone.
LEMMA LocalStep ==
    ASSUME IInv, NEW r \in Requests, UNCHANGED table,
           \A q \in Requests : q # r => Same(q),
           TypeOK', LockInv', MintInv', NameInv', RequestOK(r)'
    PROVE  IInv'
<1>1. \A t : Lineage(t)' = Lineage(t)
  BY DEF Lineage
<1>2. TableInv'
  BY <1>1 DEF IInv, TableInv
<1>3. \A q \in Requests : RequestOK(q)'
  BY <1>1, RequestFrame
<1> QED
  BY <1>2, <1>3 DEF IInv, RequestInv, RequestOK


----------------------------------------------------------------------------
(***************************************************************************)
(* Steps that write nothing.                                               *)
(***************************************************************************)

\* A request ends without a trace.
LEMMA RefuseStep ==
    ASSUME IInv, NEW r \in Requests, pc[r] # "idle", Goto(r, "refused"), EndTx(r),
           UNCHANGED <<mirrored, table, op>>
    PROVE  IInv'
<1>1. pc'[r] = "refused" /\ dirty'[r] = {}
  BY DEF Goto, EndTx, IInv, TypeOK
<1>2. \A q \in Requests : q # r => Same(q)
  BY DEF Goto, EndTx, IInv, TypeOK, Same
<1>3. TypeOK'
  BY DEF Goto, EndTx, IInv, TypeOK
<1>4. LockInv' /\ MintInv'
  BY DEF EndTx, IInv, LockInv, MintInv
<1>5. NameInv'
  BY <1>1, <1>2, NameFrame
<1>6. RequestOK(r)'
  BY <1>1 DEF RequestOK, AskOK, ReadOK, TxOK, Fresh, Decided, IInv, RequestInv
<1> QED
  BY <1>2, <1>3, <1>4, <1>5, <1>6, LocalStep

\* A request that is refused before its transaction has nothing to undo.
LEMMA NothingToUndo ==
    ASSUME IInv, NEW r \in Requests, pc[r] = "read", Goto(r, "refused"),
           UNCHANGED <<mirrored, table, op, txVars>>
    PROVE  IInv'
<1>1. pc'[r] = "refused" /\ dirty'[r] = {}
  BY DEF Goto, txVars, IInv, TypeOK, RequestInv, TxOK, Fresh
<1>2. \A q \in Requests : q # r => Same(q)
  BY DEF Goto, txVars, IInv, TypeOK, Same
<1>3. TypeOK'
  BY DEF Goto, txVars, IInv, TypeOK
<1>4. LockInv' /\ MintInv'
  BY DEF txVars, IInv, LockInv, MintInv
<1>5. NameInv'
  BY <1>1, <1>2, NameFrame
<1>6. RequestOK(r)'
  BY <1>1 DEF RequestOK, AskOK, ReadOK, TxOK, Fresh, Decided, IInv, RequestInv
<1> QED
  BY <1>2, <1>3, <1>4, <1>5, <1>6, LocalStep

\* POST: the id is nobody else's, and no row has it.
LEMMA BeginCreateStep ==
    ASSUME IInv, NEW r \in Requests, NEW t \in Templates, NEW n \in Names, BeginCreate(r, t, n)
    PROVE  IInv'
<1> DEFINE o == [kind |-> "create", template |-> t, name |-> n, edits |-> TRUE]
<1>1. /\ pc[r] = "idle" /\ Lineage(t) = {} /\ \A q \in Requests : op[q].template # t
      /\ op' = [op EXCEPT ![r] = o] /\ pc' = [pc EXCEPT ![r] = "insert"]
      /\ UNCHANGED <<mirrored, table, dirty, locks, want, seen>>
  BY DEF BeginCreate, Goto, txVars
<1>2. o \in Op /\ o.kind = "create" /\ o.template = t /\ o.name = n
  BY DEF Op
<1> HIDE DEF o
<1>3. pc'[r] = "insert" /\ op'[r] = o /\ dirty'[r] = {}
  BY <1>1 DEF IInv, TypeOK, RequestInv, TxOK, Fresh
<1>4. \A q \in Requests : q # r => Same(q)
  BY <1>1 DEF Same, IInv, TypeOK
<1>5. TypeOK'
  BY <1>1, <1>2 DEF IInv, TypeOK
<1>6. LockInv'
  BY <1>1 DEF IInv, LockInv
<1>7. MintInv'
  BY <1>1, <1>2 DEF IInv, TypeOK, MintInv
<1>8. NameInv'
  BY <1>1, <1>3, <1>4, NameFrame
<1>9. RequestOK(r)'
  <2>1. Lineage(t)' = {}
    BY <1>1 DEF Lineage
  <2> QED
    BY <1>2, <1>3, <2>1 DEF RequestOK, AskOK, ReadOK, TxOK, Fresh, Decided
<1> QED
  BY <1>1, <1>4, <1>5, <1>6, <1>7, <1>8, <1>9, LocalStep

\* PATCH, of any id.
LEMMA BeginPatchStep ==
    ASSUME IInv, NEW r \in Requests, NEW t \in Templates, NEW n \in Names \cup {None},
           NEW e \in BOOLEAN, BeginPatch(r, t, n, e)
    PROVE  IInv'
<1> DEFINE o == [kind |-> "patch", template |-> t, name |-> n, edits |-> e]
           p == IF e THEN "read" ELSE "begin"
<1>1. /\ pc[r] = "idle" /\ op' = [op EXCEPT ![r] = o] /\ pc' = [pc EXCEPT ![r] = p]
      /\ UNCHANGED <<mirrored, table, dirty, locks, want, seen>>
  BY DEF BeginPatch, Goto, txVars
<1>2. o \in Op /\ o.kind = "patch" /\ o.template = t /\ o.edits = e
  BY DEF Op
<1> HIDE DEF o
<1>3. pc'[r] = p /\ op'[r] = o /\ dirty'[r] = {}
  BY <1>1 DEF IInv, TypeOK, RequestInv, TxOK, Fresh
<1>4. \A q \in Requests : q # r => Same(q)
  BY <1>1 DEF Same, IInv, TypeOK
<1>5. TypeOK'
  BY <1>1, <1>2 DEF IInv, TypeOK
<1>6. LockInv'
  BY <1>1 DEF IInv, LockInv
<1>7. MintInv'
  BY <1>1, <1>2 DEF IInv, TypeOK, MintInv
<1>8. NameInv'
  BY <1>1, <1>3, <1>4, NameFrame
<1>9. RequestOK(r)'
  BY <1>2, <1>3 DEF RequestOK, AskOK, ReadOK, TxOK, Fresh, Decided
<1> QED
  BY <1>1, <1>4, <1>5, <1>6, <1>7, <1>8, <1>9, LocalStep

\* The handler's read of the lineage.
LEMMA ReadTypeStep ==
    ASSUME IInv, NEW r \in Requests, ReadType(r), NEW t, t = op[r].template
    PROVE  IInv'
<1>1. pc[r] = "read" /\ UNCHANGED <<mirrored, table, op, dirty, locks, want, seen>>
  BY DEF ReadType, txVars
<1>2. CASE Goto(r, "refused")
  BY <1>1, <1>2, NothingToUndo DEF txVars
<1>3. CASE Lineage(t) # {} /\ pc' = [pc EXCEPT ![r] = "begin"]
  <2>1. pc'[r] = "begin" /\ dirty'[r] = {} /\ op'[r].kind = "patch" /\ op'[r].template = t
    BY <1>1, <1>3 DEF IInv, TypeOK, RequestInv, AskOK, TxOK, Fresh
  <2>2. \A q \in Requests : q # r => Same(q)
    BY <1>1, <1>3 DEF Same, IInv, TypeOK
  <2>3. TypeOK' /\ LockInv' /\ MintInv'
    BY <1>1, <1>3 DEF IInv, TypeOK, LockInv, MintInv
  <2>4. NameInv'
    BY <1>1, <2>1, <2>2, NameFrame
  <2>5. Lineage(t)' # {} /\ t \in Templates
    BY <1>1, <1>3 DEF Lineage, IInv, RequestInv, AskOK
  <2>6. RequestOK(r)'
    BY <2>1, <2>5 DEF RequestOK, AskOK, ReadOK, TxOK, Fresh, Decided
  <2> QED
    BY <1>1, <2>2, <2>3, <2>4, <2>6, LocalStep
<1> QED
  BY <1>2, <1>3 DEF ReadType, Goto

\* A SELECT .. FOR UPDATE takes its snapshot; the second one holds version 1.
LEMMA SelectStep ==
    ASSUME IInv, NEW r \in Requests, SelectForUpdate(r), NEW t, t = op[r].template
    PROVE  IInv'
<1> DEFINE p == NextRead(r)
           K == Keys(Lineage(t))
<1>1. /\ pc[r] = "begin" \/ (pc[r] = "lock" /\ want[r] = {})
      /\ p = IF pc[r] = "begin" THEN "lock" ELSE "relock"
      /\ pc' = [pc EXCEPT ![r] = p] /\ want' = [want EXCEPT ![r] = K]
      /\ seen' = [seen EXCEPT ![r] = K] /\ UNCHANGED <<mirrored, table, dirty, locks, op>>
  BY DEF SelectForUpdate, Goto, NextRead, Keys
<1>2. t \in Templates /\ op[r].kind = "patch" /\ dirty[r] = {}
  BY <1>1 DEF IInv, RequestInv, AskOK, TxOK, Fresh
<1>3. K \subseteq KeySet
  BY DEF IInv, TypeOK, Keys, Key, KeySet, Lineage, Version
<1>4. Lineage(t)' = Lineage(t) /\ Keys(Lineage(t))' = K
  BY <1>1 DEF Lineage, Keys, Key
<1>5. K # {} => <<t, 1>> \in K
  <2>1. Lineage(t) = {} \/ Shape(Lineage(t))
    BY <1>2 DEF IInv, TableInv
  <2>2. \A v \in Lineage(t) : v.template = t
    BY DEF Lineage
  <2>3. CASE Lineage(t) = {}
    BY <2>3 DEF Keys
  <2> QED
    BY <2>1, <2>2, <2>3, ShapeKeys
<1>6. op[r].edits => Lineage(t) # {} /\ K # {}
  BY <1>1 DEF IInv, RequestInv, ReadOK, Keys
<1>7. op[r].edits /\ pc[r] = "lock" => Owns(r, t)
  BY <1>1 DEF IInv, RequestInv, ReadOK, Owns
<1> HIDE DEF K
<1>8. pc'[r] = p /\ want'[r] = K /\ seen'[r] = K
  BY <1>1 DEF IInv, TypeOK
<1>9. \A q \in Requests : q # r => Same(q)
  BY <1>1 DEF Same, IInv, TypeOK
<1>10. TypeOK'
  BY <1>1, <1>3 DEF IInv, TypeOK
<1>11. LockInv' /\ MintInv'
  BY <1>1 DEF IInv, LockInv, MintInv
<1>12. NameInv'
  BY <1>1, <1>2, <1>9, NameFrame
<1>13. RequestOK(r)'
  <2>1. AskOK(r)'
    BY <1>1, <1>2, <1>8 DEF AskOK
  <2>2. ReadOK(r, t)'
    BY <1>1, <1>2, <1>4, <1>5, <1>6, <1>7, <1>8 DEF ReadOK, Owns
  <2>3. TxOK(r, t)'
    BY <1>1, <1>2, <1>8 DEF TxOK, Fresh, Decided
  <2> QED
    BY <1>1, <2>1, <2>2, <2>3 DEF RequestOK
<1> QED
  BY <1>1, <1>9, <1>10, <1>11, <1>12, <1>13, LocalStep

\* A row is locked, once nobody else holds it.
LEMMA LockRowStep ==
    ASSUME IInv, NEW r \in Requests, LockRow(r), NEW t, t = op[r].template,
           NEW k, k = NextLock(r)
    PROVE  IInv'
<1>1. /\ pc[r] \in {"lock", "relock"} /\ want[r] # {} /\ Holders(k) \subseteq {r}
      /\ locks' = locks \cup {<<k, r>>} /\ want' = [want EXCEPT ![r] = @ \ {k}]
      /\ UNCHANGED <<mirrored, table, dirty, pc, op, seen>>
  BY DEF LockRow, LockWaits
<1>2. /\ t \in Templates /\ op[r].kind = "patch" /\ dirty[r] = {}
      /\ AskOK(r) /\ ReadOK(r, t) /\ TxOK(r, t)
  BY <1>1 DEF IInv, RequestInv, AskOK, TxOK, Fresh
<1>3. k \in want[r]
  <2>1. want[r] \subseteq Keys(Lineage(t)) /\ Lineage(t) # {}
    BY <1>1, <1>2 DEF ReadOK, Keys
  <2>2. want[r] \subseteq {<<t, 1>>, <<t, 2>>}
    BY <1>2, <2>1, ShapeKeys DEF IInv, TableInv, Lineage
  <2>3. \E j \in want[r] : \A i \in want[r] : i[2] <= j[2]
    <3>1. CASE <<t, 2>> \in want[r]
      BY <2>2, <3>1
    <3>2. CASE <<t, 2>> \notin want[r]
      BY <1>1, <2>2, <3>2
    <3> QED
      BY <3>1, <3>2
  <2> QED
    BY <2>3 DEF NextLock
<1>4. k \in KeySet
  BY <1>3 DEF IInv, TypeOK
<1>5. \A q \in Requests : q # r => Same(q)
  BY <1>1 DEF Same, IInv, TypeOK
<1>6. TypeOK'
  BY <1>1, <1>4 DEF IInv, TypeOK
<1>7. MintInv'
  BY <1>1 DEF IInv, MintInv
<1>8. LockInv'
  <2>1. \A l \in locks : l = <<l[1], l[2]>> /\ l[2] \in Requests
    BY DEF IInv, TypeOK
  <2>2. \A l \in locks : l[1] = k => l[2] = r
    BY <1>1, <2>1 DEF Holders
  <2> QED
    BY <1>1, <2>2 DEF IInv, LockInv
<1>9. NameInv'
  BY <1>1, <1>2, <1>5, NameFrame
<1>10. RequestOK(r)'
  <2>1. want'[r] = want[r] \ {k}
    BY <1>1 DEF IInv, TypeOK
  <2>2. Lineage(t)' = Lineage(t) /\ Keys(Lineage(t))' = Keys(Lineage(t))
    BY <1>1 DEF Lineage, Keys, Key
  <2>3. AskOK(r)' /\ TxOK(r, t)'
    BY <1>1, <1>2 DEF AskOK, TxOK, Fresh, Decided
  <2>4. ReadOK(r, t)'
    BY <1>1, <1>2, <2>1, <2>2 DEF ReadOK, Owns
  <2> QED
    BY <1>1, <2>3, <2>4 DEF RequestOK
<1> QED
  BY <1>1, <1>5, <1>6, <1>7, <1>8, <1>9, <1>10, LocalStep


----------------------------------------------------------------------------
(***************************************************************************)
(* Steps that write.                                                       *)
(***************************************************************************)

\* What a transaction sees after its dirty rows have become D.
LEMMA NewView ==
    ASSUME NEW r \in Requests, NEW t, NEW D, dirty'[r] = D, \A v \in D : v.template = t,
           NEW L, Lineage(t)' = L
    PROVE  View(r, t)' = D \cup {v \in L : Key(v) \notin Keys(D)}
BY DEF View, Keys, Key

\* Versions rewritten one by one, their numbers and statuses kept, under one name.
LEMMA ShapeMap ==
    ASSUME NEW S, Shape(S), NEW f,
           \A v \in S : f[v].seq = v.seq /\ f[v].status = v.status /\ f[v].pred = v.pred,
           \A v, w \in S : f[v].name = f[w].name
    PROVE  Shape({f[v] : v \in S})
BY DEF Shape

\* An edit of names or drafts keeps the ACTIVE rules of what it maps.
LEMMA KeepsMap ==
    ASSUME NEW L, NEW S, Keeps(L, S), NEW f,
           \A v \in S : /\ Key(f[v]) = Key(v) /\ f[v].status = v.status
                        /\ v.status = "ACTIVE" => f[v].rules = v.rules
    PROVE  Keeps(L, {f[v] : v \in S})
BY DEF Keeps

\* The INSERT of a POST.
LEMMA InsertStep ==
    ASSUME IInv, NEW r \in Requests, InsertActive(r), NEW t, t = op[r].template
    PROVE  IInv'
<1> DEFINE v == First(t, op[r].name, r)
<1>1. /\ pc[r] = "insert" /\ dirty' = [dirty EXCEPT ![r] = {v}]
      /\ pc' = [pc EXCEPT ![r] = "checkCreate"] /\ UNCHANGED <<mirrored, table, locks, op, want, seen>>
  BY DEF InsertActive, Goto
<1>2. t \in Templates /\ op[r].kind = "create" /\ op[r].name \in Names /\ Lineage(t) = {}
  BY <1>1 DEF IInv, RequestInv, AskOK, ReadOK
<1>3. v \in Version /\ v.template = t /\ v.seq = 1 /\ v.status = "ACTIVE"
  BY <1>2 DEF First, Version
<1> HIDE DEF v
<1>4. pc'[r] = "checkCreate" /\ dirty'[r] = {v} /\ Lineage(t)' = {}
  BY <1>1, <1>2 DEF IInv, TypeOK, Lineage
<1>5. \A q \in Requests : q # r => Same(q)
  BY <1>1 DEF Same, IInv, TypeOK
<1>6. TypeOK'
  BY <1>1, <1>3 DEF IInv, TypeOK
<1>7. LockInv' /\ MintInv'
  BY <1>1 DEF IInv, LockInv, MintInv
<1>8. NameInv'
  BY <1>1, <1>4, <1>5, NameFrame DEF Sure
<1>9. RequestOK(r)'
  <2>1. View(r, t)' = {v}
    BY <1>3, <1>4, NewView
  <2>2. Shape({v}) /\ Keeps({}, {v})
    BY <1>3 DEF Shape, Keeps
  <2>3. AskOK(r)' /\ ReadOK(r, t)'
    BY <1>1, <1>2, <1>4 DEF AskOK, ReadOK
  <2>4. TxOK(r, t)'
    BY <1>3, <1>4, <2>1, <2>2 DEF TxOK, Fresh, Decided
  <2> QED
    BY <1>1, <2>3, <2>4 DEF RequestOK
<1> QED
  BY <1>1, <1>5, <1>6, <1>7, <1>8, <1>9, LocalStep

\* A PATCH decides on rows it has locked, version 1 among them.
LEMMA DecideFacts ==
    ASSUME IInv, NEW r \in Requests, pc[r] = "relock", want[r] = {}, Locked(r) # {},
           NEW t, t = op[r].template, NEW L, L = Lineage(t)
    PROVE  /\ t \in Templates /\ op[r].kind = "patch" /\ dirty[r] = {} /\ View(r, t) = L
           /\ Owns(r, t) /\ L # {} /\ Shape(L) /\ L \subseteq Version
           /\ \A v \in L : v.template = t
           /\ op[r].edits => seen[r] = Keys(L)
<1>1. AskOK(r) /\ ReadOK(r, t) /\ TxOK(r, t)
  BY DEF IInv, RequestInv
<1>2. t \in Templates /\ op[r].kind = "patch" /\ dirty[r] = {}
  BY <1>1 DEF AskOK, TxOK, Fresh
<1>3. seen[r] # {} /\ seen[r] \subseteq Keys(L)
  BY <1>1 DEF Locked, ReadOK
<1>4. Owns(r, t) /\ L # {}
  BY <1>1, <1>3 DEF ReadOK, Owns, Keys
<1>5. Shape(L) /\ L \subseteq Version /\ \A v \in L : v.template = t
  BY <1>2, <1>4 DEF IInv, TableInv, TypeOK, Lineage
<1>6. View(r, t) = L
  BY <1>2 DEF View
<1> QED
  BY <1>1, <1>2, <1>4, <1>5, <1>6 DEF ReadOK

\* 404, rename, or go on.
LEMMA DecideStep ==
    ASSUME IInv, NEW r \in Requests, Decide(r), NEW t, t = op[r].template,
           NEW L, L = Lineage(t), NEW n, n = op[r].name
    PROVE  IInv'
<1>1. pc[r] = "relock" /\ want[r] = {} /\ UNCHANGED <<mirrored, table, op>> /\ Lineage(t)' = L
  BY DEF Decide, Lineage
<1>2. CASE Goto(r, "refused") /\ EndTx(r)
  BY <1>1, <1>2, RefuseStep
<1>3. CASE Locked(r) # {} /\ pc' = [pc EXCEPT ![r] = "edit"] /\ UNCHANGED <<dirty, locks, want, seen>>
  <2>1. pc'[r] = "edit" /\ dirty'[r] = {}
    BY <1>1, <1>3, DecideFacts DEF IInv, TypeOK
  <2>2. \A q \in Requests : q # r => Same(q)
    BY <1>1, <1>3 DEF Same, IInv, TypeOK
  <2>3. TypeOK' /\ LockInv' /\ MintInv'
    BY <1>1, <1>3 DEF IInv, TypeOK, LockInv, MintInv
  <2>4. NameInv'
    BY <1>1, <2>1, <2>2, NameFrame
  <2>5. View(r, t)' = L
    BY <1>1, <2>1 DEF View
  <2>6. Keeps(L, L) /\ Keys({}) = {}
    BY DEF Keeps, Keys
  <2>7. AskOK(r)' /\ ReadOK(r, t)'
    BY <1>1, <1>3, <2>1, DecideFacts DEF AskOK, ReadOK
  <2>8. TxOK(r, t)'
    BY <1>1, <1>3, <2>1, <2>5, <2>6, DecideFacts DEF TxOK, Fresh, Decided, Owns, Keys, Key
  <2> QED
    BY <1>1, <2>2, <2>3, <2>4, <2>7, <2>8, LocalStep DEF RequestOK
<1> DEFINE f == [v \in L |-> [v EXCEPT !.name = n]]
           D == {f[v] : v \in L}
<1>4. CASE /\ Locked(r) # {} /\ n # None /\ pc' = [pc EXCEPT ![r] = "checkRename"]
           /\ dirty' = [dirty EXCEPT ![r] = {[v EXCEPT !.name = n] : v \in View(r, t)}]
           /\ UNCHANGED <<locks, want, seen>>
  <2>1. /\ t \in Templates /\ op[r].kind = "patch" /\ dirty[r] = {} /\ View(r, t) = L
        /\ Owns(r, t) /\ L # {} /\ Shape(L) /\ L \subseteq Version
        /\ \A v \in L : v.template = t
        /\ op[r].edits => seen[r] = Keys(L)
    BY <1>1, <1>4, DecideFacts
  <2>2. n \in Names
    BY <1>4 DEF IInv, TypeOK, Op
  <2>3. \A v \in L : /\ f[v] \in Version /\ f[v].template = v.template /\ f[v].seq = v.seq
                     /\ f[v].status = v.status /\ f[v].pred = v.pred /\ f[v].rules = v.rules
                     /\ f[v].name = n
    BY <2>1, <2>2 DEF Version
  <2>4. dirty' = [dirty EXCEPT ![r] = D]
    BY <1>4, <2>1
  <2> HIDE DEF f
  <2>5. \A v \in L : Key(f[v]) = Key(v)
    BY <2>3 DEF Key
  <2>6. Keys(D) = Keys(L) /\ (\A v \in D : v.template = t) /\ D \subseteq Version
    BY <2>1, <2>3, <2>5 DEF Keys
  <2>7. Shape(D)
    BY <2>1, <2>3, ShapeMap
  <2>8. Keeps(L, D)
    <3>1. Keeps(L, L)
      BY DEF Keeps
    <3> QED
      BY <2>3, <2>5, <3>1, KeepsMap
  <2> HIDE DEF D
  <2>9. pc'[r] = "checkRename" /\ dirty'[r] = D
    BY <1>4, <2>4 DEF IInv, TypeOK
  <2>10. View(r, t)' = D
    <3>1. View(r, t)' = D \cup {v \in L : Key(v) \notin Keys(D)}
      BY <1>1, <2>6, <2>9, NewView
    <3> QED
      BY <2>6, <3>1 DEF Keys
  <2>11. \A q \in Requests : q # r => Same(q)
    BY <1>1, <1>4, <2>4 DEF Same, IInv, TypeOK
  <2>12. TypeOK'
    BY <1>1, <1>4, <2>4, <2>6 DEF IInv, TypeOK
  <2>13. LockInv' /\ MintInv'
    BY <1>1, <1>4 DEF IInv, LockInv, MintInv
  <2>14. NameInv'
    BY <1>1, <2>9, <2>11, NameFrame DEF Sure
  <2>15. AskOK(r)' /\ ReadOK(r, t)'
    BY <1>1, <2>1, <2>9 DEF AskOK, ReadOK
  <2>16. TxOK(r, t)'
    <3>1. Keys(dirty[r])' = Keys(D) /\ Keys(Lineage(t))' = Keys(L)
      BY <1>1, <2>9 DEF Keys, Key
    <3> QED
      BY <1>1, <1>4, <2>1, <2>6, <2>7, <2>8, <2>9, <2>10, <3>1 DEF TxOK, Fresh, Decided, Owns
  <2> QED
    BY <1>1, <2>11, <2>12, <2>13, <2>14, <2>15, <2>16, LocalStep DEF RequestOK
<1> QED
  BY <1>2, <1>3, <1>4 DEF Decide, Goto, txVars


\* Names a request has settled on, or that the table has, are its own to write.
LEMMA NameKept ==
    ASSUME IInv, NEW r \in Requests, UNCHANGED table, \A q \in Requests : q # r => Same(q),
           Sure(r),
           \A v \in dirty'[r] : \E u \in dirty[r] \cup table :
               u.name = v.name /\ u.template = v.template
    PROVE  NameInv'
<1>1. ASSUME NEW v \in dirty'[r]
      PROVE  /\ \A w \in table : v.name = w.name => v.template = w.template
             /\ \A q \in Requests : q # r /\ Sure(q) =>
                   \A w \in dirty[q] : v.name = w.name => v.template = w.template
  <2>1. PICK u \in dirty[r] \cup table : u.name = v.name /\ u.template = v.template
    OBVIOUS
  <2> QED
    BY <2>1 DEF IInv, NameInv, NameHasOneOwner
<1> QED
  BY <1>1, NameFrame

\* What a PATCH that edits rules knows: its rows are the lineage.
LEMMA EditFacts ==
    ASSUME IInv, NEW r \in Requests, pc[r] = "edit", op[r].edits,
           NEW t, t = op[r].template, NEW L, L = Lineage(t)
    PROVE  /\ t \in Templates /\ op[r].kind = "patch" /\ Owns(r, t) /\ L # {} /\ Shape(L)
           /\ Locked(r) = L /\ seen[r] = Keys(L) /\ Keys(dirty[r]) \subseteq Keys(L)
           /\ L \subseteq Version /\ dirty[r] \subseteq Version
           /\ \A v \in L \cup dirty[r] : v.template = t
           /\ View(r, t) = dirty[r] \cup {v \in L : Key(v) \notin Keys(dirty[r])}
           /\ Shape(View(r, t)) /\ Keeps(L, View(r, t))
<1>1. AskOK(r) /\ TxOK(r, t)
  BY DEF IInv, RequestInv
<1>2. t \in Templates /\ op[r].kind = "patch"
  BY <1>1 DEF AskOK
<1>3. /\ Owns(r, t) /\ L # {} /\ seen[r] = Keys(L) /\ Keys(dirty[r]) \subseteq Keys(L)
      /\ \A v \in dirty[r] : v.template = t
      /\ Shape(View(r, t)) /\ Keeps(L, View(r, t))
  BY <1>1, <1>2 DEF TxOK, Decided
<1>4. Shape(L) /\ L \subseteq Version /\ dirty[r] \subseteq Version /\ \A v \in L : v.template = t
  BY <1>2, <1>3 DEF IInv, TableInv, TypeOK, Lineage
<1>5. Locked(r) = L
  BY <1>3 DEF Locked, Keys, Key, Lineage
<1>6. View(r, t) = dirty[r] \cup {v \in L : Key(v) \notin Keys(dirty[r])}
  BY <1>3, ViewOf
<1> QED
  BY <1>2, <1>3, <1>4, <1>5, <1>6

\* Nothing to edit, or the DRAFT in place, or a DRAFT chained to version 1.
LEMMA ApplyStep ==
    ASSUME IInv, NEW r \in Requests, ApplyRulesEdit(r), NEW t, t = op[r].template,
           NEW L, L = Lineage(t), NEW W, W = View(r, t), NEW E, E = Editable(r),
           NEW old, old = dirty[r]
    PROVE  IInv'
<1>1. /\ pc[r] = "edit" /\ UNCHANGED <<mirrored, table, locks, op, want, seen>>
      /\ Lineage(t)' = L
  BY DEF ApplyRulesEdit, Lineage
<1>2. Sure(r) /\ AskOK(r) /\ TxOK(r, t) /\ t \in Templates /\ op[r].kind = "patch"
  BY <1>1 DEF Sure, IInv, RequestInv, AskOK
<1>3. LockInv' /\ MintInv'
  BY <1>1 DEF IInv, LockInv, MintInv
<1>4. ASSUME NEW D \in SUBSET Version, dirty' = [dirty EXCEPT ![r] = D],
             NEW p \in {"commit", "checkChain"}, pc' = [pc EXCEPT ![r] = p],
             \A v \in D : v.template = t,
             \A v \in D : \E u \in old \cup table : u.name = v.name /\ u.template = v.template,
             NEW X, X = D \cup {v \in L : Key(v) \notin Keys(D)}, Shape(X), Keeps(L, X)
      PROVE  IInv'
  <2>1. pc'[r] = p /\ dirty'[r] = D
    BY <1>4 DEF IInv, TypeOK
  <2>2. \A q \in Requests : q # r => Same(q)
    BY <1>1, <1>4 DEF Same, IInv, TypeOK
  <2>3. TypeOK'
    BY <1>1, <1>4 DEF IInv, TypeOK
  <2>4. NameInv'
    BY <1>1, <1>2, <1>4, <2>1, <2>2, NameKept
  <2>5. View(r, t)' = X
    BY <1>1, <1>4, <2>1, NewView
  <2>6. AskOK(r)' /\ ReadOK(r, t)'
    BY <1>1, <1>2, <2>1 DEF AskOK, ReadOK
  <2>7. Owns(r, t) /\ L # {} /\ (op[r].edits => seen[r] = Keys(L))
    BY <1>1, <1>2 DEF TxOK, Decided
  <2>8. TxOK(r, t)'
    <3>1. Keys(Lineage(t))' = Keys(L)
      BY <1>1 DEF Keys, Key
    <3> QED
      BY <1>1, <1>2, <1>4, <2>1, <2>5, <2>7, <3>1 DEF TxOK, Fresh, Decided, Owns
  <2> QED
    BY <1>1, <1>3, <2>2, <2>3, <2>4, <2>6, <2>8, LocalStep DEF RequestOK
<1>5. CASE pc' = [pc EXCEPT ![r] = "commit"] /\ UNCHANGED dirty
  <2>1. \A v \in old : v.template = t
    BY <1>1, <1>2 DEF TxOK, Decided
  <2>2. W = old \cup {v \in L : Key(v) \notin Keys(old)}
    BY <2>1, ViewOf
  <2>3. Shape(W) /\ Keeps(L, W)
    BY <1>1, <1>2 DEF TxOK, Decided
  <2>4. dirty' = [dirty EXCEPT ![r] = old] /\ old \in SUBSET Version
    BY <1>5 DEF IInv, TypeOK
  <2> QED
    BY <1>4, <1>5, <2>1, <2>2, <2>3, <2>4
<1>6. op[r].edits =>
        /\ L # {} /\ Shape(L) /\ Locked(r) = L /\ L \subseteq Version /\ old \subseteq Version
        /\ \A v \in L \cup old : v.template = t
        /\ Keys(old) \subseteq Keys(L)
        /\ W = old \cup {v \in L : Key(v) \notin Keys(old)}
        /\ Shape(W) /\ Keeps(L, W)
  BY <1>1, EditFacts
<1>7. CASE /\ op[r].edits /\ pc' = [pc EXCEPT ![r] = "commit"]
           /\ dirty' = [dirty EXCEPT ![r] =
                {v \in @ : Key(v) \notin E}
                \cup {[v EXCEPT !.rules = r] : v \in {w \in W : Key(w) \in E}}]
  <2> DEFINE f == [v \in W |-> IF Key(v) \in E THEN [v EXCEPT !.rules = r] ELSE v]
             D == {v \in old : Key(v) \notin E} \cup {f[v] : v \in {w \in W : Key(w) \in E}}
             X == {f[v] : v \in W}
  <2>1. /\ L # {} /\ Shape(L) /\ Locked(r) = L /\ L \subseteq Version /\ old \subseteq Version
        /\ \A v \in L \cup old : v.template = t
        /\ W = old \cup {v \in L : Key(v) \notin Keys(old)}
        /\ Shape(W) /\ Keeps(L, W)
    BY <1>6, <1>7
  <2>2. E = Keys({v \in L : v.status = "DRAFT"})
    BY <2>1 DEF Editable, Drafts, Keys
  <2>3. \A v \in W : v \in Version /\ v.template = t /\ (Key(v) \in E => v.status = "DRAFT")
    <3>1. \A v \in W : v \in Version /\ v.template = t
      BY <2>1
    <3>2. ASSUME NEW v \in W, Key(v) \in E
          PROVE  v.status = "DRAFT"
      <4>1. PICK d \in L : d.status = "DRAFT" /\ Key(d) = Key(v)
        BY <2>2, <3>2 DEF Keys
      <4>2. v.seq = d.seq
        BY <4>1 DEF Key
      <4>3. d.seq = 2
        BY <2>1, <4>1 DEF Shape
      <4> QED
        BY <2>1, <4>2, <4>3 DEF Shape
    <3> QED
      BY <3>1, <3>2
  <2>4. \A v \in W : /\ f[v] \in Version /\ f[v].template = v.template /\ f[v].seq = v.seq
                     /\ f[v].status = v.status /\ f[v].pred = v.pred /\ f[v].name = v.name
                     /\ v.status = "ACTIVE" => f[v].rules = v.rules
    BY <2>3 DEF Version
  <2>5. \A v \in W : Key(f[v]) = Key(v) /\ (Key(v) \notin E => f[v] = v)
    BY <2>4 DEF Key
  <2>6. dirty' = [dirty EXCEPT ![r] = D]
    <3>1. \A v \in W : Key(v) \in E => f[v] = [v EXCEPT !.rules = r]
      OBVIOUS
    <3> HIDE DEF f
    <3>2. {[v EXCEPT !.rules = r] : v \in {w \in W : Key(w) \in E}}
            = {f[v] : v \in {w \in W : Key(w) \in E}}
      BY <3>1
    <3> QED
      BY <1>7, <3>2
  <2> HIDE DEF f
  <2>7. X = D \cup {v \in L : Key(v) \notin Keys(D)}
    <3>1. ASSUME NEW v \in L, Key(v) \notin Keys(D)
          PROVE  v \in X
      <4>1. PICK u \in W : Key(u) = Key(v)
        BY <2>1 DEF Keys
      <4>2. Key(u) \notin E
        BY <2>5, <3>1, <4>1 DEF Keys
      <4>3. Key(v) \notin Keys(old)
        BY <3>1, <4>1, <4>2 DEF Keys
      <4> QED
        BY <2>1, <2>5, <4>1, <4>2, <4>3
    <3>2. ASSUME NEW v \in D
          PROVE  v \in X
      BY <2>1, <2>5
    <3>3. ASSUME NEW v \in W
          PROVE  f[v] \in D \/ (f[v] \in L /\ Key(f[v]) \notin Keys(D))
      <4>1. CASE Key(v) \in E
        BY <4>1
      <4>2. CASE Key(v) \notin E /\ v \in old
        BY <2>5, <4>2
      <4>3. CASE Key(v) \notin E /\ v \in L /\ Key(v) \notin Keys(old)
        <5>1. Key(v) \notin Keys(D)
          BY <2>5, <4>3 DEF Keys
        <5> QED
          BY <2>5, <4>3, <5>1
      <4> QED
        BY <2>1, <4>1, <4>2, <4>3
    <3>4. \A x \in X : x \in D \cup {v \in L : Key(v) \notin Keys(D)}
      BY <3>3
    <3>5. \A x \in D \cup {v \in L : Key(v) \notin Keys(D)} : x \in X
      BY <3>1, <3>2
    <3> HIDE DEF X, D
    <3> QED
      BY <3>4, <3>5
  <2>8. Shape(X)
    <3>1. \A v, w \in W : f[v].name = f[w].name
      BY <2>1, <2>4 DEF Shape
    <3> QED
      BY <2>1, <2>4, <3>1, ShapeMap
  <2>9. Keeps(L, X)
    BY <2>1, <2>4, <2>5, KeepsMap
  <2>10. D \in SUBSET Version /\ \A v \in D : v.template = t
    BY <2>1, <2>3, <2>4
  <2>11. \A v \in D : \E u \in old \cup table : u.name = v.name /\ u.template = v.template
    <3>1. W \subseteq old \cup table
      BY <2>1 DEF Lineage
    <3> QED
      BY <2>4, <3>1
  <2> HIDE DEF D, X
  <2> QED
    BY <1>4, <1>7, <2>6, <2>7, <2>8, <2>9, <2>10, <2>11
<1>8. CASE /\ op[r].edits /\ E = {} /\ pc' = [pc EXCEPT ![r] = "checkChain"]
           /\ dirty' = [dirty EXCEPT ![r] = @ \cup {Chained(r)}]
  <2> DEFINE c == Chained(r)
             D == old \cup {c}
             X == W \cup {c}
  <2>1. /\ L # {} /\ Shape(L) /\ Locked(r) = L /\ L \subseteq Version /\ old \subseteq Version
        /\ \A v \in L \cup old : v.template = t
        /\ Keys(old) \subseteq Keys(L)
        /\ W = old \cup {v \in L : Key(v) \notin Keys(old)}
        /\ Shape(W) /\ Keeps(L, W)
    BY <1>1, <1>8, <1>6
  <2>2. \A v \in L : v.seq = 1
    BY <1>8, <2>1 DEF Editable, Drafts, Shape
  <2>3. \A v \in W : v.seq = 1 /\ v.template = t
    <3>1. \A v \in old : \E u \in L : Key(u) = Key(v)
      BY <2>1 DEF Keys
    <3> QED
      BY <2>1, <2>2, <3>1 DEF Key
  <2>4. NextSeq(r) = 2
    <3>1. {v.seq : v \in W} = {1}
      BY <2>1, <2>3 DEF Shape
    <3>2. Max({1}) = 1
      BY DEF Max
    <3> QED
      BY <3>1, <3>2 DEF NextSeq
  <2>5. EffectiveName(r) = Newest(W).name /\ Newest(W) \in W /\ Newest(W) \in old \cup table
    BY <2>1, NewestOf DEF EffectiveName, Lineage
  <2>6. Newest(L).seq = 1
    BY <2>1, <2>2, NewestOf
  <2>7. /\ c.template = t /\ c.seq = 2 /\ c.status = "DRAFT" /\ c.pred = 1
        /\ c.name = Newest(W).name
    BY <2>1, <2>4, <2>5, <2>6 DEF Chained
  <2>8. c \in Version
    <3>1. Newest(W).name \in Names
      BY <2>1, <2>5 DEF Version
    <3> QED
      BY <1>2, <2>1, <2>4, <2>5, <2>6, <3>1 DEF Chained, Version
  <2> HIDE DEF c
  <2>9. \A v \in L \cup old : Key(v) # Key(c)
    <3>1. \A v \in L \cup old : v.seq = 1
      BY <2>1, <2>2, <2>3
    <3> QED
      BY <2>7, <3>1 DEF Key
  <2>10. X = D \cup {v \in L : Key(v) \notin Keys(D)}
    BY <2>1, <2>9 DEF Keys
  <2>11. Shape(X)
    BY <2>1, <2>3, <2>5, <2>7 DEF Shape
  <2>12. Keeps(L, X)
    BY <2>1 DEF Keeps
  <2>13. D \in SUBSET Version /\ (\A v \in D : v.template = t)
         /\ dirty' = [dirty EXCEPT ![r] = D]
    BY <1>8, <2>1, <2>7, <2>8 DEF c
  <2>14. \A v \in D : \E u \in old \cup table : u.name = v.name /\ u.template = v.template
    BY <2>3, <2>5, <2>7
  <2> HIDE DEF D, X
  <2> QED
    BY <1>4, <1>8, <2>10, <2>11, <2>12, <2>13, <2>14
<1> QED
  BY <1>5, <1>7, <1>8 DEF ApplyRulesEdit, Goto


\* The constraints hold: the name is settled against rows to come as well.
LEMMA CheckStep ==
    ASSUME IInv, NEW r \in Requests, CheckConstraints(r), NEW t, t = op[r].template
    PROVE  IInv'
<1>1. Checking(r) /\ NameBlocks(r) = {} /\ UNCHANGED <<mirrored, table, op>>
  BY DEF CheckConstraints
<1>2. CASE Goto(r, "refused") /\ EndTx(r)
  BY <1>1, <1>2, RefuseStep DEF Checking
<1> DEFINE p == IF pc[r] = "checkRename" THEN "edit" ELSE "commit"
<1>3. CASE ~NameTaken(r) /\ pc' = [pc EXCEPT ![r] = p] /\ UNCHANGED <<dirty, locks, want, seen>>
  <2>1. pc'[r] = p /\ AskOK(r) /\ ReadOK(r, t) /\ TxOK(r, t)
    BY <1>3 DEF IInv, TypeOK, RequestInv
  <2>2. \A q \in Requests : q # r => Same(q)
    BY <1>1, <1>3 DEF Same, IInv, TypeOK
  <2>3. TypeOK' /\ LockInv' /\ MintInv'
    BY <1>1, <1>3 DEF IInv, TypeOK, LockInv, MintInv
  <2>4. NameInv'
    <3>1. CASE pc[r] = "checkChain"
      BY <1>1, <1>3, <2>2, <3>1, NameKept DEF Sure
    <3>2. CASE pc[r] # "checkChain"
      <4>1. \A v \in dirty[r] : v.template = t /\ v \in View(r, t)
        BY <1>1, <2>1 DEF Checking, TxOK, Decided, View
      <4>2. \A v \in dirty[r] : v.name = NewName(r)
        BY <1>1, <2>1, <4>1 DEF Checking, TxOK, Decided, Shape, NewName
      <4>3. \A v \in dirty[r], w \in table : v.name = w.name => v.template = w.template
        BY <1>3, <4>1, <4>2 DEF NameTaken
      <4>4. \A q \in Requests : q # r =>
              \A v \in dirty[r], w \in dirty[q] : v.name = w.name => v.template = w.template
        BY <1>1, <4>1, <4>2 DEF NameBlocks
      <4> QED
        BY <1>1, <1>3, <2>2, <4>3, <4>4, NameFrame
    <3> QED
      BY <3>1, <3>2
  <2>5. Lineage(t)' = Lineage(t) /\ View(r, t)' = View(r, t)
    BY <1>1, <1>3 DEF Lineage, View, Key
  <2>6. AskOK(r)' /\ ReadOK(r, t)'
    BY <1>1, <1>3, <2>1, <2>5 DEF Checking, AskOK, ReadOK
  <2>7. TxOK(r, t)'
    BY <1>1, <1>3, <2>1, <2>5 DEF Checking, AskOK, TxOK, Fresh, Decided, Owns
  <2> QED
    BY <1>1, <2>2, <2>3, <2>4, <2>6, <2>7, LocalStep DEF RequestOK
<1> QED
  BY <1>2, <1>3 DEF CheckConstraints, Goto, txVars

\* What a commit makes of the table: the lineage becomes what the transaction saw.
LEMMA CommitTable ==
    ASSUME IInv, NEW r \in Requests, Commit(r), NEW t, t = op[r].template
    PROVE  /\ table' = {v \in table : v.template # t} \cup View(r, t)
           /\ t \in Templates /\ dirty[r] \subseteq View(r, t)
           /\ View(r, t) \subseteq dirty[r] \cup Lineage(t)
           /\ \A v \in View(r, t) : v.template = t /\ v \in Version
           /\ Shape(View(r, t)) /\ Keeps(Lineage(t), View(r, t))
<1>1. pc[r] = "commit" /\ AskOK(r) /\ TxOK(r, t)
  BY DEF Commit, IInv, RequestInv
<1>2. /\ t \in Templates /\ \A v \in dirty[r] : v.template = t
      /\ Shape(View(r, t)) /\ Keeps(Lineage(t), View(r, t))
  BY <1>1 DEF AskOK, TxOK, Decided
<1>3. View(r, t) = dirty[r] \cup {v \in Lineage(t) : Key(v) \notin Keys(dirty[r])}
  BY <1>2, ViewOf
<1>4. \A v \in View(r, t) : v.template = t /\ v \in Version
  BY <1>2, <1>3 DEF Lineage, IInv, TypeOK
<1>5. table' = {v \in table : Key(v) \notin Keys(dirty[r])} \cup dirty[r]
  BY DEF Commit, Keys
<1>6. \A v \in table : v.template # t => Key(v) \notin Keys(dirty[r])
  BY <1>2 DEF Keys, Key
<1>7. \A v \in table' : v \in {w \in table : w.template # t} \cup View(r, t)
  BY <1>3, <1>5 DEF Lineage
<1>8. \A v \in {w \in table : w.template # t} \cup View(r, t) : v \in table'
  BY <1>3, <1>5, <1>6 DEF Lineage
<1> QED
  BY <1>2, <1>3, <1>4, <1>7, <1>8

\* Commit: the view of the transaction becomes the lineage.
LEMMA CommitStep ==
    ASSUME IInv, NEW r \in Requests, Commit(r), NEW t, t = op[r].template,
           NEW W, W = View(r, t)
    PROVE  IInv'
<1>1. /\ pc[r] = "commit" /\ UNCHANGED <<mirrored, op>> /\ EndTx(r)
      /\ pc' = [pc EXCEPT ![r] = "done"] /\ pc'[r] = "done" /\ dirty'[r] = {}
  BY DEF Commit, Goto, EndTx, IInv, TypeOK
<1>2. /\ table' = {v \in table : v.template # t} \cup W
      /\ t \in Templates /\ dirty[r] \subseteq W /\ W \subseteq dirty[r] \cup Lineage(t)
      /\ \A v \in W : v.template = t /\ v \in Version
      /\ Shape(W) /\ Keeps(Lineage(t), W)
  BY CommitTable
<1>3. \A q \in Requests : q # r => Same(q)
  BY <1>1 DEF EndTx, Same, IInv, TypeOK
<1>4. TypeOK'
  <2>1. table' \subseteq Version
    BY <1>2 DEF IInv, TypeOK
  <2> QED
    BY <1>1, <2>1 DEF EndTx, IInv, TypeOK
<1>5. LockInv' /\ MintInv'
  BY <1>1 DEF EndTx, IInv, LockInv, MintInv
<1>6. Lineage(t)' = W /\ \A u : u # t => Lineage(u)' = Lineage(u)
  BY <1>2 DEF Lineage
<1>7. TableInv'
  BY <1>2, <1>6 DEF IInv, TableInv
<1>8. NameInv'
  <2>1. Sure(r) /\ ~Sure(r)'
    BY <1>1 DEF Sure
  <2>2. \A q \in Requests : q # r => (Sure(q)' <=> Sure(q)) /\ dirty'[q] = dirty[q]
    BY <1>3 DEF Sure, Same
  <2>3. \A v \in table' : v \in table \/ v \in dirty[r]
    BY <1>2 DEF Lineage
  <2>4. \A v, w \in dirty[r] : v.template = w.template
    BY <1>2
  <2>5. NameHasOneOwner'
    BY <2>1, <2>3, <2>4 DEF IInv, NameInv, NameHasOneOwner
  <2>6. \A q \in Requests : Sure(q)' =>
          \A v \in dirty'[q], w \in table' : v.name = w.name => v.template = w.template
    BY <2>1, <2>2, <2>3 DEF IInv, NameInv
  <2>7. \A p, q \in Requests : p # q /\ Sure(p)' /\ Sure(q)' =>
          \A v \in dirty'[p], w \in dirty'[q] : v.name = w.name => v.template = w.template
    BY <2>1, <2>2 DEF IInv, NameInv
  <2> QED
    BY <2>5, <2>6, <2>7 DEF NameInv
<1>9. ASSUME NEW q \in Requests
      PROVE  RequestOK(q)'
  <2>1. CASE q = r
    BY <1>1, <2>1 DEF RequestOK, AskOK, ReadOK, TxOK, Fresh, Decided, IInv, RequestInv
  <2>2. CASE q # r /\ op[q].template # t
    BY <1>3, <1>6, <2>2, RequestFrame
  <2>3. CASE q # r /\ op[q].template = t
    <3>1. AskOK(q) /\ ReadOK(q, t) /\ TxOK(q, t) /\ AskOK(r) /\ ReadOK(r, t) /\ TxOK(r, t)
      BY <2>3 DEF IInv, RequestInv
    <3>2. op[r].kind = "create" \/ (Owns(r, t) /\ Lineage(t) # {})
      BY <1>1, <3>1 DEF AskOK, TxOK, Decided
    <3>3. op[r].kind = "create" => Lineage(t) = {} /\ op[q].kind # "create"
      BY <1>1, <2>3, <3>1 DEF ReadOK, IInv, MintInv
    <3>4. Lineage(t) # {} => ~Owns(q, t)
      <4>1. Owns(r, t) /\ Owns(q, t) => q = r
        BY DEF Owns, IInv, LockInv
      <4> QED
        BY <2>3, <3>2, <3>3, <4>1
    <3>5. ~(op[q].kind = "create" /\ pc[q] \in {"insert", "checkCreate", "commit"})
      BY <3>1, <3>2, <3>3 DEF ReadOK
    <3>6. pc[q] \notin Decided \cup {"checkCreate"}
      BY <3>1, <3>4, <3>5 DEF TxOK, AskOK, Decided
    <3>7. ~(op[q].edits /\ pc[q] = "relock")
      BY <3>1, <3>4 DEF ReadOK
    <3>8. Keys(Lineage(t)) \subseteq Keys(W) /\ W # {}
      BY <1>2 DEF Keeps, Shape, Keys
    <3>9. Keys(Lineage(t))' = Keys(W)
      BY <1>6 DEF Keys, Key
    <3>10. AskOK(q)'
      BY <1>3, <2>3, <3>1 DEF AskOK, Same
    <3>11. ReadOK(q, t)'
      BY <1>3, <1>6, <2>3, <3>1, <3>5, <3>7, <3>8, <3>9 DEF ReadOK, Same
    <3>12. TxOK(q, t)'
      BY <1>3, <2>3, <3>1, <3>6 DEF TxOK, Same, Decided
    <3> QED
      BY <1>3, <2>3, <3>10, <3>11, <3>12 DEF RequestOK, Same
  <2> QED
    BY <2>1, <2>2, <2>3
<1> QED
  BY <1>4, <1>5, <1>7, <1>8, <1>9 DEF IInv, RequestInv, RequestOK

----------------------------------------------------------------------------
\* Every step preserves the invariant.
LEMMA NextIInv == IInv /\ [Next]_vars => IInv'
<1> SUFFICES ASSUME IInv, [Next]_vars
             PROVE  IInv'
  OBVIOUS
<1>1. CASE UNCHANGED <<table, dirty, locks, pc, op, want, seen>> /\ mirrored' \in BOOLEAN
  <2>1. TypeOK' /\ TableInv' /\ LockInv' /\ MintInv'
    BY <1>1 DEF IInv, TypeOK, TableInv, Lineage, LockInv, MintInv
  <2>2. NameInv'
    BY <1>1 DEF IInv, NameInv, NameHasOneOwner, Sure
  <2>3. \A q \in Requests : RequestOK(q)'
    <3>1. \A t : Lineage(t)' = Lineage(t)
      BY <1>1 DEF Lineage
    <3> QED
      BY <1>1, <3>1, RequestFrame DEF Same
  <2> QED
    BY <2>1, <2>2, <2>3 DEF IInv, RequestInv, RequestOK
<1>2. ASSUME NEW r \in Requests, Handle(r)
      PROVE  IInv'
  <2>1. CASE Abort(r)
    BY <2>1, RefuseStep DEF Abort
  <2> QED
    BY <1>2, <2>1, BeginCreateStep, BeginPatchStep, InsertStep, ReadTypeStep, SelectStep,
       LockRowStep, DecideStep, ApplyStep, CheckStep, CommitStep DEF Handle
<1> QED
  BY <1>1, <1>2 DEF Next, MirrorTenant, vars, txVars, IInv, TypeOK

\* The invariant holds in every reachable state.
LEMMA Invariance == Spec => []IInv
<1> QED
  BY InitIInv, NextIInv, PTL DEF Spec

\* The type of every variable.
THEOREM TypeCorrect == Spec => []TypeOK
<1>1. IInv => TypeOK
  BY DEF IInv
<1> QED
  BY <1>1, Invariance, PTL

\* NameHasOneOwner: no interleaving of POSTs and renames gives a name to two templates.
THEOREM NamesStayApart == Spec => []NameHasOneOwner
<1>1. IInv => NameHasOneOwner
  BY DEF IInv, NameInv
<1> QED
  BY <1>1, Invariance, PTL


\* A lineage has version 1, and at most a DRAFT besides.
LEMMA LineageIsPair ==
    ASSUME IInv, NEW t \in Templates, Lineage(t) # {}
    PROVE  \E a \in Lineage(t) :
              /\ a.seq = 1 /\ a.status = "ACTIVE"
              /\ \/ Lineage(t) = {a}
                 \/ \E d \in Lineage(t) : /\ d.seq = 2 /\ d.status = "DRAFT" /\ d.pred = 1
                                          /\ d # a /\ Lineage(t) = {a, d}
<1>1. Shape(Lineage(t))
  BY DEF IInv, TableInv
<1>2. PICK a \in Lineage(t) : a.seq = 1
  BY <1>1 DEF Shape
<1>3. a.status = "ACTIVE"
  BY <1>1, <1>2 DEF Shape
<1>4. CASE \E d \in Lineage(t) : d.seq = 2
  <2>1. PICK d \in Lineage(t) : d.seq = 2
    BY <1>4
  <2>2. d.status = "DRAFT" /\ d.pred = 1 /\ d # a
    BY <1>1, <1>2, <2>1 DEF Shape
  <2>3. Lineage(t) = {a, d}
    BY <1>1, <1>2, <2>1 DEF Shape
  <2> QED
    BY <1>2, <1>3, <2>1, <2>2, <2>3
<1>5. CASE ~ \E d \in Lineage(t) : d.seq = 2
  <2>1. Lineage(t) = {a}
    BY <1>1, <1>2, <1>5 DEF Shape
  <2> QED
    BY <1>2, <1>3, <2>1
<1> QED
  BY <1>4, <1>5

\* OneDraft: concurrent PATCHes of a lineage converge on one DRAFT.
THEOREM DraftsConverge == Spec => []OneDraft
<1>1. ASSUME IInv, NEW t \in Templates
      PROVE  Cardinality(Drafts(Lineage(t))) <= 1
  <2>1. Drafts(Lineage(t)) = {} \/ \E d : Drafts(Lineage(t)) = {d}
    <3>1. CASE Lineage(t) = {}
      BY <3>1 DEF Drafts
    <3>2. CASE Lineage(t) # {}
      <4>1. PICK a \in Lineage(t) :
               /\ a.seq = 1 /\ a.status = "ACTIVE"
               /\ \/ Lineage(t) = {a}
                  \/ \E d \in Lineage(t) : /\ d.seq = 2 /\ d.status = "DRAFT" /\ d.pred = 1
                                           /\ d # a /\ Lineage(t) = {a, d}
        BY <1>1, <3>2, LineageIsPair
      <4>2. CASE Lineage(t) = {a}
        BY <4>1, <4>2 DEF Drafts
      <4>3. ASSUME NEW d \in Lineage(t), d.status = "DRAFT", Lineage(t) = {a, d}
            PROVE  Drafts(Lineage(t)) = {d}
        BY <4>1, <4>3 DEF Drafts
      <4> QED
        BY <4>1, <4>2, <4>3
    <3> QED
      BY <3>1, <3>2
  <2>2. CASE Drafts(Lineage(t)) = {}
    BY <2>2, FS_EmptySet
  <2>3. ASSUME NEW d, Drafts(Lineage(t)) = {d}
        PROVE  Cardinality(Drafts(Lineage(t))) <= 1
    BY <2>3, FS_Singleton
  <2> QED
    BY <2>1, <2>2, <2>3
<1>2. IInv => OneDraft
  BY <1>1 DEF OneDraft
<1> QED
  BY <1>2, Invariance, PTL

\* LineageCoherent: numbers without gaps, one name, the ACTIVE version 1 an upload
\* resolves to, and a DRAFT chained to it.
THEOREM LineagesCohere == Spec => []LineageCoherent
<1>1. ASSUME IInv, NEW t \in Templates, NEW L, L = Lineage(t), L # {},
             NEW s, s = Summary(L)
      PROVE  /\ s.latest = s.count
             /\ \A v \in L : v.name = s.name
             /\ s.active = 1 /\ ResolveActive(t) = "ok"
             /\ \A v \in Drafts(L) : v.pred = s.active
  <2>1. Shape(L)
    BY <1>1 DEF IInv, TableInv
  <2>2. PICK a \in L : /\ a.seq = 1 /\ a.status = "ACTIVE"
                       /\ \/ L = {a}
                          \/ \E d \in L : /\ d.seq = 2 /\ d.status = "DRAFT" /\ d.pred = 1
                                          /\ d # a /\ L = {a, d}
    BY <1>1, LineageIsPair
  <2>3. Newest(L) \in L /\ \A v \in L : v.name = Newest(L).name
    BY <2>1, NewestOf DEF Shape
  <2>4. {v \in L : v.status = "ACTIVE"} = {a}
    BY <2>2
  <2>5. Newest({a}) = a
    BY <2>2 DEF Newest
  <2>6. VersionOf(L, "ACTIVE") = 1
    BY <2>2, <2>4, <2>5 DEF VersionOf
  <2>7. \A v \in Drafts(L) : v.pred = 1
    BY <2>1 DEF Drafts, Shape
  <2>8. Newest(L).seq = Cardinality(L)
    <3>1. CASE L = {a}
      BY <2>2, <2>5, <3>1, FS_Singleton
    <3>2. ASSUME NEW d \in L, d.seq = 2, d # a, L = {a, d}
          PROVE  Newest(L).seq = Cardinality(L)
      <4>1. Newest(L).seq = 2
        BY <2>1, <3>2, NewestOf
      <4>2. IsFiniteSet({a}) /\ Cardinality({a}) = 1 /\ {a} \cup {d} = L /\ d \notin {a}
        BY <3>2, FS_Singleton
      <4>3. Cardinality(L) = 2
        BY <4>2, FS_AddElement
      <4> QED
        BY <4>1, <4>3
    <3> QED
      BY <2>2, <3>1, <3>2
  <2>9. /\ s.latest = Newest(L).seq /\ s.count = Cardinality(L) /\ s.name = Newest(L).name
        /\ s.active = VersionOf(L, "ACTIVE")
    BY <1>1 DEF Summary
  <2>10. ResolveActive(t) = "ok"
    BY <1>1, <2>6 DEF ResolveActive
  <2> QED
    BY <2>3, <2>6, <2>7, <2>8, <2>9, <2>10
<1>2. IInv => LineageCoherent
  BY <1>1 DEF LineageCoherent
<1> QED
  BY <1>2, Invariance, PTL

\* ActiveIsImmutable: no step changes the rules of an ACTIVE version or loses a version.
THEOREM ActiveStays == Spec => ActiveIsImmutable
<1>1. ASSUME IInv, [Next]_vars, NEW v \in table
      PROVE  \E w \in table' : /\ Key(w) = Key(v) /\ w.status = v.status
                               /\ v.status = "ACTIVE" => w.rules = v.rules
  <2>1. CASE UNCHANGED table
    BY <2>1
  <2>2. ASSUME NEW r \in Requests, Commit(r), NEW t, t = op[r].template
        PROVE  \E w \in table' : /\ Key(w) = Key(v) /\ w.status = v.status
                                 /\ v.status = "ACTIVE" => w.rules = v.rules
    <3>1. /\ table' = {u \in table : u.template # t} \cup View(r, t)
          /\ Keeps(Lineage(t), View(r, t))
      BY <1>1, <2>2, CommitTable
    <3>2. CASE v.template # t
      BY <3>1, <3>2
    <3>3. CASE v.template = t
      BY <3>1, <3>3 DEF Keeps, Lineage
    <3> QED
      BY <3>2, <3>3
  <2> QED
    BY <1>1, <2>1, <2>2
       DEF Next, vars, MirrorTenant, Handle, BeginCreate, BeginPatch, InsertActive, ReadType,
           SelectForUpdate, LockRow, Decide, ApplyRulesEdit, CheckConstraints, Abort
<1>2. IInv /\ [Next]_vars =>
        [\A v \in table : \E w \in table' :
            /\ Key(w) = Key(v) /\ w.status = v.status
            /\ v.status = "ACTIVE" => w.rules = v.rules]_vars
  BY <1>1
<1> QED
  BY <1>2, Invariance, PTL DEF Spec, ActiveIsImmutable

\* "Concurrent PATCHes serialize on the lineage rows", for what they write: no two open
\* transactions hold rows of one lineage, whatever they wait for on the way.
OneWriter ==
    \A r, q \in Requests : r # q =>
        \A v \in dirty[r], w \in dirty[q] : v.template # w.template

\* OneWriter: the lock of version 1 serializes the writers of a lineage.
THEOREM WritersSerialize == Spec => []OneWriter
<1>1. ASSUME IInv, NEW r \in Requests, NEW v \in dirty[r]
      PROVE  /\ v.template = op[r].template
             /\ \/ op[r].kind = "create" /\ Lineage(v.template) = {}
                \/ Owns(r, v.template) /\ Lineage(v.template) # {}
  <2> DEFINE t == op[r].template
  <2>1. AskOK(r) /\ ReadOK(r, t) /\ TxOK(r, t) /\ pc[r] \in Fresh \cup Decided \cup {"checkCreate"}
    BY <1>1 DEF IInv, RequestInv, TypeOK, Fresh, Decided
  <2>2. pc[r] \in Decided \cup {"checkCreate"} /\ v.template = t
    BY <2>1 DEF TxOK
  <2> QED
    BY <2>1, <2>2 DEF AskOK, ReadOK, TxOK, Decided
<1>2. ASSUME IInv, NEW r \in Requests, NEW q \in Requests, r # q, NEW v \in dirty[r],
             NEW w \in dirty[q], v.template = w.template
      PROVE  FALSE
  <2>1. CASE Lineage(v.template) = {}
    BY <1>1, <1>2, <2>1 DEF IInv, MintInv
  <2>2. CASE Lineage(v.template) # {}
    <3>1. Owns(r, v.template) /\ Owns(q, v.template)
      BY <1>1, <1>2, <2>2
    <3> QED
      BY <1>2, <3>1 DEF Owns, IInv, LockInv
  <2> QED
    BY <2>1, <2>2
<1>3. IInv => OneWriter
  BY <1>2 DEF OneWriter
<1> QED
  BY <1>3, Invariance, PTL
=============================================================================
