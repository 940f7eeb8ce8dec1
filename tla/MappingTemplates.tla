-------------------------- MODULE MappingTemplates --------------------------
(***************************************************************************)
(* The mapping templates of one tenant and one source: the rows of         *)
(* config.source_mappings under concurrent POST and PATCH requests of      *)
(* dis-ui-server (handlers and repos/mapping_templates.py) and under the   *)
(* constraints of the table (migrations 0005 and 0010).                    *)
(*                                                                         *)
(* A template is a lineage of version rows.  POST inserts version 1 as     *)
(* ACTIVE; PATCH renames the lineage, and edits its DRAFT or chains one.   *)
(* Both are one READ COMMITTED transaction.  PostgreSQL is modelled from   *)
(* the statements: a SELECT .. FOR UPDATE takes its snapshot, then locks   *)
(* the rows of it one by one in the order of its ORDER BY; a write is      *)
(* private until the commit; a constraint check waits for a transaction    *)
(* that is about to add or to remove a conflicting row.                    *)
(*                                                                         *)
(* The rules of an edit are identified by the request that carries them.   *)
(* No code promotes or deprecates a version, so every row is ACTIVE or     *)
(* DRAFT.                                                                  *)
(***************************************************************************)
EXTENDS Naturals, FiniteSets, FiniteSetsExt

CONSTANTS
    Requests,   \* requests, each handled once
    Templates,  \* template ids; the fresh ones are minted by POST
    Names,      \* template names
    Seeded,     \* templates that may exist already, as a function to their names
    None        \* no name, no request

ASSUME ConstantsAssumption ==
    /\ DOMAIN Seeded \subseteq Templates
    /\ \A t \in DOMAIN Seeded : Seeded[t] \in Names
    /\ \A t, u \in DOMAIN Seeded : Seeded[t] = Seeded[u] => t = u
    /\ None \notin Requests \cup Names

VARIABLES
    mirrored,   \* whether identity_mirror has the tenant
    table,      \* committed rows of config.source_mappings
    dirty,      \* the rows each open transaction has written
    locks,      \* row locks, as <<row key, request>>
    pc,         \* next step of each request
    op,         \* what it asks for
    want,       \* keys its SELECT .. FOR UPDATE has still to lock
    seen        \* keys the last SELECT .. FOR UPDATE returns

txVars == <<dirty, locks, want, seen>>
vars == <<mirrored, table, dirty, locks, pc, op, want, seen>>

Version == [template : Templates, seq : Nat \ {0}, status : {"ACTIVE", "DRAFT"},
            name : Names, rules : Requests \cup {None}, pred : Nat]
Key(v) == <<v.template, v.seq>>
KeySet == Templates \X (Nat \ {0})
Op == [kind : {"none", "create", "patch"}, template : Templates \cup {None},
       name : Names \cup {None}, edits : BOOLEAN]
NoOp == [kind |-> "none", template |-> None, name |-> None, edits |-> FALSE]

\* The type of every variable.
TypeOK ==
    /\ mirrored \in BOOLEAN
    /\ table \subseteq Version
    /\ dirty \in [Requests -> SUBSET Version]
    /\ locks \subseteq KeySet \X Requests
    /\ pc \in [Requests -> {"idle", "insert", "read", "begin", "lock", "relock",
                            "edit", "checkCreate", "checkRename", "checkChain",
                            "commit", "done", "refused"}]
    /\ op \in [Requests -> Op]
    /\ want \in [Requests -> SUBSET KeySet]
    /\ seen \in [Requests -> SUBSET KeySet]

\* The row create_template inserts; set_csm_version_seq numbers it 1.
First(t, n, r) == [template |-> t, seq |-> 1, status |-> "ACTIVE", name |-> n,
                   rules |-> r, pred |-> 0]

Init ==
    /\ \E S \in SUBSET DOMAIN Seeded :
          /\ table = {First(t, Seeded[t], None) : t \in S}
          /\ mirrored \in {m \in BOOLEAN : S # {} => m}
    /\ dirty = [r \in Requests |-> {}]
    /\ locks = {}
    /\ pc = [r \in Requests |-> "idle"]
    /\ op = [r \in Requests |-> NoOp]
    /\ want = [r \in Requests |-> {}]
    /\ seen = [r \in Requests |-> {}]

----------------------------------------------------------------------------
(***************************************************************************)
(* What a transaction sees and waits for.                                  *)
(***************************************************************************)
Goto(r, step) == pc' = [pc EXCEPT ![r] = step]

Lineage(t) == {v \in table : v.template = t}

\* The rows of template t as request r sees them.
View(r, t) ==
    LET mine == {v \in dirty[r] : v.template = t}
    IN  mine \cup {v \in Lineage(t) : Key(v) \notin {Key(m) : m \in mine}}

Holders(k) == {r \in Requests : <<k, r>> \in locks}

\* The next row to lock: ORDER BY version_seq_per_source DESC.
NextLock(r) == CHOOSE k \in want[r] : \A j \in want[r] : j[2] <= k[2]

\* Requests whose row lock r waits for.
LockWaits(r) ==
    IF pc[r] \in {"lock", "relock"} /\ want[r] # {}
    THEN Holders(NextLock(r)) \ {r}
    ELSE {}

\* The name request r gives its template.
NewName(r) == (CHOOSE v \in dirty[r] : TRUE).name

\* Mutant: only committed rows count.
NobodyBlocks(r) == {}

\* Requests whose open transaction writes, or overwrites, a row of another
\* template with r's name: the check of the EXCLUDE constraint waits for them.
NameBlocks(r) ==
    {q \in Requests \ {r} :
        \E v \in dirty[q] :
            /\ v.template # op[r].template
            /\ \/ v.name = NewName(r)
               \/ \E old \in table : Key(old) = Key(v) /\ old.name = NewName(r)}

\* ex_csm_template_name_per_source, once nobody blocks the check.
NameTaken(r) ==
    \E v \in table : v.template # op[r].template /\ v.name = NewName(r)

\* uq_csm_seq_per_source: the sequence number of an inserted row is in use.
SeqTaken(r) ==
    /\ pc[r] \in {"checkCreate", "checkChain"}
    /\ \E v \in dirty[r], w \in table : v.rules = r /\ Key(w) = Key(v)

----------------------------------------------------------------------------
\* The end of a transaction.
EndTx(r) ==
    /\ dirty' = [dirty EXCEPT ![r] = {}]
    /\ locks' = {l \in locks : l[2] # r}
    /\ want' = [want EXCEPT ![r] = {}]
    /\ seen' = [seen EXCEPT ![r] = {}]

\* The tenant's first mirror sync.
MirrorTenant ==
    /\ ~mirrored
    /\ mirrored' = TRUE
    /\ UNCHANGED <<table, pc, op, txVars>>

\* POST /mapping-templates, past the gates: a fresh template id is minted.
BeginCreate(r, t, n) ==
    /\ pc[r] = "idle"
    /\ Lineage(t) = {} /\ \A q \in Requests : op[q].template # t
    /\ op' = [op EXCEPT ![r] = [kind |-> "create", template |-> t, name |-> n,
                                edits |-> TRUE]]
    /\ Goto(r, "insert")
    /\ UNCHANGED <<mirrored, table, txVars>>

\* The INSERT of create_template.
InsertActive(r) ==
    /\ pc[r] = "insert"
    /\ dirty' = [dirty EXCEPT ![r] = {First(op[r].template, op[r].name, r)}]
    /\ Goto(r, "checkCreate")
    /\ UNCHANGED <<mirrored, table, locks, op, want, seen>>

\* PATCH with a name, rules or both, for any template id.
BeginPatch(r, t, n, edits) ==
    /\ pc[r] = "idle"
    /\ n # None \/ edits
    /\ op' = [op EXCEPT ![r] = [kind |-> "patch", template |-> t, name |-> n,
                                edits |-> edits]]
    /\ IF edits THEN Goto(r, "read") ELSE Goto(r, "begin")
    /\ UNCHANGED <<mirrored, table, txVars>>

\* The handler's own read of the lineage, for the template_type its gate needs.
ReadType(r) ==
    /\ pc[r] = "read"
    /\ IF Lineage(op[r].template) = {} THEN Goto(r, "refused") ELSE Goto(r, "begin")
    /\ UNCHANGED <<mirrored, table, op, txVars>>

\* Mutant: a single locked read.
DecideOnFirst(r) == "relock"

\* Two SELECT .. FOR UPDATE: the first for the locks, the second to decide on.
NextRead(r) == IF pc[r] = "begin" THEN "lock" ELSE "relock"

\* A SELECT .. FOR UPDATE takes its snapshot.
SelectForUpdate(r) ==
    /\ pc[r] = "begin" \/ (pc[r] = "lock" /\ want[r] = {})
    /\ LET rows == {Key(v) : v \in Lineage(op[r].template)}
       IN  /\ want' = [want EXCEPT ![r] = rows]
           /\ seen' = [seen EXCEPT ![r] = rows]
    /\ Goto(r, NextRead(r))
    /\ UNCHANGED <<mirrored, table, dirty, locks, op>>

LockRow(r) ==
    /\ pc[r] \in {"lock", "relock"} /\ want[r] # {}
    /\ LockWaits(r) = {}
    /\ locks' = locks \cup {<<NextLock(r), r>>}
    /\ want' = [want EXCEPT ![r] = @ \ {NextLock(r)}]
    /\ UNCHANGED <<mirrored, table, dirty, pc, op, seen>>

\* The rows the second read returned, newest first.
Locked(r) == {v \in table : Key(v) \in seen[r]}
Newest(S) == CHOOSE v \in S : \A w \in S : w.seq <= v.seq

\* What patch_template does with the locked lineage: 404, rename, or go on.
Decide(r) ==
    /\ pc[r] = "relock" /\ want[r] = {}
    /\ \/ /\ Locked(r) = {}
          /\ Goto(r, "refused") /\ EndTx(r)
       \/ /\ Locked(r) # {}
          /\ op[r].name \notin {None, Newest(Locked(r)).name}
          /\ dirty' = [dirty EXCEPT ![r] =
                         {[v EXCEPT !.name = op[r].name] : v \in View(r, op[r].template)}]
          /\ Goto(r, "checkRename")
          /\ UNCHANGED <<locks, want, seen>>
       \/ /\ Locked(r) # {}
          /\ op[r].name \in {None, Newest(Locked(r)).name}
          /\ Goto(r, "edit")
          /\ UNCHANGED txVars
    /\ UNCHANGED <<mirrored, table, op>>

\* Mutant: the name of the rows as they were locked.
NameBeforeRename(r) == Newest(Locked(r)).name

\* effective_name: the locked rows are stale after a rename.
EffectiveName(r) == Newest(View(r, op[r].template)).name

\* set_csm_version_seq: MAX + 1 over the lineage as the INSERT sees it.
NextSeq(r) == Max({v.seq : v \in View(r, op[r].template)}) + 1

Drafts(S) == {v \in S : v.status = "DRAFT"}

\* The version chained to the newest living one.
Chained(r) ==
    [template |-> op[r].template, seq |-> NextSeq(r), status |-> "DRAFT",
     name |-> EffectiveName(r), rules |-> r, pred |-> Newest(Locked(r)).seq]

\* Mutant: the newest version is edited in place, whatever its status.
EditsHead(r) == {Key(Newest(Locked(r)))}

\* The row an edit may change in place.
Editable(r) == {Key(v) : v \in Drafts(Locked(r))}

\* _apply_rules_edit: edit the DRAFT in place, or chain one.
ApplyRulesEdit(r) ==
    /\ pc[r] = "edit"
    /\ \/ /\ ~op[r].edits
          /\ Goto(r, "commit") /\ UNCHANGED dirty
       \/ /\ op[r].edits /\ Editable(r) # {}
          /\ dirty' = [dirty EXCEPT ![r] =
                {v \in @ : Key(v) \notin Editable(r)}
                \cup {[v EXCEPT !.rules = r] :
                        v \in {w \in View(r, op[r].template) : Key(w) \in Editable(r)}}]
          /\ Goto(r, "commit")
       \/ /\ op[r].edits /\ Editable(r) = {}
          /\ dirty' = [dirty EXCEPT ![r] = @ \cup {Chained(r)}]
          /\ Goto(r, "checkChain")
    /\ UNCHANGED <<mirrored, table, locks, op, want, seen>>

Checking(r) == pc[r] \in {"checkCreate", "checkRename", "checkChain"}

\* The constraints of the statement, once no open transaction blocks the check:
\* the name's owner, the sequence number, and the tenant's foreign key.
CheckConstraints(r) ==
    /\ Checking(r)
    /\ NameBlocks(r) = {}
    /\ \/ /\ NameTaken(r) \/ SeqTaken(r) \/ ~mirrored
          /\ Goto(r, "refused") /\ EndTx(r)
       \/ /\ ~NameTaken(r) /\ ~SeqTaken(r) /\ mirrored
          /\ Goto(r, IF pc[r] = "checkRename" THEN "edit" ELSE "commit")
          /\ UNCHANGED txVars
    /\ UNCHANGED <<mirrored, table, op>>

Commit(r) ==
    /\ pc[r] = "commit"
    /\ table' = {v \in table : Key(v) \notin {Key(d) : d \in dirty[r]}} \cup dirty[r]
    /\ EndTx(r)
    /\ Goto(r, "done")
    /\ UNCHANGED <<mirrored, op>>

\* A statement fails, the process dies, or PostgreSQL ends a deadlock.
Abort(r) ==
    /\ pc[r] \notin {"idle", "done", "refused"}
    /\ EndTx(r)
    /\ Goto(r, "refused")
    /\ UNCHANGED <<mirrored, table, op>>

----------------------------------------------------------------------------
Handle(r) ==
    \/ \E t \in Templates, n \in Names : BeginCreate(r, t, n)
    \/ \E t \in Templates, n \in Names \cup {None}, e \in BOOLEAN : BeginPatch(r, t, n, e)
    \/ InsertActive(r)
    \/ ReadType(r)
    \/ SelectForUpdate(r)
    \/ LockRow(r)
    \/ Decide(r)
    \/ ApplyRulesEdit(r)
    \/ CheckConstraints(r)
    \/ Commit(r)
    \/ Abort(r)

Next == MirrorTenant \/ \E r \in Requests : Handle(r)

Spec == Init /\ [][Next]_vars

----------------------------------------------------------------------------
(***************************************************************************)
(* Reads.                                                                  *)
(***************************************************************************)
VersionOf(S, status) ==
    LET found == {v \in S : v.status = status}
    IN  IF found = {} THEN 0 ELSE Newest(found).seq

\* _summary_fields: a lineage as the list and the detail endpoints show it.
Summary(S) ==
    [name |-> Newest(S).name,
     latest |-> Newest(S).seq,
     active |-> VersionOf(S, "ACTIVE"),
     draft |-> VersionOf(S, "DRAFT"),
     count |-> Cardinality(S)]

\* resolve_active_template, the gate of an upload.
ResolveActive(t) ==
    IF Lineage(t) = {} THEN "not found"
    ELSE IF VersionOf(Lineage(t), "ACTIVE") = 0 THEN "conflict" ELSE "ok"

----------------------------------------------------------------------------
(***************************************************************************)
(* What must hold.                                                         *)
(***************************************************************************)

\* "Chains exactly one new DRAFT off the ACTIVE head": concurrent PATCHes of a
\* lineage converge on one DRAFT, whatever snapshot they woke up on.
OneDraft == \A t \in Templates : Cardinality(Drafts(Lineage(t))) <= 1

\* A lineage is one story: its versions are numbered without gaps, share one
\* name, keep the ACTIVE first version the upload gate needs, and a DRAFT comes
\* from it.
LineageCoherent ==
    \A t \in Templates : Lineage(t) # {} =>
        LET s == Summary(Lineage(t))
        IN  /\ s.latest = s.count
            /\ \A v \in Lineage(t) : v.name = s.name
            /\ s.active = 1 /\ ResolveActive(t) = "ok"
            /\ \A v \in Drafts(Lineage(t)) : v.pred = s.active

\* ex_csm_template_name_per_source: a name belongs to one template, also when
\* two requests give it, or one gives and one takes it, at the same time.
NameHasOneOwner ==
    \A v, w \in table : v.name = w.name => v.template = w.template

\* D17: the rules of a version that is ACTIVE, which canonical rows are pinned
\* to, never change; no version ever disappears.
ActiveIsImmutable ==
    [][\A v \in table : \E w \in table' :
           /\ Key(w) = Key(v) /\ w.status = v.status
           /\ v.status = "ACTIVE" => w.rules = v.rules]_vars

\* patch_template: "concurrent PATCHes serialize on the lineage rows".  No set of
\* them waits for row locks among itself.
PatchesSerialize ==
    \A D \in SUBSET Requests \ {{}} : \E r \in D : LockWaits(r) \cap D = {}
=============================================================================
