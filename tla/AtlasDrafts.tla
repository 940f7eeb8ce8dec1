---------------------------- MODULE AtlasDrafts ----------------------------
(***************************************************************************)
(* The console: the requests of TenantAccess together with those of the    *)
(* Atlas endpoints (handlers/atlas.py), which draft, ratify and publish a  *)
(* canonical schema.  A draft is a row of atlas.schema_drafts; every       *)
(* method of PostgresDraftStore opens a session for each of its            *)
(* statements, so a PATCH is three transactions and a publish is three.    *)
(*                                                                         *)
(* A schema is abstracted to one field the mapping produces and one system *)
(* field, the natural key, and whether the business field carries a        *)
(* curated attribute (mandatory, enum vocabulary, PII class).  All drafts  *)
(* are of one vertical and table, and of version 1, which no code raises.  *)
(***************************************************************************)
EXTENDS TenantAccess

CONSTANTS
    Drafts,     \* ids of drafts
    Keys,       \* natural keys a PATCH may set
    Edits       \* what a PATCH may change of a draft

VARIABLES
    drafts,     \* rows of atlas.schema_drafts
    doc         \* the schema each request has in memory

vars == <<posture, verified, rows, pc, req, seen, drafts, doc>>

SuperAdmin == "atlas:schema:publish"
Business == "price"
System == "store_id"

SchemaIR == [status : {"draft", "published"}, key : Keys \cup {{}},
             curated : BOOLEAN, origin : {"inferred", "human"}]

\* A row: the status column and the IR document; None before the INSERT.
DraftRow == [status : {"draft", "published"}, ir : SchemaIR]

\* An optional value of a request: the set of it, empty when it is not given.
Optional(S) == {{}} \cup {{x} : x \in S}
Given(o, old) == IF o = {} THEN old ELSE CHOOSE x \in o : TRUE

DraftPatch == [key : Optional(Keys \cup {{}}), field : {Business, System, "unknown", None},
               curated : Optional(BOOLEAN), origin : Optional({"inferred", "human"})]

ASSUME AtlasAssumption == Edits \subseteq DraftPatch /\ None \notin DraftRow \cup SchemaIR

AtlasQuery ==
    [token : Tokens, kind : {"draft"}]
    \cup [token : Tokens, kind : {"publish"}, draft : Drafts]
    \cup [token : Tokens, kind : {"ratify"}, draft : Drafts, edit : Edits]

\* The type of every variable.
TypeOK ==
    /\ posture \in {"service", "bypass", "platform_db"}
    /\ verified \in BOOLEAN
    /\ rows \subseteq Row
    /\ pc \in [Requests -> {"idle", "read", "insert", "preread", "patch", "cm", "assemble",
                            "get", "update", "freeze", "write", "done", "refused"}]
    /\ req \in [Requests -> Query \cup Create \cup Patch \cup AtlasQuery \cup {None}]
    /\ seen \in [Requests -> SUBSET (Tenants \cup {None})]
    /\ drafts \in [Drafts -> DraftRow \cup {None}]
    /\ doc \in [Requests -> SchemaIR \cup {None}]

\* A draft may have been worked on already.
Init ==
    /\ AccessInit
    /\ \E ir \in {i \in SchemaIR : i.status = "draft"} \cup {None}, d \in Drafts :
          drafts = [e \in Drafts |-> IF e = d /\ ir # None
                                     THEN [status |-> "draft", ir |-> ir] ELSE None]
    /\ doc = [r \in Requests |-> None]

----------------------------------------------------------------------------
(***************************************************************************)
(* The gate of the console.                                                *)
(***************************************************************************)
ArriveAtlas(r, q) ==
    /\ pc[r] = "idle"
    /\ pc' = [pc EXCEPT ![r] = IF Verified(q.token) THEN "cm" ELSE "refused"]
    /\ req' = [req EXCEPT ![r] = IF Verified(q.token) THEN q ELSE None]
    /\ UNCHANGED <<posture, verified, rows, seen, drafts, doc>>

\* roles_from_grants, and the roles of the token with them.
ResolvedRoles(tok) == tok.roles \cup (IF tok.admin THEN {SuperAdmin} ELSE {})

\* require_super_admin forwards the token to Customer Master: no answer, of
\* whatever kind, is a denial.
AskCm(r) ==
    /\ pc[r] = "cm"
    /\ \/ Goto(r, "refused")
       \/ /\ SuperAdmin \in ResolvedRoles(req[r].token)
          /\ Goto(r, IF req[r].kind = "draft" THEN "assemble" ELSE "get")
    /\ UNCHANGED <<posture, verified, rows, seen, drafts, doc>>

----------------------------------------------------------------------------
(***************************************************************************)
(* The ratify gate (dis_codegen/draft_ir.py).                              *)
(***************************************************************************)
Fields == {Business, System}

\* SNAPSHOT_SYSTEM_PROFILE is locked as human.
Origin(ir, f) == IF f = System THEN "human" ELSE ir.origin

\* is_curated_bearing, from the field's current content.
CuratedBearing(ir, f) == f \in ir.key \/ (f = Business /\ ir.curated)

RatifyViolations(ir) ==
    {f \in Fields : CuratedBearing(ir, f) /\ Origin(ir, f) # "human"}
    \cup (IF ir.key = {} THEN {"natural_key"} ELSE {})

\* assemble_draft_ir: the natural key is undecided, every business field
\* inferred; the proposals may flag it as curated.
AssembleDraft(curated) ==
    [status |-> "draft", key |-> {}, curated |-> curated, origin |-> "inferred"]

\* _apply_patch: None when the field is unknown or locked.
ApplyPatch(ir, e) ==
    IF e.field \notin {Business, None} THEN None
    ELSE IF e.field = None THEN [ir EXCEPT !.key = Given(e.key, @)]
    ELSE [ir EXCEPT !.key = Given(e.key, @),
                    !.curated = Given(e.curated, @),
                    !.origin = Given(e.origin, @)]

----------------------------------------------------------------------------
(***************************************************************************)
(* The draft store.                                                        *)
(***************************************************************************)
Row0(r) == drafts[req[r].draft]

\* One statement in a platform session of its own; it may fail.
Session(r, next) ==
    /\ \/ /\ Opens
          /\ next
       \/ /\ Goto(r, "refused")
          /\ doc' = [doc EXCEPT ![r] = None]
          /\ UNCHANGED drafts
    /\ verified' = VerifiedAfter
    /\ UNCHANGED <<posture, rows, seen>>

\* POST draft: profile, propose, assemble, validate, create.
CreateDraft(r) ==
    /\ pc[r] = "assemble"
    /\ Session(r, \E d \in Drafts, c \in BOOLEAN :
          /\ drafts[d] = None
          /\ drafts' = [drafts EXCEPT ![d] = [status |-> "draft", ir |-> AssembleDraft(c)]]
          /\ Goto(r, "done")
          /\ UNCHANGED doc)

\* The handler's get: 404, or a PATCH applies its edits and a publish its gate.
GetDraft(r) ==
    /\ pc[r] = "get"
    /\ Session(r,
          LET q == req[r]
              new == IF Row0(r) = None THEN None
                     ELSE IF q.kind = "ratify" THEN ApplyPatch(Row0(r).ir, q.edit)
                     ELSE IF RatifyViolations(Row0(r).ir) # {} THEN None
                     ELSE Row0(r).ir
          IN  /\ doc' = [doc EXCEPT ![r] = new]
              /\ Goto(r, IF new = None THEN "refused"
                         ELSE IF q.kind = "ratify" THEN "update" ELSE "freeze")
              /\ UNCHANGED drafts)

\* update reads again: neither the stored nor the new schema may be published.
UpdateGet(r) ==
    /\ pc[r] = "update"
    /\ Session(r,
          /\ Goto(r, IF Row0(r).ir.status = "draft" /\ doc[r].status = "draft"
                     THEN "write" ELSE "refused")
          /\ UNCHANGED <<drafts, doc>>)

\* Mutant: the handler's gate is enough.
GateOnce(ir) == TRUE

\* assert_ratified_for_publish, the gate freeze runs itself.
FreezeGate(ir) == RatifyViolations(ir) = {}

\* freeze reads again, checks the status and runs the gate on what it read.
FreezeGet(r) ==
    /\ pc[r] = "freeze"
    /\ Session(r,
          /\ IF Row0(r).ir.status = "draft" /\ FreezeGate(Row0(r).ir)
             THEN /\ doc' = [doc EXCEPT ![r] = [Row0(r).ir EXCEPT !.status = "published"]]
                  /\ Goto(r, "write")
             ELSE Goto(r, "refused") /\ UNCHANGED doc
          /\ UNCHANGED drafts)

\* Mutant: no trigger.
Mutable(old) == TRUE

\* trg_schema_drafts_immutable_published.
MayUpdate(old) == old.status # "published"

\* uq_schema_drafts_published_version.
VersionFree(d) == \A e \in Drafts \ {d} : drafts[e] = None \/ drafts[e].status # "published"

\* The UPDATE of update, which leaves the status column alone, or of freeze.
WriteDraft(r) ==
    /\ pc[r] = "write"
    /\ Session(r,
          LET d == req[r].draft
              publish == req[r].kind = "publish"
          IN  IF MayUpdate(drafts[d]) /\ (publish => VersionFree(d))
              THEN /\ drafts' = [drafts EXCEPT ![d] =
                                   [status |-> IF publish THEN "published" ELSE @.status,
                                    ir |-> doc[r]]]
                   /\ Goto(r, "done")
                   /\ UNCHANGED doc
              ELSE Goto(r, "refused") /\ UNCHANGED <<drafts, doc>>)

AtlasNext ==
    \E r \in Requests :
        \/ \E q \in AtlasQuery : ArriveAtlas(r, q)
        \/ AskCm(r)
        \/ CreateDraft(r)
        \/ GetDraft(r)
        \/ UpdateGet(r)
        \/ FreezeGet(r)
        \/ WriteDraft(r)

Next == (AccessNext /\ UNCHANGED <<drafts, doc>>) \/ AtlasNext

Spec == Init /\ [][Next]_vars

----------------------------------------------------------------------------
(***************************************************************************)
(* What must hold.                                                         *)
(***************************************************************************)

\* "No path to a published version can skip" the gate: what is published is
\* ratified and says so in the column and in the document, whatever PATCH ran
\* between the two gates of the publish or between its read and its write.
PublishedIsRatified ==
    \A d \in Drafts : drafts[d] # None =>
        /\ drafts[d].status = drafts[d].ir.status
        /\ drafts[d].status = "published" => RatifyViolations(drafts[d].ir) = {}

\* A published version never changes, also not by a PATCH that found it a draft.
PublishedIsFrozen ==
    [][\A d \in Drafts :
          drafts[d] # None /\ drafts[d].status = "published" => drafts'[d] = drafts[d]]_vars
=============================================================================
