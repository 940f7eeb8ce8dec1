---------------------------- MODULE TenantAccess ----------------------------
(***************************************************************************)
(* Whose rows a request of dis-ui-server reads and writes: the token       *)
(* (auth/verifier.py), the scope it resolves to (auth/scope.py), the       *)
(* session that scope opens (db.py, dis-rls) and the row policies of       *)
(* migration 0011 under which its statements run.                          *)
(*                                                                         *)
(* Between the token and the first statement nothing is shared, so a       *)
(* request resolves its scope as it arrives.  Every session is a           *)
(* transaction and a step of its own; what happens between the statements  *)
(* of a PATCH is MappingTemplates' subject.                                *)
(***************************************************************************)
EXTENDS Naturals, FiniteSets

CONSTANTS
    Requests,   \* requests, each handled once
    Tenants,    \* tenants of the deployment
    Templates,  \* template ids
    Tokens,     \* bearer tokens requests may carry
    Seeded,     \* templates that exist already, as a function to their tenants
    None        \* no tenant, no template, nobody

Ops == "dis:ops"
Garbled == "garbled"    \* a tenant claim that is not a UUID

\* A token: whether its signature, issuer, audience, expiry and subject hold,
\* and its claims.  admin is what Customer Master's permissions would say.
Token == [valid : BOOLEAN, userType : {"TENANT", "PLATFORM", "other"},
          tenant : Tenants \cup {Garbled, None}, roles : SUBSET {Ops, "atlas:schema:publish"},
          admin : BOOLEAN]

ASSUME AccessAssumption ==
    /\ Tokens \subseteq Token
    /\ DOMAIN Seeded \subseteq Templates
    /\ \A t \in DOMAIN Seeded : Seeded[t] \in Tenants
    /\ None \notin Tenants \cup Requests \cup Templates

VARIABLES
    posture,    \* what the engine is connected to, and as whom
    verified,   \* whether the engine is in _VERIFIED_ENGINES
    rows,       \* rows of config.source_mappings
    pc,         \* next step of each request
    req,        \* what it asks for, and with which token
    seen        \* tenants of the rows its answer is made of

accessVars == <<posture, verified, rows, pc, req, seen>>

Row == [template : Templates, tenant : Tenants, status : {"ACTIVE", "DRAFT"},
        by : Requests \cup {None}]

ReadKinds == {"templates", "quarantine", "dashboard"}

\* The next step of request r; one that is refused has been answered and is gone.
Goto(r, step) ==
    /\ pc' = [pc EXCEPT ![r] = step]
    /\ req' = IF step = "refused" THEN [req EXCEPT ![r] = None] ELSE req

AccessInit ==
    /\ posture \in {"service", "bypass", "platform_db"}
    /\ verified = FALSE
    /\ rows = {[template |-> t, tenant |-> Seeded[t], status |-> "ACTIVE", by |-> None] :
                  t \in DOMAIN Seeded}
    /\ pc = [r \in Requests |-> "idle"]
    /\ req = [r \in Requests |-> None]
    /\ seen = [r \in Requests |-> {}]

----------------------------------------------------------------------------
(***************************************************************************)
(* From the token to the scope.                                            *)
(***************************************************************************)

\* verify_token: an identity, or 401.  A TENANT token names its tenant, a
\* PLATFORM token names none, and nothing is defaulted.
Verified(tok) ==
    /\ tok.valid
    /\ \/ tok.userType = "TENANT" /\ tok.tenant # None
       \/ tok.userType = "PLATFORM" /\ tok.tenant = None

\* tenant_uuid_of: a claim that does not parse is refused.
HasTenantUuid(tok) == tok.tenant \in Tenants

\* require_read_scope: whether the read is PLATFORM see-all ...
SeesAll(tok) == tok.userType = "PLATFORM"

\* ... and whether there is a scope at all.
RequireReadScope(tok) ==
    IF SeesAll(tok) THEN Ops \in tok.roles ELSE HasTenantUuid(tok)

\* require_tenant, and the UUID every tenant endpoint takes of it.
RequireTenant(tok) == tok.tenant # None /\ HasTenantUuid(tok)

\* Mutant: the tenant the body names wins.
BodyFirst(tok, body) == IF body # None THEN body ELSE tok.tenant

\* resolve_acted_for: the tenant a write acts on, None when it is refused.
ResolveActedFor(tok, body) ==
    IF tok.userType = "TENANT"
    THEN IF body = None /\ HasTenantUuid(tok) THEN tok.tenant ELSE None
    ELSE IF Ops \in tok.roles THEN body ELSE None

----------------------------------------------------------------------------
(***************************************************************************)
(* Sessions and row policies.                                              *)
(***************************************************************************)

\* What rls_session and rls_platform_session set for their transaction.
TenantSession(t) == [userType |-> "TENANT", tenant |-> t]
PlatformSession(t) == [userType |-> "PLATFORM", tenant |-> t]

ReadSession(tok) ==
    IF SeesAll(tok) THEN PlatformSession(None) ELSE TenantSession(tok.tenant)

WriteSession(tok, actedFor) ==
    IF tok.userType = "PLATFORM" THEN PlatformSession(actedFor) ELSE TenantSession(actedFor)

\* _check_posture.
SafePosture == posture = "service"

\* _verified_transaction: the first use of an engine checks what it reached.
Opens == verified \/ SafePosture

\* Mutant: the engine is remembered before it is checked.
Remembered == TRUE

\* An engine is remembered once its check has passed.
VerifiedAfter == verified \/ SafePosture

\* The two-GUC policies of migration 0011.  A role that bypasses them sees all.
Using(g, t) == posture = "bypass" \/ t = g.tenant \/ g.userType = "PLATFORM"
WithCheck(g, t) == posture = "bypass" \/ t = g.tenant
AuditUsing(g, t) == Using(g, t) \/ t = None

----------------------------------------------------------------------------
(***************************************************************************)
(* Reads.  Every tenant has rows in every table; audit.events also has     *)
(* rows of no tenant.                                                      *)
(***************************************************************************)

\* list_template_rows and get_template_rows: the policy alone.
ReadTemplates(g, S) == {v \in S : Using(g, v.tenant)}

\* repos/quarantine.py: the policy, and for a pinned scope the predicate.
ReadQuarantine(tok, g) ==
    {t \in Tenants : Using(g, t) /\ (SeesAll(tok) \/ t = tok.tenant)}

\* fetch_dashboard_metrics: canonical and quarantine counts, audit sums.
ReadDashboard(g) ==
    {t \in Tenants : Using(g, t)} \cup {t \in Tenants \cup {None} : AuditUsing(g, t)}

\* identity_mirror has no policy: repos/stores.py and repos/tenants.py filter.
ReadStores(tok) == {t \in Tenants : t = tok.tenant}

Answer(q) ==
    LET g == IF q.kind = "stores" THEN TenantSession(q.token.tenant) ELSE ReadSession(q.token)
    IN  IF q.kind = "templates" THEN {v.tenant : v \in ReadTemplates(g, rows)}
        ELSE IF q.kind = "quarantine" THEN ReadQuarantine(q.token, g)
        ELSE IF q.kind = "dashboard" THEN ReadDashboard(g)
        ELSE ReadStores(q.token)

\* Where a request starts once its dependencies have run.
Entry(q) ==
    IF ~Verified(q.token) THEN "refused"
    ELSE IF q.kind \in ReadKinds
         THEN IF RequireReadScope(q.token) THEN "read" ELSE "refused"
    ELSE IF q.kind = "stores"
         THEN IF RequireTenant(q.token) THEN "read" ELSE "refused"
    ELSE IF ResolveActedFor(q.token, q.body) = None THEN "refused"
    ELSE IF q.kind = "create" THEN "insert"
    ELSE IF q.edits THEN "preread" ELSE "patch"

Query == [token : Tokens, kind : ReadKinds \cup {"stores"}]
Create == [token : Tokens, kind : {"create"}, body : Tenants \cup {None}, template : Templates]

\* A body may name the template as it is called already: then it does not rename.
Patch == [token : Tokens, kind : {"patch"}, body : Tenants \cup {None},
          template : Templates, renames : BOOLEAN, edits : BOOLEAN]

\* Template ids in use: of the rows, and minted for an INSERT to come.
Minted == {v.template : v \in rows} \cup {req[s].template : s \in {p \in Requests : pc[p] = "insert"}}

Arrive(r, q) ==
    /\ pc[r] = "idle"
    /\ q.kind = "create" => q.template \notin Minted
    /\ pc' = [pc EXCEPT ![r] = Entry(q)]
    /\ req' = [req EXCEPT ![r] = IF Entry(q) = "refused" THEN None ELSE q]
    /\ UNCHANGED <<posture, verified, rows, seen>>

\* The session of a step does not open, or a statement in it fails.
Refuse(r) ==
    /\ Goto(r, "refused")
    /\ UNCHANGED <<rows, seen>>

Read(r) ==
    /\ pc[r] = "read"
    /\ \/ Refuse(r)
       \/ /\ Opens
          /\ seen' = [seen EXCEPT ![r] = Answer(req[r])]
          /\ Goto(r, "done")
          /\ UNCHANGED rows
    /\ verified' = VerifiedAfter
    /\ UNCHANGED posture

----------------------------------------------------------------------------
(***************************************************************************)
(* Writes to the mapping templates.                                        *)
(***************************************************************************)
ActedFor(r) == ResolveActedFor(req[r].token, req[r].body)
Guc(r) == WriteSession(req[r].token, ActedFor(r))

\* create_template: a fresh template id, inserted for the acted-for tenant.
InsertTemplate(r) ==
    /\ pc[r] = "insert"
    /\ \/ Refuse(r)
       \/ /\ Opens
          /\ WithCheck(Guc(r), ActedFor(r))
          /\ rows' = rows \cup {[template |-> req[r].template, tenant |-> ActedFor(r),
                                 status |-> "ACTIVE", by |-> r]}
          /\ seen' = [seen EXCEPT ![r] = {ActedFor(r)}]
          /\ Goto(r, "done")
    /\ verified' = VerifiedAfter
    /\ UNCHANGED posture

\* Mutant: the type is read in the session of the write.
PreReadAsWriter(r) == Guc(r)

\* The handler reads the template's type pinned to the acted-for tenant, "see-all
\* is not needed to read the single template being patched".
PreReadSession(r) == TenantSession(ActedFor(r))

PreRead(r) ==
    /\ pc[r] = "preread"
    /\ \/ Refuse(r)
       \/ /\ Opens
          /\ LET found == {v \in ReadTemplates(PreReadSession(r), rows) :
                              v.template = req[r].template}
             IN  Goto(r, IF found = {} THEN "refused" ELSE "patch")
          /\ UNCHANGED <<rows, seen>>
    /\ verified' = VerifiedAfter
    /\ UNCHANGED posture

\* patch_template in its session: what the SELECTs see, the rows a rename and an
\* edit of the DRAFT update, and the DRAFT that is chained when there is none.
Locked(r) == {v \in ReadTemplates(Guc(r), rows) : v.template = req[r].template}
Draft(r) == {v \in Locked(r) : v.status = "DRAFT"}
Updated(r) ==
    IF req[r].renames THEN Locked(r) ELSE IF req[r].edits THEN Draft(r) ELSE {}
Chained(r) ==
    IF req[r].edits /\ Draft(r) = {}
    THEN {[template |-> req[r].template, tenant |-> ActedFor(r), status |-> "DRAFT", by |-> r]}
    ELSE {}

PatchTemplate(r) ==
    /\ pc[r] = "patch"
    /\ \/ Refuse(r)
       \/ /\ Opens
          /\ \/ Locked(r) = {}
             \/ \E v \in Updated(r) : ~WithCheck(Guc(r), v.tenant)
          /\ Goto(r, "refused")
          /\ UNCHANGED <<rows, seen>>
       \/ /\ Opens
          /\ Locked(r) # {}
          /\ \A v \in Updated(r) \cup Chained(r) : WithCheck(Guc(r), v.tenant)
          /\ rows' = (rows \ Updated(r)) \cup {[v EXCEPT !.by = r] : v \in Updated(r)}
                        \cup Chained(r)
          /\ seen' = [seen EXCEPT ![r] = {v.tenant : v \in Locked(r) \cup Chained(r)}]
          /\ Goto(r, "done")
    /\ verified' = VerifiedAfter
    /\ UNCHANGED posture

AccessNext ==
    \E r \in Requests :
        \/ \E q \in Query \cup Create \cup Patch : Arrive(r, q)
        \/ Read(r)
        \/ InsertTemplate(r)
        \/ PreRead(r)
        \/ PatchTemplate(r)

----------------------------------------------------------------------------
(***************************************************************************)
(* What must hold.                                                         *)
(***************************************************************************)

\* Who may see a row of tenant t: the tenant itself, and a PLATFORM user with
\* dis:ops.  Rows of no tenant are the audit trail's and everybody's.
MaySee(tok, t) ==
    \/ t = None
    \/ tok.userType = "TENANT" /\ tok.tenant = t
    \/ tok.userType = "PLATFORM" /\ Ops \in tok.roles

\* "A TENANT identity is pinned to its own tenant regardless of any dis:ops it
\* also carries": every answer, of reads and of writes, is made of rows its
\* caller may see, also on an engine whose role bypasses the policies, whoever
\* used it first.
AnswersStayInScope ==
    \A r \in Requests : \A t \in seen[r] : MaySee(req[r].token, t)

\* "The tenant a write acts on, discriminated by the verified user_type, never
\* by a client-chosen field": a row's last writer is its tenant, or a PLATFORM
\* user with dis:ops that named it.
WritesAreActedFor ==
    \A v \in rows : v.by # None =>
        LET q == req[v.by]
        IN  \/ q.token.userType = "TENANT" /\ q.token.tenant = v.tenant
            \/ q.token.userType = "PLATFORM" /\ Ops \in q.token.roles /\ q.body = v.tenant

\* A lineage belongs to one tenant.  The SELECTs of a PATCH have no tenant
\* predicate and a PLATFORM session sees every row, so an operator who acts for
\* one tenant on the template of another must be stopped before the INSERT.
LineageHasOneTenant ==
    \A v, w \in rows : v.template = w.template => v.tenant = w.tenant
=============================================================================
