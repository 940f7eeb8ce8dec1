------------------------- MODULE AtlasDraftsProofs -------------------------
(***************************************************************************)
(* The safety of the console (TenantAccess and AtlasDrafts) for any number *)
(* of concurrent requests, tenants, templates, drafts and tokens.          *)
(*                                                                         *)
(* Tenancy rests on two facts no single request establishes: an engine     *)
(* that is remembered as verified is safe for everybody (PostureInv), and  *)
(* the lineage a PATCH edits still has the row of the acted-for tenant     *)
(* that its pre-read found in an earlier transaction (LineageInv).  The    *)
(* ratify gate rests on what a request carries in memory from one          *)
(* transaction of its publish to the next (DocInv).                        *)
(***************************************************************************)
EXTENDS AtlasDrafts, TLAPS

\* An engine that is remembered has passed its check.
PostureInv == verified => SafePosture

\* What the scope dependencies have established for a read and for a write.
ReadAllowed(q) ==
    /\ Verified(q.token)
    /\ IF q.kind = "stores" THEN RequireTenant(q.token) ELSE RequireReadScope(q.token)
WriteAllowed(q) == Verified(q.token) /\ ResolveActedFor(q.token, q.body) # None

\* What the step p of a request q says of it, and of the tenants S it has seen.
CallerOK(p, q, S) ==
    /\ p # "done" => S = {}
    /\ \A t \in S : MaySee(q.token, t)
    /\ p = "read" => q \in Query /\ ReadAllowed(q)
    /\ p = "insert" => q \in Create /\ WriteAllowed(q)
    /\ p \in {"preread", "patch"} => q \in Patch /\ WriteAllowed(q)

CallerInv == \A r \in Requests : CallerOK(pc[r], req[r], seen[r])

\* A minted id is fresh, and what a pre-read found is still there.
LineageOK(p, q) ==
    /\ p = "insert" => \A v \in rows : v.template # q.template
    /\ p = "patch" /\ q.edits =>
          \E v \in rows : v.template = q.template /\ v.tenant = ResolveActedFor(q.token, q.body)

LineageInv ==
    /\ \A r \in Requests : LineageOK(pc[r], req[r])
    /\ \A r, s \in Requests :
          r # s /\ pc[r] = "insert" /\ pc[s] = "insert" => req[r].template # req[s].template

\* A request that has written is over, and its record stays.
WriterInv == \A v \in rows : v.by # None => v.by \in Requests /\ pc[v.by] = "done"

\* What a request carries between the transactions of a PATCH or a publish.
Publishes == [token : Tokens, kind : {"publish"}, draft : Drafts]
Ratifies == [token : Tokens, kind : {"ratify"}, draft : Drafts, edit : Edits]

DocOK(p, q, ir) ==
    /\ p \in {"cm", "assemble"} => q \in AtlasQuery
    /\ p \in {"get", "write"} => q \in Publishes \cup Ratifies
    /\ p = "update" => q \in Ratifies
    /\ p = "freeze" => q \in Publishes
    /\ p \in {"update", "freeze", "write"} => drafts[q.draft] # None /\ ir \in SchemaIR
    /\ p = "write" /\ q.kind = "publish" =>
          ir.status = "published" /\ RatifyViolations(ir) = {}
    /\ p = "write" /\ q.kind = "ratify" => ir.status = "draft"

DocInv == \A r \in Requests : DocOK(pc[r], req[r], doc[r])

\* The inductive invariant.
IInv ==
    /\ TypeOK
    /\ PostureInv
    /\ CallerInv
    /\ LineageInv
    /\ WriterInv
    /\ DocInv
    /\ WritesAreActedFor
    /\ LineageHasOneTenant
    /\ PublishedIsRatified

----------------------------------------------------------------------------
\* Initially there are the seeded templates, at most one draft, and no request.
LEMMA InitIInv == Init => IInv
<1> SUFFICES ASSUME Init
             PROVE  IInv
  OBVIOUS
<1>1. rows \subseteq Row /\ \A v \in rows : v.by = None /\ v.tenant = Seeded[v.template]
  BY AccessAssumption DEF Init, AccessInit, Row
<1>2. drafts \in [Drafts -> DraftRow \cup {None}]
  BY DEF Init, DraftRow, SchemaIR
<1>3. TypeOK
  BY <1>1, <1>2 DEF Init, AccessInit, TypeOK
<1>4. PostureInv /\ CallerInv /\ DocInv
  BY DEF Init, AccessInit, PostureInv, CallerInv, CallerOK, DocInv, DocOK
<1>5. LineageInv /\ LineageHasOneTenant
  BY <1>1 DEF Init, AccessInit, LineageInv, LineageOK, LineageHasOneTenant
<1>6. WriterInv /\ WritesAreActedFor
  BY <1>1 DEF WriterInv, WritesAreActedFor
<1>7. \A d \in Drafts : drafts[d] # None =>
         drafts[d].status = "draft" /\ drafts[d].ir.status = "draft"
  BY DEF Init
<1>8. PublishedIsRatified
  BY <1>7 DEF PublishedIsRatified
<1> QED
  BY <1>3, <1>4, <1>5, <1>6, <1>8 DEF IInv

\* A session opens only on a safe engine.
LEMMA OpensIsSafe == IInv /\ Opens => SafePosture
BY DEF IInv, PostureInv, Opens

\* What a write that is allowed acts for, and what its session may see.
LEMMA WriteScope ==
    ASSUME NEW q \in Create \cup Patch, WriteAllowed(q), NEW t,
           t = ResolveActedFor(q.token, q.body)
    PROVE  /\ t \in Tenants
           /\ \/ q.token.userType = "TENANT" /\ q.token.tenant = t
              \/ q.token.userType = "PLATFORM" /\ Ops \in q.token.roles /\ q.body = t
           /\ WriteSession(q.token, t).tenant = t
           /\ WriteSession(q.token, t).userType = "PLATFORM" => q.token.userType = "PLATFORM"
BY DEF Create, Patch, WriteAllowed, ResolveActedFor, Verified, HasTenantUuid, WriteSession,
       PlatformSession, TenantSession

\* A row that is in the scope of the session is in the scope of the caller.
LEMMA ReadScope ==
    ASSUME IInv, SafePosture, NEW q \in Query, ReadAllowed(q), NEW t \in Answer(q)
    PROVE  t \in Tenants \cup {None} /\ MaySee(q.token, t)
BY DEF IInv, TypeOK, Row, SafePosture, Query, ReadKinds, ReadAllowed, Answer, ReadTemplates,
       ReadQuarantine, ReadDashboard, ReadStores, ReadSession, Using, AuditUsing, Verified,
       HasTenantUuid, SeesAll, RequireReadScope, RequireTenant, TenantSession,
       PlatformSession, MaySee

----------------------------------------------------------------------------
(***************************************************************************)
(* Steps.                                                                  *)
(***************************************************************************)
Steps == {"idle", "read", "insert", "preread", "patch", "cm", "assemble", "get", "update",
          "freeze", "write", "done", "refused"}
Asked == Query \cup Create \cup Patch \cup AtlasQuery \cup {None}

\* Request r moves to step p with request q, answer S and document ir.
Moves(r, p, q, S, ir) ==
    /\ pc' = [pc EXCEPT ![r] = p] /\ p \in Steps
    /\ req' = [req EXCEPT ![r] = q] /\ q \in Asked
    /\ seen' = [seen EXCEPT ![r] = S] /\ S \subseteq Tenants \cup {None}
    /\ doc' = [doc EXCEPT ![r] = ir] /\ ir \in SchemaIR \cup {None}

\* The engine: nobody unsafe is remembered.
LEMMA EngineStep ==
    ASSUME IInv, UNCHANGED posture, verified' \in {verified, VerifiedAfter}
    PROVE  PostureInv' /\ verified' \in BOOLEAN
BY DEF IInv, TypeOK, PostureInv, VerifiedAfter, SafePosture

\* The part of the invariant that is about the other requests.
LEMMA MoveFacts ==
    ASSUME IInv, NEW r \in Requests, NEW p, NEW q, NEW S, NEW ir, Moves(r, p, q, S, ir)
    PROVE  /\ pc' \in [Requests -> Steps]
           /\ req' \in [Requests -> Asked]
           /\ seen' \in [Requests -> SUBSET (Tenants \cup {None})]
           /\ doc' \in [Requests -> SchemaIR \cup {None}]
           /\ pc'[r] = p /\ req'[r] = q /\ seen'[r] = S /\ doc'[r] = ir
           /\ \A s \in Requests : s # r => /\ pc'[s] = pc[s] /\ req'[s] = req[s]
                                           /\ seen'[s] = seen[s] /\ doc'[s] = doc[s]
BY DEF IInv, TypeOK, Moves, Steps, Asked

\* A step of a request that leaves the tables alone.
LEMMA QuietStep ==
    ASSUME IInv, NEW r \in Requests, pc[r] # "done",
           UNCHANGED <<posture, rows, drafts>>, verified' \in {verified, VerifiedAfter},
           NEW p, NEW q, NEW S, NEW ir, Moves(r, p, q, S, ir),
           CallerOK(p, q, S), LineageOK(p, q), DocOK(p, q, ir),
           \A s \in Requests :
               s # r /\ p = "insert" /\ pc[s] = "insert" => q.template # req[s].template
    PROVE  IInv'
<1>1. TypeOK'
  BY EngineStep, MoveFacts DEF IInv, TypeOK, Steps, Asked
<1>2. PostureInv'
  BY EngineStep
<1>3. CallerInv'
  BY MoveFacts DEF IInv, CallerInv
<1>4. \A a, b : (LineageOK(a, b)' <=> LineageOK(a, b))
  BY DEF LineageOK
<1>5. LineageInv'
  BY <1>4, MoveFacts DEF IInv, LineageInv, LineageOK
<1>6. WriterInv' /\ WritesAreActedFor'
  BY MoveFacts DEF IInv, WriterInv, WritesAreActedFor
<1>7. DocInv'
  BY MoveFacts DEF IInv, DocInv, DocOK
<1>8. LineageHasOneTenant' /\ PublishedIsRatified'
  BY DEF IInv, LineageHasOneTenant, PublishedIsRatified
<1> QED
  BY <1>1, <1>2, <1>3, <1>5, <1>6, <1>7, <1>8 DEF IInv

\* A request is refused: its transaction has left nothing behind.
LEMMA RefuseStep ==
    ASSUME IInv, NEW r \in Requests, pc[r] # "done", Goto(r, "refused"),
           UNCHANGED <<posture, rows, seen, drafts>>, verified' \in {verified, VerifiedAfter},
           NEW ir \in SchemaIR \cup {None}, doc' = [doc EXCEPT ![r] = ir]
    PROVE  IInv'
<1>1. seen' = [seen EXCEPT ![r] = {}]
  BY DEF IInv, TypeOK, CallerInv, CallerOK
<1>2. Moves(r, "refused", None, {}, ir)
  BY <1>1 DEF Moves, Goto, Steps, Asked
<1>3. CallerOK("refused", None, {}) /\ LineageOK("refused", None) /\ DocOK("refused", None, ir)
  BY DEF CallerOK, LineageOK, DocOK
<1> QED
  BY <1>2, <1>3, QuietStep

\* A request arrives: its dependencies resolve its scope.
LEMMA ArriveStep ==
    ASSUME IInv, NEW r \in Requests, NEW q \in Query \cup Create \cup Patch, Arrive(r, q),
           UNCHANGED <<drafts, doc>>
    PROVE  IInv'
<1> DEFINE p == Entry(q)
           k == IF p = "refused" THEN None ELSE q
<1>1. p \in Steps
  BY DEF Entry, Steps
<1>2. Moves(r, p, k, {}, doc[r])
  <2>1. seen' = [seen EXCEPT ![r] = {}] /\ doc' = [doc EXCEPT ![r] = doc[r]]
    BY DEF Arrive, IInv, TypeOK, CallerInv, CallerOK
  <2> QED
    BY <1>1, <2>1 DEF Moves, Arrive, Asked, IInv, TypeOK
<1>3. CallerOK(p, k, {})
  <2>1. CASE q \in Query
    BY <2>1 DEF CallerOK, Entry, Query, ReadKinds, ReadAllowed
  <2>2. CASE q \in Create
    BY <2>2 DEF CallerOK, Entry, Create, ReadKinds, WriteAllowed
  <2>3. CASE q \in Patch
    BY <2>3 DEF CallerOK, Entry, Patch, ReadKinds, WriteAllowed
  <2> QED
    BY <2>1, <2>2, <2>3
<1>4. DocOK(p, k, doc[r])
  BY DEF DocOK, Entry
<1>5. p = "insert" => k = q /\ q.template \notin Minted
  BY DEF Arrive, Entry
<1>6. LineageOK(p, k)
  BY <1>5 DEF LineageOK, Entry, Minted
<1>7. \A s \in Requests : s # r /\ p = "insert" /\ pc[s] = "insert" => k.template # req[s].template
  BY <1>5 DEF Minted
<1>8. pc[r] # "done" /\ UNCHANGED <<posture, rows, drafts, verified>>
  BY DEF Arrive
<1> QED
  BY <1>2, <1>3, <1>4, <1>6, <1>7, <1>8, QuietStep

\* A read answers from the rows its session shows.
LEMMA ReadStep ==
    ASSUME IInv, NEW r \in Requests, Read(r), UNCHANGED <<drafts, doc>>
    PROVE  IInv'
<1>1. /\ pc[r] = "read" /\ UNCHANGED <<posture, rows, drafts>> /\ verified' = VerifiedAfter
      /\ doc' = [doc EXCEPT ![r] = doc[r]] /\ doc[r] \in SchemaIR \cup {None}
  BY DEF Read, Refuse, IInv, TypeOK
<1>2. CASE Refuse(r)
  BY <1>1, <1>2, RefuseStep DEF Refuse
<1>3. CASE Opens /\ seen' = [seen EXCEPT ![r] = Answer(req[r])] /\ Goto(r, "done")
  <2> DEFINE q == req[r]
  <2>1. q \in Query /\ ReadAllowed(q) /\ SafePosture
    BY <1>1, <1>3, OpensIsSafe DEF IInv, CallerInv, CallerOK
  <2>2. \A t \in Answer(q) : t \in Tenants \cup {None} /\ MaySee(q.token, t)
    BY <2>1, ReadScope
  <2>3. Moves(r, "done", q, Answer(q), doc[r])
    BY <1>1, <1>3, <2>1, <2>2 DEF Moves, Goto, Steps, Asked, IInv, TypeOK
  <2>4. CallerOK("done", q, Answer(q)) /\ LineageOK("done", q) /\ DocOK("done", q, doc[r])
    BY <2>2 DEF CallerOK, LineageOK, DocOK
  <2> HIDE DEF q
  <2> QED
    BY <1>1, <2>3, <2>4, QuietStep
<1> QED
  BY <1>2, <1>3 DEF Read

\* The pre-read of a PATCH finds the template among the acted-for tenant's.
LEMMA PreReadStep ==
    ASSUME IInv, NEW r \in Requests, PreRead(r), UNCHANGED <<drafts, doc>>
    PROVE  IInv'
<1>1. /\ pc[r] = "preread" /\ UNCHANGED <<posture, rows, drafts>> /\ verified' = VerifiedAfter
      /\ UNCHANGED seen
      /\ doc' = [doc EXCEPT ![r] = doc[r]] /\ doc[r] \in SchemaIR \cup {None}
  BY DEF PreRead, Refuse, IInv, TypeOK
<1>2. CASE Goto(r, "refused")
  BY <1>1, <1>2, RefuseStep
<1>3. CASE Opens /\ Goto(r, "patch")
           /\ \E v \in ReadTemplates(PreReadSession(r), rows) : v.template = req[r].template
  <2> DEFINE q == req[r]
  <2>1. q \in Patch /\ WriteAllowed(q) /\ SafePosture /\ seen[r] = {}
    BY <1>1, <1>3, OpensIsSafe DEF IInv, CallerInv, CallerOK
  <2>2. Moves(r, "patch", q, {}, doc[r])
    BY <1>1, <1>3, <2>1 DEF Moves, Goto, Steps, Asked, IInv, TypeOK
  <2>3. CallerOK("patch", q, {}) /\ DocOK("patch", q, doc[r])
    BY <2>1 DEF CallerOK, DocOK
  <2>4. LineageOK("patch", q)
    BY <1>3, <2>1 DEF LineageOK, ReadTemplates, PreReadSession, TenantSession, Using,
                      SafePosture, ActedFor
  <2> HIDE DEF q
  <2> QED
    BY <1>1, <2>2, <2>3, <2>4, QuietStep
<1> QED
  BY <1>2, <1>3 DEF PreRead, Refuse

\* A request that ends leaves what the others carry alone.
LEMMA DoneStep ==
    ASSUME IInv, NEW r \in Requests, UNCHANGED drafts,
           NEW q, NEW S, NEW ir, Moves(r, "done", q, S, ir)
    PROVE  DocInv' /\ PublishedIsRatified'
<1>1. ASSUME NEW s \in Requests
      PROVE  DocOK(pc[s], req[s], doc[s])'
  <2>1. CASE s = r
    BY <2>1, MoveFacts DEF DocOK
  <2>2. CASE s # r
    <3>1. pc'[s] = pc[s] /\ req'[s] = req[s] /\ doc'[s] = doc[s]
      BY <2>2, MoveFacts
    <3>2. DocOK(pc[s], req[s], doc[s])
      BY DEF IInv, DocInv
    <3> QED
      BY <3>1, <3>2 DEF DocOK
  <2> QED
    BY <2>1, <2>2
<1>2. PublishedIsRatified'
  BY DEF IInv, PublishedIsRatified
<1> QED
  BY <1>1, <1>2 DEF DocInv

\* create_template: the id is fresh, the row is the acted-for tenant's.
LEMMA InsertStep ==
    ASSUME IInv, NEW r \in Requests, InsertTemplate(r), UNCHANGED <<drafts, doc>>,
           NEW q, q = req[r], NEW t, t = ActedFor(r)
    PROVE  IInv'
<1>1. /\ pc[r] = "insert" /\ UNCHANGED <<posture, drafts>> /\ verified' = VerifiedAfter
      /\ doc' = [doc EXCEPT ![r] = doc[r]] /\ doc[r] \in SchemaIR \cup {None}
  BY DEF InsertTemplate, IInv, TypeOK
<1>2. CASE Refuse(r)
  BY <1>1, <1>2, RefuseStep DEF Refuse
<1> DEFINE w == [template |-> q.template, tenant |-> t, status |-> "ACTIVE", by |-> r]
<1>3. CASE /\ Opens /\ Goto(r, "done")
           /\ rows' = rows \cup {w} /\ seen' = [seen EXCEPT ![r] = {t}]
  <2>1. q \in Create /\ WriteAllowed(q) /\ t = ResolveActedFor(q.token, q.body)
    BY <1>1 DEF IInv, CallerInv, CallerOK, ActedFor
  <2>2. /\ t \in Tenants /\ MaySee(q.token, t)
        /\ \/ q.token.userType = "TENANT" /\ q.token.tenant = t
           \/ q.token.userType = "PLATFORM" /\ Ops \in q.token.roles /\ q.body = t
    BY <2>1, WriteScope DEF MaySee
  <2>3. Moves(r, "done", q, {t}, doc[r])
    BY <1>1, <1>3, <2>1, <2>2 DEF Moves, Goto, Steps, Asked, IInv, TypeOK
  <2>4. w \in Row
    BY <2>1, <2>2 DEF Row, Create
  <2>5. TypeOK'
    BY <1>1, <1>3, <2>3, <2>4, EngineStep, MoveFacts DEF IInv, TypeOK, Steps, Asked
  <2>6. \A v \in rows : v.template # q.template
    BY <1>1 DEF IInv, LineageInv, LineageOK
  <2>7. CallerInv'
    <3>1. CallerOK("done", q, {t})
      BY <2>2 DEF CallerOK
    <3> QED
      BY <2>3, <3>1, MoveFacts DEF IInv, CallerInv
  <2>8. LineageInv'
    <3>1. ASSUME NEW s \in Requests, s # r
          PROVE  LineageOK(pc[s], req[s])'
      <4>1. pc'[s] = pc[s] /\ req'[s] = req[s]
        BY <2>3, <3>1, MoveFacts
      <4>2. pc[s] = "insert" => q.template # req[s].template
        BY <1>1, <3>1 DEF IInv, LineageInv
      <4>3. pc[s] = "insert" => \A v \in rows' : v.template # req[s].template
        BY <1>3, <4>2 DEF IInv, LineageInv, LineageOK
      <4>4. pc[s] = "patch" /\ req[s].edits =>
              \E v \in rows' : /\ v.template = req[s].template
                               /\ v.tenant = ResolveActedFor(req[s].token, req[s].body)
        BY <1>3 DEF IInv, LineageInv, LineageOK
      <4> QED
        BY <4>1, <4>3, <4>4 DEF LineageOK
    <3>2. LineageOK(pc[r], req[r])'
      BY <2>3, MoveFacts DEF LineageOK
    <3>3. \A s \in Requests : LineageOK(pc[s], req[s])'
      BY <3>1, <3>2
    <3>4. \A a, b \in Requests : a # b /\ pc'[a] = "insert" /\ pc'[b] = "insert"
                                   => req'[a].template # req'[b].template
      BY <2>3, MoveFacts DEF IInv, LineageInv
    <3> QED
      BY <3>3, <3>4 DEF LineageInv
  <2>9. WriterInv' /\ WritesAreActedFor'
    BY <1>1, <1>3, <2>2, <2>3, MoveFacts DEF IInv, WriterInv, WritesAreActedFor
  <2>10. LineageHasOneTenant'
    BY <1>3, <2>6 DEF IInv, LineageHasOneTenant
  <2>11. DocInv' /\ PublishedIsRatified'
    BY <1>1, <2>3, DoneStep
  <2> QED
    BY <1>1, <2>5, <2>7, <2>8, <2>9, <2>10, <2>11, EngineStep DEF IInv
<1> QED
  BY <1>2, <1>3 DEF InsertTemplate

\* patch_template: what it updates and chains is the acted-for tenant's.
LEMMA PatchStep ==
    ASSUME IInv, NEW r \in Requests, PatchTemplate(r), UNCHANGED <<drafts, doc>>,
           NEW q, q = req[r], NEW t, t = ActedFor(r), NEW up, up = Updated(r),
           NEW ch, ch = Chained(r)
    PROVE  IInv'
<1>1. /\ pc[r] = "patch" /\ UNCHANGED <<posture, drafts>> /\ verified' = VerifiedAfter
      /\ doc' = [doc EXCEPT ![r] = doc[r]] /\ doc[r] \in SchemaIR \cup {None}
  BY DEF PatchTemplate, IInv, TypeOK
<1>2. CASE Goto(r, "refused") /\ UNCHANGED <<rows, seen>>
  BY <1>1, <1>2, RefuseStep
<1> DEFINE S == {v.tenant : v \in Locked(r) \cup ch}
<1>3. CASE /\ Opens /\ Goto(r, "done") /\ Locked(r) # {}
           /\ \A v \in up \cup ch : WithCheck(Guc(r), v.tenant)
           /\ rows' = (rows \ up) \cup {[v EXCEPT !.by = r] : v \in up} \cup ch
           /\ seen' = [seen EXCEPT ![r] = S]
  <2>1. /\ q \in Patch /\ WriteAllowed(q) /\ t = ResolveActedFor(q.token, q.body)
        /\ SafePosture /\ Guc(r) = WriteSession(q.token, t)
    BY <1>1, <1>3, OpensIsSafe DEF IInv, CallerInv, CallerOK, ActedFor, Guc
  <2>2. /\ t \in Tenants
        /\ \/ q.token.userType = "TENANT" /\ q.token.tenant = t
           \/ q.token.userType = "PLATFORM" /\ Ops \in q.token.roles /\ q.body = t
        /\ Guc(r).tenant = t
        /\ Guc(r).userType = "PLATFORM" => q.token.userType = "PLATFORM"
    BY <2>1, WriteScope
  <2>3. /\ Locked(r) \subseteq rows /\ up \subseteq rows /\ rows \subseteq Row
        /\ \A v \in Locked(r) : v.template = q.template /\ MaySee(q.token, v.tenant)
    <3>1. Locked(r) \subseteq rows /\ up \subseteq rows /\ rows \subseteq Row
      BY DEF Locked, Updated, Draft, ReadTemplates, IInv, TypeOK
    <3>2. \A v \in Locked(r) : v.template = q.template /\ Using(Guc(r), v.tenant)
      BY DEF Locked, ReadTemplates
    <3> QED
      BY <2>1, <2>2, <3>1, <3>2 DEF Using, MaySee, SafePosture
  <2>4. \A v \in up \cup ch : v.tenant = t
    BY <1>3, <2>1, <2>2 DEF WithCheck, SafePosture
  <2>5. /\ ch \subseteq Row
        /\ \A v \in ch : /\ v.template = q.template /\ v.by = r
                         /\ \E u \in rows : u.template = q.template /\ u.tenant = t
    <3>1. ch # {} => q.edits
      BY DEF Chained
    <3>2. q.edits => \E u \in rows : u.template = q.template /\ u.tenant = t
      BY <1>1, <2>1 DEF IInv, LineageInv, LineageOK
    <3>3. ch \subseteq {[template |-> q.template, tenant |-> t, status |-> "DRAFT", by |-> r]}
      BY DEF Chained
    <3> QED
      BY <2>1, <2>2, <3>1, <3>2, <3>3 DEF Row, Patch
  <2>6. S \subseteq Tenants \cup {None} /\ \A x \in S : MaySee(q.token, x)
    BY <2>2, <2>3, <2>4, <2>5 DEF Row, MaySee
  <2>7. Moves(r, "done", q, S, doc[r])
    BY <1>1, <1>3, <2>1, <2>6 DEF Moves, Goto, Steps, Asked, IInv, TypeOK
  <2> HIDE DEF S
  <2>8. \A w \in rows' : /\ w \in Row
                         /\ \/ w \in rows
                            \/ w.by = r /\ w.tenant = t /\ w.template = q.template
                         /\ \E u \in rows : u.template = w.template /\ u.tenant = w.tenant
    <3>1. \A v \in up : /\ [v EXCEPT !.by = r] \in Row
                        /\ [v EXCEPT !.by = r].by = r /\ [v EXCEPT !.by = r].tenant = v.tenant
                        /\ [v EXCEPT !.by = r].template = v.template
      BY <2>3 DEF Row
    <3>2. \A v \in up : v.template = q.template
      BY <2>3 DEF Updated, Draft
    <3> SUFFICES ASSUME NEW w \in rows'
                 PROVE  /\ w \in Row
                        /\ \/ w \in rows
                           \/ w.by = r /\ w.tenant = t /\ w.template = q.template
                        /\ \E u \in rows : u.template = w.template /\ u.tenant = w.tenant
      OBVIOUS
    <3>3. CASE w \in rows
      BY <2>3, <3>3
    <3>4. CASE w \in ch
      BY <2>4, <2>5, <3>4
    <3>5. ASSUME NEW v \in up, w = [v EXCEPT !.by = r]
          PROVE  /\ w \in Row /\ w.by = r /\ w.tenant = t /\ w.template = q.template
                 /\ v \in rows /\ v.template = w.template /\ v.tenant = w.tenant
      BY <2>3, <2>4, <3>1, <3>2, <3>5
    <3> QED
      BY <1>3, <3>3, <3>4, <3>5
  <2>9. \A u \in rows : \E w \in rows' : w.template = u.template /\ w.tenant = u.tenant
    <3>1. \A v \in up : /\ [v EXCEPT !.by = r].tenant = v.tenant
                        /\ [v EXCEPT !.by = r].template = v.template
      BY <2>3 DEF Row
    <3> QED
      BY <1>3, <3>1
  <2>10. TypeOK'
    BY <1>1, <2>7, <2>8, EngineStep, MoveFacts DEF IInv, TypeOK, Steps, Asked
  <2>11. CallerInv'
    <3>1. CallerOK("done", q, S)
      BY <2>6 DEF CallerOK
    <3> QED
      BY <2>7, <3>1, MoveFacts DEF IInv, CallerInv
  <2>12. LineageInv'
    <3>1. ASSUME NEW s \in Requests, s # r
          PROVE  LineageOK(pc[s], req[s])'
      <4>1. pc'[s] = pc[s] /\ req'[s] = req[s]
        BY <2>7, <3>1, MoveFacts
      <4>2. pc[s] = "insert" => \A w \in rows' : w.template # req[s].template
        BY <2>8 DEF IInv, LineageInv, LineageOK
      <4>3. pc[s] = "patch" /\ req[s].edits =>
              \E w \in rows' : /\ w.template = req[s].template
                               /\ w.tenant = ResolveActedFor(req[s].token, req[s].body)
        BY <2>9 DEF IInv, LineageInv, LineageOK
      <4> QED
        BY <4>1, <4>2, <4>3 DEF LineageOK
    <3>2. LineageOK(pc[r], req[r])'
      BY <2>7, MoveFacts DEF LineageOK
    <3>3. \A s \in Requests : LineageOK(pc[s], req[s])'
      BY <3>1, <3>2
    <3>4. \A a, b \in Requests : a # b /\ pc'[a] = "insert" /\ pc'[b] = "insert"
                                   => req'[a].template # req'[b].template
      BY <2>7, MoveFacts DEF IInv, LineageInv
    <3> QED
      BY <3>3, <3>4 DEF LineageInv
  <2>13. WriterInv'
    BY <1>1, <2>7, <2>8, MoveFacts DEF IInv, WriterInv
  <2>14. WritesAreActedFor'
    <3>1. ASSUME NEW w \in rows', w.by # None
          PROVE  LET k == req'[w.by]
                 IN  \/ k.token.userType = "TENANT" /\ k.token.tenant = w.tenant
                     \/ /\ k.token.userType = "PLATFORM" /\ Ops \in k.token.roles
                        /\ k.body = w.tenant
      <4>1. CASE w \in rows
        <5>1. w.by \in Requests /\ w.by # r
          BY <1>1, <3>1, <4>1 DEF IInv, WriterInv
        <5> QED
          BY <2>7, <3>1, <4>1, <5>1, MoveFacts DEF IInv, WritesAreActedFor
      <4>2. CASE w.by = r /\ w.tenant = t
        BY <2>2, <2>7, <4>2, MoveFacts
      <4> QED
        BY <2>8, <4>1, <4>2
    <3> QED
      BY <3>1 DEF WritesAreActedFor
  <2>15. LineageHasOneTenant'
    BY <2>8 DEF IInv, LineageHasOneTenant
  <2>16. DocInv' /\ PublishedIsRatified'
    BY <1>1, <2>7, DoneStep
  <2> QED
    BY <1>1, <2>10, <2>11, <2>12, <2>13, <2>14, <2>15, <2>16, EngineStep DEF IInv
<1> QED
  BY <1>2, <1>3 DEF PatchTemplate, Refuse


----------------------------------------------------------------------------
(***************************************************************************)
(* The Atlas endpoints.                                                    *)
(***************************************************************************)

\* A request that ends with a change of one draft that keeps the gate's promise.
LEMMA DraftStep ==
    ASSUME IInv, NEW r \in Requests, pc[r] # "done", NEW d \in Drafts, NEW x \in DraftRow,
           UNCHANGED <<posture, rows, seen, doc>>, verified' \in {verified, VerifiedAfter},
           Goto(r, "done"), drafts' = [drafts EXCEPT ![d] = x],
           x.status = x.ir.status, x.status = "published" => RatifyViolations(x.ir) = {}
    PROVE  IInv'
<1>1. seen[r] = {}
  BY DEF IInv, CallerInv, CallerOK
<1> DEFINE q == req[r]
           ir == doc[r]
<1>2. Moves(r, "done", q, {}, ir)
  BY <1>1 DEF Moves, Goto, Steps, Asked, IInv, TypeOK
<1> HIDE DEF q, ir
<1>3. drafts' \in [Drafts -> DraftRow \cup {None}]
  BY DEF IInv, TypeOK
<1>4. TypeOK'
  BY <1>2, <1>3, EngineStep, MoveFacts DEF IInv, TypeOK, Steps, Asked
<1>5. CallerInv'
  <2>1. CallerOK("done", q, {})
    BY DEF CallerOK
  <2> QED
    BY <1>2, <2>1, MoveFacts DEF IInv, CallerInv
<1>6. LineageInv'
  <2>1. \A a, b : (LineageOK(a, b)' <=> LineageOK(a, b))
    BY DEF LineageOK
  <2> QED
    BY <1>2, <2>1, MoveFacts DEF IInv, LineageInv, LineageOK
<1>7. WriterInv' /\ WritesAreActedFor' /\ LineageHasOneTenant'
  BY <1>2, MoveFacts DEF IInv, WriterInv, WritesAreActedFor, LineageHasOneTenant
<1>8. ASSUME NEW s \in Requests
      PROVE  DocOK(pc[s], req[s], doc[s])'
  <2>1. CASE s = r
    BY <1>2, <2>1, MoveFacts DEF DocOK
  <2>2. CASE s # r
    <3>1. pc'[s] = pc[s] /\ req'[s] = req[s] /\ doc'[s] = doc[s]
      BY <1>2, <2>2, MoveFacts
    <3>2. \A e \in Drafts : drafts[e] # None => drafts'[e] # None
      BY AtlasAssumption DEF IInv, TypeOK
    <3>3. DocOK(pc[s], req[s], doc[s])
      BY DEF IInv, DocInv
    <3>4. pc[s] \in {"update", "freeze", "write"} => req[s].draft \in Drafts
      BY <3>3 DEF DocOK, Publishes, Ratifies
    <3> QED
      BY <3>1, <3>2, <3>3, <3>4 DEF DocOK
  <2> QED
    BY <2>1, <2>2
<1>9. PublishedIsRatified'
  BY DEF IInv, TypeOK, PublishedIsRatified
<1> QED
  BY <1>4, <1>5, <1>6, <1>7, <1>8, <1>9, EngineStep DEF IInv, DocInv

\* An Atlas request arrives, or Customer Master has answered: nothing is written.
LEMMA GateStep ==
    ASSUME IInv, NEW r \in Requests,
           \/ AskCm(r)
           \/ \E q \in AtlasQuery : ArriveAtlas(r, q)
    PROVE  IInv'
<1>1. /\ UNCHANGED <<posture, verified, rows, seen, drafts, doc>>
      /\ pc[r] \in {"idle", "cm"} /\ seen[r] = {}
      /\ doc' = [doc EXCEPT ![r] = doc[r]] /\ doc[r] \in SchemaIR \cup {None}
  BY DEF AskCm, ArriveAtlas, IInv, TypeOK, CallerInv, CallerOK
<1>2. ASSUME NEW p, NEW q \in AtlasQuery,
             p = "cm" \/ (p = "assemble" /\ q \in AtlasQuery)
               \/ (p = "get" /\ q \in Publishes \cup Ratifies),
             pc' = [pc EXCEPT ![r] = p], req' = [req EXCEPT ![r] = q]
      PROVE  IInv'
  <2>1. Moves(r, p, q, {}, doc[r])
    BY <1>1, <1>2 DEF Moves, Steps, Asked, IInv, TypeOK
  <2>2. CallerOK(p, q, {}) /\ LineageOK(p, q) /\ DocOK(p, q, doc[r]) /\ p # "insert"
    BY <1>2 DEF CallerOK, LineageOK, DocOK
  <2> QED
    BY <1>1, <2>1, <2>2, QuietStep
<1>3. CASE Goto(r, "refused")
  BY <1>1, <1>3, RefuseStep
<1>4. ASSUME NEW q \in AtlasQuery, ArriveAtlas(r, q)
      PROVE  IInv'
  <2>1. CASE Verified(q.token)
    BY <1>2, <1>4, <2>1 DEF ArriveAtlas
  <2>2. CASE ~Verified(q.token)
    BY <1>3, <1>4, <2>2 DEF ArriveAtlas, Goto
  <2> QED
    BY <2>1, <2>2
<1>5. CASE AskCm(r) /\ ~Goto(r, "refused")
  <2>1. req[r] \in AtlasQuery /\ req' = [req EXCEPT ![r] = req[r]]
    BY <1>5 DEF AskCm, Goto, IInv, TypeOK, DocInv, DocOK
  <2>2. CASE req[r].kind = "draft" /\ Goto(r, "assemble")
    BY <1>2, <2>1, <2>2 DEF Goto
  <2>3. CASE req[r].kind # "draft" /\ Goto(r, "get")
    BY <1>2, <2>1, <2>3 DEF Goto, AtlasQuery, Publishes, Ratifies
  <2> QED
    BY <1>5, <2>2, <2>3 DEF AskCm
<1> QED
  BY <1>3, <1>4, <1>5

\* POST draft: what is assembled is a draft.
LEMMA CreateDraftStep ==
    ASSUME IInv, NEW r \in Requests, CreateDraft(r)
    PROVE  IInv'
<1>1. pc[r] = "assemble" /\ UNCHANGED <<posture, rows, seen>> /\ verified' = VerifiedAfter
  BY DEF CreateDraft, Session
<1>2. CASE Goto(r, "refused") /\ doc' = [doc EXCEPT ![r] = None] /\ UNCHANGED drafts
  BY <1>1, <1>2, RefuseStep
<1>3. ASSUME NEW d \in Drafts, NEW c \in BOOLEAN, Goto(r, "done"), UNCHANGED doc,
             drafts' = [drafts EXCEPT ![d] = [status |-> "draft", ir |-> AssembleDraft(c)]]
      PROVE  IInv'
  <2> DEFINE x == [status |-> "draft", ir |-> AssembleDraft(c)]
  <2>1. x \in DraftRow /\ x.status = x.ir.status /\ x.status # "published"
    BY DEF DraftRow, SchemaIR, AssembleDraft
  <2>2. drafts' = [drafts EXCEPT ![d] = x]
    BY <1>3
  <2> HIDE DEF x
  <2> QED
    BY <1>1, <1>3, <2>1, <2>2, DraftStep
<1> QED
  BY <1>2, <1>3 DEF CreateDraft, Session

\* What an optional value leaves is of the type of the value it may replace.
LEMMA GivenType ==
    ASSUME NEW S, NEW o \in Optional(S), NEW old \in S
    PROVE  Given(o, old) \in S
BY DEF Optional, Given

\* A PATCH applied to a schema is a schema, or refused.
LEMMA ApplyPatchType ==
    ASSUME NEW ir \in SchemaIR, NEW e \in Edits
    PROVE  ApplyPatch(ir, e) \in SchemaIR \cup {None}
<1> DEFINE key == Given(e.key, ir.key)
           curated == Given(e.curated, ir.curated)
           origin == Given(e.origin, ir.origin)
<1>1. /\ e.key \in Optional(Keys \cup {{}}) /\ ir.key \in Keys \cup {{}}
      /\ e.curated \in Optional(BOOLEAN) /\ ir.curated \in BOOLEAN
      /\ e.origin \in Optional({"inferred", "human"}) /\ ir.origin \in {"inferred", "human"}
  BY AtlasAssumption DEF DraftPatch, SchemaIR
<1>2. key \in Keys \cup {{}} /\ curated \in BOOLEAN /\ origin \in {"inferred", "human"}
  BY <1>1, GivenType
<1>3. \/ ApplyPatch(ir, e) = None
      \/ ApplyPatch(ir, e) = [ir EXCEPT !.key = key]
      \/ ApplyPatch(ir, e) = [ir EXCEPT !.key = key, !.curated = curated, !.origin = origin]
  BY DEF ApplyPatch
<1> HIDE DEF key, curated, origin
<1> QED
  BY <1>2, <1>3 DEF SchemaIR


\* The handler's read: 404, an edit that is refused, the first gate, or go on.
LEMMA GetDraftStep ==
    ASSUME IInv, NEW r \in Requests, GetDraft(r)
    PROVE  IInv'
<1> DEFINE q == req[r]
           row == drafts[q.draft]
           new == IF row = None THEN None
                  ELSE IF q.kind = "ratify" THEN ApplyPatch(row.ir, q.edit)
                  ELSE IF RatifyViolations(row.ir) # {} THEN None
                  ELSE row.ir
<1>1. /\ pc[r] = "get" /\ UNCHANGED <<posture, rows, seen, drafts>> /\ verified' = VerifiedAfter
      /\ seen[r] = {} /\ q \in Publishes \cup Ratifies
  BY DEF GetDraft, Session, IInv, CallerInv, CallerOK, DocInv, DocOK
<1>2. CASE Goto(r, "refused") /\ doc' = [doc EXCEPT ![r] = None]
  BY <1>1, <1>2, RefuseStep
<1>3. row \in DraftRow \cup {None} /\ q.draft \in Drafts
  BY <1>1 DEF IInv, TypeOK, Publishes, Ratifies
<1>4. new \in SchemaIR \cup {None}
  <2>1. q.kind = "ratify" => q.edit \in Edits
    BY <1>1 DEF Publishes, Ratifies
  <2>2. row # None => row.ir \in SchemaIR
    BY <1>3 DEF DraftRow
  <2> QED
    BY <2>1, <2>2, ApplyPatchType
<1>5. new # None => row # None
  OBVIOUS
<1> DEFINE next == IF new = None THEN "refused" ELSE IF q.kind = "ratify" THEN "update" ELSE "freeze"
<1>6. CASE doc' = [doc EXCEPT ![r] = new] /\ Goto(r, next)
  <2> HIDE DEF new
  <2>1. CASE new = None
    BY <1>1, <1>6, <2>1, RefuseStep
  <2>2. CASE new # None
    <3> DEFINE p == IF q.kind = "ratify" THEN "update" ELSE "freeze"
    <3>1. Goto(r, p)
      BY <1>6, <2>2
    <3>2. Moves(r, p, q, {}, new)
      BY <1>1, <1>4, <1>6, <3>1 DEF Moves, Goto, Steps, Asked, IInv, TypeOK
    <3>3. CallerOK(p, q, {}) /\ LineageOK(p, q)
      BY DEF CallerOK, LineageOK
    <3>4. (p = "update" /\ q \in Ratifies) \/ (p = "freeze" /\ q \in Publishes)
      BY <1>1 DEF Publishes, Ratifies
    <3>5. DocOK(p, q, new)
      BY <1>4, <1>5, <2>2, <3>4 DEF DocOK
    <3>6. p # "insert"
      OBVIOUS
    <3> HIDE DEF p, q
    <3> QED
      BY <1>1, <3>2, <3>3, <3>5, <3>6, QuietStep
  <2> QED
    BY <2>1, <2>2
<1> QED
  BY <1>2, <1>6 DEF GetDraft, Session, Row0

\* The read of update: both documents must be drafts.
LEMMA UpdateGetStep ==
    ASSUME IInv, NEW r \in Requests, UpdateGet(r)
    PROVE  IInv'
<1> DEFINE q == req[r]
           ir == doc[r]
<1>1. /\ pc[r] = "update" /\ UNCHANGED <<posture, rows, seen, drafts>>
      /\ verified' = VerifiedAfter /\ seen[r] = {}
      /\ q \in Ratifies /\ drafts[q.draft] # None /\ ir \in SchemaIR
  BY DEF UpdateGet, Session, IInv, CallerInv, CallerOK, DocInv, DocOK
<1>2. CASE Goto(r, "refused") /\ doc' = [doc EXCEPT ![r] = None]
  BY <1>1, <1>2, RefuseStep
<1>3. doc = [doc EXCEPT ![r] = ir]
  BY DEF IInv, TypeOK
<1>4. CASE Goto(r, "refused") /\ UNCHANGED doc
  BY <1>1, <1>3, <1>4, RefuseStep
<1>5. CASE Goto(r, "write") /\ UNCHANGED doc /\ ir.status = "draft"
  <2>1. Moves(r, "write", q, {}, ir)
    BY <1>1, <1>3, <1>5 DEF Moves, Goto, Steps, Asked, IInv, TypeOK
  <2>2. CallerOK("write", q, {}) /\ LineageOK("write", q)
    BY DEF CallerOK, LineageOK
  <2>3. DocOK("write", q, ir)
    BY <1>1, <1>5 DEF DocOK, Ratifies
  <2> HIDE DEF q, ir
  <2> QED
    BY <1>1, <2>1, <2>2, <2>3, QuietStep
<1> QED
  BY <1>2, <1>4, <1>5 DEF UpdateGet, Session

\* The read of freeze: the gate runs on what will be written.
LEMMA FreezeGetStep ==
    ASSUME IInv, NEW r \in Requests, FreezeGet(r)
    PROVE  IInv'
<1> DEFINE q == req[r]
           row == drafts[q.draft]
           ir == [row.ir EXCEPT !.status = "published"]
<1>1. /\ pc[r] = "freeze" /\ UNCHANGED <<posture, rows, seen, drafts>>
      /\ verified' = VerifiedAfter /\ seen[r] = {}
      /\ q \in Publishes /\ row # None /\ doc[r] \in SchemaIR
  BY DEF FreezeGet, Session, IInv, CallerInv, CallerOK, DocInv, DocOK
<1>2. CASE Goto(r, "refused") /\ doc' = [doc EXCEPT ![r] = None]
  BY <1>1, <1>2, RefuseStep
<1>3. doc = [doc EXCEPT ![r] = doc[r]]
  BY DEF IInv, TypeOK
<1>4. CASE Goto(r, "refused") /\ UNCHANGED doc
  BY <1>1, <1>3, <1>4, RefuseStep
<1>5. CASE Goto(r, "write") /\ doc' = [doc EXCEPT ![r] = ir] /\ FreezeGate(row.ir)
  <2>1. row.ir \in SchemaIR
    BY <1>1 DEF IInv, TypeOK, Publishes, DraftRow
  <2>2. ir \in SchemaIR /\ ir.status = "published"
    BY <2>1 DEF SchemaIR
  <2>3. ir.key = row.ir.key /\ ir.curated = row.ir.curated /\ ir.origin = row.ir.origin
    BY <2>1 DEF SchemaIR
  <2>4. RatifyViolations(ir) = {}
    BY <1>5, <2>3 DEF FreezeGate, RatifyViolations, CuratedBearing, Origin
  <2> HIDE DEF ir
  <2>5. Moves(r, "write", q, {}, ir)
    BY <1>1, <1>5, <2>2 DEF Moves, Goto, Steps, Asked, IInv, TypeOK
  <2>6. CallerOK("write", q, {}) /\ LineageOK("write", q)
    BY DEF CallerOK, LineageOK
  <2>7. DocOK("write", q, ir)
    BY <1>1, <2>2, <2>4 DEF DocOK, Publishes
  <2> HIDE DEF q
  <2> QED
    BY <1>1, <2>5, <2>6, <2>7, QuietStep
<1> QED
  BY <1>2, <1>4, <1>5 DEF FreezeGet, Session, Row0

\* The UPDATE: the status column follows the document it is written with.
LEMMA WriteDraftStep ==
    ASSUME IInv, NEW r \in Requests, WriteDraft(r)
    PROVE  IInv'
<1> DEFINE q == req[r]
           d == q.draft
           ir == doc[r]
           publish == q.kind = "publish"
           x == [status |-> IF publish THEN "published" ELSE drafts[d].status, ir |-> ir]
<1>1. /\ pc[r] = "write" /\ UNCHANGED <<posture, rows, seen>> /\ verified' = VerifiedAfter
      /\ q \in Publishes \cup Ratifies /\ drafts[d] # None /\ ir \in SchemaIR
      /\ publish => ir.status = "published" /\ RatifyViolations(ir) = {}
      /\ ~publish => ir.status = "draft"
  BY DEF WriteDraft, Session, IInv, DocInv, DocOK, Publishes, Ratifies
<1>2. CASE Goto(r, "refused") /\ doc' = [doc EXCEPT ![r] = None] /\ UNCHANGED drafts
  BY <1>1, <1>2, RefuseStep
<1>3. doc = [doc EXCEPT ![r] = ir]
  BY DEF IInv, TypeOK
<1>4. CASE Goto(r, "refused") /\ UNCHANGED <<drafts, doc>>
  BY <1>1, <1>3, <1>4, RefuseStep
<1>5. d \in Drafts /\ drafts \in [Drafts -> DraftRow \cup {None}]
  BY <1>1 DEF IInv, TypeOK, Publishes, Ratifies
<1>6. CASE /\ MayUpdate(drafts[d]) /\ drafts' = [drafts EXCEPT ![d] = x]
           /\ Goto(r, "done") /\ UNCHANGED doc
  <2>1. drafts[d].status = "draft"
    BY <1>1, <1>5, <1>6 DEF MayUpdate, DraftRow
  <2>2. x \in DraftRow /\ x.status = x.ir.status
    BY <1>1, <2>1 DEF DraftRow
  <2>3. x.status = "published" => RatifyViolations(x.ir) = {}
    BY <1>1, <2>1
  <2> HIDE DEF x, d
  <2> QED
    BY <1>1, <1>5, <1>6, <2>2, <2>3, DraftStep
<1> QED
  BY <1>2, <1>4, <1>5, <1>6 DEF WriteDraft, Session

----------------------------------------------------------------------------
\* Every step preserves the invariant.
LEMMA NextIInv == IInv /\ [Next]_vars => IInv'
<1> SUFFICES ASSUME IInv, [Next]_vars
             PROVE  IInv'
  OBVIOUS
<1>1. CASE UNCHANGED vars
  BY <1>1 DEF IInv, vars, TypeOK, PostureInv, SafePosture, CallerInv, LineageInv, LineageOK,
              WriterInv, DocInv, DocOK, WritesAreActedFor, LineageHasOneTenant,
              PublishedIsRatified
<1>2. ASSUME NEW r \in Requests, UNCHANGED <<drafts, doc>>,
             \/ \E q \in Query \cup Create \cup Patch : Arrive(r, q)
             \/ Read(r) \/ InsertTemplate(r) \/ PreRead(r) \/ PatchTemplate(r)
      PROVE  IInv'
  BY <1>2, ArriveStep, ReadStep, InsertStep, PreReadStep, PatchStep
<1>3. ASSUME NEW r \in Requests,
             \/ \E q \in AtlasQuery : ArriveAtlas(r, q)
             \/ AskCm(r) \/ CreateDraft(r) \/ GetDraft(r) \/ UpdateGet(r) \/ FreezeGet(r)
             \/ WriteDraft(r)
      PROVE  IInv'
  BY <1>3, GateStep, CreateDraftStep, GetDraftStep, UpdateGetStep, FreezeGetStep,
     WriteDraftStep
<1> QED
  BY <1>1, <1>2, <1>3 DEF Next, AccessNext, AtlasNext

\* The invariant holds in every reachable state.
LEMMA Invariance == Spec => []IInv
<1> QED
  BY InitIInv, NextIInv, PTL DEF Spec

\* TypeOK, whatever the requests and however they interleave.
THEOREM TypeCorrect == Spec => []TypeOK
<1>1. IInv => TypeOK
  BY DEF IInv
<1> QED
  BY <1>1, Invariance, PTL

\* AnswersStayInScope: no answer holds a row its caller may not see.
THEOREM NobodySeesMore == Spec => []AnswersStayInScope
<1>1. IInv => AnswersStayInScope
  BY DEF IInv, CallerInv, CallerOK, AnswersStayInScope
<1> QED
  BY <1>1, Invariance, PTL

\* WritesAreActedFor: the token decides whose row a request writes.
THEOREM TokenDecidesTenant == Spec => []WritesAreActedFor
<1>1. IInv => WritesAreActedFor
  BY DEF IInv
<1> QED
  BY <1>1, Invariance, PTL

\* LineageHasOneTenant: no operator chains a version to another tenant's template.
THEOREM LineageStaysHome == Spec => []LineageHasOneTenant
<1>1. IInv => LineageHasOneTenant
  BY DEF IInv
<1> QED
  BY <1>1, Invariance, PTL

\* PublishedIsRatified: no path to a published schema skips the gate.
THEOREM GateHolds == Spec => []PublishedIsRatified
<1>1. IInv => PublishedIsRatified
  BY DEF IInv
<1> QED
  BY <1>1, Invariance, PTL

\* PublishedIsFrozen: no step changes a published schema.
THEOREM FrozenStays == Spec => PublishedIsFrozen
<1>1. ASSUME IInv, [Next]_vars, NEW d \in Drafts, drafts[d] # None,
             drafts[d].status = "published"
      PROVE  drafts'[d] = drafts[d]
  <2>1. CASE UNCHANGED drafts
    BY <2>1
  <2>2. ASSUME NEW r \in Requests, CreateDraft(r)
        PROVE  drafts'[d] = drafts[d]
    BY <1>1, <2>2 DEF CreateDraft, Session, IInv, TypeOK
  <2>3. ASSUME NEW r \in Requests, WriteDraft(r)
        PROVE  drafts'[d] = drafts[d]
    BY <1>1, <2>3 DEF WriteDraft, Session, MayUpdate, IInv, TypeOK
  <2> QED
    BY <1>1, <2>1, <2>2, <2>3
       DEF Next, AccessNext, AtlasNext, vars, ArriveAtlas, AskCm, GetDraft, UpdateGet,
           FreezeGet, Session
<1>2. IInv /\ [Next]_vars =>
        [\A d \in Drafts :
           drafts[d] # None /\ drafts[d].status = "published" => drafts'[d] = drafts[d]]_vars
  BY <1>1
<1> QED
  BY <1>2, Invariance, PTL DEF Spec, PublishedIsFrozen
=============================================================================
