----------------------------- MODULE MirrorSync -----------------------------
(***************************************************************************)
(* The DB-pull mode of mirror-sync-consumer: a run reads the tenants and   *)
(* stores of Customer Master and upserts them into identity_mirror, one    *)
(* transaction per tenant, then exits with a code.  Runs come from a       *)
(* scheduler and from the command line; nothing keeps two of them apart.   *)
(*                                                                         *)
(* A row is its version: 0 before it exists, then 1, 2, .. with every      *)
(* change Customer Master makes (all columns, pc_updated_at included).     *)
(* Customer Master is external, its foreign key from stores to tenants     *)
(* included.  The read transaction is READ COMMITTED: its two SELECTs see  *)
(* two snapshots.  An upsert locks the tenant's row, also when its WHERE   *)
(* excludes the update, until the transaction ends.                        *)
(*                                                                         *)
(* Every row of Customer Master is one the mirror takes.  One that         *)
(* CmTenant or CmStore does not parse would end every run before its first *)
(* write, one outside a CHECK's vocabulary every run at its tenant, until  *)
(* Customer Master corrects it.                                            *)
(***************************************************************************)
EXTENDS Naturals, FiniteSets

CONSTANTS
    Runs,         \* processes that run the sync, over and over
    Tenants,
    Stores,
    Owner,        \* the tenant of each store
    MaxChanges,   \* bound on the changes of Customer Master
    MaxFaults,    \* bound on misconfigured starts, failures and crashes
    None

ASSUME ConstantsAssumption ==
    /\ Owner \in [Stores -> Tenants]
    /\ Tenants \cap Stores = {}
    /\ None \notin Tenants \cup Nat
    /\ MaxChanges \in Nat /\ MaxFaults \in Nat

Entities == Tenants \cup Stores

VARIABLES
    cm,       \* version of each row of Customer Master
    gone,     \* rows Customer Master has deleted
    changes,  \* changes of Customer Master so far
    mirror,   \* version of each row of identity_mirror
    astray,   \* rows were committed to a database that is not DIS
    faults,   \* faults so far
    pc,       \* next step of each run
    profile,  \* the environment of each run
    asked,    \* Customer Master when the last run that is alone started
    alone,    \* no other run has started since this one, nor was one going on
    read,     \* the versions the run has read
    todo,     \* tenants the run has still to write
    tenant,   \* tenant of the open transaction
    staged,   \* versions the open transaction has written
    left,     \* stores the open transaction has still to write
    exit      \* exit code of the last run

cmVars == <<cm, gone, changes>>
runVars == <<pc, profile, asked, alone, read, todo, tenant, staged, left, exit>>
vars == <<cm, gone, changes, mirror, astray, faults, runVars>>

\* Rows of a database that is not Customer Master.
Bogus == MaxChanges + 1

\* The environments a run can meet: usable; a DSN missing; reading from another
\* database; a platform context that does not take effect; writing to another
\* database; a role that bypasses row security.
Profiles == {"good", "unset", "wrongCm", "noContext", "wrongDis", "bypass"}

ExitCodes == [ok |-> 0, config |-> 2, cmRead |-> 3, cmUnreachable |-> 4,
              target |-> 5, write |-> 6]

Versions == 0..Bogus
NoRows == [e \in Entities |-> 0]

\* The type of every variable.
TypeOK ==
    /\ cm \in [Entities -> Versions] /\ gone \subseteq Entities
    /\ changes \in 0..MaxChanges /\ faults \in 0..MaxFaults
    /\ mirror \in [Entities -> Versions]
    /\ astray \in BOOLEAN
    /\ pc \in [Runs -> {"idle", "target", "tenants", "stores", "next", "write"}]
    /\ profile \in [Runs -> Profiles]
    /\ asked \in [Runs -> [Entities -> Versions]]
    /\ alone \in [Runs -> BOOLEAN]
    /\ read \in [Runs -> [Entities -> Versions]]
    /\ todo \in [Runs -> SUBSET Tenants]
    /\ tenant \in [Runs -> Tenants \cup {None}]
    /\ staged \in [Runs -> [Entities -> Versions]]
    /\ left \in [Runs -> SUBSET Stores]
    /\ exit \in [Runs -> {None, 0, 2, 3, 4, 5, 6}]

Init ==
    /\ cm = NoRows /\ gone = {} /\ changes = 0
    /\ mirror = NoRows /\ astray = FALSE /\ faults = 0
    /\ pc = [r \in Runs |-> "idle"]
    /\ profile = [r \in Runs |-> "good"]
    /\ asked = [r \in Runs |-> NoRows]
    /\ alone = [r \in Runs |-> FALSE]
    /\ read = [r \in Runs |-> NoRows]
    /\ todo = [r \in Runs |-> {}]
    /\ tenant = [r \in Runs |-> None]
    /\ staged = [r \in Runs |-> NoRows]
    /\ left = [r \in Runs |-> {}]
    /\ exit = [r \in Runs |-> None]

----------------------------------------------------------------------------
(***************************************************************************)
(* Customer Master.                                                        *)
(***************************************************************************)
Live(e) == cm[e] > 0 /\ e \notin gone

CmChange(e) ==
    /\ changes < MaxChanges
    /\ e \notin gone
    /\ e \in Stores => Live(Owner[e])
    /\ cm' = [cm EXCEPT ![e] = @ + 1]
    /\ changes' = changes + 1
    /\ UNCHANGED <<gone, mirror, astray, faults, runVars>>

CmDelete(e) ==
    /\ changes < MaxChanges
    /\ Live(e)
    /\ \A s \in Stores : Owner[s] = e => ~Live(s)
    /\ gone' = gone \cup {e}
    /\ changes' = changes + 1
    /\ UNCHANGED <<cm, mirror, astray, faults, runVars>>

----------------------------------------------------------------------------
(***************************************************************************)
(* One run.                                                                *)
(***************************************************************************)
Goto(r, step) == pc' = [pc EXCEPT ![r] = step]

Busy(r) == pc[r] # "idle"

\* The process ends: engines are disposed of, an open transaction rolls back.
End(r, code) ==
    /\ Goto(r, "idle")
    /\ exit' = [exit EXCEPT ![r] = code]
    /\ read' = [read EXCEPT ![r] = NoRows]
    /\ todo' = [todo EXCEPT ![r] = {}]
    /\ tenant' = [tenant EXCEPT ![r] = None]
    /\ staged' = [staged EXCEPT ![r] = NoRows]
    /\ left' = [left EXCEPT ![r] = {}]
    /\ profile' = [profile EXCEPT ![r] = "good"]
    /\ asked' = [asked EXCEPT ![r] = IF code = ExitCodes.ok /\ alone[r] THEN @ ELSE NoRows]
    /\ UNCHANGED alone

\* A run is triggered; a missing DSN ends it.
Start(r, p) ==
    /\ ~Busy(r)
    /\ p # "good" => faults < MaxFaults
    /\ faults' = IF p = "good" THEN faults ELSE faults + 1
    /\ profile' = [profile EXCEPT ![r] = IF p = "unset" THEN "good" ELSE p]
    /\ asked' = [q \in Runs |-> IF q = r /\ \A o \in Runs \ {r} : ~Busy(o)
                                THEN [e \in Entities |-> IF e \in gone THEN 0 ELSE cm[e]]
                                ELSE NoRows]
    /\ alone' = [q \in Runs |-> q = r /\ \A o \in Runs \ {r} : ~Busy(o)]
    /\ Goto(r, IF p = "unset" THEN "idle" ELSE "target")
    /\ exit' = [exit EXCEPT ![r] = IF p = "unset" THEN ExitCodes.config ELSE None]
    /\ UNCHANGED <<cmVars, mirror, astray, read, todo, tenant, staged, left>>

\* Mutant: only the database is checked, not that the context took effect.
TargetOnly(r) == profile[r] # "wrongCm"

\* Mutant: only the context is checked, not the database.
ContextOnly(r) == profile[r] # "noContext"

\* assert_cm_target and assert_platform_context.
TrustedSource(r) == profile[r] \notin {"wrongCm", "noContext"}

AssertCmTarget(r) ==
    /\ pc[r] = "target"
    /\ \/ /\ TrustedSource(r)
          /\ Goto(r, "tenants")
          /\ UNCHANGED <<profile, asked, alone, read, todo, tenant, staged, left, exit>>
       \/ /\ ~TrustedSource(r)
          /\ End(r, ExitCodes.cmRead)
    /\ UNCHANGED <<cmVars, mirror, astray, faults>>

\* What a SELECT of run r returns for row e.
Selected(r, e) ==
    CASE profile[r] = "wrongCm"   -> Bogus
      [] profile[r] = "noContext" -> 0
      [] OTHER                    -> IF Live(e) THEN cm[e] ELSE 0

ReadTenants(r) ==
    /\ pc[r] = "tenants"
    /\ read' = [read EXCEPT ![r] = [e \in Entities |-> IF e \in Tenants THEN Selected(r, e)
                                                       ELSE 0]]
    /\ Goto(r, "stores")
    /\ UNCHANGED <<cmVars, mirror, astray, faults, profile, asked, alone, todo, tenant,
                   staged, left, exit>>

\* The second SELECT; without tenants the run is over.
ReadStores(r) ==
    /\ pc[r] = "stores"
    /\ LET found == {t \in Tenants : read[r][t] > 0}
       IN  \/ /\ found = {}
              /\ End(r, ExitCodes.ok)
           \/ /\ found # {}
              /\ read' = [read EXCEPT ![r] = [e \in Entities |->
                            IF e \in Stores THEN Selected(r, e) ELSE @[e]]]
              /\ todo' = [todo EXCEPT ![r] = found]
              /\ Goto(r, "next")
              /\ UNCHANGED <<profile, asked, alone, tenant, staged, left, exit>>
    /\ UNCHANGED <<cmVars, mirror, astray, faults>>

\* _check_posture, on the first use of the engine.
SafePosture(r) == profile[r] \notin {"wrongDis", "bypass"}

\* Mutant: a tenant that has not changed is skipped with its stores.
ChangedStores(r, t) ==
    {s \in Stores : Owner[s] = t /\ read[r][s] > 0 /\ mirror[t] # read[r][t]}

\* stores_by_tenant.
StoresByTenant(r, t) == {s \in Stores : Owner[s] = t /\ read[r][s] > 0}

\* The next tenant's transaction opens and upserts its row, once no other
\* transaction holds it.
UpsertTenant(r) ==
    /\ pc[r] = "next" /\ todo[r] # {}
    /\ \/ /\ SafePosture(r)
          /\ \E t \in todo[r] :
                /\ \A q \in Runs : tenant[q] # t
                /\ tenant' = [tenant EXCEPT ![r] = t]
                /\ staged' = [staged EXCEPT ![r][t] = read[r][t]]
                /\ left' = [left EXCEPT ![r] = StoresByTenant(r, t)]
          /\ Goto(r, "write")
          /\ UNCHANGED <<profile, asked, alone, read, todo, exit>>
       \/ /\ ~SafePosture(r)
          /\ End(r, ExitCodes.target)
    /\ UNCHANGED <<cmVars, mirror, astray, faults>>

UpsertStore(r) ==
    /\ pc[r] = "write"
    /\ \E s \in left[r] :
          /\ staged' = [staged EXCEPT ![r][s] = read[r][s]]
          /\ left' = [left EXCEPT ![r] = @ \ {s}]
    /\ UNCHANGED <<cmVars, mirror, astray, faults, pc, profile, asked, alone, read, todo,
                   tenant, exit>>

\* Mutant: a tenant that is not read any more is removed with its stores.
Pruned(r) ==
    [e \in Entities |->
        IF staged[r][e] > 0 THEN staged[r][e]
        ELSE IF read[r][e] = 0 THEN 0 ELSE mirror[e]]

\* The rows of identity_mirror after the upserts: whatever was read, if different.
Upserted(r) == [e \in Entities |-> IF staged[r][e] > 0 THEN staged[r][e] ELSE mirror[e]]

CommitTenant(r) ==
    /\ pc[r] = "write" /\ left[r] = {}
    /\ \/ /\ profile[r] = "wrongDis"
          /\ astray' = TRUE /\ UNCHANGED mirror
       \/ /\ profile[r] # "wrongDis"
          /\ mirror' = Upserted(r) /\ UNCHANGED astray
    /\ todo' = [todo EXCEPT ![r] = @ \ {tenant[r]}]
    /\ tenant' = [tenant EXCEPT ![r] = None]
    /\ staged' = [staged EXCEPT ![r] = NoRows]
    /\ Goto(r, "next")
    /\ UNCHANGED <<cmVars, faults, profile, asked, alone, read, left, exit>>

\* Stores of a tenant the first SELECT did not return are only counted.
Finish(r) ==
    /\ pc[r] = "next" /\ todo[r] = {}
    /\ End(r, ExitCodes.ok)
    /\ UNCHANGED <<cmVars, mirror, astray, faults>>

\* A statement fails, for the time being: the run ends with the code of its phase,
\* without a retry.
CallFails(r) ==
    /\ Busy(r) /\ faults < MaxFaults
    /\ faults' = faults + 1
    /\ End(r, IF pc[r] \in {"target", "tenants", "stores"} THEN ExitCodes.cmUnreachable
              ELSE ExitCodes.write)
    /\ UNCHANGED <<cmVars, mirror, astray>>

Crash(r) ==
    /\ Busy(r) /\ faults < MaxFaults
    /\ faults' = faults + 1
    /\ End(r, None)
    /\ UNCHANGED <<cmVars, mirror, astray>>

----------------------------------------------------------------------------
Sync(r) ==
    \/ Start(r, "good")
    \/ AssertCmTarget(r)
    \/ ReadTenants(r)
    \/ ReadStores(r)
    \/ UpsertTenant(r)
    \/ UpsertStore(r)
    \/ CommitTenant(r)
    \/ Finish(r)

CustomerMaster == \E e \in Entities : CmChange(e) \/ CmDelete(e)

Next ==
    \/ CustomerMaster
    \/ \E r \in Runs :
          \/ Sync(r)
          \/ \E p \in Profiles \ {"good"} : Start(r, p)
          \/ CallFails(r)
          \/ Crash(r)

\* The scheduler keeps starting runs, and a run that can go on does.
FairSpec == Init /\ [][Next]_vars /\ \A r \in Runs : WF_vars(Sync(r))

----------------------------------------------------------------------------
(***************************************************************************)
(* What must hold.                                                         *)
(***************************************************************************)

\* What the mirror holds comes from Customer Master, whatever a run's environment
\* points to, and no run writes to a database that is not DIS.
MirrorIsGenuine == ~astray /\ \A e \in Entities : mirror[e] <= cm[e]

\* A run that exits 0 and met no other has mirrored every row that existed when it
\* started, at that version or a later one; a refused context, a failed tenant
\* and a partial read exit with another code.
CleanExitIsComplete ==
    \A r \in Runs : ~Busy(r) /\ exit[r] = ExitCodes.ok /\ alone[r] =>
        \A e \in Entities \ gone : mirror[e] >= asked[r][e]

\* Rows never leave the mirror, and only overlapping runs take one back to an older
\* version: the upsert compares columns, not pc_updated_at.
OnlyOverlapGoesBack ==
    [][\A e \in Entities :
         /\ mirror[e] > 0 => mirror'[e] > 0
         /\ mirror'[e] < mirror[e] => \E r \in Runs : Busy(r) /\ ~alone[r]]_vars

\* When Customer Master rests and runs stop failing, the mirror gets to hold exactly
\* its rows, also after overlapping runs took it back, as long as each of them is
\* one that from_row and the CHECKs of the mirror take.
Converges == <>[](\A e \in Entities : e \in gone \/ mirror[e] = cm[e])
=============================================================================
