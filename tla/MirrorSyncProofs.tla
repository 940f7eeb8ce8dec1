-------------------------- MODULE MirrorSyncProofs --------------------------
(***************************************************************************)
(* The safety of the mirror (MirrorSync) for any number of runs, tenants   *)
(* and stores, and any number of changes and faults.                       *)
(*                                                                         *)
(* That a clean exit is complete depends on three things at once: Customer *)
(* Master keeps the foreign key between the two SELECTs of a run (CmInv),  *)
(* a run's transaction stages exactly what it read for its tenant          *)
(* (RunInv), and while a run is alone nobody else moves the mirror         *)
(* (AloneInv), so what is not in todo any more has arrived.                *)
(***************************************************************************)
EXTENDS MirrorSync, TLAPS

\* The tenant a row belongs to.
Home(e) == IF e \in Tenants THEN e ELSE Owner[e]

\* Versions count changes; a store is there only as long as its tenant is.
CmInv ==
    /\ \A e \in Entities : cm[e] <= changes
    /\ \A s \in Stores : Live(s) => Live(Owner[s])

\* What a step of a run has established about its environment, what it has read
\* and what its transaction has written.
RunOK(r) ==
    /\ pc[r] \in {"tenants", "stores", "next", "write"} => TrustedSource(r)
    /\ pc[r] = "write" => /\ SafePosture(r) /\ tenant[r] \in todo[r]
                          /\ \A s \in left[r] : Owner[s] = tenant[r]
    /\ pc[r] # "write" => staged[r] = NoRows
    /\ pc[r] = "idle" => read[r] = NoRows
    /\ \A e \in Entities :
          /\ read[r][e] <= cm[e]
          /\ asked[r][e] <= cm[e]
          /\ staged[r][e] > 0 => staged[r][e] = read[r][e] /\ Home(e) = tenant[r]
          /\ pc[r] = "write" /\ Home(e) = tenant[r] /\ e \notin left[r] =>
                staged[r][e] = read[r][e]

RunInv == \A r \in Runs : RunOK(r)

\* A run that is alone reads no row older than the mirror's, has read whatever it
\* was asked for, and has mirrored it unless the tenant is still to do.
AloneOK(r) ==
    alone[r] =>
        /\ \A q \in Runs : q # r => ~Busy(q)
        /\ \A s \in Stores : asked[r][s] > 0 => asked[r][Owner[s]] > 0
        /\ \A e \in Entities : read[r][e] > 0 => mirror[e] <= read[r][e]
        /\ pc[r] = "stores" => \A t \in Tenants \ gone : asked[r][t] <= read[r][t]
        /\ pc[r] \in {"next", "write"} =>
              \A e \in Entities \ gone :
                  /\ asked[r][e] <= read[r][e]
                  /\ Home(e) \notin todo[r] => asked[r][e] <= mirror[e]

AloneInv == \A r \in Runs : AloneOK(r)

\* The inductive invariant.
IInv ==
    /\ TypeOK
    /\ CmInv
    /\ RunInv
    /\ AloneInv
    /\ MirrorIsGenuine
    /\ CleanExitIsComplete


----------------------------------------------------------------------------
\* Initially there is nothing.
LEMMA InitIInv == Init => IInv
<1> SUFFICES ASSUME Init
             PROVE  IInv
  OBVIOUS
<1>1. NoRows \in [Entities -> Versions] /\ \A e \in Entities : NoRows[e] = 0
  BY ConstantsAssumption DEF NoRows, Versions, Bogus
<1>2. TypeOK
  <2>1. 0 \in 0..MaxChanges /\ 0 \in 0..MaxFaults
    BY ConstantsAssumption
  <2>2. \A x, S : x \in S => [r \in Runs |-> x] \in [Runs -> S]
    OBVIOUS
  <2> QED
    BY <1>1, <2>1, <2>2, Zenon DEF Init, TypeOK, Profiles
<1>3. CmInv
  BY <1>1, ConstantsAssumption DEF Init, CmInv, Live, Entities
<1>4. RunInv
  BY <1>1 DEF Init, RunInv, RunOK
<1>5. AloneInv
  BY <1>1 DEF Init, AloneInv, AloneOK
<1>6. MirrorIsGenuine
  BY <1>1 DEF Init, MirrorIsGenuine
<1>7. CleanExitIsComplete
  BY DEF Init, CleanExitIsComplete
<1> QED
  BY <1>2, <1>3, <1>4, <1>5, <1>6, <1>7 DEF IInv

\* A store that a run was asked for, and that is still there, has its tenant read.
LEMMA TenantIsRead ==
    ASSUME IInv, NEW r \in Runs, alone[r], pc[r] = "stores",
           NEW s \in Stores, s \notin gone, asked[r][s] > 0
    PROVE  read[r][Owner[s]] > 0
<1>1. s \in Entities /\ Owner[s] \in Tenants /\ Owner[s] \in Entities
  BY ConstantsAssumption DEF Entities
<1>2. cm[s] \in Nat /\ cm[Owner[s]] \in Nat /\ asked[r][s] \in Nat /\ asked[r][Owner[s]] \in Nat
        /\ read[r][Owner[s]] \in Nat
  BY <1>1 DEF IInv, TypeOK, Versions
<1>3. cm[s] > 0
  BY <1>1, <1>2 DEF IInv, RunInv, RunOK
<1>4. Owner[s] \notin gone
  BY <1>1, <1>3 DEF IInv, CmInv, Live
<1> QED
  BY <1>1, <1>2, <1>4 DEF IInv, AloneInv, AloneOK

----------------------------------------------------------------------------
(***************************************************************************)
(* Frames: what a step leaves alone.                                       *)
(***************************************************************************)

\* The state of run q is what it was.
Same(q) ==
    /\ pc'[q] = pc[q] /\ profile'[q] = profile[q] /\ asked'[q] = asked[q]
    /\ read'[q] = read[q] /\ todo'[q] = todo[q] /\ tenant'[q] = tenant[q]
    /\ staged'[q] = staged[q] /\ left'[q] = left[q]

\* Customer Master moves on, or not at all.
Onward ==
    /\ cm' \in [Entities -> Versions] /\ \A e \in Entities : cm[e] <= cm'[e]
    /\ gone \subseteq gone'

\* A Customer Master that rests moves onward.
LEMMA Still == ASSUME IInv, UNCHANGED <<cm, gone>> PROVE Onward
BY DEF IInv, TypeOK, Versions, Onward

\* What is true of a run stays true while it does nothing.
LEMMA RunFrame ==
    ASSUME IInv, NEW q \in Runs, Same(q), Onward
    PROVE  RunOK(q)'
<1>1. RunOK(q)
  BY DEF IInv, RunInv
<1>2. \A e \in Entities : /\ read[q][e] \in Nat /\ asked[q][e] \in Nat
                          /\ cm[e] \in Nat /\ cm'[e] \in Nat
  BY DEF IInv, TypeOK, Versions, Onward
<1> QED
  BY <1>1, <1>2 DEF Same, Onward, RunOK, TrustedSource, SafePosture

\* The same of a run that is alone, while the mirror is not touched.
LEMMA AloneFrame ==
    ASSUME IInv, NEW q \in Runs, Same(q), Onward, UNCHANGED mirror, alone'[q] = alone[q],
           \A o \in Runs : o # q /\ alone[q] => pc'[o] = "idle"
    PROVE  AloneOK(q)'
<1>1. AloneOK(q)
  BY DEF IInv, AloneInv
<1> QED
  BY <1>1 DEF Same, Onward, AloneOK, Busy

\* Customer Master changes a row.
LEMMA CmChangeStep ==
    ASSUME IInv, NEW e \in Entities, CmChange(e)
    PROVE  IInv'
<1>1. /\ changes' = changes + 1 /\ changes' \in 0..MaxChanges /\ changes \in Nat
      /\ cm' = [cm EXCEPT ![e] = @ + 1] /\ e \notin gone
      /\ UNCHANGED <<gone, mirror, astray, faults, runVars>>
  BY ConstantsAssumption DEF CmChange, IInv, TypeOK
<1>2. \A f \in Entities : cm[f] \in Nat /\ cm'[f] \in Nat /\ cm[f] <= cm'[f] /\ cm'[f] <= changes'
  BY <1>1 DEF IInv, TypeOK, CmInv, Versions
<1>3. cm' \in [Entities -> Versions]
  BY <1>1, <1>2, ConstantsAssumption DEF IInv, TypeOK, Versions, Bogus
<1>4. Onward
  BY <1>1, <1>2, <1>3 DEF Onward
<1>5. TypeOK'
  BY <1>1, <1>3 DEF IInv, TypeOK, runVars
<1>6. CmInv'
  <2>1. ASSUME NEW s \in Stores, Live(s)'
        PROVE  Live(Owner[s])'
    <3>1. s \in Entities /\ Owner[s] \in Entities /\ Owner[s] \in Tenants
      BY ConstantsAssumption DEF Entities
    <3>2. Live(Owner[s])
      <4>1. CASE s = e
        BY <4>1 DEF CmChange
      <4>2. CASE s # e
        BY <1>1, <2>1, <3>1, <4>2 DEF IInv, CmInv, Live, TypeOK
      <4> QED
        BY <4>1, <4>2
    <3> QED
      BY <1>1, <1>2, <3>1, <3>2 DEF Live
  <2> QED
    BY <1>2, <2>1 DEF CmInv
<1>7. RunInv'
  BY <1>1, <1>4, RunFrame DEF RunInv, runVars, Same
<1>8. AloneInv'
  <2>1. ASSUME NEW q \in Runs
        PROVE  AloneOK(q)'
    BY <1>1, <1>4, AloneFrame DEF runVars, Same, IInv, AloneInv, AloneOK, Busy
  <2> QED
    BY <2>1 DEF AloneInv
<1>9. MirrorIsGenuine'
  BY <1>1, <1>2 DEF IInv, TypeOK, MirrorIsGenuine, Versions
<1>10. CleanExitIsComplete'
  BY <1>1 DEF IInv, CleanExitIsComplete, runVars, Busy
<1> QED
  BY <1>5, <1>6, <1>7, <1>8, <1>9, <1>10 DEF IInv

\* Customer Master deletes a row: the foreign key lets no tenant go before its stores.
LEMMA CmDeleteStep ==
    ASSUME IInv, NEW e \in Entities, CmDelete(e)
    PROVE  IInv'
<1>1. /\ changes' = changes + 1 /\ changes' \in 0..MaxChanges /\ changes \in Nat
      /\ gone' = gone \cup {e} /\ UNCHANGED <<cm, mirror, astray, faults, runVars>>
  BY ConstantsAssumption DEF CmDelete, IInv, TypeOK
<1>2. \A f \in Entities : cm[f] \in Nat
  BY DEF IInv, TypeOK, Versions
<1>3. Onward
  BY <1>1, <1>2 DEF Onward, IInv, TypeOK
<1>4. TypeOK'
  BY <1>1 DEF IInv, TypeOK, runVars
<1>5. CmInv'
  <2>1. \A f \in Entities : cm'[f] <= changes'
    BY <1>1, <1>2 DEF IInv, CmInv
  <2>2. ASSUME NEW s \in Stores, Live(s)'
        PROVE  Live(Owner[s])'
    BY <1>1, <2>2 DEF CmDelete, IInv, CmInv, Live
  <2> QED
    BY <2>1, <2>2 DEF CmInv
<1>6. RunInv'
  BY <1>1, <1>3, RunFrame DEF RunInv, runVars, Same
<1>7. AloneInv'
  <2>1. ASSUME NEW q \in Runs
        PROVE  AloneOK(q)'
    BY <1>1, <1>3, AloneFrame DEF runVars, Same, IInv, AloneInv, AloneOK, Busy
  <2> QED
    BY <2>1 DEF AloneInv
<1>8. MirrorIsGenuine' /\ CleanExitIsComplete'
  BY <1>1 DEF IInv, MirrorIsGenuine, CleanExitIsComplete, runVars, Busy
<1> QED
  BY <1>4, <1>5, <1>6, <1>7, <1>8 DEF IInv


----------------------------------------------------------------------------
(***************************************************************************)
(* Steps of a run.                                                         *)
(***************************************************************************)

\* Run r goes on: nobody else is alone, so the others' facts do not depend on it.
LEMMA OwnStep ==
    ASSUME IInv, NEW r \in Runs, Busy(r), Busy(r)',
           UNCHANGED <<cmVars, faults, asked, alone, exit>>,
           \A q \in Runs : q # r => Same(q),
           TypeOK', RunOK(r)', AloneOK(r)', MirrorIsGenuine'
    PROVE  IInv'
<1>1. CmInv'
  BY DEF IInv, CmInv, Live, cmVars
<1>2. RunInv'
  BY Still, RunFrame DEF RunInv, cmVars
<1>3. \A q \in Runs : q # r => ~alone'[q]
  BY DEF IInv, AloneInv, AloneOK
<1>4. AloneInv'
  BY <1>3 DEF AloneInv, AloneOK
<1>5. CleanExitIsComplete'
  BY <1>3 DEF CleanExitIsComplete
<1> QED
  BY <1>1, <1>2, <1>4, <1>5 DEF IInv

\* A run ends: with 0 only if it has mirrored what it was asked for.
LEMMA EndStep ==
    ASSUME IInv, NEW r \in Runs, Busy(r), NEW code \in {None, 0, 2, 3, 4, 5, 6}, End(r, code),
           UNCHANGED <<cmVars, mirror, astray>>, faults' \in 0..MaxFaults,
           code = 0 /\ alone[r] => \A e \in Entities \ gone : asked[r][e] <= mirror[e]
    PROVE  IInv'
<1>1. NoRows \in [Entities -> Versions] /\ \A e \in Entities : NoRows[e] = 0
  BY ConstantsAssumption DEF NoRows, Versions, Bogus
<1>2. \A q \in Runs : q # r => Same(q) /\ exit'[q] = exit[q]
  BY DEF End, Goto, Same, IInv, TypeOK
<1>3. /\ pc'[r] = "idle" /\ read'[r] = NoRows /\ staged'[r] = NoRows /\ exit'[r] = code
      /\ asked'[r] = IF code = 0 /\ alone[r] THEN asked[r] ELSE NoRows
      /\ UNCHANGED alone
  BY DEF End, Goto, IInv, TypeOK, ExitCodes
<1>4. TypeOK'
  <2>1. /\ cm' \in [Entities -> Versions] /\ gone' \subseteq Entities
        /\ changes' \in 0..MaxChanges /\ faults' \in 0..MaxFaults
        /\ mirror' \in [Entities -> Versions] /\ astray' \in BOOLEAN
        /\ alone' \in [Runs -> BOOLEAN]
    BY <1>3 DEF IInv, TypeOK, cmVars
  <2>2. /\ pc' \in [Runs -> {"idle", "target", "tenants", "stores", "next", "write"}]
        /\ profile' \in [Runs -> Profiles]
        /\ exit' \in [Runs -> {None, 0, 2, 3, 4, 5, 6}]
    BY DEF End, Goto, IInv, TypeOK, Profiles
  <2>3. /\ asked' \in [Runs -> [Entities -> Versions]]
        /\ read' \in [Runs -> [Entities -> Versions]]
        /\ staged' \in [Runs -> [Entities -> Versions]]
    BY <1>1 DEF End, IInv, TypeOK
  <2>4. /\ todo' \in [Runs -> SUBSET Tenants]
        /\ tenant' \in [Runs -> Tenants \cup {None}]
        /\ left' \in [Runs -> SUBSET Stores]
    BY DEF End, IInv, TypeOK
  <2> QED
    BY <2>1, <2>2, <2>3, <2>4 DEF TypeOK
<1>5. CmInv' /\ MirrorIsGenuine'
  BY DEF IInv, CmInv, Live, MirrorIsGenuine, cmVars
<1>6. RunOK(r)'
  <2>1. \A e \in Entities : asked'[r][e] <= cm'[e] /\ 0 <= cm'[e]
    BY <1>1, <1>3 DEF IInv, TypeOK, RunInv, RunOK, cmVars, Versions
  <2> QED
    BY <1>1, <1>3, <2>1 DEF RunOK
<1>7. RunInv'
  BY <1>2, <1>6, Still, RunFrame DEF RunInv, cmVars
<1>8. \A q \in Runs : q # r => ~alone'[q]
  BY <1>3 DEF IInv, AloneInv, AloneOK
<1>9. AloneOK(r)'
  <2>1. alone[r] => \A q \in Runs : q # r => ~Busy(q)'
    BY <1>2 DEF IInv, AloneInv, AloneOK, Busy, Same
  <2>2. alone[r] => \A s \in Stores : asked'[r][s] > 0 => asked'[r][Owner[s]] > 0
    BY <1>1, <1>3 DEF IInv, AloneInv, AloneOK, Entities
  <2> QED
    BY <1>1, <1>3, <2>1, <2>2 DEF AloneOK
<1>10. AloneInv'
  BY <1>8, <1>9 DEF AloneInv, AloneOK
<1>11. CleanExitIsComplete'
  <2>1. exit'[r] = ExitCodes.ok /\ alone'[r] =>
          \A e \in Entities \ gone' : asked'[r][e] <= mirror'[e]
    BY <1>3 DEF ExitCodes, cmVars
  <2>2. \A e \in Entities : mirror'[e] \in Nat /\ asked'[r][e] \in Nat
    BY <1>4 DEF TypeOK, Versions
  <2> QED
    BY <1>8, <2>1, <2>2 DEF CleanExitIsComplete
<1> QED
  BY <1>4, <1>5, <1>7, <1>10, <1>11 DEF IInv

\* A run starts: it is alone if nobody else is at it, and nobody else is any more.
LEMMA StartStep ==
    ASSUME IInv, NEW r \in Runs, NEW p \in Profiles, Start(r, p)
    PROVE  IInv'
<1> DEFINE quiet == \A o \in Runs \ {r} : ~Busy(o)
           now == [e \in Entities |-> IF e \in gone THEN 0 ELSE cm[e]]
<1>1. NoRows \in [Entities -> Versions] /\ \A e \in Entities : NoRows[e] = 0
  BY ConstantsAssumption DEF NoRows, Versions, Bogus
<1>2. /\ pc[r] = "idle" /\ pc' = [pc EXCEPT ![r] = IF p = "unset" THEN "idle" ELSE "target"]
      /\ exit' = [exit EXCEPT ![r] = IF p = "unset" THEN 2 ELSE None]
      /\ alone' = [q \in Runs |-> q = r /\ quiet]
      /\ asked' = [q \in Runs |-> IF q = r /\ quiet THEN now ELSE NoRows]
      /\ UNCHANGED <<cmVars, mirror, astray, read, todo, tenant, staged, left>>
  BY DEF Start, Busy, Goto, ExitCodes
<1>3. now \in [Entities -> Versions] /\ \A e \in Entities : now[e] <= cm[e] /\ 0 <= cm[e]
  BY <1>1 DEF IInv, TypeOK, Versions
<1>4. TypeOK'
  <2>1. faults' \in 0..MaxFaults
    BY ConstantsAssumption DEF Start, IInv, TypeOK
  <2>2. /\ pc' \in [Runs -> {"idle", "target", "tenants", "stores", "next", "write"}]
        /\ exit' \in [Runs -> {None, 0, 2, 3, 4, 5, 6}]
    BY <1>2 DEF IInv, TypeOK
  <2>3. profile' \in [Runs -> Profiles]
    BY DEF Start, IInv, TypeOK, Profiles
  <2>4. asked' \in [Runs -> [Entities -> Versions]]
    BY <1>1, <1>2, <1>3
  <2>5. alone' \in [Runs -> BOOLEAN]
    BY <1>2
  <2> HIDE DEF now, quiet
  <2> QED
    BY <1>2, <2>1, <2>2, <2>3, <2>4, <2>5 DEF IInv, TypeOK, cmVars
<1>5. CmInv' /\ MirrorIsGenuine'
  BY <1>2 DEF IInv, CmInv, Live, MirrorIsGenuine, cmVars
<1>6. ASSUME NEW q \in Runs
      PROVE  RunOK(q)'
  <2>1. RunOK(q)
    BY DEF IInv, RunInv
  <2>2. \A e \in Entities : asked'[q][e] <= cm[e]
    BY <1>1, <1>2, <1>3
  <2>3. CASE q = r
    BY <1>2, <2>1, <2>2, <2>3 DEF RunOK, IInv, TypeOK, cmVars
  <2>4. CASE q # r
    <3>1. pc'[q] = pc[q] /\ profile'[q] = profile[q]
      BY <2>4 DEF Start, Goto, IInv, TypeOK
    <3> HIDE DEF now, quiet
    <3> QED
      BY <1>2, <2>1, <2>2, <3>1 DEF RunOK, TrustedSource, SafePosture, cmVars
  <2> QED
    BY <2>3, <2>4
<1>7. ASSUME NEW q \in Runs
      PROVE  AloneOK(q)'
  <2>1. CASE q = r /\ quiet
    <3>1. \A o \in Runs : o # q => ~Busy(o)'
      BY <1>2, <2>1 DEF Busy, IInv, TypeOK
    <3>2. \A s \in Stores : now[s] > 0 => now[Owner[s]] > 0
      <4>1. \A s \in Stores : s \in Entities /\ Owner[s] \in Entities
        BY ConstantsAssumption DEF Entities
      <4> QED
        BY <4>1 DEF IInv, CmInv, Live
    <3>3. read'[q] = NoRows /\ asked'[q] = now /\ pc'[q] \in {"idle", "target"}
      BY <1>2, <2>1 DEF IInv, TypeOK, RunInv, RunOK
    <3> HIDE DEF now
    <3> QED
      BY <1>1, <3>1, <3>2, <3>3 DEF AloneOK
  <2>2. CASE ~(q = r /\ quiet)
    BY <1>2, <2>2 DEF AloneOK
  <2> QED
    BY <2>1, <2>2
<1>8. CleanExitIsComplete'
  <2>1. exit'[r] # 0
    BY <1>2, ConstantsAssumption DEF IInv, TypeOK
  <2> QED
    BY <1>2, <2>1 DEF CleanExitIsComplete, ExitCodes
<1> QED
  BY <1>4, <1>5, <1>6, <1>7, <1>8 DEF IInv, RunInv, AloneInv


\* assert_cm_target and assert_platform_context.
LEMMA AssertStep ==
    ASSUME IInv, NEW r \in Runs, AssertCmTarget(r)
    PROVE  IInv'
<1>1. pc[r] = "target" /\ UNCHANGED <<cmVars, mirror, astray, faults>>
  BY DEF AssertCmTarget
<1>2. CASE End(r, ExitCodes.cmRead)
  BY <1>1, <1>2, EndStep DEF ExitCodes, Busy, IInv, TypeOK
<1>3. CASE /\ TrustedSource(r) /\ Goto(r, "tenants")
           /\ UNCHANGED <<profile, asked, alone, read, todo, tenant, staged, left, exit>>
  <2>1. pc' = [pc EXCEPT ![r] = "tenants"] /\ pc'[r] = "tenants"
    BY <1>3 DEF Goto, IInv, TypeOK
  <2>2. \A q \in Runs : q # r => Same(q)
    BY <1>3, <2>1 DEF Same, IInv, TypeOK
  <2>3. TypeOK'
    BY <1>1, <1>3, <2>1 DEF IInv, TypeOK, cmVars
  <2>4. RunOK(r)'
    BY <1>1, <1>3, <2>1 DEF IInv, RunInv, RunOK, TrustedSource, cmVars
  <2>5. AloneOK(r)'
    BY <1>1, <1>3, <2>1, <2>2 DEF IInv, AloneInv, AloneOK, Busy, Same
  <2>6. MirrorIsGenuine'
    BY <1>1 DEF IInv, MirrorIsGenuine, cmVars
  <2> QED
    BY <1>1, <1>3, <2>1, <2>2, <2>3, <2>4, <2>5, <2>6, OwnStep DEF Busy
<1> QED
  BY <1>2, <1>3 DEF AssertCmTarget

\* What a SELECT of a trusted source returns: the row of Customer Master, or nothing.
LEMMA SelectedRow ==
    ASSUME IInv, NEW r \in Runs, TrustedSource(r), NEW e \in Entities
    PROVE  /\ Selected(r, e) \in Versions /\ Selected(r, e) <= cm[e]
           /\ Selected(r, e) \in {0, cm[e]}
           /\ Selected(r, e) > 0 => mirror[e] <= Selected(r, e)
           /\ e \notin gone => asked[r][e] <= Selected(r, e)
<1>1. Selected(r, e) = IF Live(e) THEN cm[e] ELSE 0
  BY DEF Selected, TrustedSource
<1>2. cm[e] \in Versions /\ asked[r][e] \in Versions /\ mirror[e] \in Versions /\ 0 \in Versions
  BY ConstantsAssumption DEF IInv, TypeOK, Versions, Bogus
<1>3. asked[r][e] <= cm[e] /\ mirror[e] <= cm[e]
  BY DEF IInv, RunInv, RunOK, MirrorIsGenuine
<1> QED
  BY <1>1, <1>2, <1>3 DEF Versions, Live

\* The first SELECT.
LEMMA ReadTenantsStep ==
    ASSUME IInv, NEW r \in Runs, ReadTenants(r)
    PROVE  IInv'
<1> DEFINE got == [e \in Entities |-> IF e \in Tenants THEN Selected(r, e) ELSE 0]
<1>1. /\ pc[r] = "tenants" /\ TrustedSource(r)
      /\ UNCHANGED <<cmVars, mirror, astray, faults, profile, asked, alone, todo, tenant,
                     staged, left, exit>>
      /\ pc' = [pc EXCEPT ![r] = "stores"] /\ pc'[r] = "stores"
  BY DEF ReadTenants, Goto, IInv, TypeOK, RunInv, RunOK
<1>2. got \in [Entities -> Versions]
  BY <1>1, SelectedRow, ConstantsAssumption DEF Versions, Bogus
<1>3. read' = [read EXCEPT ![r] = got] /\ read'[r] = got
  BY DEF ReadTenants, IInv, TypeOK
<1>4. \A e \in Entities : cm[e] \in Nat /\ got[e] <= cm[e] /\ (got[e] > 0 => mirror[e] <= got[e])
  BY <1>1, SelectedRow DEF IInv, TypeOK, Versions
<1>5. \A t \in Tenants \ gone : asked[r][t] <= got[t]
  BY <1>1, SelectedRow DEF Entities
<1> HIDE DEF got
<1>6. \A q \in Runs : q # r => Same(q)
  BY <1>1, <1>3 DEF Same, IInv, TypeOK
<1>7. TypeOK'
  BY <1>1, <1>2, <1>3 DEF IInv, TypeOK, cmVars
<1>8. RunOK(r)'
  <2>1. staged'[r] = NoRows /\ \A e \in Entities : staged'[r][e] = 0 /\ asked'[r][e] <= cm[e]
    BY <1>1 DEF IInv, RunInv, RunOK, NoRows
  <2> QED
    BY <1>1, <1>3, <1>4, <2>1 DEF RunOK, TrustedSource, cmVars
<1>9. AloneOK(r)'
  <2>1. alone[r] => \A q \in Runs : q # r => ~Busy(q)'
    BY <1>6 DEF IInv, AloneInv, AloneOK, Busy, Same
  <2> QED
    BY <1>1, <1>3, <1>4, <1>5, <2>1 DEF IInv, AloneInv, AloneOK, cmVars
<1>10. MirrorIsGenuine'
  BY <1>1 DEF IInv, MirrorIsGenuine, cmVars
<1> QED
  BY <1>1, <1>6, <1>7, <1>8, <1>9, <1>10, OwnStep DEF Busy

\* The second SELECT: in between, tenants may have come and stores may have gone.
LEMMA ReadStoresStep ==
    ASSUME IInv, NEW r \in Runs, ReadStores(r)
    PROVE  IInv'
<1> DEFINE found == {t \in Tenants : read[r][t] > 0}
           got == [e \in Entities |-> IF e \in Stores THEN Selected(r, e) ELSE read[r][e]]
<1>1. pc[r] = "stores" /\ TrustedSource(r) /\ UNCHANGED <<cmVars, mirror, astray, faults>>
  BY DEF ReadStores, IInv, RunInv, RunOK
<1>2. \A e \in Entities : /\ cm[e] \in Nat /\ read[r][e] \in Nat /\ asked[r][e] \in Nat
                          /\ mirror[e] \in Nat
  BY DEF IInv, TypeOK, Versions
<1>3. ASSUME alone[r], NEW e \in Entities \ gone, Home(e) \notin found
      PROVE  asked[r][e] <= mirror[e]
  <2>1. CASE e \in Tenants
    <3>1. read[r][e] = 0
      BY <1>2, <1>3, <2>1 DEF Home
    <3> QED
      BY <1>1, <1>2, <1>3, <2>1, <3>1 DEF IInv, AloneInv, AloneOK
  <2>2. CASE e \in Stores
    <3>1. Home(e) = Owner[e] /\ Owner[e] \in Tenants
      BY <2>2, ConstantsAssumption DEF Home
    <3>2. ~(asked[r][e] > 0)
      BY <1>1, <1>3, <2>2, <3>1, TenantIsRead
    <3> QED
      BY <1>2, <3>2
  <2> QED
    BY <2>1, <2>2 DEF Entities
<1>4. CASE found = {} /\ End(r, ExitCodes.ok)
  <2>1. alone[r] => \A e \in Entities \ gone : asked[r][e] <= mirror[e]
    BY <1>3, <1>4
  <2> QED
    BY <1>1, <1>4, <2>1, EndStep DEF ExitCodes, Busy, IInv, TypeOK
<1>5. CASE /\ read' = [read EXCEPT ![r] = got] /\ todo' = [todo EXCEPT ![r] = found]
           /\ Goto(r, "next") /\ UNCHANGED <<profile, asked, alone, tenant, staged, left, exit>>
  <2>1. got \in [Entities -> Versions]
    BY <1>1, SelectedRow DEF IInv, TypeOK
  <2>2. /\ read'[r] = got /\ todo'[r] = found /\ pc'[r] = "next"
        /\ pc' = [pc EXCEPT ![r] = "next"]
    BY <1>5 DEF Goto, IInv, TypeOK
  <2>3. \A e \in Entities : got[e] <= cm[e]
    BY <1>1, SelectedRow DEF IInv, RunInv, RunOK
  <2>4. alone[r] => \A e \in Entities : got[e] > 0 => mirror[e] <= got[e]
    BY <1>1, SelectedRow DEF IInv, AloneInv, AloneOK
  <2>5. alone[r] => \A e \in Entities \ gone : asked[r][e] <= got[e]
    BY <1>1, SelectedRow, ConstantsAssumption DEF IInv, AloneInv, AloneOK, Entities
  <2>6. found \subseteq Tenants
    OBVIOUS
  <2>7. alone[r] => \A e \in Entities \ gone : Home(e) \notin found => asked[r][e] <= mirror[e]
    BY <1>3
  <2> HIDE DEF got, found
  <2>8. \A q \in Runs : q # r => Same(q)
    BY <1>5, <2>2 DEF Same, IInv, TypeOK
  <2>9. TypeOK'
    BY <1>1, <1>5, <2>1, <2>2, <2>6 DEF IInv, TypeOK, cmVars
  <2>10. RunOK(r)'
    <3>1. staged'[r] = NoRows /\ \A e \in Entities : staged'[r][e] = 0 /\ asked'[r][e] <= cm[e]
      BY <1>1, <1>5 DEF IInv, RunInv, RunOK, NoRows
    <3> QED
      BY <1>1, <1>5, <2>2, <2>3, <3>1 DEF RunOK, TrustedSource, cmVars
  <2>11. AloneOK(r)'
    <3>1. alone[r] => \A q \in Runs : q # r => ~Busy(q)'
      BY <2>8 DEF IInv, AloneInv, AloneOK, Busy, Same
    <3> QED
      BY <1>1, <1>5, <2>2, <2>4, <2>5, <2>7, <3>1 DEF IInv, AloneInv, AloneOK, cmVars
  <2>12. MirrorIsGenuine'
    BY <1>1 DEF IInv, MirrorIsGenuine, cmVars
  <2> QED
    BY <1>1, <1>5, <2>2, <2>8, <2>9, <2>10, <2>11, <2>12, OwnStep DEF Busy
<1> QED
  BY <1>4, <1>5 DEF ReadStores


\* A tenant's transaction opens.
LEMMA UpsertTenantStep ==
    ASSUME IInv, NEW r \in Runs, UpsertTenant(r)
    PROVE  IInv'
<1>1. pc[r] = "next" /\ TrustedSource(r) /\ UNCHANGED <<cmVars, mirror, astray, faults>>
  BY DEF UpsertTenant, IInv, RunInv, RunOK
<1>2. CASE End(r, ExitCodes.target)
  BY <1>1, <1>2, EndStep DEF ExitCodes, Busy, IInv, TypeOK
<1>3. ASSUME SafePosture(r), Goto(r, "write"), NEW t \in todo[r],
             tenant' = [tenant EXCEPT ![r] = t], staged' = [staged EXCEPT ![r][t] = read[r][t]],
             left' = [left EXCEPT ![r] = StoresByTenant(r, t)],
             UNCHANGED <<profile, asked, alone, read, todo, exit>>
      PROVE  IInv'
  <2> DEFINE new == [staged[r] EXCEPT ![t] = read[r][t]]
             rest == StoresByTenant(r, t)
  <2>1. t \in Tenants /\ t \in Entities /\ Home(t) = t
    BY DEF IInv, TypeOK, Entities, Home
  <2>2. /\ pc' = [pc EXCEPT ![r] = "write"] /\ pc'[r] = "write" /\ tenant'[r] = t
        /\ staged' = [staged EXCEPT ![r] = new] /\ staged'[r] = new /\ left'[r] = rest
    BY <1>3 DEF Goto, IInv, TypeOK
  <2>3. rest \subseteq Stores /\ new \in [Entities -> Versions]
    BY <2>1 DEF StoresByTenant, IInv, TypeOK
  <2>4. new[t] = read[r][t] /\ \A e \in Entities : e # t => new[e] = 0
    <3>1. staged[r] = NoRows /\ staged[r] \in [Entities -> Versions]
      BY <1>1 DEF IInv, TypeOK, RunInv, RunOK
    <3>2. \A e \in Entities : staged[r][e] = 0
      BY <3>1 DEF NoRows
    <3> QED
      BY <2>1, <3>1, <3>2
  <2>5. \A e \in Entities : Home(e) = t /\ e \notin rest => new[e] = read[r][e]
    <3>1. ASSUME NEW e \in Entities, Home(e) = t, e \notin rest, e # t
          PROVE  read[r][e] = 0
      <4>1. e \in Stores /\ Owner[e] = t
        BY <3>1 DEF Home, Entities
      <4>2. read[r][e] \in Nat /\ ~(read[r][e] > 0)
        BY <3>1, <4>1 DEF StoresByTenant, IInv, TypeOK, Versions
      <4> QED
        BY <4>2
    <3> QED
      BY <2>4, <3>1
  <2> HIDE DEF new, rest
  <2>6. \A q \in Runs : q # r => Same(q)
    BY <1>3, <2>2 DEF Same, IInv, TypeOK
  <2>7. TypeOK'
    BY <1>1, <1>3, <2>1, <2>2, <2>3 DEF IInv, TypeOK, cmVars
  <2>8. RunOK(r)'
    <3>1. \A e \in Entities : new[e] > 0 => new[e] = read[r][e] /\ Home(e) = t
      BY <2>1, <2>4
    <3>2. \A s \in rest : Owner[s] = t
      BY DEF rest, StoresByTenant
    <3> QED
      BY <1>1, <1>3, <2>2, <2>5, <3>1, <3>2 DEF IInv, RunInv, RunOK, TrustedSource, SafePosture, cmVars
  <2>9. AloneOK(r)'
    <3>1. alone[r] => \A q \in Runs : q # r => ~Busy(q)'
      BY <2>6 DEF IInv, AloneInv, AloneOK, Busy, Same
    <3> QED
      BY <1>1, <1>3, <2>2, <3>1 DEF IInv, AloneInv, AloneOK, cmVars
  <2>10. MirrorIsGenuine'
    BY <1>1 DEF IInv, MirrorIsGenuine, cmVars
  <2> QED
    BY <1>1, <1>3, <2>2, <2>6, <2>7, <2>8, <2>9, <2>10, OwnStep DEF Busy
<1> QED
  BY <1>2, <1>3 DEF UpsertTenant

\* The transaction writes one of the tenant's stores.
LEMMA UpsertStoreStep ==
    ASSUME IInv, NEW r \in Runs, UpsertStore(r)
    PROVE  IInv'
<1>1. /\ pc[r] = "write"
      /\ UNCHANGED <<cmVars, mirror, astray, faults, pc, profile, asked, alone, read, todo,
                     tenant, exit>>
  BY DEF UpsertStore
<1>2. PICK s \in left[r] : /\ staged' = [staged EXCEPT ![r][s] = read[r][s]]
                           /\ left' = [left EXCEPT ![r] = @ \ {s}]
  BY DEF UpsertStore
<1> DEFINE new == [staged[r] EXCEPT ![s] = read[r][s]]
<1>3. s \in Stores /\ s \in Entities
  BY DEF IInv, TypeOK, Entities
<1>4. /\ staged' = [staged EXCEPT ![r] = new] /\ staged'[r] = new
      /\ left'[r] = left[r] \ {s} /\ new \in [Entities -> Versions]
  BY <1>2, <1>3 DEF IInv, TypeOK
<1>5. new[s] = read[r][s] /\ \A e \in Entities : e # s => new[e] = staged[r][e]
  BY <1>3 DEF IInv, TypeOK
<1> HIDE DEF new
<1>6. \A q \in Runs : q # r => Same(q)
  BY <1>1, <1>2, <1>4 DEF Same, IInv, TypeOK
<1>7. TypeOK'
  BY <1>1, <1>2, <1>4 DEF IInv, TypeOK, cmVars
<1>8. RunOK(r)'
  <2>1. \A e \in Entities : new[e] > 0 => new[e] = read[r][e] /\ Home(e) = tenant[r]
    <3>1. Home(s) = tenant[r]
      BY <1>1, <1>3, ConstantsAssumption DEF IInv, RunInv, RunOK, Home
    <3> QED
      BY <1>5, <3>1 DEF IInv, RunInv, RunOK
  <2>2. \A e \in Entities : Home(e) = tenant[r] /\ e \notin left'[r] => new[e] = read[r][e]
    BY <1>1, <1>4, <1>5 DEF IInv, RunInv, RunOK
  <2> QED
    BY <1>1, <1>4, <2>1, <2>2 DEF IInv, RunInv, RunOK, TrustedSource, SafePosture, cmVars
<1>9. AloneOK(r)'
  <2>1. alone[r] => \A q \in Runs : q # r => ~Busy(q)'
    BY <1>6 DEF IInv, AloneInv, AloneOK, Busy, Same
  <2> QED
    BY <1>1, <2>1 DEF IInv, AloneInv, AloneOK, cmVars
<1>10. MirrorIsGenuine'
  BY <1>1 DEF IInv, MirrorIsGenuine, cmVars
<1> QED
  BY <1>1, <1>6, <1>7, <1>8, <1>9, <1>10, OwnStep DEF Busy


\* The transaction commits: it has staged what was read, for its tenant and no other.
LEMMA CommitStep ==
    ASSUME IInv, NEW r \in Runs, CommitTenant(r)
    PROVE  IInv'
<1>1. /\ pc[r] = "write" /\ left[r] = {} /\ SafePosture(r) /\ TrustedSource(r)
      /\ mirror' = Upserted(r)
      /\ UNCHANGED <<cmVars, astray, faults, profile, asked, alone, read, left, exit>>
      /\ pc' = [pc EXCEPT ![r] = "next"] /\ pc'[r] = "next"
      /\ staged' = [staged EXCEPT ![r] = NoRows] /\ staged'[r] = NoRows
      /\ tenant' = [tenant EXCEPT ![r] = None]
      /\ todo' = [todo EXCEPT ![r] = @ \ {tenant[r]}] /\ todo'[r] = todo[r] \ {tenant[r]}
  BY DEF CommitTenant, Goto, IInv, TypeOK, RunInv, RunOK, SafePosture
<1>2. \A e \in Entities :
        /\ staged[r][e] \in Nat /\ cm[e] \in Nat /\ read[r][e] \in Nat /\ asked[r][e] \in Nat
        /\ mirror[e] \in Nat
        /\ mirror'[e] = IF staged[r][e] > 0 THEN read[r][e] ELSE mirror[e]
        /\ staged[r][e] > 0 => staged[r][e] = read[r][e] /\ Home(e) = tenant[r]
        /\ Home(e) = tenant[r] => staged[r][e] = read[r][e]
  BY <1>1 DEF Upserted, IInv, TypeOK, Versions, RunInv, RunOK
<1>3. mirror' \in [Entities -> Versions] /\ NoRows \in [Entities -> Versions]
  BY <1>1, ConstantsAssumption DEF Upserted, IInv, TypeOK, Versions, Bogus, NoRows
<1>4. \A q \in Runs : q # r => Same(q)
  BY <1>1 DEF Same, IInv, TypeOK
<1>5. TypeOK'
  BY <1>1, <1>3 DEF IInv, TypeOK, cmVars
<1>6. RunOK(r)'
  <2>1. \A e \in Entities : staged'[r][e] = 0
    BY <1>1 DEF NoRows
  <2> QED
    BY <1>1, <2>1 DEF IInv, RunInv, RunOK, TrustedSource, cmVars
<1>7. AloneOK(r)'
  <2>1. alone[r] => \A q \in Runs : q # r => ~Busy(q)'
    BY <1>4 DEF IInv, AloneInv, AloneOK, Busy, Same
  <2>2. alone[r] => \A e \in Entities : read[r][e] > 0 => mirror'[e] <= read[r][e]
    BY <1>2 DEF IInv, AloneInv, AloneOK
  <2>3. ASSUME alone[r], NEW e \in Entities \ gone, Home(e) \notin todo'[r]
        PROVE  asked[r][e] <= mirror'[e]
    <3>1. asked[r][e] <= read[r][e] /\ (Home(e) \notin todo[r] => asked[r][e] <= mirror[e])
      BY <1>1, <2>3 DEF IInv, AloneInv, AloneOK
    <3>2. Home(e) = tenant[r] \/ Home(e) \notin todo[r]
      BY <1>1, <2>3
    <3> QED
      BY <1>2, <3>1, <3>2
  <2> QED
    BY <1>1, <2>1, <2>2, <2>3 DEF IInv, AloneInv, AloneOK, cmVars
<1>8. MirrorIsGenuine'
  BY <1>1, <1>2 DEF IInv, MirrorIsGenuine, RunInv, RunOK, cmVars
<1> QED
  BY <1>1, <1>4, <1>5, <1>6, <1>7, <1>8, OwnStep DEF Busy

\* A run ends: because nothing is left to do, or because something failed.
LEMMA StopStep ==
    ASSUME IInv, NEW r \in Runs, Finish(r) \/ CallFails(r) \/ Crash(r)
    PROVE  IInv'
<1>1. CASE Finish(r)
  <2>1. alone[r] => \A e \in Entities \ gone : asked[r][e] <= mirror[e]
    BY <1>1 DEF Finish, IInv, AloneInv, AloneOK
  <2> QED
    BY <1>1, <2>1, EndStep DEF Finish, ExitCodes, Busy, IInv, TypeOK
<1>2. CASE CallFails(r) \/ Crash(r)
  <2>1. faults' \in 0..MaxFaults
    BY <1>2, ConstantsAssumption DEF CallFails, Crash, IInv, TypeOK
  <2>2. PICK code \in {None, 4, 6} : End(r, code)
    BY <1>2 DEF CallFails, Crash, ExitCodes
  <2>3. code # 0 /\ code \in {None, 0, 2, 3, 4, 5, 6}
    BY ConstantsAssumption
  <2> QED
    BY <1>2, <2>1, <2>2, <2>3, EndStep DEF CallFails, Crash
<1> QED
  BY <1>1, <1>2

----------------------------------------------------------------------------
\* Every step preserves the invariant.
LEMMA NextIInv == IInv /\ [Next]_vars => IInv'
<1> SUFFICES ASSUME IInv, [Next]_vars
             PROVE  IInv'
  OBVIOUS
<1>1. CASE UNCHANGED vars
  <2>1. TypeOK' /\ CmInv' /\ MirrorIsGenuine' /\ CleanExitIsComplete'
    BY <1>1 DEF IInv, vars, runVars, TypeOK, CmInv, Live, MirrorIsGenuine,
                CleanExitIsComplete, Busy
  <2>2. RunInv' /\ AloneInv'
    BY <1>1 DEF IInv, vars, runVars, RunInv, RunOK, TrustedSource, SafePosture, AloneInv,
                AloneOK, Busy
  <2> QED
    BY <2>1, <2>2 DEF IInv
<1>2. CASE CustomerMaster
  BY <1>2, CmChangeStep, CmDeleteStep DEF CustomerMaster
<1>3. ASSUME NEW r \in Runs,
             \/ Sync(r) \/ \E p \in Profiles \ {"good"} : Start(r, p)
             \/ CallFails(r) \/ Crash(r)
      PROVE  IInv'
  <2>1. "good" \in Profiles
    BY DEF Profiles
  <2> QED
    BY <1>3, <2>1, StartStep, AssertStep, ReadTenantsStep, ReadStoresStep, UpsertTenantStep,
       UpsertStoreStep, CommitStep, StopStep DEF Sync
<1> QED
  BY <1>1, <1>2, <1>3 DEF Next

\* The safety part of FairSpec.
SafeSpec == Init /\ [][Next]_vars

\* The invariant holds in every reachable state.
LEMMA Invariance == SafeSpec => []IInv
<1> QED
  BY InitIInv, NextIInv, PTL DEF SafeSpec

\* Fairness is not used for safety.
LEMMA FairIsSafe == FairSpec => SafeSpec
BY PTL DEF FairSpec, SafeSpec

\* The type of every variable: no version exceeds what Customer Master ever had.
THEOREM TypeCorrect == FairSpec => []TypeOK
<1>1. IInv => TypeOK
  BY DEF IInv
<1> QED
  BY <1>1, Invariance, FairIsSafe, PTL

\* MirrorIsGenuine: nothing reaches the mirror but rows of Customer Master, and nothing
\* reaches another database.
THEOREM OnlyGenuineRows == FairSpec => []MirrorIsGenuine
<1>1. IInv => MirrorIsGenuine
  BY DEF IInv
<1> QED
  BY <1>1, Invariance, FairIsSafe, PTL

\* CleanExitIsComplete: a run that exits 0 and met no other has left nothing out.
THEOREM CleanExitMirrorsAll == FairSpec => []CleanExitIsComplete
<1>1. IInv => CleanExitIsComplete
  BY DEF IInv
<1> QED
  BY <1>1, Invariance, FairIsSafe, PTL

\* OnlyOverlapGoesBack: rows stay, and only a run that met another takes one back.
THEOREM BackOnlyByOverlap == FairSpec => OnlyOverlapGoesBack
<1>1. ASSUME IInv, [Next]_vars, NEW e \in Entities
      PROVE  /\ mirror[e] > 0 => mirror'[e] > 0
             /\ mirror'[e] < mirror[e] => \E r \in Runs : Busy(r) /\ ~alone[r]
  <2>1. mirror[e] \in Nat
    BY <1>1 DEF IInv, TypeOK, Versions
  <2>2. CASE UNCHANGED mirror
    BY <2>1, <2>2
  <2>3. ASSUME NEW r \in Runs, CommitTenant(r)
        PROVE  /\ mirror[e] > 0 => mirror'[e] > 0
               /\ mirror'[e] < mirror[e] => Busy(r) /\ ~alone[r]
    <3>1. pc[r] = "write" /\ (mirror' = mirror \/ mirror' = Upserted(r))
      BY <2>3 DEF CommitTenant
    <3>2. Busy(r)
      BY <3>1 DEF Busy
    <3>3. staged[r][e] \in Nat /\ read[r][e] \in Nat
      BY <1>1 DEF IInv, TypeOK, Versions
    <3>4. staged[r][e] > 0 => staged[r][e] = read[r][e]
      BY <1>1 DEF IInv, RunInv, RunOK
    <3>5. alone[r] => (read[r][e] > 0 => mirror[e] <= read[r][e])
      BY <1>1 DEF IInv, AloneInv, AloneOK
    <3> QED
      BY <2>1, <3>1, <3>2, <3>3, <3>4, <3>5 DEF Upserted
  <2> QED
    BY <1>1, <2>2, <2>3
       DEF Next, vars, CustomerMaster, CmChange, CmDelete, Sync, Start, AssertCmTarget,
           ReadTenants, ReadStores, UpsertTenant, UpsertStore, Finish, CallFails, Crash
<1>2. IInv /\ [Next]_vars =>
        [\A e \in Entities :
           /\ mirror[e] > 0 => mirror'[e] > 0
           /\ mirror'[e] < mirror[e] => \E r \in Runs : Busy(r) /\ ~alone[r]]_vars
  BY <1>1
<1> QED
  BY <1>2, Invariance, FairIsSafe, PTL DEF SafeSpec, OnlyOverlapGoesBack
=============================================================================
