---------------------- MODULE RebuildScheduler_proofs ----------------------
(* Theorems about RebuildScheduler, for any number of instances, files,    *)
(* versions and stability checks.                                          *)
EXTENDS RebuildScheduler, TLAPS

---------------------------------------------------------------------------
(* Types *)

LEMMA UnsetType == Unset \in Manifest
  BY BoundsAssumption DEF Unset, Manifest

LEMMA InitType == Init => TypeOK
  <1> SUFFICES ASSUME Init PROVE TypeOK
    OBVIOUS
  <1>1. upstream \in [Files -> 1 .. MaxVersion] /\ upstream \in Manifest
    BY BoundsAssumption DEF Init, Manifest
  <1>2. published \in Manifest /\ source \in Manifest
    BY <1>1, UnsetType DEF Init
  <1>3. 0 \in 0 .. MaxStabilityChecks - 1
    BY BoundsAssumption
  <1>4. snapshots \subseteq Manifest
    BY <1>1 DEF Init
  <1>5. pc \in [Instances -> Stages]
    BY DEF Init, Stages
  <1>6. serving \in [Instances -> BOOLEAN] /\ got \in [Instances -> SUBSET Files]
    BY DEF Init
  <1>7. forceRebuild \in BOOLEAN
    BY SwitchesAssumption DEF Init
  <1> QED
    BY <1>1, <1>2, <1>3, <1>4, <1>5, <1>6, <1>7, UnsetType DEF Init, TypeOK

(* Starting or ending a cycle leaves the locals well typed. *)
LEMMA FreshLocalsType ==
  ASSUME TypeOK, NEW i \in Instances, FreshLocals(i)
  PROVE  /\ manifest' \in [Instances -> Manifest]
         /\ probe' \in [Instances -> Manifest]
         /\ checks' \in [Instances -> 0 .. MaxStabilityChecks - 1]
         /\ got' \in [Instances -> SUBSET Files]
  BY UnsetType, BoundsAssumption DEF TypeOK, FreshLocals

LEMMA ReturnType ==
  ASSUME TypeOK, NEW i \in Instances, NEW stage \in Stages, Return(i, stage)
  PROVE  /\ manifest' \in [Instances -> Manifest]
         /\ probe' \in [Instances -> Manifest]
         /\ checks' \in [Instances -> 0 .. MaxStabilityChecks - 1]
         /\ got' \in [Instances -> SUBSET Files]
         /\ pendingAtPoll' \in [Instances -> Manifest]
         /\ holder' \in Instances \cup {NoInstance}
         /\ pc' \in [Instances -> Stages]
  <1>1. FreshLocals(i)
    BY DEF Return
  <1>2. holder' \in Instances \cup {NoInstance}
    BY DEF Return, ReleaseLock, TypeOK
  <1>3. pendingAtPoll' \in [Instances -> Manifest]
    BY UnsetType DEF Return, TypeOK
  <1>4. pc' \in [Instances -> Stages]
    BY DEF Return, TypeOK
  <1> QED
    BY <1>1, <1>2, <1>3, <1>4, FreshLocalsType

LEMMA StepType == TypeOK /\ [Next]_vars => TypeOK'
  <1> SUFFICES ASSUME TypeOK, [Next]_vars PROVE TypeOK'
    OBVIOUS
  <1> USE DEF Stages, Probing, Locked, Rebuilding
  <1>1. ASSUME NEW i \in Instances, Boot(i) PROVE TypeOK'
    <2>1. FreshLocals(i)
      BY <1>1 DEF Boot, BeginCycle
    <2> QED
      BY <1>1, <2>1, FreshLocalsType
      DEF Boot, BeginCycle, HasTitles, TypeOK, envVars, stateVars
  <1>2. ASSUME NEW i \in Instances, Tick(i) PROVE TypeOK'
    <2>1. FreshLocals(i)
      BY <1>2 DEF Tick, BeginCycle
    <2> QED
      BY <1>2, <2>1, FreshLocalsType
      DEF Tick, BeginCycle, TypeOK, envVars, stateVars
  <1>3. ASSUME NEW i \in Instances, NEW f \in Files, Head(i, f) PROVE TypeOK'
    <2>1. upstream[f] \in 0 .. MaxVersion
      BY BoundsAssumption DEF TypeOK
    <2>2. probe' \in [Instances -> Manifest]
      BY <1>3, <2>1 DEF Head, TypeOK, Manifest
    <2> QED
      BY <1>3, <2>2 DEF Head, TypeOK, envVars, stateVars
  <1>4. ASSUME NEW i \in Instances, CheckTitles(i) PROVE TypeOK'
    BY <1>4, UnsetType
    DEF CheckTitles, StartProbe, Goto, TypeOK, envVars, stateVars
  <1>5. ASSUME NEW i \in Instances, StableManifest(i) PROVE TypeOK'
    BY <1>5, UnsetType
    DEF StableManifest, StartProbe, Goto, TypeOK, envVars, stateVars
  <1>6. ASSUME NEW i \in Instances, UnstableManifest(i) PROVE TypeOK'
    <2>1. checks' \in [Instances -> 0 .. MaxStabilityChecks - 1]
      BY <1>6, BoundsAssumption DEF UnstableManifest, TypeOK
    <2> QED
      BY <1>6, <2>1, UnsetType
      DEF UnstableManifest, StartProbe, TypeOK, envVars, stateVars
  <1>7. ASSUME NEW i \in Instances, NeverStable(i) PROVE TypeOK'
    <2> QED
      BY <1>7, ReturnType DEF NeverStable, Abort, TypeOK, envVars, stateVars
  <1>8. ASSUME NEW i \in Instances, CompareSource(i) PROVE TypeOK'
    BY <1>8 DEF CompareSource, Goto, TypeOK, envVars, stateVars, localVars
  <1>9. ASSUME NEW i \in Instances, ComparePending(i) PROVE TypeOK'
    BY <1>9 DEF ComparePending, Goto, TypeOK, envVars, stateVars, localVars
  <1>10. ASSUME NEW i \in Instances, SavePending(i) PROVE TypeOK'
    <2>1. pending' \in Manifest /\ Return(i, "wait")
      BY <1>10 DEF SavePending, Succeed, TypeOK
    <2> QED
      BY <1>10, <2>1, ReturnType DEF SavePending, Succeed, TypeOK, envVars
  <1>11. ASSUME NEW i \in Instances, ClearPending(i) PROVE TypeOK'
    <2>1. pending' \in Manifest /\ Return(i, "wait")
      BY <1>11, UnsetType DEF ClearPending, Succeed
    <2> QED
      BY <1>11, <2>1, ReturnType DEF ClearPending, Succeed, TypeOK, envVars
  <1>12. ASSUME NEW i \in Instances, AcquireLock(i) PROVE TypeOK'
    BY <1>12 DEF AcquireLock, Goto, TypeOK, envVars, stateVars, localVars
  <1>13. ASSUME NEW i \in Instances, SkipLocked(i) PROVE TypeOK'
    BY <1>13, ReturnType DEF SkipLocked, Succeed, TypeOK, envVars, stateVars
  <1>14. ASSUME NEW i \in Instances, CompareReprobe(i) PROVE TypeOK'
    BY <1>14, UnsetType
    DEF CompareReprobe, StartProbe, Goto, TypeOK, envVars, stateVars
  <1>15. ASSUME NEW i \in Instances, ReloadSource(i) PROVE TypeOK'
    BY <1>15 DEF ReloadSource, Goto, TypeOK, envVars, stateVars, localVars
  <1>16. ASSUME NEW i \in Instances, NEW f \in Files, Download(i, f) PROVE TypeOK'
    <2>1. upstream[f] \in 0 .. MaxVersion
      BY BoundsAssumption DEF TypeOK
    <2>2. data' \in [Instances -> Manifest]
      BY <1>16, <2>1 DEF Download, TypeOK, Manifest
    <2> QED
      BY <1>16, <2>2 DEF Download, TypeOK, envVars, stateVars
  <1>17. ASSUME NEW i \in Instances, Build(i) PROVE TypeOK'
    BY <1>17 DEF Build, Goto, TypeOK, envVars, stateVars, localVars
  <1>18. ASSUME NEW i \in Instances, Swap(i) PROVE TypeOK'
    BY <1>18 DEF Swap, Goto, TypeOK, envVars, stateVars, localVars
  <1>19. ASSUME NEW i \in Instances, SaveSource(i) PROVE TypeOK'
    BY <1>19 DEF SaveSource, Goto, TypeOK, envVars, localVars
  <1>20. ASSUME NEW i \in Instances, Fail(i) PROVE TypeOK'
    BY <1>20, ReturnType DEF Fail, Abort, TypeOK, envVars, stateVars
  <1>21. ASSUME NEW i \in Instances, Crash(i) PROVE TypeOK'
    BY <1>21, ReturnType DEF Crash, TypeOK, envVars, stateVars
  <1>22. ASSUME NEW i \in Instances, LoseLock(i) PROVE TypeOK'
    BY <1>22 DEF LoseLock, TypeOK, envVars, stateVars, localVars
  <1>23. ASSUME NEW f \in Files, Publish(f) PROVE TypeOK'
    <2>1. upstream' \in [Files -> 1 .. MaxVersion]
      BY <1>23, BoundsAssumption DEF Publish, TypeOK
    <2>2. upstream' \in Manifest
      BY <2>1, BoundsAssumption DEF Manifest
    <2>3. snapshots' \subseteq Manifest
      BY <1>23, <2>2 DEF Publish, TypeOK
    <2> QED
      BY <1>23, <2>1, <2>3 DEF Publish, TypeOK, stateVars, localVars
  <1>24. ASSUME CalmDown PROVE TypeOK'
    BY <1>24 DEF CalmDown, TypeOK, stateVars, localVars
  <1>25. CASE UNCHANGED vars
    BY <1>25 DEF vars, TypeOK, envVars, stateVars, localVars
  <1> QED
    BY <1>1, <1>2, <1>3, <1>4, <1>5, <1>6, <1>7, <1>8, <1>9, <1>10, <1>11, <1>12,
       <1>13, <1>14, <1>15, <1>16, <1>17, <1>18, <1>19, <1>20, <1>21, <1>22, <1>23,
       <1>24, <1>25
    DEF Next, Cycle

(* The state stays well typed: manifests are whole, the stability counter  *)
(* stays below its limit, the lock has one owner or none.                  *)
THEOREM Typing == Spec => []TypeOK
  <1> QED
    BY InitType, StepType, PTL DEF Spec
---------------------------------------------------------------------------
(* Mutual exclusion.  The lock must not be lost while its owner runs on. *)

LEMMA InitLock == Init => LockDiscipline
  BY DEF Init, LockDiscipline, Locked, Rebuilding

LEMMA StepLock ==
  ASSUME ~LockLoss
  PROVE  TypeOK /\ LockDiscipline /\ [Next]_vars => LockDiscipline'
  <1> SUFFICES ASSUME TypeOK, LockDiscipline, [Next]_vars PROVE LockDiscipline'
    OBVIOUS
  <1> USE DEF Locked, Rebuilding, LockDiscipline
  <1>0. pc \in [Instances -> Stages]
    BY DEF TypeOK
  <1>1. ASSUME NEW i \in Instances, Boot(i) PROVE LockDiscipline'
    BY <1>0, <1>1 DEF Boot, BeginCycle, FreshLocals, envVars, stateVars, localVars
  <1>2. ASSUME NEW i \in Instances, Tick(i) PROVE LockDiscipline'
    BY <1>0, <1>2 DEF Tick, BeginCycle, FreshLocals, envVars, stateVars, localVars
  <1>3. ASSUME NEW i \in Instances, NEW f \in Files, Head(i, f) PROVE LockDiscipline'
    BY <1>0, <1>3 DEF Head, envVars, stateVars, localVars
  <1>4. ASSUME NEW i \in Instances, CheckTitles(i) PROVE LockDiscipline'
    BY <1>0, <1>4 DEF CheckTitles, Goto, StartProbe, envVars, stateVars, localVars
  <1>5. ASSUME NEW i \in Instances, StableManifest(i) PROVE LockDiscipline'
    BY <1>0, <1>5
    DEF StableManifest, Goto, StartProbe, envVars, stateVars, localVars
  <1>6. ASSUME NEW i \in Instances, UnstableManifest(i) PROVE LockDiscipline'
    BY <1>0, <1>6 DEF UnstableManifest, StartProbe, envVars, stateVars, localVars
  <1>7. ASSUME NEW i \in Instances, NeverStable(i) PROVE LockDiscipline'
    BY <1>0, <1>7
    DEF NeverStable, Abort, Return, FreshLocals, ReleaseLock, envVars,
        stateVars, localVars
  <1>8. ASSUME NEW i \in Instances, CompareSource(i) PROVE LockDiscipline'
    BY <1>0, <1>8 DEF CompareSource, Goto, envVars, stateVars, localVars
  <1>9. ASSUME NEW i \in Instances, ComparePending(i) PROVE LockDiscipline'
    BY <1>0, <1>9 DEF ComparePending, Goto, envVars, stateVars, localVars
  <1>10. ASSUME NEW i \in Instances, SavePending(i) PROVE LockDiscipline'
    BY <1>0, <1>10
    DEF SavePending, Succeed, Return, FreshLocals, ReleaseLock, envVars,
        stateVars, localVars
  <1>11. ASSUME NEW i \in Instances, ClearPending(i) PROVE LockDiscipline'
    BY <1>0, <1>11
    DEF ClearPending, Succeed, Return, FreshLocals, ReleaseLock, envVars,
        stateVars, localVars
  <1>12. ASSUME NEW i \in Instances, AcquireLock(i) PROVE LockDiscipline'
    BY <1>0, <1>12, InstancesAssumption
    DEF AcquireLock, Goto, envVars, stateVars, localVars
  <1>13. ASSUME NEW i \in Instances, SkipLocked(i) PROVE LockDiscipline'
    BY <1>0, <1>13
    DEF SkipLocked, Succeed, Return, FreshLocals, ReleaseLock, envVars,
        stateVars, localVars
  <1>14. ASSUME NEW i \in Instances, CompareReprobe(i) PROVE LockDiscipline'
    BY <1>0, <1>14
    DEF CompareReprobe, Goto, StartProbe, envVars, stateVars, localVars
  <1>15. ASSUME NEW i \in Instances, ReloadSource(i) PROVE LockDiscipline'
    BY <1>0, <1>15 DEF ReloadSource, Goto, envVars, stateVars, localVars
  <1>16. ASSUME NEW i \in Instances, NEW f \in Files, Download(i, f) PROVE LockDiscipline'
    BY <1>0, <1>16 DEF Download, envVars, stateVars, localVars
  <1>17. ASSUME NEW i \in Instances, Build(i) PROVE LockDiscipline'
    BY <1>0, <1>17 DEF Build, Goto, envVars, stateVars, localVars
  <1>18. ASSUME NEW i \in Instances, Swap(i) PROVE LockDiscipline'
    BY <1>0, <1>18 DEF Swap, Goto, envVars, stateVars, localVars
  <1>19. ASSUME NEW i \in Instances, SaveSource(i) PROVE LockDiscipline'
    BY <1>0, <1>19 DEF SaveSource, Goto, envVars, stateVars, localVars
  <1>20. ASSUME NEW i \in Instances, Fail(i) PROVE LockDiscipline'
    BY <1>0, <1>20
    DEF Fail, Abort, Return, FreshLocals, ReleaseLock, envVars, stateVars,
        localVars
  <1>21. ASSUME NEW i \in Instances, Crash(i) PROVE LockDiscipline'
    BY <1>0, <1>21
    DEF Crash, Return, FreshLocals, ReleaseLock, envVars, stateVars, localVars
  <1>22. ASSUME NEW i \in Instances, LoseLock(i) PROVE LockDiscipline'
    BY <1>0, <1>22 DEF LoseLock, envVars, stateVars, localVars
  <1>23. ASSUME NEW f \in Files, Publish(f) PROVE LockDiscipline'
    BY <1>0, <1>23 DEF Publish, envVars, stateVars, localVars
  <1>24. ASSUME CalmDown PROVE LockDiscipline'
    BY <1>0, <1>24 DEF CalmDown, envVars, stateVars, localVars
  <1>25. CASE UNCHANGED vars
    BY <1>25 DEF vars
  <1> QED
    BY <1>1, <1>2, <1>3, <1>4, <1>5, <1>6, <1>7, <1>8, <1>9, <1>10, <1>11, <1>12, <1>13,
       <1>14, <1>15, <1>16, <1>17, <1>18, <1>19, <1>20, <1>21, <1>22, <1>23, <1>24, <1>25
    DEF Next, Cycle

LEMMA LockExcludes == LockDiscipline => RebuildsExclude
  BY DEF LockDiscipline, RebuildsExclude, Locked

(* As long as the lock is not lost, no two instances rebuild at once,      *)
(* whatever crashes, failures and upstream changes happen.                 *)
THEOREM MutualExclusion ==
  ASSUME ~LockLoss
  PROVE  Spec => []RebuildsExclude
  <1>1. Init => TypeOK /\ LockDiscipline
    BY InitType, InitLock
  <1>2. TypeOK /\ LockDiscipline /\ [Next]_vars => (TypeOK /\ LockDiscipline)'
    BY StepType, StepLock
  <1> QED
    BY <1>1, <1>2, LockExcludes, PTL DEF Spec

---------------------------------------------------------------------------
(* Freshness: what is recorded is never ahead of what is live. *)

LEMMA NotNewerReflexive ==
  ASSUME NEW m \in Manifest
  PROVE  NotNewer(m, m) /\ NotNewer(Unset, m)
  BY BoundsAssumption DEF NotNewer, Manifest, Unset

LEMMA NotNewerTransitive ==
  ASSUME NEW k \in Manifest, NEW m \in Manifest, NEW n \in Manifest,
         NotNewer(k, m), NotNewer(m, n)
  PROVE  NotNewer(k, n)
  BY BoundsAssumption DEF NotNewer, Manifest

LEMMA InitFresh == Init => Freshness
  <1> SUFFICES ASSUME Init PROVE Freshness
    OBVIOUS
  <1>1. upstream \in Manifest
    BY BoundsAssumption DEF Init, Manifest
  <1>2. NotNewer(source, published) /\ NotNewer(published, upstream)
    BY <1>1, NotNewerReflexive, UnsetType DEF Init
  <1> QED
    BY <1>1, <1>2, NotNewerReflexive, UnsetType DEF Init, Freshness, FreshAt, Rebuilding

LEMMA StepFresh ==
  ASSUME TypeOK, TypeOK', RebuildsExclude, Freshness, [Next]_vars
  PROVE  Freshness'
  <1> USE DEF Rebuilding
  <1>0. /\ pc \in [Instances -> Stages]
        /\ manifest \in [Instances -> Manifest]
        /\ probe \in [Instances -> Manifest]
        /\ got \in [Instances -> SUBSET Files]
        /\ data \in [Instances -> Manifest]
        /\ upstream \in Manifest
        /\ published \in Manifest
        /\ source \in Manifest
    BY BoundsAssumption DEF TypeOK, Manifest
  <1>1. ASSUME NEW i \in Instances, Boot(i) PROVE Freshness'
    BY <1>0, <1>1, NotNewerReflexive
    DEF Boot, BeginCycle, FreshLocals, envVars, stateVars, localVars,
        Freshness, FreshAt
  <1>2. ASSUME NEW i \in Instances, Tick(i) PROVE Freshness'
    BY <1>0, <1>2, NotNewerReflexive
    DEF Tick, BeginCycle, FreshLocals, envVars, stateVars, localVars,
        Freshness, FreshAt
  <1>3. ASSUME NEW i \in Instances, NEW f \in Files, Head(i, f) PROVE Freshness'
    <2>1. probe' \in [Instances -> Manifest] /\ upstream' = upstream
      BY <1>3 DEF TypeOK, Head, envVars
    <2>2. ASSUME NEW j \in Instances PROVE NotNewer(probe'[j], upstream)
      <3>1. NotNewer(probe[j], upstream)
        BY DEF Freshness, FreshAt
      <3> QED
        BY <1>0, <1>3, <3>1, BoundsAssumption DEF Head, NotNewer, Manifest
    <2> QED
      BY <1>0, <1>3, <2>1, <2>2 DEF Head, envVars, stateVars, Freshness, FreshAt
  <1>4. ASSUME NEW i \in Instances, CheckTitles(i) PROVE Freshness'
    BY <1>0, <1>4, NotNewerReflexive
    DEF CheckTitles, Goto, StartProbe, envVars, stateVars, localVars,
        Freshness, FreshAt
  <1>5. ASSUME NEW i \in Instances, StableManifest(i) PROVE Freshness'
    BY <1>0, <1>5, NotNewerReflexive
    DEF StableManifest, Goto, StartProbe, envVars, stateVars, localVars,
        Freshness, FreshAt
  <1>6. ASSUME NEW i \in Instances, UnstableManifest(i) PROVE Freshness'
    BY <1>0, <1>6, NotNewerReflexive
    DEF UnstableManifest, StartProbe, envVars, stateVars, localVars, Freshness,
        FreshAt
  <1>7. ASSUME NEW i \in Instances, NeverStable(i) PROVE Freshness'
    BY <1>0, <1>7, NotNewerReflexive
    DEF NeverStable, Abort, Return, FreshLocals, ReleaseLock, envVars,
        stateVars, localVars, Freshness, FreshAt
  <1>8. ASSUME NEW i \in Instances, CompareSource(i) PROVE Freshness'
    BY <1>0, <1>8, NotNewerReflexive
    DEF CompareSource, Goto, envVars, stateVars, localVars, Freshness, FreshAt
  <1>9. ASSUME NEW i \in Instances, ComparePending(i) PROVE Freshness'
    BY <1>0, <1>9, NotNewerReflexive
    DEF ComparePending, Goto, envVars, stateVars, localVars, Freshness, FreshAt
  <1>10. ASSUME NEW i \in Instances, SavePending(i) PROVE Freshness'
    BY <1>0, <1>10, NotNewerReflexive
    DEF SavePending, Succeed, Return, FreshLocals, ReleaseLock, envVars,
        stateVars, localVars, Freshness, FreshAt
  <1>11. ASSUME NEW i \in Instances, ClearPending(i) PROVE Freshness'
    BY <1>0, <1>11, NotNewerReflexive
    DEF ClearPending, Succeed, Return, FreshLocals, ReleaseLock, envVars,
        stateVars, localVars, Freshness, FreshAt
  <1>12. ASSUME NEW i \in Instances, AcquireLock(i) PROVE Freshness'
    BY <1>0, <1>12, NotNewerReflexive
    DEF AcquireLock, Goto, envVars, stateVars, localVars, Freshness, FreshAt
  <1>13. ASSUME NEW i \in Instances, SkipLocked(i) PROVE Freshness'
    BY <1>0, <1>13, NotNewerReflexive
    DEF SkipLocked, Succeed, Return, FreshLocals, ReleaseLock, envVars,
        stateVars, localVars, Freshness, FreshAt
  <1>14. ASSUME NEW i \in Instances, CompareReprobe(i) PROVE Freshness'
    BY <1>0, <1>14, NotNewerReflexive
    DEF CompareReprobe, Goto, StartProbe, envVars, stateVars, localVars,
        Freshness, FreshAt
  <1>15. ASSUME NEW i \in Instances, ReloadSource(i) PROVE Freshness'
    BY <1>0, <1>15, NotNewerReflexive
    DEF ReloadSource, Goto, envVars, stateVars, localVars, Freshness, FreshAt
  <1>16. ASSUME NEW i \in Instances, NEW f \in Files, Download(i, f) PROVE Freshness'
    <2>1. data' \in [Instances -> Manifest]
      BY DEF TypeOK
    <2>2. ASSUME NEW j \in Instances, NEW g \in Files
          PROVE  /\ data'[j][g] <= upstream[g]
                 /\ g \in got'[j] /\ pc[j] \in {"download", "swap"}
                      => manifest[j][g] <= data'[j][g] /\ published[g] <= data'[j][g]
      <3>1. /\ data[j][g] <= upstream[g]
            /\ manifest[j][g] <= upstream[g]
            /\ published[g] <= upstream[g]
            /\ g \in got[j] /\ pc[j] \in {"download", "swap"}
                 => manifest[j][g] <= data[j][g] /\ published[g] <= data[j][g]
        BY DEF Freshness, FreshAt, NotNewer
      <3>2. upstream[g] <= upstream[g]
        BY <1>0, BoundsAssumption DEF Manifest
      <3>3. CASE j = i /\ g = f
        <4>1. data'[j][g] = upstream[g]
          BY <1>0, <1>16, <3>3 DEF Download, Manifest
        <4> QED
          BY <3>1, <3>2, <4>1
      <3>4. CASE ~(j = i /\ g = f)
        <4>1. data'[j][g] = data[j][g] /\ (g \in got'[j] => g \in got[j])
          BY <1>0, <1>16, <3>4 DEF Download, Manifest
        <4> QED
          BY <3>1, <4>1
      <3> QED
        BY <3>3, <3>4
    <2>3. \A j \in Instances : pc[j] # "download" => got'[j] = got[j]
      BY <1>0, <1>16 DEF Download
    <2>4. \A j \in Instances : got'[j] \subseteq Files
      BY DEF TypeOK
    <2> QED
      BY <1>0, <1>16, <2>2, <2>3, <2>4
      DEF Download, envVars, stateVars, Freshness, FreshAt, NotNewer
  <1>17. ASSUME NEW i \in Instances, Build(i) PROVE Freshness'
    BY <1>0, <1>17, NotNewerReflexive
    DEF Build, Goto, envVars, stateVars, localVars, Freshness, FreshAt
  <1>18. ASSUME NEW i \in Instances, Swap(i) PROVE Freshness'
    <2>1. published' = data[i] /\ pc[i] = "swap"
      BY <1>18 DEF Swap
    <2>2. /\ NotNewer(manifest[i], data[i])
          /\ NotNewer(published, data[i])
          /\ NotNewer(data[i], upstream)
      BY <2>1 DEF Freshness, FreshAt, NotNewer
    <2>3. NotNewer(source, data[i])
      BY <1>0, <2>2, NotNewerTransitive DEF Freshness
    <2>4. \A j \in Instances : j # i => pc[j] \notin Rebuilding
      BY <2>1 DEF RebuildsExclude
    <2> QED
      BY <1>0, <1>18, <2>1, <2>2, <2>3, <2>4
      DEF Swap, Goto, envVars, stateVars, localVars, Freshness, FreshAt
  <1>19. ASSUME NEW i \in Instances, SaveSource(i) PROVE Freshness'
    BY <1>0, <1>19, NotNewerReflexive
    DEF SaveSource, Goto, envVars, stateVars, localVars, Freshness, FreshAt
  <1>20. ASSUME NEW i \in Instances, Fail(i) PROVE Freshness'
    BY <1>0, <1>20, NotNewerReflexive
    DEF Fail, Abort, Return, FreshLocals, ReleaseLock, envVars, stateVars,
        localVars, Freshness, FreshAt
  <1>21. ASSUME NEW i \in Instances, Crash(i) PROVE Freshness'
    BY <1>0, <1>21, NotNewerReflexive
    DEF Crash, Return, FreshLocals, ReleaseLock, envVars, stateVars, localVars,
        Freshness, FreshAt
  <1>22. ASSUME NEW i \in Instances, LoseLock(i) PROVE Freshness'
    BY <1>0, <1>22, NotNewerReflexive
    DEF LoseLock, envVars, stateVars, localVars, Freshness, FreshAt
  <1>23. ASSUME NEW f \in Files, Publish(f) PROVE Freshness'
    <2>1. upstream' \in Manifest
      BY BoundsAssumption DEF TypeOK, Manifest
    <2>2. NotNewer(upstream, upstream')
      BY <1>0, <1>23, BoundsAssumption DEF Publish, NotNewer, Manifest
    <2>3. \A m \in Manifest : NotNewer(m, upstream) => NotNewer(m, upstream')
      BY <1>0, <2>1, <2>2, NotNewerTransitive
    <2> QED
      BY <1>0, <1>23, <2>3 DEF Publish, stateVars, localVars, Freshness, FreshAt
  <1>24. ASSUME CalmDown PROVE Freshness'
    BY <1>0, <1>24, NotNewerReflexive
    DEF CalmDown, envVars, stateVars, localVars, Freshness, FreshAt
  <1>25. CASE UNCHANGED vars
    BY <1>25 DEF vars, envVars, stateVars, localVars, Freshness, FreshAt, NotNewer
  <1> QED
    BY <1>1, <1>2, <1>3, <1>4, <1>5, <1>6, <1>7, <1>8, <1>9, <1>10, <1>11, <1>12, <1>13,
       <1>14, <1>15, <1>16, <1>17, <1>18, <1>19, <1>20, <1>21, <1>22, <1>23, <1>24, <1>25
    DEF Next, Cycle

---------------------------------------------------------------------------
LEMMA InitInvariant == Init => RebuildInvariant
  BY InitType, InitLock, InitFresh DEF RebuildInvariant

LEMMA StepInvariant ==
  ASSUME ~LockLoss
  PROVE  RebuildInvariant /\ [Next]_vars => RebuildInvariant'
  BY StepType, StepLock, LockExcludes, StepFresh DEF RebuildInvariant

(* The inductive invariant of the scheduler. *)
THEOREM Invariance ==
  ASSUME ~LockLoss
  PROVE  Spec => []RebuildInvariant
  BY InitInvariant, StepInvariant, PTL DEF Spec

(* The recorded manifest is never ahead of the live tables, so a poll that *)
(* skips the rebuild because nothing changed never skips a needed one.     *)
THEOREM RecordedNeverAhead ==
  ASSUME ~LockLoss
  PROVE  Spec => []RecordedNotAhead
  <1>1. RebuildInvariant => RecordedNotAhead
    BY DEF RebuildInvariant, Freshness, RecordedNotAhead
  <1> QED
    BY <1>1, Invariance, PTL

(* Only a swap writes the live tables. *)
LEMMA PublishedChanges ==
  ASSUME [Next]_vars, published' # published
  PROVE  \E i \in Instances : Swap(i)
  BY DEF Next, Cycle, vars, Boot, Tick, BeginCycle, Head, CheckTitles,
         StableManifest, UnstableManifest, NeverStable, CompareSource,
         ComparePending, SavePending, ClearPending, AcquireLock, SkipLocked,
         CompareReprobe, ReloadSource, Download, Build, SaveSource, Publish,
         Fail, Crash, LoseLock, CalmDown

(* A step that changes the live tables is a swap of tables at least as     *)
(* recent, and none newer than upstream.                                   *)
LEMMA StepPublished ==
  ASSUME TypeOK, Freshness, [Next]_vars, published' # published
  PROVE  /\ NotNewer(published, published')
         /\ NotNewer(published', upstream)
         /\ published' \in Manifest
         /\ UNCHANGED <<upstream, source>>
  <1>1. PICK i \in Instances : Swap(i)
    BY PublishedChanges
  <1> QED
    BY <1>1 DEF Swap, Freshness, FreshAt, NotNewer, TypeOK,
       envVars, stateVars

(* Every step, whether it changes the live tables or not *)
LEMMA StepMonotone ==
  ASSUME TypeOK, Freshness, [Next]_vars
  PROVE  NotNewer(published, published')
  <1>1. CASE published' = published
    BY <1>1, NotNewerReflexive DEF TypeOK
  <1>2. CASE published' # published
    BY <1>2, StepPublished
  <1> QED
    BY <1>1, <1>2

(* No step replaces live data by older data. *)
THEOREM LiveDataMonotone ==
  ASSUME ~LockLoss
  PROVE  Spec => PublishedNeverRegresses
  <1>1. RebuildInvariant /\ [Next]_vars => [NotNewer(published, published')]_vars
    BY StepMonotone DEF RebuildInvariant
  <1> QED
    BY <1>1, Invariance, PTL DEF Spec, PublishedNeverRegresses

---------------------------------------------------------------------------
(* No redundant rebuild.  On a database that holds a dataset the bootstrap *)
(* path is never taken, so that every rebuild has compared its manifest    *)
(* with the recorded one under the lock; and only the lock's holder        *)
(* changes the recorded one.                                               *)

Purposeful ==
  /\ HasTitles
  /\ \A i \in Instances : pc[i] \notin {"stability", "bootstrapLock"}
  /\ NoRedundantRebuild

LEMMA InitPurposeful ==
  ASSUME Seeded
  PROVE  Init => Purposeful
  <1> SUFFICES ASSUME Init PROVE Purposeful
    OBVIOUS
  <1>1. 1 \in Files
    BY BoundsAssumption DEF Files
  <1>2. HasTitles
    BY <1>1 DEF Init, HasTitles
  <1> QED
    BY <1>2 DEF Init, Purposeful, NoRedundantRebuild, Rebuilding

(* Newer live tables still have rows. *)
LEMMA TitlesStay ==
  ASSUME TypeOK, Freshness, [Next]_vars, HasTitles
  PROVE  HasTitles'
  <1>1. published \in Manifest /\ published' \in Manifest
    BY StepType DEF TypeOK
  <1>2. CASE published' = published
    BY <1>2 DEF HasTitles
  <1>3. CASE published' # published
    <2>1. PICK f \in Files : published[f] # 0
      BY DEF HasTitles
    <2>2. published[f] <= published'[f]
      BY <1>3, StepPublished DEF NotNewer
    <2>3. published'[f] # 0
      BY <1>1, <2>1, <2>2, BoundsAssumption DEF Manifest
    <2> QED
      BY <2>3 DEF HasTitles
  <1> QED
    BY <1>2, <1>3

(* The environment of the processes is set for good. *)
LEMMA ForceStays ==
  ASSUME [Next]_vars
  PROVE  forceRebuild' = forceRebuild
  BY DEF Next, Cycle, vars, envVars, Boot, Tick, BeginCycle, Head, CheckTitles,
         StableManifest, UnstableManifest, NeverStable, CompareSource, ComparePending,
         SavePending, ClearPending, AcquireLock, SkipLocked, CompareReprobe, ReloadSource,
         Download, Build, Swap, SaveSource, Fail, Crash, LoseLock, Publish, CalmDown

LEMMA StepPurposeful ==
  ASSUME ~forceRebuild, RebuildInvariant, Purposeful, [Next]_vars
  PROVE  Purposeful'
  <1> USE DEF Locked, Rebuilding, NoRedundantRebuild
  <1>a. HasTitles /\ HasTitles'
    BY TitlesStay DEF Purposeful, RebuildInvariant
  <1>0. /\ pc \in [Instances -> Stages]
        /\ manifest \in [Instances -> Manifest]
    BY DEF RebuildInvariant, TypeOK
  <1>1. ASSUME NEW i \in Instances, Boot(i) PROVE Purposeful'
    BY <1>0, <1>a, <1>1
    DEF Boot, BeginCycle, FreshLocals, envVars, stateVars, localVars,
        Purposeful
  <1>2. ASSUME NEW i \in Instances, Tick(i) PROVE Purposeful'
    BY <1>0, <1>a, <1>2
    DEF Tick, BeginCycle, FreshLocals, envVars, stateVars, localVars,
        Purposeful
  <1>3. ASSUME NEW i \in Instances, NEW f \in Files, Head(i, f) PROVE Purposeful'
    BY <1>0, <1>a, <1>3 DEF Head, envVars, stateVars, localVars, Purposeful
  <1>4. ASSUME NEW i \in Instances, CheckTitles(i) PROVE Purposeful'
    BY <1>0, <1>a, <1>4
    DEF CheckTitles, Goto, StartProbe, envVars, stateVars, localVars,
        Purposeful
  <1>5. ASSUME NEW i \in Instances, StableManifest(i) PROVE Purposeful'
    BY <1>0, <1>a, <1>5
    DEF StableManifest, Goto, StartProbe, envVars, stateVars, localVars, Purposeful
  <1>6. ASSUME NEW i \in Instances, UnstableManifest(i) PROVE Purposeful'
    BY <1>0, <1>a, <1>6
    DEF UnstableManifest, StartProbe, envVars, stateVars, localVars, Purposeful
  <1>7. ASSUME NEW i \in Instances, NeverStable(i) PROVE Purposeful'
    BY <1>0, <1>a, <1>7
    DEF NeverStable, Abort, Return, FreshLocals, ReleaseLock, envVars,
        stateVars, localVars, Purposeful
  <1>8. ASSUME NEW i \in Instances, CompareSource(i) PROVE Purposeful'
    BY <1>0, <1>a, <1>8
    DEF CompareSource, Goto, envVars, stateVars, localVars, Purposeful
  <1>9. ASSUME NEW i \in Instances, ComparePending(i) PROVE Purposeful'
    BY <1>0, <1>a, <1>9
    DEF ComparePending, Goto, envVars, stateVars, localVars, Purposeful
  <1>10. ASSUME NEW i \in Instances, SavePending(i) PROVE Purposeful'
    BY <1>0, <1>a, <1>10
    DEF SavePending, Succeed, Return, FreshLocals, ReleaseLock, envVars,
        stateVars, localVars, Purposeful
  <1>11. ASSUME NEW i \in Instances, ClearPending(i) PROVE Purposeful'
    BY <1>0, <1>a, <1>11
    DEF ClearPending, Succeed, Return, FreshLocals, ReleaseLock, envVars,
        stateVars, localVars, Purposeful
  <1>12. ASSUME NEW i \in Instances, AcquireLock(i) PROVE Purposeful'
    BY <1>0, <1>a, <1>12, InstancesAssumption
    DEF AcquireLock, Goto, envVars, stateVars, localVars, Purposeful
  <1>13. ASSUME NEW i \in Instances, SkipLocked(i) PROVE Purposeful'
    BY <1>0, <1>a, <1>13
    DEF SkipLocked, Succeed, Return, FreshLocals, ReleaseLock, envVars,
        stateVars, localVars, Purposeful
  <1>14. ASSUME NEW i \in Instances, CompareReprobe(i) PROVE Purposeful'
    BY <1>0, <1>a, <1>14
    DEF CompareReprobe, Goto, StartProbe, envVars, stateVars, localVars, Purposeful
  <1>15. ASSUME NEW i \in Instances, ReloadSource(i) PROVE Purposeful'
    BY <1>0, <1>a, <1>15
    DEF ReloadSource, Goto, envVars, stateVars, localVars, Purposeful
  <1>16. ASSUME NEW i \in Instances, NEW f \in Files, Download(i, f) PROVE Purposeful'
    BY <1>0, <1>a, <1>16 DEF Download, envVars, stateVars, localVars, Purposeful
  <1>17. ASSUME NEW i \in Instances, Build(i) PROVE Purposeful'
    BY <1>0, <1>a, <1>17 DEF Build, Goto, envVars, stateVars, localVars, Purposeful
  <1>18. ASSUME NEW i \in Instances, Swap(i) PROVE Purposeful'
    BY <1>0, <1>a, <1>18 DEF Swap, Goto, envVars, stateVars, localVars, Purposeful
  <1>19. ASSUME NEW i \in Instances, SaveSource(i) PROVE Purposeful'
    <2>1. \A j \in Instances : j # i => pc[j] \notin Rebuilding
      BY <1>19 DEF SaveSource, RebuildInvariant, LockDiscipline
    <2> QED
      BY <1>0, <1>a, <1>19, <2>1 DEF SaveSource, Goto, localVars, Purposeful
  <1>20. ASSUME NEW i \in Instances, Fail(i) PROVE Purposeful'
    BY <1>0, <1>a, <1>20
    DEF Fail, Abort, Return, FreshLocals, ReleaseLock, envVars, stateVars,
        localVars, Purposeful
  <1>21. ASSUME NEW i \in Instances, Crash(i) PROVE Purposeful'
    BY <1>0, <1>a, <1>21
    DEF Crash, Return, FreshLocals, ReleaseLock, envVars, stateVars, localVars,
        Purposeful
  <1>22. ASSUME NEW i \in Instances, LoseLock(i) PROVE Purposeful'
    BY <1>0, <1>a, <1>22 DEF LoseLock, envVars, stateVars, localVars, Purposeful
  <1>23. ASSUME NEW f \in Files, Publish(f) PROVE Purposeful'
    BY <1>0, <1>a, <1>23 DEF Publish, envVars, stateVars, localVars, Purposeful
  <1>24. ASSUME CalmDown PROVE Purposeful'
    BY <1>0, <1>a, <1>24 DEF CalmDown, envVars, stateVars, localVars, Purposeful
  <1>25. CASE UNCHANGED vars
    BY <1>a, <1>25 DEF vars, stateVars, localVars, Purposeful
  <1> QED
    BY <1>1, <1>2, <1>3, <1>4, <1>5, <1>6, <1>7, <1>8, <1>9, <1>10, <1>11, <1>12, <1>13,
       <1>14, <1>15, <1>16, <1>17, <1>18, <1>19, <1>20, <1>21, <1>22, <1>23, <1>24, <1>25
    DEF Next, Cycle

(* On a database that already holds a dataset, as long as the lock is not  *)
(* lost and rebuilds are not forced, every rebuild is for a manifest that  *)
(* nobody has recorded.                                                    *)
THEOREM EveryRebuildHasAReason ==
  ASSUME Seeded, ForceModes = {FALSE}, ~LockLoss
  PROVE  Spec => []NoRedundantRebuild
  <1> DEFINE Inv == ~forceRebuild /\ RebuildInvariant /\ Purposeful
  <1>1. Init => Inv
    BY InitInvariant, InitPurposeful DEF Init
  <1>2. Inv /\ [Next]_vars => Inv'
    BY StepInvariant, StepPurposeful, ForceStays
  <1>3. Inv => NoRedundantRebuild
    BY DEF Purposeful
  <1> HIDE DEF Inv
  <1> QED
    BY <1>1, <1>2, <1>3, PTL DEF Spec

---------------------------------------------------------------------------
(* Every recorded manifest is a snapshot of upstream, lock or no lock. *)

LEMMA InitAnchored == Init => Anchored
  <1> SUFFICES ASSUME Init PROVE Anchored
    OBVIOUS
  <1>1. upstream \in Manifest
    BY BoundsAssumption DEF Init, Manifest
  <1> QED
    BY <1>1, NotNewerReflexive
    DEF Init, Anchored, AnchoredAt, Offered, Rebuilding

(* The manifest between two equal probes is the snapshot that anchors them. *)
LEMMA EqualProbesAreReal ==
  ASSUME TypeOK, Anchored, NEW i \in Instances, pc[i] \in {"stability", "reprobe"},
         ProbeComplete(i), manifest[i] = probe[i]
  PROVE  manifest[i] \in snapshots
  <1>1. PICK s \in snapshots : /\ NotNewer(manifest[i], s)
                              /\ \A f \in Files : probe[i][f] # 0 => s[f] <= probe[i][f]
    BY DEF Anchored, AnchoredAt
  <1>2. s \in Manifest /\ manifest[i] \in Manifest
    BY DEF TypeOK
  <1>3. \A f \in Files : manifest[i][f] = s[f]
    BY <1>1, <1>2, BoundsAssumption DEF ProbeComplete, NotNewer, Manifest
  <1>4. manifest[i] = s
    BY <1>2, <1>3 DEF Manifest
  <1> QED
    BY <1>4

(* A probe that has no answer yet is anchored by what upstream offers now. *)
LEMMA AnchorNow ==
  ASSUME NEW m \in Manifest, upstream \in Manifest, upstream \in snapshots,
         NotNewer(m, upstream)
  PROVE  \E s \in snapshots : /\ NotNewer(m, s)
                              /\ NotNewer(s, upstream)
                              /\ \A f \in Files : Unset[f] # 0 => s[f] <= Unset[f]
  BY NotNewerReflexive DEF Unset

(* A step of one instance that leaves upstream and the record alone has    *)
(* only itself to answer for.                                              *)
LEMMA AnchoredOthers ==
  ASSUME Anchored, upstream \in Manifest, NEW i \in Instances,
         upstream' = upstream, snapshots' = snapshots, source' = source,
         \A j \in Instances : j # i =>
           /\ pc'[j] = pc[j] /\ manifest'[j] = manifest[j] /\ probe'[j] = probe[j],
         AnchoredAt(i)',
         manifest'[i] \in {manifest[i], probe[i]}, probe'[i] \in {Unset, probe[i]}
  PROVE  Anchored'
  <1>1. ASSUME NEW j \in Instances
        PROVE  NotNewer(manifest'[j], upstream) /\ NotNewer(probe'[j], upstream)
    BY NotNewerReflexive DEF Anchored
  <1>2. ASSUME NEW j \in Instances PROVE AnchoredAt(j)'
    BY DEF Anchored, AnchoredAt, NotNewer
  <1> QED
    BY <1>1, <1>2 DEF Anchored, Offered, NotNewer

LEMMA StepAnchored ==
  ASSUME ~forceRebuild, TypeOK, TypeOK', Anchored, [Next]_vars
  PROVE  Anchored'
  <1> USE DEF Rebuilding
  <1>0. /\ pc \in [Instances -> Stages]
        /\ manifest \in [Instances -> Manifest]
        /\ probe \in [Instances -> Manifest]
        /\ upstream \in Manifest
        /\ source \in Manifest
        /\ snapshots \subseteq Manifest
    BY BoundsAssumption DEF TypeOK, Manifest
  <1>1. ASSUME NEW i \in Instances, Boot(i) PROVE Anchored'
    BY <1>0, <1>1, NotNewerReflexive
    DEF Boot, BeginCycle, FreshLocals, envVars, stateVars, localVars, Anchored,
        AnchoredAt, Offered
  <1>2. ASSUME NEW i \in Instances, Tick(i) PROVE Anchored'
    BY <1>0, <1>2, NotNewerReflexive
    DEF Tick, BeginCycle, FreshLocals, envVars, stateVars, localVars, Anchored,
        AnchoredAt, Offered
  <1>3. ASSUME NEW i \in Instances, NEW f \in Files, Head(i, f) PROVE Anchored'
    <2>1. /\ pc' = pc /\ manifest' = manifest /\ upstream' = upstream
          /\ snapshots' = snapshots /\ source' = source /\ pc[i] \in Probing
      BY <1>3 DEF Head, envVars, stateVars
    <2>2. ASSUME NEW j \in Instances, NEW g \in Files
          PROVE  probe'[j][g] = probe[j][g] \/ (j = i /\ probe'[j][g] = upstream[g])
      BY <1>0, <1>3 DEF Head, Manifest
    <2>3. \A j \in Instances : pc[j] \notin Probing => probe'[j] = probe[j]
      BY <1>0, <1>3 DEF Head
    <2>4. ASSUME NEW j \in Instances PROVE NotNewer(probe'[j], upstream)
      <3>1. NotNewer(probe[j], upstream) /\ NotNewer(upstream, upstream)
        BY <1>0, NotNewerReflexive DEF Anchored
      <3> QED
        BY <2>2, <3>1 DEF NotNewer
    <2>5. ASSUME NEW j \in Instances, NEW s \in snapshots, NotNewer(s, upstream),
                 \A f1 \in Files : probe[j][f1] # 0 => s[f1] <= probe[j][f1]
          PROVE  \A f1 \in Files : probe'[j][f1] # 0 => s[f1] <= probe'[j][f1]
      BY <2>2, <2>5 DEF NotNewer
    <2>6. ASSUME NEW j \in Instances PROVE AnchoredAt(j)'
      <3>1. AnchoredAt(j)
        BY DEF Anchored
      <3> QED
        BY <2>1, <2>3, <2>5, <3>1 DEF AnchoredAt, NotNewer, Probing
    <2> QED
      BY <2>1, <2>4, <2>6 DEF Anchored, Offered, NotNewer
  <1>4. ASSUME NEW i \in Instances, CheckTitles(i) PROVE Anchored'
    <2>1. /\ upstream' = upstream /\ snapshots' = snapshots /\ source' = source
          /\ pc'[i] \in {"compare", "stability"}
          /\ manifest'[i] = probe[i] /\ probe'[i] = Unset
      BY <1>0, <1>4 DEF CheckTitles, StartProbe, Goto, envVars, stateVars
    <2>2. AnchoredAt(i)'
      BY <1>0, <2>1, AnchorNow DEF Anchored, AnchoredAt
    <2>3. \A j \in Instances : j # i =>
            /\ pc'[j] = pc[j] /\ manifest'[j] = manifest[j] /\ probe'[j] = probe[j]
      BY <1>0, <1>4 DEF CheckTitles, StartProbe, Goto
    <2> QED
      BY <1>0, <2>1, <2>2, <2>3, AnchoredOthers
  <1>5. ASSUME NEW i \in Instances, StableManifest(i) PROVE Anchored'
    <2>1. /\ upstream' = upstream /\ snapshots' = snapshots /\ source' = source
          /\ pc'[i] = "bootstrapLock"
          /\ manifest'[i] = manifest[i] /\ probe'[i] = Unset
      BY <1>0, <1>5 DEF StableManifest, StartProbe, Goto, envVars, stateVars
    <2>2. manifest[i] \in snapshots
      BY <1>5, EqualProbesAreReal DEF StableManifest
    <2>3. AnchoredAt(i)'
      BY <2>1, <2>2 DEF AnchoredAt
    <2>4. \A j \in Instances : j # i =>
            /\ pc'[j] = pc[j] /\ manifest'[j] = manifest[j] /\ probe'[j] = probe[j]
      BY <1>0, <1>5 DEF StableManifest, StartProbe, Goto
    <2> QED
      BY <1>0, <2>1, <2>3, <2>4, AnchoredOthers
  <1>6. ASSUME NEW i \in Instances, UnstableManifest(i) PROVE Anchored'
    <2>1. /\ upstream' = upstream /\ snapshots' = snapshots /\ source' = source
          /\ pc'[i] = "stability"
          /\ manifest'[i] = probe[i] /\ probe'[i] = Unset
      BY <1>0, <1>6 DEF UnstableManifest, StartProbe, envVars, stateVars
    <2>2. AnchoredAt(i)'
      BY <1>0, <2>1, AnchorNow DEF Anchored, AnchoredAt
    <2>3. \A j \in Instances : j # i =>
            /\ pc'[j] = pc[j] /\ manifest'[j] = manifest[j] /\ probe'[j] = probe[j]
      BY <1>0, <1>6 DEF UnstableManifest, StartProbe
    <2> QED
      BY <1>0, <2>1, <2>2, <2>3, AnchoredOthers
  <1>7. ASSUME NEW i \in Instances, NeverStable(i) PROVE Anchored'
    BY <1>0, <1>7, NotNewerReflexive
    DEF NeverStable, Abort, Return, FreshLocals, ReleaseLock, envVars,
        stateVars, localVars, Anchored, AnchoredAt, Offered
  <1>8. ASSUME NEW i \in Instances, CompareSource(i) PROVE Anchored'
    BY <1>0, <1>8, NotNewerReflexive
    DEF CompareSource, Goto, envVars, stateVars, localVars, Anchored,
        AnchoredAt, Offered
  <1>9. ASSUME NEW i \in Instances, ComparePending(i) PROVE Anchored'
    BY <1>0, <1>9, NotNewerReflexive
    DEF ComparePending, Goto, envVars, stateVars, localVars, Anchored,
        AnchoredAt, Offered
  <1>10. ASSUME NEW i \in Instances, SavePending(i) PROVE Anchored'
    BY <1>0, <1>10, NotNewerReflexive
    DEF SavePending, Succeed, Return, FreshLocals, ReleaseLock, envVars,
        stateVars, localVars, Anchored, AnchoredAt, Offered
  <1>11. ASSUME NEW i \in Instances, ClearPending(i) PROVE Anchored'
    BY <1>0, <1>11, NotNewerReflexive
    DEF ClearPending, Succeed, Return, FreshLocals, ReleaseLock, envVars,
        stateVars, localVars, Anchored, AnchoredAt, Offered
  <1>12. ASSUME NEW i \in Instances, AcquireLock(i) PROVE Anchored'
    <2>1. /\ upstream' = upstream /\ snapshots' = snapshots /\ source' = source
          /\ \/ pc[i] = "confirmLock" /\ pc'[i] = "reprobe"
             \/ pc[i] = "bootstrapLock" /\ pc'[i] = "download"
          /\ manifest' = manifest /\ probe' = probe
      BY <1>0, <1>12 DEF AcquireLock, Goto, envVars, stateVars, localVars
    <2>2. AnchoredAt(i)
      BY DEF Anchored
    <2>3. AnchoredAt(i)'
      <3>1. CASE pc[i] = "confirmLock"
        BY <1>0, <2>1, <2>2, <3>1, AnchorNow DEF Anchored, AnchoredAt
      <3>2. CASE pc[i] = "bootstrapLock"
        BY <2>1, <2>2, <3>2 DEF AnchoredAt
      <3> QED
        BY <2>1, <3>1, <3>2
    <2>4. NotNewer(manifest[i], upstream) /\ NotNewer(probe[i], upstream)
      BY DEF Anchored
    <2>5. \A j \in Instances : j # i => pc'[j] = pc[j]
      BY <1>0, <1>12 DEF AcquireLock, Goto
    <2> QED
      BY <1>0, <2>1, <2>3, <2>4, <2>5, AnchoredOthers
  <1>13. ASSUME NEW i \in Instances, SkipLocked(i) PROVE Anchored'
    BY <1>0, <1>13, NotNewerReflexive
    DEF SkipLocked, Succeed, Return, FreshLocals, ReleaseLock, envVars,
        stateVars, localVars, Anchored, AnchoredAt, Offered
  <1>14. ASSUME NEW i \in Instances, CompareReprobe(i) PROVE Anchored'
    <2>1. /\ upstream' = upstream /\ snapshots' = snapshots /\ source' = source
          /\ pc'[i] = IF manifest[i] = probe[i] THEN "reload" ELSE "savePending"
          /\ manifest'[i] = probe[i] /\ probe'[i] = Unset
      BY <1>0, <1>14 DEF CompareReprobe, StartProbe, Goto, envVars, stateVars
    <2>2. manifest[i] = probe[i] => probe[i] \in snapshots
      BY <1>14, EqualProbesAreReal DEF CompareReprobe
    <2>3. AnchoredAt(i)'
      BY <2>1, <2>2 DEF AnchoredAt
    <2>4. \A j \in Instances : j # i =>
            /\ pc'[j] = pc[j] /\ manifest'[j] = manifest[j] /\ probe'[j] = probe[j]
      BY <1>0, <1>14 DEF CompareReprobe, StartProbe, Goto
    <2> QED
      BY <1>0, <2>1, <2>3, <2>4, AnchoredOthers
  <1>15. ASSUME NEW i \in Instances, ReloadSource(i) PROVE Anchored'
    BY <1>0, <1>15, NotNewerReflexive
    DEF ReloadSource, Goto, envVars, stateVars, localVars, Anchored,
        AnchoredAt, Offered
  <1>16. ASSUME NEW i \in Instances, NEW f \in Files, Download(i, f) PROVE Anchored'
    BY <1>0, <1>16, NotNewerReflexive
    DEF Download, envVars, stateVars, localVars, Anchored, AnchoredAt,
        Offered
  <1>17. ASSUME NEW i \in Instances, Build(i) PROVE Anchored'
    BY <1>0, <1>17, NotNewerReflexive
    DEF Build, Goto, envVars, stateVars, localVars, Anchored, AnchoredAt,
        Offered
  <1>18. ASSUME NEW i \in Instances, Swap(i) PROVE Anchored'
    BY <1>0, <1>18, NotNewerReflexive
    DEF Swap, Goto, envVars, stateVars, localVars, Anchored, AnchoredAt,
        Offered
  <1>19. ASSUME NEW i \in Instances, SaveSource(i) PROVE Anchored'
    BY <1>0, <1>19, NotNewerReflexive
    DEF SaveSource, Goto, envVars, stateVars, localVars, Anchored, AnchoredAt,
        Offered
  <1>20. ASSUME NEW i \in Instances, Fail(i) PROVE Anchored'
    BY <1>0, <1>20, NotNewerReflexive
    DEF Fail, Abort, Return, FreshLocals, ReleaseLock, envVars, stateVars,
        localVars, Anchored, AnchoredAt, Offered
  <1>21. ASSUME NEW i \in Instances, Crash(i) PROVE Anchored'
    BY <1>0, <1>21, NotNewerReflexive
    DEF Crash, Return, FreshLocals, ReleaseLock, envVars, stateVars, localVars,
        Anchored, AnchoredAt, Offered
  <1>22. ASSUME NEW i \in Instances, LoseLock(i) PROVE Anchored'
    BY <1>0, <1>22, NotNewerReflexive
    DEF LoseLock, envVars, stateVars, localVars, Anchored, AnchoredAt,
        Offered
  <1>23. ASSUME NEW f \in Files, Publish(f) PROVE Anchored'
    <2>1. upstream' \in Manifest /\ upstream' \in snapshots' /\ snapshots \subseteq snapshots'
      BY <1>23, BoundsAssumption DEF Publish, TypeOK, Manifest
    <2>2. NotNewer(upstream, upstream')
      BY <1>0, <1>23, BoundsAssumption DEF Publish, NotNewer, Manifest
    <2>3. \A m \in Manifest : NotNewer(m, upstream) => NotNewer(m, upstream')
      BY <1>0, <2>1, <2>2, NotNewerTransitive
    <2>4. pc' = pc /\ manifest' = manifest /\ probe' = probe /\ source' = source
      BY <1>23 DEF Publish, localVars, stateVars
    <2>5. ASSUME NEW j \in Instances PROVE AnchoredAt(j)'
      <3>1. AnchoredAt(j)
        BY DEF Anchored
      <3> QED
        BY <1>0, <2>1, <2>3, <2>4, <3>1 DEF AnchoredAt, NotNewer
    <2> QED
      BY <1>0, <2>1, <2>3, <2>4, <2>5 DEF Anchored, Offered
  <1>24. ASSUME CalmDown PROVE Anchored'
    BY <1>0, <1>24, NotNewerReflexive
    DEF CalmDown, envVars, stateVars, localVars, Anchored, AnchoredAt,
        Offered
  <1>25. CASE UNCHANGED vars
    BY <1>25
    DEF vars, envVars, stateVars, localVars, Anchored, AnchoredAt, NotNewer,
        Offered
  <1> QED
    BY <1>1, <1>2, <1>3, <1>4, <1>5, <1>6, <1>7, <1>8, <1>9, <1>10, <1>11, <1>12, <1>13,
       <1>14, <1>15, <1>16, <1>17, <1>18, <1>19, <1>20, <1>21, <1>22, <1>23, <1>24, <1>25
    DEF Next, Cycle

(* Unless rebuilds are forced, only whole snapshots of upstream are ever    *)
(* recorded, even when the lock is lost.                                   *)
THEOREM RecordedReal == Spec => []RecordedIsReal
  <1> DEFINE Inv == TypeOK /\ (~forceRebuild => Anchored)
  <1>1. Init => Inv
    BY InitType, InitAnchored
  <1>2. Inv /\ [Next]_vars => Inv'
    BY StepType, StepAnchored, ForceStays
  <1>3. Inv => RecordedIsReal
    BY DEF Anchored, RecordedIsReal
  <1> HIDE DEF Inv
  <1> QED
    BY <1>1, <1>2, <1>3, PTL DEF Spec

---------------------------------------------------------------------------
(* The record only moves forward.  On a database that holds a dataset a    *)
(* rebuild's manifest was probed while its instance held the lock, when    *)
(* the record was already what it is until that instance replaces it.      *)

RecordedBefore(i) ==
  /\ pc[i] = "reprobe" => \A f \in Files : probe[i][f] # 0 => source[f] <= probe[i][f]
  /\ pc[i] \in {"reload"} \cup Rebuilding => NotNewer(source, manifest[i])

OrderedRecord == \A i \in Instances : RecordedBefore(i)

LEMMA InitOrderedRecord == Init => OrderedRecord
  BY DEF Init, OrderedRecord, RecordedBefore, Rebuilding

LEMMA StepOrderedRecord ==
  ASSUME ~forceRebuild, RebuildInvariant, Anchored, Purposeful, OrderedRecord, [Next]_vars
  PROVE  OrderedRecord'
  <1> USE DEF Locked, Rebuilding
  <1>0. /\ pc \in [Instances -> Stages]
        /\ manifest \in [Instances -> Manifest]
        /\ probe \in [Instances -> Manifest]
        /\ upstream \in Manifest
        /\ published \in Manifest
        /\ source \in Manifest
    BY BoundsAssumption DEF RebuildInvariant, TypeOK, Manifest
  <1>1. ASSUME NEW i \in Instances, Boot(i) PROVE OrderedRecord'
    BY <1>0, <1>1
    DEF Boot, BeginCycle, FreshLocals, envVars, stateVars, localVars,
        OrderedRecord, RecordedBefore
  <1>2. ASSUME NEW i \in Instances, Tick(i) PROVE OrderedRecord'
    BY <1>0, <1>2
    DEF Tick, BeginCycle, FreshLocals, envVars, stateVars, localVars,
        OrderedRecord, RecordedBefore
  <1>3. ASSUME NEW i \in Instances, NEW f \in Files, Head(i, f) PROVE OrderedRecord'
    <2>1. upstream[f] \in Nat /\ source[f] \in Nat /\ source[f] <= upstream[f]
      BY <1>0, BoundsAssumption DEF Manifest, RebuildInvariant, Freshness, NotNewer
    <2> QED
      BY <1>0, <1>3, <2>1 DEF Head, stateVars, OrderedRecord, RecordedBefore, Manifest
  <1>4. ASSUME NEW i \in Instances, CheckTitles(i) PROVE OrderedRecord'
    BY <1>0, <1>4
    DEF CheckTitles, Goto, StartProbe, envVars, stateVars, localVars,
        OrderedRecord, RecordedBefore
  <1>5. ASSUME NEW i \in Instances, StableManifest(i) PROVE OrderedRecord'
    BY <1>0, <1>5
    DEF StableManifest, Goto, StartProbe, envVars, stateVars, localVars,
        OrderedRecord, RecordedBefore
  <1>6. ASSUME NEW i \in Instances, UnstableManifest(i) PROVE OrderedRecord'
    BY <1>0, <1>6
    DEF UnstableManifest, StartProbe, envVars, stateVars, localVars,
        OrderedRecord, RecordedBefore
  <1>7. ASSUME NEW i \in Instances, NeverStable(i) PROVE OrderedRecord'
    BY <1>0, <1>7
    DEF NeverStable, Abort, Return, FreshLocals, ReleaseLock, envVars,
        stateVars, localVars, OrderedRecord, RecordedBefore
  <1>8. ASSUME NEW i \in Instances, CompareSource(i) PROVE OrderedRecord'
    BY <1>0, <1>8
    DEF CompareSource, Goto, envVars, stateVars, localVars,
        OrderedRecord, RecordedBefore
  <1>9. ASSUME NEW i \in Instances, ComparePending(i) PROVE OrderedRecord'
    BY <1>0, <1>9
    DEF ComparePending, Goto, envVars, stateVars, localVars,
        OrderedRecord, RecordedBefore
  <1>10. ASSUME NEW i \in Instances, SavePending(i) PROVE OrderedRecord'
    BY <1>0, <1>10
    DEF SavePending, Succeed, Return, FreshLocals, ReleaseLock, envVars,
        stateVars, localVars, OrderedRecord, RecordedBefore
  <1>11. ASSUME NEW i \in Instances, ClearPending(i) PROVE OrderedRecord'
    BY <1>0, <1>11
    DEF ClearPending, Succeed, Return, FreshLocals, ReleaseLock, envVars,
        stateVars, localVars, OrderedRecord, RecordedBefore
  <1>12. ASSUME NEW i \in Instances, AcquireLock(i) PROVE OrderedRecord'
    <2>1. pc[i] = "confirmLock" /\ probe[i] = Unset
      BY <1>12 DEF AcquireLock, Purposeful, Anchored, AnchoredAt
    <2> QED
      BY <1>0, <1>12, <2>1
      DEF AcquireLock, Goto, stateVars, localVars, OrderedRecord, RecordedBefore, Unset
  <1>13. ASSUME NEW i \in Instances, SkipLocked(i) PROVE OrderedRecord'
    BY <1>0, <1>13
    DEF SkipLocked, Succeed, Return, FreshLocals, ReleaseLock, envVars,
        stateVars, localVars, OrderedRecord, RecordedBefore
  <1>14. ASSUME NEW i \in Instances, CompareReprobe(i) PROVE OrderedRecord'
    <2>1. pc'[i] = "reload" => NotNewer(source, manifest'[i])
      BY <1>0, <1>14
      DEF CompareReprobe, Goto, ProbeComplete, OrderedRecord, RecordedBefore, NotNewer
    <2> QED
      BY <1>0, <1>14, <2>1
      DEF CompareReprobe, Goto, StartProbe, stateVars, OrderedRecord, RecordedBefore
  <1>15. ASSUME NEW i \in Instances, ReloadSource(i) PROVE OrderedRecord'
    BY <1>0, <1>15
    DEF ReloadSource, Goto, envVars, stateVars, localVars,
        OrderedRecord, RecordedBefore
  <1>16. ASSUME NEW i \in Instances, NEW f \in Files, Download(i, f) PROVE OrderedRecord'
    BY <1>0, <1>16 DEF Download, envVars, stateVars, localVars,
        OrderedRecord, RecordedBefore
  <1>17. ASSUME NEW i \in Instances, Build(i) PROVE OrderedRecord'
    BY <1>0, <1>17 DEF Build, Goto, envVars, stateVars, localVars,
        OrderedRecord, RecordedBefore
  <1>18. ASSUME NEW i \in Instances, Swap(i) PROVE OrderedRecord'
    BY <1>0, <1>18 DEF Swap, Goto, envVars, stateVars, localVars,
        OrderedRecord, RecordedBefore
  <1>19. ASSUME NEW i \in Instances, SaveSource(i) PROVE OrderedRecord'
    <2>1. \A j \in Instances : j # i => pc[j] \notin Locked
      BY <1>19 DEF SaveSource, RebuildInvariant, LockDiscipline
    <2> QED
      BY <1>0, <1>19, <2>1 DEF SaveSource, Goto, localVars, OrderedRecord, RecordedBefore
  <1>20. ASSUME NEW i \in Instances, Fail(i) PROVE OrderedRecord'
    BY <1>0, <1>20
    DEF Fail, Abort, Return, FreshLocals, ReleaseLock, envVars, stateVars,
        localVars, OrderedRecord, RecordedBefore
  <1>21. ASSUME NEW i \in Instances, Crash(i) PROVE OrderedRecord'
    BY <1>0, <1>21
    DEF Crash, Return, FreshLocals, ReleaseLock, envVars, stateVars, localVars,
        OrderedRecord, RecordedBefore
  <1>22. ASSUME NEW i \in Instances, LoseLock(i) PROVE OrderedRecord'
    BY <1>0, <1>22 DEF LoseLock, envVars, stateVars, localVars,
        OrderedRecord, RecordedBefore
  <1>23. ASSUME NEW f \in Files, Publish(f) PROVE OrderedRecord'
    BY <1>0, <1>23 DEF Publish, envVars, stateVars, localVars,
        OrderedRecord, RecordedBefore
  <1>24. ASSUME CalmDown PROVE OrderedRecord'
    BY <1>0, <1>24 DEF CalmDown, envVars, stateVars, localVars,
        OrderedRecord, RecordedBefore
  <1>25. CASE UNCHANGED vars
    BY <1>25 DEF vars, stateVars, localVars, OrderedRecord, RecordedBefore
  <1> QED
    BY <1>1, <1>2, <1>3, <1>4, <1>5, <1>6, <1>7, <1>8, <1>9, <1>10, <1>11, <1>12, <1>13,
       <1>14, <1>15, <1>16, <1>17, <1>18, <1>19, <1>20, <1>21, <1>22, <1>23, <1>24, <1>25
    DEF Next, Cycle

(* Only the end of a rebuild writes the record. *)
LEMMA SourceChanges ==
  ASSUME [Next]_vars, source' # source
  PROVE  \E i \in Instances : SaveSource(i)
  BY DEF Next, Cycle, vars, stateVars, Boot, Tick, BeginCycle, Head, CheckTitles,
         StableManifest, UnstableManifest, NeverStable, CompareSource, ComparePending,
         SavePending, ClearPending, AcquireLock, SkipLocked, CompareReprobe, ReloadSource,
         Download, Build, Swap, Fail, Crash, LoseLock, Publish, CalmDown

(* On a database that already holds a dataset, as long as the lock is not  *)
(* lost and rebuilds are not forced, no step replaces the recorded         *)
(* manifest by an older one, however many instances record.                *)
THEOREM RecordMonotone ==
  ASSUME Seeded, ForceModes = {FALSE}, ~LockLoss
  PROVE  Spec => SourceNeverRegresses
  <1> DEFINE Inv == /\ ~forceRebuild
                    /\ RebuildInvariant /\ Anchored /\ Purposeful /\ OrderedRecord
  <1>1. Init => Inv
    BY InitInvariant, InitAnchored, InitPurposeful, InitOrderedRecord DEF Init
  <1>2. Inv /\ [Next]_vars => Inv'
    <2> SUFFICES ASSUME Inv, [Next]_vars PROVE Inv'
      OBVIOUS
    <2>1. RebuildInvariant' /\ TypeOK /\ TypeOK'
      BY StepInvariant DEF RebuildInvariant
    <2> QED
      BY <2>1, ForceStays, StepAnchored, StepPurposeful, StepOrderedRecord
  <1>3. Inv /\ [Next]_vars => [NotNewer(source, source')]_vars
    <2> SUFFICES ASSUME Inv, [Next]_vars PROVE NotNewer(source, source')
      OBVIOUS
    <2>1. CASE source' = source
      BY <2>1, NotNewerReflexive DEF RebuildInvariant, TypeOK
    <2>2. CASE source' # source
      <3>1. PICK i \in Instances : SaveSource(i)
        BY <2>2, SourceChanges
      <3> QED
        BY <3>1 DEF SaveSource, OrderedRecord, RecordedBefore, Rebuilding
    <2> QED
      BY <2>1, <2>2
  <1> HIDE DEF Inv
  <1> QED
    BY <1>1, <1>2, <1>3, PTL DEF Spec, SourceNeverRegresses

---------------------------------------------------------------------------
(* The scheduler implements the abstract publication of datasets. *)

LEMMA InitImplements == Init => Abstract!Init
  <1> SUFFICES ASSUME Init PROVE Abstract!Init
    OBVIOUS
  <1>1. TypeOK /\ Freshness
    BY InitType, InitFresh
  <1>2. upstream \in Manifest
    BY <1>1, BoundsAssumption DEF TypeOK, Manifest
  <1> QED
    BY <1>1, <1>2
    DEF Abstract!Init, Abstract!Manifest, Abstract!Files, Abstract!NotNewer,
       TypeOK, Freshness, Manifest, Files, NotNewer

LEMMA StepImplements ==
  ASSUME TypeOK, TypeOK', Freshness, Freshness', [Next]_vars
  PROVE  [Abstract!Next]_Abstract!vars
  <1> USE DEF Abstract!Next, Abstract!vars, Abstract!Manifest, Abstract!Files,
              Abstract!NotNewer
  <1>1. CASE published' # published
    <2> QED
      BY <1>1, StepPublished DEF Abstract!Replace, NotNewer, Manifest, Files
  <1>2. CASE published' = published /\ upstream' # upstream
    <2>1. PICK f \in Files : Publish(f)
      BY <1>2 DEF Next, Cycle, vars, Boot, Tick, BeginCycle, Head, CheckTitles,
         StableManifest, UnstableManifest, NeverStable, CompareSource,
         ComparePending, SavePending, ClearPending, AcquireLock, SkipLocked,
         CompareReprobe, ReloadSource, Download, Build, Swap, SaveSource, Fail,
         Crash, LoseLock, CalmDown, envVars
    <2>2. upstream \in Manifest /\ upstream' \in Manifest
      BY BoundsAssumption DEF TypeOK, Manifest
    <2>3. NotNewer(upstream, upstream')
      BY <2>1, <2>2, BoundsAssumption DEF Publish, NotNewer, Manifest
    <2> QED
      BY <2>1, <2>2, <2>3
      DEF Abstract!Change, Publish, stateVars, NotNewer, Manifest, Files
  <1>3. CASE published' = published /\ upstream' = upstream
    <2>1. source' \in Manifest /\ NotNewer(source', published')
      BY DEF TypeOK, Freshness
    <2> QED
      BY <1>3, <2>1 DEF Abstract!Record, NotNewer, Manifest, Files
  <1> QED
    BY <1>1, <1>2, <1>3

(* Every behaviour of the scheduler is one of the abstract publication.    *)
THEOREM Implementation ==
  ASSUME ~LockLoss
  PROVE  Spec => ImplementsPublication
  <1>1. RebuildInvariant /\ RebuildInvariant' /\ [Next]_vars => [Abstract!Next]_Abstract!vars
    BY StepImplements DEF RebuildInvariant
  <1> QED
    BY <1>1, InitImplements, Invariance, PTL
    DEF Spec, ImplementsPublication, Abstract!Spec

---------------------------------------------------------------------------
(* One process, as docker-compose.yml runs it: what does not need the      *)
(* advisory lock, since nobody competes for it, and holds even if its      *)
(* connection drops.                                                       *)

(* No two instances (and maybe none: a statement about nobody is true) *)
Alone == \A i, j \in Instances : i = j

---------------------------------------------------------------------------
(* Freshness without the lock *)

LEMMA AloneExcludes ==
  ASSUME Alone
  PROVE  RebuildsExclude
  BY DEF Alone, RebuildsExclude

LEMMA StepAloneFresh ==
  ASSUME Alone
  PROVE  TypeOK /\ Freshness /\ [Next]_vars => (TypeOK /\ Freshness)'
  BY AloneExcludes, StepType, StepFresh

LEMMA AlwaysFresh ==
  ASSUME Alone
  PROVE  Spec => [](TypeOK /\ Freshness)
  BY InitType, InitFresh, StepAloneFresh, PTL DEF Spec

(* With one instance the record is never ahead of the live tables, whether *)
(* or not the lock is lost.                                                *)
THEOREM AloneRecordedNeverAhead ==
  ASSUME Alone
  PROVE  Spec => []RecordedNotAhead
  <1>1. Freshness => RecordedNotAhead
    BY DEF Freshness, RecordedNotAhead
  <1> QED
    BY <1>1, AlwaysFresh, PTL

(* With one instance no step replaces live data by older data, whether or  *)
(* not the lock is lost.                                                   *)
THEOREM AloneLiveDataMonotone ==
  ASSUME Alone
  PROVE  Spec => PublishedNeverRegresses
  <1>1. TypeOK /\ Freshness /\ [Next]_vars => [NotNewer(published, published')]_vars
    BY StepMonotone
  <1> QED
    BY <1>1, AlwaysFresh, PTL DEF Spec, PublishedNeverRegresses

(* With one instance every behaviour is one of the abstract publication,   *)
(* whether or not the lock is lost.                                        *)
THEOREM AloneImplementation ==
  ASSUME Alone
  PROVE  Spec => ImplementsPublication
  <1>1. /\ TypeOK /\ Freshness
        /\ (TypeOK /\ Freshness)'
        /\ [Next]_vars
        => [Abstract!Next]_Abstract!vars
    BY StepImplements
  <1> QED
    BY <1>1, InitImplements, AlwaysFresh, PTL
    DEF Spec, ImplementsPublication, Abstract!Spec

---------------------------------------------------------------------------
(* What one instance knows at each place of its cycle *)

(* Places reached only after titles was seen to have rows, or a swap *)
Filled == {"compare", "confirm", "savePending", "confirmLock", "reprobe", "reload",
           "record", "clearPending"}

(* Places whose manifest is probed but not yet recorded *)
Unrecorded == {"stability", "compare", "confirm", "confirmLock", "reprobe", "reload",
               "bootstrapLock"} \cup Rebuilding

(* Places in or before which a probe is taken *)
Looking == Probing \cup {"compare", "confirm", "confirmLock"}

SoloAt(i) ==
  /\ holder # NoInstance => pc[i] \in Locked \cup {"savePending", "clearPending"}
  /\ \A f \in got[i] : data[i][f] # 0
  /\ pc[i] \in Filled => HasTitles
  /\ BootstrapBlocking /\ serving[i] => HasTitles
  /\ pc[i] \in {"probe", "compare", "confirm"} => pendingAtPoll[i] = pending
  /\ pc[i] \in {"confirmLock", "reprobe", "reload"} => pendingAtPoll[i] = manifest[i]
  /\ pc[i] \in Looking => \A f \in Files : probe[i][f] # 0 => source[f] <= probe[i][f]
  /\ pc[i] \in Unrecorded => NotNewer(source, manifest[i])

LEMMA InitSolo ==
  ASSUME Init, NEW i \in Instances
  PROVE  SoloAt(i)
  <1>1. BootstrapBlocking /\ serving[i] => HasTitles
    BY DEF Init
  <1> QED
    BY <1>1 DEF Init, SoloAt, Filled, Unrecorded, Looking, Probing, Rebuilding, Locked

LEMMA StepSolo ==
  ASSUME Alone, TypeOK, TypeOK', Freshness, [Next]_vars,
         NEW i \in Instances, SoloAt(i)
  PROVE  SoloAt(i)'
  <1> USE DEF Locked, Rebuilding, Probing, Filled, Unrecorded, Looking
  <1>0. /\ pc \in [Instances -> Stages]
        /\ serving \in [Instances -> BOOLEAN]
        /\ manifest \in [Instances -> Manifest]
        /\ probe \in [Instances -> Manifest]
        /\ got \in [Instances -> SUBSET Files]
        /\ data \in [Instances -> Manifest]
        /\ pendingAtPoll \in [Instances -> Manifest]
        /\ holder \in Instances \cup {NoInstance}
        /\ upstream \in [Files -> 1 .. MaxVersion]
        /\ published \in Manifest
        /\ source \in Manifest
    BY DEF TypeOK
  <1>a. HasTitles => HasTitles'
    BY TitlesStay
  <1>b. /\ \A j \in Instances : j = i
        /\ holder \in {i, NoInstance}
        /\ i # NoInstance
    BY <1>0, InstancesAssumption DEF Alone
  <1> USE <1>0, <1>a, <1>b DEF SoloAt
  <1>1. ASSUME Boot(i) PROVE SoloAt(i)'
    <2>1. HasTitles' = HasTitles
      BY <1>1 DEF Boot, BeginCycle, HasTitles
    <2> QED
      BY <1>1, <2>1 DEF Boot, BeginCycle, FreshLocals, envVars, stateVars, Unset
  <1>2. ASSUME Tick(i) PROVE SoloAt(i)'
    BY <1>2 DEF Tick, BeginCycle, FreshLocals, envVars, stateVars, Unset
  <1>3. ASSUME NEW f \in Files, Head(i, f) PROVE SoloAt(i)'
    <2>1. upstream[f] \in Nat /\ source[f] \in Nat /\ source[f] <= upstream[f]
      BY BoundsAssumption, NotNewerTransitive DEF TypeOK, Manifest, Freshness, NotNewer
    <2>2. probe'[i] = [probe[i] EXCEPT ![f] = upstream[f]]
      BY <1>3 DEF Head
    <2>3. \A g \in Files : probe'[i][g] # 0 =>
            (pc[i] \in Looking => source[g] <= probe'[i][g])
      BY <2>1, <2>2 DEF Manifest
    <2> QED
      BY <1>3, <2>3 DEF Head, stateVars, envVars, NotNewer
  <1>4. ASSUME CheckTitles(i) PROVE SoloAt(i)'
    <2>1. NotNewer(source, manifest'[i])
      BY <1>4 DEF CheckTitles, ProbeComplete, NotNewer
    <2>2. probe'[i] = Unset /\ HasTitles' = HasTitles
      BY <1>4 DEF CheckTitles, StartProbe, HasTitles
    <2> QED
      BY <1>4, <2>1, <2>2
      DEF CheckTitles, Goto, envVars, stateVars, NotNewer, Unset
  <1>5. ASSUME StableManifest(i) PROVE SoloAt(i)'
    BY <1>5 DEF StableManifest, Goto, StartProbe, envVars, stateVars, NotNewer, Unset
  <1>6. ASSUME UnstableManifest(i) PROVE SoloAt(i)'
    <2>1. NotNewer(source, manifest'[i])
      BY <1>6 DEF UnstableManifest, ProbeComplete, NotNewer
    <2>2. probe'[i] = Unset
      BY <1>6 DEF UnstableManifest, StartProbe
    <2> QED
      BY <1>6, <2>1, <2>2
      DEF UnstableManifest, envVars, stateVars, NotNewer, Unset
  <1>7. ASSUME NeverStable(i) PROVE SoloAt(i)'
    BY <1>7 DEF NeverStable, Abort, Return, FreshLocals, ReleaseLock, envVars, stateVars
  <1>8. ASSUME CompareSource(i) PROVE SoloAt(i)'
    BY <1>8 DEF CompareSource, Goto, envVars, stateVars, localVars, NotNewer
  <1>9. ASSUME ComparePending(i) PROVE SoloAt(i)'
    BY <1>9 DEF ComparePending, Goto, envVars, stateVars, localVars, NotNewer
  <1>10. ASSUME SavePending(i) PROVE SoloAt(i)'
    BY <1>10 DEF SavePending, Succeed, Return, FreshLocals, ReleaseLock, envVars
  <1>11. ASSUME ClearPending(i) PROVE SoloAt(i)'
    BY <1>11 DEF ClearPending, Succeed, Return, FreshLocals, ReleaseLock, envVars
  <1>12. ASSUME AcquireLock(i) PROVE SoloAt(i)'
    BY <1>12 DEF AcquireLock, Goto, envVars, stateVars, localVars, NotNewer
  <1>13. ASSUME SkipLocked(i) PROVE SoloAt(i)'
    BY <1>13 DEF SkipLocked
  <1>14. ASSUME CompareReprobe(i) PROVE SoloAt(i)'
    <2>1. NotNewer(source, manifest'[i])
      BY <1>14 DEF CompareReprobe, ProbeComplete, NotNewer
    <2>2. probe'[i] = Unset
      BY <1>14 DEF CompareReprobe, StartProbe
    <2> QED
      BY <1>14, <2>1, <2>2
      DEF CompareReprobe, Goto, envVars, stateVars, NotNewer, Unset
  <1>15. ASSUME ReloadSource(i) PROVE SoloAt(i)'
    BY <1>15 DEF ReloadSource, Goto, envVars, stateVars, localVars, NotNewer
  <1>16. ASSUME NEW f \in Files, Download(i, f) PROVE SoloAt(i)'
    <2>1. upstream[f] # 0
      BY BoundsAssumption
    <2>2. data'[i] = [data[i] EXCEPT ![f] = upstream[f]] /\ got'[i] = got[i] \cup {f}
      BY <1>16 DEF Download
    <2>3. \A g \in got'[i] : data'[i][g] # 0
      BY <2>1, <2>2 DEF Manifest
    <2> QED
      BY <1>16, <2>3 DEF Download, envVars, stateVars, NotNewer
  <1>17. ASSUME Build(i) PROVE SoloAt(i)'
    BY <1>17 DEF Build, Goto, envVars, stateVars, localVars, NotNewer
  <1>18. ASSUME Swap(i) PROVE SoloAt(i)'
    <2>1. 1 \in Files
      BY BoundsAssumption DEF Files
    <2>2. data[i][1] # 0
      BY <1>18, <2>1 DEF Swap, Freshness, FreshAt
    <2>3. HasTitles'
      BY <1>18, <2>1, <2>2 DEF Swap, HasTitles
    <2> QED
      BY <1>18, <2>3 DEF Swap, Goto, envVars, stateVars, localVars, NotNewer
  <1>19. ASSUME SaveSource(i) PROVE SoloAt(i)'
    BY <1>19 DEF SaveSource, Goto, envVars, localVars
  <1>20. ASSUME Fail(i) PROVE SoloAt(i)'
    BY <1>20 DEF Fail, Abort, Return, FreshLocals, ReleaseLock, envVars, stateVars
  <1>21. ASSUME Crash(i) PROVE SoloAt(i)'
    BY <1>21 DEF Crash, Return, FreshLocals, ReleaseLock, envVars, stateVars
  <1>22. ASSUME LoseLock(i) PROVE SoloAt(i)'
    BY <1>22 DEF LoseLock, envVars, stateVars, localVars, NotNewer
  <1>23. ASSUME NEW f \in Files, Publish(f) PROVE SoloAt(i)'
    BY <1>23 DEF Publish, stateVars, localVars, NotNewer
  <1>24. ASSUME CalmDown PROVE SoloAt(i)'
    BY <1>24 DEF CalmDown, stateVars, localVars, NotNewer
  <1>25. CASE UNCHANGED vars
    BY <1>25 DEF vars, envVars, stateVars, localVars, NotNewer
  <1> QED
    BY <1>1, <1>2, <1>3, <1>4, <1>5, <1>6, <1>7, <1>8, <1>9, <1>10, <1>11, <1>12, <1>13,
       <1>14, <1>15, <1>16, <1>17, <1>18, <1>19, <1>20, <1>21, <1>22, <1>23, <1>24, <1>25
    DEF Next, Cycle

(* The inductive invariant of one instance *)
SoloInvariant ==
  /\ TypeOK
  /\ Freshness
  /\ \A i \in Instances : SoloAt(i)

LEMMA AlwaysSolo ==
  ASSUME Alone
  PROVE  Spec => []SoloInvariant
  <1>1. Init => SoloInvariant
    BY InitType, InitFresh, InitSolo DEF SoloInvariant
  <1>2. SoloInvariant /\ [Next]_vars => SoloInvariant'
    <2> SUFFICES ASSUME SoloInvariant, [Next]_vars PROVE SoloInvariant'
      OBVIOUS
    <2>1. TypeOK /\ Freshness /\ (TypeOK /\ Freshness)'
      BY StepAloneFresh DEF SoloInvariant
    <2>2. ASSUME NEW i \in Instances PROVE SoloAt(i)'
      BY <2>1, StepSolo DEF SoloInvariant
    <2> QED
      BY <2>1, <2>2 DEF SoloInvariant
  <1> QED
    BY <1>1, <1>2, PTL DEF Spec

(* With one instance and a blocking bootstrap HTTP starts only once titles *)
(* has rows, whatever failures, restarts and lost locks came before.       *)
THEOREM AloneServesTitles ==
  ASSUME Alone, BootstrapBlocking
  PROVE  Spec => []ServesTitles
  <1>1. SoloInvariant => ServesTitles
    BY DEF SoloInvariant, SoloAt, ServesTitles
  <1> QED
    BY <1>1, AlwaysSolo, PTL

(* With one instance a rebuild of an existing dataset follows the          *)
(* documented rule: the poll that starts it began when its manifest was    *)
(* already recorded as pending.                                            *)
THEOREM AloneConfirmed ==
  ASSUME Alone
  PROVE  Spec => ConfirmedByLaterPoll
  <1> DEFINE Step == \A i \in Instances :
               pc[i] = "reload" /\ pc'[i] = "download" => pendingAtPoll[i] = manifest[i]
  <1>1. SoloInvariant => Step
    BY DEF SoloInvariant, SoloAt
  <1>2. SoloInvariant /\ [Next]_vars => [Step]_vars
    BY <1>1
  <1> QED
    BY <1>2, AlwaysSolo, PTL DEF Spec, ConfirmedByLaterPoll

(* With one instance no step replaces the recorded manifest by an older    *)
(* one: from an empty database, when rebuilds are forced, and even if the  *)
(* lock is lost.                                                           *)
THEOREM AloneRecordMonotone ==
  ASSUME Alone
  PROVE  Spec => SourceNeverRegresses
  <1>1. SoloInvariant /\ [Next]_vars => [NotNewer(source, source')]_vars
    <2> SUFFICES ASSUME SoloInvariant, [Next]_vars PROVE NotNewer(source, source')
      OBVIOUS
    <2>1. CASE source' = source
      BY <2>1, NotNewerReflexive DEF SoloInvariant, TypeOK
    <2>2. CASE source' # source
      <3>1. PICK i \in Instances : SaveSource(i)
        BY <2>2, SourceChanges
      <3> QED
        BY <3>1 DEF SaveSource, SoloInvariant, SoloAt, Unrecorded, Rebuilding
    <2> QED
      BY <2>1, <2>2
  <1> QED
    BY <1>1, AlwaysSolo, PTL DEF Spec, SourceNeverRegresses

---------------------------------------------------------------------------
(* Several instances and an empty database.  The owner of the lock is at   *)
(* locked work, and before titles has rows that work is a rebuild: this    *)
(* needs no order of the manifests, so that it survives a lost lock.       *)

BootAt(i) ==
  /\ holder = i => pc[i] \in Locked \cup {"savePending", "clearPending"}
  /\ pc[i] \in Filled => HasTitles
  /\ \A f \in got[i] : data[i][f] # 0
  /\ pc[i] = "swap" => got[i] = Files

BootInvariant == TypeOK /\ \A i \in Instances : BootAt(i)

LEMMA InitBoot == Init => BootInvariant
  <1> SUFFICES ASSUME Init PROVE BootInvariant
    OBVIOUS
  <1>1. ASSUME NEW i \in Instances PROVE BootAt(i)
    BY <1>1, InstancesAssumption DEF Init, BootAt, Filled
  <1> QED
    BY <1>1, InitType DEF BootInvariant

(* What is swapped in was downloaded, and upstream has every file. *)
LEMMA RowsStay ==
  ASSUME BootInvariant, [Next]_vars
  PROVE  /\ HasTitles => HasTitles'
         /\ \A i \in Instances : Swap(i) => HasTitles'
  <1>1. ASSUME NEW i \in Instances, Swap(i) PROVE HasTitles'
    <2>1. 1 \in Files
      BY BoundsAssumption DEF Files
    <2>2. published' = data[i] /\ data[i][1] # 0
      BY <1>1, <2>1 DEF Swap, BootInvariant, BootAt
    <2> QED
      BY <2>1, <2>2 DEF HasTitles
  <1>2. CASE published' = published
    BY <1>1, <1>2 DEF HasTitles
  <1>3. CASE published' # published
    BY <1>1, <1>3, PublishedChanges
  <1> QED
    BY <1>2, <1>3

LEMMA StepBoot ==
  ASSUME BootInvariant, [Next]_vars
  PROVE  BootInvariant'
  <1> USE DEF Locked, Rebuilding, Filled
  <1>a. HasTitles => HasTitles'
    BY RowsStay
  <1>0. /\ pc \in [Instances -> Stages]
        /\ got \in [Instances -> SUBSET Files]
        /\ data \in [Instances -> Manifest]
        /\ NoInstance \notin Instances
        /\ upstream \in [Files -> 1 .. MaxVersion]
        /\ \A k \in Instances : BootAt(k)
    BY InstancesAssumption DEF BootInvariant, TypeOK
  <1> SUFFICES ASSUME NEW k \in Instances PROVE BootAt(k)'
    BY StepType DEF BootInvariant
  <1>b. BootAt(k)
    BY <1>0
  <1> USE <1>0, <1>a, <1>b DEF BootAt
  <1>1. ASSUME NEW i \in Instances, Boot(i) PROVE BootAt(k)'
    BY <1>1 DEF Boot, BeginCycle, FreshLocals, envVars, stateVars, localVars
  <1>2. ASSUME NEW i \in Instances, Tick(i) PROVE BootAt(k)'
    BY <1>2 DEF Tick, BeginCycle, FreshLocals, envVars, stateVars, localVars
  <1>3. ASSUME NEW i \in Instances, NEW f \in Files, Head(i, f) PROVE BootAt(k)'
    BY <1>3 DEF Head, envVars, stateVars, localVars
  <1>4. ASSUME NEW i \in Instances, CheckTitles(i) PROVE BootAt(k)'
    BY <1>4 DEF CheckTitles, Goto, StartProbe, envVars, stateVars, localVars
  <1>5. ASSUME NEW i \in Instances, StableManifest(i) PROVE BootAt(k)'
    BY <1>5 DEF StableManifest, Goto, StartProbe, envVars, stateVars, localVars
  <1>6. ASSUME NEW i \in Instances, UnstableManifest(i) PROVE BootAt(k)'
    BY <1>6 DEF UnstableManifest, StartProbe, envVars, stateVars, localVars
  <1>7. ASSUME NEW i \in Instances, NeverStable(i) PROVE BootAt(k)'
    BY <1>7 DEF NeverStable, Abort, Return, FreshLocals, ReleaseLock, envVars, stateVars, localVars
  <1>8. ASSUME NEW i \in Instances, CompareSource(i) PROVE BootAt(k)'
    BY <1>8 DEF CompareSource, Goto, envVars, stateVars, localVars
  <1>9. ASSUME NEW i \in Instances, ComparePending(i) PROVE BootAt(k)'
    BY <1>9 DEF ComparePending, Goto, envVars, stateVars, localVars
  <1>10. ASSUME NEW i \in Instances, SavePending(i) PROVE BootAt(k)'
    BY <1>10 DEF SavePending, Succeed, Return, FreshLocals, ReleaseLock, envVars, stateVars, localVars
  <1>11. ASSUME NEW i \in Instances, ClearPending(i) PROVE BootAt(k)'
    BY <1>11 DEF ClearPending, Succeed, Return, FreshLocals, ReleaseLock, envVars, stateVars, localVars
  <1>12. ASSUME NEW i \in Instances, AcquireLock(i) PROVE BootAt(k)'
    BY <1>12 DEF AcquireLock, Goto, envVars, stateVars, localVars
  <1>13. ASSUME NEW i \in Instances, SkipLocked(i) PROVE BootAt(k)'
    BY <1>13 DEF SkipLocked, Succeed, Return, FreshLocals, ReleaseLock, envVars, stateVars, localVars
  <1>14. ASSUME NEW i \in Instances, CompareReprobe(i) PROVE BootAt(k)'
    BY <1>14 DEF CompareReprobe, Goto, StartProbe, envVars, stateVars, localVars
  <1>15. ASSUME NEW i \in Instances, ReloadSource(i) PROVE BootAt(k)'
    BY <1>15 DEF ReloadSource, Goto, envVars, stateVars, localVars
  <1>16. ASSUME NEW i \in Instances, NEW f \in Files, Download(i, f) PROVE BootAt(k)'
    <2>1. upstream[f] # 0
      BY BoundsAssumption
    <2>2. ASSUME NEW g \in got'[k] PROVE data'[k][g] # 0
      BY <1>16, <2>1, <2>2 DEF Download, Manifest
    <2> QED
      BY <1>16, <2>2 DEF Download, envVars, stateVars, localVars
  <1>17. ASSUME NEW i \in Instances, Build(i) PROVE BootAt(k)'
    BY <1>17 DEF Build, Goto, envVars, stateVars, localVars
  <1>18. ASSUME NEW i \in Instances, Swap(i) PROVE BootAt(k)'
    <2>1. HasTitles'
      BY <1>18, RowsStay
    <2> QED
      BY <1>18, <2>1 DEF Swap, Goto, envVars, stateVars, localVars
  <1>19. ASSUME NEW i \in Instances, SaveSource(i) PROVE BootAt(k)'
    BY <1>19 DEF SaveSource, Goto, envVars, stateVars, localVars
  <1>20. ASSUME NEW i \in Instances, Fail(i) PROVE BootAt(k)'
    BY <1>20 DEF Fail, Abort, Return, FreshLocals, ReleaseLock, envVars, stateVars, localVars
  <1>21. ASSUME NEW i \in Instances, Crash(i) PROVE BootAt(k)'
    BY <1>21 DEF Crash, Return, FreshLocals, ReleaseLock, envVars, stateVars, localVars
  <1>22. ASSUME NEW i \in Instances, LoseLock(i) PROVE BootAt(k)'
    BY <1>22 DEF LoseLock, envVars, stateVars, localVars
  <1>23. ASSUME NEW f \in Files, Publish(f) PROVE BootAt(k)'
    BY <1>23 DEF Publish, envVars, stateVars, localVars
  <1>24. ASSUME CalmDown PROVE BootAt(k)'
    BY <1>24 DEF CalmDown, envVars, stateVars, localVars
  <1>25. CASE UNCHANGED vars
    BY <1>25 DEF vars, envVars, stateVars, localVars
  <1> QED
    BY <1>1, <1>2, <1>3, <1>4, <1>5, <1>6, <1>7, <1>8, <1>9, <1>10, <1>11, <1>12, <1>13,
       <1>14, <1>15, <1>16, <1>17, <1>18, <1>19, <1>20, <1>21, <1>22, <1>23, <1>24, <1>25
    DEF Next, Cycle

(* An instance begins to serve an empty database only by skipping a        *)
(* bootstrap whose lock is taken.                                          *)
LEMMA StartsServing ==
  ASSUME BootstrapBlocking, BootInvariant, [Next]_vars, ~HasTitles,
         NEW i \in Instances, ~serving[i], serving'[i]
  PROVE  SkipLocked(i)
  <1> USE DEF Filled
  <1>0. serving \in [Instances -> BOOLEAN] /\ \A k \in Instances : BootAt(k)
    BY DEF BootInvariant, TypeOK
  <1>1. ASSUME NEW k \in Instances, Boot(k) PROVE FALSE
    BY <1>0, <1>1 DEF Boot
  <1>2. ASSUME NEW k \in Instances, Tick(k) PROVE FALSE
    BY <1>0, <1>2 DEF Tick
  <1>3. ASSUME NEW k \in Instances, NEW f \in Files, Head(k, f) PROVE FALSE
    BY <1>0, <1>3 DEF Head
  <1>4. ASSUME NEW k \in Instances, CheckTitles(k) PROVE FALSE
    BY <1>0, <1>4 DEF CheckTitles, Goto
  <1>5. ASSUME NEW k \in Instances, StableManifest(k) PROVE FALSE
    BY <1>0, <1>5 DEF StableManifest, Goto
  <1>6. ASSUME NEW k \in Instances, UnstableManifest(k) PROVE FALSE
    BY <1>0, <1>6 DEF UnstableManifest
  <1>7. ASSUME NEW k \in Instances, NeverStable(k) PROVE FALSE
    BY <1>0, <1>7 DEF NeverStable, Abort
  <1>8. ASSUME NEW k \in Instances, CompareSource(k) PROVE FALSE
    BY <1>0, <1>8 DEF CompareSource, Goto
  <1>9. ASSUME NEW k \in Instances, ComparePending(k) PROVE FALSE
    BY <1>0, <1>9 DEF ComparePending, Goto
  <1>10. ASSUME NEW k \in Instances, SavePending(k) PROVE FALSE
    BY <1>0, <1>10 DEF SavePending, Succeed, BootAt
  <1>11. ASSUME NEW k \in Instances, ClearPending(k) PROVE FALSE
    BY <1>0, <1>11 DEF ClearPending, Succeed, BootAt
  <1>12. ASSUME NEW k \in Instances, AcquireLock(k) PROVE FALSE
    BY <1>0, <1>12 DEF AcquireLock, Goto
  <1>13. ASSUME NEW k \in Instances, SkipLocked(k) PROVE SkipLocked(i)
    BY <1>0, <1>13 DEF SkipLocked, Succeed
  <1>14. ASSUME NEW k \in Instances, CompareReprobe(k) PROVE FALSE
    BY <1>0, <1>14 DEF CompareReprobe, Goto
  <1>15. ASSUME NEW k \in Instances, ReloadSource(k) PROVE FALSE
    BY <1>0, <1>15 DEF ReloadSource, Goto
  <1>16. ASSUME NEW k \in Instances, NEW f \in Files, Download(k, f) PROVE FALSE
    BY <1>0, <1>16 DEF Download
  <1>17. ASSUME NEW k \in Instances, Build(k) PROVE FALSE
    BY <1>0, <1>17 DEF Build, Goto
  <1>18. ASSUME NEW k \in Instances, Swap(k) PROVE FALSE
    BY <1>0, <1>18 DEF Swap, Goto
  <1>19. ASSUME NEW k \in Instances, SaveSource(k) PROVE FALSE
    BY <1>0, <1>19 DEF SaveSource, Goto
  <1>20. ASSUME NEW k \in Instances, Fail(k) PROVE FALSE
    BY <1>0, <1>20 DEF Fail, Abort
  <1>21. ASSUME NEW k \in Instances, Crash(k) PROVE FALSE
    BY <1>0, <1>21 DEF Crash
  <1>22. ASSUME NEW k \in Instances, LoseLock(k) PROVE FALSE
    BY <1>0, <1>22 DEF LoseLock
  <1>23. ASSUME NEW f \in Files, Publish(f) PROVE FALSE
    BY <1>0, <1>23 DEF Publish
  <1>24. ASSUME CalmDown PROVE FALSE
    BY <1>0, <1>24 DEF CalmDown
  <1>25. CASE UNCHANGED vars
    BY <1>25 DEF vars
  <1> QED
    BY <1>1, <1>2, <1>3, <1>4, <1>5, <1>6, <1>7, <1>8, <1>9, <1>10, <1>11, <1>12, <1>13,
       <1>14, <1>15, <1>16, <1>17, <1>18, <1>19, <1>20, <1>21, <1>22, <1>23, <1>24, <1>25
    DEF Next, Cycle

(* Who begins to serve an empty database has found the lock taken by an    *)
(* instance that is rebuilding, with any number of instances, rebuilds     *)
(* forced or not, and even if locks are lost.                              *)
THEOREM EmptyOnlyWhileRebuilt ==
  ASSUME BootstrapBlocking
  PROVE  Spec => EmptyOnlyDuringBootstrap
  <1> DEFINE Step == \A i \in Instances :
               ~HasTitles /\ ~serving[i] /\ serving'[i] =>
                 \E j \in Instances \ {i} : pc[j] \in Rebuilding
  <1>1. BootInvariant /\ [Next]_vars => Step
    <2> SUFFICES ASSUME BootInvariant, [Next]_vars, ~HasTitles,
                        NEW i \in Instances, ~serving[i], serving'[i]
                 PROVE  \E j \in Instances \ {i} : pc[j] \in Rebuilding
      OBVIOUS
    <2>1. serving \in [Instances -> BOOLEAN] /\ holder \in Instances \cup {NoInstance}
      BY DEF BootInvariant, TypeOK
    <2>2. SkipLocked(i)
      BY <2>1, StartsServing
    <2>3. holder \in Instances \ {i}
      BY <2>1, <2>2 DEF SkipLocked, BootInvariant, BootAt, Locked, Rebuilding
    <2>4. pc[holder] \in Rebuilding
      BY <2>3 DEF BootInvariant, BootAt, Locked, Rebuilding, Filled
    <2> QED
      BY <2>3, <2>4
  <1>2. Spec => []BootInvariant
    BY InitBoot, StepBoot, PTL DEF Spec
  <1>3. BootInvariant /\ [Next]_vars => [Step]_vars
    BY <1>1
  <1> QED
    BY <1>2, <1>3, PTL DEF Spec, EmptyOnlyDuringBootstrap
===========================================================================
