-------------------------- MODULE Mutation_proofs --------------------------
(***************************************************************************)
(* The operations of Mutation, for any number of processes, profiles,      *)
(* settings, operations and faults, in three parts that rest on each       *)
(* other.                                                                  *)
(*                                                                         *)
(* The lock, the memory and the types of the variables.                    *)
(*                                                                         *)
(* The rollback stack is complete: at every moment of an operation what is *)
(* still on the stack undoes all that the operation did so far.            *)
(*                                                                         *)
(* Mutation implements AtomicMutation.  While an operation runs, StageInv  *)
(* says where it is in its script and what that part of the script made of *)
(* the disk it captured; its last step then makes of the captured disk     *)
(* what the abstract operation makes of the visible one, and a failure     *)
(* undoes what the second part says it undoes.  What holds of atomic       *)
(* operations, that they keep the disk in agreement, so holds of the       *)
(* processes that run them.                                                *)
(***************************************************************************)
EXTENDS MCMutation, SequenceTheorems, TLAPS

-----------------------------------------------------------------------------
(* The operation lock.                                                     *)

LockInv == pc \in [Procs -> PCs] /\ Exclusive

LEMMA LockStep == LockInv /\ [Next]_vars => LockInv'
<1> SUFFICES ASSUME LockInv, [Next]_vars PROVE LockInv'
  OBVIOUS
<1> USE DEF LockInv, Exclusive, Working, InFlight, PCs
<1>1. ASSUME NEW p \in Procs, Request(p) \/ Cancel(p) PROVE LockInv'
  BY <1>1 DEF Request, Cancel
<1>2. ASSUME NEW p \in Procs, Acquire(p) PROVE LockInv'
  BY <1>2, NobodyAssumption DEF Acquire
<1>3. ASSUME NEW p \in Procs, Release(p) \/ Crash(p) PROVE LockInv'
  BY <1>3 DEF Release, Unlocked, Crash
<1>4. ASSUME NEW p \in Procs, Start(p) PROVE LockInv'
  BY <1>4
  DEF Start, Begin, StartInitialize, StartChangeSetting, StartAddProfile,
      StartUseProfile, StartRemoveProfile, StartSyncPublic, StartSyncClient,
      StartRepair, StartService, StartUpdate
<1>5. ASSUME NEW p \in Procs, Reload(p) \/ Refuse(p) \/ NextBatch(p)
      PROVE  LockInv'
  BY <1>5 DEF Reload, Refuse, NextBatch
<1>6. ASSUME NEW p \in Procs, StepOK(p) \/ StepFails(p) PROVE LockInv'
  BY <1>6 DEF StepOK, Continuation, StepFails, Unwinding
<1>7. ASSUME NEW p \in Procs, ApplyFails(p) \/ ApplyBreaks(p) PROVE LockInv'
  BY <1>7 DEF ApplyFails, ApplyBreaks, Unwinding
<1>8. ASSUME NEW p \in Procs,
             \/ RestoreStore(p) \/ RestoreStoreFails(p)
             \/ UndoOK(p) \/ UndoFails(p)
      PROVE  LockInv'
  BY <1>8 DEF RestoreStore, Continuation, RestoreStoreFails, UndoOK, UndoFails, Unwind,
              Unwinding
<1>9. CASE UNCHANGED vars
  BY <1>9 DEF vars
<1>10. QED
  BY <1>1, <1>2, <1>3, <1>4, <1>5, <1>6, <1>7, <1>8, <1>9 DEF Next, Work

(* Whoever works on the disk holds the lock: withMutation excludes every   *)
(* other process, also when a holder is killed.                            *)
THEOREM LockExcludes == Spec => []Exclusive
<1>1. Init => LockInv
  BY DEF Init, Quiet, LockInv, Exclusive, Working, InFlight, PCs
<1>2. LockInv => Exclusive
  BY DEF LockInv
<1>3. QED
  BY <1>1, <1>2, LockStep, PTL DEF Spec

-----------------------------------------------------------------------------
(* Types of the pure functions.                                            *)
LEMMA VersionTypes == Absent \in Present /\ 1 \in Present /\ Versions \subseteq Present
BY VersionAssumption DEF Absent, Present, Versions

(* What a successful step makes of the disk is a disk ...                  *)
LEMMA EffectType ==
  ASSUME NEW d \in Disk, NEW p \in Procs, local[p] \in State,
         todo[p] \in Seq(Step), todo[p] # <<>>
  PROVE  /\ Effect(p, d) \in Disk
         /\ Head(todo[p]).do = "apply" => Applied(p, d) \in Config
<1> DEFINE s == Head(todo[p])
<1>1. s \in Step
  OBVIOUS
<1> DEFINE known == {"import", "add", "commit", "remember", "use", "remove",
                     "apply", "save", "client"}
<1>2. \/ s.do \in known /\ s.prof \in Profiles /\ s.ver \in Present
      \/ s.do \in {"public", "start", "stop", "restart"}
  BY <1>1 DEF Step
<1>3. CASE s.do \in {"import", "add"}
  BY <1>2, <1>3 DEF Effect, WriteProfile, Disk
<1>4. CASE s.do \in {"commit", "remember"}
  BY <1>2, <1>4 DEF Effect, CommitProfile, Disk
<1>5. CASE s.do \in {"use", "remove"}
  BY <1>2, <1>5, VersionTypes DEF Effect, ActivateProfile, DropProfile, Disk
<1>6. CASE s.do = "apply"
  <2>1. Applied(p, d) \in Config
    BY <1>2, <1>6 DEF Applied, Merge, Config, State, Disk
  <2>2. Effect(p, d) = InstallConfig(d, Applied(p, d))
    BY <1>6 DEF Effect
  <2>3. QED
    BY <2>1, <2>2 DEF InstallConfig, Reloaded, Disk
<1>7. CASE s.do = "save"
  BY <1>7 DEF Effect, WriteState, Disk
<1>8. CASE s.do = "client"
  <2>1. ClientView(local[p], s.prof) \in Client
    BY <1>2, <1>8 DEF ClientView, Client, State
  <2>2. QED
    BY <1>8, <2>1 DEF Effect, WriteClient, Disk
<1>9. CASE s.do = "public"
  <2>1. PublicView(d) \in Public
    BY DEF PublicView, Public, Disk, Config
  <2>2. QED
    BY <1>9, <2>1 DEF Effect, WritePublic, Disk
<1>10. CASE s.do \in {"start", "stop", "restart"}
  <2>1. /\ [d EXCEPT !.running = Stopped] \in Disk
        /\ RestartService(d) \in Disk
        /\ [d EXCEPT !.running = IF d.running = Stopped THEN d.installed
                                                       ELSE d.running] \in Disk
    BY DEF RestartService, Disk
  <2>2. QED
    BY <1>10, <2>1 DEF Effect
<1>11. QED
  BY <1>2, <1>3, <1>4, <1>5, <1>6, <1>7, <1>8, <1>9, <1>10

LEMMA UnsettledType ==
  ASSUME NEW d \in Disk, NEW cfg \in Config
  PROVE  Unsettled(d, cfg) \subseteq Disk
<1> DEFINE R       == IF d.running = Stopped THEN {Stopped}
                      ELSE {d.running, d.installed, cfg, Stopped}
           F(i, r) == [d EXCEPT !.installed = i, !.running = r]
<1>1. \A i \in {d.installed, cfg}, r \in R : F(i, r) \in Disk
  BY DEF Disk
<1>2. Unsettled(d, cfg) = {F(i, r) : i \in {d.installed, cfg}, r \in R}
  BY DEF Unsettled
<1> HIDE DEF R, F
<1>3. QED
  BY <1>1, <1>2

(* ... and so is whatever an interrupted step leaves.                      *)
LEMMA CutShortType ==
  ASSUME NEW d \in Disk, NEW p \in Procs, local[p] \in State,
         todo[p] \in Seq(Step), todo[p] # <<>>
  PROVE  CutShort(p, d) \subseteq Disk
<1> DEFINE s == Head(todo[p])
<1>1. Effect(p, d) \in Disk /\ (s.do = "apply" => Applied(p, d) \in Config)
  BY EffectType
<1>2. CASE s.do = "apply"
  BY <1>1, <1>2, UnsettledType DEF CutShort
<1>3. CASE s.do \in {"import", "add"}
  <2>1. [d EXCEPT !.active = Effect(p, d).active] \in Disk
    BY <1>1 DEF Disk
  <2>2. QED
    BY <1>1, <1>3, <2>1 DEF CutShort
<1>4. CASE s.do \in {"start", "stop", "restart"}
  <2>1. \A r \in {d.running, d.installed, Stopped} : [d EXCEPT !.running = r] \in Disk
    BY DEF Disk
  <2>2. QED
    BY <1>4, <2>1 DEF CutShort
<1>5. CASE s.do \notin {"apply", "import", "add", "start", "stop", "restart"}
  BY <1>1, <1>5 DEF CutShort
<1>6. QED
  BY <1>2, <1>3, <1>4, <1>5

(* Rollback steps, complete or not, make a disk of two disks.              *)
LEMMA RestoredType ==
  ASSUME NEW d \in Disk, NEW p \in Procs, before[p] \in Disk, NEW J
  PROVE  Restored(d, p, J) \in Disk
BY DEF Restored, Reloaded, Disk

LEMMA HalfRestoredType ==
  ASSUME NEW d \in Disk, NEW p \in Procs, before[p] \in Disk,
         NEW r \in Rollback
  PROVE  HalfRestored(d, p, r) \subseteq Disk
<1>1. CASE r = "files"
  BY <1>1, RestoredType DEF HalfRestored
<1>2. CASE r = "store"
  <2>1. DocumentsRestored(d, p) \subseteq Disk
    BY DEF DocumentsRestored, Disk
  <2>2. QED
    BY <1>2, <2>1, RestoredType DEF HalfRestored
<1>3. CASE r = "config"
  <2>1. before[p].installed \in Config
    BY DEF Disk
  <2>2. QED
    BY <1>3, <2>1, UnsettledType DEF HalfRestored
<1>4. QED
  BY <1>1, <1>2, <1>3 DEF Rollback

-----------------------------------------------------------------------------
(* Types of the steps an operation is made of, and of how it begins.       *)
LEMMA StepTypes ==
  /\ Publish \in Step
  /\ \A a \in {"start", "stop", "restart"} : Do(a, NoProfile) \in Step
  /\ \A w \in {"remember", "use", "remove", "apply", "save", "client"}, q \in Profiles :
       Do(w, q) \in Step
  /\ \A w \in {"import", "add", "commit"}, q \in Profiles, v \in Present :
       DoVer(w, q, v) \in Step
BY VersionTypes DEF Publish, Do, DoVer, Step

LEMMA KindTypes ==
  /\ {"init", "set", "add", "use", "remove", "sync-public", "sync-client",
      "doctor", "service"} \subseteq Kinds
  /\ <<>> \in Seq(Rollback)
  /\ <<"files">> \in Seq(Rollback)
  /\ <<"store", "files">> \in Seq(Rollback)
BY DEF Kinds, Rollback

LEMMA BeginType ==
  ASSUME TypeOK, NEW p \in Procs, NEW k \in Kinds, NEW st \in State,
         NEW guards \in Seq(Rollback), NEW steps \in Seq(Step), steps # <<>>,
         Begin(p, k, st, guards, steps)
  PROVE  TypeOK'
<1>1. \A q \in Procs : Prepared(q)'
  <2> TAKE q \in Procs
  <2>1. CASE q = p
    BY <2>1 DEF TypeOK, Begin, Prepared, InFlight
  <2>2. CASE q # p
    BY <2>2 DEF TypeOK, Begin, Prepared
  <2>3. QED
    BY <2>1, <2>2
<1>2. QED
  BY <1>1 DEF TypeOK, Begin, PCs, Working, InFlight

(* What an operation finds when it begins: a process that was told to work *)
(* on a managed machine has a state, and an active profile that exists.    *)
LEMMA ReadyType ==
  ASSUME TypeOK, NEW p \in Procs
  PROVE  /\ disk \in Disk
         /\ mem[p] # NoState => mem[p] \in State
         /\ disk.active # NoProfile => disk.active \in Profiles
         /\ Readable(disk) => disk.active \in Profiles
BY DEF TypeOK, Readable, Disk

LEMMA StartType ==
  ASSUME TypeOK, NEW p \in Procs, Start(p)
  PROVE  TypeOK'
<1>1. CASE StartInitialize(p)
  <2>1. PICK c \in Controllers :
          LET s == IF mem[p] = NoState THEN disk.installed.settings
                                       ELSE mem[p].settings
              import == IF disk.active = NoProfile
                        THEN <<DoVer("import", Sys, 1)>> ELSE <<>>
              q == IF disk.active = NoProfile THEN Sys ELSE disk.active
          IN  Begin(p, "init", [ctl |-> c, settings |-> s], <<"store", "files">>,
                    import \o <<Do("apply", q), Do("save", q), Publish,
                                Do("client", q)>>)
    BY <1>1 DEF StartInitialize
  <2> DEFINE s  == IF mem[p] = NoState THEN disk.installed.settings
                                       ELSE mem[p].settings
             st == [ctl |-> c, settings |-> s]
             import == IF disk.active = NoProfile
                       THEN <<DoVer("import", Sys, 1)>> ELSE <<>>
             q == IF disk.active = NoProfile THEN Sys ELSE disk.active
             rest == <<Do("apply", q), Do("save", q), Publish, Do("client", q)>>
  <2>2. st \in State
    BY ReadyType DEF State, Disk, Config
  <2>3. q \in Profiles
    BY ReadyType, SysAssumption
  <2>4. import \in Seq(Step)
    BY StepTypes, VersionTypes, SysAssumption
  <2>5. rest \in Seq(Step) /\ rest # <<>>
    BY <2>3, StepTypes
  <2>6. Begin(p, "init", st, <<"store", "files">>, import \o rest)
    BY <2>1
  <2> HIDE DEF st, import, rest
  <2>7. import \o rest \in Seq(Step) /\ import \o rest # <<>>
    BY <2>4, <2>5
  <2>8. QED
    BY <2>2, <2>6, <2>7, BeginType, KindTypes
<1>2. CASE StartChangeSetting(p)
  <2>1. PICK f \in Fields, v \in Values :
          Begin(p, "set", [mem[p] EXCEPT !.settings[f] = v], <<"files">>,
                <<Do("apply", disk.active), Do("save", disk.active),
                  Do("client", disk.active), Publish>>)
    BY <1>2 DEF StartChangeSetting
  <2>2. mem[p] \in State /\ disk.active \in Profiles
    BY <1>2, ReadyType DEF StartChangeSetting
  <2>3. [mem[p] EXCEPT !.settings[f] = v] \in State
    BY <2>2 DEF State, Settings
  <2>4. <<Do("apply", disk.active), Do("save", disk.active),
          Do("client", disk.active), Publish>> \in Seq(Step)
    BY <2>2, StepTypes
  <2>5. QED
    BY <2>1, <2>3, <2>4, BeginType, KindTypes
<1>3. CASE StartAddProfile(p)
  <2>1. PICK q \in Profiles \ {Sys, disk.active}, v \in Versions :
          Begin(p, "add", mem[p], <<"store", "files">>,
                <<DoVer("add", q, v)>>
                \o (IF disk.active = NoProfile
                    THEN <<Do("apply", q), Do("client", q)>> ELSE <<>>)
                \o <<Publish>>)
    BY <1>3 DEF StartAddProfile
  <2> DEFINE first == <<DoVer("add", q, v)>>
             apply == IF disk.active = NoProfile
                      THEN <<Do("apply", q), Do("client", q)>> ELSE <<>>
             last  == <<Publish>>
  <2>2. first \in Seq(Step) /\ apply \in Seq(Step) /\ last \in Seq(Step)
    BY StepTypes, VersionTypes
  <2>3. last # <<>> /\ Begin(p, "add", mem[p], <<"store", "files">>,
                             first \o apply \o last)
    BY <2>1
  <2> HIDE DEF first, apply, last
  <2>4. first \o apply \o last \in Seq(Step) /\ first \o apply \o last # <<>>
    BY <2>2, <2>3
  <2>5. mem[p] \in State
    BY <1>3, ReadyType DEF StartAddProfile
  <2>6. QED
    BY <2>3, <2>4, <2>5, BeginType, KindTypes
<1>4. CASE StartUseProfile(p)
  <2>1. PICK q \in Profiles \ {disk.active} :
          Begin(p, "use", mem[p], <<"store", "files">>,
                <<Do("remember", disk.active), Do("apply", q), Do("use", q),
                  Publish, Do("client", q)>>)
    BY <1>4 DEF StartUseProfile
  <2>2. mem[p] \in State /\ disk.active \in Profiles
    BY <1>4, ReadyType DEF StartUseProfile
  <2>3. <<Do("remember", disk.active), Do("apply", q), Do("use", q), Publish,
          Do("client", q)>> \in Seq(Step)
    BY <2>2, StepTypes
  <2>4. QED
    BY <2>1, <2>2, <2>3, BeginType, KindTypes
<1>5. CASE StartRemoveProfile(p)
  <2>1. PICK q \in Profiles :
          Begin(p, "remove", mem[p], <<"store", "files">>,
                <<Do("remove", q), Publish>>)
    BY <1>5 DEF StartRemoveProfile
  <2>2. mem[p] \in State
    BY <1>5, ReadyType DEF StartRemoveProfile
  <2>3. <<Do("remove", q), Publish>> \in Seq(Step)
    BY StepTypes
  <2>4. QED
    BY <2>1, <2>2, <2>3, BeginType, KindTypes
<1>6. CASE StartSyncPublic(p)
  <2>1. mem[p] \in State /\ <<Publish>> \in Seq(Step)
    BY <1>6, ReadyType, StepTypes DEF StartSyncPublic
  <2>2. QED
    BY <1>6, <2>1, BeginType, KindTypes DEF StartSyncPublic
<1>7. CASE StartSyncClient(p)
  <2>1. mem[p] \in State /\ disk.active \in Profiles
    BY <1>7, ReadyType DEF StartSyncClient
  <2>2. <<Do("client", disk.active)>> \in Seq(Step)
    BY <2>1, StepTypes
  <2>3. QED
    BY <1>7, <2>1, <2>2, BeginType, KindTypes DEF StartSyncClient
<1>8. CASE StartRepair(p)
  <2>1. mem[p] \in State /\ disk.active \in Profiles
    BY <1>8, ReadyType DEF StartRepair
  <2>2. <<Do("apply", disk.active), Publish, Do("client", disk.active)>>
          \in Seq(Step)
    BY <2>1, StepTypes
  <2>3. QED
    BY <1>8, <2>1, <2>2, BeginType, KindTypes DEF StartRepair
<1>9. CASE StartService(p)
  <2>1. PICK a \in {"start", "stop", "restart"} :
          Begin(p, "service", mem[p], <<>>, <<Do(a, NoProfile)>>)
    BY <1>9 DEF StartService
  <2>2. mem[p] \in State
    BY <1>9, ReadyType DEF StartService
  <2>3. <<Do(a, NoProfile)>> \in Seq(Step) /\ <<Do(a, NoProfile)>> # <<>>
    BY StepTypes
  <2>4. QED
    BY <2>1, <2>2, <2>3, BeginType, KindTypes
<1>10. CASE StartUpdate(p)
  <2>1. PICK n \in 1 .. MaxTargets :
          \E order \in Orders(n), new \in [1 .. n -> Versions] :
            queue' = [queue EXCEPT ![p] =
                        [i \in 1 .. n |-> [prof |-> order[i], ver |-> new[i]]]]
    BY <1>10 DEF StartUpdate
  <2>2. PICK order \in Orders(n), new \in [1 .. n -> Versions] :
          queue' = [queue EXCEPT ![p] =
                      [i \in 1 .. n |-> [prof |-> order[i], ver |-> new[i]]]]
    BY <2>1
  <2> DEFINE waiting == [i \in 1 .. n |-> [prof |-> order[i], ver |-> new[i]]]
  <2>3. n \in Nat /\ n # 0
    BY TargetAssumption
  <2>4. \A i \in 1 .. n : [prof |-> order[i], ver |-> new[i]] \in Target
    BY DEF Orders, Sources, Target
  <2>5. waiting \in Seq(Target) /\ Len(waiting) = n
    BY <2>3, <2>4
  <2>6. waiting # <<>>
    BY <2>3, <2>5
  <2>7. mem[p] \in State
    BY <1>10, ReadyType DEF StartUpdate
  <2>8. queue' = [queue EXCEPT ![p] = waiting]
    BY <2>2
  <2> HIDE DEF waiting
  <2>9. ASSUME NEW q \in Procs PROVE Prepared(q)'
    <3>1. CASE q = p
      BY <1>10, <3>1, <2>6, <2>7, <2>8 DEF StartUpdate, TypeOK, Prepared, InFlight
    <3>2. CASE q # p
      BY <1>10, <3>2, <2>8 DEF StartUpdate, TypeOK, Prepared
    <3>3. QED
      BY <3>1, <3>2
  <2>10. QED
    BY <1>10, <2>5, <2>7, <2>8, <2>9
    DEF StartUpdate, TypeOK, Kinds, PCs, Working, InFlight
<1>11. QED
  BY <1>1, <1>2, <1>3, <1>4, <1>5, <1>6, <1>7, <1>8, <1>9, <1>10 DEF Start

(* The rest of the bookkeeping: lock, batches, steps, rollbacks.           *)
LEMMA LockType ==
  ASSUME TypeOK, NEW p \in Procs,
         Request(p) \/ Cancel(p) \/ Acquire(p) \/ Reload(p) \/ Refuse(p)
  PROVE  TypeOK'
<1>1. disk.state \in State \cup {NoState}
  BY DEF TypeOK, Disk
<1>2. \A q \in Procs : Prepared(q)'
  <2> TAKE q \in Procs
  <2>1. CASE q = p
    BY <2>1 DEF TypeOK, Prepared, InFlight, Request, Cancel, Acquire, Reload,
                Refuse, job
  <2>2. CASE q # p
    BY <2>2 DEF TypeOK, Prepared, Request, Cancel, Acquire, Reload, Refuse, job
  <2>3. QED
    BY <2>1, <2>2
<1>3. pc' \in [Procs -> PCs]
  BY DEF TypeOK, Request, Cancel, Acquire, Reload, Refuse, PCs, Working, InFlight
<1>4. mem' \in [Procs -> State \cup {NoState}]
  BY <1>1 DEF TypeOK, Request, Cancel, Acquire, Reload, Refuse
<1>5. owner' \in Procs \cup {Nobody} /\ ops' \in Nat
  BY DEF TypeOK, Request, Cancel, Acquire, Reload, Refuse
<1>6. UNCHANGED <<disk, torn, job, faults>>
  BY DEF Request, Cancel, Acquire, Reload, Refuse
<1>7. QED
  BY <1>2, <1>3, <1>4, <1>5, <1>6 DEF TypeOK, job

LEMMA ReleaseType ==
  ASSUME TypeOK, NEW p \in Procs, Release(p)
  PROVE  TypeOK'
<1>1. \A q \in Procs : Prepared(q)'
  BY DEF TypeOK, Prepared, InFlight, Release, Unlocked, Forget
<1>2. QED
  BY <1>1 DEF TypeOK, Release, Unlocked, Forget, Kinds, PCs, Working, InFlight

LEMMA NextBatchType ==
  ASSUME TypeOK, NEW p \in Procs, NextBatch(p)
  PROVE  TypeOK'
<1> DEFINE waiting == queue[p]
           limit == IF waiting[1].prof = disk.active THEN 1 ELSE BatchSize
           n == IF Len(waiting) < limit THEN Len(waiting) ELSE limit
           commits == [i \in 1 .. n |-> DoVer("commit", waiting[i].prof,
                                              waiting[i].ver)]
           rest == SubSeq(waiting, n + 1, Len(waiting))
<1>1. waiting \in Seq(Target) /\ waiting # <<>> /\ local[p] \in State
  BY DEF TypeOK, NextBatch, Prepared
<1>2. limit \in Nat \ {0}
  BY BatchAssumption
<1>3. n \in 1 .. Len(waiting)
  <2>1. Len(waiting) \in Nat \ {0}
    BY <1>1
  <2> HIDE DEF waiting, limit
  <2>2. QED
    BY <2>1, <1>2
<1>4. \A i \in 1 .. n : DoVer("commit", waiting[i].prof, waiting[i].ver) \in Step
  <2>1. ASSUME NEW i \in 1 .. n
        PROVE  waiting[i].prof \in Profiles /\ waiting[i].ver \in Present
    <3> HIDE DEF waiting, n
    <3>1. waiting[i] \in Target
      BY <1>1, <1>3
    <3>2. QED
      BY <3>1, VersionTypes DEF Target
  <2>2. QED
    BY <2>1, StepTypes
<1>5. commits \in Seq(Step)
  <2> HIDE DEF n, waiting
  <2>1. QED
    BY <1>3, <1>4, <1>1
<1>6. <<Publish>> \in Seq(Step) /\ <<Publish>> # <<>>
  BY StepTypes
<1>7. rest \in Seq(Target)
  <2> HIDE DEF n, waiting
  <2>1. QED
    BY <1>1, <1>3
<1>8. /\ todo' = [todo EXCEPT ![p] = commits \o <<Publish>>]
      /\ queue' = [queue EXCEPT ![p] = rest]
      /\ stack' = [stack EXCEPT ![p] = <<"store", "files">>]
  BY DEF NextBatch
<1> HIDE DEF commits, rest
<1>9. commits \o <<Publish>> \in Seq(Step) /\ commits \o <<Publish>> # <<>>
  BY <1>5, <1>6
<1>10. \A q \in Procs : Prepared(q)'
  <2> TAKE q \in Procs
  <2>1. CASE q = p
    BY <2>1, <1>1, <1>8, <1>9 DEF TypeOK, Prepared, InFlight, NextBatch
  <2>2. CASE q # p
    BY <2>2, <1>8 DEF TypeOK, Prepared, NextBatch
  <2>3. QED
    BY <2>1, <2>2
<1>11. <<"store", "files">> \in Seq(Rollback)
  BY KindTypes
<1>12. /\ pc' \in [Procs -> PCs]
       /\ rberr' \in [Procs -> BOOLEAN]
       /\ before' \in [Procs -> Disk \cup {NoCheckpoint}]
  BY DEF TypeOK, NextBatch, PCs, Working, InFlight
<1>13. /\ todo' \in [Procs -> Seq(Step)]
       /\ queue' \in [Procs -> Seq(Target)]
       /\ stack' \in [Procs -> Seq(Rollback)]
  BY <1>7, <1>8, <1>9, <1>11 DEF TypeOK
<1>14. UNCHANGED <<disk, torn, owner, kind, mem, local, ops, faults>>
  BY DEF NextBatch
<1>15. QED
  BY <1>10, <1>12, <1>13, <1>14 DEF TypeOK

LEMMA StepOKType ==
  ASSUME TypeOK, NEW p \in Procs, StepOK(p)
  PROVE  TypeOK'
<1>1. /\ disk \in Disk /\ local[p] \in State
      /\ todo[p] \in Seq(Step) /\ todo[p] # <<>>
  BY DEF TypeOK, StepOK, Continuation, Prepared, InFlight
<1>2. disk' \in Disk
  BY <1>1, EffectType DEF StepOK, Continuation
<1>3. Following(p) \in Seq(Step)
  <2>1. Tail(todo[p]) \in Seq(Step)
    BY <1>1
  <2>2. CASE Head(todo[p]).do = "commit"
    <3>1. Head(todo[p]) \in Step
      BY <1>1
    <3>2. Head(todo[p]).prof \in Profiles
      BY <2>2, <3>1 DEF Step
    <3>3. <<Do("apply", Head(todo[p]).prof)>> \in Seq(Step)
      BY <3>2, StepTypes
    <3>4. QED
      BY <2>1, <3>3 DEF Following
  <2>3. CASE Head(todo[p]).do # "commit"
    BY <2>1, <2>3 DEF Following
  <2>4. QED
    BY <2>2, <2>3
<1>4. todo' = [todo EXCEPT ![p] = Following(p)]
  BY DEF StepOK, Continuation
<1>5. stack' \in [Procs -> Seq(Rollback)]
  <2>1. stack[p] \in Seq(Rollback) /\ <<"config">> \in Seq(Rollback)
    BY DEF TypeOK, Rollback
  <2>2. <<"config">> \o stack[p] \in Seq(Rollback)
    BY <2>1
  <2>3. QED
    BY <2>2 DEF StepOK, Continuation, TypeOK
<1>6. mem' \in [Procs -> State \cup {NoState}]
  BY <1>1 DEF StepOK, Continuation, TypeOK
<1>7. pc' \in [Procs -> PCs] /\ torn' \in BOOLEAN
  BY DEF StepOK, Continuation, TypeOK, PCs, Working, InFlight
<1>8. \A q \in Procs : Prepared(q)'
  <2> TAKE q \in Procs
  <2>1. CASE q = p
    <3>1. CASE todo'[p] # <<>>
      BY <2>1, <3>1, <1>1 DEF StepOK, Continuation, TypeOK, Prepared, InFlight
    <3>2. CASE todo'[p] = <<>>
      BY <2>1, <3>2, <1>1 DEF StepOK, Continuation, TypeOK, Prepared, InFlight
    <3>3. QED
      BY <3>1, <3>2
  <2>2. CASE q # p
    BY <2>2 DEF StepOK, Continuation, TypeOK, Prepared
  <2>3. QED
    BY <2>1, <2>2
<1>9. UNCHANGED <<owner, kind, local, queue, before, rberr, ops, faults>>
  BY DEF StepOK, Continuation
<1>10. todo' \in [Procs -> Seq(Step)]
  BY <1>3, <1>4 DEF TypeOK
<1>11. QED
  BY <1>2, <1>5, <1>6, <1>7, <1>8, <1>9, <1>10 DEF TypeOK

(* A process that failed goes on to unwind its stack, if it has one.       *)
LEMMA UnwindingType ==
  ASSUME TypeOK, NEW p \in Procs, pc[p] \in {"run", "restore"},
         NEW x \in {"done", "restore", Unwinding(p)},
         pc' = [pc EXCEPT ![p] = x],
         UNCHANGED <<kind, local, queue, todo, stack, before>>
  PROVE  pc' \in [Procs -> PCs] /\ \A q \in Procs : Prepared(q)'
<1>1. x \in {"done", "restore", "undo"} /\ (x = "undo" => stack[p] # <<>>)
  BY DEF Unwinding
<1>2. pc' \in [Procs -> PCs]
  BY <1>1 DEF TypeOK, PCs, Working, InFlight
<1>3. ASSUME NEW q \in Procs PROVE Prepared(q)'
  BY <1>1 DEF TypeOK, Prepared, InFlight
<1>4. QED
  BY <1>2, <1>3

LEMMA FailureType ==
  ASSUME TypeOK, NEW p \in Procs,
         StepFails(p) \/ ApplyFails(p) \/ ApplyBreaks(p)
  PROVE  TypeOK'
<1>1. /\ disk \in Disk /\ local[p] \in State
      /\ todo[p] \in Seq(Step) /\ todo[p] # <<>> /\ pc[p] = "run"
  BY DEF TypeOK, StepFails, ApplyFails, ApplyBreaks, Prepared, InFlight
<1>2. disk' \in Disk
  <2>1. CASE StepFails(p)
    BY <1>1, <2>1, CutShortType DEF StepFails
  <2>2. CASE ApplyFails(p)
    BY <1>1, <2>2 DEF ApplyFails, Reloaded, Disk
  <2>3. CASE ApplyBreaks(p)
    <3>1. Applied(p, disk) \in Config
      BY <1>1, <2>3, EffectType DEF ApplyBreaks
    <3>2. QED
      BY <1>1, <2>3, <3>1, UnsettledType DEF ApplyBreaks
  <2>4. QED
    BY <2>1, <2>2, <2>3
<1>3. PICK x \in {"done", "restore", Unwinding(p)} : pc' = [pc EXCEPT ![p] = x]
  <2>1. CASE StepFails(p)
    BY <2>1 DEF StepFails
  <2>2. CASE ApplyFails(p)
    BY <2>2 DEF ApplyFails
  <2>3. CASE ApplyBreaks(p)
    BY <2>3 DEF ApplyBreaks
  <2>4. QED
    BY <2>1, <2>2, <2>3
<1>4. UNCHANGED <<owner, kind, mem, local, queue, todo, stack, before, ops>>
  BY DEF StepFails, ApplyFails, ApplyBreaks, job
<1>5. pc' \in [Procs -> PCs] /\ \A q \in Procs : Prepared(q)'
  BY <1>1, <1>3, <1>4, UnwindingType
<1>6. torn' \in BOOLEAN
  BY DEF TypeOK, StepFails, ApplyFails, ApplyBreaks
<1>7. rberr' \in [Procs -> BOOLEAN] /\ faults' \in Nat
  <2>1. rberr' = rberr \/ rberr' = [rberr EXCEPT ![p] = TRUE]
    BY DEF StepFails, ApplyFails, ApplyBreaks, job
  <2>2. faults' = faults \/ faults' = faults + 1
    BY DEF StepFails, ApplyFails, ApplyBreaks
  <2>3. rberr \in [Procs -> BOOLEAN] /\ faults \in Nat
    BY DEF TypeOK
  <2>4. rberr' \in [Procs -> BOOLEAN]
    BY <2>1, <2>3
  <2>5. QED
    BY <2>2, <2>3, <2>4
<1>8. QED
  BY <1>2, <1>4, <1>5, <1>6, <1>7 DEF TypeOK

LEMMA RestoreStoreType ==
  ASSUME TypeOK, NEW p \in Procs, RestoreStore(p) \/ RestoreStoreFails(p)
  PROVE  TypeOK'
<1>1. /\ disk \in Disk /\ local[p] \in State /\ before[p] \in Disk
      /\ pc[p] = "restore"
  BY DEF TypeOK, RestoreStore, Continuation, RestoreStoreFails, Prepared, InFlight
<1>2. disk' \in Disk
  <2>1. "store" \in Rollback
    BY DEF Rollback
  <2>2. QED
    BY <1>1, <2>1, RestoredType, HalfRestoredType
    DEF RestoreStore, Continuation, RestoreStoreFails
<1>3. UNCHANGED <<torn, owner, mem, kind, local, queue, todo, stack, before,
                  rberr, ops, faults>>
  BY DEF RestoreStore, Continuation, RestoreStoreFails, job
<1>4. CASE RestoreStore(p)
  <2>1. pc' = [pc EXCEPT ![p] = IF queue[p] = <<>> THEN "done" ELSE "batch"]
    BY <1>4 DEF RestoreStore, Continuation
  <2>2. pc' \in [Procs -> PCs]
    BY <2>1 DEF TypeOK, PCs, Working, InFlight
  <2>3. ASSUME NEW q \in Procs PROVE Prepared(q)'
    BY <1>1, <1>3, <2>1 DEF TypeOK, Prepared, InFlight
  <2>4. QED
    BY <1>2, <1>3, <2>2, <2>3 DEF TypeOK
<1>5. CASE RestoreStoreFails(p)
  <2>1. pc' \in [Procs -> PCs] /\ \A q \in Procs : Prepared(q)'
    BY <1>1, <1>3, <1>5, UnwindingType DEF RestoreStoreFails
  <2>2. QED
    BY <1>2, <1>3, <2>1 DEF TypeOK
<1>6. QED
  BY <1>4, <1>5

LEMMA UndoType ==
  ASSUME TypeOK, NEW p \in Procs, UndoOK(p) \/ UndoFails(p)
  PROVE  TypeOK'
<1>1. /\ disk \in Disk /\ local[p] \in State /\ before[p] \in Disk
      /\ stack[p] \in Seq(Rollback) /\ stack[p] # <<>> /\ pc[p] = "undo"
  BY DEF TypeOK, UndoOK, UndoFails, Prepared, InFlight
<1>2. disk' \in Disk
  <2>1. Head(stack[p]) \in Rollback
    BY <1>1
  <2>2. QED
    BY <1>1, <2>1, RestoredType, HalfRestoredType DEF UndoOK, UndoFails
<1>3. Unwind(p)
  BY DEF UndoOK, UndoFails
<1>4. stack' = [stack EXCEPT ![p] = Tail(stack[p])] /\ Tail(stack[p]) \in Seq(Rollback)
  BY <1>1, <1>3 DEF Unwind, KeepsMemory, TypeOK
<1>5. stack' \in [Procs -> Seq(Rollback)]
  BY <1>4 DEF TypeOK
<1>6. rberr' \in [Procs -> BOOLEAN] /\ faults' \in Nat
  <2>1. rberr \in [Procs -> BOOLEAN] /\ faults \in Nat
    BY DEF TypeOK
  <2>2. rberr' = rberr \/ rberr' = [rberr EXCEPT ![p] = TRUE]
    BY DEF UndoOK, UndoFails
  <2>3. faults' = faults \/ faults' = faults + 1
    BY DEF UndoOK, UndoFails
  <2>4. rberr' \in [Procs -> BOOLEAN]
    BY <2>1, <2>2
  <2>5. QED
    BY <2>1, <2>3, <2>4
<1>7. UNCHANGED <<owner, kind, local, queue, todo, before, ops>>
  BY <1>3 DEF Unwind, KeepsMemory
<1>8. CASE Tail(stack[p]) # <<>>
  <2>1. UNCHANGED <<pc, mem, torn>>
    BY <1>3, <1>8 DEF Unwind, KeepsMemory
  <2>2. ASSUME NEW q \in Procs PROVE Prepared(q)'
    BY <1>1, <1>4, <1>7, <1>8, <2>1 DEF TypeOK, Prepared, InFlight
  <2>3. QED
    BY <1>2, <1>5, <1>6, <1>7, <2>1, <2>2 DEF TypeOK
<1>9. CASE Tail(stack[p]) = <<>>
  <2>1. pc' = [pc EXCEPT ![p] = "done"]
    BY <1>3, <1>9 DEF Unwind, KeepsMemory
  <2>2. mem' \in [Procs -> State \cup {NoState}]
    <3>1. disk'.state \in State \cup {NoState}
      BY <1>2 DEF Disk
    <3>2. QED
      BY <1>3, <1>9, <3>1 DEF Unwind, KeepsMemory, TypeOK
  <2>3. torn' \in BOOLEAN
    BY <1>3, <1>9 DEF Unwind, KeepsMemory
  <2>4. pc' \in [Procs -> PCs]
    BY <2>1 DEF TypeOK, PCs, Working, InFlight
  <2>5. ASSUME NEW q \in Procs PROVE Prepared(q)'
    BY <1>4, <1>7, <2>1 DEF TypeOK, Prepared, InFlight
  <2>6. QED
    BY <1>2, <1>5, <1>6, <1>7, <2>2, <2>3, <2>4, <2>5 DEF TypeOK
<1>10. QED
  BY <1>8, <1>9

LEMMA CrashType ==
  ASSUME TypeOK, NEW p \in Procs, Crash(p)
  PROVE  TypeOK'
<1>1. disk \in Disk
  BY DEF TypeOK
<1>2. disk' \in Disk
  <2>1. CASE pc[p] = "run"
    <3>1. local[p] \in State /\ todo[p] \in Seq(Step) /\ todo[p] # <<>>
      BY <2>1 DEF TypeOK, Prepared, InFlight
    <3>2. QED
      BY <1>1, <2>1, <3>1, CutShortType DEF Crash
  <2>2. CASE pc[p] = "restore"
    <3>1. before[p] \in Disk /\ "store" \in Rollback
      BY <2>2 DEF TypeOK, Prepared, InFlight, Rollback
    <3>2. QED
      BY <1>1, <2>2, <3>1, HalfRestoredType DEF Crash
  <2>3. CASE pc[p] = "undo"
    <3>1. /\ before[p] \in Disk /\ stack[p] \in Seq(Rollback)
          /\ stack[p] # <<>>
      BY <2>3 DEF TypeOK, Prepared, InFlight
    <3>2. QED
      BY <1>1, <2>3, <3>1, HalfRestoredType DEF Crash
  <2>4. CASE pc[p] \notin {"run", "restore", "undo"}
    BY <1>1, <2>4 DEF Crash
  <2>5. QED
    BY <2>1, <2>2, <2>3, <2>4
<1>3. disk'.state \in State \cup {NoState}
  BY <1>2 DEF Disk
<1>4. \A q \in Procs : Prepared(q)'
  BY DEF TypeOK, Prepared, InFlight, Crash, Unlocked, Forget
<1>5. owner' \in Procs \cup {Nobody} /\ torn' \in BOOLEAN
  BY DEF TypeOK, Crash, Unlocked
<1>6. faults' \in Nat /\ ops' \in Nat
  <2>1. faults \in Nat /\ ops \in Nat
    BY DEF TypeOK
  <2>2. QED
    BY <2>1 DEF Crash, Unlocked
<1>7. mem' \in [Procs -> State \cup {NoState}] /\ pc' \in [Procs -> PCs]
  BY <1>3 DEF TypeOK, Crash, Unlocked, PCs
<1>8. /\ kind' \in [Procs -> Kinds] /\ local' \in [Procs -> State \cup {NoState}]
      /\ queue' \in [Procs -> Seq(Target)] /\ todo' \in [Procs -> Seq(Step)]
      /\ stack' \in [Procs -> Seq(Rollback)] /\ rberr' \in [Procs -> BOOLEAN]
      /\ before' \in [Procs -> Disk \cup {NoCheckpoint}]
  BY DEF TypeOK, Crash, Unlocked, Forget, Kinds
<1>9. QED
  BY <1>2, <1>4, <1>5, <1>6, <1>7, <1>8 DEF TypeOK

LEMMA FreshTypes ==
  ASSUME NEW s \in Settings, NEW up \in BOOLEAN
  PROVE  FreshDisk(s, up) \in Disk
<1>1. Unmanaged(s) \in Config
  BY SysAssumption, VersionTypes DEF Unmanaged, Config
<1>2. QED
  BY <1>1, VersionTypes DEF FreshDisk, Disk

(* Processes that have requested nothing are well typed on any disk.       *)
LEMMA QuietTypes == disk \in Disk /\ Quiet => TypeOK
<1> SUFFICES ASSUME disk \in Disk, Quiet PROVE TypeOK
  OBVIOUS
<1>1. \A p \in Procs : Prepared(p)
  BY DEF Quiet, Prepared, InFlight
<1>2. /\ <<>> \in Seq(Target) /\ <<>> \in Seq(Step) /\ <<>> \in Seq(Rollback)
      /\ "idle" \in PCs /\ "none" \in Kinds
      /\ disk.state \in State \cup {NoState}
  BY DEF PCs, Kinds, Disk
<1>3. /\ pc \in [Procs -> PCs] /\ kind \in [Procs -> Kinds]
      /\ mem \in [Procs -> State \cup {NoState}]
      /\ local \in [Procs -> State \cup {NoState}]
  BY <1>2 DEF Quiet
<1>4. /\ queue \in [Procs -> Seq(Target)]
      /\ todo \in [Procs -> Seq(Step)]
      /\ stack \in [Procs -> Seq(Rollback)]
      /\ before \in [Procs -> Disk \cup {NoCheckpoint}]
      /\ rberr \in [Procs -> BOOLEAN]
  BY <1>2 DEF Quiet
<1>5. /\ torn \in BOOLEAN /\ owner \in Procs \cup {Nobody}
      /\ ops \in Nat /\ faults \in Nat
  BY DEF Quiet
<1>6. QED
  BY <1>1, <1>3, <1>4, <1>5 DEF TypeOK

LEMMA TypesStep == TypeOK /\ [Next]_vars => TypeOK'
<1> SUFFICES ASSUME TypeOK, [Next]_vars PROVE TypeOK'
  OBVIOUS
<1>1. ASSUME NEW p \in Procs,
             Request(p) \/ Cancel(p) \/ Acquire(p) \/ Work(p) \/ Crash(p)
      PROVE  TypeOK'
  BY <1>1, LockType, ReleaseType, StartType, NextBatchType, StepOKType,
     FailureType, RestoreStoreType, UndoType, CrashType DEF Work
<1>2. CASE UNCHANGED vars
  BY <1>2 DEF vars, TypeOK, Prepared
<1>3. QED
  BY <1>1, <1>2 DEF Next

(* Every variable keeps its type, and the program counter tells which of a *)
(* process's variables hold a value: a running operation has a next step   *)
(* and a checkpoint, an unwinding one a rollback left to run.              *)
THEOREM TypesHold == Spec => []TypeOK
<1>1. Init => TypeOK
  BY FreshTypes, QuietTypes DEF Init
<1>2. QED
  BY <1>1, TypesStep, PTL DEF Spec

-----------------------------------------------------------------------------
(* A process never works on a stale copy of the managed state.  The proof  *)
(* carries through the states in which FreshMemory says nothing: while an  *)
(* operation unwinds, its memory may differ from the file, and either the  *)
(* reload at the end or the operation's kind makes good for it.            *)
Saves(p) == \E i \in 1 .. Len(todo[p]) : todo[p][i].do = "save"

(* What each process's memory owes to the state file: it equals the file   *)
(* outside a rollback; an operation that is still to save has checkpoints  *)
(* to unwind and reloads after them; one that does not reload has never    *)
(* touched the file.                                                       *)
Remembers(p) ==
  /\ pc[p] \in {"ready", "batch", "run", "restore", "done"} => mem[p] = disk.state
  /\ pc[p] = "run" /\ Saves(p) => stack[p] # <<>> /\ kind[p] \notin KeepsMemory
  /\ pc[p] = "undo" /\ kind[p] \in KeepsMemory => mem[p] = disk.state

MemoryInv == TypeOK /\ Exclusive /\ \A p \in Procs : Remembers(p)

-----------------------------------------------------------------------------
(* Which steps touch the state file.                                       *)
LEMMA UnsettledState ==
  ASSUME NEW d \in Disk, NEW cfg \in Config
  PROVE  \A e \in Unsettled(d, cfg) : e.state = d.state
<1> DEFINE R       == IF d.running = Stopped THEN {Stopped}
                      ELSE {d.running, d.installed, cfg, Stopped}
           F(i, r) == [d EXCEPT !.installed = i, !.running = r]
<1>1. \A i \in {d.installed, cfg}, r \in R : F(i, r).state = d.state
  BY DEF Disk
<1>2. Unsettled(d, cfg) = {F(i, r) : i \in {d.installed, cfg}, r \in R}
  BY DEF Unsettled
<1> HIDE DEF R, F
<1>3. QED
  BY <1>1, <1>2

LEMMA EffectState ==
  ASSUME NEW d \in Disk, NEW p \in Procs, local[p] \in State,
         todo[p] \in Seq(Step), todo[p] # <<>>
  PROVE  /\ Effect(p, d).state = IF Head(todo[p]).do = "save" THEN local[p]
                                                              ELSE d.state
         /\ Head(todo[p]).do # "save" =>
              \A e \in CutShort(p, d) : e.state = d.state
<1> DEFINE s == Head(todo[p])
<1>1. s \in Step
  OBVIOUS
<1>2. s.do = "apply" => \A e \in Unsettled(d, Applied(p, d)) : e.state = d.state
  BY EffectType, UnsettledState
<1>3. CASE s.do = "save"
  BY <1>3 DEF Effect, WriteState, Disk
<1>4. CASE s.do = "apply"
  BY <1>2, <1>4 DEF Effect, CutShort, InstallConfig, Disk
<1>5. CASE s.do \in {"import", "add"}
  <2>1. Effect(p, d).state = d.state
    BY <1>5 DEF Effect, WriteProfile, Disk
  <2>2. \A a : [d EXCEPT !.active = a].state = d.state
    BY DEF Disk
  <2>3. QED
    BY <1>5, <2>1, <2>2 DEF CutShort
<1>6. CASE s.do \in {"start", "stop", "restart"}
  <2>1. \A r : [d EXCEPT !.running = r].state = d.state
    BY DEF Disk
  <2>2. Effect(p, d).state = d.state
    BY <1>6, <2>1 DEF Effect, RestartService
  <2>3. QED
    BY <1>6, <2>1, <2>2 DEF CutShort
<1>7. CASE s.do \in {"commit", "remember", "use", "remove", "client", "public"}
  <2>1. Effect(p, d).state = d.state
    BY <1>7 DEF Effect, CommitProfile, ActivateProfile, DropProfile, WriteClient,
                WritePublic, Disk
  <2>2. QED
    BY <1>7, <2>1 DEF CutShort
<1>8. QED
  BY <1>1, <1>3, <1>4, <1>5, <1>6, <1>7 DEF Step

(* Only the rollback of an operation that captured the state file, and     *)
(* reloads at its end, writes it.                                          *)
LEMMA UndoState ==
  ASSUME NEW d \in Disk, NEW p \in Procs, NEW r \in Rollback,
         before[p] \in Disk, kind[p] \in KeepsMemory
  PROVE  /\ Restored(d, p, Covers(p, r)).state = d.state
         /\ \A e \in HalfRestored(d, p, r) : e.state = d.state
<1>1. CapturedFiles(kind[p]) = {"public"}
  BY DEF CapturedFiles, KeepsMemory
<1>2. \A J : "state" \notin J => Restored(d, p, J).state = d.state
  BY DEF Restored
<1>3. "state" \notin Covers(p, r)
  BY <1>1 DEF Covers, Rollback
<1>4. \A e \in DocumentsRestored(d, p) : e.state = d.state
  BY DEF DocumentsRestored, Disk
<1>5. \A e \in Unsettled(d, before[p].installed) : e.state = d.state
  <2>1. before[p].installed \in Config
    BY DEF Disk
  <2>2. QED
    BY <2>1, UnsettledState
<1>6. \A e \in HalfRestored(d, p, r) : e.state = d.state
  BY <1>1, <1>2, <1>4, <1>5 DEF HalfRestored, Rollback
<1>7. QED
  BY <1>2, <1>3, <1>6

(* An update restores the store alone on the spot.                         *)
LEMMA StoreState ==
  ASSUME NEW d \in Disk, NEW p \in Procs
  PROVE  /\ Restored(d, p, {"store"}).state = d.state
         /\ \A e \in HalfRestored(d, p, "store") : e.state = d.state
<1>1. Restored(d, p, {"store"}).state = d.state
  BY DEF Restored
<1>2. \A e \in DocumentsRestored(d, p) : e.state = d.state
  BY DEF DocumentsRestored, Disk
<1>3. QED
  BY <1>1, <1>2 DEF HalfRestored

(* Taking a step leaves nothing to save that was not to be saved before.   *)
LEMMA FollowingSaves ==
  ASSUME NEW p \in Procs, todo[p] \in Seq(Step), todo[p] # <<>>,
         NEW i \in 1 .. Len(Following(p)), Following(p)[i].do = "save"
  PROVE  Saves(p)
<1> DEFINE rest == Tail(todo[p])
<1>1. \A j \in 1 .. Len(rest) : j + 1 \in 1 .. Len(todo[p]) /\ rest[j] = todo[p][j + 1]
  OBVIOUS
<1>2. CASE Following(p) = rest
  BY <1>1, <1>2 DEF Saves
<1>3. CASE Following(p) # rest
  <2> DEFINE apply == Do("apply", Head(todo[p]).prof)
  <2>1. Following(p) = <<apply>> \o rest
    BY <1>3 DEF Following
  <2>2. apply.do = "apply"
    BY DEF Do
  <2>3. rest \in Seq(Step)
    OBVIOUS
  <2> HIDE DEF apply, rest
  <2>4. i # 1 /\ i - 1 \in 1 .. Len(rest) /\ Following(p)[i] = rest[i - 1]
    BY <2>1, <2>2, <2>3
  <2>5. QED
    BY <1>1, <2>4 DEF Saves
<1>4. QED
  BY <1>2, <1>3

(* A batch commits profiles and publishes.                                 *)
Batch(p) ==
  LET waiting == queue[p]
      limit == IF waiting[1].prof = disk.active THEN 1 ELSE BatchSize
      n == IF Len(waiting) < limit THEN Len(waiting) ELSE limit
  IN  [i \in 1 .. n |-> DoVer("commit", waiting[i].prof, waiting[i].ver)]
      \o <<Publish>>

LEMMA BatchShape ==
  ASSUME TypeOK, NEW p \in Procs, NextBatch(p)
  PROVE  LET m == Len(Batch(p))
         IN  /\ m \in Nat /\ m >= 2 /\ Batch(p)[m] = Publish
             /\ m - 1 <= Len(queue[p])
             /\ \A i \in 1 .. m - 1 :
                  Batch(p)[i] = DoVer("commit", queue[p][i].prof, queue[p][i].ver)
             /\ queue[p][1].prof = disk.active => m = 2
             /\ queue'[p] = SubSeq(queue[p], m, Len(queue[p]))
<1> DEFINE waiting == queue[p]
           limit == IF waiting[1].prof = disk.active THEN 1 ELSE BatchSize
           n == IF Len(waiting) < limit THEN Len(waiting) ELSE limit
           commits == [i \in 1 .. n |-> DoVer("commit", waiting[i].prof,
                                              waiting[i].ver)]
<1>1. n \in Nat /\ n >= 1 /\ n <= Len(waiting)
  <2>1. Len(waiting) \in Nat \ {0} /\ limit \in Nat \ {0}
    BY BatchAssumption DEF TypeOK, NextBatch, Prepared
  <2> HIDE DEF waiting, limit
  <2>2. QED
    BY <2>1
<1>2. \A i \in 1 .. n :
        commits[i] = DoVer("commit", waiting[i].prof, waiting[i].ver)
  OBVIOUS
<1>3. DOMAIN commits = 1 .. n /\ commits = [i \in 1 .. n |-> commits[i]]
  OBVIOUS
<1>4. Batch(p) = commits \o <<Publish>>
  BY DEF Batch
<1>5. waiting[1].prof = disk.active => n = 1
  <2>1. Len(waiting) \in Nat \ {0}
    BY DEF TypeOK, NextBatch, Prepared
  <2>2. waiting[1].prof = disk.active => limit = 1
    OBVIOUS
  <2> HIDE DEF waiting, limit
  <2>3. QED
    BY <2>1, <2>2
<1>6. queue'[p] = SubSeq(waiting, n + 1, Len(waiting))
  BY DEF NextBatch, TypeOK
<1> DEFINE S == {commits[i] : i \in 1 .. n}
<1> HIDE DEF commits, n, waiting
<1>7. commits \in Seq(S) /\ Len(commits) = n
  BY <1>1, <1>3 DEF S
<1>8. /\ Len(Batch(p)) = n + 1 /\ Batch(p)[n + 1] = Publish
      /\ \A i \in 1 .. n : Batch(p)[i] = commits[i]
  BY <1>1, <1>4, <1>7
<1>9. QED
  BY <1>1, <1>2, <1>5, <1>6, <1>8 DEF waiting

(* No batch writes the state file.                                         *)
LEMMA BatchSaves ==
  ASSUME TypeOK, NEW p \in Procs, NextBatch(p)
  PROVE  \A i \in 1 .. Len(Batch(p)) : Batch(p)[i].do \in {"commit", "public"}
<1>1. \A i \in 1 .. Len(Batch(p)) : i = Len(Batch(p)) \/ i \in 1 .. Len(Batch(p)) - 1
  BY BatchShape
<1>2. Publish.do = "public" /\ \A q, v : DoVer("commit", q, v).do = "commit"
  BY DEF Publish, Do, DoVer
<1>3. QED
  BY <1>1, <1>2, BatchShape

-----------------------------------------------------------------------------
(* A process that works does so alone, so its step owes nothing to the     *)
(* memory of the others.                                                   *)
LEMMA Alone ==
  ASSUME MemoryInv, NEW p \in Procs, pc[p] \in Working,
         NEW x, pc' = [pc EXCEPT ![p] = x], Remembers(p)'
  PROVE  \A q \in Procs : Remembers(q)'
<1>1. ASSUME NEW q \in Procs, q # p PROVE pc'[q] \notin Working
  BY <1>1 DEF MemoryInv, TypeOK, Exclusive
<1>2. QED
  BY <1>1 DEF Remembers, Working, InFlight

LEMMA BeginRemembers ==
  ASSUME MemoryInv, NEW p \in Procs, pc[p] = "ready",
         NEW k, NEW st, NEW guards, NEW steps, Begin(p, k, st, guards, steps),
         \/ guards # <<>> /\ k \notin KeepsMemory
         \/ \A i \in 1 .. Len(steps) : steps[i].do # "save"
  PROVE  \A q \in Procs : Remembers(q)'
<1>1. Remembers(p)'
  BY DEF MemoryInv, Remembers, Begin, TypeOK, Saves
<1>2. QED
  BY <1>1, Alone DEF Begin, Working

LEMMA StartRemembers ==
  ASSUME MemoryInv, NEW p \in Procs, Start(p)
  PROVE  \A q \in Procs : Remembers(q)'
<1>1. <<"files">> # <<>> /\ <<"store", "files">> # <<>>
  OBVIOUS
<1>2. CASE \/ StartInitialize(p) \/ StartChangeSetting(p) \/ StartAddProfile(p)
           \/ StartUseProfile(p) \/ StartSyncClient(p) \/ StartRepair(p)
  <2>1. \A k \in {"init", "set", "add", "use", "sync-client", "doctor"} :
          k \notin KeepsMemory
    BY DEF KeepsMemory
  <2>2. CASE StartInitialize(p)
    BY <1>1, <2>1, <2>2, BeginRemembers DEF StartInitialize
  <2>3. CASE StartChangeSetting(p)
    BY <1>1, <2>1, <2>3, BeginRemembers DEF StartChangeSetting
  <2>4. CASE StartAddProfile(p)
    BY <1>1, <2>1, <2>4, BeginRemembers DEF StartAddProfile
  <2>5. CASE StartUseProfile(p)
    BY <1>1, <2>1, <2>5, BeginRemembers DEF StartUseProfile
  <2>6. CASE StartSyncClient(p) \/ StartRepair(p)
    BY <1>1, <2>1, <2>6, BeginRemembers DEF StartSyncClient, StartRepair
  <2>7. QED
    BY <1>2, <2>2, <2>3, <2>4, <2>5, <2>6
<1>3. CASE StartRemoveProfile(p)
  <2>1. PICK q \in Profiles :
          Begin(p, "remove", mem[p], <<"store", "files">>,
                <<Do("remove", q), Publish>>)
    BY <1>3 DEF StartRemoveProfile
  <2>2. \A i \in 1 .. Len(<<Do("remove", q), Publish>>) :
          <<Do("remove", q), Publish>>[i].do # "save"
    BY DEF Do, Publish
  <2>3. QED
    BY <1>3, <2>1, <2>2, BeginRemembers DEF StartRemoveProfile
<1>4. CASE StartSyncPublic(p)
  <2>1. \A i \in 1 .. Len(<<Publish>>) : <<Publish>>[i].do # "save"
    BY DEF Do, Publish
  <2>2. QED
    BY <1>4, <2>1, BeginRemembers DEF StartSyncPublic
<1>5. CASE StartService(p)
  <2>1. PICK a \in {"start", "stop", "restart"} :
          Begin(p, "service", mem[p], <<>>, <<Do(a, NoProfile)>>)
    BY <1>5 DEF StartService
  <2>2. \A i \in 1 .. Len(<<Do(a, NoProfile)>>) :
          <<Do(a, NoProfile)>>[i].do # "save"
    BY DEF Do
  <2>3. QED
    BY <1>5, <2>1, <2>2, BeginRemembers DEF StartService
<1>6. CASE StartUpdate(p)
  <2>1. Remembers(p)'
    BY <1>6 DEF StartUpdate, MemoryInv, Remembers, TypeOK
  <2>2. QED
    BY <1>6, <2>1, Alone DEF StartUpdate, Working
<1>7. QED
  BY <1>2, <1>3, <1>4, <1>5, <1>6 DEF Start

(* The lock and the loop over batches.                                     *)
LEMMA LockRemembers ==
  ASSUME MemoryInv, NEW p \in Procs,
         \/ Request(p) \/ Cancel(p) \/ Acquire(p) \/ Reload(p) \/ Refuse(p)
         \/ NextBatch(p) \/ Release(p) \/ Crash(p)
  PROVE  \A q \in Procs : Remembers(q)'
<1>1. CASE Request(p) \/ Cancel(p) \/ Acquire(p)
  BY <1>1 DEF MemoryInv, Remembers, TypeOK, Request, Cancel, Acquire, job, Saves
<1>2. CASE Reload(p) \/ Refuse(p)
  <2>1. Remembers(p)'
    BY <1>2 DEF MemoryInv, Remembers, TypeOK, Reload, Refuse
  <2>2. pc[p] \in Working /\ \E x : pc' = [pc EXCEPT ![p] = x]
    BY <1>2 DEF Reload, Refuse, Working
  <2>3. QED
    BY <2>1, <2>2, Alone
<1>3. CASE NextBatch(p)
  <2>1. mem'[p] = disk'.state /\ pc'[p] = "run" /\ todo'[p] = Batch(p)
    BY <1>3 DEF NextBatch, MemoryInv, Remembers, TypeOK, Batch
  <2>2. ~ Saves(p)'
    BY <1>3, <2>1, BatchSaves DEF Saves, MemoryInv
  <2>3. Remembers(p)'
    BY <2>1, <2>2 DEF Remembers
  <2>4. QED
    BY <1>3, <2>3, Alone DEF NextBatch, Working
<1>4. CASE Release(p) \/ Crash(p)
  <2>1. pc[p] \in Working /\ pc' = [pc EXCEPT ![p] = "idle"]
    BY <1>4 DEF Release, Crash, Working
  <2>2. Remembers(p)'
    BY <2>1 DEF MemoryInv, TypeOK, Remembers
  <2>3. QED
    BY <2>1, <2>2, Alone
<1>5. QED
  BY <1>1, <1>2, <1>3, <1>4

(* Steps that succeed, fail, or break.                                     *)
LEMMA RunRemembers ==
  ASSUME MemoryInv, NEW p \in Procs,
         StepOK(p) \/ StepFails(p) \/ ApplyFails(p) \/ ApplyBreaks(p)
  PROVE  \A q \in Procs : Remembers(q)'
<1> DEFINE s == Head(todo[p])
<1>1. /\ pc[p] = "run" /\ pc[p] \in Working
      /\ disk \in Disk /\ local[p] \in State
      /\ todo[p] \in Seq(Step) /\ todo[p] # <<>>
      /\ mem[p] = disk.state
      /\ Saves(p) => stack[p] # <<>> /\ kind[p] \notin KeepsMemory
  BY DEF MemoryInv, TypeOK, Remembers, Prepared, InFlight, Working,
         StepOK, StepFails, ApplyFails, ApplyBreaks
<1>2. s.do = "save" => Saves(p)
  <2>1. 1 \in 1 .. Len(todo[p]) /\ s = todo[p][1]
    BY <1>1
  <2>2. QED
    BY <2>1 DEF Saves
<1>3. CASE StepOK(p)
  <2>1. disk'.state = mem'[p]
    BY <1>1, <1>3, EffectState DEF StepOK, MemoryInv, TypeOK
  <2>2. todo'[p] = Following(p)
    BY <1>3 DEF StepOK, MemoryInv, TypeOK
  <2>3. Saves(p)' => Saves(p)
    BY <1>1, <2>2, FollowingSaves DEF Saves
  <2>4. Saves(p) => stack'[p] # <<>>
    <3>1. stack'[p] \in {stack[p], <<"config">> \o stack[p]}
      BY <1>3 DEF StepOK, MemoryInv, TypeOK
    <3>2. stack[p] \in Seq(Rollback) /\ <<"config">> \in Seq(Rollback)
      BY DEF MemoryInv, TypeOK, Rollback
    <3>3. <<"config">> \o stack[p] # <<>>
      BY <3>2
    <3>4. QED
      BY <1>1, <3>1, <3>3
  <2>5. \E x \in {"run", "done", "batch"} : pc' = [pc EXCEPT ![p] = x]
    BY <1>1, <1>3 DEF StepOK, Continuation, MemoryInv, TypeOK
  <2>6. Remembers(p)'
    BY <1>1, <1>3, <2>1, <2>3, <2>4, <2>5
    DEF StepOK, Remembers, MemoryInv, TypeOK
  <2>7. QED
    BY <1>1, <2>5, <2>6, Alone
<1>4. CASE StepFails(p)
  <2>1. s.do # "save" => disk'.state = disk.state
    BY <1>1, <1>4, EffectState DEF StepFails
  <2>2. pc' = [pc EXCEPT ![p] = Unwinding(p)] /\ UNCHANGED <<mem, kind, stack>>
    BY <1>4 DEF StepFails, job
  <2>3. Remembers(p)'
    BY <1>1, <1>2, <2>1, <2>2 DEF Unwinding, Remembers, MemoryInv, TypeOK
  <2>4. QED
    BY <1>1, <2>2, <2>3, Alone
<1>5. CASE ApplyFails(p) \/ ApplyBreaks(p)
  <2>1. Applied(p, disk) \in Config
    BY <1>1, <1>5, EffectType DEF ApplyFails, ApplyBreaks
  <2>2. disk'.state = disk.state
    <3>1. CASE ApplyFails(p)
      <4>1. [disk EXCEPT !.running = Reloaded(disk, disk.installed)].state = disk.state
        BY <1>1 DEF Disk
      <4>2. QED
        BY <3>1, <4>1 DEF ApplyFails
    <3>2. CASE ApplyBreaks(p)
      BY <1>1, <2>1, <3>2, UnsettledState DEF ApplyBreaks
    <3>3. QED
      BY <1>5, <3>1, <3>2
  <2>3. UNCHANGED <<mem, kind>>
    BY <1>5 DEF ApplyFails, ApplyBreaks, job
  <2>4. \E x \in {"done", "restore", "undo"} : pc' = [pc EXCEPT ![p] = x]
    BY <1>5 DEF ApplyFails, ApplyBreaks, Unwinding
  <2>5. Remembers(p)'
    BY <1>1, <2>2, <2>3, <2>4 DEF Remembers, MemoryInv, TypeOK
  <2>6. QED
    BY <1>1, <2>4, <2>5, Alone
<1>6. QED
  BY <1>3, <1>4, <1>5

(* Rolling back: the store on the spot, or the whole stack.                *)
LEMMA UndoRemembers ==
  ASSUME MemoryInv, NEW p \in Procs,
         \/ RestoreStore(p) \/ RestoreStoreFails(p) \/ UndoOK(p) \/ UndoFails(p)
  PROVE  \A q \in Procs : Remembers(q)'
<1>1. disk \in Disk /\ before[p] \in Disk
  BY DEF MemoryInv, TypeOK, Prepared, InFlight, RestoreStore,
         RestoreStoreFails, UndoOK, UndoFails
<1>2. CASE RestoreStore(p) \/ RestoreStoreFails(p)
  <2>1. pc[p] = "restore" /\ pc[p] \in Working /\ mem[p] = disk.state
    BY <1>2 DEF MemoryInv, Remembers, RestoreStore, RestoreStoreFails, Working,
                InFlight
  <2>2. disk'.state = disk.state
    BY <1>1, <1>2, StoreState DEF RestoreStore, RestoreStoreFails
  <2>3. UNCHANGED <<mem, kind>>
    BY <1>2 DEF RestoreStore, RestoreStoreFails, job
  <2>4. \E x \in {"done", "batch", "undo"} : pc' = [pc EXCEPT ![p] = x]
    BY <1>2 DEF RestoreStore, RestoreStoreFails, Continuation, Unwinding
  <2>5. Remembers(p)'
    BY <2>1, <2>2, <2>3, <2>4 DEF Remembers, MemoryInv, TypeOK
  <2>6. QED
    BY <2>1, <2>4, <2>5, Alone
<1>3. CASE UndoOK(p) \/ UndoFails(p)
  <2>1. /\ pc[p] = "undo" /\ pc[p] \in Working
        /\ stack[p] \in Seq(Rollback) /\ stack[p] # <<>>
        /\ kind[p] \in KeepsMemory => mem[p] = disk.state
    BY <1>3 DEF MemoryInv, TypeOK, Remembers, Prepared, UndoOK, UndoFails, Working,
                InFlight
  <2>2. Head(stack[p]) \in Rollback
    BY <2>1
  <2>3. kind[p] \in KeepsMemory => disk'.state = disk.state
    BY <1>1, <1>3, <2>2, UndoState DEF UndoOK, UndoFails
  <2>4. Unwind(p) /\ UNCHANGED kind
    BY <1>3 DEF UndoOK, UndoFails, Unwind
  <2>5. CASE Tail(stack[p]) # <<>>
    <3>1. UNCHANGED <<pc, mem>>
      BY <2>4, <2>5 DEF Unwind
    <3>2. Remembers(p)'
      BY <2>1, <2>3, <2>4, <3>1 DEF Remembers
    <3>3. pc' = [pc EXCEPT ![p] = "undo"]
      BY <2>1, <3>1 DEF MemoryInv, TypeOK
    <3>4. QED
      BY <2>1, <3>2, <3>3, Alone
  <2>6. CASE Tail(stack[p]) = <<>>
    <3>1. /\ pc' = [pc EXCEPT ![p] = "done"]
          /\ mem' = [mem EXCEPT ![p] = IF kind[p] \in KeepsMemory
                                       THEN @ ELSE disk'.state]
      BY <2>4, <2>6 DEF Unwind
    <3>2. mem'[p] = disk'.state
      BY <2>1, <2>3, <3>1 DEF MemoryInv, TypeOK
    <3>3. Remembers(p)'
      BY <3>1, <3>2 DEF Remembers, MemoryInv, TypeOK
    <3>4. QED
      BY <2>1, <3>1, <3>3, Alone
  <2>7. QED
    BY <2>5, <2>6
<1>4. QED
  BY <1>2, <1>3

LEMMA MemoryStep == MemoryInv /\ [Next]_vars => MemoryInv'
<1> SUFFICES ASSUME MemoryInv, [Next]_vars PROVE MemoryInv'
  OBVIOUS
<1>1. \A q \in Procs : Remembers(q)'
  <2>1. CASE UNCHANGED vars
    BY <2>1 DEF vars, MemoryInv, Remembers, Saves
  <2>2. ASSUME NEW p \in Procs,
               Request(p) \/ Cancel(p) \/ Acquire(p) \/ Work(p) \/ Crash(p)
        PROVE  \A q \in Procs : Remembers(q)'
    BY <2>2, StartRemembers, LockRemembers, RunRemembers, UndoRemembers DEF Work
  <2>3. QED
    BY <2>1, <2>2 DEF Next
<1>2. TypeOK' /\ Exclusive'
  BY TypesStep, LockStep DEF MemoryInv, LockInv, TypeOK
<1>3. QED
  BY <1>1, <1>2 DEF MemoryInv

LEMMA QuietRemembers == disk \in Disk /\ Quiet => MemoryInv
<1>1. Quiet => Exclusive /\ \A p \in Procs : Remembers(p)
  BY DEF Quiet, Exclusive, Working, InFlight, Remembers
<1>2. QED
  BY <1>1, QuietTypes DEF MemoryInv

-----------------------------------------------------------------------------
(* "a waiting process cannot overwrite a newer operation with stale        *)
(* memory": from its reload to its end, through failures and rollbacks,    *)
(* an operation works with the managed state that is in the file.          *)
THEOREM MemoryIsFresh == Spec => []FreshMemory
<1>1. MemoryInv => FreshMemory
  BY DEF MemoryInv, Remembers, FreshMemory
<1>2. Init => MemoryInv
  BY FreshTypes, QuietRemembers DEF Init
<1>3. QED
  BY <1>1, <1>2, MemoryStep, PTL DEF Spec

-----------------------------------------------------------------------------
(* What is left of a rollback stack brings the disk back.                  *)

(* The parts of the disk that a stack of rollback entries puts back, and   *)
(* the disks an operation may leave when it was undone: the captured one,  *)
(* its service possibly restarted on the captured file.                    *)
Cover(k, r)   == IF r = "files" THEN CapturedFiles(k) ELSE {r}
PartsOf(k, s) == UNION {Cover(k, s[i]) : i \in 1 .. Len(s)}
Parts(p)      == PartsOf(kind[p], stack[p])
Undone(b)     == {b, [b EXCEPT !.running = Reloaded(b, b.installed)]}

(* The captured disk b as an argument: Restored(d, p, J) for any state.    *)
Back(d, b, p, J) ==
  [state     |-> IF "state" \in J THEN b.state ELSE d.state,
   active    |-> IF "store" \in J THEN b.active ELSE d.active,
   content   |-> IF "store" \in J THEN b.content ELSE d.content,
   installed |-> IF "config" \in J THEN b.installed ELSE d.installed,
   running   |-> IF "config" \in J THEN Reloaded(d, b.installed) ELSE d.running,
   public    |-> IF "public" \in J THEN b.public ELSE d.public,
   client    |-> IF "client" \in J THEN [d.client EXCEPT ![p] = b.client[p]]
                                   ELSE d.client]

(* The part of the disk an elementary step writes; apply brings its own    *)
(* rollback entry, and a service command has none.                         *)
ServiceSteps == {"start", "stop", "restart"}
Touched(s) ==
  CASE s.do \in {"import", "add", "commit", "use", "remove"} -> {"store"}
    [] s.do = "save"   -> {"state"}
    [] s.do = "client" -> {"client"}
    [] s.do = "public" -> {"public"}
    [] OTHER           -> {}

Safe(steps, J) ==
  \A i \in 1 .. Len(steps) :
    steps[i].do \notin ServiceSteps /\ Touched(steps[i]) \subseteq J
Captured(k, guards, steps) ==
  IF guards = <<>> THEN Len(steps) = 1 /\ steps[1].do \in ServiceSteps
                   ELSE Safe(steps, PartsOf(k, guards))

(* Before an operation takes a step it captured what the step writes.      *)
Guarded(p) ==
  /\ ~rberr[p]
  /\ kind[p] = "update" => "store" \in Parts(p)
  /\ Captured(kind[p], stack[p], todo[p])

(* Only an update has batches; and unless a rollback failed, what is still *)
(* on the stack undoes everything.                                         *)
Recoverable(p) ==
  /\ pc[p] \in {"batch", "run", "restore"} /\ queue[p] # <<>> => kind[p] = "update"
  /\ pc[p] = "run" => Guarded(p)
  /\ pc[p] = "restore" => "store" \in Parts(p)
  /\ pc[p] \in InFlight /\ ~rberr[p] => 
       Back(disk, before[p], p, Parts(p)) \in Undone(before[p])

RollbackInv == TypeOK /\ Exclusive /\ \A p \in Procs : Recoverable(p)

-----------------------------------------------------------------------------
(* Putting parts back.                                                     *)
LEMMA ConfigTypes == Stopped \notin Config
BY StoppedAssumption DEF Config, Settings, Present, Absent

LEMMA DiskFields ==
  ASSUME NEW d \in Disk
  PROVE  /\ d.state \in State \cup {NoState} /\ d.active \in Profiles \cup {NoProfile}
         /\ d.content \in [Profiles -> Present]
         /\ d.installed \in Config /\ d.installed # Stopped
         /\ d.running \in Config \cup {Stopped}
         /\ d.public \in Public \cup {NoPublic}
         /\ d.client \in [Procs -> Client \cup {NoClient}]
         /\ d = [state |-> d.state, active |-> d.active, content |-> d.content,
                 installed |-> d.installed, running |-> d.running,
                 public |-> d.public, client |-> d.client]
BY ConfigTypes DEF Disk

(* Two disks are the same when their seven parts are.                      *)
LEMMA SameDisk ==
  ASSUME NEW d \in Disk, NEW e \in Disk,
         d.state = e.state, d.active = e.active, d.content = e.content,
         d.installed = e.installed, d.running = e.running,
         d.public = e.public, d.client = e.client
  PROVE  d = e
BY DEF Disk

LEMMA BackIs ==
  ASSUME NEW p \in Procs
  PROVE  /\ \A d, J : Restored(d, p, J) = Back(d, before[p], p, J)
         /\ \A r : Covers(p, r) = Cover(kind[p], r)
BY DEF Restored, Back, Covers, Cover

LEMMA BackType ==
  ASSUME NEW d \in Disk, NEW b \in Disk, NEW p \in Procs, NEW J
  PROVE  Back(d, b, p, J) \in Disk
BY DEF Back, Reloaded, Disk

(* Rolling back in two goes is rolling back at once.                       *)
LEMMA RestoredTwice ==
  ASSUME NEW d \in Disk, NEW p \in Procs, NEW b \in Disk, NEW J, NEW K
  PROVE  Back(Back(d, b, p, J), b, p, K) = Back(d, b, p, J \cup K)
<1> DEFINE e == Back(d, b, p, J)
<1>1. b.installed # Stopped /\ d.client \in [Procs -> Client \cup {NoClient}]
  BY DiskFields
<1>2. e.running = Stopped <=> d.running = Stopped
  BY <1>1 DEF Back, Reloaded
<1>3. Reloaded(e, b.installed) = Reloaded(d, b.installed)
  BY <1>2 DEF Reloaded
<1>4. /\ e.state = IF "state" \in J THEN b.state ELSE d.state
      /\ e.active = IF "store" \in J THEN b.active ELSE d.active
      /\ e.content = IF "store" \in J THEN b.content ELSE d.content
      /\ e.installed = IF "config" \in J THEN b.installed ELSE d.installed
      /\ e.running = IF "config" \in J THEN Reloaded(d, b.installed) ELSE d.running
      /\ e.public = IF "public" \in J THEN b.public ELSE d.public
      /\ e.client = IF "client" \in J THEN [d.client EXCEPT ![p] = b.client[p]]
                                      ELSE d.client
  BY DEF Back
<1>5. [e.client EXCEPT ![p] = b.client[p]] = [d.client EXCEPT ![p] = b.client[p]]
  BY <1>1, <1>4
<1> HIDE DEF e
<1>6. Back(e, b, p, K) = Back(d, b, p, J \cup K)
  BY <1>3, <1>4, <1>5 DEF Back
<1>7. QED
  BY <1>6 DEF e

LEMMA RestoredNothing ==
  ASSUME NEW d \in Disk, NEW b \in Disk, NEW p \in Procs
  PROVE  Back(d, b, p, {}) = d
BY DEF Back, Disk

(* Putting parts back does not see what happened to them.                  *)
LEMMA RestoredOver ==
  ASSUME NEW d \in Disk, NEW e \in Disk, NEW p \in Procs, NEW b \in Disk, NEW J,
         "state" \notin J => e.state = d.state,
         "store" \notin J => e.active = d.active /\ e.content = d.content,
         e.installed = d.installed, e.running = d.running,
         "public" \notin J => e.public = d.public,
         "client" \notin J => e.client = d.client,
         \A q \in Procs \ {p} : e.client[q] = d.client[q]
  PROVE  Back(e, b, p, J) = Back(d, b, p, J)
<1>1. Reloaded(e, b.installed) = Reloaded(d, b.installed)
  BY DEF Reloaded
<1>2. [e.client EXCEPT ![p] = b.client[p]] = [d.client EXCEPT ![p] = b.client[p]]
  BY DiskFields
<1>3. QED
  BY <1>1, <1>2 DEF Back

(* A step that writes captured parts, cut short or not, changes nothing of *)
(* what the rollback gives.                                                *)
LEMMA TouchedRestored ==
  ASSUME NEW d \in Disk, NEW p \in Procs, NEW b \in Disk, NEW J,
         local[p] \in State, todo[p] \in Seq(Step), todo[p] # <<>>,
         Head(todo[p]).do \notin ServiceSteps \cup {"apply"},
         Touched(Head(todo[p])) \subseteq J,
         NEW e \in CutShort(p, d) \cup {Effect(p, d)}
  PROVE  Back(e, b, p, J) = Back(d, b, p, J)
<1> DEFINE s == Head(todo[p])
           f == Effect(p, d)
<1>1. f \in Disk /\ e \in Disk /\ s \in Step
  BY EffectType, CutShortType
<1>2. s.do \in {"import", "add"} =>
        e \in {d, f, [d EXCEPT !.active = f.active]}
  BY DEF CutShort
<1>3. s.do \notin {"import", "add"} => e \in {d, f}
  BY DEF CutShort, ServiceSteps
<1>4. CASE s.do \in {"import", "add"}
  <2>1. f = WriteProfile(d, s.prof, s.ver) /\ "store" \in J
    BY <1>4 DEF Effect, Touched
  <2>2. /\ e.state = d.state /\ e.installed = d.installed /\ e.running = d.running
        /\ e.public = d.public /\ e.client = d.client
    BY <1>1, <1>2, <1>4, <2>1 DEF WriteProfile, Disk
  <2>3. QED
    BY <1>1, <2>1, <2>2, RestoredOver
<1>5. CASE s.do \in {"commit", "remove", "use"}
  <2>1. /\ f \in {CommitProfile(d, s.prof, s.ver), DropProfile(d, s.prof),
                  ActivateProfile(d, s.prof)}
        /\ "store" \in J
    BY <1>5 DEF Effect, Touched
  <2>2. /\ e.state = d.state /\ e.installed = d.installed /\ e.running = d.running
        /\ e.public = d.public /\ e.client = d.client
    BY <1>1, <1>3, <1>5, <2>1 DEF CommitProfile, DropProfile, ActivateProfile, Disk
  <2>3. QED
    BY <1>1, <2>1, <2>2, RestoredOver
<1>6. CASE s.do = "save"
  <2>1. f = WriteState(d, local[p]) /\ "state" \in J
    BY <1>6 DEF Effect, Touched
  <2>2. /\ e.active = d.active /\ e.content = d.content /\ e.installed = d.installed
        /\ e.running = d.running /\ e.public = d.public /\ e.client = d.client
    BY <1>1, <1>3, <1>6, <2>1 DEF WriteState, Disk
  <2>3. QED
    BY <1>1, <2>1, <2>2, RestoredOver
<1>7. CASE s.do = "client"
  <2>1. f = WriteClient(d, p, local[p], s.prof) /\ "client" \in J
    BY <1>7 DEF Effect, Touched
  <2>2. /\ e.state = d.state /\ e.active = d.active /\ e.content = d.content
        /\ e.installed = d.installed /\ e.running = d.running /\ e.public = d.public
        /\ \A q \in Procs \ {p} : e.client[q] = d.client[q]
    BY <1>1, <1>3, <1>7, <2>1 DEF WriteClient, Disk
  <2>3. QED
    BY <1>1, <2>1, <2>2, RestoredOver
<1>8. CASE s.do = "public"
  <2>1. f = WritePublic(d) /\ "public" \in J
    BY <1>8 DEF Effect, Touched
  <2>2. /\ e.state = d.state /\ e.active = d.active /\ e.content = d.content
        /\ e.installed = d.installed /\ e.running = d.running /\ e.client = d.client
    BY <1>1, <1>3, <1>8, <2>1 DEF WritePublic, Disk
  <2>3. QED
    BY <1>1, <2>1, <2>2, RestoredOver
<1>9. CASE s.do = "remember"
  BY <1>3, <1>9 DEF Effect
<1>10. QED
  BY <1>1, <1>4, <1>5, <1>6, <1>7, <1>8, <1>9 DEF Step, ServiceSteps

(* Apply captured the Mihomo file it replaces; one that fails leaves at    *)
(* most a restarted service.                                               *)
LEMMA AppliedRestored ==
  ASSUME NEW d \in Disk, NEW p \in Procs, NEW b \in Disk, NEW J,
         NEW cfg \in Config, Back(d, b, p, J) \in Undone(b)
  PROVE  /\ Back(InstallConfig(d, cfg), b, p, {"config"} \cup J) \in Undone(b)
         /\ Back([d EXCEPT !.running = Reloaded(d, d.installed)], b, p, J)
              \in Undone(b)
<1> DEFINE u == [b EXCEPT !.running = Reloaded(b, b.installed)]
           r == Back(d, b, p, J)
<1>1. /\ b.installed # Stopped /\ cfg # Stopped /\ d.installed # Stopped
      /\ d.client \in [Procs -> Client \cup {NoClient}]
  BY DiskFields, ConfigTypes
<1>2. b \in Disk /\ u \in Disk /\ r \in Disk /\ r \in {b, u}
  BY BackType DEF Undone, Reloaded, Disk
<1>3. /\ u.state = b.state /\ u.active = b.active /\ u.content = b.content
      /\ u.installed = b.installed /\ u.running = Reloaded(b, b.installed)
      /\ u.public = b.public /\ u.client = b.client
  BY DEF Disk
<1>4. /\ r.state = b.state /\ r.active = b.active /\ r.content = b.content
      /\ r.installed = b.installed /\ r.public = b.public /\ r.client = b.client
      /\ r.running \in {b.running, Reloaded(b, b.installed)}
  BY <1>2, <1>3
<1>5. d.running = Stopped <=> b.running = Stopped
  BY <1>1, <1>4 DEF Back, Reloaded
<1>6. ASSUME NEW e \in Disk, e.state = b.state, e.active = b.active,
             e.content = b.content, e.installed = b.installed,
             e.public = b.public, e.client = b.client,
             e.running \in {b.running, Reloaded(b, b.installed)}
      PROVE  e \in Undone(b)
  <2>1. CASE e.running = b.running
    BY <1>2, <1>6, <2>1, SameDisk DEF Undone
  <2>2. CASE e.running = Reloaded(b, b.installed)
    <3> HIDE DEF u
    <3>1. e = u
      BY <1>2, <1>3, <1>6, <2>2, SameDisk
    <3>2. QED
      BY <3>1 DEF Undone, u
  <2>3. QED
    BY <1>6, <2>1, <2>2
<1>7. Back(InstallConfig(d, cfg), b, p, {"config"} \cup J) \in Undone(b)
  <2> DEFINE i == InstallConfig(d, cfg)
             e == Back(i, b, p, {"config"} \cup J)
  <2>1. i \in Disk /\ i.running = Reloaded(d, cfg)
        /\ i.state = d.state /\ i.active = d.active /\ i.content = d.content
        /\ i.public = d.public /\ i.client = d.client
    BY DEF InstallConfig, Reloaded, Disk
  <2>2. Reloaded(i, b.installed) = Reloaded(b, b.installed)
    BY <1>1, <1>5, <2>1 DEF Reloaded
  <2>3. e \in Disk
    BY <2>1, BackType
  <2>4. /\ e.state = r.state /\ e.active = r.active /\ e.content = r.content
        /\ e.public = r.public /\ e.client = r.client
        /\ e.installed = b.installed /\ e.running = Reloaded(i, b.installed)
    BY <2>1 DEF Back
  <2>5. QED
    BY <1>4, <1>6, <2>2, <2>3, <2>4
<1>8. Back([d EXCEPT !.running = Reloaded(d, d.installed)], b, p, J) \in Undone(b)
  <2> DEFINE i == [d EXCEPT !.running = Reloaded(d, d.installed)]
             e == Back(i, b, p, J)
  <2>1. i \in Disk /\ i.running = Reloaded(d, d.installed)
        /\ i.state = d.state /\ i.active = d.active /\ i.content = d.content
        /\ i.installed = d.installed
        /\ i.public = d.public /\ i.client = d.client
    BY DEF Reloaded, Disk
  <2>2. e \in Disk
    BY <2>1, BackType
  <2>3. Reloaded(i, b.installed) = Reloaded(b, b.installed)
    BY <1>1, <1>5, <2>1 DEF Reloaded
  <2>4. "config" \notin J => Reloaded(d, d.installed) = Reloaded(b, b.installed)
    <3>1. "config" \notin J => r.installed = d.installed
      BY DEF Back
    <3>2. QED
      BY <1>4, <1>5, <3>1 DEF Reloaded
  <2>5. /\ e.state = r.state /\ e.active = r.active /\ e.content = r.content
        /\ e.public = r.public /\ e.client = r.client
        /\ e.installed = r.installed
        /\ e.running = Reloaded(b, b.installed)
    BY <2>1, <2>3, <2>4 DEF Back
  <2>6. QED
    BY <1>4, <1>6, <2>2, <2>5
<1>9. QED
  BY <1>7, <1>8

(* The parts a stack covers, entry by entry.                               *)
LEMMA PartsPop ==
  ASSUME NEW k, NEW s \in Seq(Rollback), s # <<>>
  PROVE  PartsOf(k, s) = Cover(k, Head(s)) \cup PartsOf(k, Tail(s))
<1>1. \A i \in 1 .. Len(s) : i = 1 \/ (i - 1 \in 1 .. Len(Tail(s)) /\ s[i] = Tail(s)[i - 1])
  OBVIOUS
<1>2. \A i \in 1 .. Len(Tail(s)) : i + 1 \in 1 .. Len(s) /\ Tail(s)[i] = s[i + 1]
  OBVIOUS
<1>3. 1 \in 1 .. Len(s) /\ Head(s) = s[1]
  OBVIOUS
<1> DEFINE C(r) == Cover(k, r)
<1> HIDE DEF C
<1>4. UNION {C(s[i]) : i \in 1 .. Len(s)}
        = C(Head(s)) \cup UNION {C(Tail(s)[i]) : i \in 1 .. Len(Tail(s))}
  BY <1>1, <1>2, <1>3
<1>5. QED
  BY <1>4 DEF PartsOf, C

LEMMA PartsPush ==
  ASSUME NEW k, NEW s \in Seq(Rollback), NEW r \in Rollback
  PROVE  PartsOf(k, <<r>> \o s) = Cover(k, r) \cup PartsOf(k, s)
<1>1. /\ <<r>> \o s \in Seq(Rollback) /\ <<r>> \o s # <<>>
      /\ Head(<<r>> \o s) = r /\ Tail(<<r>> \o s) = s
  OBVIOUS
<1>2. QED
  BY <1>1, PartsPop

LEMMA StartParts ==
  ASSUME NEW k
  PROVE  /\ PartsOf(k, <<>>) = {}
         /\ PartsOf(k, <<"files">>) = CapturedFiles(k)
         /\ PartsOf(k, <<"store", "files">>) = {"store"} \cup CapturedFiles(k)
<1>1. PartsOf(k, <<>>) = {}
  BY DEF PartsOf
<1>2. <<"files">> \in Seq(Rollback) /\ Head(<<"files">>) = "files"
      /\ Tail(<<"files">>) = <<>> /\ <<"files">> # <<>>
  BY DEF Rollback
<1>3. PartsOf(k, <<"files">>) = CapturedFiles(k)
  BY <1>1, <1>2, PartsPop DEF Cover
<1>4. <<"store", "files">> \in Seq(Rollback) /\ Head(<<"store", "files">>) = "store"
      /\ Tail(<<"store", "files">>) = <<"files">> /\ <<"store", "files">> # <<>>
  BY DEF Rollback
<1>5. PartsOf(k, <<"store", "files">>) = {"store"} \cup CapturedFiles(k)
  <2> DEFINE s == <<"store", "files">>
  <2>1. Cover(k, "store") = {"store"}
    BY DEF Cover
  <2>2. s \in Seq(Rollback) /\ s # <<>> /\ Head(s) = "store" /\ Tail(s) = <<"files">>
    BY <1>4
  <2> HIDE DEF s
  <2>3. PartsOf(k, s) = Cover(k, Head(s)) \cup PartsOf(k, Tail(s))
    BY <2>2, PartsPop
  <2>4. PartsOf(k, s) = {"store"} \cup CapturedFiles(k)
    BY <1>3, <2>1, <2>2, <2>3, Zenon
  <2>5. QED
    BY <2>4 DEF s
<1>6. QED
  BY <1>1, <1>3, <1>5

-----------------------------------------------------------------------------
(* A process that works does so alone.                                     *)
LEMMA OthersWait ==
  ASSUME TypeOK, Exclusive, NEW p \in Procs, pc[p] \in Working,
         NEW x, pc' = [pc EXCEPT ![p] = x]
  PROVE  \A q \in Procs \ {p} : pc'[q] \notin Working
BY DEF TypeOK, Exclusive

LEMMA RecoversAlone ==
  ASSUME RollbackInv, NEW p \in Procs, pc[p] \in Working,
         NEW x, pc' = [pc EXCEPT ![p] = x], Recoverable(p)'
  PROVE  \A q \in Procs : Recoverable(q)'
<1>1. ASSUME NEW q \in Procs, q # p PROVE Recoverable(q)'
  <2>1. pc'[q] \notin Working
    BY <1>1, OthersWait DEF RollbackInv
  <2>2. QED
    BY <2>1 DEF Recoverable, Working, InFlight
<1>2. QED
  BY <1>1

(* Starting: what was captured is the disk as it is.                       *)
LEMMA BackFresh ==
  ASSUME NEW d \in Disk, NEW p \in Procs, NEW J
  PROVE  Back(d, d, p, J) \in Undone(d)
<1>1. d.client = [d.client EXCEPT ![p] = d.client[p]]
  BY DiskFields
<1>2. CASE "config" \in J
  BY <1>1, <1>2 DEF Back, Undone, Disk
<1>3. CASE "config" \notin J
  BY <1>1, <1>3 DEF Back, Undone, Disk
<1>4. QED
  BY <1>2, <1>3

LEMMA SafeConcat ==
  ASSUME NEW J, NEW a \in Seq(Step), NEW b \in Seq(Step), Safe(a, J), Safe(b, J)
  PROVE  Safe(a \o b, J)
BY DEF Safe

LEMMA BeginRecovers ==
  ASSUME RollbackInv, NEW p \in Procs, pc[p] = "ready",
         NEW k, NEW st, NEW guards, NEW steps,
         Begin(p, k, st, guards, steps),
         k # "update", Captured(k, guards, steps)
  PROVE  \A q \in Procs : Recoverable(q)'
<1>1. /\ disk \in Disk /\ disk' = disk /\ pc' = [pc EXCEPT ![p] = "run"]
      /\ kind'[p] = k /\ stack'[p] = guards /\ todo'[p] = steps
      /\ before'[p] = disk /\ rberr'[p] = FALSE /\ pc'[p] = "run"
  BY DEF RollbackInv, TypeOK, Begin
<1>2. Guarded(p)'
  BY <1>1 DEF Guarded
<1>3. (Back(disk, before[p], p, Parts(p)) \in Undone(before[p]))'
  BY <1>1, BackFresh
<1>4. Recoverable(p)'
  BY <1>1, <1>2, <1>3 DEF Recoverable, Begin, RollbackInv, TypeOK
<1>5. QED
  BY <1>1, <1>4, RecoversAlone DEF Working

LEMMA StartRecovers ==
  ASSUME RollbackInv, NEW p \in Procs, Start(p)
  PROVE  \A q \in Procs : Recoverable(q)'
<1> USE DEF Safe, Touched, Do, DoVer, Publish, ServiceSteps
<1> DEFINE full == PartsOf("init", <<"store", "files">>)
<1>1. ASSUME NEW k \in {"init", "add", "use", "remove"}
      PROVE  PartsOf(k, <<"store", "files">>)
               = {"store", "public"}
                 \cup (IF k # "remove" THEN {"client"} ELSE {})
                 \cup (IF k = "init" THEN {"state"} ELSE {})
  BY <1>1, StartParts DEF CapturedFiles
<1>2. ASSUME NEW k \in {"set", "sync-public", "sync-client", "doctor"}
      PROVE  PartsOf(k, <<"files">>)
               = (IF k # "sync-client" THEN {"public"} ELSE {})
                 \cup (IF k # "sync-public" THEN {"client"} ELSE {})
                 \cup (IF k = "set" THEN {"state"} ELSE {})
  BY <1>2, StartParts DEF CapturedFiles
<1>3. <<"store", "files">> # <<>> /\ <<"files">> # <<>>
  OBVIOUS
<1>4. CASE StartInitialize(p)
  <2>1. PICK c \in Controllers :
          LET s == IF mem[p] = NoState THEN disk.installed.settings
                                       ELSE mem[p].settings
              import == IF disk.active = NoProfile
                        THEN <<DoVer("import", Sys, 1)>> ELSE <<>>
              q == IF disk.active = NoProfile THEN Sys ELSE disk.active
          IN  Begin(p, "init", [ctl |-> c, settings |-> s], <<"store", "files">>,
                    import \o <<Do("apply", q), Do("save", q), Publish,
                                Do("client", q)>>)
    BY <1>4 DEF StartInitialize
  <2> DEFINE import == IF disk.active = NoProfile
                       THEN <<DoVer("import", Sys, 1)>> ELSE <<>>
             q == IF disk.active = NoProfile THEN Sys ELSE disk.active
             rest == <<Do("apply", q), Do("save", q), Publish, Do("client", q)>>
             J == {"store", "public", "client", "state"}
  <2>2. import \in Seq(Step) /\ rest \in Seq(Step)
    BY StepTypes, VersionTypes, SysAssumption, ReadyType, <1>4
    DEF StartInitialize, RollbackInv
  <2>3. Safe(import, J) /\ Safe(rest, J)
    OBVIOUS
  <2> HIDE DEF import, rest
  <2>4. Safe(import \o rest, J)
    BY <2>2, <2>3, SafeConcat
  <2>5. PartsOf("init", <<"store", "files">>) = J
    BY <1>1
  <2>6. Captured("init", <<"store", "files">>, import \o rest)
    BY <1>3, <2>4, <2>5 DEF Captured
  <2>7. QED
    BY <1>4, <2>1, <2>6, BeginRecovers DEF StartInitialize, import, rest
<1>5. CASE StartChangeSetting(p)
  <2>1. PICK f \in Fields, v \in Values :
          Begin(p, "set", [mem[p] EXCEPT !.settings[f] = v], <<"files">>,
                <<Do("apply", disk.active), Do("save", disk.active),
                  Do("client", disk.active), Publish>>)
    BY <1>5 DEF StartChangeSetting
  <2>2. Captured("set", <<"files">>,
                 <<Do("apply", disk.active), Do("save", disk.active),
                   Do("client", disk.active), Publish>>)
    BY <1>2, <1>3 DEF Captured
  <2>3. QED
    BY <1>5, <2>1, <2>2, BeginRecovers DEF StartChangeSetting
<1>6. CASE StartAddProfile(p)
  <2>1. PICK q \in Profiles \ {Sys, disk.active}, v \in Versions :
          Begin(p, "add", mem[p], <<"store", "files">>,
                <<DoVer("add", q, v)>>
                \o (IF disk.active = NoProfile
                    THEN <<Do("apply", q), Do("client", q)>> ELSE <<>>)
                \o <<Publish>>)
    BY <1>6 DEF StartAddProfile
  <2> DEFINE first == <<DoVer("add", q, v)>>
             apply == IF disk.active = NoProfile
                      THEN <<Do("apply", q), Do("client", q)>> ELSE <<>>
             last  == <<Publish>>
             J == {"store", "public", "client"}
  <2>2. first \in Seq(Step) /\ apply \in Seq(Step) /\ last \in Seq(Step)
    BY StepTypes, VersionTypes
  <2>3. Safe(first, J) /\ Safe(apply, J) /\ Safe(last, J)
    OBVIOUS
  <2>4. Begin(p, "add", mem[p], <<"store", "files">>, first \o apply \o last)
    BY <2>1
  <2> HIDE DEF first, apply, last, Safe
  <2>5. first \o apply \in Seq(Step) /\ Safe(first \o apply, J)
    BY <2>2, <2>3, SafeConcat
  <2>6. Safe(first \o apply \o last, J)
    BY <2>2, <2>3, <2>5, SafeConcat
  <2>7. PartsOf("add", <<"store", "files">>) = J
    BY <1>1
  <2>8. Captured("add", <<"store", "files">>, first \o apply \o last)
    BY <1>3, <2>6, <2>7 DEF Captured
  <2>9. QED
    BY <1>6, <2>4, <2>8, BeginRecovers DEF StartAddProfile
<1>7. CASE StartUseProfile(p)
  <2>1. PICK q \in Profiles \ {disk.active} :
          Begin(p, "use", mem[p], <<"store", "files">>,
                <<Do("remember", disk.active), Do("apply", q), Do("use", q),
                  Publish, Do("client", q)>>)
    BY <1>7 DEF StartUseProfile
  <2>2. Captured("use", <<"store", "files">>,
                 <<Do("remember", disk.active), Do("apply", q), Do("use", q),
                   Publish, Do("client", q)>>)
    BY <1>1, <1>3 DEF Captured
  <2>3. QED
    BY <1>7, <2>1, <2>2, BeginRecovers DEF StartUseProfile
<1>8. CASE StartRemoveProfile(p)
  <2>1. PICK q \in Profiles :
          Begin(p, "remove", mem[p], <<"store", "files">>,
                <<Do("remove", q), Publish>>)
    BY <1>8 DEF StartRemoveProfile
  <2>2. Captured("remove", <<"store", "files">>, <<Do("remove", q), Publish>>)
    BY <1>1, <1>3 DEF Captured
  <2>3. QED
    BY <1>8, <2>1, <2>2, BeginRecovers DEF StartRemoveProfile
<1>9. CASE StartSyncPublic(p)
  <2>1. Captured("sync-public", <<"files">>, <<Publish>>)
    BY <1>2, <1>3 DEF Captured
  <2>2. QED
    BY <1>9, <2>1, BeginRecovers DEF StartSyncPublic
<1>10. CASE StartSyncClient(p)
  <2>1. Captured("sync-client", <<"files">>, <<Do("client", disk.active)>>)
    BY <1>2, <1>3 DEF Captured
  <2>2. QED
    BY <1>10, <2>1, BeginRecovers DEF StartSyncClient
<1>11. CASE StartRepair(p)
  <2>1. Captured("doctor", <<"files">>,
                 <<Do("apply", disk.active), Publish, Do("client", disk.active)>>)
    BY <1>2, <1>3 DEF Captured
  <2>2. QED
    BY <1>11, <2>1, BeginRecovers DEF StartRepair
<1>12. CASE StartService(p)
  <2>1. PICK a \in {"start", "stop", "restart"} :
          Begin(p, "service", mem[p], <<>>, <<Do(a, NoProfile)>>)
    BY <1>12 DEF StartService
  <2>2. Captured("service", <<>>, <<Do(a, NoProfile)>>)
    BY DEF Captured
  <2>3. QED
    BY <1>12, <2>1, <2>2, BeginRecovers DEF StartService
<1>13. CASE StartUpdate(p)
  <2>1. /\ pc[p] = "ready" /\ pc' = [pc EXCEPT ![p] = "batch"]
        /\ pc'[p] = "batch" /\ kind'[p] = "update"
    BY <1>13 DEF StartUpdate, RollbackInv, TypeOK
  <2>2. Recoverable(p)'
    BY <2>1 DEF Recoverable, InFlight
  <2>3. QED
    BY <2>1, <2>2, RecoversAlone DEF Working
<1>14. QED
  BY <1>4, <1>5, <1>6, <1>7, <1>8, <1>9, <1>10, <1>11, <1>12, <1>13 DEF Start

(* The lock and the loop over batches.                                     *)
LEMMA LockRecovers ==
  ASSUME RollbackInv, NEW p \in Procs,
         \/ Request(p) \/ Cancel(p) \/ Acquire(p) \/ Reload(p) \/ Refuse(p)
         \/ NextBatch(p) \/ Release(p) \/ Crash(p)
  PROVE  \A q \in Procs : Recoverable(q)'
<1>1. CASE Request(p) \/ Cancel(p) \/ Acquire(p)
  <2>1. \A q \in Procs : pc'[q] \in InFlight \cup {"batch"} => pc'[q] = pc[q]
    BY <1>1 DEF RollbackInv, TypeOK, Request, Cancel, Acquire, InFlight
  <2>2. UNCHANGED <<disk, job>>
    BY <1>1 DEF Request, Cancel, Acquire
  <2>3. ASSUME NEW q \in Procs PROVE Recoverable(q)'
    <3>1. CASE pc'[q] \in InFlight \cup {"batch"}
      <4>1. Recoverable(q) /\ pc'[q] = pc[q]
        BY <2>1, <3>1 DEF RollbackInv
      <4>2. QED
        BY <2>2, <4>1 DEF Recoverable, job, Guarded, Parts
    <3>2. CASE pc'[q] \notin InFlight \cup {"batch"}
      BY <3>2 DEF Recoverable, InFlight
    <3>3. QED
      BY <3>1, <3>2
  <2>4. QED
    BY <2>3
<1>2. CASE Reload(p) \/ Refuse(p) \/ Release(p) \/ Crash(p)
  <2>1. PICK x \in {"ready", "done", "idle"} : pc' = [pc EXCEPT ![p] = x]
    BY <1>2 DEF Reload, Refuse, Release, Crash
  <2>2. pc[p] \in Working
    BY <1>2 DEF Reload, Refuse, Release, Crash, Working
  <2>3. Recoverable(p)'
    BY <2>1 DEF RollbackInv, TypeOK, Recoverable, InFlight
  <2>4. QED
    BY <2>1, <2>2, <2>3, RecoversAlone
<1>3. CASE NextBatch(p)
  <2> DEFINE guards == <<"store", "files">>
  <2>1. /\ disk \in Disk /\ disk' = disk /\ pc' = [pc EXCEPT ![p] = "run"]
        /\ pc[p] \in Working /\ pc'[p] = "run" /\ kind' = kind
        /\ stack'[p] = guards /\ todo'[p] = Batch(p)
        /\ before'[p] = disk /\ rberr'[p] = FALSE
    BY <1>3 DEF NextBatch, RollbackInv, TypeOK, Batch, Working
  <2>2. kind[p] = "update"
    BY <1>3 DEF NextBatch, RollbackInv, Recoverable, TypeOK, Prepared
  <2>3. PartsOf(kind[p], guards) = {"store", "public"}
    BY <2>2, StartParts DEF CapturedFiles
  <2>4. guards # <<>>
    OBVIOUS
  <2>5. Captured(kind[p], guards, Batch(p))
    BY <1>3, <2>3, <2>4, BatchSaves
    DEF Captured, Safe, Touched, ServiceSteps, RollbackInv
  <2> HIDE DEF guards
  <2>6. Guarded(p)'
    BY <2>1, <2>3, <2>5 DEF Guarded, Parts
  <2>7. (Back(disk, before[p], p, Parts(p)) \in Undone(before[p]))'
    BY <2>1, BackFresh
  <2>8. Recoverable(p)'
    BY <2>1, <2>2, <2>6, <2>7 DEF Recoverable
  <2>9. QED
    BY <2>1, <2>8, RecoversAlone
<1>4. QED
  BY <1>1, <1>2, <1>3

(* Steps that succeed, fail, or break.                                     *)
LEMMA FirstStep ==
  ASSUME NEW t \in Seq(Step), t # <<>>
  PROVE  /\ Head(t) = t[1] /\ Head(t) \in Step /\ 1 \in 1 .. Len(t)
         /\ Tail(t) \in Seq(Step) /\ Len(Tail(t)) = Len(t) - 1
         /\ Len(t) = 1 => Tail(t) = <<>>
<1>1. Head(t) = t[1] /\ Head(t) \in Step /\ 1 \in 1 .. Len(t)
  OBVIOUS
<1>2. Tail(t) \in Seq(Step) /\ Len(Tail(t)) = Len(t) - 1
  OBVIOUS
<1>3. \A r \in Seq(Step) : Len(r) = 0 => r = <<>>
  OBVIOUS
<1>4. QED
  BY <1>1, <1>2, <1>3

LEMMA FollowingSafe ==
  ASSUME NEW p \in Procs, todo[p] \in Seq(Step), todo[p] # <<>>,
         NEW J, Safe(todo[p], J)
  PROVE  Safe(Following(p), J)
<1> DEFINE rest == Tail(todo[p])
<1>1. rest \in Seq(Step) /\ \A j \in 1 .. Len(rest) :
        j + 1 \in 1 .. Len(todo[p]) /\ rest[j] = todo[p][j + 1]
  OBVIOUS
<1>2. Safe(rest, J)
  BY <1>1 DEF Safe
<1>3. CASE Following(p) = rest
  BY <1>2, <1>3
<1>4. CASE Following(p) # rest
  <2> DEFINE apply == Do("apply", Head(todo[p]).prof)
  <2>1. Following(p) = <<apply>> \o rest
    BY <1>4 DEF Following
  <2>2. apply.do \notin ServiceSteps /\ Touched(apply) = {}
    BY DEF Do, Touched, ServiceSteps
  <2> HIDE DEF apply, rest
  <2>3. \A i \in 1 .. Len(<<apply>> \o rest) :
          \/ i = 1 /\ (<<apply>> \o rest)[i] = apply
          \/ i - 1 \in 1 .. Len(rest) /\ (<<apply>> \o rest)[i] = rest[i - 1]
    BY <1>1
  <2>4. Safe(<<apply>> \o rest, J)
    BY <1>2, <2>2, <2>3 DEF Safe
  <2>5. QED
    BY <2>1, <2>4
<1>5. QED
  BY <1>3, <1>4

LEMMA RunRecovers ==
  ASSUME RollbackInv, NEW p \in Procs,
         StepOK(p) \/ StepFails(p) \/ ApplyFails(p) \/ ApplyBreaks(p)
  PROVE  \A q \in Procs : Recoverable(q)'
<1> DEFINE s == Head(todo[p])
           b == before[p]
           J == Parts(p)
<1>1. /\ pc[p] = "run" /\ pc[p] \in Working
      /\ disk \in Disk /\ local[p] \in State /\ b \in Disk
      /\ todo[p] \in Seq(Step) /\ todo[p] # <<>>
      /\ stack[p] \in Seq(Rollback)
      /\ Guarded(p) /\ Back(disk, b, p, J) \in Undone(b)
  <2>1. pc[p] = "run"
    BY DEF StepOK, StepFails, ApplyFails, ApplyBreaks
  <2>2. Recoverable(p) /\ Prepared(p)
    BY DEF RollbackInv, TypeOK
  <2>3. Guarded(p) /\ ~rberr[p]
    BY <2>1, <2>2 DEF Recoverable, Guarded
  <2>4. Back(disk, b, p, J) \in Undone(b)
    BY <2>1, <2>2, <2>3 DEF Recoverable, InFlight
  <2>5. QED
    BY <2>1, <2>2, <2>3, <2>4 DEF RollbackInv, TypeOK, Prepared, InFlight, Working
<1>2. /\ s = todo[p][1] /\ s \in Step /\ 1 \in 1 .. Len(todo[p])
      /\ Len(todo[p]) = 1 => Tail(todo[p]) = <<>>
  BY <1>1, FirstStep
<1>3. stack[p] = <<>> => s.do \in ServiceSteps /\ Len(todo[p]) = 1
  BY <1>1, <1>2 DEF Guarded, Captured
<1>4. stack[p] # <<>> =>
        /\ s.do \notin ServiceSteps /\ Touched(s) \subseteq J
        /\ Safe(todo[p], J)
  BY <1>1, <1>2 DEF Guarded, Captured, Safe, Parts
<1>5. CASE StepOK(p)
  <2>1. PICK x \in {"run", "done", "batch"} :
          pc' = [pc EXCEPT ![p] = x] /\ (x = "run" => todo'[p] # <<>>)
    <3>1. pc = [pc EXCEPT ![p] = "run"]
      BY <1>1 DEF RollbackInv, TypeOK
    <3>2. QED
      BY <1>5, <3>1 DEF StepOK, Continuation
  <2>2. /\ UNCHANGED <<kind, queue, before, rberr>> /\ disk' = Effect(p, disk)
        /\ todo'[p] = Following(p)
        /\ stack'[p] = IF s.do = "apply" THEN <<"config">> \o stack[p] ELSE stack[p]
    BY <1>5 DEF StepOK, RollbackInv, TypeOK
  <2>3. CASE x # "run"
    <3>1. Recoverable(p)'
      BY <1>1, <2>1, <2>2, <2>3 DEF Recoverable, RollbackInv, TypeOK, InFlight
    <3>2. QED
      BY <1>1, <2>1, <3>1, RecoversAlone
  <2>4. CASE x = "run"
    <3> DEFINE K == PartsOf(kind[p], stack'[p])
    <3>1. stack[p] # <<>>
      <4>1. CASE stack[p] = <<>>
        <5>1. Following(p) = Tail(todo[p])
          BY <1>3, <4>1 DEF Following, ServiceSteps
        <5>2. QED
          BY <1>2, <1>3, <2>1, <2>2, <2>4, <4>1, <5>1
      <4>2. QED
        BY <4>1
    <3>2. /\ K = (IF s.do = "apply" THEN {"config"} \cup J ELSE J)
          /\ stack'[p] # <<>>
      <4>1. CASE s.do = "apply"
        <5>1. "config" \in Rollback /\ Cover(kind[p], "config") = {"config"}
          BY DEF Rollback, Cover
        <5>2. stack'[p] = <<"config">> \o stack[p]
          BY <2>2, <4>1
        <5>3. <<"config">> \o stack[p] # <<>>
          BY <1>1, <5>1
        <5>4. PartsOf(kind[p], <<"config">> \o stack[p]) = {"config"} \cup J
          BY <1>1, <5>1, PartsPush DEF Parts
        <5>5. QED
          BY <4>1, <5>2, <5>3, <5>4
      <4>2. CASE s.do # "apply"
        BY <2>2, <3>1, <4>2 DEF Parts
      <4>3. QED
        BY <4>1, <4>2
    <3>3. Safe(Following(p), K)
      <4>1. Safe(Following(p), J) /\ J \subseteq K
        BY <1>1, <1>4, <3>1, <3>2, FollowingSafe
      <4>2. QED
        BY <4>1 DEF Safe
    <3>4. Guarded(p)'
      BY <1>1, <2>2, <3>2, <3>3 DEF Guarded, Captured, Parts
    <3>5. Back(Effect(p, disk), b, p, K) \in Undone(b)
      <4>1. CASE s.do = "apply"
        <5>1. Effect(p, disk) = InstallConfig(disk, Applied(p, disk))
              /\ Applied(p, disk) \in Config
          BY <1>1, <4>1, EffectType DEF Effect
        <5>2. QED
          BY <1>1, <3>2, <4>1, <5>1, AppliedRestored
      <4>2. CASE s.do # "apply"
        <5>1. Back(Effect(p, disk), b, p, J) = Back(disk, b, p, J)
          BY <1>1, <1>4, <3>1, <4>2, TouchedRestored
        <5>2. QED
          BY <1>1, <3>2, <4>2, <5>1
      <4>3. QED
        BY <4>1, <4>2
    <3>6. pc'[p] = "run"
      BY <2>1, <2>4 DEF RollbackInv, TypeOK
    <3>7. Recoverable(p)'
      BY <1>1, <2>2, <3>4, <3>5, <3>6 DEF Recoverable, Parts, RollbackInv
    <3>8. QED
      BY <1>1, <2>1, <3>7, RecoversAlone
  <2>5. QED
    BY <2>3, <2>4
<1>6. CASE StepFails(p)
  <2>1. /\ s.do # "apply" /\ disk' \in CutShort(p, disk)
        /\ UNCHANGED <<kind, queue, todo, stack, before, rberr>>
        /\ pc' = [pc EXCEPT ![p] = Unwinding(p)] /\ pc'[p] = Unwinding(p)
    BY <1>6 DEF StepFails, job, RollbackInv, TypeOK
  <2>2. stack[p] # <<>> => Back(disk', b, p, J) = Back(disk, b, p, J)
    BY <1>1, <1>4, <2>1, TouchedRestored
  <2>3. Recoverable(p)'
    BY <1>1, <2>1, <2>2 DEF Recoverable, Unwinding, Parts, InFlight
  <2>4. QED
    BY <1>1, <2>1, <2>3, RecoversAlone
<1>7. CASE ApplyFails(p)
  <2>1. /\ s.do = "apply"
        /\ disk' \in {disk, [disk EXCEPT !.running = Reloaded(disk, disk.installed)]}
        /\ UNCHANGED <<kind, queue, todo, stack, before, rberr>>
    BY <1>7 DEF ApplyFails, job
  <2>2. PICK x \in {"done", "restore", "undo"} :
          /\ pc' = [pc EXCEPT ![p] = x] /\ pc'[p] = x
          /\ x = "restore" => kind[p] = "update"
    BY <1>7 DEF ApplyFails, Unwinding, RollbackInv, TypeOK
  <2>3. Applied(p, disk) \in Config
    BY <1>1, <2>1, EffectType
  <2>4. Back(disk', b, p, J) \in Undone(b)
    BY <1>1, <2>1, <2>3, AppliedRestored
  <2>5. Recoverable(p)'
    BY <1>1, <2>1, <2>2, <2>4 DEF Recoverable, Parts, Guarded, RollbackInv
  <2>6. QED
    BY <1>1, <2>2, <2>5, RecoversAlone
<1>8. CASE ApplyBreaks(p)
  <2>1. PICK x \in {"done", "undo"} : pc' = [pc EXCEPT ![p] = x] /\ pc'[p] = x
    BY <1>8 DEF ApplyBreaks, Unwinding, RollbackInv, TypeOK
  <2>2. rberr'[p] = TRUE
    BY <1>8 DEF ApplyBreaks, RollbackInv, TypeOK
  <2>3. Recoverable(p)'
    BY <2>1, <2>2 DEF Recoverable
  <2>4. QED
    BY <1>1, <2>1, <2>3, RecoversAlone
<1>9. QED
  BY <1>5, <1>6, <1>7, <1>8

(* Rolling back: the store on the spot, or the whole stack.                *)
LEMMA StoreRestored ==
  ASSUME NEW d \in Disk, NEW p \in Procs, before[p] \in Disk, NEW J,
         "store" \in J, NEW e \in HalfRestored(d, p, "store")
  PROVE  Back(e, before[p], p, J) = Back(d, before[p], p, J)
<1>1. e \in Disk
  BY HalfRestoredType DEF Rollback
<1>2. CASE e \in DocumentsRestored(d, p)
  <2>1. /\ e.state = d.state /\ e.installed = d.installed /\ e.running = d.running
        /\ e.public = d.public /\ e.client = d.client
    BY <1>2 DEF DocumentsRestored, Disk
  <2>2. QED
    BY <1>1, <2>1, RestoredOver
<1>3. CASE e = Restored(d, p, {"store"})
  <2>1. e = Back(d, before[p], p, {"store"}) /\ {"store"} \cup J = J
    BY <1>3, BackIs
  <2>2. QED
    BY <2>1, RestoredTwice
<1>4. QED
  BY <1>2, <1>3 DEF HalfRestored

(* Undoing the newest entry leaves to the rest of the stack what it covers. *)
LEMMA UndoneByRest ==
  ASSUME RollbackInv, NEW p \in Procs, UndoOK(p), ~rberr[p]
  PROVE  Back(disk', before[p], p, PartsOf(kind[p], Tail(stack[p])))
           \in Undone(before[p])
<1> DEFINE b == before[p]
           C == Cover(kind[p], Head(stack[p]))
           K == PartsOf(kind[p], Tail(stack[p]))
<1>1. /\ disk \in Disk /\ b \in Disk
      /\ stack[p] \in Seq(Rollback) /\ stack[p] # <<>>
  BY DEF RollbackInv, TypeOK, Prepared, InFlight, UndoOK
<1>2. Back(disk, b, p, Parts(p)) \in Undone(b)
  BY DEF RollbackInv, Recoverable, InFlight, UndoOK
<1>3. disk' = Back(disk, b, p, C)
  BY BackIs DEF UndoOK
<1>4. Parts(p) = C \cup K
  BY <1>1, PartsPop DEF Parts
<1> HIDE DEF b, C, K
<1>5. Back(disk', b, p, K) = Back(disk, b, p, C \cup K)
  BY <1>1, <1>3, RestoredTwice
<1>6. QED
  BY <1>2, <1>4, <1>5 DEF b, K

LEMMA UndoRecovers ==
  ASSUME RollbackInv, NEW p \in Procs,
         \/ RestoreStore(p) \/ RestoreStoreFails(p) \/ UndoOK(p) \/ UndoFails(p)
  PROVE  \A q \in Procs : Recoverable(q)'
<1> DEFINE b == before[p]
           J == Parts(p)
<1>1. disk \in Disk /\ b \in Disk /\ pc[p] \in Working
  BY DEF RollbackInv, TypeOK, Prepared, InFlight, Working,
         RestoreStore, RestoreStoreFails, UndoOK, UndoFails
<1>2. CASE RestoreStore(p)
  <2>1. /\ pc' = [pc EXCEPT ![p] = Continuation(p)] /\ pc'[p] = Continuation(p)
        /\ UNCHANGED <<kind, queue>> /\ pc[p] = "restore"
    BY <1>2 DEF RestoreStore, RollbackInv, TypeOK, job
  <2>2. Recoverable(p)'
    BY <2>1 DEF Continuation, Recoverable, RollbackInv, InFlight
  <2>3. QED
    BY <1>1, <2>1, <2>2, RecoversAlone
<1>3. CASE RestoreStoreFails(p)
  <2>1. /\ pc' = [pc EXCEPT ![p] = Unwinding(p)] /\ pc'[p] \in {"done", "undo"}
        /\ UNCHANGED <<kind, queue, stack, before, rberr>> /\ pc[p] = "restore"
        /\ disk' \in HalfRestored(disk, p, "store")
    BY <1>3 DEF RestoreStoreFails, RollbackInv, TypeOK, job, Unwinding
  <2>2. "store" \in J /\ (~rberr[p] => Back(disk, b, p, J) \in Undone(b))
    BY <2>1 DEF RollbackInv, Recoverable, InFlight
  <2>3. Back(disk', b, p, J) = Back(disk, b, p, J)
    BY <1>1, <2>1, <2>2, StoreRestored
  <2>4. Recoverable(p)'
    BY <2>1, <2>2, <2>3 DEF Recoverable, Parts
  <2>5. QED
    BY <1>1, <2>1, <2>4, RecoversAlone
<1>4. CASE UndoOK(p) \/ UndoFails(p)
  <2>1. /\ Unwind(p) /\ pc[p] = "undo" /\ UNCHANGED <<kind, queue, before>>
        /\ stack'[p] = Tail(stack[p])
    BY <1>4 DEF UndoOK, UndoFails, Unwind, RollbackInv, TypeOK
  <2>2. ~rberr'[p] => UndoOK(p) /\ ~rberr[p]
    BY <1>4 DEF UndoOK, UndoFails, RollbackInv, TypeOK
  <2>3. PICK x \in {"undo", "done"} : pc' = [pc EXCEPT ![p] = x] /\ pc'[p] = x
    <3>1. pc = [pc EXCEPT ![p] = "undo"]
      BY <2>1 DEF RollbackInv, TypeOK
    <3>2. QED
      BY <2>1, <3>1 DEF Unwind, RollbackInv, TypeOK
  <2>4. Recoverable(p)'
    BY <2>1, <2>2, <2>3, UndoneByRest DEF Recoverable, Parts
  <2>5. QED
    BY <1>1, <2>3, <2>4, RecoversAlone
<1>5. QED
  BY <1>2, <1>3, <1>4

LEMMA RollbackStep == RollbackInv /\ [Next]_vars => RollbackInv'
<1> SUFFICES ASSUME RollbackInv, [Next]_vars PROVE RollbackInv'
  OBVIOUS
<1>1. \A q \in Procs : Recoverable(q)'
  <2>1. CASE UNCHANGED vars
    BY <2>1 DEF vars, job, RollbackInv, Recoverable, Guarded, Parts
  <2>2. ASSUME NEW p \in Procs,
               Request(p) \/ Cancel(p) \/ Acquire(p) \/ Work(p) \/ Crash(p)
        PROVE  \A q \in Procs : Recoverable(q)'
    BY <2>2, StartRecovers, LockRecovers, RunRecovers, UndoRecovers DEF Work
  <2>3. QED
    BY <2>1, <2>2 DEF Next
<1>2. TypeOK' /\ Exclusive'
  BY TypesStep, LockStep DEF RollbackInv, LockInv, TypeOK
<1>3. QED
  BY <1>1, <1>2 DEF RollbackInv

LEMMA QuietRecovers == disk \in Disk /\ Quiet => RollbackInv
<1>1. Quiet => Exclusive /\ \A p \in Procs : Recoverable(p)
  BY DEF Quiet, Exclusive, Working, InFlight, Recoverable
<1>2. QED
  BY <1>1, QuietTypes DEF RollbackInv

(* A step moves one process.                                               *)
LEMMA OneMoves ==
  ASSUME TypeOK, NEW q \in Procs,
         Request(q) \/ Cancel(q) \/ Acquire(q) \/ Work(q) \/ Crash(q)
  PROVE  \A p \in Procs \ {q} : pc'[p] = pc[p]
<1>1. CASE Request(q) \/ Cancel(q) \/ Acquire(q) \/ Crash(q)
  BY <1>1 DEF TypeOK, Request, Cancel, Acquire, Crash
<1>2. CASE Reload(q) \/ Refuse(q) \/ Release(q) \/ NextBatch(q)
  BY <1>2 DEF TypeOK, Reload, Refuse, Release, NextBatch
<1>3. CASE Start(q)
  BY <1>3
  DEF TypeOK, Start, Begin, StartInitialize, StartChangeSetting, StartAddProfile,
      StartUseProfile, StartRemoveProfile, StartSyncPublic, StartSyncClient,
      StartRepair, StartService, StartUpdate
<1>4. CASE StepOK(q) \/ StepFails(q) \/ ApplyFails(q) \/ ApplyBreaks(q)
  BY <1>4 DEF TypeOK, StepOK, StepFails, ApplyFails, ApplyBreaks
<1>5. CASE RestoreStore(q) \/ RestoreStoreFails(q) \/ UndoOK(q) \/ UndoFails(q)
  BY <1>5 DEF TypeOK, RestoreStore, RestoreStoreFails, UndoOK, UndoFails, Unwind
<1>6. QED
  BY <1>1, <1>2, <1>3, <1>4, <1>5 DEF Work

(* Once it unwinds, a process does nothing else until it is done or dead.  *)
LEMMA UndoMoves ==
  ASSUME TypeOK, NEW p \in Procs, pc[p] = "undo", pc'[p] # "idle",
         Request(p) \/ Cancel(p) \/ Acquire(p) \/ Work(p) \/ Crash(p)
  PROVE  UndoOK(p) \/ UndoFails(p)
<1>1. ~(Request(p) \/ Cancel(p) \/ Acquire(p) \/ Reload(p) \/ Refuse(p)
        \/ Release(p) \/ NextBatch(p))
  BY DEF Request, Cancel, Acquire, Reload, Refuse, Release, NextBatch
<1>2. ~Start(p)
  BY DEF Start, StartInitialize, StartChangeSetting, StartAddProfile,
         StartUseProfile, StartRemoveProfile, StartSyncPublic, StartSyncClient,
         StartRepair, StartService, StartUpdate
<1>3. ~(StepOK(p) \/ StepFails(p) \/ ApplyFails(p) \/ ApplyBreaks(p)
        \/ RestoreStore(p) \/ RestoreStoreFails(p))
  BY DEF StepOK, StepFails, ApplyFails, ApplyBreaks, RestoreStore, RestoreStoreFails
<1>4. ~Crash(p)
  BY DEF Crash, TypeOK
<1>5. QED
  BY <1>1, <1>2, <1>3, <1>4 DEF Work

(* A rollback that ends and never failed has put everything back.          *)
LEMMA UndoneExactly ==
  ASSUME RollbackInv, NEW p \in Procs, UndoOK(p) \/ UndoFails(p),
         pc'[p] = "done", ~rberr'[p]
  PROVE  disk' \in Undone(before[p])
<1>1. UndoOK(p) /\ ~rberr[p] /\ pc[p] = "undo"
  BY DEF UndoOK, UndoFails, RollbackInv, TypeOK
<1>2. Tail(stack[p]) = <<>> /\ disk' \in Disk
  <2>1. CASE Tail(stack[p]) # <<>>
    BY <1>1, <2>1 DEF UndoOK, Unwind
  <2>2. TypeOK'
    BY <1>1, UndoType DEF RollbackInv
  <2>3. QED
    BY <2>1, <2>2 DEF TypeOK
<1>3. PartsOf(kind[p], <<>>) = {} /\ before[p] \in Disk
  <2>1. before[p] \in Disk
    BY <1>1 DEF RollbackInv, TypeOK, Prepared, InFlight
  <2>2. QED
    BY <2>1, StartParts
<1>4. Back(disk', before[p], p, {}) \in Undone(before[p])
  BY <1>1, <1>2, <1>3, UndoneByRest
<1>5. Back(disk', before[p], p, {}) = disk'
  BY <1>2, <1>3, RestoredNothing
<1>6. QED
  BY <1>4, <1>5

RestoresExactly ==
  \A p \in Procs :
    pc[p] = "undo" /\ pc'[p] = "done" /\ ~rberr'[p] =>
      disk' \in {before[p],
                [before[p] EXCEPT
                   !.running = Reloaded(before[p], before[p].installed)]}

LEMMA RestoreStep == RollbackInv /\ [Next]_vars => [RestoresExactly]_vars
<1> SUFFICES ASSUME RollbackInv, Next, NEW p \in Procs,
                    pc[p] = "undo", pc'[p] = "done", ~rberr'[p]
             PROVE  disk' \in Undone(before[p])
  BY DEF RestoresExactly, Undone
<1>1. PICK q \in Procs :
        Request(q) \/ Cancel(q) \/ Acquire(q) \/ Work(q) \/ Crash(q)
  BY DEF Next
<1>2. q = p
  BY <1>1, OneMoves DEF RollbackInv
<1>3. UndoOK(p) \/ UndoFails(p)
  BY <1>1, <1>2, UndoMoves DEF RollbackInv
<1>4. QED
  BY <1>3, UndoneExactly

(* rollbackStack.fail: an operation that fails, and whose rollback reports *)
(* no error, leaves every file as it was and Mihomo on its old file.       *)
THEOREM RollbackIsExact == Spec => FailureRestores
<1>1. Init => RollbackInv
  BY FreshTypes, QuietRecovers DEF Init
<1>2. QED
  BY <1>1, RollbackStep, RestoreStep, PTL DEF Spec, FailureRestores, RestoresExactly

-----------------------------------------------------------------------------
(* How far a running operation is: what is left of its script, and what    *)
(* the steps behind it made of the disk b that it captured.  In all of     *)
(* these, p is the process, st the state it works with, t the steps left,  *)
(* d the disk and w whether the operation applied a configuration.         *)
InitStage(p, b, st, t, d, w) ==
  LET e == IF b.active = NoProfile THEN WriteProfile(b, Sys, 1) ELSE b
      q == e.active
      i == InstallConfig(e, Merge(st, e, q))
      s == WriteState(i, st)
      c == Do("client", q)
  IN  /\ b.active = NoProfile \/ Readable(b)
      /\ st.settings = IF b.state = NoState THEN b.installed.settings
                                            ELSE b.state.settings
      /\ \/ /\ b.active = NoProfile /\ d = b
            /\ t = <<DoVer("import", Sys, 1), Do("apply", q), Do("save", q),
                     Publish, c>>
         \/ d = e /\ t = <<Do("apply", q), Do("save", q), Publish, c>>
         \/ w /\ d = i /\ t = <<Do("save", q), Publish, c>>
         \/ w /\ d = s /\ t = <<Publish, c>>
         \/ w /\ d = WritePublic(s) /\ t = <<c>>

SetStage(p, b, st, t, d, w) ==
  LET q == b.active
      i == InstallConfig(b, Merge(st, b, q))
      s == WriteState(i, st)
      c == Do("client", q)
  IN  /\ b.state # NoState /\ Readable(b)
      /\ \E f \in Fields, v \in Values : st = [b.state EXCEPT !.settings[f] = v]
      /\ \/ d = b /\ t = <<Do("apply", q), Do("save", q), c, Publish>>
         \/ w /\ d = i /\ t = <<Do("save", q), c, Publish>>
         \/ w /\ d = s /\ t = <<c, Publish>>
         \/ w /\ d = WriteClient(s, p, st, q) /\ t = <<Publish>>

(* The first profile of an installation is applied ...                     *)
FirstStage(p, b, st, q, v, t, d, w) ==
  LET e == WriteProfile(b, q, v)
      i == InstallConfig(e, Merge(st, e, q))
      c == Do("client", q)
  IN  \/ d = b /\ t = <<DoVer("add", q, v), Do("apply", q), c, Publish>>
      \/ d = e /\ t = <<Do("apply", q), c, Publish>>
      \/ w /\ d = i /\ t = <<c, Publish>>
      \/ w /\ d = WriteClient(i, p, st, q) /\ t = <<Publish>>

(* ... and any other is only stored.                                       *)
MoreStage(b, q, v, t, d, w) ==
  /\ ~w
  /\ \/ d = b /\ t = <<DoVer("add", q, v), Publish>>
     \/ d = WriteProfile(b, q, v) /\ t = <<Publish>>

AddStage(p, b, st, t, d, w) ==
  /\ b.state # NoState /\ st = b.state
  /\ \E q \in Profiles, v \in Versions :
       /\ b.content[q] = Absent
       /\ IF b.active = NoProfile THEN FirstStage(p, b, st, q, v, t, d, w)
                                  ELSE MoreStage(b, q, v, t, d, w)

UseStage(p, b, st, t, d, w) ==
  /\ b.state # NoState /\ st = b.state
  /\ \E q \in Profiles \ {b.active} :
       LET i == InstallConfig(b, Merge(st, b, q))
           c == Do("client", q)
       IN  /\ b.content[q] # Absent
           /\ \/ /\ d = b
                 /\ t = <<Do("remember", b.active), Do("apply", q), Do("use", q),
                          Publish, c>>
              \/ d = b /\ t = <<Do("apply", q), Do("use", q), Publish, c>>
              \/ w /\ d = i /\ t = <<Do("use", q), Publish, c>>
              \/ w /\ d = ActivateProfile(i, q) /\ t = <<Publish, c>>
              \/ w /\ d = WritePublic(ActivateProfile(i, q)) /\ t = <<c>>

RepairStage(p, b, st, t, d, w) ==
  LET q == b.active
      i == InstallConfig(b, Merge(st, b, q))
      c == Do("client", q)
  IN  /\ b.state # NoState /\ st = b.state /\ Readable(b)
      /\ \/ d = b /\ t = <<Do("apply", q), Publish, c>>
         \/ w /\ d = i /\ t = <<Publish, c>>
         \/ w /\ d = WritePublic(i) /\ t = <<c>>

RemoveStage(b, t, d, w) ==
  /\ b.state # NoState /\ ~w
  /\ \E q \in Profiles \ {b.active} :
       /\ b.content[q] # Absent
       /\ \/ d = b /\ t = <<Do("remove", q), Publish>>
          \/ d = DropProfile(b, q) /\ t = <<Publish>>

(* A refresh of profiles that are not active, or did not change, ...       *)
RefreshStage(b, t, d, w) ==
  LET a == b.active
      n == Len(t)
  IN  /\ ~w
      /\ d = [b EXCEPT !.content = d.content]
      /\ \A q \in Profiles : d.content[q] = Absent <=> b.content[q] = Absent
      /\ a # NoProfile => d.content[a] = b.content[a]
      /\ t[n] = Publish
      /\ \A i \in 1 .. n - 1 :
           /\ t[i].do = "commit" /\ t[i].ver # Absent
           /\ b.content[t[i].prof] # Absent
           /\ t[i].prof = a => n = 2 /\ d = b

(* ... and one of the active profile whose document did.                   *)
ReapplyStage(b, t, d, w) ==
  LET a == b.active
  IN  /\ a # NoProfile /\ b.content[a] # Absent
      /\ \E v \in Versions \ {b.content[a]} :
           LET e == CommitProfile(b, a, v)
           IN  \/ d = e /\ t = <<Do("apply", a), Publish>>
               \/ w /\ d = InstallConfig(e, Merge(b.state, e, a)) /\ t = <<Publish>>

Stage(p, k, b, st, t, d, w) ==
  \/ k = "init"   /\ InitStage(p, b, st, t, d, w)
  \/ k = "set"    /\ SetStage(p, b, st, t, d, w)
  \/ k = "add"    /\ AddStage(p, b, st, t, d, w)
  \/ k = "use"    /\ UseStage(p, b, st, t, d, w)
  \/ k = "doctor" /\ RepairStage(p, b, st, t, d, w)
  \/ k = "remove" /\ RemoveStage(b, t, d, w)
  \/ /\ k = "sync-public" /\ b.state # NoState /\ ~w
     /\ d = b /\ t = <<Publish>>
  \/ /\ k = "sync-client" /\ b.state # NoState /\ st = b.state /\ ~w
     /\ b.active # NoProfile /\ d = b /\ t = <<Do("client", b.active)>>
  \/ /\ k = "service" /\ ~w /\ d = b
     /\ \E a \in ServiceSteps : t = <<Do(a, NoProfile)>>
  \/ /\ k = "update" /\ b.state # NoState /\ st = b.state
     /\ RefreshStage(b, t, d, w) \/ ReapplyStage(b, t, d, w)

(* What is left of a batch job, as seen from the disk d between batches or *)
(* at the beginning of the current one; only the first target of the first *)
(* batch may be the active profile.                                        *)
Waiting(targets, st, d, first) ==
  /\ d.state # NoState /\ st = d.state
  /\ \A i \in 1 .. Len(targets) :
       /\ d.content[targets[i].prof] # Absent
       /\ targets[i].prof = d.active => first /\ i = 1

Staged(p) ==
  /\ pc[p] = "run" =>
       Stage(p, kind[p], before[p], local[p], todo[p], disk, Rewrites(p))
  /\ pc[p] = "batch" => kind[p] = "update" /\ Waiting(queue[p], local[p], disk, TRUE)
  /\ pc[p] = "restore" =>
       /\ kind[p] = "update"
       /\ Back(disk, before[p], p, {"store"}) \in Undone(before[p])
  /\ pc[p] \in {"run", "restore"} /\ kind[p] = "update" =>
       Waiting(queue[p], local[p], before[p], FALSE)

StageInv == MemoryInv /\ RollbackInv /\ \A p \in Procs : Staged(p)

-----------------------------------------------------------------------------
(* The abstract specification's operators are those of this module.        *)
LEMMA AbsIs ==
  /\ Abs!Disk = Disk /\ Abs!State = State /\ Abs!Absent = Absent
  /\ Abs!Present = Present /\ Abs!Versions = Versions
  /\ \A d : Abs!Readable(d) <=> Readable(d)
  /\ \A d : Abs!WritePublic(d) = WritePublic(d)
  /\ \A d, q : Abs!DropProfile(d, q) = DropProfile(d, q)
  /\ \A d, q, v : Abs!WriteProfile(d, q, v) = WriteProfile(d, q, v)
  /\ \A d, p, st, q : Abs!WriteClient(d, p, st, q) = WriteClient(d, p, st, q)
  /\ \A st, d, q : Abs!Merge(st, d, q) = Merge(st, d, q)
  /\ \A d, cfg : Abs!InstallConfig(d, cfg) = InstallConfig(d, cfg)
  /\ \A d : Abs!RestartService(d) = RestartService(d)
BY DEF Abs!Disk, Disk, Abs!WritePublic, WritePublic, Abs!PublicView, PublicView,
       Abs!State, State, Abs!Settings, Settings, Abs!Config, Config,
       Abs!Public, Public, Abs!Client, Client, Abs!Present, Present,
       Abs!Absent, Absent, Abs!Versions, Versions, Abs!Readable, Readable,
       Abs!DropProfile, DropProfile, Abs!WriteProfile, WriteProfile,
       Abs!WriteClient, WriteClient, Abs!ClientView, ClientView,
       Abs!Merge, Merge, Abs!InstallConfig, InstallConfig,
       Abs!Reloaded, Reloaded, Abs!RestartService, RestartService

LEMMA AbsRewritten ==
  ASSUME NEW d, NEW p, NEW st, NEW q
  PROVE  Abs!Rewritten(d, p, st, q)
           = [d EXCEPT !.state = st, !.active = q, !.installed = Merge(st, d, q),
                       !.running = Reloaded(d, Merge(st, d, q)),
                       !.public = [settings |-> st.settings, active |-> q,
                                   content |-> d.content],
                       !.client[p] = ClientView(st, q)]
BY DEF Abs!Rewritten, Abs!Merge, Merge, Abs!Reloaded, Reloaded, Abs!ClientView,
       ClientView

(* A disk is the rewritten one when it is so part by part.                 *)
LEMMA IsRewritten ==
  ASSUME NEW d \in Disk, NEW p \in Procs, NEW st \in State, NEW q \in Profiles,
         NEW e \in Disk,
         e.state = st, e.active = q, e.content = d.content,
         e.installed = Merge(st, d, q), e.running = Reloaded(d, Merge(st, d, q)),
         e.public = [settings |-> st.settings, active |-> q, content |-> d.content],
         e.client = [d.client EXCEPT ![p] = ClientView(st, q)]
  PROVE  e = Abs!Rewritten(d, p, st, q)
<1>1. e = [d EXCEPT !.state = st, !.active = q, !.installed = Merge(st, d, q),
                    !.running = Reloaded(d, Merge(st, d, q)),
                    !.public = [settings |-> st.settings, active |-> q,
                                content |-> d.content],
                    !.client[p] = ClientView(st, q)]
  BY DEF Disk
<1>2. QED
  BY <1>1, AbsRewritten

(* What each elementary step makes of the seven parts of a disk.           *)
LEMMA InstallMakes ==
  ASSUME NEW d \in Disk, NEW cfg \in Config
  PROVE  LET e == InstallConfig(d, cfg)
         IN  /\ e \in Disk
             /\ e.state = d.state /\ e.active = d.active /\ e.content = d.content
             /\ e.public = d.public /\ e.client = d.client
             /\ e.installed = cfg
             /\ e.running = Reloaded(d, cfg)
BY DEF InstallConfig, Reloaded, Disk

LEMMA SaveMakes ==
  ASSUME NEW d \in Disk, NEW st \in State
  PROVE  LET e == WriteState(d, st)
         IN  /\ e \in Disk
             /\ e.active = d.active /\ e.content = d.content /\ e.installed = d.installed
             /\ e.running = d.running /\ e.public = d.public /\ e.client = d.client
             /\ e.state = st
BY DEF WriteState, Disk

LEMMA PublishMakes ==
  ASSUME NEW d \in Disk
  PROVE  LET e == WritePublic(d)
         IN  /\ e \in Disk
             /\ e.state = d.state /\ e.active = d.active /\ e.content = d.content
             /\ e.installed = d.installed /\ e.running = d.running /\ e.client = d.client
             /\ e.public = PublicView(d)
<1>1. PublicView(d) \in Public
  BY DEF PublicView, Public, Disk, Config
<1>2. QED
  BY <1>1 DEF WritePublic, Disk

LEMMA ClientMakes ==
  ASSUME NEW d \in Disk, NEW p \in Procs, NEW st \in State, NEW q \in Profiles
  PROVE  LET e == WriteClient(d, p, st, q)
         IN  /\ e \in Disk
             /\ e.state = d.state /\ e.active = d.active /\ e.content = d.content
             /\ e.installed = d.installed /\ e.running = d.running /\ e.public = d.public
             /\ e.client = [d.client EXCEPT ![p] = ClientView(st, q)]
<1>1. ClientView(st, q) \in Client
  BY DEF ClientView, Client, State
<1>2. QED
  BY <1>1 DEF WriteClient, Disk

LEMMA UseMakes ==
  ASSUME NEW d \in Disk, NEW q \in Profiles
  PROVE  LET e == ActivateProfile(d, q)
         IN  /\ e \in Disk
             /\ e.state = d.state /\ e.content = d.content /\ e.installed = d.installed
             /\ e.running = d.running /\ e.public = d.public /\ e.client = d.client
             /\ e.active = q
BY DEF ActivateProfile, Disk

LEMMA AddMakes ==
  ASSUME NEW d \in Disk, NEW q \in Profiles, NEW v \in Present
  PROVE  LET e == WriteProfile(d, q, v)
         IN  /\ e \in Disk
             /\ e.state = d.state /\ e.installed = d.installed /\ e.running = d.running
             /\ e.public = d.public /\ e.client = d.client
             /\ e.active = IF d.active = NoProfile THEN q ELSE d.active
             /\ e.content = [d.content EXCEPT ![q] = v]
BY DEF WriteProfile, Disk

LEMMA CommitMakes ==
  ASSUME NEW d \in Disk, NEW q \in Profiles, NEW v \in Present
  PROVE  LET e == CommitProfile(d, q, v)
         IN  /\ e \in Disk
             /\ e.state = d.state /\ e.active = d.active /\ e.installed = d.installed
             /\ e.running = d.running /\ e.public = d.public /\ e.client = d.client
             /\ e.content = [d.content EXCEPT ![q] = v]
BY DEF CommitProfile, Disk

LEMMA MergeType ==
  ASSUME NEW d \in Disk, NEW st \in State, NEW q \in Profiles
  PROVE  Merge(st, d, q) \in Config
BY DEF Merge, Config, State, Disk

-----------------------------------------------------------------------------
(* One successful step, on any disk: what it makes of the disk, and what   *)
(* is left to do.                                                          *)
After(p, st, s, d) ==
  CASE s.do \in {"import", "add"} -> WriteProfile(d, s.prof, s.ver)
    [] s.do = "commit"   -> CommitProfile(d, s.prof, s.ver)
    [] s.do = "remember" -> d
    [] s.do = "use"      -> ActivateProfile(d, s.prof)
    [] s.do = "remove"   -> DropProfile(d, s.prof)
    [] s.do = "apply"    -> InstallConfig(d, Merge(st, d, s.prof))
    [] s.do = "save"     -> WriteState(d, st)
    [] s.do = "client"   -> WriteClient(d, p, st, s.prof)
    [] s.do = "public"   -> WritePublic(d)
    [] s.do = "start"    -> [d EXCEPT !.running = IF d.running = Stopped
                                                  THEN d.installed
                                                  ELSE d.running]
    [] s.do = "stop"     -> [d EXCEPT !.running = Stopped]
    [] s.do = "restart"  -> RestartService(d)

Left(t, d) ==
  IF /\ Head(t).do = "commit"
     /\ Head(t).prof = d.active
     /\ Head(t).ver # d.content[Head(t).prof]
  THEN <<Do("apply", Head(t).prof)>> \o Tail(t)
  ELSE Tail(t)

LEMMA StepIs ==
  ASSUME NEW p \in Procs
  PROVE  /\ Effect(p, disk) = After(p, local[p], Head(todo[p]), disk)
         /\ Following(p) = Left(todo[p], disk)
BY DEF Effect, After, Applied, Following, Left

LEMMA AfterSteps ==
  /\ \A p, st, d, q, v : After(p, st, DoVer("import", q, v), d) = WriteProfile(d, q, v)
  /\ \A p, st, d, q, v : After(p, st, DoVer("add", q, v), d) = WriteProfile(d, q, v)
  /\ \A p, st, d, q, v : After(p, st, DoVer("commit", q, v), d) = CommitProfile(d, q, v)
  /\ \A p, st, d, q : After(p, st, Do("remember", q), d) = d
  /\ \A p, st, d, q : After(p, st, Do("use", q), d) = ActivateProfile(d, q)
  /\ \A p, st, d, q : After(p, st, Do("remove", q), d) = DropProfile(d, q)
  /\ \A p, st, d, q : After(p, st, Do("apply", q), d) = InstallConfig(d, Merge(st, d, q))
  /\ \A p, st, d, q : After(p, st, Do("save", q), d) = WriteState(d, st)
  /\ \A p, st, d, q : After(p, st, Do("client", q), d) = WriteClient(d, p, st, q)
  /\ \A p, st, d : After(p, st, Publish, d) = WritePublic(d)
BY DEF After, Do, DoVer, Publish

(* Only a commit can be followed by something that was not planned.        *)
LEMMA Planned ==
  \A t, d : Head(t).do # "commit" => Left(t, d) = Tail(t)
BY DEF Left

LEMMA Steps ==
  /\ \A what, q : Do(what, q).do = what /\ Do(what, q).prof = q
  /\ \A what, q, v : /\ DoVer(what, q, v).do = what /\ DoVer(what, q, v).prof = q
                     /\ DoVer(what, q, v).ver = v
  /\ Publish.do = "public"
BY DEF Do, DoVer, Publish

LEMMA Longer ==
  ASSUME NEW t, Tail(t) = <<>>
  PROVE  /\ \A x, y : t # <<x, y>>
         /\ \A x, y, z : t # <<x, y, z>>
         /\ \A x, y, z, u : t # <<x, y, z, u>>
         /\ \A x, y, z, u, v : t # <<x, y, z, u, v>>
<1>1. ASSUME NEW x, NEW y PROVE t # <<x, y>>
  <2>1. SUFFICES ASSUME t = <<x, y>> PROVE FALSE
    OBVIOUS
  <2>2. Tail(t) = <<y>> /\ <<y>> # <<>>
    BY <2>1
  <2>3. QED
    BY <2>2
<1>2. ASSUME NEW x, NEW y, NEW z PROVE t # <<x, y, z>>
  <2>1. SUFFICES ASSUME t = <<x, y, z>> PROVE FALSE
    OBVIOUS
  <2>2. Tail(t) = <<y, z>> /\ <<y, z>> # <<>>
    BY <2>1
  <2>3. QED
    BY <2>2
<1>3. ASSUME NEW x, NEW y, NEW z, NEW u PROVE t # <<x, y, z, u>>
  <2>1. SUFFICES ASSUME t = <<x, y, z, u>> PROVE FALSE
    OBVIOUS
  <2>2. Tail(t) = <<y, z, u>> /\ <<y, z, u>> # <<>>
    BY <2>1
  <2>3. QED
    BY <2>2
<1>4. ASSUME NEW x, NEW y, NEW z, NEW u, NEW v PROVE t # <<x, y, z, u, v>>
  <2>1. SUFFICES ASSUME t = <<x, y, z, u, v>> PROVE FALSE
    OBVIOUS
  <2>2. Tail(t) = <<y, z, u, v>> /\ <<y, z, u, v>> # <<>>
    BY <2>1
  <2>3. QED
    BY <2>2
<1>5. QED
  BY <1>1, <1>2, <1>3, <1>4

LEMMA PlannedStages ==
  ASSUME NEW p, NEW b, NEW st, NEW t, NEW d, NEW w,
         \/ InitStage(p, b, st, t, d, w) \/ SetStage(p, b, st, t, d, w)
         \/ AddStage(p, b, st, t, d, w) \/ UseStage(p, b, st, t, d, w)
         \/ RepairStage(p, b, st, t, d, w) \/ RemoveStage(b, t, d, w)
         \/ ReapplyStage(b, t, d, w)
  PROVE  Left(t, d) = Tail(t)
<1> DEFINE plan(h) == \E q : \/ \E v : h \in {DoVer("import", q, v), DoVer("add", q, v)}
                            \/ \E a \in {"apply", "save", "client", "remember", "use",
                                        "remove"} : h = Do(a, q)
                            \/ h = Publish
<1>1. CASE InitStage(p, b, st, t, d, w)
  <2>1. plan(Head(t))
    BY <1>1 DEF InitStage
  <2>2. QED
    BY <2>1, Steps, Planned
<1>2. CASE SetStage(p, b, st, t, d, w)
  <2>1. plan(Head(t))
    BY <1>2 DEF SetStage
  <2>2. QED
    BY <2>1, Steps, Planned
<1>3. CASE AddStage(p, b, st, t, d, w)
  <2>1. plan(Head(t))
    BY <1>3 DEF AddStage, FirstStage, MoreStage
  <2>2. QED
    BY <2>1, Steps, Planned
<1>4. CASE UseStage(p, b, st, t, d, w)
  <2>1. plan(Head(t))
    BY <1>4 DEF UseStage
  <2>2. QED
    BY <2>1, Steps, Planned
<1>5. CASE RepairStage(p, b, st, t, d, w) \/ RemoveStage(b, t, d, w)
           \/ ReapplyStage(b, t, d, w)
  <2>1. plan(Head(t))
    BY <1>5 DEF RepairStage, RemoveStage, ReapplyStage
  <2>2. QED
    BY <2>1, Steps, Planned
<1>6. QED
  BY <1>1, <1>2, <1>3, <1>4, <1>5

(* How an operation that applies a configuration goes on.                  *)
Applies(t, w) == w \/ Head(t).do = "apply"

LEMMA SetGoesOn ==
  ASSUME NEW p \in Procs, NEW b \in Disk, NEW st \in State, NEW d \in Disk,
         NEW t, NEW w \in BOOLEAN, SetStage(p, b, st, t, d, w), Left(t, d) # <<>>
  PROVE  SetStage(p, b, st, Left(t, d), After(p, st, Head(t), d), Applies(t, w))
<1> DEFINE q == b.active
           i == InstallConfig(b, Merge(st, b, q))
           s == WriteState(i, st)
           c == Do("client", q)
<1> HIDE DEF i, s, c
<1>1. Left(t, d) = Tail(t)
  BY PlannedStages
<1>2. CASE d = b /\ t = <<Do("apply", q), Do("save", q), c, Publish>>
  BY <1>1, <1>2, Steps, AfterSteps DEF SetStage, Applies, i, s, c
<1>3. CASE w /\ d = i /\ t = <<Do("save", q), c, Publish>>
  BY <1>1, <1>3, Steps, AfterSteps DEF SetStage, Applies, i, s, c
<1>4. CASE w /\ d = s /\ t = <<c, Publish>>
  BY <1>1, <1>4, Steps, AfterSteps DEF SetStage, Applies, i, s, c
<1>5. CASE w /\ d = WriteClient(s, p, st, q) /\ t = <<Publish>>
  BY <1>1, <1>5
<1>6. QED
  BY <1>2, <1>3, <1>4, <1>5 DEF SetStage, i, s, c

LEMMA SetEnds ==
  ASSUME NEW p \in Procs, NEW b \in Disk, NEW st \in State, NEW d \in Disk,
         NEW t, NEW w \in BOOLEAN, SetStage(p, b, st, t, d, w), Left(t, d) = <<>>
  PROVE  w /\ After(p, st, Head(t), d) = Abs!Rewritten(b, p, st, b.active)
<1> DEFINE q == b.active
           i == InstallConfig(b, Merge(st, b, q))
           s == WriteState(i, st)
           e == WriteClient(s, p, st, q)
           f == WritePublic(e)
<1> HIDE DEF i, s, e, f
<1>1. w /\ d = e /\ t = <<Publish>>
  <2>1. Tail(t) = <<>>
    BY PlannedStages
  <2>2. QED
    BY <2>1, Longer DEF SetStage, i, s, e
<1>2. q \in Profiles
  BY DEF SetStage, Readable, Disk
<1>3. Merge(st, b, q) \in Config
  BY <1>2, MergeType
<1>4. /\ i \in Disk /\ i.active = q /\ i.content = b.content
      /\ i.installed = Merge(st, b, q) /\ i.running = Reloaded(b, Merge(st, b, q))
      /\ i.client = b.client
  BY <1>3, InstallMakes DEF i
<1>5. /\ s \in Disk /\ s.active = q /\ s.content = b.content /\ s.state = st
      /\ s.installed = Merge(st, b, q) /\ s.running = Reloaded(b, Merge(st, b, q))
      /\ s.client = b.client
  BY <1>4, SaveMakes DEF s
<1>6. /\ e \in Disk /\ e.active = q /\ e.content = b.content /\ e.state = st
      /\ e.installed = Merge(st, b, q) /\ e.running = Reloaded(b, Merge(st, b, q))
      /\ e.client = [b.client EXCEPT ![p] = ClientView(st, q)]
  BY <1>2, <1>5, ClientMakes DEF e
<1>7. PublicView(e) = [settings |-> st.settings, active |-> q, content |-> b.content]
  BY <1>6 DEF PublicView, Merge
<1>8. f = Abs!Rewritten(b, p, st, q)
  <2>1. /\ f \in Disk /\ f.active = q /\ f.content = b.content /\ f.state = st
        /\ f.installed = Merge(st, b, q) /\ f.running = Reloaded(b, Merge(st, b, q))
        /\ f.client = [b.client EXCEPT ![p] = ClientView(st, q)]
        /\ f.public = PublicView(e)
    BY <1>6, PublishMakes DEF f
  <2>2. QED
    BY <1>2, <1>7, <2>1, IsRewritten
<1>9. After(p, st, Head(t), d) = f
  BY <1>1, AfterSteps DEF f
<1>10. QED
  BY <1>1, <1>8, <1>9

LEMMA InitGoesOn ==
  ASSUME NEW p \in Procs, NEW b \in Disk, NEW st \in State, NEW d \in Disk,
         NEW t, NEW w \in BOOLEAN, InitStage(p, b, st, t, d, w), Left(t, d) # <<>>
  PROVE  InitStage(p, b, st, Left(t, d), After(p, st, Head(t), d), Applies(t, w))
<1> DEFINE e == IF b.active = NoProfile THEN WriteProfile(b, Sys, 1) ELSE b
           q == e.active
           i == InstallConfig(e, Merge(st, e, q))
           s == WriteState(i, st)
           c == Do("client", q)
<1>e. b.active = NoProfile => e = WriteProfile(b, Sys, 1) /\ q = Sys
  BY DEF WriteProfile, Disk
<1> HIDE DEF e, q, i, s, c
<1>1. Left(t, d) = Tail(t)
  BY PlannedStages
<1>2. CASE /\ b.active = NoProfile /\ d = b
           /\ t = <<DoVer("import", Sys, 1), Do("apply", q), Do("save", q),
                    Publish, c>>
  BY <1>e, <1>1, <1>2, Steps, AfterSteps DEF InitStage, Applies, e, q, c
<1>3. CASE d = e /\ t = <<Do("apply", q), Do("save", q), Publish, c>>
  BY <1>1, <1>3, Steps, AfterSteps DEF InitStage, Applies, e, q, i, c
<1>4. CASE w /\ d = i /\ t = <<Do("save", q), Publish, c>>
  BY <1>1, <1>4, Steps, AfterSteps DEF InitStage, Applies, e, q, i, s, c
<1>5. CASE w /\ d = s /\ t = <<Publish, c>>
  BY <1>1, <1>5, Steps, AfterSteps DEF InitStage, Applies, e, q, i, s, c
<1>6. CASE w /\ d = WritePublic(s) /\ t = <<c>>
  BY <1>1, <1>6
<1>7. QED
  BY <1>2, <1>3, <1>4, <1>5, <1>6 DEF InitStage, e, q, i, s, c

LEMMA InitEnds ==
  ASSUME NEW p \in Procs, NEW b \in Disk, NEW st \in State, NEW d \in Disk,
         NEW t, NEW w \in BOOLEAN, InitStage(p, b, st, t, d, w), Left(t, d) = <<>>
  PROVE  LET e == IF b.active = NoProfile THEN WriteProfile(b, Sys, 1) ELSE b
         IN  w /\ After(p, st, Head(t), d) = Abs!Rewritten(e, p, st, e.active)
<1> DEFINE e == IF b.active = NoProfile THEN WriteProfile(b, Sys, 1) ELSE b
           q == e.active
           i == InstallConfig(e, Merge(st, e, q))
           s == WriteState(i, st)
           f == WritePublic(s)
           g == WriteClient(f, p, st, q)
<1>1. e \in Disk /\ q \in Profiles
  <2>1. CASE b.active = NoProfile
    <3>1. WriteProfile(b, Sys, 1) \in Disk /\ WriteProfile(b, Sys, 1).active = Sys
      BY <2>1, AddMakes, SysAssumption, VersionTypes
    <3>2. QED
      BY <2>1, <3>1, SysAssumption
  <2>2. CASE b.active # NoProfile
    BY <2>2 DEF Disk
  <2>3. QED
    BY <2>1, <2>2
<1> HIDE DEF e, q, i, s, f, g
<1>2. w /\ d = f /\ t = <<Do("client", q)>>
  <2>1. Tail(t) = <<>>
    BY PlannedStages
  <2>2. QED
    BY <2>1, Longer DEF InitStage, e, q, i, s, f
<1>3. Merge(st, e, q) \in Config
  BY <1>1, MergeType
<1>4. /\ i \in Disk /\ i.active = q /\ i.content = e.content
      /\ i.installed = Merge(st, e, q) /\ i.running = Reloaded(e, Merge(st, e, q))
      /\ i.client = e.client
  BY <1>1, <1>3, InstallMakes DEF i, q
<1>5. /\ s \in Disk /\ s.active = q /\ s.content = e.content /\ s.state = st
      /\ s.installed = Merge(st, e, q) /\ s.running = Reloaded(e, Merge(st, e, q))
      /\ s.client = e.client
  BY <1>4, SaveMakes DEF s
<1>6. PublicView(s) = [settings |-> st.settings, active |-> q, content |-> e.content]
  BY <1>5 DEF PublicView, Merge
<1>7. /\ f \in Disk /\ f.active = q /\ f.content = e.content /\ f.state = st
      /\ f.installed = Merge(st, e, q) /\ f.running = Reloaded(e, Merge(st, e, q))
      /\ f.client = e.client /\ f.public = PublicView(s)
  BY <1>5, PublishMakes DEF f
<1>8. g = Abs!Rewritten(e, p, st, q)
  <2>1. /\ g \in Disk /\ g.active = q /\ g.content = e.content /\ g.state = st
        /\ g.installed = Merge(st, e, q) /\ g.running = Reloaded(e, Merge(st, e, q))
        /\ g.client = [e.client EXCEPT ![p] = ClientView(st, q)]
        /\ g.public = PublicView(s)
    BY <1>1, <1>7, ClientMakes DEF g
  <2>2. QED
    BY <1>1, <1>6, <2>1, IsRewritten
<1>9. After(p, st, Head(t), d) = g
  BY <1>2, AfterSteps DEF g
<1>10. QED
  BY <1>2, <1>8, <1>9 DEF e, q

LEMMA UseGoesOn ==
  ASSUME NEW p \in Procs, NEW b \in Disk, NEW st \in State, NEW d \in Disk,
         NEW t, NEW w \in BOOLEAN, UseStage(p, b, st, t, d, w), Left(t, d) # <<>>
  PROVE  UseStage(p, b, st, Left(t, d), After(p, st, Head(t), d), Applies(t, w))
<1>1. Left(t, d) = Tail(t)
  BY PlannedStages
<1>2. PICK q \in Profiles \ {b.active} :
        LET i == InstallConfig(b, Merge(st, b, q))
            c == Do("client", q)
        IN  /\ b.content[q] # Absent
            /\ \/ /\ d = b
                  /\ t = <<Do("remember", b.active), Do("apply", q), Do("use", q),
                           Publish, c>>
               \/ d = b /\ t = <<Do("apply", q), Do("use", q), Publish, c>>
               \/ w /\ d = i /\ t = <<Do("use", q), Publish, c>>
               \/ w /\ d = ActivateProfile(i, q) /\ t = <<Publish, c>>
               \/ w /\ d = WritePublic(ActivateProfile(i, q)) /\ t = <<c>>
  BY DEF UseStage
<1> DEFINE i == InstallConfig(b, Merge(st, b, q))
           c == Do("client", q)
<1> HIDE DEF i, c
<1>3. CASE d = b /\ t = <<Do("remember", b.active), Do("apply", q), Do("use", q),
                          Publish, c>>
  BY <1>1, <1>2, <1>3, Steps, AfterSteps DEF UseStage, Applies, i, c
<1>4. CASE d = b /\ t = <<Do("apply", q), Do("use", q), Publish, c>>
  BY <1>1, <1>2, <1>4, Steps, AfterSteps DEF UseStage, Applies, i, c
<1>5. CASE w /\ d = i /\ t = <<Do("use", q), Publish, c>>
  BY <1>1, <1>2, <1>5, Steps, AfterSteps DEF UseStage, Applies, i, c
<1>6. CASE w /\ d = ActivateProfile(i, q) /\ t = <<Publish, c>>
  BY <1>1, <1>2, <1>6, Steps, AfterSteps DEF UseStage, Applies, i, c
<1>7. CASE w /\ d = WritePublic(ActivateProfile(i, q)) /\ t = <<c>>
  BY <1>1, <1>7
<1>8. QED
  BY <1>2, <1>3, <1>4, <1>5, <1>6, <1>7 DEF i, c

LEMMA UseEnds ==
  ASSUME NEW p \in Procs, NEW b \in Disk, NEW st \in State, NEW d \in Disk,
         NEW t, NEW w \in BOOLEAN, UseStage(p, b, st, t, d, w), Left(t, d) = <<>>
  PROVE  w /\ \E q \in Profiles \ {b.active} :
                /\ b.content[q] # Absent
                /\ After(p, st, Head(t), d) = Abs!Rewritten(b, p, st, q)
<1>1. Tail(t) = <<>> /\ st = b.state
  BY PlannedStages DEF UseStage
<1>2. PICK q \in Profiles \ {b.active} :
        /\ b.content[q] # Absent
        /\ w
        /\ d = WritePublic(ActivateProfile(InstallConfig(b, Merge(st, b, q)), q))
        /\ t = <<Do("client", q)>>
  BY <1>1, Longer DEF UseStage
<1> DEFINE i == InstallConfig(b, Merge(st, b, q))
           s == ActivateProfile(i, q)
           f == WritePublic(s)
           g == WriteClient(f, p, st, q)
<1> HIDE DEF i, s, f, g
<1>3. Merge(st, b, q) \in Config
  BY MergeType
<1>4. /\ i \in Disk /\ i.state = st /\ i.content = b.content
      /\ i.installed = Merge(st, b, q) /\ i.running = Reloaded(b, Merge(st, b, q))
      /\ i.client = b.client
  BY <1>1, <1>3, InstallMakes DEF i
<1>5. /\ s \in Disk /\ s.active = q /\ s.content = b.content /\ s.state = st
      /\ s.installed = Merge(st, b, q) /\ s.running = Reloaded(b, Merge(st, b, q))
      /\ s.client = b.client
  BY <1>4, UseMakes DEF s
<1>6. PublicView(s) = [settings |-> st.settings, active |-> q, content |-> b.content]
  BY <1>5 DEF PublicView, Merge
<1>7. /\ f \in Disk /\ f.active = q /\ f.content = b.content /\ f.state = st
      /\ f.installed = Merge(st, b, q) /\ f.running = Reloaded(b, Merge(st, b, q))
      /\ f.client = b.client /\ f.public = PublicView(s)
  BY <1>5, PublishMakes DEF f
<1>8. g = Abs!Rewritten(b, p, st, q)
  <2>1. /\ g \in Disk /\ g.active = q /\ g.content = b.content /\ g.state = st
        /\ g.installed = Merge(st, b, q) /\ g.running = Reloaded(b, Merge(st, b, q))
        /\ g.client = [b.client EXCEPT ![p] = ClientView(st, q)]
        /\ g.public = PublicView(s)
    BY <1>7, ClientMakes DEF g
  <2>2. QED
    BY <1>6, <2>1, IsRewritten
<1>9. After(p, st, Head(t), d) = g
  BY <1>2, AfterSteps DEF i, s, f, g
<1>10. QED
  BY <1>2, <1>8, <1>9

LEMMA RepairGoesOn ==
  ASSUME NEW p \in Procs, NEW b \in Disk, NEW st \in State, NEW d \in Disk,
         NEW t, NEW w \in BOOLEAN, RepairStage(p, b, st, t, d, w), Left(t, d) # <<>>
  PROVE  RepairStage(p, b, st, Left(t, d), After(p, st, Head(t), d), Applies(t, w))
<1> DEFINE q == b.active
           i == InstallConfig(b, Merge(st, b, q))
           c == Do("client", q)
<1> HIDE DEF i, c
<1>1. Left(t, d) = Tail(t)
  BY PlannedStages
<1>2. CASE d = b /\ t = <<Do("apply", q), Publish, c>>
  BY <1>1, <1>2, Steps, AfterSteps DEF RepairStage, Applies, i, c
<1>3. CASE w /\ d = i /\ t = <<Publish, c>>
  BY <1>1, <1>3, Steps, AfterSteps DEF RepairStage, Applies, i, c
<1>4. CASE w /\ d = WritePublic(i) /\ t = <<c>>
  BY <1>1, <1>4
<1>5. QED
  BY <1>2, <1>3, <1>4 DEF RepairStage, i, c

LEMMA RepairEnds ==
  ASSUME NEW p \in Procs, NEW b \in Disk, NEW st \in State, NEW d \in Disk,
         NEW t, NEW w \in BOOLEAN, RepairStage(p, b, st, t, d, w), Left(t, d) = <<>>
  PROVE  w /\ After(p, st, Head(t), d) = Abs!Rewritten(b, p, st, b.active)
<1> DEFINE q == b.active
           i == InstallConfig(b, Merge(st, b, q))
           f == WritePublic(i)
           g == WriteClient(f, p, st, q)
<1> HIDE DEF i, f, g
<1>1. w /\ d = f /\ t = <<Do("client", q)>> /\ st = b.state
  <2>1. Tail(t) = <<>>
    BY PlannedStages
  <2>2. QED
    BY <2>1, Longer DEF RepairStage, i, f
<1>2. q \in Profiles
  BY DEF RepairStage, Readable, Disk
<1>3. Merge(st, b, q) \in Config
  BY <1>2, MergeType
<1>4. /\ i \in Disk /\ i.state = st /\ i.content = b.content /\ i.active = q
      /\ i.installed = Merge(st, b, q) /\ i.running = Reloaded(b, Merge(st, b, q))
      /\ i.client = b.client
  BY <1>1, <1>3, InstallMakes DEF i
<1>5. PublicView(i) = [settings |-> st.settings, active |-> q, content |-> b.content]
  BY <1>4 DEF PublicView, Merge
<1>6. /\ f \in Disk /\ f.active = q /\ f.content = b.content /\ f.state = st
      /\ f.installed = Merge(st, b, q) /\ f.running = Reloaded(b, Merge(st, b, q))
      /\ f.client = b.client /\ f.public = PublicView(i)
  BY <1>4, PublishMakes DEF f
<1>7. g = Abs!Rewritten(b, p, st, q)
  <2>1. /\ g \in Disk /\ g.active = q /\ g.content = b.content /\ g.state = st
        /\ g.installed = Merge(st, b, q) /\ g.running = Reloaded(b, Merge(st, b, q))
        /\ g.client = [b.client EXCEPT ![p] = ClientView(st, q)]
        /\ g.public = PublicView(i)
    BY <1>2, <1>6, ClientMakes DEF g
  <2>2. QED
    BY <1>2, <1>5, <2>1, IsRewritten
<1>8. After(p, st, Head(t), d) = g
  BY <1>1, AfterSteps DEF g
<1>9. QED
  BY <1>1, <1>7, <1>8

LEMMA RemoveGoesOn ==
  ASSUME NEW p, NEW b \in Disk, NEW st, NEW d \in Disk,
         NEW t, NEW w \in BOOLEAN, RemoveStage(b, t, d, w), Left(t, d) # <<>>
  PROVE  RemoveStage(b, Left(t, d), After(p, st, Head(t), d), Applies(t, w))
<1>1. Left(t, d) = Tail(t)
  BY PlannedStages
<1>2. PICK q \in Profiles \ {b.active} :
        /\ b.content[q] # Absent
        /\ \/ d = b /\ t = <<Do("remove", q), Publish>>
           \/ d = DropProfile(b, q) /\ t = <<Publish>>
  BY DEF RemoveStage
<1>3. CASE d = b /\ t = <<Do("remove", q), Publish>>
  BY <1>1, <1>2, <1>3, Steps, AfterSteps DEF RemoveStage, Applies
<1>4. CASE d = DropProfile(b, q) /\ t = <<Publish>>
  BY <1>1, <1>4
<1>5. QED
  BY <1>2, <1>3, <1>4

LEMMA RemoveEnds ==
  ASSUME NEW p \in Procs, NEW b \in Disk, NEW st \in State, NEW d \in Disk,
         NEW t, NEW w \in BOOLEAN, RemoveStage(b, t, d, w), Left(t, d) = <<>>
  PROVE  ~w /\ \E q \in Profiles \ {b.active} :
                 /\ b.content[q] # Absent
                 /\ After(p, st, Head(t), d) = WritePublic(DropProfile(b, q))
<1>1. Tail(t) = <<>>
  BY PlannedStages
<1>2. PICK q \in Profiles \ {b.active} :
        b.content[q] # Absent /\ d = DropProfile(b, q) /\ t = <<Publish>>
  BY <1>1, Longer DEF RemoveStage
<1>3. QED
  BY <1>2, AfterSteps DEF RemoveStage

LEMMA AddGoesOn ==
  ASSUME NEW p \in Procs, NEW b \in Disk, NEW st \in State, NEW d \in Disk,
         NEW t, NEW w \in BOOLEAN, AddStage(p, b, st, t, d, w), Left(t, d) # <<>>
  PROVE  AddStage(p, b, st, Left(t, d), After(p, st, Head(t), d), Applies(t, w))
<1>1. Left(t, d) = Tail(t)
  BY PlannedStages
<1>2. PICK q \in Profiles, v \in Versions :
        /\ b.content[q] = Absent
        /\ IF b.active = NoProfile THEN FirstStage(p, b, st, q, v, t, d, w)
                                   ELSE MoreStage(b, q, v, t, d, w)
  BY DEF AddStage
<1> DEFINE n == Left(t, d)
           f == After(p, st, Head(t), d)
           x == Applies(t, w)
<1>3. CASE b.active = NoProfile
  <2> DEFINE e == WriteProfile(b, q, v)
             i == InstallConfig(e, Merge(st, e, q))
             c == Do("client", q)
  <2> HIDE DEF e, i, c
  <2>1. FirstStage(p, b, st, q, v, t, d, w)
    BY <1>2, <1>3
  <2>2. CASE d = b /\ t = <<DoVer("add", q, v), Do("apply", q), c, Publish>>
    <3>1. FirstStage(p, b, st, q, v, n, f, x)
      BY <1>1, <2>2, Steps, AfterSteps DEF FirstStage, Applies, e, i, c
    <3>2. QED
      BY <1>2, <1>3, <3>1 DEF AddStage
  <2>3. CASE d = e /\ t = <<Do("apply", q), c, Publish>>
    <3>1. FirstStage(p, b, st, q, v, n, f, x)
      BY <1>1, <2>3, Steps, AfterSteps DEF FirstStage, Applies, e, i, c
    <3>2. QED
      BY <1>2, <1>3, <3>1 DEF AddStage
  <2>4. CASE w /\ d = i /\ t = <<c, Publish>>
    <3>1. FirstStage(p, b, st, q, v, n, f, x)
      BY <1>1, <2>4, Steps, AfterSteps DEF FirstStage, Applies, e, i, c
    <3>2. QED
      BY <1>2, <1>3, <3>1 DEF AddStage
  <2>5. CASE w /\ d = WriteClient(i, p, st, q) /\ t = <<Publish>>
    BY <1>1, <2>5
  <2>6. QED
    BY <2>1, <2>2, <2>3, <2>4, <2>5 DEF FirstStage, e, i, c
<1>4. CASE b.active # NoProfile
  <2>1. MoreStage(b, q, v, t, d, w)
    BY <1>2, <1>4
  <2>2. CASE d = b /\ t = <<DoVer("add", q, v), Publish>>
    <3>1. MoreStage(b, q, v, n, f, x)
      BY <1>1, <2>1, <2>2, Steps, AfterSteps DEF MoreStage, Applies
    <3>2. QED
      BY <1>2, <1>4, <3>1 DEF AddStage
  <2>3. CASE d = WriteProfile(b, q, v) /\ t = <<Publish>>
    BY <1>1, <2>3
  <2>4. QED
    BY <2>1, <2>2, <2>3 DEF MoreStage
<1>5. QED
  BY <1>3, <1>4

LEMMA AddEnds ==
  ASSUME NEW p \in Procs, NEW b \in Disk, NEW st \in State, NEW d \in Disk,
         NEW t, NEW w \in BOOLEAN, AddStage(p, b, st, t, d, w), Left(t, d) = <<>>
  PROVE  \E q \in Profiles, v \in Versions :
           /\ b.content[q] = Absent
           /\ LET e == WriteProfile(b, q, v)
                  f == After(p, st, Head(t), d)
              IN  IF b.active = NoProfile
                  THEN w /\ f = Abs!Rewritten(e, p, st, q)
                  ELSE ~w /\ f = WritePublic(e)
<1>1. Tail(t) = <<>> /\ st = b.state
  BY PlannedStages DEF AddStage
<1>2. PICK q \in Profiles, v \in Versions :
        /\ b.content[q] = Absent
        /\ IF b.active = NoProfile THEN FirstStage(p, b, st, q, v, t, d, w)
                                   ELSE MoreStage(b, q, v, t, d, w)
  BY DEF AddStage
<1>3. CASE b.active = NoProfile
  <2> DEFINE e == WriteProfile(b, q, v)
             i == InstallConfig(e, Merge(st, e, q))
             f == WriteClient(i, p, st, q)
             g == WritePublic(f)
  <2>1. e \in Disk /\ e.state = st /\ e.active = q
    BY <1>1, <1>3, AddMakes, VersionTypes
  <2> HIDE DEF e, i, f, g
  <2>2. w /\ d = f /\ t = <<Publish>>
    <3>1. FirstStage(p, b, st, q, v, t, d, w)
      BY <1>2, <1>3
    <3>2. QED
      BY <1>1, <3>1, Longer DEF FirstStage, e, i, f
  <2>3. Merge(st, e, q) \in Config
    BY <2>1, MergeType
  <2>4. /\ i \in Disk /\ i.state = st /\ i.content = e.content /\ i.active = q
        /\ i.installed = Merge(st, e, q) /\ i.running = Reloaded(e, Merge(st, e, q))
        /\ i.client = e.client
    BY <2>1, <2>3, InstallMakes DEF i
  <2>5. /\ f \in Disk /\ f.state = st /\ f.content = e.content /\ f.active = q
        /\ f.installed = Merge(st, e, q) /\ f.running = Reloaded(e, Merge(st, e, q))
        /\ f.client = [e.client EXCEPT ![p] = ClientView(st, q)]
    BY <2>4, ClientMakes DEF f
  <2>6. PublicView(f) = [settings |-> st.settings, active |-> q, content |-> e.content]
    BY <2>5 DEF PublicView, Merge
  <2>7. g = Abs!Rewritten(e, p, st, q)
    <3>1. /\ g \in Disk /\ g.active = q /\ g.content = e.content /\ g.state = st
          /\ g.installed = Merge(st, e, q) /\ g.running = Reloaded(e, Merge(st, e, q))
          /\ g.client = [e.client EXCEPT ![p] = ClientView(st, q)]
          /\ g.public = PublicView(f)
      BY <2>5, PublishMakes DEF g
    <3>2. QED
      BY <2>1, <2>6, <3>1, IsRewritten
  <2>8. After(p, st, Head(t), d) = g
    BY <2>2, AfterSteps DEF g
  <2>9. QED
    BY <1>2, <1>3, <2>2, <2>7, <2>8 DEF e
<1>4. CASE b.active # NoProfile
  <2>1. MoreStage(b, q, v, t, d, w)
    BY <1>2, <1>4
  <2>2. ~w /\ d = WriteProfile(b, q, v) /\ t = <<Publish>>
    BY <1>1, <2>1, Longer DEF MoreStage
  <2>3. QED
    BY <1>2, <1>4, <2>2, AfterSteps
<1>5. QED
  BY <1>3, <1>4

LEMMA ReapplyGoesOn ==
  ASSUME NEW p \in Procs, NEW b \in Disk, NEW st, st = b.state, NEW d \in Disk,
         NEW t, NEW w \in BOOLEAN, ReapplyStage(b, t, d, w), Left(t, d) # <<>>
  PROVE  ReapplyStage(b, Left(t, d), After(p, st, Head(t), d), Applies(t, w))
<1>1. Left(t, d) = Tail(t)
  BY PlannedStages
<1> DEFINE a == b.active
<1>2. PICK v \in Versions \ {b.content[a]} :
        LET e == CommitProfile(b, a, v)
        IN  \/ d = e /\ t = <<Do("apply", a), Publish>>
            \/ w /\ d = InstallConfig(e, Merge(b.state, e, a)) /\ t = <<Publish>>
  BY DEF ReapplyStage
<1> DEFINE e == CommitProfile(b, a, v)
<1> HIDE DEF e
<1>3. CASE d = e /\ t = <<Do("apply", a), Publish>>
  BY <1>1, <1>2, <1>3, Steps, AfterSteps DEF ReapplyStage, Applies, e
<1>4. CASE t = <<Publish>>
  BY <1>1, <1>4
<1>5. QED
  BY <1>2, <1>3, <1>4 DEF e

LEMMA ReapplyEnds ==
  ASSUME NEW p \in Procs, NEW b \in Disk, NEW st, NEW d \in Disk,
         NEW t, NEW w \in BOOLEAN, ReapplyStage(b, t, d, w), Left(t, d) = <<>>
  PROVE  w /\ \E v \in Versions \ {b.content[b.active]} :
                LET e == CommitProfile(b, b.active, v)
                IN  After(p, st, Head(t), d)
                      = WritePublic(InstallConfig(e, Merge(b.state, e, b.active)))
<1>1. Tail(t) = <<>>
  BY PlannedStages
<1>2. PICK v \in Versions \ {b.content[b.active]} :
        LET e == CommitProfile(b, b.active, v)
        IN  /\ w /\ d = InstallConfig(e, Merge(b.state, e, b.active))
            /\ t = <<Publish>>
  BY <1>1, Longer DEF ReapplyStage
<1>3. QED
  BY <1>2, AfterSteps

LEMMA OneStep ==
  ASSUME NEW s \in Seq(Step), Len(s) = 1, NEW x \in Step, s[1] = x
  PROVE  s = <<x>>
<1>1. <<x>> \in Seq(Step) /\ Len(<<x>>) = 1 /\ <<x>>[1] = x
  OBVIOUS
<1>2. \A i \in 1 .. Len(s) : s[i] = <<x>>[i]
  BY <1>1
<1>3. QED
  BY <1>1, <1>2, SeqEqual

LEMMA Joined ==
  ASSUME NEW s \in Seq(Step), NEW r \in Seq(Step), NEW u \in Seq(Step),
         Len(u) = Len(s) + Len(r),
         \A i \in 1 .. Len(s) : u[i] = s[i],
         \A i \in 1 .. Len(r) : u[Len(s) + i] = r[i]
  PROVE  s \o r = u
<1> DEFINE c == s \o r
<1>1. /\ c \in Seq(Step) /\ Len(c) = Len(s) + Len(r)
      /\ \A i \in 1 .. Len(s) + Len(r) :
           c[i] = IF i <= Len(s) THEN s[i] ELSE r[i - Len(s)]
  BY ConcatProperties
<1>2. Len(s) \in Nat /\ Len(r) \in Nat
  OBVIOUS
<1> HIDE DEF c
<1>3. ASSUME NEW i \in 1 .. Len(c) PROVE c[i] = u[i]
  <2>1. CASE i <= Len(s)
    BY <1>1, <1>2, <1>3, <2>1
  <2>2. CASE i > Len(s)
    <3>1. i - Len(s) \in 1 .. Len(r) /\ Len(s) + (i - Len(s)) = i
      BY <1>1, <1>2, <1>3, <2>2
    <3>2. u[Len(s) + (i - Len(s))] = r[i - Len(s)]
      BY <3>1
    <3>3. QED
      BY <1>1, <1>2, <1>3, <2>2, <3>1, <3>2
  <2>3. QED
    BY <1>1, <1>2, <1>3, <2>1, <2>2
<1>4. c = u
  BY <1>1, <1>3, SeqEqual
<1>5. QED
  BY <1>4 DEF c

LEMMA TwoSteps ==
  ASSUME NEW x \in Step, NEW y \in Step
  PROVE  <<x>> \o <<y>> = <<x, y>>
<1> DEFINE s == <<x>>
           r == <<y>>
           u == <<x, y>>
<1>1. s \in Seq(Step) /\ r \in Seq(Step) /\ u \in Seq(Step)
      /\ Len(u) = 2 /\ u[1] = x /\ u[2] = y
      /\ Len(s) = 1 /\ Len(r) = 1 /\ s[1] = x /\ r[1] = y
  OBVIOUS
<1> HIDE DEF s, r, u
<1>2. s \o r = u
  <2>1. \A i \in 1 .. Len(s) : u[i] = s[i]
    BY <1>1
  <2>2. \A i \in 1 .. Len(r) : u[Len(s) + i] = r[i]
    BY <1>1
  <2>3. Len(u) = Len(s) + Len(r)
    BY <1>1
  <2>4. QED
    BY <1>1, <2>1, <2>2, <2>3, Joined
<1>3. QED
  BY <1>2 DEF s, r, u

LEMMA FourSteps ==
  ASSUME NEW x \in Step, NEW y \in Step, NEW z \in Step, NEW v \in Step
  PROVE  <<x>> \o <<y, z>> \o <<v>> = <<x, y, z, v>>
<1> DEFINE s == <<x>>
           r == <<y, z>>
           u == <<x, y, z>>
           q == <<v>>
           w == <<x, y, z, v>>
<1>1. s \in Seq(Step) /\ r \in Seq(Step) /\ u \in Seq(Step)
      /\ q \in Seq(Step) /\ w \in Seq(Step)
      /\ Len(s) = 1 /\ s[1] = x
      /\ Len(r) = 2 /\ r[1] = y /\ r[2] = z
      /\ Len(u) = 3 /\ u[1] = x /\ u[2] = y /\ u[3] = z
      /\ Len(q) = 1 /\ q[1] = v
      /\ Len(w) = 4 /\ w[1] = x /\ w[2] = y /\ w[3] = z /\ w[4] = v
  OBVIOUS
<1> HIDE DEF s, r, u, q, w
<1>2. s \o r = u
  <2>1. \A i \in 1 .. Len(s) : u[i] = s[i]
    BY <1>1
  <2>2. \A i \in 1 .. Len(r) : u[Len(s) + i] = r[i]
    BY <1>1
  <2>3. Len(u) = Len(s) + Len(r)
    BY <1>1
  <2>4. QED
    BY <1>1, <2>1, <2>2, <2>3, Joined
<1>3. u \o q = w
  <2>1. \A i \in 1 .. Len(u) : w[i] = u[i]
    BY <1>1
  <2>2. \A i \in 1 .. Len(q) : w[Len(u) + i] = q[i]
    BY <1>1
  <2>3. Len(w) = Len(u) + Len(q)
    BY <1>1
  <2>4. QED
    BY <1>1, <2>1, <2>2, <2>3, Joined
<1>4. QED
  BY <1>2, <1>3 DEF s, r, u, q, w

LEMMA FiveSteps ==
  ASSUME NEW x \in Step, NEW r1 \in Step, NEW r2 \in Step, NEW r3 \in Step,
         NEW r4 \in Step
  PROVE  <<x>> \o <<r1, r2, r3, r4>> = <<x, r1, r2, r3, r4>>
<1> DEFINE s == <<x>>
           r == <<r1, r2, r3, r4>>
           u == <<x, r1, r2, r3, r4>>
<1>1. s \in Seq(Step) /\ r \in Seq(Step) /\ u \in Seq(Step)
      /\ Len(s) = 1 /\ s[1] = x
      /\ Len(r) = 4 /\ r[1] = r1 /\ r[2] = r2 /\ r[3] = r3 /\ r[4] = r4
      /\ Len(u) = 5 /\ u[1] = x /\ u[2] = r1 /\ u[3] = r2 /\ u[4] = r3 /\ u[5] = r4
  OBVIOUS
<1> HIDE DEF s, r, u
<1>2. s \o r = u
  <2>1. \A i \in 1 .. Len(s) : u[i] = s[i]
    BY <1>1
  <2>2. \A i \in 1 .. Len(r) : u[Len(s) + i] = r[i]
    BY <1>1
  <2>3. Len(u) = Len(s) + Len(r)
    BY <1>1
  <2>4. QED
    BY <1>1, <2>1, <2>2, <2>3, Joined
<1>3. QED
  BY <1>2 DEF s, r, u

(* A refresh commits its targets one by one; if the active profile's       *)
(* document changed, it goes on to apply it.                               *)
LEMMA RefreshGoesOn ==
  ASSUME NEW p \in Procs, NEW b \in Disk, NEW st, NEW d \in Disk,
         NEW t \in Seq(Step), t # <<>>, NEW w \in BOOLEAN,
         RefreshStage(b, t, d, w), Left(t, d) # <<>>
  PROVE  LET f == After(p, st, Head(t), d)
             x == Applies(t, w)
         IN  RefreshStage(b, Left(t, d), f, x) \/ ReapplyStage(b, Left(t, d), f, x)
<1> DEFINE a == b.active
           n == Len(t)
           h == Head(t)
           r == Tail(t)
           f == After(p, st, h, d)
           x == Applies(t, w)
<1>1. /\ n \in Nat \ {0} /\ h = t[1] /\ h \in Step /\ r \in Seq(Step) /\ Len(r) = n - 1
      /\ \A i \in 1 .. n - 1 : r[i] = t[i + 1]
  OBVIOUS
<1>2. /\ ~w /\ d = [b EXCEPT !.content = d.content]
      /\ \A q \in Profiles : d.content[q] = Absent <=> b.content[q] = Absent
      /\ a # NoProfile => d.content[a] = b.content[a]
      /\ t[n] = Publish
      /\ \A i \in 1 .. n - 1 :
           /\ t[i].do = "commit" /\ t[i].ver # Absent
           /\ b.content[t[i].prof] # Absent
           /\ t[i].prof = a => n = 2 /\ d = b
  BY DEF RefreshStage
<1>3. n # 1
  <2>1. CASE n = 1
    <3>1. Left(t, d) = r
      BY <1>1, <1>2, <2>1, Steps, Planned
    <3>2. r = <<>>
      BY <1>1, <2>1, FirstStep
    <3>3. QED
      BY <3>1, <3>2
  <2>2. QED
    BY <2>1
<1>4. /\ h.do = "commit" /\ h.ver \in Versions /\ h.prof \in Profiles
      /\ b.content[h.prof] # Absent /\ (h.prof = a => n = 2 /\ d = b)
  <2>1. /\ h.do = "commit" /\ h.ver # Absent
        /\ b.content[h.prof] # Absent /\ (h.prof = a => n = 2 /\ d = b)
    BY <1>1, <1>2, <1>3
  <2>2. h.prof \in Profiles /\ h.ver \in Present
    BY <1>1, <2>1 DEF Step
  <2>3. QED
    BY <2>1, <2>2, VersionAssumption DEF Present, Versions, Absent
<1>5. f = CommitProfile(d, h.prof, h.ver) /\ x = FALSE /\ d.active = a
  <2>1. d.active = a
    BY <1>2 DEF Disk
  <2>2. QED
    BY <1>2, <1>4, <2>1 DEF After, Applies
<1>6. CASE h.prof = a /\ h.ver # d.content[a]
  <2>1. r = <<Publish>>
    <3>1. n = 2 /\ Publish \in Step
      BY <1>4, <1>6, StepTypes
    <3> HIDE DEF r, n
    <3>2. Len(r) = 1 /\ r[1] = t[1 + 1] /\ r \in Seq(Step)
      BY <1>1, <3>1
    <3>3. t[1 + 1] = Publish
      BY <1>2, <3>1
    <3>4. QED
      BY <3>1, <3>2, <3>3, OneStep
  <2>2. Left(t, d) = <<Do("apply", a)>> \o <<Publish>>
    BY <1>4, <1>5, <1>6, <2>1 DEF Left
  <2>3. Left(t, d) = <<Do("apply", a), Publish>>
    <3>1. Do("apply", a) \in Step /\ Publish \in Step
      BY <1>4, <1>6, StepTypes
    <3>2. QED
      BY <2>2, <3>1, TwoSteps
  <2>4. ReapplyStage(b, Left(t, d), f, x)
    BY <1>4, <1>5, <1>6, <2>3, NoProfileAssumption DEF ReapplyStage
  <2>5. QED
    BY <2>4
<1>7. CASE ~(h.prof = a /\ h.ver # d.content[a])
  <2>1. Left(t, d) = r
    BY <1>5, <1>7 DEF Left
  <2>2. /\ f \in Disk /\ f.content = [d.content EXCEPT ![h.prof] = h.ver]
        /\ f = [d EXCEPT !.content = f.content]
    <3>1. h.ver \in Present
      BY <1>4, VersionTypes
    <3>2. f \in Disk /\ f.content = [d.content EXCEPT ![h.prof] = h.ver]
      BY <1>4, <1>5, <3>1, CommitMakes
    <3>3. f = [d EXCEPT !.content = f.content]
      <4>1. f = [d EXCEPT !.content = [d.content EXCEPT ![h.prof] = h.ver]]
        BY <1>5 DEF CommitProfile
      <4> HIDE DEF f
      <4>2. QED
        BY <3>2, <4>1
    <3>4. QED
      BY <3>2, <3>3
  <2>3. f = [b EXCEPT !.content = f.content]
    <3>1. \A c, g : [[b EXCEPT !.content = c] EXCEPT !.content = g]
                      = [b EXCEPT !.content = g]
      BY DEF Disk
    <3> HIDE DEF f
    <3>2. f = [[b EXCEPT !.content = d.content] EXCEPT !.content = f.content]
      BY <1>2, <2>2
    <3>3. QED
      BY <3>1, <3>2
  <2>4. \A q \in Profiles : f.content[q] = Absent <=> b.content[q] = Absent
    <3>1. h.ver # Absent
      BY <1>4, VersionAssumption DEF Versions, Absent
    <3>2. d.content \in [Profiles -> Present]
      BY DEF Disk
    <3>3. QED
      BY <1>2, <1>4, <2>2, <3>1, <3>2
  <2>5. a # NoProfile => f.content[a] = b.content[a]
    <3>1. d.content \in [Profiles -> Present] /\ (a # NoProfile => a \in Profiles)
      BY <1>5 DEF Disk
    <3>2. QED
      BY <1>2, <1>4, <1>7, <2>2, <3>1
  <2>6. r[n - 1] = Publish
    BY <1>1, <1>2, <1>3
  <2>7. \A i \in 1 .. n - 2 :
          /\ r[i].do = "commit" /\ r[i].ver # Absent
          /\ b.content[r[i].prof] # Absent
          /\ r[i].prof # a
    <3>1. ASSUME NEW i \in 1 .. n - 2
          PROVE  r[i] = t[i + 1] /\ i + 1 \in 1 .. n - 1 /\ n # 2
      BY <1>1, <3>1
    <3>2. QED
      BY <1>2, <3>1
  <2> HIDE DEF f, x, r, n, h
  <2>8. RefreshStage(b, r, f, x)
    BY <1>1, <1>5, <2>3, <2>4, <2>5, <2>6, <2>7 DEF RefreshStage
  <2>9. QED
    BY <2>1, <2>8 DEF f, x, r, h
<1>8. QED
  BY <1>6, <1>7

LEMMA RefreshEnds ==
  ASSUME NEW p \in Procs, NEW b \in Disk, NEW st, NEW d \in Disk,
         NEW t \in Seq(Step), t # <<>>, NEW w \in BOOLEAN,
         RefreshStage(b, t, d, w), Left(t, d) = <<>>
  PROVE  ~w /\ After(p, st, Head(t), d) = WritePublic(d)
<1>1. Len(t) \in Nat \ {0} /\ Head(t) = t[1] /\ Tail(t) \in Seq(Step)
      /\ Len(Tail(t)) = Len(t) - 1
  OBVIOUS
<1>2. Tail(t) = <<>>
  <2>1. \A y : <<y>> \o Tail(t) # <<>>
    BY <1>1
  <2>2. QED
    BY <2>1 DEF Left
<1>3. Len(t) = 1
  BY <1>1, <1>2
<1>4. Head(t) = Publish
  BY <1>1, <1>3 DEF RefreshStage
<1>5. QED
  BY <1>4, AfterSteps DEF RefreshStage

-----------------------------------------------------------------------------
(* A successful step takes an operation to its next stage.                 *)
LEMMA StageGoesOn ==
  ASSUME NEW p \in Procs, NEW k, NEW b \in Disk, NEW st \in State, NEW d \in Disk,
         NEW t \in Seq(Step), t # <<>>, NEW w \in BOOLEAN,
         Stage(p, k, b, st, t, d, w), Left(t, d) # <<>>
  PROVE  Stage(p, k, b, st, Left(t, d), After(p, st, Head(t), d), Applies(t, w))
<1>1. CASE k = "init" /\ InitStage(p, b, st, t, d, w)
  BY <1>1, InitGoesOn DEF Stage
<1>2. CASE k = "set" /\ SetStage(p, b, st, t, d, w)
  BY <1>2, SetGoesOn DEF Stage
<1>3. CASE k = "add" /\ AddStage(p, b, st, t, d, w)
  BY <1>3, AddGoesOn DEF Stage
<1>4. CASE k = "use" /\ UseStage(p, b, st, t, d, w)
  BY <1>4, UseGoesOn DEF Stage
<1>5. CASE k = "doctor" /\ RepairStage(p, b, st, t, d, w)
  BY <1>5, RepairGoesOn DEF Stage
<1>6. CASE k = "remove" /\ RemoveStage(b, t, d, w)
  BY <1>6, RemoveGoesOn DEF Stage
<1>7. CASE k \in {"sync-public", "sync-client", "service"}
  <2>1. Len(t) = 1 /\ Head(t).do # "commit"
    BY <1>7, Steps DEF Stage, ServiceSteps
  <2>2. Left(t, d) = <<>>
    BY <2>1, FirstStep, Planned
  <2>3. QED
    BY <2>2
<1>8. CASE /\ k = "update" /\ b.state # NoState /\ st = b.state
           /\ RefreshStage(b, t, d, w)
  BY <1>8, RefreshGoesOn DEF Stage
<1>9. CASE /\ k = "update" /\ b.state # NoState /\ st = b.state
           /\ ReapplyStage(b, t, d, w)
  BY <1>9, ReapplyGoesOn DEF Stage
<1>10. QED
  BY <1>1, <1>2, <1>3, <1>4, <1>5, <1>6, <1>7, <1>8, <1>9 DEF Stage

(* What a finished batch of refreshed profiles leaves to the next one.     *)
LEMMA UpdateEnds ==
  ASSUME NEW p \in Procs, NEW b \in Disk, NEW st \in State, NEW d \in Disk,
         NEW t \in Seq(Step), t # <<>>, NEW w \in BOOLEAN,
         Stage(p, "update", b, st, t, d, w), Left(t, d) = <<>>
  PROVE  LET e == After(p, st, Head(t), d)
         IN  /\ e.state = b.state /\ e.active = b.active
             /\ \A q \in Profiles : e.content[q] = Absent <=> b.content[q] = Absent
<1> DEFINE e == After(p, st, Head(t), d)
<1>1. b.state # NoState /\ st = b.state
      /\ (RefreshStage(b, t, d, w) \/ ReapplyStage(b, t, d, w))
  BY DEF Stage
<1>2. CASE RefreshStage(b, t, d, w)
  <2>1. e = WritePublic(d)
    BY <1>2, RefreshEnds
  <2> HIDE DEF e
  <2>2. e.state = d.state /\ e.active = d.active /\ e.content = d.content
    BY <2>1, PublishMakes
  <2>3. d = [b EXCEPT !.content = d.content]
        /\ \A q \in Profiles : d.content[q] = Absent <=> b.content[q] = Absent
    BY <1>2 DEF RefreshStage
  <2>4. d.state = b.state /\ d.active = b.active
    BY <2>3 DEF Disk
  <2>5. QED
    BY <2>2, <2>3, <2>4 DEF e
<1>3. CASE ReapplyStage(b, t, d, w)
  <2> DEFINE a == b.active
  <2>1. a \in Profiles /\ b.content[a] # Absent
    BY <1>3 DEF ReapplyStage, Disk
  <2>2. PICK v \in Versions :
          e = WritePublic(InstallConfig(CommitProfile(b, a, v),
                                        Merge(b.state, CommitProfile(b, a, v), a)))
    BY <1>3, ReapplyEnds
  <2> DEFINE c == CommitProfile(b, a, v)
             i == InstallConfig(c, Merge(b.state, c, a))
  <2>3. c \in Disk /\ c.state = b.state /\ c.active = a
        /\ c.content = [b.content EXCEPT ![a] = v]
    BY <2>1, CommitMakes, VersionTypes
  <2> HIDE DEF e, c, i
  <2>4. Merge(b.state, c, a) \in Config
    BY <1>1, <2>1, <2>3, MergeType
  <2>5. i \in Disk /\ i.state = b.state /\ i.active = a /\ i.content = c.content
    BY <2>3, <2>4, InstallMakes DEF i
  <2>6. e.state = b.state /\ e.active = a /\ e.content = c.content
    BY <2>2, <2>5, PublishMakes DEF c, i
  <2>7. v # Absent /\ b.content \in [Profiles -> Present]
    BY VersionAssumption DEF Versions, Absent, Disk
  <2>8. QED
    BY <2>1, <2>3, <2>6, <2>7 DEF e
<1>4. QED
  BY <1>1, <1>2, <1>3

(* A process that works does so alone.                                     *)
LEMMA StagedAlone ==
  ASSUME StageInv, NEW p \in Procs, pc[p] \in Working,
         NEW x, pc' = [pc EXCEPT ![p] = x], Staged(p)'
  PROVE  \A q \in Procs : Staged(q)'
<1>1. ASSUME NEW q \in Procs, q # p PROVE Staged(q)'
  <2>1. pc'[q] \notin Working
    BY <1>1, OthersWait DEF StageInv, RollbackInv
  <2>2. QED
    BY <2>1 DEF Staged, Working, InFlight
<1>2. QED
  BY <1>1

(* What StepOK finds, and what it leaves behind.                           *)
LEMMA StepFinds ==
  ASSUME StageInv, NEW p \in Procs, pc[p] = "run"
  PROVE  /\ disk \in Disk /\ before[p] \in Disk /\ local[p] \in State
         /\ todo[p] \in Seq(Step) /\ todo[p] # <<>> /\ stack[p] \in Seq(Rollback)
         /\ pc[p] \in Working /\ owner = p
         /\ Guarded(p)
         /\ Stage(p, kind[p], before[p], local[p], todo[p], disk, Rewrites(p))
         /\ kind[p] = "update" => Waiting(queue[p], local[p], before[p], FALSE)
         /\ Rewrites(p) \in BOOLEAN
<1>1. Prepared(p) /\ Recoverable(p) /\ Staged(p)
  BY DEF StageInv, RollbackInv, TypeOK
<1>2. pc[p] \in Working
  BY DEF Working, InFlight
<1>3. QED
  BY <1>1, <1>2
  DEF StageInv, RollbackInv, TypeOK, Exclusive, Prepared, Recoverable, Staged,
      InFlight, Rewrites

LEMMA StepLeaves ==
  ASSUME StageInv, NEW p \in Procs, StepOK(p)
  PROVE  LET e == After(p, local[p], Head(todo[p]), disk)
             r == Left(todo[p], disk)
         IN  /\ disk' = e /\ todo'[p] = r
             /\ UNCHANGED <<kind, local, before, queue, owner>>
             /\ Rewrites(p)' <=> Applies(todo[p], Rewrites(p))
             /\ r # <<>> => UNCHANGED <<pc, torn>>
             /\ r = <<>> => /\ pc' = [pc EXCEPT ![p] = Continuation(p)]
                            /\ torn' = IF Rewrites(p) THEN FALSE ELSE torn
<1>1. /\ pc[p] = "run" /\ disk' = Effect(p, disk)
      /\ todo' = [todo EXCEPT ![p] = Following(p)]
      /\ stack' = [stack EXCEPT ![p] = IF Head(todo[p]).do = "apply"
                                       THEN <<"config">> \o @ ELSE @]
      /\ IF todo'[p] # <<>>
         THEN UNCHANGED <<pc, torn>>
         ELSE /\ pc' = [pc EXCEPT ![p] = Continuation(p)]
              /\ torn' = IF Rewrites(p) THEN FALSE ELSE torn
      /\ UNCHANGED <<kind, local, before, queue, owner>>
  BY DEF StepOK
<1>2. todo'[p] = Left(todo[p], disk)
  BY <1>1, StepIs DEF StageInv, RollbackInv, TypeOK
<1>3. Rewrites(p)' <=> Applies(todo[p], Rewrites(p))
  <2>1. stack[p] \in Seq(Rollback)
        /\ stack'[p] = IF Head(todo[p]).do = "apply" THEN <<"config">> \o stack[p]
                                                    ELSE stack[p]
    BY <1>1 DEF StageInv, RollbackInv, TypeOK
  <2>2. Head(<<"config">> \o stack[p]) = "config" /\ <<"config">> \o stack[p] # <<>>
    BY <2>1
  <2>3. QED
    BY <2>1, <2>2 DEF Rewrites, Applies
<1>4. QED
  BY <1>1, <1>2, <1>3, StepIs

LEMMA StepStaged ==
  ASSUME StageInv, NEW p \in Procs, StepOK(p)
  PROVE  \A q \in Procs : Staged(q)'
<1> DEFINE e == After(p, local[p], Head(todo[p]), disk)
           r == Left(todo[p], disk)
<1>1. pc[p] = "run" /\ pc[p] \in Working
  BY DEF StepOK, Working, InFlight
<1>2. CASE r # <<>>
  <2>1. /\ disk' = e /\ todo'[p] = r /\ pc' = pc
        /\ UNCHANGED <<kind, local, before, queue>>
        /\ Rewrites(p)' <=> Applies(todo[p], Rewrites(p))
    BY <1>2, StepLeaves
  <2>2. Stage(p, kind[p], before[p], local[p], r, e, Applies(todo[p], Rewrites(p)))
    BY <1>1, <1>2, StepFinds, StageGoesOn
  <2>3. Applies(todo[p], Rewrites(p)) \in BOOLEAN /\ Rewrites(p)' \in BOOLEAN
    BY DEF Applies, Rewrites
  <2>4. Rewrites(p)' = Applies(todo[p], Rewrites(p))
    BY <2>1, <2>3
  <2> HIDE DEF e, r
  <2>5. Staged(p)'
    BY <1>1, <2>1, <2>2, <2>4, StepFinds DEF Staged
  <2>6. pc' = [pc EXCEPT ![p] = "run"]
    BY <1>1, <2>1 DEF StageInv, RollbackInv, TypeOK
  <2>7. QED
    BY <1>1, <2>5, <2>6, StagedAlone
<1>3. CASE r = <<>>
  <2>1. /\ disk' = e /\ pc' = [pc EXCEPT ![p] = Continuation(p)]
        /\ pc'[p] = Continuation(p)
        /\ UNCHANGED <<kind, local, before, queue>>
    BY <1>3, StepLeaves DEF StageInv, RollbackInv, TypeOK
  <2>2. ASSUME pc'[p] = "batch"
        PROVE  kind[p] = "update" /\ Waiting(queue[p], local[p], e, TRUE)
    <3>1. queue[p] # <<>>
      BY <2>1, <2>2 DEF Continuation
    <3>2. kind[p] = "update"
      BY <1>1, <3>1 DEF StageInv, RollbackInv, Recoverable
    <3>3. /\ e.state = before[p].state /\ e.active = before[p].active
          /\ \A q \in Profiles : e.content[q] = Absent <=> before[p].content[q] = Absent
      <4>1. Stage(p, "update", before[p], local[p], todo[p], disk, Rewrites(p))
            /\ disk \in Disk /\ before[p] \in Disk /\ local[p] \in State
            /\ todo[p] \in Seq(Step) /\ todo[p] # <<>> /\ Rewrites(p) \in BOOLEAN
        BY <1>1, <3>2, StepFinds
      <4>2. QED
        BY <1>3, <4>1, UpdateEnds
    <3>4. Waiting(queue[p], local[p], before[p], FALSE) /\ queue[p] \in Seq(Target)
      BY <1>1, <3>2, StepFinds DEF StageInv, RollbackInv, TypeOK
    <3>5. \A i \in 1 .. Len(queue[p]) : queue[p][i].prof \in Profiles
      <4>1. \A i \in 1 .. Len(queue[p]) : queue[p][i] \in Target
        BY <3>4
      <4>2. QED
        BY <4>1 DEF Target
    <3> HIDE DEF e
    <3>6. Waiting(queue[p], local[p], e, TRUE)
      BY <3>3, <3>4, <3>5 DEF Waiting
    <3>7. QED
      BY <3>2, <3>6
  <2> HIDE DEF e, r
  <2>3. pc'[p] \in {"done", "batch"}
    BY <2>1 DEF Continuation
  <2>4. Staged(p)'
    BY <2>1, <2>2, <2>3 DEF Staged
  <2>5. QED
    BY <1>1, <2>1, <2>4, StagedAlone
<1>4. QED
  BY <1>2, <1>3

(* Every operation begins at its first stage.                              *)
LEMMA BeginStaged ==
  ASSUME StageInv, NEW p \in Procs, pc[p] = "ready",
         NEW k, NEW st, NEW guards \in {<<>>, <<"files">>, <<"store", "files">>},
         NEW steps, Begin(p, k, st, guards, steps),
         Stage(p, k, disk, st, steps, disk, FALSE), k # "update"
  PROVE  \A q \in Procs : Staged(q)'
<1>1. /\ disk' = disk /\ pc' = [pc EXCEPT ![p] = "run"] /\ pc'[p] = "run"
      /\ kind'[p] = k /\ local'[p] = st /\ todo'[p] = steps
      /\ stack'[p] = guards /\ before'[p] = disk
  BY DEF Begin, StageInv, RollbackInv, TypeOK
<1>2. guards = <<>> \/ Head(guards) # "config"
  OBVIOUS
<1>3. Rewrites(p)' = FALSE
  BY <1>1, <1>2 DEF Rewrites
<1>4. Staged(p)'
  BY <1>1, <1>3 DEF Staged
<1>5. QED
  BY <1>1, <1>4, StagedAlone DEF Working

LEMMA StartStaged ==
  ASSUME StageInv, NEW p \in Procs, Start(p)
  PROVE  \A q \in Procs : Staged(q)'
<1>1. /\ disk \in Disk /\ pc[p] = "ready" /\ mem[p] = disk.state
  <2>1. pc[p] = "ready"
    BY DEF Start, StartInitialize, StartChangeSetting, StartAddProfile,
           StartUseProfile, StartRemoveProfile, StartSyncPublic, StartSyncClient,
           StartRepair, StartService, StartUpdate
  <2>2. QED
    BY <2>1 DEF StageInv, MemoryInv, Remembers, TypeOK
<1> DEFINE b == disk
<1>2. CASE StartInitialize(p)
  <2>1. PICK c \in Controllers :
          LET s == IF mem[p] = NoState THEN disk.installed.settings
                                       ELSE mem[p].settings
              import == IF disk.active = NoProfile
                        THEN <<DoVer("import", Sys, 1)>> ELSE <<>>
              q == IF disk.active = NoProfile THEN Sys ELSE disk.active
          IN  Begin(p, "init", [ctl |-> c, settings |-> s], <<"store", "files">>,
                    import \o <<Do("apply", q), Do("save", q), Publish,
                                Do("client", q)>>)
    BY <1>2 DEF StartInitialize
  <2> DEFINE s == IF mem[p] = NoState THEN disk.installed.settings
                                      ELSE mem[p].settings
             st == [ctl |-> c, settings |-> s]
             import == IF disk.active = NoProfile
                       THEN <<DoVer("import", Sys, 1)>> ELSE <<>>
             q == IF disk.active = NoProfile THEN Sys ELSE disk.active
             rest == <<Do("apply", q), Do("save", q), Publish, Do("client", q)>>
             e == IF b.active = NoProfile THEN WriteProfile(b, Sys, 1) ELSE b
  <2>2. e.active = q
    BY <1>1 DEF WriteProfile, Disk
  <2>3. b.active = NoProfile \/ Readable(b)
    BY <1>2 DEF StartInitialize
  <2>4. st.settings = IF b.state = NoState THEN b.installed.settings
                                           ELSE b.state.settings
    BY <1>1
  <2>5. \/ /\ b.active = NoProfile
           /\ import \o rest = <<DoVer("import", Sys, 1), Do("apply", q),
                                 Do("save", q), Publish, Do("client", q)>>
        \/ b = e /\ import \o rest = rest
    <3>1. CASE b.active = NoProfile
      <4>1. import = <<DoVer("import", Sys, 1)>>
        BY <3>1
      <4>2. /\ DoVer("import", Sys, 1) \in Step /\ Publish \in Step
            /\ Do("apply", q) \in Step /\ Do("save", q) \in Step
            /\ Do("client", q) \in Step
        BY <3>1, SysAssumption, StepTypes, VersionTypes
      <4> HIDE DEF import
      <4>3. QED
        BY <3>1, <4>1, <4>2, FiveSteps
    <3>2. CASE b.active # NoProfile
      <4>1. import = <<>> /\ rest \in Seq({Do("apply", q), Do("save", q), Publish,
                                           Do("client", q)})
        BY <3>2
      <4> HIDE DEF import, rest
      <4>2. import \o rest = rest
        BY <4>1
      <4>3. QED
        BY <3>2, <4>2
    <3>3. QED
      BY <3>1, <3>2
  <2> HIDE DEF import, rest, st
  <2>6. InitStage(p, b, st, import \o rest, b, FALSE)
    BY <2>2, <2>3, <2>4, <2>5 DEF InitStage, rest
  <2>7. Begin(p, "init", st, <<"store", "files">>, import \o rest)
    BY <2>1 DEF st, import, rest
  <2>8. Stage(p, "init", b, st, import \o rest, b, FALSE)
    BY <2>6 DEF Stage
  <2>9. QED
    BY <1>1, <2>7, <2>8, BeginStaged
<1>3. CASE StartChangeSetting(p)
  <2>1. PICK f \in Fields, v \in Values :
          Begin(p, "set", [mem[p] EXCEPT !.settings[f] = v], <<"files">>,
                <<Do("apply", disk.active), Do("save", disk.active),
                  Do("client", disk.active), Publish>>)
    BY <1>3 DEF StartChangeSetting
  <2> DEFINE st == [mem[p] EXCEPT !.settings[f] = v]
             t  == <<Do("apply", b.active), Do("save", b.active),
                     Do("client", b.active), Publish>>
  <2>2. b.state # NoState /\ Readable(b) /\ st = [b.state EXCEPT !.settings[f] = v]
    BY <1>1, <1>3 DEF StartChangeSetting
  <2>3. Begin(p, "set", st, <<"files">>, t)
    BY <2>1
  <2> HIDE DEF st
  <2>4. SetStage(p, b, st, t, b, FALSE)
    BY <2>2 DEF SetStage
  <2> HIDE DEF t
  <2>5. Stage(p, "set", b, st, t, b, FALSE)
    BY <2>4 DEF Stage
  <2>6. QED
    BY <1>1, <2>3, <2>5, BeginStaged
<1>4. CASE StartAddProfile(p)
  <2>1. PICK q \in Profiles \ {Sys, disk.active}, v \in Versions :
          /\ disk.content[q] = Absent
          /\ Begin(p, "add", mem[p], <<"store", "files">>,
                   <<DoVer("add", q, v)>>
                   \o (IF disk.active = NoProfile
                       THEN <<Do("apply", q), Do("client", q)>> ELSE <<>>)
                   \o <<Publish>>)
    BY <1>4 DEF StartAddProfile
  <2> DEFINE t == <<DoVer("add", q, v)>>
                   \o (IF disk.active = NoProfile
                       THEN <<Do("apply", q), Do("client", q)>> ELSE <<>>)
                   \o <<Publish>>
  <2>2. IF b.active = NoProfile
        THEN t = <<DoVer("add", q, v), Do("apply", q), Do("client", q), Publish>>
        ELSE t = <<DoVer("add", q, v), Publish>>
    <3>1. DoVer("add", q, v) \in Step /\ Publish \in Step
      BY StepTypes, VersionTypes
    <3>2. CASE b.active = NoProfile
      <4>1. t = <<DoVer("add", q, v)>> \o <<Do("apply", q), Do("client", q)>>
                  \o <<Publish>>
        BY <3>2
      <4>2. Do("apply", q) \in Step /\ Do("client", q) \in Step
        BY StepTypes
      <4> HIDE DEF t
      <4>3. QED
        BY <3>1, <3>2, <4>1, <4>2, FourSteps
    <3>3. CASE b.active # NoProfile
      <4>1. t = <<DoVer("add", q, v)>> \o <<>> \o <<Publish>>
        BY <3>3
      <4>2. \A s \in Seq(Step) : s \o <<>> = s
        OBVIOUS
      <4>3. <<DoVer("add", q, v)>> \o <<>> = <<DoVer("add", q, v)>>
        BY <3>1, <4>2
      <4> HIDE DEF t
      <4>4. QED
        BY <3>1, <3>3, <4>1, <4>3, TwoSteps
    <3>4. QED
      BY <3>2, <3>3
  <2>3. Begin(p, "add", mem[p], <<"store", "files">>, t)
    BY <2>1
  <2> HIDE DEF t
  <2>4. IF b.active = NoProfile THEN FirstStage(p, b, mem[p], q, v, t, b, FALSE)
                                ELSE MoreStage(b, q, v, t, b, FALSE)
    BY <2>2 DEF FirstStage, MoreStage
  <2>5. AddStage(p, b, mem[p], t, b, FALSE)
    BY <1>1, <1>4, <2>1, <2>4 DEF AddStage, StartAddProfile
  <2>6. Stage(p, "add", b, mem[p], t, b, FALSE)
    BY <2>5 DEF Stage
  <2>7. QED
    BY <1>1, <2>3, <2>6, BeginStaged
<1>5. CASE StartUseProfile(p)
  <2>1. PICK q \in Profiles \ {disk.active} :
          /\ disk.content[q] # Absent
          /\ Begin(p, "use", mem[p], <<"store", "files">>,
                   <<Do("remember", disk.active), Do("apply", q), Do("use", q),
                     Publish, Do("client", q)>>)
    BY <1>5 DEF StartUseProfile
  <2> DEFINE t == <<Do("remember", b.active), Do("apply", q), Do("use", q),
                    Publish, Do("client", q)>>
  <2>2. UseStage(p, b, mem[p], t, b, FALSE)
    BY <1>1, <1>5, <2>1 DEF UseStage, StartUseProfile
  <2>3. Begin(p, "use", mem[p], <<"store", "files">>, t)
    BY <2>1
  <2> HIDE DEF t
  <2>4. Stage(p, "use", b, mem[p], t, b, FALSE)
    BY <2>2 DEF Stage
  <2>5. QED
    BY <1>1, <2>3, <2>4, BeginStaged
<1>6. CASE StartRemoveProfile(p)
  <2>1. PICK q \in Profiles \ {disk.active} :
          /\ disk.content[q] # Absent
          /\ Begin(p, "remove", mem[p], <<"store", "files">>,
                   <<Do("remove", q), Publish>>)
    BY <1>6 DEF StartRemoveProfile
  <2>2. RemoveStage(b, <<Do("remove", q), Publish>>, b, FALSE)
    BY <1>1, <1>6, <2>1 DEF RemoveStage, StartRemoveProfile
  <2>3. Stage(p, "remove", b, mem[p], <<Do("remove", q), Publish>>, b, FALSE)
    BY <2>2 DEF Stage
  <2>4. QED
    BY <1>1, <2>1, <2>3, BeginStaged
<1>7. CASE StartSyncPublic(p)
  <2>1. Stage(p, "sync-public", b, mem[p], <<Publish>>, b, FALSE)
    BY <1>1, <1>7 DEF StartSyncPublic, Stage
  <2>2. QED
    BY <1>1, <1>7, <2>1, BeginStaged DEF StartSyncPublic
<1>8. CASE StartSyncClient(p)
  <2>1. Stage(p, "sync-client", b, mem[p], <<Do("client", b.active)>>, b, FALSE)
    BY <1>1, <1>8 DEF StartSyncClient, Stage
  <2>2. QED
    BY <1>1, <1>8, <2>1, BeginStaged DEF StartSyncClient
<1>9. CASE StartRepair(p)
  <2> DEFINE t == <<Do("apply", b.active), Publish, Do("client", b.active)>>
  <2>1. RepairStage(p, b, mem[p], t, b, FALSE)
    BY <1>1, <1>9 DEF StartRepair, RepairStage
  <2>2. Begin(p, "doctor", mem[p], <<"files">>, t)
    BY <1>9 DEF StartRepair
  <2> HIDE DEF t
  <2>3. Stage(p, "doctor", b, mem[p], t, b, FALSE)
    BY <2>1 DEF Stage
  <2>4. QED
    BY <1>1, <2>2, <2>3, BeginStaged
<1>10. CASE StartService(p)
  <2>1. PICK a \in {"start", "stop", "restart"} :
          Begin(p, "service", mem[p], <<>>, <<Do(a, NoProfile)>>)
    BY <1>10 DEF StartService
  <2>2. Stage(p, "service", b, mem[p], <<Do(a, NoProfile)>>, b, FALSE)
    BY DEF Stage, ServiceSteps
  <2>3. QED
    BY <1>1, <2>1, <2>2, BeginStaged
<1>11. CASE StartUpdate(p)
  <2>1. PICK n \in 1 .. MaxTargets : \E order \in Orders(n), new \in [1 .. n -> Versions] :
          queue' = [queue EXCEPT ![p] =
                      [i \in 1 .. n |-> [prof |-> order[i], ver |-> new[i]]]]
    BY <1>11 DEF StartUpdate
  <2>2. PICK order \in Orders(n), new \in [1 .. n -> Versions] :
          queue' = [queue EXCEPT ![p] =
                      [i \in 1 .. n |-> [prof |-> order[i], ver |-> new[i]]]]
    BY <2>1
  <2> DEFINE ts == [i \in 1 .. n |-> [prof |-> order[i], ver |-> new[i]]]
  <2>3. n \in Nat
    BY TargetAssumption
  <2>4. \A i \in 1 .. n : /\ ts[i].prof = order[i] /\ order[i] \in Sources
                          /\ order[i] = b.active => i = 1
    BY DEF Orders
  <2>5. Len(ts) = n
    <3>1. ts \in Seq({ts[i] : i \in 1 .. n}) /\ DOMAIN ts = 1 .. n
      BY <2>3
    <3>2. QED
      BY <2>3, <3>1
  <2>6. /\ disk' = disk /\ pc' = [pc EXCEPT ![p] = "batch"] /\ pc'[p] = "batch"
        /\ kind'[p] = "update" /\ local'[p] = mem[p] /\ queue'[p] = ts
        /\ mem[p] # NoState
    BY <1>11, <2>2 DEF StartUpdate, StageInv, RollbackInv, TypeOK
  <2> HIDE DEF ts
  <2>7. Waiting(ts, mem[p], b, TRUE)
    BY <1>1, <2>4, <2>5, <2>6 DEF Waiting, Sources
  <2>8. Staged(p)'
    BY <2>6, <2>7 DEF Staged
  <2>9. QED
    BY <1>1, <2>6, <2>8, StagedAlone DEF Working
<1>12. QED
  BY <1>2, <1>3, <1>4, <1>5, <1>6, <1>7, <1>8, <1>9, <1>10, <1>11 DEF Start

(* The lock and the loop over batches.                                     *)
LEMMA LockStaged ==
  ASSUME StageInv, NEW p \in Procs,
         \/ Request(p) \/ Cancel(p) \/ Acquire(p) \/ Reload(p) \/ Refuse(p)
         \/ NextBatch(p) \/ Release(p) \/ Crash(p)
  PROVE  \A q \in Procs : Staged(q)'
<1>1. CASE Request(p) \/ Cancel(p) \/ Acquire(p)
  <2>1. \A q \in Procs : pc'[q] \in InFlight \cup {"batch"} => pc'[q] = pc[q]
    BY <1>1 DEF StageInv, RollbackInv, TypeOK, Request, Cancel, Acquire, InFlight
  <2>2. UNCHANGED <<disk, kind, local, queue, todo, stack, before>>
    BY <1>1 DEF Request, Cancel, Acquire, job
  <2>3. ASSUME NEW q \in Procs PROVE Staged(q)'
    <3>1. CASE pc'[q] \in InFlight \cup {"batch"}
      <4>1. Staged(q) /\ pc'[q] = pc[q]
        BY <2>1, <3>1 DEF StageInv
      <4>2. Rewrites(q)' = Rewrites(q)
        BY <2>2 DEF Rewrites
      <4>3. QED
        BY <2>2, <4>1, <4>2 DEF Staged
    <3>2. CASE pc'[q] \notin InFlight \cup {"batch"}
      BY <3>2 DEF Staged, InFlight
    <3>3. QED
      BY <3>1, <3>2
  <2>4. QED
    BY <2>3
<1>2. CASE Reload(p) \/ Refuse(p) \/ Release(p) \/ Crash(p)
  <2>1. PICK x \in {"ready", "done", "idle"} : pc' = [pc EXCEPT ![p] = x]
    BY <1>2 DEF Reload, Refuse, Release, Crash
  <2>2. pc[p] \in Working
    BY <1>2 DEF Reload, Refuse, Release, Crash, Working
  <2>3. Staged(p)'
    BY <2>1 DEF StageInv, RollbackInv, TypeOK, Staged
  <2>4. QED
    BY <2>1, <2>2, <2>3, StagedAlone
<1>3. CASE NextBatch(p)
  <2> DEFINE t == Batch(p)
             m == Len(t)
             ts == queue[p]
             rest == SubSeq(ts, m, Len(ts))
  <2>1. TypeOK /\ pc[p] = "batch" /\ pc[p] \in Working
    BY <1>3 DEF NextBatch, StageInv, RollbackInv, Working
  <2>2. kind[p] = "update" /\ Waiting(ts, local[p], disk, TRUE)
    BY <2>1 DEF StageInv, Staged
  <2>3. /\ m \in Nat /\ m >= 2 /\ t[m] = Publish /\ m - 1 <= Len(ts)
        /\ \A i \in 1 .. m - 1 : t[i] = DoVer("commit", ts[i].prof, ts[i].ver)
        /\ ts[1].prof = disk.active => m = 2
        /\ queue'[p] = rest
    BY <1>3, <2>1, BatchShape
  <2>4. /\ disk \in Disk /\ disk' = disk /\ pc' = [pc EXCEPT ![p] = "run"]
        /\ pc'[p] = "run" /\ kind'[p] = kind[p] /\ local'[p] = local[p]
        /\ stack'[p] = <<"store", "files">> /\ todo'[p] = t /\ before'[p] = disk
    BY <1>3, <2>1 DEF NextBatch, TypeOK, Batch
  <2>5. Rewrites(p)' = FALSE
    BY <2>4 DEF Rewrites
  <2>6. ts \in Seq(Target) /\ Len(ts) \in Nat /\ \A i \in 1 .. Len(ts) : ts[i] \in Target
    BY <2>1 DEF TypeOK
  <2> HIDE DEF t, m
  <2>7. ASSUME NEW i \in 1 .. m - 1
        PROVE  /\ t[i].do = "commit" /\ t[i].ver # Absent
               /\ disk.content[t[i].prof] # Absent
               /\ t[i].prof = disk.active => m = 2
    <3>1. i \in 1 .. Len(ts) /\ t[i] = DoVer("commit", ts[i].prof, ts[i].ver)
      BY <2>3, <2>6, <2>7
    <3>2. ts[i].ver # Absent
      BY <2>6, <3>1, VersionAssumption DEF Target, Versions, Absent
    <3>3. /\ disk.content[ts[i].prof] # Absent
          /\ ts[i].prof = disk.active => i = 1
      BY <2>2, <3>1 DEF Waiting
    <3>4. QED
      BY <2>3, <3>1, <3>2, <3>3, Steps
  <2>8. RefreshStage(disk, t, disk, FALSE)
    <3>1. disk = [disk EXCEPT !.content = disk.content]
      BY <2>4 DEF Disk
    <3>2. QED
      BY <2>3, <2>7, <3>1 DEF RefreshStage, m
  <2>9. Stage(p, kind[p], disk, local[p], t, disk, FALSE)
    BY <2>2, <2>8 DEF Stage, Waiting
  <2>10. Waiting(rest, local[p], disk, FALSE)
    <3>1. \A i \in 1 .. Len(rest) :
            /\ m - 1 + i \in 1 .. Len(ts) /\ rest[i] = ts[m - 1 + i] /\ m - 1 + i # 1
      BY <2>3, <2>6
    <3> HIDE DEF rest
    <3>2. QED
      BY <2>2, <3>1 DEF Waiting
  <2> HIDE DEF rest
  <2>11. Staged(p)'
    BY <2>2, <2>3, <2>4, <2>5, <2>9, <2>10 DEF Staged
  <2>12. QED
    BY <2>1, <2>4, <2>11, StagedAlone
<1>4. QED
  BY <1>1, <1>2, <1>3

(* An update whose apply failed has its store to restore, and nothing else *)
(* than the service changed since its checkpoints.                         *)
LEMMA ReapplyFails ==
  ASSUME NEW p \in Procs, NEW b \in Disk, NEW d \in Disk, NEW t, NEW w,
         ReapplyStage(b, t, d, w), Head(t).do = "apply",
         NEW e \in {d, [d EXCEPT !.running = Reloaded(d, d.installed)]}
  PROVE  Back(e, b, p, {"store"}) \in Undone(b)
<1> DEFINE a == b.active
           u == [b EXCEPT !.running = Reloaded(b, b.installed)]
           r == Back(e, b, p, {"store"})
<1>1. PICK v \in Versions : d = CommitProfile(b, a, v)
  BY Steps DEF ReapplyStage
<1>2. /\ d.state = b.state /\ d.active = a /\ d.installed = b.installed
      /\ d.running = b.running /\ d.public = b.public /\ d.client = b.client
  BY <1>1 DEF CommitProfile, Disk
<1>3. e \in Disk /\ u \in Disk
  BY DEF Reloaded, Disk
<1>4. /\ e.state = b.state /\ e.installed = b.installed
      /\ e.public = b.public /\ e.client = b.client
      /\ e.running \in {b.running, Reloaded(b, b.installed)}
  BY <1>2 DEF Reloaded, Disk
<1>5. r \in Disk
  BY <1>3, BackType
<1>6. /\ r.state = b.state /\ r.active = b.active /\ r.content = b.content
      /\ r.installed = b.installed /\ r.public = b.public /\ r.client = b.client
      /\ r.running \in {b.running, Reloaded(b, b.installed)}
  BY <1>4 DEF Back
<1>7. /\ u.state = b.state /\ u.active = b.active /\ u.content = b.content
      /\ u.installed = b.installed /\ u.running = Reloaded(b, b.installed)
      /\ u.public = b.public /\ u.client = b.client
  BY DEF Disk
<1> HIDE DEF r, u
<1>8. r = b \/ r = u
  BY <1>3, <1>5, <1>6, <1>7, SameDisk
<1>9. QED
  BY <1>8 DEF Undone, r, u

LEMMA FailStaged ==
  ASSUME StageInv, NEW p \in Procs,
         \/ StepFails(p) \/ ApplyFails(p) \/ ApplyBreaks(p)
         \/ RestoreStore(p) \/ RestoreStoreFails(p) \/ UndoOK(p) \/ UndoFails(p)
  PROVE  \A q \in Procs : Staged(q)'
<1>1. CASE StepFails(p) \/ ApplyBreaks(p) \/ RestoreStoreFails(p)
  <2>1. /\ pc[p] \in {"run", "restore"} /\ pc[p] \in Working
        /\ \E x \in {"done", "undo"} : pc' = [pc EXCEPT ![p] = x]
    BY <1>1 DEF StepFails, ApplyBreaks, RestoreStoreFails, Unwinding, Working, InFlight
  <2>2. Staged(p)'
    BY <2>1 DEF Staged, StageInv, RollbackInv, TypeOK
  <2>3. QED
    BY <2>1, <2>2, StagedAlone
<1>2. CASE UndoOK(p) \/ UndoFails(p)
  <2>1. pc[p] = "undo" /\ pc[p] \in Working /\ Unwind(p)
    BY <1>2 DEF UndoOK, UndoFails, Working, InFlight
  <2>2. PICK x \in {"done", "undo"} : pc' = [pc EXCEPT ![p] = x]
    <3>1. pc = [pc EXCEPT ![p] = "undo"]
      BY <2>1 DEF StageInv, RollbackInv, TypeOK
    <3>2. QED
      BY <2>1, <3>1 DEF Unwind
  <2>3. Staged(p)'
    BY <2>2 DEF Staged, StageInv, RollbackInv, TypeOK
  <2>4. QED
    BY <2>1, <2>2, <2>3, StagedAlone
<1>3. CASE ApplyFails(p)
  <2>1. /\ pc[p] = "run" /\ Head(todo[p]).do = "apply"
        /\ disk' \in {disk, [disk EXCEPT !.running = Reloaded(disk, disk.installed)]}
        /\ UNCHANGED <<kind, local, queue, before>>
    BY <1>3 DEF ApplyFails, job
  <2>2. PICK x \in {"done", "restore", "undo"} :
          /\ pc' = [pc EXCEPT ![p] = x] /\ pc'[p] = x
          /\ x = "restore" => kind[p] = "update"
    BY <1>3 DEF ApplyFails, Unwinding, StageInv, RollbackInv, TypeOK
  <2>3. ASSUME kind[p] = "update"
        PROVE  Back(disk', before[p], p, {"store"}) \in Undone(before[p])
    <3>1. Stage(p, "update", before[p], local[p], todo[p], disk, Rewrites(p))
          /\ todo[p] \in Seq(Step) /\ todo[p] # <<>>
          /\ disk \in Disk /\ before[p] \in Disk
      BY <2>1, <2>3, StepFinds
    <3>2. ~RefreshStage(before[p], todo[p], disk, Rewrites(p))
      <4>1. Len(todo[p]) \in Nat \ {0} /\ Head(todo[p]) = todo[p][1]
        BY <3>1
      <4>2. QED
        BY <2>1, <4>1, Steps DEF RefreshStage
    <3>3. ReapplyStage(before[p], todo[p], disk, Rewrites(p))
      BY <3>1, <3>2 DEF Stage
    <3>4. QED
      BY <2>1, <3>1, <3>3, ReapplyFails
  <2>4. kind[p] = "update" => Waiting(queue[p], local[p], before[p], FALSE)
    BY <2>1, StepFinds
  <2>5. Staged(p)'
    BY <2>1, <2>2, <2>3, <2>4 DEF Staged
  <2>6. QED
    BY <2>1, <2>2, <2>5, StagedAlone DEF Working, InFlight
<1>4. CASE RestoreStore(p)
  <2>1. /\ pc[p] = "restore" /\ pc[p] \in Working
        /\ disk' = Restored(disk, p, {"store"})
        /\ pc' = [pc EXCEPT ![p] = Continuation(p)] /\ pc'[p] = Continuation(p)
        /\ UNCHANGED <<kind, local, queue, before>>
    BY <1>4 DEF RestoreStore, job, Working, InFlight, StageInv, RollbackInv, TypeOK
  <2>2. /\ kind[p] = "update" /\ disk' \in Undone(before[p])
        /\ Waiting(queue[p], local[p], before[p], FALSE)
    BY <2>1, BackIs DEF StageInv, Staged
  <2>3. before[p] \in Disk
    BY <2>1 DEF StageInv, RollbackInv, TypeOK, Prepared, InFlight
  <2>4. /\ disk'.state = before[p].state /\ disk'.active = before[p].active
        /\ disk'.content = before[p].content
    BY <2>2, <2>3 DEF Undone, Disk
  <2>5. Waiting(queue[p], local[p], disk', TRUE)
    BY <2>2, <2>4 DEF Waiting
  <2>6. pc'[p] \in {"done", "batch"}
    BY <2>1 DEF Continuation
  <2>7. Staged(p)'
    BY <2>1, <2>2, <2>5, <2>6 DEF Staged
  <2>8. QED
    BY <2>1, <2>7, StagedAlone
<1>5. QED
  BY <1>1, <1>2, <1>3, <1>4

LEMMA StageStep == StageInv /\ [Next]_vars => StageInv'
<1> SUFFICES ASSUME StageInv, [Next]_vars PROVE StageInv'
  OBVIOUS
<1>1. \A q \in Procs : Staged(q)'
  <2>1. CASE UNCHANGED vars
    BY <2>1 DEF vars, StageInv, Staged, Rewrites
  <2>2. ASSUME NEW p \in Procs,
               Request(p) \/ Cancel(p) \/ Acquire(p) \/ Work(p) \/ Crash(p)
        PROVE  \A q \in Procs : Staged(q)'
    BY <2>2, StartStaged, LockStaged, StepStaged, FailStaged DEF Work
  <2>3. QED
    BY <2>1, <2>2 DEF Next
<1>2. MemoryInv' /\ RollbackInv'
  BY MemoryStep, RollbackStep DEF StageInv
<1>3. QED
  BY <1>1, <1>2 DEF StageInv

LEMMA QuietStages == disk \in Disk /\ Quiet => StageInv
<1>1. Quiet => \A p \in Procs : Staged(p)
  BY DEF Quiet, Staged
<1>2. QED
  BY <1>1, QuietRemembers, QuietRecovers DEF StageInv

-----------------------------------------------------------------------------
(* Every step of a process is a step of AtomicMutation, or none.           *)
AbsStep == Abs!Next \/ UNCHANGED <<Visible, torn>>

LEMMA VisibleIs ==
  ASSUME Exclusive, NEW p \in Procs, pc[p] \in Working
  PROVE  Visible = IF pc[p] \in InFlight THEN before[p] ELSE disk
BY DEF Exclusive, Visible

LEMMA VisibleNext ==
  ASSUME StageInv, NEW p \in Procs, pc[p] \in Working,
         NEW x, pc' = [pc EXCEPT ![p] = x], UNCHANGED <<owner, before>>
  PROVE  Visible' = IF x \in InFlight THEN before[p] ELSE disk'
<1>1. owner = p /\ owner' = p /\ pc'[p] = x /\ before' = before
  BY DEF StageInv, RollbackInv, Exclusive, TypeOK
<1>2. QED
  BY <1>1 DEF Visible

(* What an operation that succeeds makes of the disk it captured is what   *)
(* the abstract one makes of it.                                           *)
LEMMA Finishes ==
  ASSUME NEW p \in Procs, NEW k, NEW st \in State, NEW d \in Disk,
         NEW t \in Seq(Step), t # <<>>, NEW w \in BOOLEAN,
         Visible \in Disk, Visible' = After(p, st, Head(t), d),
         torn' = IF w THEN FALSE ELSE torn,
         Stage(p, k, Visible, st, t, d, w), Left(t, d) = <<>>
  PROVE  AbsStep
<1> DEFINE b == Visible
           e == After(p, st, Head(t), d)
<1>1. CASE k = "init" /\ InitStage(p, b, st, t, d, w)
  <2> DEFINE f == IF b.active = NoProfile THEN WriteProfile(b, Sys, 1) ELSE b
             s == IF b.state = NoState THEN b.installed.settings
                                       ELSE b.state.settings
  <2>1. w /\ Visible' = Abs!Rewritten(f, p, st, f.active)
    BY <1>1, InitEnds
  <2>2. PICK c \in Controllers : st = [ctl |-> c, settings |-> s]
    <3>1. st = [ctl |-> st.ctl, settings |-> st.settings] /\ st.ctl \in Controllers
      BY DEF State
    <3>2. st.settings = s
      BY <1>1 DEF InitStage
    <3>3. QED
      BY <3>1, <3>2
  <2>3. b.active = NoProfile \/ Readable(b)
    BY <1>1 DEF InitStage
  <2>4. Abs!Initialize(p)
    BY <2>1, <2>2, <2>3, AbsIs DEF Abs!Initialize
  <2>5. QED
    BY <2>4 DEF Abs!Next, AbsStep
<1>2. CASE k = "set" /\ SetStage(p, b, st, t, d, w)
  <2>1. w /\ Visible' = Abs!Rewritten(b, p, st, b.active)
    BY <1>2, SetEnds
  <2>2. /\ b.state # NoState /\ Readable(b)
        /\ \E f \in Fields, v \in Values : st = [b.state EXCEPT !.settings[f] = v]
    BY <1>2 DEF SetStage
  <2>3. Abs!ChangeSetting(p)
    BY <2>1, <2>2, AbsIs DEF Abs!ChangeSetting
  <2>4. QED
    BY <2>3 DEF Abs!Next, AbsStep
<1>3. CASE k = "add" /\ AddStage(p, b, st, t, d, w)
  <2>1. b.state # NoState /\ st = b.state
    BY <1>3 DEF AddStage
  <2>2. PICK q \in Profiles, v \in Versions :
          /\ b.content[q] = Absent
          /\ LET f == WriteProfile(b, q, v)
             IN  IF b.active = NoProfile
                 THEN w /\ e = Abs!Rewritten(f, p, st, q)
                 ELSE ~w /\ e = WritePublic(f)
    BY <1>3, AddEnds
  <2>3. Abs!AddProfile(p)
    <3>1. CASE b.active = NoProfile
      BY <2>1, <2>2, <3>1, AbsIs DEF Abs!AddProfile
    <3>2. CASE b.active # NoProfile
      BY <2>1, <2>2, <3>2, AbsIs DEF Abs!AddProfile
    <3>3. QED
      BY <3>1, <3>2
  <2>4. QED
    BY <2>3 DEF Abs!Next, AbsStep
<1>4. CASE k = "use" /\ UseStage(p, b, st, t, d, w)
  <2>1. b.state # NoState /\ st = b.state
    BY <1>4 DEF UseStage
  <2>2. w /\ \E q \in Profiles \ {b.active} :
               b.content[q] # Absent /\ Visible' = Abs!Rewritten(b, p, st, q)
    BY <1>4, UseEnds
  <2>3. Abs!UseProfile(p)
    BY <2>1, <2>2, AbsIs DEF Abs!UseProfile
  <2>4. QED
    BY <2>3 DEF Abs!Next, AbsStep
<1>5. CASE k = "doctor" /\ RepairStage(p, b, st, t, d, w)
  <2>1. w /\ Visible' = Abs!Rewritten(b, p, st, b.active)
    BY <1>5, RepairEnds
  <2>2. b.state # NoState /\ st = b.state /\ Readable(b)
    BY <1>5 DEF RepairStage
  <2>3. Abs!Repair(p)
    BY <2>1, <2>2, AbsIs DEF Abs!Repair
  <2>4. QED
    BY <2>3 DEF Abs!Next, AbsStep
<1>6. CASE k = "remove" /\ RemoveStage(b, t, d, w)
  <2>1. ~w /\ \E q \in Profiles \ {b.active} :
                b.content[q] # Absent /\ Visible' = WritePublic(DropProfile(b, q))
    <3>1. RemoveStage(b, t, d, w) /\ b \in Disk
      BY <1>6
    <3>2. e = Visible'
      OBVIOUS
    <3> HIDE DEF b, e
    <3>3. QED
      BY <3>1, <3>2, RemoveEnds DEF e
  <2>2. b.state # NoState
    BY <1>6 DEF RemoveStage
  <2>3. Abs!RemoveProfile
    BY <2>1, <2>2, AbsIs DEF Abs!RemoveProfile
  <2>4. QED
    BY <2>3 DEF Abs!Next, AbsStep
<1>7. CASE k = "sync-public" /\ b.state # NoState /\ ~w /\ d = b /\ t = <<Publish>>
  <2>1. Visible' = WritePublic(b)
    BY <1>7, AfterSteps
  <2>2. Abs!SyncPublic
    BY <1>7, <2>1, AbsIs DEF Abs!SyncPublic
  <2>3. QED
    BY <2>2 DEF Abs!Next, AbsStep
<1>8. CASE /\ k = "sync-client" /\ b.state # NoState /\ st = b.state /\ ~w
           /\ b.active # NoProfile /\ d = b /\ t = <<Do("client", b.active)>>
  <2>1. Visible' = WriteClient(b, p, b.state, b.active)
    BY <1>8, AfterSteps
  <2>2. Abs!SyncClient(p)
    BY <1>8, <2>1, AbsIs DEF Abs!SyncClient
  <2>3. QED
    BY <2>2 DEF Abs!Next, AbsStep
<1>9. CASE /\ k = "service" /\ ~w /\ d = b
           /\ \E a \in ServiceSteps : t = <<Do(a, NoProfile)>>
  <2>1. e \in {RestartService(b), [b EXCEPT !.running = Stopped], b}
    <3>1. [b EXCEPT !.running = b.running] = b
      BY DEF Disk
    <3>2. e \in {[b EXCEPT !.running = IF b.running = Stopped THEN b.installed
                                                             ELSE b.running],
                 [b EXCEPT !.running = Stopped], RestartService(b)}
      BY <1>9, Steps DEF After, ServiceSteps
    <3>3. QED
      BY <3>1, <3>2 DEF RestartService
  <2>2. QED
    <3>1. CASE e = b
      BY <1>9, <3>1 DEF AbsStep
    <3>2. CASE e # b
      BY <1>9, <2>1, <3>2, AbsIs DEF Abs!Service, Abs!Next, AbsStep
    <3>3. QED
      BY <3>1, <3>2
<1>10. CASE /\ k = "update" /\ b.state # NoState /\ st = b.state
            /\ RefreshStage(b, t, d, w)
  <2>1. ~w /\ Visible' = WritePublic(d)
    BY <1>10, RefreshEnds
  <2>2. /\ d = [b EXCEPT !.content = d.content]
        /\ \A q \in Profiles : b.content[q] = Absent <=> d.content[q] = Absent
        /\ b.active # NoProfile => d.content[b.active] = b.content[b.active]
    BY <1>10 DEF RefreshStage
  <2>3. d.content \in [Profiles -> Present]
    BY DEF Disk
  <2>4. Abs!UpdateProfiles
    BY <1>10, <2>1, <2>2, <2>3, AbsIs DEF Abs!UpdateProfiles
  <2>5. QED
    BY <2>4 DEF Abs!Next, AbsStep
<1>11. CASE /\ k = "update" /\ b.state # NoState /\ st = b.state
            /\ ReapplyStage(b, t, d, w)
  <2> DEFINE a == b.active
  <2>1. w /\ \E v \in Versions \ {b.content[a]} :
               LET f == CommitProfile(b, a, v)
               IN  e = WritePublic(InstallConfig(f, Merge(b.state, f, a)))
    BY <1>11, ReapplyEnds
  <2>2. PICK v \in Versions \ {b.content[a]} :
          LET f == CommitProfile(b, a, v)
          IN  Visible' = WritePublic(InstallConfig(f, Merge(b.state, f, a)))
    BY <2>1
  <2> DEFINE new == [b.content EXCEPT ![a] = v]
             f == [b EXCEPT !.content = new]
  <2>3. a # NoProfile /\ a \in Profiles /\ b.content[a] # Absent
        /\ b.content \in [Profiles -> Present]
    BY <1>11 DEF ReapplyStage, Disk
  <2>4. f = CommitProfile(b, a, v)
    BY DEF CommitProfile
  <2>5. new \in [Profiles -> Present] /\ new[a] = v /\ v # Absent
    BY <2>3, VersionTypes, VersionAssumption DEF Versions, Absent
  <2>6. \A q \in Profiles : b.content[q] = Absent <=> new[q] = Absent
    BY <2>3, <2>5
  <2>7. Abs!UpdateProfiles
    <3> HIDE DEF new
    <3>1. Visible' = WritePublic(InstallConfig(f, Merge(b.state, f, a)))
      BY <2>2, <2>4
    <3> HIDE DEF f
    <3>2. QED
      BY <1>11, <2>1, <2>3, <2>5, <2>6, <3>1, AbsIs DEF Abs!UpdateProfiles, f
  <2>8. QED
    BY <2>7 DEF Abs!Next, AbsStep
<1>12. QED
  BY <1>1, <1>2, <1>3, <1>4, <1>5, <1>6, <1>7, <1>8, <1>9, <1>10, <1>11 DEF Stage

(* A failed operation whose rollback worked is a restart, or nothing.      *)
LEMMA OnlyService ==
  ASSUME Visible \in Disk, Visible' \in Undone(Visible), torn' = torn
  PROVE  AbsStep
<1>1. CASE Visible' = Visible
  BY <1>1 DEF AbsStep
<1>2. CASE Visible' = [Visible EXCEPT !.running = Reloaded(Visible, Visible.installed)]
  <2>1. Abs!Service
    BY <1>2, AbsIs DEF Abs!Service, Reloaded, RestartService
  <2>2. QED
    BY <2>1 DEF AbsStep, Abs!Next
<1>3. QED
  BY <1>1, <1>2 DEF Undone

(* Outside an operation nothing is done to the disk.                       *)
LEMMA LockAbs ==
  ASSUME StageInv, NEW p \in Procs,
         \/ Request(p) \/ Cancel(p) \/ Acquire(p) \/ Reload(p) \/ Refuse(p)
         \/ Release(p) \/ NextBatch(p)
  PROVE  AbsStep
<1>1. TypeOK /\ Exclusive
  BY DEF StageInv, RollbackInv
<1>2. CASE Request(p) \/ Cancel(p)
  <2>1. /\ pc[p] \notin InFlight /\ pc'[p] \notin InFlight
        /\ \A q \in Procs \ {p} : pc'[q] = pc[q]
        /\ UNCHANGED <<disk, torn, owner, before>>
    BY <1>1, <1>2 DEF TypeOK, Request, Cancel, job, InFlight
  <2>2. QED
    BY <2>1 DEF AbsStep, Visible
<1>3. CASE Acquire(p)
  <2>1. /\ owner = Nobody /\ owner' = p /\ pc'[p] = "locked"
        /\ UNCHANGED <<disk, torn>>
    BY <1>1, <1>3 DEF TypeOK, Acquire
  <2>2. QED
    BY <2>1, NobodyAssumption DEF AbsStep, Visible, InFlight
<1>4. CASE Reload(p) \/ Refuse(p)
  <2>1. /\ pc[p] \in Working \ InFlight /\ pc'[p] \notin InFlight
        /\ owner = p /\ UNCHANGED <<disk, torn, owner>>
    BY <1>1, <1>4 DEF TypeOK, Exclusive, Reload, Refuse, job, Working, InFlight
  <2>2. QED
    BY <2>1 DEF AbsStep, Visible
<1>5. CASE Release(p)
  <2>1. /\ pc[p] \in Working \ InFlight /\ owner = p /\ owner' = Nobody
        /\ UNCHANGED <<disk, torn>>
    BY <1>1, <1>5 DEF TypeOK, Exclusive, Release, Unlocked, Working, InFlight
  <2>2. QED
    BY <2>1, NobodyAssumption DEF AbsStep, Visible
<1>6. CASE NextBatch(p)
  <2>1. /\ pc[p] \in Working \ InFlight /\ owner = p
        /\ pc'[p] = "run" /\ before'[p] = disk
        /\ UNCHANGED <<disk, torn, owner>>
    BY <1>1, <1>6 DEF TypeOK, Exclusive, NextBatch, Working, InFlight
  <2>2. QED
    BY <2>1 DEF AbsStep, Visible, InFlight
<1>7. QED
  BY <1>2, <1>3, <1>4, <1>5, <1>6

LEMMA StartAbs ==
  ASSUME StageInv, NEW p \in Procs, Start(p)
  PROVE  AbsStep
<1>1. TypeOK /\ Exclusive
  BY DEF StageInv, RollbackInv
<1>2. ASSUME NEW k, NEW st, NEW guards, NEW steps, pc[p] = "ready",
             Begin(p, k, st, guards, steps)
      PROVE  AbsStep
  <2>1. /\ pc[p] \in Working \ InFlight /\ owner = p
        /\ pc'[p] = "run" /\ before'[p] = disk
        /\ UNCHANGED <<disk, torn, owner>>
    BY <1>1, <1>2 DEF TypeOK, Exclusive, Begin, Working, InFlight
  <2>2. QED
    BY <2>1 DEF AbsStep, Visible, InFlight
<1>3. CASE StartUpdate(p)
  <2>1. /\ pc[p] \in Working \ InFlight /\ owner = p /\ pc'[p] = "batch"
        /\ UNCHANGED <<disk, torn, owner>>
    BY <1>1, <1>3 DEF TypeOK, Exclusive, StartUpdate, Working, InFlight
  <2>2. QED
    BY <2>1 DEF AbsStep, Visible, InFlight
<1>4. CASE ~StartUpdate(p)
  <2>1. pc[p] = "ready" /\ \E k, st, guards, steps : Begin(p, k, st, guards, steps)
    BY <1>4
    DEF Start, StartInitialize, StartChangeSetting, StartAddProfile,
        StartUseProfile, StartRemoveProfile, StartSyncPublic, StartSyncClient,
        StartRepair, StartService
  <2>2. QED
    BY <1>2, <2>1
<1>5. QED
  BY <1>3, <1>4

(* A step that leaves the operation in flight shows nothing; the last one  *)
(* is where the whole operation takes effect.                              *)
LEMMA StepAbs ==
  ASSUME StageInv, NEW p \in Procs, StepOK(p)
  PROVE  AbsStep
<1> DEFINE e == After(p, local[p], Head(todo[p]), disk)
           r == Left(todo[p], disk)
<1>1. pc[p] = "run" /\ pc[p] \in Working /\ pc[p] \in InFlight
  BY DEF StepOK, Working, InFlight
<1>2. Visible = before[p]
  BY <1>1, VisibleIs DEF StageInv, RollbackInv
<1>3. CASE r # <<>>
  <2>1. UNCHANGED <<pc, torn, before, owner>>
    BY <1>3, StepLeaves
  <2>2. Visible' = before[p]
    BY <1>1, <2>1, StepFinds DEF Visible
  <2>3. QED
    BY <1>2, <2>1, <2>2 DEF AbsStep
<1>4. CASE r = <<>>
  <2>1. /\ disk' = e /\ pc' = [pc EXCEPT ![p] = Continuation(p)]
        /\ torn' = IF Rewrites(p) THEN FALSE ELSE torn
        /\ UNCHANGED <<owner, before>>
    BY <1>4, StepLeaves
  <2>2. Visible' = e
    <3>1. Continuation(p) \notin InFlight
      BY DEF Continuation, InFlight
    <3>2. QED
      BY <1>1, <2>1, <3>1, VisibleNext
  <2>3. /\ Stage(p, kind[p], Visible, local[p], todo[p], disk, Rewrites(p))
        /\ Visible \in Disk /\ local[p] \in State /\ disk \in Disk
        /\ todo[p] \in Seq(Step) /\ todo[p] # <<>> /\ Rewrites(p) \in BOOLEAN
    BY <1>1, <1>2, StepFinds
  <2> HIDE DEF r
  <2>4. QED
    BY <1>4, <2>1, <2>2, <2>3, Finishes DEF r
<1>5. QED
  BY <1>3, <1>4

-----------------------------------------------------------------------------
(* A disk that a crash or a failed rollback changed is a torn one.         *)
LEMMA OnlyDamage ==
  ASSUME NEW p \in Procs, Visible = before[p], Visible' = disk', disk' \in Disk,
         torn \in BOOLEAN, torn' = (torn \/ disk' # before[p])
  PROVE  AbsStep
<1>1. CASE disk' = before[p]
  BY <1>1 DEF AbsStep
<1>2. CASE disk' # before[p]
  <2>1. Abs!Damage
    BY <1>2, AbsIs DEF Abs!Damage
  <2>2. QED
    BY <2>1 DEF AbsStep, Abs!Next
<1>3. QED
  BY <1>1, <1>2

(* A service command is an operation of one step.                          *)
LEMMA ServiceStage ==
  ASSUME NEW p, NEW k, NEW b, NEW st, NEW t \in Seq(Step), t # <<>>, NEW d, NEW w,
         Stage(p, k, b, st, t, d, w), Head(t).do \in ServiceSteps
  PROVE  d = b
<1>1. Head(t) = t[1] /\ Len(t) \in Nat \ {0}
  OBVIOUS
<1>2. ~InitStage(p, b, st, t, d, w) /\ ~SetStage(p, b, st, t, d, w)
  BY Steps DEF InitStage, SetStage, ServiceSteps
<1>3. ~AddStage(p, b, st, t, d, w) /\ ~UseStage(p, b, st, t, d, w)
  BY Steps DEF AddStage, FirstStage, MoreStage, UseStage, ServiceSteps
<1>4. ~RepairStage(p, b, st, t, d, w) /\ ~RemoveStage(b, t, d, w)
  BY Steps DEF RepairStage, RemoveStage, ServiceSteps
<1>5. ~ReapplyStage(b, t, d, w)
  BY Steps DEF ReapplyStage, ServiceSteps
<1>6. ~RefreshStage(b, t, d, w)
  BY <1>1, Steps DEF RefreshStage, ServiceSteps
<1>7. QED
  BY <1>2, <1>3, <1>4, <1>5, <1>6 DEF Stage

(* doctor applies a configuration first.                                   *)
LEMMA RepairBegins ==
  ASSUME NEW p, NEW b, NEW st, NEW t, NEW d, NEW w,
         Stage(p, "doctor", b, st, t, d, w), Head(t).do = "apply"
  PROVE  d = b
BY Steps DEF Stage, RepairStage

(* An operation in flight shows what it captured.                          *)
LEMMA StillHidden ==
  ASSUME StageInv, NEW p \in Procs, pc[p] \in InFlight, NEW x \in InFlight,
         pc' = [pc EXCEPT ![p] = x], UNCHANGED <<torn, owner, before>>
  PROVE  AbsStep
<1>1. pc[p] \in Working
  BY DEF Working
<1>2. Visible = before[p] /\ Visible' = before[p]
  BY <1>1, VisibleIs, VisibleNext DEF StageInv, RollbackInv
<1>3. QED
  BY <1>2 DEF AbsStep

LEMMA Shown ==
  ASSUME StageInv, NEW p \in Procs, pc[p] \in InFlight, NEW x, x \notin InFlight,
         pc' = [pc EXCEPT ![p] = x], UNCHANGED <<owner, before>>
  PROVE  Visible = before[p] /\ Visible' = disk' /\ before[p] \in Disk
<1>1. pc[p] \in Working
  BY DEF Working
<1>2. Visible = before[p] /\ Visible' = disk'
  BY <1>1, VisibleIs, VisibleNext DEF StageInv, RollbackInv
<1>3. QED
  BY <1>2 DEF StageInv, RollbackInv, TypeOK, Prepared

LEMMA StepFailsAbs ==
  ASSUME StageInv, NEW p \in Procs, StepFails(p)
  PROVE  AbsStep
<1>1. /\ pc[p] = "run" /\ pc[p] \in InFlight /\ disk' \in CutShort(p, disk)
      /\ pc' = [pc EXCEPT ![p] = Unwinding(p)]
      /\ UNCHANGED <<torn, owner, before>>
  BY DEF StepFails, InFlight, job
<1>2. CASE stack[p] # <<>>
  BY <1>1, <1>2, StillHidden DEF Unwinding, InFlight
<1>3. CASE stack[p] = <<>>
  <2>1. Visible = before[p] /\ Visible' = disk' /\ before[p] \in Disk
    BY <1>1, <1>3, Shown DEF Unwinding, InFlight
  <2>2. Head(todo[p]).do \in ServiceSteps
    <3>1. todo[p] \in Seq(Step) /\ Captured(kind[p], <<>>, todo[p])
      BY <1>1, <1>3, StepFinds DEF Guarded
    <3>2. QED
      BY <3>1 DEF Captured
  <2>3. disk = before[p]
    BY <1>1, <2>2, StepFinds, ServiceStage
  <2>4. disk' \in {[disk EXCEPT !.running = r] : r \in {disk.running, disk.installed, Stopped}}
    BY <1>1, <2>2 DEF CutShort, ServiceSteps
  <2>5. CASE disk' = [disk EXCEPT !.running = disk.running]
    <3>1. disk' = disk
      BY <2>1, <2>3, <2>5 DEF Disk
    <3>2. QED
      BY <1>1, <2>1, <2>3, <3>1 DEF AbsStep
  <2>6. CASE disk' \in {RestartService(disk), [disk EXCEPT !.running = Stopped]}
    <3>1. Abs!Service
      BY <1>1, <2>1, <2>3, <2>6, AbsIs DEF Abs!Service
    <3>2. QED
      BY <3>1 DEF AbsStep, Abs!Next
  <2>7. QED
    BY <2>4, <2>5, <2>6 DEF RestartService
<1>4. QED
  BY <1>2, <1>3

LEMMA ApplyAbs ==
  ASSUME StageInv, NEW p \in Procs, ApplyFails(p) \/ ApplyBreaks(p)
  PROVE  AbsStep
<1>1. /\ pc[p] = "run" /\ pc[p] \in InFlight /\ Head(todo[p]).do = "apply"
      /\ UNCHANGED <<owner, before>>
  BY DEF ApplyFails, ApplyBreaks, InFlight, job
<1>2. stack[p] # <<>>
  <2>1. todo[p] \in Seq(Step) /\ Captured(kind[p], stack[p], todo[p])
    BY <1>1, StepFinds DEF Guarded
  <2>2. QED
    BY <1>1, <2>1 DEF Captured, ServiceSteps
<1>3. CASE kind[p] # "doctor"
  <2>1. /\ \E x \in {"restore", "undo"} : pc' = [pc EXCEPT ![p] = x]
        /\ UNCHANGED torn
    BY <1>2, <1>3 DEF ApplyFails, ApplyBreaks, Unwinding
  <2>2. QED
    BY <1>1, <2>1, StillHidden DEF InFlight
<1>4. CASE kind[p] = "doctor"
  <2>1. pc' = [pc EXCEPT ![p] = "done"]
    BY <1>4 DEF ApplyFails, ApplyBreaks
  <2>2. Visible = before[p] /\ Visible' = disk' /\ before[p] \in Disk
    BY <1>1, <2>1, Shown DEF InFlight
  <2>3. disk = before[p]
    <3>1. Stage(p, "doctor", before[p], local[p], todo[p], disk, Rewrites(p))
      BY <1>1, <1>4, StepFinds
    <3>2. QED
      BY <1>1, <3>1, RepairBegins
  <2>4. CASE ApplyFails(p)
    BY <2>2, <2>3, <2>4, OnlyService DEF ApplyFails, Undone
  <2>5. CASE ApplyBreaks(p)
    <3>1. disk' \in Disk /\ torn \in BOOLEAN
      BY <2>5, FailureType DEF StageInv, RollbackInv, TypeOK
    <3>2. torn' = (torn \/ disk' # before[p])
      BY <1>4, <2>5 DEF ApplyBreaks
    <3>3. QED
      BY <2>2, <3>1, <3>2, OnlyDamage
  <2>6. QED
    BY <2>4, <2>5
<1>5. QED
  BY <1>3, <1>4

LEMMA RestoreAbs ==
  ASSUME StageInv, NEW p \in Procs, RestoreStore(p) \/ RestoreStoreFails(p)
  PROVE  AbsStep
<1>1. /\ pc[p] = "restore" /\ pc[p] \in InFlight
      /\ UNCHANGED <<torn, owner, before>>
  BY DEF RestoreStore, RestoreStoreFails, InFlight, job
<1>2. CASE RestoreStore(p)
  <2>1. pc' = [pc EXCEPT ![p] = Continuation(p)] /\ Continuation(p) \notin InFlight
    BY <1>2 DEF RestoreStore, Continuation, InFlight
  <2>2. Visible = before[p] /\ Visible' = disk' /\ before[p] \in Disk
    BY <1>1, <2>1, Shown
  <2>3. disk' \in Undone(before[p])
    BY <1>1, <1>2, BackIs DEF RestoreStore, StageInv, Staged
  <2>4. QED
    BY <1>1, <2>2, <2>3, OnlyService
<1>3. CASE RestoreStoreFails(p)
  <2>1. stack[p] # <<>>
    <3>1. "store" \in Parts(p)
      BY <1>1 DEF StageInv, RollbackInv, Recoverable
    <3>2. PartsOf(kind[p], <<>>) = {}
      BY DEF PartsOf
    <3>3. QED
      BY <3>1, <3>2 DEF Parts
  <2>2. pc' = [pc EXCEPT ![p] = "undo"]
    BY <1>3, <2>1 DEF RestoreStoreFails, Unwinding
  <2>3. QED
    BY <1>1, <2>2, StillHidden DEF InFlight
<1>4. QED
  BY <1>2, <1>3

LEMMA UndoAbs ==
  ASSUME StageInv, NEW p \in Procs, UndoOK(p) \/ UndoFails(p)
  PROVE  AbsStep
<1>1. /\ pc[p] = "undo" /\ pc[p] \in InFlight /\ Unwind(p)
      /\ UNCHANGED <<owner, before>>
  BY DEF UndoOK, UndoFails, Unwind, InFlight
<1>2. CASE Tail(stack[p]) # <<>>
  <2>1. pc' = [pc EXCEPT ![p] = "undo"] /\ UNCHANGED torn
    BY <1>1, <1>2 DEF Unwind, StageInv, RollbackInv, TypeOK
  <2>2. QED
    BY <1>1, <2>1, StillHidden DEF InFlight
<1>3. CASE Tail(stack[p]) = <<>>
  <2>1. pc' = [pc EXCEPT ![p] = "done"] /\ pc'[p] = "done"
        /\ torn' = (torn \/ (rberr'[p] /\ disk' # before[p]))
    BY <1>1, <1>3 DEF Unwind, StageInv, RollbackInv, TypeOK
  <2>2. Visible = before[p] /\ Visible' = disk' /\ before[p] \in Disk
    BY <1>1, <2>1, Shown DEF InFlight
  <2>3. disk' \in Disk /\ torn \in BOOLEAN
    BY UndoType DEF StageInv, RollbackInv, TypeOK
  <2>4. CASE rberr'[p]
    <3>1. torn' = (torn \/ disk' # before[p])
      BY <2>1, <2>4, Zenon
    <3>2. QED
      BY <2>2, <2>3, <3>1, OnlyDamage
  <2>5. CASE ~rberr'[p]
    <3>1. disk' \in Undone(before[p])
      BY <2>1, <2>5, UndoneExactly DEF StageInv
    <3>2. torn' = torn
      BY <2>1, <2>3, <2>5
    <3>3. QED
      BY <2>2, <3>1, <3>2, OnlyService
  <2>6. QED
    BY <2>4, <2>5
<1>4. QED
  BY <1>2, <1>3

LEMMA CrashAbs ==
  ASSUME StageInv, NEW p \in Procs, Crash(p)
  PROVE  AbsStep
<1>1. /\ pc[p] \in Working /\ owner = p /\ owner' = Nobody
      /\ torn' = (torn \/ (pc[p] \in InFlight /\ disk' # before[p]))
      /\ disk' \in Disk /\ torn \in BOOLEAN
  BY CrashType DEF Crash, Unlocked, StageInv, RollbackInv, Exclusive, TypeOK
<1>2. Visible' = disk'
  BY <1>1, NobodyAssumption DEF Visible
<1>3. CASE pc[p] \in InFlight
  <2>1. Visible = before[p]
    BY <1>1, <1>3 DEF Visible
  <2>2. QED
    BY <1>1, <1>2, <1>3, <2>1, OnlyDamage
<1>4. CASE pc[p] \notin InFlight
  <2>1. disk' = disk
    BY <1>4 DEF Crash, InFlight
  <2>2. torn' = torn /\ Visible = disk
    BY <1>1, <1>4 DEF Visible
  <2>3. QED
    BY <1>2, <2>1, <2>2 DEF AbsStep
<1>5. QED
  BY <1>3, <1>4

LEMMA EveryStepIsAtomic == StageInv /\ [Next]_vars => [Abs!Next]_(Abs!vars)
<1> SUFFICES ASSUME StageInv, [Next]_vars PROVE AbsStep
  BY DEF AbsStep, Abs!vars
<1>1. ASSUME NEW p \in Procs,
             Request(p) \/ Cancel(p) \/ Acquire(p) \/ Work(p) \/ Crash(p)
      PROVE  AbsStep
  BY <1>1, LockAbs, StartAbs, StepAbs, StepFailsAbs, ApplyAbs, RestoreAbs,
     UndoAbs, CrashAbs DEF Work
<1>2. CASE UNCHANGED vars
  <2>1. UNCHANGED <<Visible, torn>>
    BY <1>2 DEF vars, Visible
  <2>2. QED
    BY <2>1 DEF AbsStep
<1>3. QED
  BY <1>1, <1>2 DEF Next

(* Whatever fails, every operation of withMutation is one atomic change of *)
(* the disk or none, unless a process died or a rollback failed.           *)
THEOREM OperationsAreAtomic == Spec => AbsSpec
<1>1. Init => Abs!Init
  <2>1. \A s, up : Abs!FreshDisk(s, up) = FreshDisk(s, up)
    BY DEF Abs!FreshDisk, FreshDisk, Abs!Unmanaged, Unmanaged, Abs!Absent, Absent
  <2>2. Abs!Settings = Settings
    BY DEF Abs!Settings, Settings
  <2>3. Init => Visible = disk
    BY NobodyAssumption DEF Init, Quiet, Visible
  <2>4. QED
    BY <2>1, <2>2, <2>3 DEF Init, Quiet, Abs!Init
<1>2. Init => StageInv
  BY FreshTypes, QuietStages DEF Init
<1>3. QED
  BY <1>1, <1>2, StageStep, EveryStepIsAtomic, PTL DEF Spec, AbsSpec, Abs!Spec

-----------------------------------------------------------------------------
(* What holds of atomic operations holds of the processes that run them,   *)
(* whose disk, as they see it, is Visible: one that only atomic operations *)
(* changed is always in agreement.                                         *)

(* What a whole operation that applies a configuration makes of a disk.    *)
LEMMA RewrittenType ==
  ASSUME NEW d \in Abs!Disk, NEW p \in Procs, NEW st \in Abs!State, NEW q \in Profiles
  PROVE  Abs!Rewritten(d, p, st, q) \in Abs!Disk
<1>1. Abs!Merge(st, d, q) \in Abs!Config
  BY DEF Abs!Merge, Abs!Config, Abs!State, Abs!Disk
<1>2. [settings |-> st.settings, active |-> q, content |-> d.content] \in Abs!Public
  BY DEF Abs!Public, Abs!State, Abs!Disk
<1>3. Abs!ClientView(st, q) \in Abs!Client
  BY DEF Abs!ClientView, Abs!Client, Abs!State
<1>4. QED
  BY <1>1, <1>2, <1>3 DEF Abs!Rewritten, Abs!Reloaded, Abs!Disk

LEMMA RewrittenAgrees ==
  ASSUME NEW d \in Abs!Disk, NEW p \in Procs, NEW st \in Abs!State, NEW q \in Profiles,
         d.content[q] # Abs!Absent
  PROVE  Abs!Agreed(Abs!Rewritten(d, p, st, q))
<1>1. st # NoState
  BY NoStateAssumption DEF Abs!State, Abs!Settings
<1>2. q # NoProfile
  BY NoProfileAssumption
<1>3. QED
  BY <1>1, <1>2
  DEF Abs!Agreed, Abs!Rewritten, Abs!Readable, Abs!Reloaded, Abs!Merge,
      Abs!PublicView, Abs!Disk, Abs!State

(* The smaller edits keep the disk well formed.                            *)
LEMMA PublishType ==
  ASSUME NEW d \in Abs!Disk
  PROVE  Abs!WritePublic(d) \in Abs!Disk
<1>1. Abs!PublicView(d) \in Abs!Public
  BY DEF Abs!PublicView, Abs!Public, Abs!Disk, Abs!Config
<1>2. QED
  BY <1>1 DEF Abs!WritePublic, Abs!Disk

LEMMA ProfileType ==
  ASSUME NEW d \in Abs!Disk, NEW q \in Profiles, NEW v \in Abs!Present
  PROVE  /\ Abs!WriteProfile(d, q, v) \in Abs!Disk
         /\ Abs!DropProfile(d, q) \in Abs!Disk
<1>1. Abs!Absent \in Abs!Present
  BY VersionAssumption DEF Abs!Absent, Abs!Present
<1>2. QED
  BY <1>1 DEF Abs!WriteProfile, Abs!DropProfile, Abs!Disk

LEMMA FreshType ==
  ASSUME NEW s \in Abs!Settings, NEW up \in BOOLEAN
  PROVE  Abs!FreshDisk(s, up) \in Abs!Disk /\ Abs!Agreed(Abs!FreshDisk(s, up))
<1>1. Abs!Unmanaged(s) \in Abs!Config
  BY SysAssumption, VersionAssumption DEF Abs!Unmanaged, Abs!Config, Abs!Present, Abs!Absent
<1>2. Abs!Absent \in Abs!Present
  BY VersionAssumption DEF Abs!Absent, Abs!Present
<1>3. Abs!FreshDisk(s, up) \in Abs!Disk
  BY <1>1, <1>2 DEF Abs!FreshDisk, Abs!Disk
<1>4. QED
  BY <1>3 DEF Abs!FreshDisk, Abs!Agreed

-----------------------------------------------------------------------------
(* The invariant is inductive as it stands: a torn disk may be anything,   *)
(* and the operations that make it whole check what they need of it.       *)
WholeInv == Abs!TypeOK /\ Abs!Agreement

LEMMA InitialWhole == Abs!Init => WholeInv
<1> SUFFICES ASSUME Abs!Init PROVE WholeInv
  OBVIOUS
<1>1. PICK s \in Abs!Settings, up \in BOOLEAN : Visible = Abs!FreshDisk(s, up)
  BY DEF Abs!Init
<1>2. QED
  BY <1>1, FreshType DEF Abs!Init, WholeInv, Abs!TypeOK, Abs!Agreement

LEMMA InitializeWhole ==
  ASSUME WholeInv, NEW p \in Procs, Abs!Initialize(p)
  PROVE  WholeInv'
<1>1. PICK c \in Controllers :
        LET d == IF Visible.active = NoProfile THEN Abs!WriteProfile(Visible, Sys, 1)
                                            ELSE Visible
            s == IF Visible.state = NoState THEN Visible.installed.settings
                                         ELSE Visible.state.settings
        IN  Visible' = Abs!Rewritten(d, p, [ctl |-> c, settings |-> s], d.active)
  BY DEF Abs!Initialize
<1> DEFINE d  == IF Visible.active = NoProfile THEN Abs!WriteProfile(Visible, Sys, 1)
                                            ELSE Visible
           s  == IF Visible.state = NoState THEN Visible.installed.settings
                                         ELSE Visible.state.settings
           st == [ctl |-> c, settings |-> s]
<1>2. Visible \in Abs!Disk
  BY DEF WholeInv, Abs!TypeOK
<1>3. 1 \in Abs!Present /\ 1 # Abs!Absent
  BY VersionAssumption DEF Abs!Present, Abs!Absent
<1>4. d \in Abs!Disk
  BY <1>2, <1>3, SysAssumption, ProfileType
<1>5. st \in Abs!State
  BY <1>2 DEF Abs!State, Abs!Disk, Abs!Config
<1>6. d.active \in Profiles /\ d.content[d.active] # Abs!Absent
  <2>1. CASE Visible.active = NoProfile
    <3>1. d.active = Sys /\ d.content = [Visible.content EXCEPT ![Sys] = 1]
      BY <2>1, <1>2 DEF Abs!WriteProfile, Abs!Disk
    <3>2. QED
      BY <3>1, <1>2, <1>3, SysAssumption DEF Abs!Disk
  <2>2. CASE Visible.active # NoProfile
    BY <2>2, <1>2 DEF Abs!Initialize, Abs!Readable, Abs!Disk
  <2>3. QED
    BY <2>1, <2>2
<1>7. Visible' = Abs!Rewritten(d, p, st, d.active) /\ torn' = FALSE
  BY <1>1 DEF Abs!Initialize
<1> HIDE DEF d, st
<1>8. QED
  BY <1>4, <1>5, <1>6, <1>7, RewrittenType, RewrittenAgrees
  DEF WholeInv, Abs!TypeOK, Abs!Agreement

LEMMA ChangeSettingWhole ==
  ASSUME WholeInv, NEW p \in Procs, Abs!ChangeSetting(p)
  PROVE  WholeInv'
<1>1. PICK f \in Fields, v \in Values :
        Visible' = Abs!Rewritten(Visible, p, [Visible.state EXCEPT !.settings[f] = v],
                          Visible.active)
  BY DEF Abs!ChangeSetting
<1>2. Visible \in Abs!Disk /\ Visible.state \in Abs!State
  BY DEF WholeInv, Abs!TypeOK, Abs!ChangeSetting, Abs!Disk
<1>3. [Visible.state EXCEPT !.settings[f] = v] \in Abs!State
  BY <1>2 DEF Abs!State, Abs!Settings
<1>4. Visible.active \in Profiles /\ Visible.content[Visible.active] # Abs!Absent
  BY <1>2 DEF Abs!ChangeSetting, Abs!Readable, Abs!Disk
<1>5. QED
  BY <1>1, <1>2, <1>3, <1>4, RewrittenType, RewrittenAgrees
  DEF Abs!ChangeSetting, WholeInv, Abs!TypeOK, Abs!Agreement

LEMMA UseProfileWhole ==
  ASSUME WholeInv, NEW p \in Procs, Abs!UseProfile(p)
  PROVE  WholeInv'
<1>1. Visible \in Abs!Disk /\ Visible.state \in Abs!State
  BY DEF WholeInv, Abs!TypeOK, Abs!UseProfile, Abs!Disk
<1>2. QED
  BY <1>1, RewrittenType, RewrittenAgrees DEF Abs!UseProfile, WholeInv, Abs!TypeOK, Abs!Agreement

LEMMA RepairWhole ==
  ASSUME WholeInv, NEW p \in Procs, Abs!Repair(p)
  PROVE  WholeInv'
<1>1. Visible \in Abs!Disk /\ Visible.state \in Abs!State
  BY DEF WholeInv, Abs!TypeOK, Abs!Repair, Abs!Disk
<1>2. Visible.active \in Profiles /\ Visible.content[Visible.active] # Abs!Absent
  BY <1>1 DEF Abs!Repair, Abs!Readable, Abs!Disk
<1>3. QED
  BY <1>1, <1>2, RewrittenType, RewrittenAgrees
  DEF Abs!Repair, WholeInv, Abs!TypeOK, Abs!Agreement

(* Publishing after a change that spares the active profile's document     *)
(* keeps an agreed disk agreed.                                            *)
LEMMA PublishAgrees ==
  ASSUME NEW d \in Abs!Disk, NEW e \in Abs!Disk, Abs!Agreed(d), d.state # NoState,
         e = [d EXCEPT !.content = e.content],
         e.content[d.active] = d.content[d.active]
  PROVE  Abs!Agreed(Abs!WritePublic(e))
BY DEF Abs!Agreed, Abs!Readable, Abs!WritePublic, Abs!PublicView, Abs!Merge, Abs!Disk

(* So does installing the active profile's document under the settings.    *)
LEMMA InstallAgrees ==
  ASSUME NEW d \in Abs!Disk, d.state # NoState, d.active \in Profiles,
         d.content[d.active] # Abs!Absent
  PROVE  Abs!Agreed(Abs!WritePublic(Abs!InstallConfig(d, Abs!Merge(d.state, d, d.active))))
<1> DEFINE cfg == Abs!Merge(d.state, d, d.active)
           i   == Abs!InstallConfig(d, cfg)
           e   == Abs!WritePublic(i)
<1> HIDE DEF cfg
<1>1. /\ i.state = d.state /\ i.active = d.active /\ i.content = d.content
      /\ i.installed = cfg /\ i.running = Abs!Reloaded(d, cfg)
  BY DEF Abs!InstallConfig, Abs!Disk
<1>2. DOMAIN i = DOMAIN d
  BY DEF Abs!InstallConfig
<1> HIDE DEF i
<1>3. /\ e.state = d.state /\ e.active = d.active /\ e.content = d.content
      /\ e.installed = cfg /\ e.running = Abs!Reloaded(d, cfg)
      /\ e.public = Abs!PublicView(i)
  BY <1>1, <1>2 DEF Abs!WritePublic, Abs!Disk
<1> HIDE DEF e
<1>4. Abs!Merge(e.state, e, e.active) = cfg /\ Abs!PublicView(e) = Abs!PublicView(i)
  BY <1>1, <1>3 DEF Abs!Merge, Abs!PublicView, cfg
<1>5. Abs!Readable(e)
  BY <1>3, NoProfileAssumption DEF Abs!Readable
<1>6. e.running \in {e.installed, Stopped} /\ e.state # NoState
  BY <1>3 DEF Abs!Reloaded
<1>7. Abs!Agreed(e)
  BY <1>3, <1>4, <1>5, <1>6 DEF Abs!Agreed
<1>8. QED
  BY <1>7 DEF i, e, cfg

LEMMA AddProfileWhole ==
  ASSUME WholeInv, NEW p \in Procs, Abs!AddProfile(p)
  PROVE  WholeInv'
<1>1. PICK q \in Profiles, v \in Abs!Versions :
        /\ Visible.content[q] = Abs!Absent
        /\ LET d == Abs!WriteProfile(Visible, q, v)
           IN  IF Visible.active = NoProfile
               THEN /\ Visible' = Abs!Rewritten(d, p, Visible.state, q)
                    /\ torn' = FALSE
               ELSE Visible' = Abs!WritePublic(d) /\ UNCHANGED torn
  BY DEF Abs!AddProfile
<1> DEFINE d == Abs!WriteProfile(Visible, q, v)
<1>2. Visible \in Abs!Disk /\ Visible.state \in Abs!State
  BY DEF WholeInv, Abs!TypeOK, Abs!AddProfile, Abs!Disk
<1>3. v \in Abs!Present /\ v # Abs!Absent
  BY VersionAssumption DEF Abs!Versions, Abs!Present, Abs!Absent
<1>4. d \in Abs!Disk
  BY <1>2, <1>3, ProfileType
<1>5. d.content = [Visible.content EXCEPT ![q] = v]
  BY <1>2 DEF Abs!WriteProfile, Abs!Disk
<1>6. d.content[q] # Abs!Absent
  BY <1>2, <1>3, <1>5 DEF Abs!Disk
<1>7. CASE Visible.active = NoProfile
  <2>1. Visible' = Abs!Rewritten(d, p, Visible.state, q) /\ torn' = FALSE
    BY <1>1, <1>7
  <2> HIDE DEF d
  <2>2. QED
    BY <2>1, <1>2, <1>4, <1>6, RewrittenType, RewrittenAgrees
    DEF WholeInv, Abs!TypeOK, Abs!Agreement
<1>8. CASE Visible.active # NoProfile
  <2>1. Visible' = Abs!WritePublic(d) /\ torn' = torn
    BY <1>1, <1>8
  <2>2. d = [Visible EXCEPT !.content = d.content]
    BY <1>2, <1>8 DEF Abs!WriteProfile, Abs!Disk
  <2>3. ASSUME Abs!Agreed(Visible) PROVE d.content[Visible.active] = Visible.content[Visible.active]
    <3>1. Visible.active # q
      BY <2>3, <1>1, <1>2 DEF Abs!Agreed, Abs!Readable, Abs!AddProfile
    <3>2. QED
      BY <3>1, <1>2, <1>5, <1>8 DEF Abs!Disk
  <2> HIDE DEF d
  <2>4. Abs!Agreed(Visible) => Abs!Agreed(Visible')
    BY <1>2, <1>4, <2>1, <2>2, <2>3, PublishAgrees DEF Abs!AddProfile
  <2>5. QED
    BY <1>4, <2>1, <2>4, PublishType DEF WholeInv, Abs!TypeOK, Abs!Agreement
<1>9. QED
  BY <1>7, <1>8

LEMMA RemoveProfileWhole ==
  ASSUME WholeInv, Abs!RemoveProfile
  PROVE  WholeInv'
<1>1. PICK q \in Profiles \ {Visible.active} :
        Visible' = Abs!WritePublic(Abs!DropProfile(Visible, q))
  BY DEF Abs!RemoveProfile
<1> DEFINE d == Abs!DropProfile(Visible, q)
<1>2. Visible \in Abs!Disk
  BY DEF WholeInv, Abs!TypeOK
<1>3. d \in Abs!Disk
  BY <1>2, ProfileType, VersionAssumption DEF Abs!Present, Abs!Absent
<1>4. d = [Visible EXCEPT !.content = d.content]
  BY <1>2 DEF Abs!DropProfile, Abs!Disk
<1>5. Abs!Agreed(Visible) => d.content[Visible.active] = Visible.content[Visible.active]
  BY <1>2 DEF Abs!DropProfile, Abs!Agreed, Abs!Readable, Abs!Disk, Abs!RemoveProfile
<1> HIDE DEF d
<1>6. Abs!Agreed(Visible) => Abs!Agreed(Visible')
  BY <1>1, <1>2, <1>3, <1>4, <1>5, PublishAgrees DEF Abs!RemoveProfile, d
<1>7. QED
  BY <1>1, <1>3, <1>6, PublishType DEF Abs!RemoveProfile, WholeInv, Abs!TypeOK, Abs!Agreement, d

LEMMA UpdateProfilesWhole ==
  ASSUME WholeInv, Abs!UpdateProfiles
  PROVE  WholeInv'
<1>1. PICK new \in [Profiles -> Abs!Present] :
        /\ \A q \in Profiles : Visible.content[q] = Abs!Absent <=> new[q] = Abs!Absent
        /\ LET d == [Visible EXCEPT !.content = new]
               a == Visible.active
           IN  IF a # NoProfile /\ new[a] # Visible.content[a]
               THEN /\ Visible' = Abs!WritePublic(
                                 Abs!InstallConfig(d, Abs!Merge(Visible.state, d, a)))
                    /\ torn' = FALSE
               ELSE Visible' = Abs!WritePublic(d) /\ UNCHANGED torn
  BY DEF Abs!UpdateProfiles
<1> DEFINE d == [Visible EXCEPT !.content = new]
           a == Visible.active
           i == Abs!InstallConfig(d, Abs!Merge(Visible.state, d, a))
<1>2. Visible \in Abs!Disk /\ Visible.state \in Abs!State
  BY DEF WholeInv, Abs!TypeOK, Abs!UpdateProfiles, Abs!Disk
<1>3. d \in Abs!Disk
  BY <1>2 DEF Abs!Disk
<1>4. CASE a # NoProfile /\ new[a] # Visible.content[a]
  <2>1. a \in Profiles /\ new[a] # Abs!Absent
    BY <1>1, <1>2, <1>4 DEF Abs!Disk
  <2>2. Abs!Merge(Visible.state, d, a) \in Abs!Config
    BY <1>2, <2>1 DEF Abs!Merge, Abs!Config, Abs!State, Abs!Disk
  <2>3. i \in Abs!Disk
    BY <1>3, <2>2 DEF Abs!InstallConfig, Abs!Reloaded, Abs!Disk
  <2>4. Visible' = Abs!WritePublic(i) /\ torn' = FALSE
    BY <1>1, <1>4
  <2>5. Visible.state # NoState
    BY DEF Abs!UpdateProfiles
  <2>6. Abs!Agreed(Abs!WritePublic(i))
    <3>1. d.state = Visible.state /\ d.active = a /\ d.content[a] # Abs!Absent
      BY <1>2, <1>3, <2>1 DEF Abs!Disk
    <3> HIDE DEF d
    <3>2. QED
      BY <1>3, <2>1, <2>5, <3>1, InstallAgrees
  <2> HIDE DEF i
  <2>7. QED
    BY <2>3, <2>4, <2>6, PublishType DEF WholeInv, Abs!TypeOK, Abs!Agreement
<1>5. CASE ~(a # NoProfile /\ new[a] # Visible.content[a])
  <2>1. Visible' = Abs!WritePublic(d) /\ torn' = torn
    BY <1>1, <1>5
  <2>2. Abs!Agreed(Visible) => d.content[Visible.active] = Visible.content[Visible.active]
    BY <1>2, <1>5 DEF Abs!Agreed, Abs!Readable, Abs!Disk, Abs!UpdateProfiles
  <2>3. d = [Visible EXCEPT !.content = d.content]
    BY <1>2 DEF Abs!Disk
  <2> HIDE DEF d
  <2>4. Abs!Agreed(Visible) => Abs!Agreed(Visible')
    BY <1>2, <1>3, <2>1, <2>2, <2>3, PublishAgrees DEF Abs!UpdateProfiles
  <2>5. QED
    BY <1>3, <2>1, <2>4, PublishType DEF WholeInv, Abs!TypeOK, Abs!Agreement
<1>6. QED
  BY <1>4, <1>5

LEMMA SyncWhole ==
  ASSUME WholeInv, Abs!SyncPublic \/ \E p \in Procs : Abs!SyncClient(p)
  PROVE  WholeInv'
<1>1. Visible \in Abs!Disk
  BY DEF WholeInv, Abs!TypeOK
<1>2. CASE Abs!SyncPublic
  <2>1. Visible = [Visible EXCEPT !.content = Visible.content]
    BY <1>1 DEF Abs!Disk
  <2>2. Abs!Agreed(Visible) => Abs!Agreed(Visible')
    BY <1>1, <1>2, <2>1, PublishAgrees DEF Abs!SyncPublic
  <2>3. QED
    BY <1>1, <1>2, <2>2, PublishType DEF Abs!SyncPublic, WholeInv, Abs!TypeOK, Abs!Agreement
<1>3. ASSUME NEW p \in Procs, Abs!SyncClient(p) PROVE WholeInv'
  <2>1. Abs!ClientView(Visible.state, Visible.active) \in Abs!Client
    BY <1>1, <1>3 DEF Abs!SyncClient, Abs!ClientView, Abs!Client, Abs!Disk, Abs!State
  <2>2. Visible' \in Abs!Disk
    BY <1>1, <1>3, <2>1 DEF Abs!SyncClient, Abs!WriteClient, Abs!Disk
  <2>3. Abs!Agreed(Visible) => Abs!Agreed(Visible')
    BY <1>1, <1>3
    DEF Abs!SyncClient, Abs!WriteClient, Abs!Agreed, Abs!Readable, Abs!PublicView,
        Abs!Merge, Abs!Disk
  <2>4. QED
    BY <1>3, <2>2, <2>3 DEF Abs!SyncClient, WholeInv, Abs!TypeOK, Abs!Agreement
<1>4. QED
  BY <1>2, <1>3

LEMMA ServiceWhole ==
  ASSUME WholeInv, Abs!Service
  PROVE  WholeInv'
<1>1. Visible \in Abs!Disk
  BY DEF WholeInv, Abs!TypeOK
<1>2. Visible' \in Abs!Disk
  BY <1>1 DEF Abs!Service, Abs!RestartService, Abs!Disk
<1>3. Abs!Agreed(Visible) => Abs!Agreed(Visible')
  BY <1>1
  DEF Abs!Service, Abs!RestartService, Abs!Agreed, Abs!Readable, Abs!PublicView,
      Abs!Merge, Abs!Disk
<1>4. QED
  BY <1>2, <1>3 DEF Abs!Service, WholeInv, Abs!TypeOK, Abs!Agreement

(* Unless a crash or a failed rollback tore the disk, the installed        *)
(* configuration, the managed state, the active profile and the published  *)
(* snapshot agree, whatever sequence of operations led there.              *)
THEOREM AgreementHolds == Abs!Spec => [](Abs!TypeOK /\ Abs!Agreement)
<1>1. Abs!Init => WholeInv
  BY InitialWhole
<1>2. WholeInv /\ [Abs!Next]_(Abs!vars) => WholeInv'
  <2> SUFFICES ASSUME WholeInv, [Abs!Next]_(Abs!vars) PROVE WholeInv'
    OBVIOUS
  <2>1. ASSUME NEW p \in Procs,
               \/ Abs!Initialize(p) \/ Abs!ChangeSetting(p) \/ Abs!UseProfile(p)
               \/ Abs!Repair(p) \/ Abs!AddProfile(p) \/ Abs!SyncClient(p)
        PROVE  WholeInv'
    BY <2>1, InitializeWhole, ChangeSettingWhole, UseProfileWhole, RepairWhole,
       AddProfileWhole, SyncWhole
  <2>2. CASE Abs!RemoveProfile
    BY <2>2, RemoveProfileWhole
  <2>3. CASE Abs!UpdateProfiles
    BY <2>3, UpdateProfilesWhole
  <2>4. CASE Abs!SyncPublic
    BY <2>4, SyncWhole
  <2>5. CASE Abs!Service
    BY <2>5, ServiceWhole
  <2>6. CASE Abs!Damage
    BY <2>6 DEF Abs!Damage, WholeInv, Abs!TypeOK, Abs!Agreement
  <2>7. CASE UNCHANGED Abs!vars
    BY <2>7 DEF Abs!vars, WholeInv, Abs!TypeOK, Abs!Agreement, Abs!Agreed,
                Abs!Readable, Abs!PublicView, Abs!Merge
  <2>8. QED
    BY <2>1, <2>2, <2>3, <2>4, <2>5, <2>6, <2>7 DEF Abs!Next
<1>3. QED
  BY <1>1, <1>2, PTL DEF Abs!Spec, WholeInv

LEMMA SameAgreement == Abs!TypeOK /\ Abs!Agreement => Visible \in Disk /\ Agreement
BY DEF Abs!TypeOK, Abs!Agreement, Agreement, Abs!Agreed, Agreed, Abs!Disk,
   Disk, Abs!PublicView, PublicView, Abs!State, State, Abs!Settings,
   Settings, Abs!Config, Config, Abs!Public, Public, Abs!Client, Client,
   Abs!Present, Present, Abs!Absent, Absent, Abs!Readable, Readable,
   Abs!Merge, Merge

(* As other processes see it, the installed configuration, the managed     *)
(* state, the active profile and the published snapshot agree, through     *)
(* failures and rollbacks of every operation, unless the disk is torn.     *)
THEOREM PartsAgree == Spec => []Agreement
BY OperationsAreAtomic, AgreementHolds, SameAgreement, PTL DEF AbsSpec

-----------------------------------------------------------------------------
(* A whole operation changes one setting at most.                          *)
OneChange ==
  ~torn' /\ Visible.state # NoState /\ Visible'.state # NoState =>
    \A f, g \in Fields :
      /\ Visible'.state.settings[f] # Visible.state.settings[f]
      /\ Visible'.state.settings[g] # Visible.state.settings[g]
      => f = g

LEMMA KeptState ==
  ASSUME Visible'.state = Visible.state
  PROVE  OneChange
BY DEF OneChange

LEMMA RewrittenState ==
  ASSUME NEW d \in Disk, NEW p, NEW st, NEW q
  PROVE  Abs!Rewritten(d, p, st, q).state = st
BY AbsRewritten DEF Disk

LEMMA OperationChanges ==
  ASSUME Visible \in Disk, Abs!Next
  PROVE  OneChange
<1> DEFINE b == Visible
<1>1. ASSUME NEW p \in Procs, Abs!Initialize(p) PROVE OneChange
  <2>1. PICK c \in Controllers, d \in Disk :
          Visible' = Abs!Rewritten(d, p,
            [ctl |-> c, settings |-> IF b.state = NoState THEN b.installed.settings
                                                          ELSE b.state.settings],
            d.active)
    <3>1. WriteProfile(b, Sys, 1) \in Disk
      BY VersionTypes, SysAssumption, AddMakes
    <3>2. QED
      BY <1>1, <3>1, AbsIs DEF Abs!Initialize
  <2>2. b.state # NoState => Visible'.state.settings = b.state.settings
    BY <2>1, RewrittenState
  <2>3. QED
    BY <2>2 DEF OneChange
<1>2. ASSUME NEW p \in Procs, Abs!ChangeSetting(p) PROVE OneChange
  <2>1. PICK f \in Fields, v \in Values :
          Visible' = Abs!Rewritten(b, p, [b.state EXCEPT !.settings[f] = v], b.active)
    BY <1>2 DEF Abs!ChangeSetting
  <2>2. Visible'.state = [b.state EXCEPT !.settings[f] = v] /\ b.state \in State
    BY <1>2, <2>1, RewrittenState DEF Abs!ChangeSetting, Disk
  <2>3. \A g \in Fields \ {f} : Visible'.state.settings[g] = b.state.settings[g]
    BY <2>2 DEF State, Settings
  <2>4. QED
    BY <2>3 DEF OneChange
<1>3. ASSUME NEW p \in Procs, Abs!UseProfile(p) \/ Abs!Repair(p) PROVE OneChange
  <2>1. \E q : Visible' = Abs!Rewritten(b, p, b.state, q)
    BY <1>3 DEF Abs!UseProfile, Abs!Repair
  <2>2. QED
    BY <2>1, RewrittenState, KeptState
<1>4. ASSUME NEW p \in Procs, Abs!AddProfile(p) PROVE OneChange
  <2>1. PICK q \in Profiles, v \in Versions :
          LET d == WriteProfile(b, q, v)
          IN  Visible' \in {Abs!Rewritten(d, p, b.state, q), WritePublic(d)}
    BY <1>4, AbsIs DEF Abs!AddProfile
  <2>2. WriteProfile(b, q, v) \in Disk /\ WriteProfile(b, q, v).state = b.state
    BY VersionTypes, AddMakes
  <2>3. Visible'.state = b.state
    BY <2>1, <2>2, RewrittenState, PublishMakes
  <2>4. QED
    BY <2>3, KeptState
<1>5. ASSUME NEW p \in Procs, Abs!SyncClient(p) PROVE OneChange
  BY <1>5, AbsIs, KeptState DEF Abs!SyncClient, WriteClient, Disk
<1>6. CASE Abs!RemoveProfile \/ Abs!SyncPublic \/ Abs!Service
  BY <1>6, AbsIs, KeptState
  DEF Abs!RemoveProfile, Abs!SyncPublic, Abs!Service, WritePublic, DropProfile,
      RestartService, Disk
<1>7. CASE Abs!UpdateProfiles
  <2>1. PICK new \in [Profiles -> Present] :
          LET d == [b EXCEPT !.content = new]
              a == b.active
          IN  Visible' \in {WritePublic(InstallConfig(d, Merge(b.state, d, a))),
                            WritePublic(d)}
    BY <1>7, AbsIs DEF Abs!UpdateProfiles
  <2>2. Visible'.state = b.state
    BY <2>1 DEF WritePublic, InstallConfig, Disk
  <2>3. QED
    BY <2>2, KeptState
<1>8. CASE Abs!Damage
  BY <1>8 DEF Abs!Damage, OneChange
<1>9. QED
  BY <1>1, <1>2, <1>3, <1>4, <1>5, <1>6, <1>7, <1>8 DEF Abs!Next

(* Two processes that change settings one after the other both keep their  *)
(* change: an operation starts from the newest settings and alters one.    *)
THEOREM ChangesSurvive == Spec => NoLostUpdate
<1>1. Visible \in Disk /\ [Abs!Next]_(Abs!vars) => OneChange
  <2>1. CASE UNCHANGED Abs!vars
    BY <2>1, KeptState DEF Abs!vars
  <2>2. QED
    BY <2>1, OperationChanges
<1>2. Spec => [](Visible \in Disk)
  BY OperationsAreAtomic, AgreementHolds, SameAgreement, PTL DEF AbsSpec
<1>3. QED
  BY <1>1, <1>2, OperationsAreAtomic, PTL DEF AbsSpec, Abs!Spec, NoLostUpdate, OneChange

-----------------------------------------------------------------------------
(* A machine that is managed from the start.                               *)
LEMMA ManagedTypes ==
  ASSUME NEW st \in State, NEW up \in BOOLEAN
  PROVE  ManagedDisk(st, up) \in Disk /\ Readable(ManagedDisk(st, up))
<1> DEFINE f == FreshDisk(st.settings, up)
           d == [f EXCEPT !.state = st, !.active = InUse,
                          !.content = [q \in Profiles |-> 1]]
           e == InstallConfig(d, Merge(st, d, InUse))
<1>1. f \in Disk
  BY FreshTypes DEF State
<1>2. d \in Disk /\ d.active = InUse /\ d.content = [q \in Profiles |-> 1]
  <2> HIDE DEF f
  <2>1. QED
    BY <1>1, VersionTypes, InUseAssumption DEF Disk
<1> HIDE DEF d
<1>3. e \in Disk /\ e.active = InUse /\ e.content = [q \in Profiles |-> 1]
  BY <1>2, MergeType, InstallMakes, InUseAssumption
<1> HIDE DEF e
<1>4. /\ WritePublic(e) \in Disk /\ WritePublic(e).active = InUse
      /\ WritePublic(e).content = [q \in Profiles |-> 1]
  BY <1>3, PublishMakes
<1>5. ManagedDisk(st, up) = WritePublic(e)
  BY DEF ManagedDisk, e, d
<1>6. QED
  BY <1>4, <1>5, InUseAssumption, NoProfileAssumption DEF Readable, Absent

LEMMA ManagedStages == ManagedSpec => []StageInv
<1>1. ManagedInit => StageInv
  BY ManagedTypes, QuietStages DEF ManagedInit
<1>2. QED
  BY <1>1, StageStep, PTL DEF ManagedSpec

(* On a managed machine as well, each step of an operation is a step of    *)
(* AtomicMutation or none, and a failed operation restores what it took.   *)
THEOREM ManagedIsAtomic == ManagedSpec => AbsSteps /\ FailureRestores
<1>1. StageInv => RollbackInv
  BY DEF StageInv
<1>2. QED
  BY <1>1, ManagedStages, EveryStepIsAtomic, RestoreStep, PTL
  DEF ManagedSpec, AbsSteps, FailureRestores, RestoresExactly

-----------------------------------------------------------------------------
(* The active profile keeps a document.                                    *)

(* The next step of an operation neither removes the active profile's      *)
(* document nor makes a profile active that has none ...                   *)
Spares(s, d) ==
  /\ s.do \in {"import", "add", "commit"} => s.ver # Absent
  /\ s.do = "use"    => s.prof \in Profiles /\ d.content[s.prof] # Absent
  /\ s.do = "remove" => s.prof # d.active

RepairInv ==
  /\ StageInv
  /\ Readable(disk)
  /\ \A p \in Procs : pc[p] \in InFlight => Readable(before[p])

LEMMA StageSpares ==
  ASSUME NEW p \in Procs, NEW k, NEW b \in Disk, NEW st \in State,
         NEW t \in Seq(Step), t # <<>>, NEW d \in Disk, NEW w,
         Stage(p, k, b, st, t, d, w)
  PROVE  Spares(Head(t), d)
<1>1. Head(t) = t[1] /\ Len(t) \in Nat \ {0}
  OBVIOUS
<1>2. \A v \in Versions \cup {1} : v # Absent
  BY VersionAssumption DEF Versions, Absent
<1>3. CASE InitStage(p, b, st, t, d, w)
  <2>1. Head(t) = DoVer("import", Sys, 1) \/ Head(t) = Publish
        \/ \E a \in {"apply", "save", "client"} : \E q : Head(t) = Do(a, q)
    BY <1>3 DEF InitStage
  <2>2. QED
    BY <1>2, <2>1, Steps DEF Spares
<1>4. CASE SetStage(p, b, st, t, d, w) \/ RepairStage(p, b, st, t, d, w)
           \/ ReapplyStage(b, t, d, w)
  <2>1. Head(t) = Publish
        \/ \E a \in {"apply", "save", "client"} : \E q : Head(t) = Do(a, q)
    BY <1>4 DEF SetStage, RepairStage, ReapplyStage
  <2>2. QED
    BY <2>1, Steps DEF Spares
<1>5. CASE AddStage(p, b, st, t, d, w)
  <2>1. \/ Head(t) = Publish
        \/ \E a \in {"apply", "client"} : \E q : Head(t) = Do(a, q)
        \/ \E q : \E v \in Versions : Head(t) = DoVer("add", q, v)
    BY <1>5 DEF AddStage, FirstStage, MoreStage
  <2>2. QED
    BY <1>2, <2>1, Steps DEF Spares
<1>6. CASE UseStage(p, b, st, t, d, w)
  <2>1. PICK q \in Profiles \ {b.active} :
          /\ b.content[q] # Absent
          /\ \/ Head(t) = Publish
             \/ \E a \in {"remember", "apply", "client"} : \E r : Head(t) = Do(a, r)
             \/ d = InstallConfig(b, Merge(st, b, q)) /\ Head(t) = Do("use", q)
    BY <1>6 DEF UseStage
  <2>2. InstallConfig(b, Merge(st, b, q)).content = b.content
    BY MergeType, InstallMakes
  <2>3. QED
    BY <2>1, <2>2, Steps DEF Spares
<1>7. CASE RemoveStage(b, t, d, w)
  BY <1>7, Steps DEF RemoveStage, Spares
<1>8. CASE RefreshStage(b, t, d, w)
  BY <1>1, <1>8, Steps DEF RefreshStage, Spares
<1>9. CASE t = <<Publish>> \/ \E a \in ServiceSteps \cup {"client"} : \E q : t = <<Do(a, q)>>
  BY <1>9, Steps DEF Spares, ServiceSteps
<1>10. \/ InitStage(p, b, st, t, d, w) \/ SetStage(p, b, st, t, d, w)
       \/ AddStage(p, b, st, t, d, w) \/ UseStage(p, b, st, t, d, w)
       \/ RepairStage(p, b, st, t, d, w) \/ RemoveStage(b, t, d, w)
       \/ RefreshStage(b, t, d, w) \/ ReapplyStage(b, t, d, w)
       \/ t = <<Publish>>
       \/ \E a \in ServiceSteps \cup {"client"} : \E q : t = <<Do(a, q)>>
  BY Zenon DEF Stage
<1>11. QED
  BY <1>3, <1>4, <1>5, <1>6, <1>7, <1>8, <1>9, <1>10

LEMMA UnsettledReads ==
  ASSUME NEW d \in Disk, Readable(d), NEW cfg
  PROVE  \A e \in Unsettled(d, cfg) : Readable(e)
<1> DEFINE R       == IF d.running = Stopped THEN {Stopped}
                      ELSE {d.running, d.installed, cfg, Stopped}
           F(i, r) == [d EXCEPT !.installed = i, !.running = r]
<1>1. \A i \in {d.installed, cfg}, r \in R : Readable(F(i, r))
  BY DEF Disk, Readable
<1>2. Unsettled(d, cfg) = {F(i, r) : i \in {d.installed, cfg}, r \in R}
  BY DEF Unsettled
<1> HIDE DEF R, F
<1>3. QED
  BY <1>1, <1>2

(* ... so that the step, done or cut short, leaves one to the active one.  *)
LEMMA SparedReads ==
  ASSUME NEW p \in Procs, disk \in Disk, local[p] \in State, Readable(disk),
         todo[p] \in Seq(Step), todo[p] # <<>>, Spares(Head(todo[p]), disk),
         NEW e \in CutShort(p, disk) \cup {Effect(p, disk)}
  PROVE  Readable(e)
<1> DEFINE s == Head(todo[p])
           d == disk
<1>1. s \in Step
  OBVIOUS
<1>2. Readable(Effect(p, d))
  <2>1. CASE s.do \in {"import", "add", "commit"}
    <3>1. s.prof \in Profiles /\ s.ver # Absent
      BY <1>1, <2>1 DEF Step, Spares
    <3>2. QED
      BY <2>1, <3>1 DEF Effect, WriteProfile, CommitProfile, Readable, Disk
  <2>2. CASE s.do = "use"
    BY <2>2, NoProfileAssumption DEF Effect, ActivateProfile, Readable, Disk, Spares
  <2>3. CASE s.do = "remove"
    BY <2>3 DEF Effect, DropProfile, Readable, Disk, Spares
  <2>4. CASE s.do \in {"remember", "apply", "save", "client", "public"}
    BY <2>4 DEF Effect, InstallConfig, WriteState, WriteClient, WritePublic, Readable, Disk
  <2>5. CASE s.do \in ServiceSteps
    BY <2>5 DEF Effect, ServiceSteps, RestartService, Readable, Disk
  <2>6. QED
    BY <1>1, <2>1, <2>2, <2>3, <2>4, <2>5 DEF Step, ServiceSteps
<1>3. CASE e \in {d, Effect(p, d)}
  BY <1>2, <1>3
<1>4. CASE s.do = "apply"
  <2>1. CutShort(p, d) = Unsettled(d, Applied(p, d))
    BY <1>4 DEF CutShort
  <2>2. QED
    BY <1>2, <2>1, UnsettledReads
<1>5. CASE s.do \in {"import", "add"}
  <2>1. [d EXCEPT !.active = Effect(p, d).active] = d
    BY <1>5 DEF Effect, WriteProfile, Readable, Disk
  <2>2. QED
    BY <1>2, <1>5, <2>1 DEF CutShort
<1>6. CASE s.do \in ServiceSteps
  BY <1>2, <1>6 DEF CutShort, ServiceSteps, Readable, Disk
<1>7. QED
  BY <1>3, <1>4, <1>5, <1>6 DEF CutShort, ServiceSteps

(* A rollback, finished or not, leaves one of the two active profiles.     *)
LEMMA RestoredReads ==
  ASSUME NEW p \in Procs, NEW d \in Disk, before[p] \in Disk,
         Readable(d), Readable(before[p]), NEW r \in Rollback,
         NEW e \in HalfRestored(d, p, r) \cup {Restored(d, p, Covers(p, r))}
  PROVE  Readable(e)
<1>1. \A J : Readable(Restored(d, p, J))
  BY DEF Restored, Readable
<1>2. CASE r = "files"
  BY <1>1, <1>2 DEF HalfRestored
<1>3. CASE r = "store"
  <2>1. \A c \in DocumentsRestored(d, p) : Readable(c)
    BY DEF DocumentsRestored, Readable, Disk
  <2>2. QED
    BY <1>1, <1>3, <2>1 DEF HalfRestored
<1>4. CASE r = "config"
  BY <1>1, <1>4, UnsettledReads DEF HalfRestored
<1>5. QED
  BY <1>2, <1>3, <1>4 DEF Rollback

(* The disk stays readable through every step of a process ...             *)
LEMMA ReadableNext ==
  ASSUME RepairInv, NEW p \in Procs,
         Request(p) \/ Cancel(p) \/ Acquire(p) \/ Work(p) \/ Crash(p)
  PROVE  Readable(disk')
<1>1. TypeOK /\ disk \in Disk /\ Readable(disk)
  BY DEF RepairInv, StageInv, RollbackInv, TypeOK
<1>2. CASE disk' = disk
  BY <1>1, <1>2
<1>3. ASSUME pc[p] = "run", disk' \in CutShort(p, disk) \cup {Effect(p, disk)}
      PROVE  Readable(disk')
  <2>1. Spares(Head(todo[p]), disk)
    BY <1>3, StepFinds, StageSpares DEF RepairInv
  <2>2. QED
    BY <1>1, <1>3, <2>1, StepFinds, SparedReads DEF RepairInv
<1>4. ASSUME pc[p] \in InFlight, NEW r \in Rollback,
             disk' \in HalfRestored(disk, p, r) \cup {Restored(disk, p, Covers(p, r))}
      PROVE  Readable(disk')
  <2>1. before[p] \in Disk /\ Readable(before[p])
    BY <1>1, <1>4 DEF TypeOK, Prepared, RepairInv
  <2>2. QED
    BY <1>1, <1>4, <2>1, RestoredReads
<1>5. CASE StepOK(p) \/ StepFails(p)
  BY <1>3, <1>5 DEF StepOK, StepFails
<1>6. CASE ApplyFails(p)
  BY <1>1, <1>6 DEF ApplyFails, Readable, Disk
<1>7. CASE ApplyBreaks(p)
  BY <1>1, <1>7, UnsettledReads DEF ApplyBreaks
<1>8. CASE RestoreStore(p) \/ RestoreStoreFails(p)
  <2>1. "store" \in Rollback /\ Covers(p, "store") = {"store"}
    BY DEF Rollback, Covers
  <2>2. pc[p] \in InFlight
    BY <1>8 DEF RestoreStore, RestoreStoreFails, InFlight
  <2>3. disk' \in HalfRestored(disk, p, "store") \cup {Restored(disk, p, {"store"})}
    BY <1>8 DEF RestoreStore, RestoreStoreFails
  <2>4. QED
    BY <1>4, <2>1, <2>2, <2>3
<1>9. CASE UndoOK(p) \/ UndoFails(p)
  <2>1. pc[p] = "undo" /\ pc[p] \in InFlight
    BY <1>9 DEF UndoOK, UndoFails, InFlight
  <2>2. Head(stack[p]) \in Rollback
    BY <1>1, <2>1 DEF TypeOK, Prepared
  <2>3. QED
    BY <1>4, <1>9, <2>1, <2>2 DEF UndoOK, UndoFails
<1>10. CASE Crash(p)
  <2>1. CASE pc[p] = "run"
    BY <1>3, <1>10, <2>1 DEF Crash
  <2>2. CASE pc[p] = "restore"
    BY <1>4, <1>10, <2>2 DEF Crash, InFlight, Rollback
  <2>3. CASE pc[p] = "undo"
    <3>1. Head(stack[p]) \in Rollback
      BY <1>1, <2>3 DEF TypeOK, Prepared
    <3>2. disk' \in HalfRestored(disk, p, Head(stack[p]))
      BY <1>10, <2>3 DEF Crash
    <3>3. QED
      BY <1>4, <2>3, <3>1, <3>2 DEF InFlight
  <2>4. CASE pc[p] \notin {"run", "restore", "undo"}
    BY <1>2, <1>10, <2>4 DEF Crash
  <2>5. QED
    BY <2>1, <2>2, <2>3, <2>4
<1>11. CASE Request(p) \/ Cancel(p) \/ Acquire(p) \/ Reload(p) \/ Refuse(p)
            \/ Release(p) \/ NextBatch(p)
  BY <1>2, <1>11 DEF Request, Cancel, Acquire, Reload, Refuse, Release, NextBatch
<1>12. CASE Start(p)
  BY <1>2, <1>12
  DEF Start, Begin, StartInitialize, StartChangeSetting, StartAddProfile,
      StartUseProfile, StartRemoveProfile, StartSyncPublic, StartSyncClient,
      StartRepair, StartService, StartUpdate
<1>13. QED
  BY <1>5, <1>6, <1>7, <1>8, <1>9, <1>10, <1>11, <1>12 DEF Work

(* ... and so does what its checkpoints captured.                          *)
LEMMA CapturedNext ==
  ASSUME RepairInv, NEW p \in Procs,
         Request(p) \/ Cancel(p) \/ Acquire(p) \/ Work(p) \/ Crash(p)
  PROVE  \A q \in Procs : pc'[q] \in InFlight => Readable(before'[q])
<1>1. TypeOK
  BY DEF RepairInv, StageInv, RollbackInv
<1>2. \/ before' = before /\ (pc'[p] \in InFlight => pc[p] \in InFlight)
      \/ before' = [before EXCEPT ![p] = disk]
      \/ pc'[p] \notin InFlight /\ \E x : before' = [before EXCEPT ![p] = x]
  <2>1. CASE Request(p) \/ Cancel(p) \/ Acquire(p) \/ Reload(p) \/ Refuse(p)
    BY <1>1, <2>1 DEF TypeOK, Request, Cancel, Acquire, Reload, Refuse, job, InFlight
  <2>2. CASE Release(p) \/ Crash(p)
    BY <1>1, <2>2 DEF TypeOK, Release, Crash, Forget, InFlight
  <2>3. CASE NextBatch(p)
    BY <2>3 DEF NextBatch
  <2>4. CASE StepOK(p) \/ StepFails(p) \/ ApplyFails(p) \/ ApplyBreaks(p)
    BY <1>1, <2>4 DEF TypeOK, StepOK, StepFails, ApplyFails, ApplyBreaks, job, InFlight
  <2>5. CASE RestoreStore(p) \/ RestoreStoreFails(p) \/ UndoOK(p) \/ UndoFails(p)
    BY <1>1, <2>5
    DEF TypeOK, RestoreStore, RestoreStoreFails, UndoOK, UndoFails, Unwind, job, InFlight
  <2>6. CASE StartUpdate(p)
    BY <1>1, <2>6 DEF TypeOK, StartUpdate, InFlight
  <2>7. CASE Start(p) /\ ~StartUpdate(p)
    BY <2>7
    DEF Start, Begin, StartInitialize, StartChangeSetting, StartAddProfile,
        StartUseProfile, StartRemoveProfile, StartSyncPublic, StartSyncClient,
        StartRepair, StartService
  <2>8. QED
    BY <2>1, <2>2, <2>3, <2>4, <2>5, <2>6, <2>7 DEF Work
<1>3. \A q \in Procs \ {p} : pc'[q] = pc[q] /\ before'[q] = before[q]
  BY <1>1, <1>2, OneMoves DEF TypeOK
<1>4. pc'[p] \in InFlight => Readable(before'[p])
  BY <1>1, <1>2 DEF TypeOK, RepairInv
<1>5. QED
  BY <1>3, <1>4 DEF RepairInv

(* A machine that was taken over stays within reach of `doctor --fix` and  *)
(* of the settings, whatever crashed or failed to roll back: its active    *)
(* profile has a document.                                                 *)
THEOREM StaysRepairable == ManagedSpec => []Repairable
<1>1. ManagedInit => RepairInv
  BY ManagedTypes, QuietStages DEF ManagedInit, RepairInv, Quiet, InFlight
<1>2. RepairInv /\ [Next]_vars => RepairInv'
  <2> SUFFICES ASSUME RepairInv, [Next]_vars PROVE RepairInv'
    OBVIOUS
  <2>1. StageInv'
    BY StageStep DEF RepairInv
  <2>2. CASE UNCHANGED vars
    BY <2>1, <2>2 DEF RepairInv, vars
  <2>3. CASE Next
    BY <2>1, <2>3, ReadableNext, CapturedNext DEF RepairInv, Next
  <2>4. QED
    BY <2>2, <2>3
<1>3. RepairInv => Repairable
  BY DEF RepairInv, Repairable
<1>4. QED
  BY <1>1, <1>2, <1>3, PTL DEF ManagedSpec
=============================================================================
