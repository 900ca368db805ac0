------------------------------ MODULE Mutation ------------------------------
(***************************************************************************)
(* Every privileged operation of mihomoctl, as the processes that run it   *)
(* execute it: wait for the operation lock, reload the disk state into     *)
(* memory, take checkpoints, perform the operation's steps in the order of *)
(* the code, and when one fails unwind the rollback stack.  Any step may   *)
(* fail before or after it changed its file, the process may be killed     *)
(* anywhere, and a rollback step may fail too.                             *)
(***************************************************************************)
EXTENDS ManagedState, Sequences

CONSTANTS
  BatchSize,    \* profiles committed together by an update
  MaxTargets,   \* bound: profiles refreshed by one update
  MaxOps,       \* bound: operations requested in a behaviour
  MaxFaults,    \* bound: kills and failed rollbacks in a behaviour
  Nobody,       \* the lock's holder when it is free
  NoCheckpoint  \* nothing was captured

ASSUME BatchAssumption  == BatchSize \in Nat \ {0}
ASSUME TargetAssumption == MaxTargets \in Nat
ASSUME BoundAssumption  == MaxOps \in Nat /\ MaxFaults \in Nat
ASSUME NobodyAssumption == Nobody \notin Procs

VARIABLES
  disk,     \* the shared disk and service, a ManagedState!Disk
  torn,     \* ghost: a crash or a failed rollback left the disk in pieces
  owner,    \* holder of the flock on .operation.lock
  pc,       \* where each process is
  kind,     \* the operation it runs
  mem,      \* App.state: the managed state in its memory
  local,    \* the state copy its operation works with
  queue,    \* updates that wait for a later batch
  todo,     \* remaining steps of the operation (or of its batch)
  stack,    \* the rollback stack, newest first
  before,   \* what its checkpoints captured
  rberr,    \* whether one of its rollback steps failed
  ops, faults

job  == <<kind, local, queue, todo, stack, before, rberr>>
vars == <<disk, torn, owner, pc, kind, mem, local, queue, todo, stack, before,
          rberr, ops, faults>>

Kinds == {"none", "init", "set", "add", "update", "use", "remove",
          "sync-public", "sync-client", "doctor", "service"}
InFlight == {"run", "restore", "undo"}
Working  == {"locked", "ready", "batch", "done"} \cup InFlight
PCs      == {"idle", "want"} \cup Working
Rollback == {"files", "store", "config"}
Target   == [prof : Profiles, ver : Versions]
Step == [do   : {"import", "add", "commit", "remember", "use", "remove",
                 "apply", "save", "client"},
         prof : Profiles, ver : Present]
        \cup [do   : {"public", "start", "stop", "restart"},
              prof : {NoProfile}, ver : {Absent}]

(* What the program counter promises of a process's other variables.       *)
Prepared(p) ==
  /\ pc[p] = "batch" => queue[p] # <<>>
  /\ pc[p] = "run"   => todo[p] # <<>>
  /\ pc[p] = "undo"  => stack[p] # <<>>
  /\ pc[p] \in InFlight \cup {"batch"} => local[p] \in State
  /\ pc[p] \in InFlight => before[p] \in Disk

TypeOK ==
  /\ disk \in Disk /\ torn \in BOOLEAN
  /\ owner \in Procs \cup {Nobody}
  /\ pc \in [Procs -> PCs]
  /\ kind \in [Procs -> Kinds]
  /\ mem \in [Procs -> State \cup {NoState}]
  /\ local \in [Procs -> State \cup {NoState}]
  /\ queue \in [Procs -> Seq(Target)]
  /\ todo \in [Procs -> Seq(Step)]
  /\ stack \in [Procs -> Seq(Rollback)]
  /\ before \in [Procs -> Disk \cup {NoCheckpoint}]
  /\ rberr \in [Procs -> BOOLEAN]
  /\ ops \in Nat /\ faults \in Nat
  /\ \A p \in Procs : Prepared(p)

(* No operation has been requested; App.New read the state there is.       *)
Quiet ==
  /\ torn = FALSE
  /\ owner = Nobody
  /\ pc = [p \in Procs |-> "idle"]
  /\ kind = [p \in Procs |-> "none"]
  /\ mem = [p \in Procs |-> disk.state]
  /\ local = [p \in Procs |-> NoState]
  /\ queue = [p \in Procs |-> <<>>]
  /\ todo = [p \in Procs |-> <<>>]
  /\ stack = [p \in Procs |-> <<>>]
  /\ before = [p \in Procs |-> NoCheckpoint]
  /\ rberr = [p \in Procs |-> FALSE]
  /\ ops = 0 /\ faults = 0

Init ==
  /\ \E s \in Settings, up \in BOOLEAN : disk = FreshDisk(s, up)
  /\ Quiet

-----------------------------------------------------------------------------
(* Waiting for the lock, and what withMutation does once it is held.       *)
Request(p) ==
  /\ pc[p] = "idle"
  /\ ops < MaxOps
  /\ ops' = ops + 1
  /\ pc' = [pc EXCEPT ![p] = "want"]
  /\ UNCHANGED <<disk, torn, owner, mem, job, faults>>

(* Cancelled while it polls the lock: nothing was started.                 *)
Cancel(p) ==
  /\ pc[p] = "want"
  /\ pc' = [pc EXCEPT ![p] = "idle"]
  /\ UNCHANGED <<disk, torn, owner, mem, job, ops, faults>>

AcquireUnguarded(p) ==  \* mutant: a lock that does not exclude
  /\ pc[p] = "want"
  /\ owner' = p
  /\ pc' = [pc EXCEPT ![p] = "locked"]
  /\ UNCHANGED <<disk, torn, mem, job, ops, faults>>
Acquire(p) ==
  /\ pc[p] = "want"
  /\ owner = Nobody
  /\ owner' = p
  /\ pc' = [pc EXCEPT ![p] = "locked"]
  /\ UNCHANGED <<disk, torn, mem, job, ops, faults>>

(* reloadDiskStateLocked, then the last look at the caller's context.      *)
ReloadSkipped(p) ==  \* mutant: the operation runs on what it read at startup
  /\ pc[p] = "locked"
  /\ pc' = [pc EXCEPT ![p] = "ready"]
  /\ UNCHANGED <<disk, torn, owner, mem, job, ops, faults>>
Reload(p) ==
  /\ pc[p] = "locked"
  /\ mem' = [mem EXCEPT ![p] = disk.state]
  /\ \E next \in {"ready", "done"} : pc' = [pc EXCEPT ![p] = next]
  /\ UNCHANGED <<disk, torn, owner, job, ops, faults>>

(* The operation returns: what was local to its call is gone.              *)
Forget(p) ==
  /\ kind' = [kind EXCEPT ![p] = "none"]
  /\ local' = [local EXCEPT ![p] = NoState]
  /\ queue' = [queue EXCEPT ![p] = <<>>]
  /\ todo' = [todo EXCEPT ![p] = <<>>]
  /\ stack' = [stack EXCEPT ![p] = <<>>]
  /\ before' = [before EXCEPT ![p] = NoCheckpoint]
  /\ rberr' = [rberr EXCEPT ![p] = FALSE]

(* The lock is the kernel's: it goes when its holder closes it or dies.    *)
UnlockedAtEnd(p) ==      \* mutant: a lock file that a killed holder leaves
  IF owner = p /\ pc[p] = "done" THEN Nobody ELSE owner
Unlocked(p) == IF owner = p THEN Nobody ELSE owner

Release(p) ==
  /\ pc[p] = "done"
  /\ owner' = Unlocked(p)
  /\ pc' = [pc EXCEPT ![p] = "idle"]
  /\ Forget(p)
  /\ UNCHANGED <<disk, torn, mem, ops, faults>>

-----------------------------------------------------------------------------
(* An operation checks its preconditions, captures its rollback points and *)
(* then runs the given steps.                                              *)
Do(what, q)       == [do |-> what, prof |-> q, ver |-> Absent]
Publish           == Do("public", NoProfile)
DoVer(what, q, v) == [do |-> what, prof |-> q, ver |-> v]

Begin(p, k, st, guards, steps) ==
  /\ pc' = [pc EXCEPT ![p] = "run"]
  /\ kind' = [kind EXCEPT ![p] = k]
  /\ local' = [local EXCEPT ![p] = st]
  /\ queue' = [queue EXCEPT ![p] = <<>>]
  /\ todo' = [todo EXCEPT ![p] = steps]
  /\ stack' = [stack EXCEPT ![p] = guards]
  /\ before' = [before EXCEPT ![p] = disk]
  /\ rberr' = [rberr EXCEPT ![p] = FALSE]
  /\ UNCHANGED <<disk, torn, owner, mem, ops, faults>>

(* Any operation may be refused or fail before it captured anything: not   *)
(* initialised, unknown or duplicate name, unreadable source.  An update   *)
(* may also end between two of its batches.                                *)
Refuse(p) ==
  /\ pc[p] \in {"ready", "batch"}
  /\ pc' = [pc EXCEPT ![p] = "done"]
  /\ UNCHANGED <<disk, torn, owner, mem, job, ops, faults>>

StartInitialize(p) ==
  /\ pc[p] = "ready"
  /\ disk.active = NoProfile \/ Readable(disk)
  /\ \E c \in Controllers :
       LET s == IF mem[p] = NoState THEN disk.installed.settings
                                    ELSE mem[p].settings
           import == IF disk.active = NoProfile
                     THEN <<DoVer("import", Sys, 1)>> ELSE <<>>
           q == IF disk.active = NoProfile THEN Sys ELSE disk.active
       IN  Begin(p, "init", [ctl |-> c, settings |-> s], <<"store", "files">>,
                 import \o <<Do("apply", q), Do("save", q), Publish,
                             Do("client", q)>>)

StartChangeSetting(p) ==
  /\ pc[p] = "ready"
  /\ mem[p] # NoState
  /\ Readable(disk)
  /\ \E f \in Fields, v \in Values :
       Begin(p, "set", [mem[p] EXCEPT !.settings[f] = v], <<"files">>,
             <<Do("apply", disk.active), Do("save", disk.active),
               Do("client", disk.active), Publish>>)

StartAddProfile(p) ==
  /\ pc[p] = "ready"
  /\ mem[p] # NoState
  /\ \E q \in Profiles \ {Sys, disk.active}, v \in Versions :
       /\ disk.content[q] = Absent
       /\ Begin(p, "add", mem[p], <<"store", "files">>,
                <<DoVer("add", q, v)>>
                \o (IF disk.active = NoProfile
                    THEN <<Do("apply", q), Do("client", q)>> ELSE <<>>)
                \o <<Publish>>)

StartUseProfile(p) ==
  /\ pc[p] = "ready"
  /\ mem[p] # NoState
  /\ disk.active # NoProfile
  /\ \E q \in Profiles \ {disk.active} :
       /\ disk.content[q] # Absent
       /\ Begin(p, "use", mem[p], <<"store", "files">>,
                <<Do("remember", disk.active), Do("apply", q), Do("use", q),
                  Publish, Do("client", q)>>)

RemoveAny(p) ==  \* mutant: the active profile may be removed
  /\ pc[p] = "ready"
  /\ mem[p] # NoState
  /\ \E q \in Profiles :
       /\ disk.content[q] # Absent
       /\ Begin(p, "remove", mem[p], <<"store", "files">>,
                <<Do("remove", q), Publish>>)
StartRemoveProfile(p) ==
  /\ pc[p] = "ready"
  /\ mem[p] # NoState
  /\ \E q \in Profiles \ {disk.active} :
       /\ disk.content[q] # Absent
       /\ Begin(p, "remove", mem[p], <<"store", "files">>,
                <<Do("remove", q), Publish>>)

StartSyncPublic(p) ==
  /\ pc[p] = "ready"
  /\ mem[p] # NoState
  /\ Begin(p, "sync-public", mem[p], <<"files">>, <<Publish>>)

StartSyncClient(p) ==
  /\ pc[p] = "ready"
  /\ mem[p] # NoState
  /\ disk.active # NoProfile
  /\ Begin(p, "sync-client", mem[p], <<"files">>,
           <<Do("client", disk.active)>>)

StartRepair(p) ==
  /\ pc[p] = "ready"
  /\ mem[p] # NoState
  /\ Readable(disk)
  /\ Begin(p, "doctor", mem[p], <<"files">>,
           <<Do("apply", disk.active), Publish,
             Do("client", disk.active)>>)

StartService(p) ==
  /\ pc[p] = "ready"
  /\ mem[p] # NoState
  /\ \E a \in {"start", "stop", "restart"} :
       Begin(p, "service", mem[p], <<>>, <<Do(a, NoProfile)>>)

(* The subscriptions to refresh, without repetition, the active one first. *)
Sources   == {q \in Profiles \ {Sys} : disk.content[q] # Absent}
Orders(n) ==
  {order \in [1 .. n -> Sources] :
     /\ \A i, j \in 1 .. n : i # j => order[i] # order[j]
     /\ \A i \in 1 .. n : order[i] = disk.active => i = 1}

StartUpdate(p) ==
  /\ pc[p] = "ready"
  /\ mem[p] # NoState
  /\ \E n \in 1 .. MaxTargets : \E order \in Orders(n), new \in [1 .. n -> Versions] :
       queue' = [queue EXCEPT ![p] =
                   [i \in 1 .. n |-> [prof |-> order[i], ver |-> new[i]]]]
  /\ pc' = [pc EXCEPT ![p] = "batch"]
  /\ kind' = [kind EXCEPT ![p] = "update"]
  /\ local' = [local EXCEPT ![p] = mem[p]]
  /\ UNCHANGED <<disk, torn, owner, mem, todo, stack, before, rberr, ops,
                 faults>>

(* The active profile has a batch of its own; later batches are bounded.   *)
NextBatch(p) ==
  /\ pc[p] = "batch"
  /\ LET waiting == queue[p]
         limit == IF waiting[1].prof = disk.active THEN 1 ELSE BatchSize
         n == IF Len(waiting) < limit THEN Len(waiting) ELSE limit
     IN  /\ todo' = [todo EXCEPT ![p] =
              [i \in 1 .. n |-> DoVer("commit", waiting[i].prof, waiting[i].ver)]
              \o <<Publish>>]
         /\ queue' = [queue EXCEPT ![p] = SubSeq(waiting, n + 1, Len(waiting))]
  /\ stack' = [stack EXCEPT ![p] = <<"store", "files">>]
  /\ before' = [before EXCEPT ![p] = disk]
  /\ rberr' = [rberr EXCEPT ![p] = FALSE]
  /\ pc' = [pc EXCEPT ![p] = "run"]
  /\ UNCHANGED <<disk, torn, owner, kind, mem, local, ops, faults>>

-----------------------------------------------------------------------------
(* One step of the operation: what it does when it succeeds ...            *)
Applied(p, d) == Merge(local[p], d, Head(todo[p]).prof)

Effect(p, d) ==
  LET s == Head(todo[p])
  IN  CASE s.do \in {"import", "add"} -> WriteProfile(d, s.prof, s.ver)
        [] s.do = "commit"   -> CommitProfile(d, s.prof, s.ver)
        [] s.do = "remember" -> d
        [] s.do = "use"      -> ActivateProfile(d, s.prof)
        [] s.do = "remove"   -> DropProfile(d, s.prof)
        [] s.do = "apply"    -> InstallConfig(d, Applied(p, d))
        [] s.do = "save"     -> WriteState(d, local[p])
        [] s.do = "client"   -> WriteClient(d, p, local[p], s.prof)
        [] s.do = "public"   -> WritePublic(d)
        [] s.do = "start"    -> [d EXCEPT !.running = IF d.running = Stopped
                                                      THEN d.installed
                                                      ELSE d.running]
        [] s.do = "stop"     -> [d EXCEPT !.running = Stopped]
        [] s.do = "restart"  -> RestartService(d)

(* ... and what it may leave behind when it is cut short.  The Mihomo file *)
(* and the service are two things: a replaced file whose service was not   *)
(* restarted, or did not come up again.                                    *)
Unsettled(d, cfg) ==
  {[d EXCEPT !.installed = i, !.running = r] :
     i \in {d.installed, cfg},
     r \in IF d.running = Stopped THEN {Stopped}
           ELSE {d.running, d.installed, cfg, Stopped}}

CutShort(p, d) ==
  LET s == Head(todo[p])
  IN  CASE s.do = "apply" -> Unsettled(d, Applied(p, d))
        [] s.do \in {"import", "add"} ->
             {d, Effect(p, d), [d EXCEPT !.active = Effect(p, d).active]}
        [] s.do \in {"start", "stop", "restart"} ->
             {[d EXCEPT !.running = r] : r \in {d.running, d.installed, Stopped}}
        [] OTHER -> {d, Effect(p, d)}

(* A refreshed active profile whose document changed must be applied next. *)
JustCommitted(p) == Tail(todo[p])  \* mutant: the document is not applied
Following(p) ==
  LET s == Head(todo[p])
  IN  IF /\ s.do = "commit"
         /\ s.prof = disk.active
         /\ s.ver # disk.content[s.prof]
      THEN <<Do("apply", s.prof)>> \o Tail(todo[p])
      ELSE Tail(todo[p])

Rewrites(p) == stack[p] # <<>> /\ Head(stack[p]) = "config"

(* The batch or operation is over.                                         *)
Continuation(p) == IF queue[p] = <<>> THEN "done" ELSE "batch"

StepOK(p) ==
  /\ pc[p] = "run"
  /\ disk' = Effect(p, disk)
  /\ todo' = [todo EXCEPT ![p] = Following(p)]
  /\ stack' = [stack EXCEPT ![p] = IF Head(todo[p]).do = "apply"
                                   THEN <<"config">> \o @ ELSE @]
  /\ mem' = [mem EXCEPT ![p] = IF Head(todo[p]).do = "save" THEN local[p] ELSE @]
  /\ IF todo'[p] # <<>>
     THEN UNCHANGED <<pc, torn>>
     ELSE /\ pc' = [pc EXCEPT ![p] = Continuation(p)]
          /\ torn' = IF Rewrites(p) THEN FALSE ELSE torn
  /\ UNCHANGED <<owner, kind, local, queue, before, rberr, ops, faults>>

(* A failed step unwinds what was captured; a service command captured     *)
(* nothing and just reports the error.                                     *)
Unwinding(p) == IF stack[p] = <<>> THEN "done" ELSE "undo"

StepFails(p) ==
  /\ pc[p] = "run"
  /\ Head(todo[p]).do # "apply"
  /\ disk' \in CutShort(p, disk)
  /\ pc' = [pc EXCEPT ![p] = Unwinding(p)]
  /\ UNCHANGED <<torn, owner, mem, job, ops, faults>>

(* Mihomo rejects the configuration, or does not come up healthy, and      *)
(* Apply puts the old file back.  doctor has no rollback for this step, an *)
(* update restores the store and goes on.                                  *)
ApplyFails(p) ==
  /\ pc[p] = "run"
  /\ Head(todo[p]).do = "apply"
  /\ disk' \in {disk, [disk EXCEPT !.running = Reloaded(disk, disk.installed)]}
  /\ pc' = [pc EXCEPT ![p] = CASE kind[p] = "doctor" -> "done"
                              [] kind[p] = "update" -> "restore"
                              [] OTHER -> Unwinding(p)]
  /\ UNCHANGED <<torn, owner, mem, job, ops, faults>>

(* The emergency rollback of Apply fails as well (ApplyError.RollbackErr). *)
ApplyBreaks(p) ==
  /\ pc[p] = "run"
  /\ Head(todo[p]).do = "apply"
  /\ faults < MaxFaults
  /\ faults' = faults + 1
  /\ disk' \in Unsettled(disk, Applied(p, disk))
  /\ rberr' = [rberr EXCEPT ![p] = TRUE]
  /\ IF kind[p] = "doctor"
     THEN /\ pc' = [pc EXCEPT ![p] = "done"]
          /\ torn' = (torn \/ disk' # before[p])
     ELSE /\ pc' = [pc EXCEPT ![p] = Unwinding(p)]
          /\ UNCHANGED torn
  /\ UNCHANGED <<owner, kind, mem, local, queue, todo, stack, before, ops>>

-----------------------------------------------------------------------------
(* Rolling back.  Restored(d, p, J) puts the captured parts J back.        *)
CapturedNoPublic(k) ==  \* mutant: `profile use` forgets public.json
  CASE k \in {"init", "set"}      -> {"state", "public", "client"}
    [] k \in {"add", "doctor"}    -> {"public", "client"}
    [] k \in {"update", "remove", "sync-public"} -> {"public"}
    [] k \in {"use", "sync-client"} -> {"client"}
    [] OTHER                       -> {}
CapturedFiles(k) ==
  CASE k \in {"init", "set"}                     -> {"state", "public", "client"}
    [] k \in {"add", "use", "doctor"}            -> {"public", "client"}
    [] k \in {"update", "remove", "sync-public"} -> {"public"}
    [] k = "sync-client"                         -> {"client"}
    [] OTHER                                     -> {}

Restored(d, p, J) ==
  LET b == before[p]
  IN  [state     |-> IF "state" \in J THEN b.state ELSE d.state,
       active    |-> IF "store" \in J THEN b.active ELSE d.active,
       content   |-> IF "store" \in J THEN b.content ELSE d.content,
       installed |-> IF "config" \in J THEN b.installed ELSE d.installed,
       running   |-> IF "config" \in J THEN Reloaded(d, b.installed)
                                       ELSE d.running,
       public    |-> IF "public" \in J THEN b.public ELSE d.public,
       client    |-> IF "client" \in J THEN [d.client EXCEPT ![p] = b.client[p]]
                                       ELSE d.client]

CoversRoot(p, r) ==  \* mutant: the user's client.yaml is left as it is
  IF r = "files" THEN CapturedFiles(kind[p]) \ {"client"} ELSE {r}
Covers(p, r) == IF r = "files" THEN CapturedFiles(kind[p]) ELSE {r}

(* What a rollback step may leave behind when it fails: some files, some   *)
(* profile documents without the store's index, an unsettled Mihomo.       *)
DocumentsRestored(d, p) ==
  LET b == before[p]
      both == {q \in Profiles : d.content[q] # Absent /\ b.content[q] # Absent}
  IN  {[d EXCEPT !.content = [q \in Profiles |-> IF q \in F THEN b.content[q]
                                                          ELSE d.content[q]]] :
         F \in SUBSET both}

HalfRestored(d, p, r) ==
  CASE r = "files"  -> {Restored(d, p, J) : J \in SUBSET CapturedFiles(kind[p])}
    [] r = "store"  -> DocumentsRestored(d, p) \cup {Restored(d, p, {"store"})}
    [] r = "config" -> Unsettled(d, before[p].installed)

(* An update whose apply failed restores the store on the spot.  Its later *)
(* batches still run; if even this fails the whole stack is unwound.       *)
RestoreIgnored(p) ==  \* mutant: the update goes on without restoring
  /\ pc[p] = "restore"
  /\ pc' = [pc EXCEPT ![p] = Continuation(p)]
  /\ UNCHANGED <<disk, torn, owner, mem, job, ops, faults>>
RestoreStore(p) ==
  /\ pc[p] = "restore"
  /\ disk' = Restored(disk, p, {"store"})
  /\ pc' = [pc EXCEPT ![p] = Continuation(p)]
  /\ UNCHANGED <<torn, owner, mem, job, ops, faults>>

RestoreStoreFails(p) ==
  /\ pc[p] = "restore"
  /\ disk' \in HalfRestored(disk, p, "store")
  /\ pc' = [pc EXCEPT ![p] = Unwinding(p)]
  /\ UNCHANGED <<torn, owner, mem, job, ops, faults>>

(* failAndReload: the stack is unwound from its newest entry whatever the  *)
(* entries report, then memory is reloaded, except by remove and           *)
(* sync-public, which call rollback.fail directly.                         *)
NeverReload == Kinds                        \* mutant: rollback keeps memory
KeepsMemory == {"remove", "sync-public"}

Unwind(p) ==
  /\ stack' = [stack EXCEPT ![p] = Tail(@)]
  /\ IF Tail(stack[p]) # <<>>
     THEN UNCHANGED <<pc, mem, torn>>
     ELSE /\ pc' = [pc EXCEPT ![p] = "done"]
          /\ mem' = [mem EXCEPT ![p] = IF kind[p] \in KeepsMemory
                                       THEN @ ELSE disk'.state]
          /\ torn' = (torn \/ (rberr'[p] /\ disk' # before[p]))
  /\ UNCHANGED <<owner, kind, local, queue, todo, before, ops>>

UndoOK(p) ==
  /\ pc[p] = "undo"
  /\ disk' = Restored(disk, p, Covers(p, Head(stack[p])))
  /\ UNCHANGED <<rberr, faults>>
  /\ Unwind(p)

UndoFails(p) ==
  /\ pc[p] = "undo"
  /\ faults < MaxFaults
  /\ faults' = faults + 1
  /\ disk' \in HalfRestored(disk, p, Head(stack[p]))
  /\ rberr' = [rberr EXCEPT ![p] = TRUE]
  /\ Unwind(p)

-----------------------------------------------------------------------------
(* The process is killed, possibly in the middle of a step.  The kernel    *)
(* drops its lock; its successor starts with what is on disk.              *)
Crash(p) ==
  /\ pc[p] \in Working
  /\ faults < MaxFaults
  /\ faults' = faults + 1
  /\ disk' \in CASE pc[p] = "run"     -> CutShort(p, disk)
                 [] pc[p] = "restore" -> HalfRestored(disk, p, "store")
                 [] pc[p] = "undo"    -> HalfRestored(disk, p, Head(stack[p]))
                 [] OTHER             -> {disk}
  /\ torn' = (torn \/ (pc[p] \in InFlight /\ disk' # before[p]))
  /\ owner' = Unlocked(p)
  /\ pc' = [pc EXCEPT ![p] = "idle"]
  /\ mem' = [mem EXCEPT ![p] = disk'.state]
  /\ Forget(p)
  /\ UNCHANGED ops

Start(p) ==
  \/ StartInitialize(p) \/ StartChangeSetting(p) \/ StartAddProfile(p)
  \/ StartUseProfile(p) \/ StartRemoveProfile(p) \/ StartSyncPublic(p)
  \/ StartSyncClient(p) \/ StartRepair(p) \/ StartService(p) \/ StartUpdate(p)

Work(p) ==
  \/ Reload(p) \/ Refuse(p) \/ Start(p) \/ NextBatch(p)
  \/ StepOK(p) \/ StepFails(p) \/ ApplyFails(p) \/ ApplyBreaks(p)
  \/ RestoreStore(p) \/ RestoreStoreFails(p) \/ UndoOK(p) \/ UndoFails(p)
  \/ Release(p)

Next == \E p \in Procs : Request(p) \/ Cancel(p) \/ Acquire(p) \/ Work(p) \/ Crash(p)

(* Every step of an operation is bounded by a timeout, and a waiter polls. *)
Fairness == \A p \in Procs : WF_vars(Acquire(p)) /\ WF_vars(Work(p))
Spec == Init /\ [][Next]_vars /\ Fairness

-----------------------------------------------------------------------------
(* What other processes may rely on: while an operation is in flight, the  *)
(* disk its checkpoints captured; otherwise the disk itself.               *)
Visible == IF owner \in Procs /\ pc[owner] \in InFlight THEN before[owner]
                                                        ELSE disk

Abs == INSTANCE AtomicMutation WITH disk <- Visible

(* Whatever fails, every operation of withMutation is one atomic change of *)
(* the disk or none, unless a process died or a rollback failed.           *)
AbsSpec == Abs!Spec

(* withMutation serialises: whoever works on the disk holds the lock, also *)
(* after another process was killed while it held it.                      *)
Exclusive == \A p \in Procs : pc[p] \in Working => owner = p

(* "a waiting process cannot overwrite a newer operation with stale        *)
(* memory" (lock.go): from the reload on, App.state is the state file.     *)
FreshMemory ==
  \A p \in Procs : pc[p] \in {"ready", "batch", "run", "restore", "done"} =>
                     mem[p] = disk.state

(* The installed configuration, the managed state, the active profile and  *)
(* the published snapshot agree as seen outside an operation, and any      *)
(* operation that applies a configuration makes a torn disk agree again.   *)
Agreement == torn \/ Agreed(Visible)

(* A machine that was taken over stays within reach of `doctor --fix` and   *)
(* of the settings, whatever crashed or failed to roll back: its active     *)
(* profile can still be read and applied.                                   *)
Repairable == disk.state # NoState => Readable(disk)

(* Two processes that change settings one after the other both keep their  *)
(* change: an operation alters one field of the newest settings at most.   *)
NoLostUpdate ==
  [][~torn' /\ Visible.state # NoState /\ Visible'.state # NoState =>
       \A f, g \in Fields :
         /\ Visible'.state.settings[f] # Visible.state.settings[f]
         /\ Visible'.state.settings[g] # Visible.state.settings[g]
         => f = g]_vars

(* rollbackStack.fail: an operation that fails, and whose rollback reports *)
(* no error, leaves every file as it was and Mihomo on its old file.       *)
FailureRestores ==
  [][\A p \in Procs :
       pc[p] = "undo" /\ pc'[p] = "done" /\ ~rberr'[p] =>
         disk' \in {before[p],
                   [before[p] EXCEPT
                      !.running = Reloaded(before[p], before[p].installed)]}]_vars

(* When processes wait for the lock, one of them gets it (or all give up). *)
Admission ==
  (\E p \in Procs : pc[p] = "want") ~>
    \/ \E p \in Procs : pc[p] = "locked"
    \/ \A p \in Procs : pc[p] # "want"
=============================================================================
