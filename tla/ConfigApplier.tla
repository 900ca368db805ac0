--------------------------- MODULE ConfigApplier ---------------------------
(***************************************************************************)
(* How one operation puts a configuration into force: ConfigApplier.Apply  *)
(* of internal/platform with the activation and health check that          *)
(* App.applyProfileConfig gives it, and Rollback, which the operation may  *)
(* call afterwards.  Below are the steps between which the process can be  *)
(* killed, the disk can fail, the deadline can pass, an administrator can  *)
(* start or stop the service and an editor can write the file.             *)
(* A configuration file is a body with the access its mode and owner give: *)
(*   "root"   0600 root       "group"  0640 root:<service group>           *)
(*   "other"  0644 root, as an administrator writes it                     *)
(***************************************************************************)
EXTENDS Integers, FiniteSets

CONSTANTS
  Bodies,           \* configurations that operations apply
  Edited,           \* the body an editor writes
  Unprivileged,     \* the unit's User= is not root
  OriginalAccess,   \* access the file may have before the first operation
  Administrator,    \* somebody else runs systemctl start and stop
  SyncFails,        \* the directory sync after the replacement may fail
  Retention,        \* DefaultBackupRetention, 20 in the code
  MaxOps, MaxFaults, MaxEdits, MaxTime,
  NoFile, Stopped

ASSUME RetentionAssumption == Retention \in Nat \ {0}
ASSUME BodiesAssumption ==
  Edited \notin Bodies /\ Stopped \notin Bodies \cup {Edited}
ASSUME AccessAssumption == OriginalAccess \subseteq {"root", "group", "other"}
ASSUME NoFileAssumption ==
  NoFile \notin [body : Bodies \cup {Edited}, access : {"root", "group", "other"}]

VARIABLES
  config,   \* ConfigPath, a body with its access or NoFile
  temp,     \* the staging file, likewise
  backups,  \* BackupDir: the managed backups
  svc,      \* what the Mihomo service loaded, or Stopped
  clock,    \* the wall clock, which may be set back
  pc, op,   \* the operation that holds the lock and where it stands
  outcome,  \* what the last call of Apply or Rollback reported
  count     \* bounds: operations, faults, edits

vars == <<config, temp, backups, svc, clock, pc, op, outcome, count>>

AllBodies == Bodies \cup {Edited}
Access    == {"root", "group", "other"}
File      == [body : AllBodies, access : Access]
Backup    == [time : 0 .. MaxTime, seq : 0 .. MaxOps, body : AllBodies]
NoBackup  == [time |-> 0, seq |-> 0, body |-> Edited]
Steps     == {"idle", "validate", "backup", "prune", "permit", "replace",
              "sync", "activate", "health", "applied", "restore",
              "reactivate", "recheck"}
Outcomes  == {"none", "refused", "applied", "failed", "rollback failed",
              "rolled back"}
Operation == [body : AllBodies, active : BOOLEAN, backup : Backup,
              original : File \cup {NoFile}, secure : Access, calls : 0 .. 2,
              kind : {"emergency", "explicit"}, expired : BOOLEAN,
              edit : {"none", "during", "after"}, clean : BOOLEAN,
              meddled : BOOLEAN]

Idle0 == [body |-> Edited, active |-> FALSE, backup |-> NoBackup,
          original |-> NoFile, secure |-> "root", calls |-> 0,
          kind |-> "emergency", expired |-> FALSE, edit |-> "none",
          clean |-> TRUE, meddled |-> FALSE]

ServiceReads(access) == Unprivileged => access # "root"

Init ==
  /\ \E b \in Bodies, a \in OriginalAccess :
       /\ ServiceReads(a)
       /\ \/ config = [body |-> b, access |-> a] /\ svc \in {b, Stopped}
          \/ config = NoFile /\ svc = Stopped
  /\ temp = NoFile
  /\ backups = {}
  /\ clock \in 0 .. MaxTime
  /\ pc = "idle" /\ op = Idle0 /\ outcome = "none"
  /\ count = [ops |-> 0, faults |-> 0, edits |-> 0]

-----------------------------------------------------------------------------
(* Access policies: applyProfileConfig passes the one the service needs,   *)
(* managedConfigMetadata keeps the group's bit and no other.               *)
ConfigAccess        == IF Unprivileged THEN "group" ELSE "root"
Managed(access)     == IF access = "group" THEN "group" ELSE "root"

(* systemctl restart: the unit comes up when it can read its file.         *)
Started ==
  IF config # NoFile /\ ServiceReads(config.access) THEN config.body
  ELSE Stopped

(* pruneBackups: the oldest by timestamp and sequence go first, the backup *)
(* of the running operation never.                                         *)
Older(x, y) == x.time < y.time \/ (x.time = y.time /\ x.seq < y.seq)
Unprotected(bs, own) == bs                                       \* mutant
Prunable(bs, own) == bs \ {own}
Pruned(bs, own) ==
  {b \in Prunable(bs, own) :
     Cardinality({o \in Prunable(bs, own) : Older(o, b)})
       < Cardinality(bs) - Retention}

FreshName(time) ==
  CHOOSE s \in 0 .. MaxOps :
    /\ \A b \in backups : b.time = time => b.seq # s
    /\ \A r \in 0 .. s - 1 : \E b \in backups : b.time = time /\ b.seq = r

Fault == /\ count.faults < MaxFaults
         /\ count' = [count EXCEPT !.faults = @ + 1]

(* Apply returns an error before anything was replaced.                    *)
Abort == pc' = "idle" /\ outcome' = "failed" /\ temp' = NoFile

-----------------------------------------------------------------------------
(* applyProfileConfig reads whether the service is active, Apply stages.   *)
Begin(b) ==
  /\ pc = "idle" /\ count.ops < MaxOps
  /\ op' = [Idle0 EXCEPT !.body = b, !.active = svc # Stopped]
  /\ temp' = [body |-> b, access |-> "root"]
  /\ pc' = "validate" /\ outcome' = "none"
  /\ count' = [count EXCEPT !.ops = @ + 1]
  /\ UNCHANGED <<config, backups, svc, clock>>

(* `mihomo -t` on the staged file.                                         *)
Validate ==
  /\ pc = "validate"
  /\ \/ ~op.expired /\ pc' = "backup" /\ UNCHANGED <<outcome, temp>>
     \/ Abort
  /\ UNCHANGED <<config, backups, svc, clock, op, count>>

(* backupCurrent.  A failed directory sync leaves the new backup behind.   *)
BackupCurrent ==
  /\ pc = "backup"
  /\ LET made == IF config = NoFile THEN NoBackup
                 ELSE [time |-> clock, seq |-> FreshName(clock),
                       body |-> config.body]
         left == IF config = NoFile THEN backups ELSE backups \cup {made}
     IN \/ /\ backups' = left
           /\ op' = [op EXCEPT !.original = config, !.backup = made]
           /\ pc' = "prune"
           /\ UNCHANGED <<outcome, temp, count>>
        \/ /\ Fault /\ Abort /\ backups' \in {backups, left}
           /\ UNCHANGED op
  /\ UNCHANGED <<config, svc, clock>>

(* Pruning stops at the first backup it cannot remove.                     *)
Prune ==
  /\ pc = "prune"
  /\ LET gone == IF op.original = NoFile THEN {} ELSE Pruned(backups, op.backup)
     IN \/ /\ backups' = backups \ gone
           /\ pc' = "permit"
           /\ UNCHANGED <<outcome, temp, count>>
        \/ /\ gone # {} /\ Fault /\ Abort
           /\ \E part \in SUBSET gone :
                /\ \A x \in part, y \in gone \ part : Older(x, y)
                /\ backups' = backups \ part
  /\ UNCHANGED <<config, svc, clock, op>>

PermitLate ==                        \* mutant: permissions after the rename
  /\ pc = "permit"
  /\ op' = [op EXCEPT !.secure = ConfigAccess]
  /\ pc' = "replace"
  /\ UNCHANGED <<config, backups, svc, clock, outcome, count, temp>>

(* The staged file gets its owner and mode while the old one is in place.  *)
Permit ==
  /\ pc = "permit"
  /\ op' = [op EXCEPT !.secure = ConfigAccess]
  /\ \/ /\ temp' = [temp EXCEPT !.access = ConfigAccess]
        /\ pc' = "replace"
        /\ UNCHANGED <<outcome, count>>
     \/ Fault /\ Abort
  /\ UNCHANGED <<config, backups, svc, clock>>

Replace ==
  /\ pc = "replace"
  /\ \/ config' = temp /\ temp' = NoFile /\ pc' = "sync"
        /\ UNCHANGED <<outcome, count>>
     \/ Fault /\ Abort /\ UNCHANGED config
  /\ UNCHANGED <<backups, svc, clock, op>>

(* A failure from here on goes to emergencyRollback.                       *)
SyncDirectory ==
  /\ pc = "sync"
  /\ \/ pc' = "activate" /\ UNCHANGED count
     \/ SyncFails /\ Fault /\ pc' = "restore"
  /\ UNCHANGED <<config, temp, backups, svc, clock, op, outcome>>

(* The Activate callback: a service that was inactive stays so, otherwise  *)
(* systemctl restart, which fails when the context has ended (the job may  *)
(* go through all the same) or when the unit does.                         *)
Restart(failed, done, live) ==
  \/ ~op.active /\ pc' = done /\ UNCHANGED <<svc, count>>
  \/ op.active /\ live /\ svc' = Started /\ pc' = done /\ UNCHANGED count
  \/ op.active /\ live /\ Fault /\ svc' = Stopped /\ failed
  \/ op.active /\ ~live /\ svc' \in {svc, Started} /\ failed /\ UNCHANGED count

Activate ==
  /\ pc = "activate"
  /\ op' = [op EXCEPT !.calls = @ + 1]
  /\ Restart(pc' = "restore", "health", ~op.expired)
  /\ UNCHANGED <<config, temp, backups, clock, outcome>>

(* waitForAppliedConfig: the core answers with the configuration expected, *)
(* or the wait times out.                                                  *)
HealthCheck ==
  /\ pc = "health"
  /\ \/ /\ op.active => (svc = op.body /\ ~op.expired)
        /\ pc' = "applied" /\ outcome' = "applied"
     \/ op.active /\ pc' = "restore" /\ UNCHANGED outcome
  /\ UNCHANGED <<config, temp, backups, svc, clock, op, count>>

(* The rest of the operation succeeds.                                     *)
Finish ==
  /\ pc = "applied" /\ pc' = "idle"
  /\ UNCHANGED <<config, temp, backups, svc, clock, op, outcome, count>>

(* A later step of the operation failed: Rollback, after its check.        *)
RollbackUnchecked == TRUE                                        \* mutant
Unchanged == config # NoFile /\ config.body = op.body
Rollback ==
  /\ pc = "applied"
  /\ \/ /\ Unchanged
        /\ op' = [op EXCEPT !.kind = "explicit"]
        /\ pc' = "restore" /\ UNCHANGED outcome
     \/ /\ ~Unchanged
        /\ pc' = "idle" /\ outcome' = "refused" /\ UNCHANGED op
  /\ UNCHANGED <<config, temp, backups, svc, clock, count>>

-----------------------------------------------------------------------------
(* rollbackWithBudget: restore the file, activate it, check it.  Automatic *)
(* recovery has a window of its own, an explicit one the deadline left.    *)
InTimeAlways == ~op.expired                                      \* mutant
InTime       == op.kind = "emergency" \/ ~op.expired

GiveUp == pc' = "idle" /\ outcome' = "rollback failed"

NewestBackup ==                      \* mutant: the newest backup, not its own
  [body |-> (CHOOSE b \in backups : \A c \in backups : ~Older(b, c)).body,
   access |-> Managed(op.secure)]
RestoredFile ==
  [body |-> op.backup.body,
   access |-> Managed(IF op.kind = "emergency" THEN op.original.access
                      ELSE op.secure)]

Restore ==
  /\ pc = "restore"
  /\ LET back == IF op.original = NoFile THEN NoFile ELSE RestoredFile
         found == op.original = NoFile \/ op.backup \in backups
     IN \/ found /\ config' = back /\ pc' = "reactivate"
           /\ UNCHANGED <<outcome, op, count>>
        \/ ~found /\ GiveUp /\ UNCHANGED <<config, op, count>>
        \/ /\ found /\ Fault /\ GiveUp
           /\ op' = [op EXCEPT !.clean = FALSE]
           /\ config' \in {config, back}
  /\ UNCHANGED <<temp, backups, svc, clock>>

Reactivate ==
  /\ pc = "reactivate"
  /\ Restart(GiveUp, "recheck", InTime)
  /\ pc' = "recheck" => UNCHANGED outcome
  /\ op' = [op EXCEPT !.calls = IF @ < 2 THEN @ + 1 ELSE 2,
                      !.clean = @ /\ count' = count]
  /\ UNCHANGED <<config, temp, backups, clock>>

(* From its second activation on the callback asks systemd only whether    *)
(* the unit is active; at the first it waits for the configuration applied.*)
Healthy ==
  ~op.active \/ (IF op.calls > 1 THEN svc # Stopped ELSE svc = op.body)

Recheck ==
  /\ pc = "recheck"
  /\ \/ /\ Healthy /\ (op.active => InTime)
        /\ pc' = "idle"
        /\ outcome' = IF op.kind = "emergency" THEN "failed" ELSE "rolled back"
        /\ UNCHANGED <<op, count>>
     \/ op.active /\ ~(Healthy /\ InTime) /\ GiveUp /\ UNCHANGED <<op, count>>
     \/ /\ op.active /\ Fault /\ GiveUp
        /\ op' = [op EXCEPT !.clean = FALSE]
  /\ UNCHANGED <<config, temp, backups, svc, clock>>

-----------------------------------------------------------------------------
(* The surroundings.                                                       *)
Expire ==
  /\ pc # "idle" /\ ~op.expired
  /\ op' = [op EXCEPT !.expired = TRUE]
  /\ UNCHANGED <<config, temp, backups, svc, clock, pc, outcome, count>>

SetClock ==
  /\ pc = "idle" /\ clock' \in 0 .. MaxTime
  /\ UNCHANGED <<config, temp, backups, svc, pc, op, outcome, count>>

Edit ==
  /\ config # NoFile /\ config.body # Edited /\ count.edits < MaxEdits
  /\ config' = [config EXCEPT !.body = Edited]
  /\ count' = [count EXCEPT !.edits = @ + 1]
  /\ op' = [op EXCEPT !.edit = IF pc = "applied" THEN "after"
                               ELSE IF pc \in {"validate", "backup"} THEN @
                               ELSE "during"]
  /\ UNCHANGED <<temp, backups, svc, clock, pc, outcome>>

Systemctl ==
  /\ Administrator
  /\ svc' \in {Stopped, Started} \ {svc}
  /\ op' = [op EXCEPT !.meddled = TRUE]
  /\ UNCHANGED <<config, temp, backups, clock, pc, outcome, count>>

Kill ==
  /\ pc # "idle" /\ Fault
  /\ pc' = "idle" /\ outcome' = "none"
  /\ UNCHANGED <<config, temp, backups, svc, clock, op>>

Apply == Validate \/ BackupCurrent \/ Prune \/ Permit \/ Replace
           \/ SyncDirectory \/ Activate \/ HealthCheck
Recover == Rollback \/ Restore \/ Reactivate \/ Recheck

Next ==
  \/ \E b \in Bodies : Begin(b)
  \/ Apply \/ Finish \/ Recover
  \/ Expire \/ SetClock \/ Edit \/ Systemctl \/ Kill

Spec == Init /\ [][Next]_vars

-----------------------------------------------------------------------------
TypeOK ==
  /\ config \in File \cup {NoFile}
  /\ temp \in File \cup {NoFile}
  /\ backups \subseteq Backup
  /\ svc \in AllBodies \cup {Stopped}
  /\ clock \in 0 .. MaxTime
  /\ pc \in Steps /\ op \in Operation /\ outcome \in Outcomes
  /\ count \in [ops : 0 .. MaxOps, faults : 0 .. MaxFaults,
                edits : 0 .. MaxEdits]

(* Whatever fails or is killed where, the service can read its file: the   *)
(* staged file gets its owner and mode before it is renamed, the restored  *)
(* one too (applier.go:152 and :723).                                      *)
Readable == config # NoFile => ServiceReads(config.access)

(* An operation that reports a failed Apply, and no failed rollback, left  *)
(* the file that was there, and a service that was active runs it; so does *)
(* a Rollback that reports success.                                        *)
ReportedRestored ==
  (pc = "idle" /\ outcome \in {"failed", "rolled back"} /\ op.calls > 0
     /\ op.edit = "none")
    => /\ config = NoFile <=> op.original = NoFile
       /\ config # NoFile => config.body = op.original.body
       /\ op.active /\ config # NoFile /\ ~op.meddled => svc = config.body

(* Automatic recovery that meets no failure of its own brings the original *)
(* back, even when the operation's deadline passed before it began, and    *)
(* whatever the clock said when the backup it needs was made and pruned.   *)
EmergencyRestores ==
  (pc = "idle" /\ outcome \in {"failed", "rollback failed"} /\ op.calls > 0
     /\ op.kind = "emergency" /\ op.clean /\ op.edit = "none"
     /\ op.original # NoFile)
    => /\ config.body = op.original.body
       /\ op.active /\ ~op.meddled => svc = config.body

(* Rollback leaves alone a configuration that somebody changed between     *)
(* the end of Apply and the call (applier.go:214).                         *)
ForeignKept ==
  [][op.edit = "after" /\ pc # "idle" /\ count'.edits = count.edits
       => config' = config]_vars
=============================================================================
