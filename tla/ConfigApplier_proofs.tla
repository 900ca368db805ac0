----------------------- MODULE ConfigApplier_proofs -----------------------
(***************************************************************************)
(* Putting a configuration into force, for any number of configurations,   *)
(* operations, failures, edits and backups kept.                           *)
(***************************************************************************)
EXTENDS ConfigApplier, TLAPS

(* The operation keeps its fields; names of backups play no part here.     *)
OpShape ==
  op \in [body : AllBodies, active : BOOLEAN, backup : {op.backup},
          original : File \cup {NoFile}, secure : Access, calls : 0 .. 2,
          kind : {"emergency", "explicit"}, expired : BOOLEAN,
          edit : {"none", "during", "after"}, clean : BOOLEAN,
          meddled : BOOLEAN]

Shapes ==
  /\ config \in File \cup {NoFile} /\ temp \in File \cup {NoFile}
  /\ pc \in Steps /\ OpShape
  /\ count \in [ops : Nat, faults : Nat, edits : Nat]

Unsaved == {"idle", "validate", "backup"}
Staging == {"validate", "backup", "prune", "permit", "replace"}

(* The backup of a running operation is there and is the file it found.    *)
Saved == op.original # NoFile =>
           op.backup \in backups /\ op.backup.body = op.original.body

(* The file is the one the operation found.                                *)
Found == /\ config = NoFile <=> op.original = NoFile
         /\ config # NoFile => config.body = op.original.body

(* What holds between the steps: a backup until the operation is over, an  *)
(* edit after Apply that nothing touches, and, while a rollback activates  *)
(* and checks what it restored, the old file and the service it starts.    *)
Between ==
  /\ pc \in Staging => temp \in File
  /\ pc \in Staging \cup {"sync", "activate"} => op.calls = 0 /\ op.kind = "emergency"
  /\ pc # "idle" => op.body \in Bodies
  /\ pc = "applied" => outcome = "applied"
  /\ pc \notin Unsaved => Saved
  /\ op.edit = "after" =>
       pc = "idle" \/ (pc = "applied" /\ config # NoFile /\ config.body = Edited)
  /\ pc \in {"reactivate", "recheck"} /\ op.edit = "none" => Found
  /\ pc = "recheck" /\ op.edit = "none" /\ op.active /\ ~op.meddled => svc = Started

IInv == Shapes /\ Between /\ ReportedRestored

LEMMA Starts ==
  ASSUME IInv, NEW b \in Bodies, Begin(b)
  PROVE  IInv'
<1>1. PICK a \in BOOLEAN : a = (svc # Stopped)
  OBVIOUS
<1>2. op' = [body |-> b, active |-> a, backup |-> NoBackup,
             original |-> NoFile, secure |-> "root", calls |-> 0,
             kind |-> "emergency", expired |-> FALSE, edit |-> "none",
             clean |-> TRUE, meddled |-> FALSE]
  BY <1>1 DEF Begin, Idle0
<1>3. OpShape'
  BY <1>2 DEF OpShape, AllBodies, Access
<1>4. /\ config' = config /\ pc' = "validate" /\ outcome' = "none"
      /\ temp' = [body |-> b, access |-> "root"] /\ temp' \in File
      /\ count' \in [ops : Nat, faults : Nat, edits : Nat]
  BY DEF Begin, IInv, Shapes, File, AllBodies, Access
<1>5. Shapes'
  BY <1>3, <1>4 DEF IInv, Shapes, Steps
<1>6. Between'
  BY <1>2, <1>4 DEF Between, Staging, Unsaved
<1>7. ReportedRestored'
  BY <1>4 DEF ReportedRestored
<1>8. QED
  BY <1>5, <1>6, <1>7 DEF IInv

(* Until the rename nothing but the staging file and the backups changes.  *)
LEMMA Stages ==
  ASSUME IInv, Validate \/ BackupCurrent \/ Prune \/ Permit
  PROVE  IInv'
<1>1. CASE Validate
  <2>1. Shapes'
    BY <1>1 DEF IInv, Shapes, OpShape, Validate, Abort, Steps
  <2>2. Between'
    BY <1>1 DEF IInv, Between, Validate, Abort, Staging, Unsaved, Found, Started
  <2>3. ReportedRestored'
    BY <1>1 DEF IInv, Between, Validate, Abort, Staging, ReportedRestored
  <2>4. QED
    BY <2>1, <2>2, <2>3 DEF IInv
<1>2. CASE BackupCurrent
  <2>1. /\ config' = config
        /\ count' \in [ops : Nat, faults : Nat, edits : Nat]
    BY <1>2 DEF BackupCurrent, Fault, IInv, Shapes
  <2>2. PICK made :
          \/ /\ pc' = "prune" /\ temp' = temp
             /\ op' = [op EXCEPT !.original = config, !.backup = made]
             /\ config # NoFile => made \in backups' /\ made.body = config.body
          \/ pc' = "idle" /\ op' = op /\ outcome' = "failed" /\ temp' = NoFile
    <3> DEFINE M == [time |-> clock, seq |-> FreshName(clock), body |-> config.body]
    <3>1. M.body = config.body
      OBVIOUS
    <3>2. QED
      BY <1>2, <3>1 DEF BackupCurrent, Abort
  <2>3. pc = "backup" /\ temp \in File /\ op.calls = 0
        /\ op.kind = "emergency" /\ op.body \in Bodies /\ op.edit # "after"
    BY <1>2 DEF BackupCurrent, IInv, Between, Staging
  <2>4. CASE pc' = "idle"
    <3>1. op' = op /\ temp' = NoFile
      BY <2>2, <2>4
    <3>2. Shapes'
      BY <2>1, <2>4, <3>1 DEF IInv, Shapes, OpShape, Steps
    <3>3. Between'
      BY <2>4 DEF Between, Staging, Unsaved
    <3>4. ~(op'.calls > 0)
      BY <2>3, <3>1
    <3>5. ReportedRestored'
      BY <3>4 DEF ReportedRestored
    <3>6. QED
      BY <3>2, <3>3, <3>5 DEF IInv
  <2>5. CASE pc' = "prune"
    <3>1. /\ temp' = temp
          /\ op' = [op EXCEPT !.original = config, !.backup = made]
          /\ config # NoFile => made \in backups' /\ made.body = config.body
      BY <2>2, <2>5
    <3>2. config \in File \cup {NoFile}
      BY DEF IInv, Shapes
    <3>3. OpShape'
      BY <3>1, <3>2 DEF IInv, Shapes, OpShape
    <3>4. /\ op'.original = config /\ op'.backup = made /\ op'.calls = op.calls
          /\ op'.kind = op.kind /\ op'.body = op.body /\ op'.edit = op.edit
      BY <3>1 DEF IInv, Shapes, OpShape
    <3>5. Shapes'
      BY <2>1, <2>5, <3>1, <3>3 DEF IInv, Shapes, Steps
    <3>6. Between' /\ ReportedRestored'
      BY <2>1, <2>3, <2>5, <3>1, <3>4
      DEF Between, Staging, Unsaved, Saved, ReportedRestored
    <3>7. QED
      BY <3>5, <3>6 DEF IInv
  <2>6. QED
    BY <2>2, <2>4, <2>5
<1>3. CASE Prune
  <2>1. Pruned(backups, op.backup) \subseteq backups \ {op.backup}
    BY DEF Pruned, Prunable
  <2>2. Shapes'
    BY <1>3 DEF IInv, Shapes, OpShape, Prune, Abort, Fault, Steps
  <2>3. Between'
    BY <1>3, <2>1
    DEF IInv, Between, Prune, Abort, Fault, Staging, Unsaved, Saved, Found, Started
  <2>4. ReportedRestored'
    BY <1>3 DEF IInv, Between, Prune, Abort, Fault, Staging, ReportedRestored
  <2>5. QED
    BY <2>2, <2>3, <2>4 DEF IInv
<1>4. CASE Permit
  <2>1. ConfigAccess \in Access
    BY DEF ConfigAccess, Access
  <2>2. Shapes' /\ (pc' = "replace" => temp' \in File)
    BY <1>4, <2>1 DEF IInv, Shapes, OpShape, Between, Staging, Permit, Abort, Fault,
                      Steps, File
  <2>3. Between'
    BY <1>4, <2>2
    DEF IInv, Shapes, OpShape, Between, Permit, Abort, Fault, Staging, Unsaved, Saved,
        Found, Started
  <2>4. ReportedRestored'
    BY <1>4 DEF IInv, Shapes, OpShape, Between, Permit, Abort, Fault, Staging,
                ReportedRestored
  <2>5. QED
    BY <2>2, <2>3, <2>4 DEF IInv
<1>5. QED
  BY <1>1, <1>2, <1>3, <1>4

LEMMA Applies ==
  ASSUME IInv, Replace \/ SyncDirectory \/ Activate \/ HealthCheck \/ Finish
  PROVE  IInv'
<1>1. CASE Replace
  <2>1. Shapes'
    BY <1>1 DEF IInv, Shapes, OpShape, Replace, Abort, Fault, Steps
  <2>2. Between'
    BY <1>1
    DEF IInv, Between, Replace, Abort, Fault, Staging, Unsaved, Saved, Found, Started
  <2>3. ReportedRestored'
    BY <1>1 DEF IInv, Between, Replace, Abort, Fault, Staging, ReportedRestored
  <2>4. QED
    BY <2>1, <2>2, <2>3 DEF IInv
<1>2. CASE SyncDirectory
  <2>1. Shapes'
    BY <1>2 DEF IInv, Shapes, OpShape, SyncDirectory, Fault, Steps
  <2>2. Between' /\ ReportedRestored'
    BY <1>2
    DEF IInv, Between, SyncDirectory, Fault, Staging, Unsaved, Saved, Found, Started,
        ReportedRestored
  <2>3. QED
    BY <2>1, <2>2 DEF IInv
<1>3. CASE Activate
  <2>1. /\ pc = "activate" /\ pc' \in {"restore", "health"}
        /\ config' = config /\ temp' = temp /\ backups' = backups
    BY <1>3 DEF Activate, Restart
  <2>2. count' \in [ops : Nat, faults : Nat, edits : Nat]
    BY <1>3 DEF Activate, Restart, Fault, IInv, Shapes
  <2>3. op' = [op EXCEPT !.calls = @ + 1] /\ op.calls = 0
    BY <1>3 DEF Activate, IInv, Between
  <2>4. OpShape'
    BY <2>3 DEF IInv, Shapes, OpShape
  <2>5. /\ op'.original = op.original /\ op'.backup = op.backup
        /\ op'.body = op.body /\ op'.edit = op.edit
    BY <2>3 DEF IInv, Shapes, OpShape
  <2>6. Shapes'
    BY <2>1, <2>2, <2>4 DEF IInv, Shapes, Steps
  <2>7. Between' /\ ReportedRestored'
    BY <2>1, <2>5 DEF IInv, Between, Staging, Unsaved, Saved, ReportedRestored
  <2>8. QED
    BY <2>6, <2>7 DEF IInv
<1>4. CASE HealthCheck
  <2>1. Shapes'
    BY <1>4 DEF IInv, Shapes, OpShape, HealthCheck, Steps
  <2>2. Between' /\ ReportedRestored'
    BY <1>4
    DEF IInv, Between, HealthCheck, Staging, Unsaved, Saved, Found, Started,
        ReportedRestored
  <2>3. QED
    BY <2>1, <2>2 DEF IInv
<1>5. CASE Finish
  <2>1. Shapes'
    BY <1>5 DEF IInv, Shapes, OpShape, Finish, Steps
  <2>2. Between' /\ ReportedRestored'
    BY <1>5 DEF IInv, Between, Finish, Staging, Unsaved, Saved, Found, Started,
                ReportedRestored
  <2>3. QED
    BY <2>1, <2>2 DEF IInv
<1>6. QED
  BY <1>1, <1>2, <1>3, <1>4, <1>5

(* What Rollback puts back is the file of the operation's own backup.      *)
LEMMA Restores ==
  ASSUME IInv, pc = "restore"
  PROVE  /\ op.original = NoFile \/ op.backup \in backups
         /\ op.original # NoFile =>
              /\ RestoredFile \in File /\ RestoredFile # NoFile
              /\ RestoredFile.body = op.original.body
              /\ RestoredFile.access =
                   Managed(IF op.kind = "emergency" THEN op.original.access ELSE op.secure)
<1>1. op.original \in File \cup {NoFile} /\ Saved
  BY DEF IInv, Shapes, OpShape, Between, Unsaved
<1>2. RestoredFile =
        [body |-> op.backup.body,
         access |-> Managed(IF op.kind = "emergency" THEN op.original.access
                            ELSE op.secure)]
  BY DEF RestoredFile
<1>3. \A a : Managed(a) \in Access
  BY DEF Managed, Access
<1>4. ASSUME op.original # NoFile
      PROVE  op.backup.body \in AllBodies /\ op.backup.body = op.original.body
  BY <1>1, <1>4 DEF Saved, File
<1>5. op.original # NoFile => RestoredFile \in File
  BY <1>2, <1>3, <1>4 DEF File
<1>6. NoFile \notin File
  BY NoFileAssumption DEF File, AllBodies, Access
<1>7. QED
  BY <1>1, <1>2, <1>4, <1>5, <1>6 DEF Saved

LEMMA Recovers ==
  ASSUME IInv, Recover
  PROVE  IInv'
<1>1. CASE Rollback
  <2>1. /\ pc = "applied" /\ config' = config /\ temp' = temp
        /\ backups' = backups /\ count' = count
    BY <1>1 DEF Rollback
  <2>2. CASE Unchanged /\ op' = [op EXCEPT !.kind = "explicit"] /\ pc' = "restore"
    <3>1. op.edit # "after"
      BY <2>1, <2>2, BodiesAssumption DEF IInv, Between, Unchanged
    <3>2. OpShape'
      BY <2>2 DEF IInv, Shapes, OpShape
    <3>3. /\ op'.original = op.original /\ op'.backup = op.backup
          /\ op'.body = op.body /\ op'.edit = op.edit
      BY <2>2 DEF IInv, Shapes, OpShape
    <3>4. Shapes'
      BY <2>1, <2>2, <3>2 DEF IInv, Shapes, Steps
    <3>5. Between' /\ ReportedRestored'
      BY <2>1, <2>2, <3>1, <3>3
      DEF IInv, Between, Staging, Unsaved, Saved, ReportedRestored
    <3>6. QED
      BY <3>4, <3>5 DEF IInv
  <2>3. CASE pc' = "idle" /\ outcome' = "refused" /\ op' = op
    <3>1. Shapes'
      BY <2>1, <2>3 DEF IInv, Shapes, OpShape, Steps
    <3>2. Between' /\ ReportedRestored'
      BY <2>1, <2>3 DEF Between, Staging, Unsaved, ReportedRestored
    <3>3. QED
      BY <3>1, <3>2 DEF IInv
  <2>4. QED
    BY <1>1, <2>2, <2>3 DEF Rollback
<1>2. CASE Restore
  <2> DEFINE back == IF op.original = NoFile THEN NoFile ELSE RestoredFile
  <2>1. /\ pc = "restore" /\ temp' = temp /\ backups' = backups
        /\ back \in File \cup {NoFile}
        /\ back = NoFile <=> op.original = NoFile
        /\ back # NoFile => back.body = op.original.body
    BY <1>2, Restores DEF Restore
  <2>2. count' \in [ops : Nat, faults : Nat, edits : Nat]
    BY <1>2 DEF Restore, Fault, IInv, Shapes
  <2>3. \/ config' = back /\ pc' = "reactivate" /\ op' = op
        \/ /\ pc' = "idle" /\ outcome' = "rollback failed"
           /\ config' \in {config, back} /\ op' = [op EXCEPT !.clean = FALSE]
    BY <1>2, Restores DEF Restore, GiveUp
  <2> HIDE DEF back
  <2>4. OpShape'
    BY <2>3 DEF IInv, Shapes, OpShape
  <2>5. op'.original = op.original /\ op'.backup = op.backup /\ op'.body = op.body
        /\ op'.edit = op.edit
    BY <2>3 DEF IInv, Shapes, OpShape
  <2>6. Shapes'
    BY <2>1, <2>2, <2>3, <2>4 DEF IInv, Shapes, Steps
  <2>7. Between' /\ ReportedRestored'
    BY <2>1, <2>3, <2>5
    DEF IInv, Between, Staging, Unsaved, Saved, Found, ReportedRestored
  <2>8. QED
    BY <2>6, <2>7 DEF IInv
<1>3. CASE Reactivate
  <2>1. /\ pc = "reactivate" /\ config' = config /\ temp' = temp
        /\ backups' = backups /\ Started' = Started
        /\ \/ pc' = "recheck" /\ (~op.active \/ svc' = Started)
           \/ pc' = "idle" /\ outcome' = "rollback failed"
    BY <1>3 DEF Reactivate, Restart, GiveUp, Started
  <2>2. count' \in [ops : Nat, faults : Nat, edits : Nat]
    BY <1>3 DEF Reactivate, Restart, Fault, IInv, Shapes
  <2>3. PICK c \in BOOLEAN : c = (op.clean /\ count' = count)
    OBVIOUS
  <2>4. PICK n \in 0 .. 2 :
          op' = [op EXCEPT !.calls = n, !.clean = c]
    <3>1. op.calls \in 0 .. 2
      BY DEF IInv, Shapes, OpShape
    <3>2. (IF op.calls < 2 THEN op.calls + 1 ELSE 2) \in 0 .. 2
      BY <3>1
    <3>3. QED
      BY <1>3, <2>3, <3>2 DEF Reactivate
  <2>5. OpShape'
    BY <2>4 DEF IInv, Shapes, OpShape
  <2>6. /\ op'.original = op.original /\ op'.backup = op.backup
        /\ op'.body = op.body /\ op'.edit = op.edit /\ op'.active = op.active
        /\ op'.meddled = op.meddled
    BY <2>4 DEF IInv, Shapes, OpShape
  <2>7. Shapes'
    BY <2>1, <2>2, <2>5 DEF IInv, Shapes, Steps
  <2>8. Between' /\ ReportedRestored'
    BY <2>1, <2>6
    DEF IInv, Between, Staging, Unsaved, Saved, Found, ReportedRestored
  <2>9. QED
    BY <2>7, <2>8 DEF IInv
<1>4. CASE Recheck
  <2>1. /\ pc = "recheck" /\ pc' = "idle" /\ config' = config /\ temp' = temp
        /\ backups' = backups /\ svc' = svc
    BY <1>4 DEF Recheck, GiveUp
  <2>2. count' \in [ops : Nat, faults : Nat, edits : Nat]
    <3>1. count' = count \/ Fault
      BY <1>4 DEF Recheck
    <3>2. QED
      BY <3>1 DEF Fault, IInv, Shapes
  <2>3. /\ op' = op \/ op' = [op EXCEPT !.clean = FALSE]
        /\ outcome' = "rollback failed" \/ Healthy
    BY <1>4 DEF Recheck, GiveUp
  <2>4. OpShape'
    BY <2>3 DEF IInv, Shapes, OpShape
  <2>5. /\ op'.original = op.original /\ op'.edit = op.edit
        /\ op'.active = op.active /\ op'.meddled = op.meddled
    BY <2>3 DEF IInv, Shapes, OpShape
  <2>6. Shapes'
    BY <2>1, <2>2, <2>4 DEF IInv, Shapes, Steps
  <2>7. Between'
    BY <2>1 DEF Between, Staging, Unsaved
  <2>8. ASSUME Healthy, op.edit = "none"
        PROVE  /\ Found
               /\ op.active /\ config # NoFile /\ ~op.meddled => svc = config.body
    <3>1. Found /\ (op.active /\ ~op.meddled => svc = Started) /\ op.body \in Bodies
      BY <2>1, <2>8 DEF IInv, Between
    <3>2. op.active => svc # Stopped
      BY <2>8, <3>1, BodiesAssumption DEF Healthy
    <3>3. QED
      BY <3>1, <3>2 DEF Started
  <2>9. ReportedRestored'
    BY <2>1, <2>3, <2>5, <2>8 DEF ReportedRestored, Found
  <2>10. QED
    BY <2>6, <2>7, <2>9 DEF IInv
<1>5. QED
  BY <1>1, <1>2, <1>3, <1>4 DEF Recover

(* The surroundings: the deadline, the clock, an editor, an administrator  *)
(* and the end of the process.                                             *)
LEMMA Surroundings ==
  ASSUME IInv, Expire \/ SetClock \/ Edit \/ Systemctl \/ Kill \/ UNCHANGED vars
  PROVE  IInv'
<1>1. CASE Expire
  <2>1. /\ config' = config /\ temp' = temp /\ backups' = backups /\ svc' = svc
        /\ pc' = pc /\ outcome' = outcome /\ count' = count /\ Started' = Started
        /\ op' = [op EXCEPT !.expired = TRUE]
    BY <1>1 DEF Expire, Started
  <2>2. OpShape'
    BY <2>1 DEF IInv, Shapes, OpShape
  <2>3. /\ op'.original = op.original /\ op'.backup = op.backup
        /\ op'.body = op.body /\ op'.edit = op.edit /\ op'.active = op.active
        /\ op'.meddled = op.meddled /\ op'.calls = op.calls /\ op'.kind = op.kind
    BY <2>1 DEF IInv, Shapes, OpShape
  <2>4. Shapes'
    BY <2>1, <2>2 DEF IInv, Shapes
  <2>5. Between'
    BY <2>1, <2>3 DEF IInv, Between, Saved, Found
  <2>6. op'.calls > 0 <=> op.calls > 0
    BY <2>3
  <2>7. ReportedRestored'
    BY <2>1, <2>3, <2>6 DEF IInv, ReportedRestored
  <2>8. QED
    BY <2>4, <2>5, <2>7 DEF IInv
<1>2. CASE SetClock \/ UNCHANGED vars
  <2>1. /\ config' = config /\ temp' = temp /\ backups' = backups /\ svc' = svc
        /\ pc' = pc /\ outcome' = outcome /\ count' = count /\ op' = op
        /\ Started' = Started
    BY <1>2 DEF SetClock, vars, Started
  <2>2. Shapes'
    BY <2>1 DEF IInv, Shapes, OpShape
  <2>3. Between'
    BY <2>1 DEF IInv, Between, Saved, Found
  <2>4. ReportedRestored'
    BY <2>1 DEF IInv, ReportedRestored
  <2>5. QED
    BY <2>2, <2>3, <2>4 DEF IInv
<1>3. CASE Edit
  <2>1. /\ config # NoFile /\ config' = [config EXCEPT !.body = Edited]
        /\ temp' = temp /\ backups' = backups /\ pc' = pc /\ outcome' = outcome
    BY <1>3 DEF Edit
  <2>2. /\ config' \in File /\ config' # NoFile /\ config'.body = Edited
        /\ count' \in [ops : Nat, faults : Nat, edits : Nat]
    BY <1>3, <2>1, NoFileAssumption
    DEF Edit, IInv, Shapes, File, AllBodies, Access
  <2>3. PICK e \in {"none", "during", "after"} :
          /\ op' = [op EXCEPT !.edit = e]
          /\ pc = "applied" <=> e = "after"
          /\ e = "none" => pc \in {"validate", "backup"}
    <3>1. op.edit \in {"none", "during", "after"}
      BY DEF IInv, Shapes, OpShape
    <3>2. op.edit = "after" => pc \in {"idle", "applied"}
      BY DEF IInv, Between
    <3>3. QED
      BY <1>3, <3>1, <3>2 DEF Edit
  <2>4. OpShape'
    BY <2>3 DEF IInv, Shapes, OpShape
  <2>5. /\ op'.original = op.original /\ op'.backup = op.backup
        /\ op'.body = op.body /\ op'.edit = e /\ op'.calls = op.calls
        /\ op'.kind = op.kind
    BY <2>3 DEF IInv, Shapes, OpShape
  <2>6. Shapes'
    BY <2>1, <2>2, <2>4 DEF IInv, Shapes
  <2>7. Between'
    BY <2>1, <2>2, <2>3, <2>5 DEF IInv, Between, Saved, Staging, Unsaved
  <2>8. ReportedRestored'
    BY <2>1, <2>3, <2>5 DEF ReportedRestored
  <2>9. QED
    BY <2>6, <2>7, <2>8 DEF IInv
<1>4. CASE Systemctl
  <2>1. /\ config' = config /\ temp' = temp /\ backups' = backups
        /\ pc' = pc /\ outcome' = outcome /\ count' = count
        /\ op' = [op EXCEPT !.meddled = TRUE]
    BY <1>4 DEF Systemctl
  <2>2. OpShape'
    BY <2>1 DEF IInv, Shapes, OpShape
  <2>3. /\ op'.original = op.original /\ op'.backup = op.backup
        /\ op'.body = op.body /\ op'.edit = op.edit /\ op'.meddled
        /\ op'.calls = op.calls /\ op'.kind = op.kind
    BY <2>1 DEF IInv, Shapes, OpShape
  <2>4. Shapes'
    BY <2>1, <2>2 DEF IInv, Shapes
  <2>5. Between'
    BY <2>1, <2>3 DEF IInv, Between, Saved, Found
  <2>6. op'.calls > 0 <=> op.calls > 0
    BY <2>3
  <2>7. ReportedRestored'
    BY <2>1, <2>3, <2>6 DEF IInv, ReportedRestored
  <2>8. QED
    BY <2>4, <2>5, <2>7 DEF IInv
<1>5. CASE Kill
  <2>1. /\ config' = config /\ temp' = temp /\ backups' = backups /\ op' = op
        /\ pc' = "idle" /\ outcome' = "none"
    BY <1>5 DEF Kill
  <2>2. Shapes'
    BY <1>5, <2>1 DEF Kill, Fault, IInv, Shapes, OpShape, Steps
  <2>3. Between' /\ ReportedRestored'
    BY <2>1 DEF Between, Staging, Unsaved, ReportedRestored
  <2>4. QED
    BY <2>2, <2>3 DEF IInv
<1>6. QED
  BY <1>1, <1>2, <1>3, <1>4, <1>5

LEMMA InitInv == Init => IInv
<1> SUFFICES ASSUME Init PROVE IInv
  OBVIOUS
<1>1. PICK b \in Bodies, a \in OriginalAccess :
        config = [body |-> b, access |-> a] \/ config = NoFile
  BY DEF Init
<1>2. [body |-> b, access |-> a] \in File
  BY <1>1, AccessAssumption DEF File, AllBodies, Access
<1>3. op = Idle0 /\ NoBackup = op.backup
  BY DEF Init, Idle0
<1>4. OpShape
  BY <1>3 DEF OpShape, Idle0, AllBodies, Access
<1>5. /\ pc = "idle" /\ temp = NoFile /\ outcome = "none"
      /\ count = [ops |-> 0, faults |-> 0, edits |-> 0]
  BY DEF Init
<1>6. Shapes
  BY <1>1, <1>2, <1>4, <1>5 DEF Shapes, Steps
<1>7. Between
  BY <1>5 DEF Between, Staging, Unsaved
<1>8. ReportedRestored
  BY <1>5 DEF ReportedRestored
<1>9. QED
  BY <1>6, <1>7, <1>8 DEF IInv

LEMMA NextInv == IInv /\ [Next]_vars => IInv'
<1> SUFFICES ASSUME IInv, [Next]_vars PROVE IInv'
  OBVIOUS
<1>1. CASE \E b \in Bodies : Begin(b)
  BY <1>1, Starts
<1>2. CASE Apply \/ Finish
  BY <1>2, Stages, Applies DEF Apply
<1>3. CASE Recover
  BY <1>3, Recovers
<1>4. CASE Expire \/ SetClock \/ Edit \/ Systemctl \/ Kill \/ UNCHANGED vars
  BY <1>4, Surroundings
<1>5. QED
  BY <1>1, <1>2, <1>3, <1>4 DEF Next

LEMMA InvHolds == Spec => []IInv
  BY InitInv, NextInv, PTL DEF Spec

(* An operation that reports a failed Apply without a failed rollback, or  *)
(* a Rollback that reports success, left the file it found, and a service  *)
(* that was active runs it, for every number of backups kept, whichever    *)
(* step failed and whenever the deadline passed (applier.go:187, :214).    *)
THEOREM ReportsAreTrue == Spec => []ReportedRestored
<1>1. IInv => ReportedRestored
  BY DEF IInv
<1>2. QED
  BY <1>1, InvHolds, PTL

(* A configuration that somebody wrote between the end of Apply and the    *)
(* call of Rollback is never replaced (applier.go:214).                    *)
THEOREM EditsAreKept == Spec => ForeignKept
<1>1. ASSUME IInv, [Next]_vars
      PROVE  op.edit = "after" /\ pc # "idle" /\ count'.edits = count.edits
               => config' = config
  <2> SUFFICES ASSUME op.edit = "after", pc # "idle", count'.edits = count.edits
               PROVE  config' = config
    OBVIOUS
  <2>1. pc = "applied"
    BY <1>1 DEF IInv, Between
  <2>2. ~Edit
    BY <1>1 DEF Edit, IInv, Shapes
  <2>3. ~Apply /\ ~Restore /\ ~Reactivate /\ ~Recheck
        /\ ~(\E b \in Bodies : Begin(b))
    BY <2>1 DEF Apply, Validate, BackupCurrent, Prune, Permit, Replace,
                SyncDirectory, Activate, HealthCheck, Restore, Reactivate,
                Recheck, Begin
  <2>4. CASE Finish \/ Rollback
    BY <2>4 DEF Finish, Rollback
  <2>5. CASE Expire \/ SetClock \/ Systemctl \/ Kill \/ UNCHANGED vars
    BY <2>5 DEF Expire, SetClock, Systemctl, Kill, vars
  <2>6. QED
    BY <1>1, <2>2, <2>3, <2>4, <2>5 DEF Next, Recover
<1>2. QED
  BY <1>1, InvHolds, PTL DEF Spec, ForeignKept

-----------------------------------------------------------------------------
(* Who can read the file, when the first operation finds one of the two    *)
(* modes that managedConfigMetadata brings back.                           *)
Replaced == {"replace", "sync", "activate", "health", "applied", "restore",
             "reactivate", "recheck"}

AccessInv ==
  /\ Unprivileged /\ config # NoFile => config.access = "group"
  /\ pc = "replace" => temp.access = ConfigAccess
  /\ pc \in Replaced => op.secure = ConfigAccess
  /\ Unprivileged /\ pc \notin Unsaved /\ op.original # NoFile
       => op.original.access = "group"

LEMMA AccessStarts ==
  ASSUME "other" \notin OriginalAccess, Init
  PROVE  AccessInv
<1>1. PICK b \in Bodies, a \in OriginalAccess :
        /\ ServiceReads(a)
        /\ config = [body |-> b, access |-> a] \/ config = NoFile
  BY DEF Init
<1>2. Unprivileged => a = "group"
  BY <1>1, AccessAssumption DEF ServiceReads
<1>3. pc = "idle"
  BY DEF Init
<1>4. QED
  BY <1>1, <1>2, <1>3 DEF AccessInv, Replaced, Unsaved

LEMMA AccessApplies ==
  ASSUME IInv, AccessInv, Apply \/ Finish
  PROVE  AccessInv'
<1>1. CASE Validate \/ SyncDirectory \/ HealthCheck \/ Finish
  <2>1. /\ config' = config /\ op' = op /\ ConfigAccess' = ConfigAccess
        /\ pc' \in {"idle", "backup", "activate", "restore", "applied"}
        /\ pc' \in {"activate", "restore", "applied"} => pc \in {"sync", "health"}
    BY <1>1 DEF Validate, SyncDirectory, HealthCheck, Finish, Abort, ConfigAccess
  <2>2. QED
    BY <2>1 DEF AccessInv, Replaced, Unsaved
<1>2. CASE BackupCurrent
  <2>1. /\ config' = config /\ pc' \in {"prune", "idle"}
        /\ pc' = "prune" => op'.original = config
    BY <1>2 DEF BackupCurrent, Abort, IInv, Shapes, OpShape
  <2>2. QED
    BY <2>1 DEF AccessInv, Replaced, Unsaved
<1>3. CASE Prune
  BY <1>3 DEF Prune, Abort, AccessInv, Replaced, Unsaved
<1>4. CASE Permit
  <2>1. /\ pc = "permit" /\ config' = config /\ ConfigAccess' = ConfigAccess
        /\ op'.secure = ConfigAccess /\ op'.original = op.original
    BY <1>4 DEF Permit, ConfigAccess, IInv, Shapes, OpShape
  <2>2. temp \in File
    BY <2>1 DEF IInv, Between, Staging
  <2>3. \/ pc' = "replace" /\ temp'.access = ConfigAccess
        \/ pc' = "idle"
    BY <1>4, <2>2 DEF Permit, Abort, File
  <2>4. QED
    BY <2>1, <2>3 DEF AccessInv, Replaced, Unsaved
<1>5. CASE Replace
  <2>1. /\ pc = "replace" /\ op' = op /\ ConfigAccess' = ConfigAccess
        /\ \/ config' = temp /\ pc' = "sync"
           \/ config' = config /\ pc' = "idle"
    BY <1>5 DEF Replace, Abort, ConfigAccess
  <2>2. QED
    BY <2>1 DEF AccessInv, Replaced, Unsaved, ConfigAccess
<1>6. CASE Activate
  <2>1. /\ pc = "activate" /\ config' = config /\ ConfigAccess' = ConfigAccess
        /\ pc' \in {"restore", "health"}
        /\ op'.original = op.original /\ op'.secure = op.secure
    BY <1>6 DEF Activate, Restart, ConfigAccess, IInv, Shapes, OpShape
  <2>2. QED
    BY <2>1 DEF AccessInv, Replaced, Unsaved
<1>7. QED
  BY <1>1, <1>2, <1>3, <1>4, <1>5, <1>6 DEF Apply

LEMMA AccessRecovers ==
  ASSUME IInv, AccessInv, Recover
  PROVE  AccessInv'
<1>1. CASE Restore
  <2>1. op.kind \in {"emergency", "explicit"}
    BY DEF IInv, Shapes, OpShape
  <2>2. /\ pc = "restore" /\ ConfigAccess' = ConfigAccess
        /\ pc' \in {"reactivate", "idle"}
        /\ op'.original = op.original /\ op'.secure = op.secure
        /\ \/ config' = config
           \/ config' = NoFile
           \/ op.original # NoFile /\ config' = RestoredFile
    BY <1>1 DEF Restore, GiveUp, ConfigAccess, IInv, Shapes, OpShape
  <2>3. ASSUME Unprivileged, op.original # NoFile
        PROVE  RestoredFile.access = "group"
    BY <2>1, <2>2, <2>3, Restores
    DEF AccessInv, Replaced, Unsaved, ConfigAccess, Managed
  <2>4. QED
    BY <2>2, <2>3 DEF AccessInv, Replaced, Unsaved
<1>2. CASE Rollback \/ Reactivate \/ Recheck
  <2>1. config' = config /\ ConfigAccess' = ConfigAccess
    BY <1>2 DEF Rollback, Reactivate, Recheck, ConfigAccess
  <2>2. pc \in {"applied", "reactivate", "recheck"}
        /\ pc' \in {"idle", "restore", "recheck"}
    BY <1>2 DEF Rollback, Reactivate, Recheck, GiveUp, Restart
  <2>3. op'.original = op.original /\ op'.secure = op.secure
    <3>1. CASE Reactivate
      BY <3>1 DEF Reactivate, IInv, Shapes, OpShape
    <3>2. CASE Rollback \/ Recheck
      BY <3>2 DEF Rollback, Recheck, IInv, Shapes, OpShape
    <3>3. QED
      BY <1>2, <3>1, <3>2
  <2>4. QED
    BY <2>1, <2>2, <2>3 DEF AccessInv, Replaced, Unsaved
<1>3. QED
  BY <1>1, <1>2 DEF Recover

LEMMA AccessStep ==
  ASSUME IInv, AccessInv, [Next]_vars
  PROVE  AccessInv'
<1>1. CASE \E b \in Bodies : Begin(b)
  <2>1. config' = config /\ pc' = "validate"
    BY <1>1 DEF Begin
  <2>2. QED
    BY <2>1 DEF AccessInv, Replaced, Unsaved
<1>2. CASE Apply \/ Finish
  BY <1>2, AccessApplies
<1>3. CASE Recover
  BY <1>3, AccessRecovers
<1>4. CASE Expire \/ Systemctl
  <2>1. /\ config' = config /\ temp' = temp /\ pc' = pc
        /\ ConfigAccess' = ConfigAccess
        /\ op'.original = op.original /\ op'.secure = op.secure
    BY <1>4 DEF Expire, Systemctl, ConfigAccess, IInv, Shapes, OpShape
  <2>2. QED
    BY <2>1 DEF AccessInv
<1>5. CASE Edit
  <2>1. /\ temp' = temp /\ pc' = pc /\ ConfigAccess' = ConfigAccess
        /\ config # NoFile /\ config \in File
        /\ config' = [config EXCEPT !.body = Edited]
    BY <1>5 DEF Edit, ConfigAccess, IInv, Shapes
  <2>2. config'.access = config.access
    BY <2>1 DEF File
  <2>3. op'.original = op.original /\ op'.secure = op.secure
    BY <1>5 DEF Edit, IInv, Shapes, OpShape
  <2>4. QED
    BY <2>1, <2>2, <2>3 DEF AccessInv
<1>6. CASE SetClock \/ Kill \/ UNCHANGED vars
  <2>1. /\ config' = config /\ temp' = temp /\ pc' \in {pc, "idle"} /\ op' = op
        /\ ConfigAccess' = ConfigAccess
    BY <1>6 DEF SetClock, Kill, vars, ConfigAccess
  <2>2. QED
    BY <2>1 DEF AccessInv, Replaced, Unsaved
<1>7. QED
  BY <1>1, <1>2, <1>3, <1>4, <1>5, <1>6 DEF Next

(* The service can always read its file, whatever fails or is killed       *)
(* between the steps, when the file that was there before the first        *)
(* operation is private or readable by the service's group.                *)
THEOREM AlwaysReadable ==
  ASSUME "other" \notin OriginalAccess
  PROVE  Spec => []Readable
<1>1. Init => AccessInv
  BY AccessStarts
<1>2. IInv /\ AccessInv /\ [Next]_vars => AccessInv'
  BY AccessStep
<1>3. AccessInv => Readable
  BY DEF AccessInv, Readable, ServiceReads
<1>4. QED
  BY <1>1, <1>2, <1>3, InvHolds, PTL DEF Spec

LEMMA EmergencyStep ==
  ASSUME IInv, AccessInv, EmergencyRestores, [Next]_vars
  PROVE  EmergencyRestores'
<1>1. CASE \E b \in Bodies : Begin(b)
  BY <1>1 DEF Begin, EmergencyRestores
<1>2. CASE Apply \/ Finish
  <2>1. CASE pc' # "idle"
    BY <2>1 DEF EmergencyRestores
  <2>2. CASE pc' = "idle" /\ pc \in Staging
    <3>1. op'.calls = op.calls
      BY <1>2, <2>2
      DEF Apply, Validate, BackupCurrent, Prune, Permit, Replace, SyncDirectory,
          Activate, HealthCheck, Finish, Staging, IInv, Shapes, OpShape
    <3>2. ~(op'.calls > 0)
      BY <2>2, <3>1 DEF IInv, Between
    <3>3. QED
      BY <3>2 DEF EmergencyRestores
  <2>3. CASE Finish
    <3>1. outcome' = "applied"
      BY <2>3 DEF Finish, IInv, Between
    <3>2. QED
      BY <3>1 DEF EmergencyRestores
  <2>4. pc' = "idle" => pc \in Staging \/ Finish
    BY <1>2
    DEF Apply, Validate, BackupCurrent, Prune, Permit, Replace, SyncDirectory,
        Activate, Restart, HealthCheck, Staging
  <2>5. QED
    BY <2>1, <2>2, <2>3, <2>4
<1>3. CASE Rollback
  BY <1>3 DEF Rollback, EmergencyRestores
<1>4. CASE Restore
  <2>1. pc' # "idle" \/ op' = [op EXCEPT !.clean = FALSE]
    BY <1>4, Restores DEF Restore
  <2>2. pc' # "idle" \/ ~op'.clean
    BY <2>1 DEF IInv, Shapes, OpShape
  <2>3. QED
    BY <2>2 DEF EmergencyRestores
<1>5. CASE Reactivate
  <2>1. pc' = "idle" => (Fault \/ ~InTime)
    BY <1>5 DEF Reactivate, Restart, GiveUp
  <2>2. Fault => count' # count
    BY DEF Fault, IInv, Shapes
  <2>3. op'.clean = (op.clean /\ count' = count) /\ op'.kind = op.kind
    BY <1>5 DEF Reactivate, IInv, Shapes, OpShape
  <2>4. ~InTime => op.kind # "emergency"
    BY DEF InTime
  <2>5. QED
    BY <2>1, <2>2, <2>3, <2>4 DEF EmergencyRestores
<1>6. CASE Recheck
  <2> SUFFICES ASSUME op'.kind = "emergency", op'.clean, op'.edit = "none",
                      op'.original # NoFile
               PROVE  /\ config'.body = op'.original.body
                      /\ op'.active /\ ~op'.meddled => svc' = config'.body
    BY DEF EmergencyRestores
  <2>1. pc = "recheck" /\ config' = config /\ svc' = svc
    BY <1>6 DEF Recheck
  <2>2. op' = op \/ op' = [op EXCEPT !.clean = FALSE]
    BY <1>6 DEF Recheck
  <2>3. op' = op
    BY <2>2 DEF IInv, Shapes, OpShape
  <2>4. /\ Found /\ op.body \in Bodies
        /\ op.active /\ ~op.meddled => svc = Started
    BY <2>1, <2>3 DEF IInv, Between
  <2>5. config # NoFile /\ config.body = op.original.body
    BY <2>3, <2>4 DEF Found
  <2>6. Started = config.body
    BY <2>5 DEF Started, AccessInv, ServiceReads
  <2>7. QED
    BY <2>1, <2>3, <2>4, <2>5, <2>6
<1>7. CASE Expire \/ SetClock \/ UNCHANGED vars
  <2>1. /\ config' = config /\ svc' = svc /\ pc' = pc /\ outcome' = outcome
        /\ op' = op \/ op' = [op EXCEPT !.expired = TRUE]
    BY <1>7 DEF Expire, SetClock, vars
  <2>2. /\ op'.calls = op.calls /\ op'.kind = op.kind /\ op'.clean = op.clean
        /\ op'.edit = op.edit /\ op'.original = op.original
        /\ op'.active = op.active /\ op'.meddled = op.meddled
    BY <2>1 DEF IInv, Shapes, OpShape
  <2>3. op'.calls > 0 <=> op.calls > 0
    BY <2>2
  <2>4. QED
    BY <2>1, <2>2, <2>3 DEF EmergencyRestores
<1>8. CASE Edit
  <2>1. pc' = "idle" => op' = [op EXCEPT !.edit = "during"]
    BY <1>8 DEF Edit
  <2>2. pc' = "idle" => op'.edit = "during"
    BY <2>1 DEF IInv, Shapes, OpShape
  <2>3. QED
    BY <2>2 DEF EmergencyRestores
<1>9. CASE Systemctl
  <2>1. /\ config' = config /\ pc' = pc /\ outcome' = outcome
        /\ op' = [op EXCEPT !.meddled = TRUE]
    BY <1>9 DEF Systemctl
  <2>2. /\ op'.calls = op.calls /\ op'.kind = op.kind /\ op'.clean = op.clean
        /\ op'.edit = op.edit /\ op'.original = op.original /\ op'.meddled
    BY <2>1 DEF IInv, Shapes, OpShape
  <2>3. op'.calls > 0 <=> op.calls > 0
    BY <2>2
  <2>4. QED
    BY <2>1, <2>2, <2>3 DEF EmergencyRestores
<1>10. CASE Kill
  BY <1>10 DEF Kill, EmergencyRestores
<1>11. QED
  BY <1>1, <1>2, <1>3, <1>4, <1>5, <1>6, <1>7, <1>8, <1>9, <1>10 DEF Next, Recover

(* Automatic recovery that meets no failure of its own brings the original *)
(* back and, unless an administrator meddled, the service that ran it: its *)
(* window is its own, and pruning keeps its backup whatever the clock says *)
(* (applier.go:598, :550).                                                 *)
THEOREM RecoveryRestores ==
  ASSUME "other" \notin OriginalAccess
  PROVE  Spec => []EmergencyRestores
<1>1. Init => AccessInv /\ EmergencyRestores
  BY AccessStarts DEF Init, EmergencyRestores
<1>2. IInv /\ AccessInv /\ EmergencyRestores /\ [Next]_vars
        => AccessInv' /\ EmergencyRestores'
  BY AccessStep, EmergencyStep
<1>3. QED
  BY <1>1, <1>2, InvHolds, PTL DEF Spec
=============================================================================
