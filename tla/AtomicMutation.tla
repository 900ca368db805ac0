--------------------------- MODULE AtomicMutation ---------------------------
(***************************************************************************)
(* What mihomoctl promises of its privileged operations: each one takes    *)
(* the whole disk to its result in a single step, or leaves it as it was.  *)
(* Only a process that dies inside an operation, or a rollback that itself *)
(* fails, may leave something else; the disk is then torn until an         *)
(* operation that rewrites every part succeeds.                            *)
(***************************************************************************)
EXTENDS ManagedState

VARIABLES disk, torn
vars == <<disk, torn>>

TypeOK == disk \in Disk /\ torn \in BOOLEAN

Init == /\ \E s \in Settings, up \in BOOLEAN : disk = FreshDisk(s, up)
        /\ torn = FALSE

-----------------------------------------------------------------------------
(* The whole result of an operation, in closed form.                       *)
Rewritten(d, p, st, q) ==
  LET cfg == Merge(st, d, q)
  IN  [d EXCEPT !.state = st, !.active = q, !.installed = cfg,
                !.running = Reloaded(d, cfg),
                !.public = [settings |-> st.settings, active |-> q,
                            content |-> d.content],
                !.client[p] = ClientView(st, q)]

Initialize(p) ==
  /\ disk.active = NoProfile \/ Readable(disk)
  /\ torn' = FALSE
  /\ \E c \in Controllers :
       LET d == IF disk.active = NoProfile THEN WriteProfile(disk, Sys, 1)
                                           ELSE disk
           s == IF disk.state = NoState THEN disk.installed.settings
                                        ELSE disk.state.settings
       IN  disk' = Rewritten(d, p, [ctl |-> c, settings |-> s], d.active)

ChangeSetting(p) ==
  /\ disk.state # NoState
  /\ Readable(disk)
  /\ \E f \in Fields, v \in Values :
       disk' = Rewritten(disk, p, [disk.state EXCEPT !.settings[f] = v],
                         disk.active)
  /\ torn' = FALSE

UseProfile(p) ==
  /\ disk.state # NoState
  /\ \E q \in Profiles \ {disk.active} :
       /\ disk.content[q] # Absent
       /\ disk' = Rewritten(disk, p, disk.state, q)
  /\ torn' = FALSE

Repair(p) ==
  /\ disk.state # NoState
  /\ Readable(disk)
  /\ disk' = Rewritten(disk, p, disk.state, disk.active)
  /\ torn' = FALSE

AddProfile(p) ==
  /\ disk.state # NoState
  /\ \E q \in Profiles, v \in Versions :
       /\ disk.content[q] = Absent
       /\ LET d == WriteProfile(disk, q, v)
          IN  IF disk.active = NoProfile
              THEN /\ disk' = Rewritten(d, p, disk.state, q)
                   /\ torn' = FALSE
              ELSE disk' = WritePublic(d) /\ UNCHANGED torn

RemoveProfile ==
  /\ disk.state # NoState
  /\ \E q \in Profiles \ {disk.active} :
       /\ disk.content[q] # Absent
       /\ disk' = WritePublic(DropProfile(disk, q))
  /\ UNCHANGED torn

(* One batch of refreshed subscriptions.  A changed active profile is      *)
(* applied to Mihomo; an unchanged one is not, whatever Mihomo runs.       *)
UpdateProfiles ==
  /\ disk.state # NoState
  /\ \E new \in [Profiles -> Present] :
       /\ \A q \in Profiles : disk.content[q] = Absent <=> new[q] = Absent
       /\ LET d == [disk EXCEPT !.content = new]
              a == disk.active
          IN  IF a # NoProfile /\ new[a] # disk.content[a]
              THEN /\ disk' = WritePublic(
                                InstallConfig(d, Merge(disk.state, d, a)))
                   /\ torn' = FALSE
              ELSE disk' = WritePublic(d) /\ UNCHANGED torn

SyncPublic ==
  /\ disk.state # NoState
  /\ disk' = WritePublic(disk)
  /\ UNCHANGED torn

SyncClient(p) ==
  /\ disk.state # NoState
  /\ disk.active # NoProfile
  /\ disk' = WriteClient(disk, p, disk.state, disk.active)
  /\ UNCHANGED torn

(* The service is started, stopped or restarted on the installed file; a   *)
(* failed operation that got as far as a restart does no more than that.   *)
Service ==
  /\ \/ disk' = RestartService(disk)
     \/ disk' = [disk EXCEPT !.running = Stopped]
  /\ UNCHANGED torn

(* A crash inside an operation, or a failed rollback.                      *)
Damage == torn' = TRUE /\ disk' \in Disk

Next ==
  \/ \E p \in Procs : \/ Initialize(p) \/ ChangeSetting(p) \/ UseProfile(p)
                      \/ Repair(p) \/ AddProfile(p) \/ SyncClient(p)
  \/ RemoveProfile \/ UpdateProfiles \/ SyncPublic \/ Service
  \/ Damage

Spec == Init /\ [][Next]_vars

(* Unless the disk is torn, its parts agree.                               *)
Agreement == torn \/ Agreed(disk)
=============================================================================
