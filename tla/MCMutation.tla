----------------------------- MODULE MCMutation -----------------------------
(***************************************************************************)
(* Small instances of Mutation for TLC.  Besides the machine before `init` *)
(* there is a managed one, as `init`, two `profile add` and one `profile   *)
(* use` leave it, so that bulk updates are within reach of short runs.     *)
(***************************************************************************)
EXTENDS Mutation, TLC

CONSTANT InUse  \* the active profile of the managed machine

ASSUME InUseAssumption == InUse \in Profiles

(* The processes are interchangeable; sound for the safety runs only.      *)
Symmetry == Permutations(Procs)

ManagedDisk(st, up) ==
  LET d == [FreshDisk(st.settings, up) EXCEPT
              !.state = st, !.active = InUse,
              !.content = [q \in Profiles |-> 1]]
  IN  WritePublic(InstallConfig(d, Merge(st, d, InUse)))

ManagedInit ==
  /\ \E st \in State, up \in BOOLEAN : disk = ManagedDisk(st, up)
  /\ Quiet

ManagedSpec == ManagedInit /\ [][Next]_vars
ManagedFairSpec == ManagedSpec /\ Fairness

(* AbsSpec without its initial condition, for runs that start managed:     *)
(* each step of an operation is a step of AtomicMutation or none.          *)
AbsSteps == [][Abs!Next]_(Abs!vars)
=============================================================================
