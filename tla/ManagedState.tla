---------------------------- MODULE ManagedState ----------------------------
(***************************************************************************)
(* The state one mihomoctl installation keeps outside its processes, and   *)
(* the pure functions every operation is built from.  A "disk" is a record *)
(*   state      /etc/mihomoctl/config.yaml, the private managed state      *)
(*   active     the active profile named by the store's state.yaml         *)
(*   content    the installed version of every profile, Absent if none     *)
(*   installed  the Mihomo configuration file                              *)
(*   running    what the Mihomo service loaded at its last start           *)
(*   public     /var/lib/mihomoctl/public.json                             *)
(*   client     client.yaml of the user behind each process                *)
(* Payloads are abstracted to what the operations compare: a profile body  *)
(* is the pair of its profile and version, a controller stands for its     *)
(* address together with its secret.                                       *)
(***************************************************************************)
EXTENDS Integers

CONSTANTS
  Procs,        \* CLI, TUI and timer processes, each run for one user
  Profiles,     \* profile identities
  Sys,          \* the snapshot that takeover imports
  MaxVersion,   \* bound: versions a subscription goes through
  Fields,       \* the settings mihomoctl manages (mode, tun, port, ...)
  Values,       \* values of one setting
  Controllers,  \* controller address and secret pairs
  NoController, \* an unmanaged configuration's controller
  NoProfile, NoState, NoPublic, NoClient, Stopped

ASSUME SysAssumption == Sys \in Profiles
ASSUME VersionAssumption == MaxVersion \in Nat \ {0}
ASSUME NoProfileAssumption == NoProfile \notin Profiles
ASSUME NoStateAssumption ==
  NoState \notin [ctl : Controllers, settings : [Fields -> Values]]
ASSUME StoppedAssumption ==
  Stopped \notin [ctl : Controllers \cup {NoController},
                  settings : [Fields -> Values],
                  body : Profiles \X (0 .. MaxVersion)]

Absent   == 0
Versions == 1 .. MaxVersion
Present  == Absent .. MaxVersion
Settings == [Fields -> Values]
State    == [ctl : Controllers, settings : Settings]
Config   == [ctl : Controllers \cup {NoController}, settings : Settings,
             body : Profiles \X Present]
Public   == [settings : Settings, active : Profiles \cup {NoProfile},
             content : [Profiles -> Present]]
Client   == [ctl : Controllers, active : Profiles]
Disk     == [state     : State \cup {NoState},
             active    : Profiles \cup {NoProfile},
             content   : [Profiles -> Present],
             installed : Config,
             running   : Config \cup {Stopped},
             public    : Public \cup {NoPublic},
             client    : [Procs -> Client \cup {NoClient}]]

-----------------------------------------------------------------------------
(* What one profile's document becomes once the managed overlay is merged. *)
Merge(st, d, q) ==
  [ctl |-> st.ctl, settings |-> st.settings, body |-> <<q, d.content[q]>>]

(* public.json reads its settings back from the installed configuration.   *)
PublicView(d) ==
  [settings |-> d.installed.settings, active |-> d.active,
   content |-> d.content]

ClientView(st, q) == [ctl |-> st.ctl, active |-> q]

(* A service that runs is restarted on cfg, a stopped one stays stopped.   *)
Reloaded(d, cfg) == IF d.running = Stopped THEN Stopped ELSE cfg

-----------------------------------------------------------------------------
(* The effect of one elementary step on the disk when it succeeds.         *)
WriteProfile(d, q, v) ==
  [d EXCEPT !.content[q] = v,
            !.active = IF d.active = NoProfile THEN q ELSE d.active]
CommitProfile(d, q, v) == [d EXCEPT !.content[q] = v]
ActivateProfile(d, q)  == [d EXCEPT !.active = q]
DropProfile(d, q)      == [d EXCEPT !.content[q] = Absent]
InstallConfig(d, cfg)  ==
  [d EXCEPT !.installed = cfg, !.running = Reloaded(d, cfg)]
WriteState(d, st)      == [d EXCEPT !.state = st]
WritePublic(d)         == [d EXCEPT !.public = PublicView(d)]
WriteClient(d, p, st, q) == [d EXCEPT !.client[p] = ClientView(st, q)]
RestartService(d)      == [d EXCEPT !.running = d.installed]

-----------------------------------------------------------------------------
(* The machine before `mihomoctl init`: Mihomo runs, or not, on its own    *)
(* configuration and mihomoctl has no file.                                *)
Unmanaged(s) ==
  [ctl |-> NoController, settings |-> s, body |-> <<Sys, 1>>]
FreshDisk(s, up) ==
  [state     |-> NoState,
   active    |-> NoProfile,
   content   |-> [q \in Profiles |-> Absent],
   installed |-> Unmanaged(s),
   running   |-> IF up THEN Unmanaged(s) ELSE Stopped,
   public    |-> NoPublic,
   client    |-> [p \in Procs |-> NoClient]]

(* The active profile has a document that can be merged and applied.       *)
Readable(d) == d.active # NoProfile /\ d.content[d.active] # Absent

(* The disk is agreed when its parts tell one story: the configuration in  *)
(* force is the active profile's document under the managed settings, the  *)
(* service runs nothing else, the active profile has a document and the    *)
(* published snapshot is current.                                          *)
Agreed(d) ==
  /\ d.running \in {d.installed, Stopped}
  /\ d.state = NoState => d.active = NoProfile
  /\ d.state # NoState =>
       /\ Readable(d)
       /\ d.installed = Merge(d.state, d, d.active)
       /\ d.public = PublicView(d)
=============================================================================
