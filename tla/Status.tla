------------------------------- MODULE Status -------------------------------
(***************************************************************************)
(* App.CoreStatus: one status is put together from systemd, public.json,   *)
(* the memory of the process, the profile store and two requests to the    *)
(* core, while operations (of this process, if it is root, or of others)   *)
(* change all of these one after the other.  A configuration is what the   *)
(* managed settings say (m) and what the active document says (d).         *)
(***************************************************************************)
EXTENDS Integers

CONSTANT MaxChanges  \* bound: operations, new processes and other disturbances

VARIABLES
  disk,    \* config.yaml, the store and Mihomo's configuration file
  public,  \* public.json
  core,    \* the Mihomo process
  op,      \* the operation that holds the lock
  mem,     \* App's state, API client and cached version
  req,     \* the CoreStatus call
  root,    \* the process may read config.yaml and the store
  killed,  \* ghost: an operation of another process was killed half way
  changes

vars == <<disk, public, core, op, mem, req, root, killed, changes>>

Bit == {0, 1}
Profiles == {"a", "b"}
Controllers == {"c", "d"}
Config == [m : Bit, d : Bit]
None == "none"
NoConfig == [m |-> -1, d |-> -1]
NoVersion == [controller |-> None, build |-> 0]
Kinds == {"set", "use", "update", "init"}

Effective(d) == [m |-> d.settings, d |-> d.doc[d.active]]
Other(x, S) == CHOOSE y \in S : y # x

(* Types; unless one was killed, what is published between operations is   *)
(* the file.                                                               *)
TypeOK ==
  /\ disk \in [settings : Bit, active : Profiles, doc : [Profiles -> Bit],
               controller : Controllers, file : Config]
  /\ public \in [config : Config, active : Profiles]
  /\ core.config \in Config /\ core.up \in BOOLEAN /\ core.build \in Bit
  /\ core.controller \in Controllers
  /\ op.kind \in Kinds \cup {None}
  /\ mem.settings \in Bit /\ mem.api \in Nat /\ mem.controller \in Controllers
  /\ {req.expected, req.live} \subseteq Config \cup {NoConfig}
  /\ op.kind = None /\ ~killed => public.config = disk.file
  /\ root \in BOOLEAN /\ killed \in BOOLEAN /\ changes \in 0..MaxChanges

Blank == [pc |-> "idle", calm |-> FALSE, up |-> FALSE, avail |-> FALSE,
          settings |-> 0, active |-> None, config |-> NoConfig, expected |-> NoConfig,
          api |-> 0, controller |-> None, cached |-> NoVersion,
          version |-> NoVersion, live |-> NoConfig, asked |-> {}, drift |-> FALSE]

Init ==
  /\ disk = [settings |-> 0, active |-> "a", doc |-> [p \in Profiles |-> 0],
             controller |-> "c", file |-> [m |-> 0, d |-> 0]]
  /\ public = [config |-> [m |-> 0, d |-> 0], active |-> "a"]
  /\ core = [up |-> TRUE, config |-> [m |-> 0, d |-> 0], build |-> 0,
             controller |-> "c"]
  /\ op = [kind |-> None]
  /\ mem = [settings |-> 0, controller |-> "c", api |-> 0,
          version |-> NoVersion]
  /\ req = Blank
  /\ root \in BOOLEAN /\ killed = FALSE /\ changes = 0

Change == changes < MaxChanges /\ changes' = changes + 1

(* A status during which something changed promises nothing.               *)
Disturb == req' = [req EXCEPT !.calm = FALSE] /\ UNCHANGED root

(* rebuildAPI: another client, and no cached version.                      *)
CacheKept(d) ==                                                   \* mutant
  [mem EXCEPT !.settings = d.settings, !.controller = d.controller, !.api = @ + 1]
Rebuilt(d) ==
  [mem EXCEPT !.settings = d.settings, !.controller = d.controller, !.api = @ + 1,
              !.version = NoVersion]

-----------------------------------------------------------------------------
(* Operations, as AtomicMutation has them, in the order of their writes.   *)
Goal(kind) ==
  CASE kind = "set"    -> [disk EXCEPT !.settings = 1 - @]
    [] kind = "use"    -> [disk EXCEPT !.active = Other(@, Profiles)]
    [] kind = "update" -> [disk EXCEPT !.doc[disk.active] = 1 - @]
    [] kind = "init"   -> [disk EXCEPT !.controller = Other(@, Controllers)]

BeginOp(kind, mine) ==
  /\ op.kind = None /\ Change /\ (mine => root)
  /\ op' = [kind |-> kind, mine |-> mine, goal |-> Goal(kind),
            todo |-> {"apply", "write"}]
  /\ mem' = IF mine THEN Rebuilt(disk) ELSE mem
  /\ Disturb /\ UNCHANGED <<disk, public, core, killed>>

Apply ==
  /\ op.kind # None /\ "apply" \in op.todo
  /\ op.kind = "update" => "write" \notin op.todo
  /\ disk' = [disk EXCEPT !.file = Effective(op.goal)]
  /\ core' = [core EXCEPT !.config = Effective(op.goal),
                          !.controller = op.goal.controller]
  /\ op' = [op EXCEPT !.todo = @ \ {"apply"}]
  /\ Disturb /\ UNCHANGED <<public, mem, killed, changes>>

Write ==
  /\ op.kind # None /\ "write" \in op.todo
  /\ op.kind # "update" => "apply" \notin op.todo
  /\ disk' = [op.goal EXCEPT !.file = disk.file]
  /\ mem' = IF op.mine /\ op.kind \in {"set", "init"} THEN Rebuilt(disk') ELSE mem
  /\ op' = [op EXCEPT !.todo = @ \ {"write"}]
  /\ Disturb /\ UNCHANGED <<public, core, killed, changes>>

(* publishProfiles, with the settings of the configuration file.           *)
PublishedLate == public.config                                    \* mutant
Published == disk.file
Publish ==
  /\ op.kind # None /\ op.todo = {}
  /\ public' = [config |-> Published, active |-> disk.active]
  /\ op' = [kind |-> None]
  /\ Disturb /\ UNCHANGED <<disk, core, mem, killed, changes>>

Kill ==
  /\ op.kind # None /\ ~op.mine /\ op' = [kind |-> None]
  /\ killed' = TRUE
  /\ Disturb /\ UNCHANGED <<disk, public, core, mem, changes>>

(* The core is restarted or stopped, perhaps upgraded; its configuration   *)
(* is changed through its own API; the process is a new one.               *)
Restart ==
  /\ Change
  /\ core' \in [up : BOOLEAN, config : {disk.file}, build : Bit,
                controller : {core.controller}]
  /\ Disturb /\ UNCHANGED <<disk, public, op, mem, killed>>
Patch ==
  /\ Change /\ core' = [core EXCEPT !.config.m = 1 - @]
  /\ Disturb /\ UNCHANGED <<disk, public, op, mem, killed>>
NewProcess ==
  /\ Change /\ (op.kind # None => ~op.mine)
  /\ mem' = Rebuilt(disk) /\ req' = Blank
  /\ UNCHANGED <<disk, public, core, op, root, killed>>

-----------------------------------------------------------------------------
(* CoreStatus, one read at a time.                                         *)
At(pc) == req.pc = pc
Step == UNCHANGED <<disk, public, core, op, mem, root, killed, changes>>

ReadService ==
  /\ At("idle")
  /\ req' = [Blank EXCEPT !.pc = "public", !.up = core.up, !.calm = op.kind = None]
  /\ Step

(* public.json, if it can be read.                                         *)
ReadPublic ==
  /\ At("public")
  /\ \/ req' = [req EXCEPT !.pc = "memory", !.avail = TRUE, !.active = public.active,
                           !.config = public.config]
     \/ req' = [req EXCEPT !.pc = "memory"]
  /\ Step

ReadMemory ==
  /\ At("memory")
  /\ req' = [req EXCEPT !.pc = IF root THEN "store" ELSE "api",
                        !.settings = mem.settings, !.expected = req.config]
  /\ Step

(* Root: the store's active profile; where that is not the published one,  *)
(* its configuration, else the published one with the managed settings.    *)
PublishedActive == req.active                                     \* mutant
StoredActive == disk.active
ReadStore ==
  /\ At("store")
  /\ req' = IF req.avail /\ disk.active = req.active
            THEN [req EXCEPT !.pc = "api", !.active = StoredActive,
                             !.config.m = req.settings, !.expected.m = req.settings]
            ELSE [req EXCEPT !.pc = "stored", !.active = StoredActive]
  /\ Step

ReadConfig ==
  LET c == [m |-> req.settings, d |-> disk.doc[disk.active]] IN
  /\ At("stored")
  /\ req' = [req EXCEPT !.pc = "api", !.avail = TRUE, !.config = c, !.expected = c]
  /\ Step

(* systemd or the store cannot be read.                                    *)
Fail ==
  /\ req.pc \in {"public", "store", "stored"}
  /\ req' = [Blank EXCEPT !.pc = "done"]
  /\ Step

(* The client and its cached version, unless that is too old by now.       *)
ReadClient ==
  /\ At("api")
  /\ \E cached \in {mem.version, NoVersion} :
       req' = [req EXCEPT !.pc = IF req.up THEN "fetch" ELSE "done",
                 !.api = mem.api, !.controller = mem.controller,
                 !.cached = cached, !.version = cached,
                 !.asked = IF cached = NoVersion THEN {"version", "config"} ELSE {"config"}]
  /\ Step

Answers == core.up /\ core.controller = req.controller

Version ==
  /\ At("fetch") /\ "version" \in req.asked
  /\ \/ Answers /\ req' = [req EXCEPT !.asked = @ \ {"version"},
            !.version = [controller |-> core.controller, build |-> core.build]]
     \/ req' = [req EXCEPT !.asked = @ \ {"version"}]
  /\ Step

Configs ==
  /\ At("fetch") /\ "config" \in req.asked
  /\ \/ Answers /\ req' = [req EXCEPT !.asked = @ \ {"config"}, !.live = core.config]
     \/ req' = [req EXCEPT !.asked = @ \ {"config"}]
  /\ Step

Merge ==
  /\ At("fetch") /\ req.asked = {}
  /\ req' = [req EXCEPT !.pc = "cache",
       !.drift = req.avail /\ req.live # NoConfig /\ req.live # req.expected,
       !.config = IF req.live # NoConfig THEN req.live ELSE @]
  /\ Step

(* The version is kept if the client is still the one that was asked; a    *)
(* status with a failed request shows none.                                *)
AnyClient == TRUE                                                 \* mutant
SameClient == mem.api = req.api
Cache ==
  /\ At("cache")
  /\ mem' = IF req.cached = NoVersion /\ req.version # NoVersion /\ SameClient
            THEN [mem EXCEPT !.version = req.version] ELSE mem
  /\ req' = [req EXCEPT !.pc = "done",
                        !.version = IF req.live = NoConfig THEN NoVersion ELSE @]
  /\ UNCHANGED <<disk, public, core, op, root, killed, changes>>

Return == At("done") /\ req' = Blank /\ Step

CoreStatus ==
  \/ ReadService \/ ReadPublic \/ ReadMemory \/ ReadStore \/ ReadConfig \/ Fail
  \/ ReadClient \/ Version \/ Configs \/ Merge \/ Cache \/ Return

Operation ==
  \/ \E kind \in Kinds, mine \in BOOLEAN : BeginOp(kind, mine)
  \/ Apply \/ Write \/ Publish \/ Kill

Next == CoreStatus \/ Operation \/ Restart \/ Patch \/ NewProcess

Spec == Init /\ [][Next]_vars
-----------------------------------------------------------------------------
(* Undisturbed: nothing changed while the status was put together, and the *)
(* settings the process holds are those of config.yaml.                    *)
Undisturbed ==
  At("done") /\ req.calm /\ req.avail /\ (root => mem.settings = disk.settings)

(* A drift is reported exactly if the core runs another configuration than *)
(* settings and active document give (runtime.go:166), unless an operation *)
(* was killed before it published what it did (runtime.go:126).            *)
DriftTrue ==
  Undisturbed /\ ~killed /\ req.live # NoConfig => (req.drift <=> core.config # Effective(disk))

(* The version that is kept, and the one that is shown, is that of the     *)
(* core the process talks to (runtime.go:177).                             *)
VersionOwned ==
  /\ mem.version # NoVersion => mem.version.controller = mem.controller
  /\ At("done") /\ req.version # NoVersion => req.version.controller = req.controller

(* Root sees the store's active profile, even if a killed process left     *)
(* another one published (runtime.go:109).                                 *)
ActiveTrue == root /\ Undisturbed => req.active = disk.active
=============================================================================
