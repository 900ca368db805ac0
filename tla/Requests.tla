------------------------------ MODULE Requests ------------------------------
(***************************************************************************)
(* How the terminal UI keeps what it shows current: one requestState for   *)
(* the status and one for each page, asked by ticks, keys, page switches   *)
(* and finished operations, answered by goroutines in any order.  What the *)
(* backend would answer is a version of the world, which operations and    *)
(* others raise; the newest version confirmed to the user is a ghost.      *)
(***************************************************************************)
EXTENDS Integers, FiniteSets

CONSTANTS
  Pages,         \* pages with data of their own
  RuntimePages,  \* those whose data come from the running core
  Services,      \* what may become of the service: "running", "stopped",
                 \* "unreachable": its core does not answer,
                 \* "unknown": not even systemd answers
  MaxWorld,      \* bound: versions of the world
  MaxOps,        \* bound: operations
  MaxStale       \* bound: overtaken calls under way at a time

ASSUME PagesAssumption == RuntimePages \subseteq Pages /\ Pages # {}
ASSUME StatusAssumption == "status" \notin Pages
ASSUME ServicesAssumption ==
  {"running"} \subseteq Services
    /\ Services \subseteq {"running", "stopped", "unreachable", "unknown"}
ASSUME BoundsAssumption == MaxWorld \in Nat \ {0} /\ {MaxOps, MaxStale} \subseteq Nat

Kinds == {"status"} \cup Pages
Runtime == {"status"} \cup RuntimePages   \* isRuntimeErrorSource

VARIABLES
  world,      \* version and service
  op,         \* the foreground operation, and how many there were
  page,       \* the page shown
  req,        \* requestState of each kind
  calls,      \* goroutines of requests, and their messages
  active,     \* status.Service.Active
  shown,      \* version of what is shown of each kind, 0 for nothing
  errs,       \* sources with an error
  recovering, \* runtimeRecoveryUntil is in the future
  floor,      \* statusSnapshotFloor, as a number of operations
  confirmed   \* ghost: the version the last successful operation left

vars == <<world, op, page, req, calls, active, shown, errs, recovering,
          floor, confirmed>>

World == [v : 1 .. MaxWorld, svc : Services]
Request == [inFlight : BOOLEAN, queued : BOOLEAN]
Answer == [st : {"asked", "ok", "error"}, v : 0 .. MaxWorld,
           svc : Services \cup {"unknown"}]

(* fresh: the generation of the call is still that of its requestState.    *)
Call == [kind : Kinds, fresh : BOOLEAN, at : 0 .. MaxOps, answer : Answer]
Asked == [st |-> "asked", v |-> 0, svc |-> "unknown"]
Failure == [Asked EXCEPT !.st = "error"]
Operation == [st : {"none", "running", "ok", "error"}, runtime : BOOLEAN,
              v : 0 .. MaxWorld, count : 0 .. MaxOps]

Idle == [inFlight |-> FALSE, queued |-> FALSE]
Init ==
  /\ world \in [v : {1}, svc : Services]
  /\ op = [st |-> "none", runtime |-> FALSE, v |-> 0, count |-> 0]
  /\ page \in Pages
  /\ req = [k \in Kinds |-> Idle]
  /\ calls = {}
  /\ active = FALSE
  /\ shown = [k \in Kinds |-> 0]
  /\ errs = {}
  /\ recovering = FALSE
  /\ floor = 0 /\ confirmed = 0

Suspended  == op.st # "none" /\ op.runtime      \* runtimeMutation
Suppressed == Suspended \/ recovering           \* runtimeErrorSuppressed
-----------------------------------------------------------------------------
(* The begin...Refresh functions: asking for the kinds ks, forced or not,  *)
(* in a state of which r are the requests and cs the calls.                *)
Allowed(k, act, susp) ==
  /\ k \in Runtime => ~susp
  /\ k \in RuntimePages => act

Queue(r, force) == IF r.inFlight THEN [r EXCEPT !.queued = @ \/ force]
                   ELSE [Idle EXCEPT !.inFlight = TRUE]

(* A bound: one overtaken call of a kind, and MaxStale in all, at a time.  *)
FewCalls ==
  /\ \A c, d \in calls' : c.kind = d.kind /\ c.fresh = d.fresh => c = d
  /\ Cardinality({c \in calls' : ~c.fresh}) <= MaxStale

(* Calls of the kinds ks are cancelled: one that has not read yet fails.   *)
Stale(cs, ks) ==
  {IF c.kind \notin ks \/ ~c.fresh THEN c
   ELSE [c EXCEPT !.fresh = FALSE,
                  !.answer = IF @.st = "asked" THEN Failure ELSE @] : c \in cs}

Begin(r, cs, ks, forced, act, susp, fl) ==
  LET asked == {k \in ks : Allowed(k, act, susp)}
      begun == {k \in asked : ~r[k].inFlight}
  IN /\ req' = [k \in Kinds |->
                  IF k \in asked THEN Queue(r[k], k \in forced) ELSE r[k]]
     /\ calls' = Stale(cs, begun) \cup
          {[kind |-> k, fresh |-> TRUE, at |-> IF k = "status" THEN fl ELSE 0,
            answer |-> Asked] : k \in begun}

(* cancelRequest, for each of ks.                                          *)
CancelledInFlight(r, ks) ==                                       \* mutant
  [k \in Kinds |-> IF k \in ks THEN [r[k] EXCEPT !.queued = FALSE] ELSE r[k]]
CancelledNothing(r, ks) == r                                      \* mutant
Cancelled(r, ks) == [k \in Kinds |-> IF k \in ks THEN Idle ELSE r[k]]

-----------------------------------------------------------------------------
(* Ticks and keys.  A tick finds some of the intervals passed.             *)
Tick(due) ==
  /\ Begin(req, calls, due, {}, active, Suspended, floor)
  /\ UNCHANGED <<world, op, page, active, shown, errs, recovering, floor,
                 confirmed>>

RefreshKey ==
  /\ Begin(req, calls, {"status", page}, {"status", page}, active, Suspended,
           floor)
  /\ UNCHANGED <<world, op, page, active, shown, errs, recovering, floor,
                 confirmed>>

(* switchPage, cancelPageWork.                                             *)
SwitchPage(p) ==
  /\ p # page
  /\ page' = p
  /\ errs' = errs \ {page}
  /\ Begin(Cancelled(req, {page}), Stale(calls, {page}), {p}, {p}, active,
           Suspended, floor)
  /\ UNCHANGED <<world, op, active, shown, recovering, floor, confirmed>>

-----------------------------------------------------------------------------
(* The world, and the goroutines that read it.                             *)
Change ==
  /\ world.v < MaxWorld
  /\ \E svc \in Services : world' = [v |-> world.v + 1, svc |-> svc]
  /\ UNCHANGED <<op, page, req, calls, active, shown, errs, recovering, floor,
                 confirmed>>

Answers(c) ==
  LET ok == CASE c.kind = "status" -> world.svc \in {"running", "stopped"}
              [] c.kind \in RuntimePages -> world.svc = "running"
              [] OTHER -> TRUE
  IN [st  |-> IF ok THEN "ok" ELSE "error",
      v   |-> IF ok THEN world.v ELSE 0,
      svc |-> IF c.kind = "status" THEN world.svc ELSE "unknown"]

Read(c) ==
  /\ c.answer.st = "asked"
  /\ calls' = (calls \ {c}) \cup {[c EXCEPT !.answer = Answers(c)]}
  /\ UNCHANGED <<world, op, page, req, active, shown, errs, recovering, floor,
                 confirmed>>

(* refreshRequestTimeout; even systemctl did not answer.  A bound: only     *)
(* around operations, else a call fails because of the service's state.    *)
TimeOut(c) ==
  /\ c.answer.st = "asked" /\ c.kind = "status"
  /\ op.st # "none" \/ recovering
  /\ calls' = (calls \ {c}) \cup {[c EXCEPT !.answer = Failure]}
  /\ UNCHANGED <<world, op, page, req, active, shown, errs, recovering, floor,
                 confirmed>>

-----------------------------------------------------------------------------
(* Messages with answers.                                                  *)
AcceptsAny(c) == req[c.kind].inFlight                             \* mutant
Accepts(c)    == req[c.kind].inFlight /\ c.fresh

Drop(c) ==
  /\ c.answer.st # "asked" /\ ~Accepts(c)
  /\ calls' = calls \ {c}
  /\ UNCHANGED <<world, op, page, req, active, shown, errs, recovering, floor,
                 confirmed>>

NeverOutdated(c) == FALSE                                         \* mutant
Outdated(c) == c.at < floor

ErrorsUnlessActive(k, c) ==                                       \* mutant
  IF c.answer.st = "ok" \/ c.answer.svc = "unreachable"
       \/ (k \in Runtime /\ Suppressed)
  THEN errs \ {k} ELSE errs \cup {k}
ErrorsShown(k, c) ==
  IF c.answer.st = "ok" \/ (k \in Runtime /\ Suppressed) THEN errs \ {k}
  ELSE errs \cup {k}

Rest(k) == [req EXCEPT ![k] = Idle]
Queued(k) == IF req[k].queued THEN {k} ELSE {}

(* statusMsg of a request that an operation has overtaken.                 *)
DropOutdated(c) ==
  /\ c.kind = "status" /\ c.answer.st # "asked" /\ Accepts(c) /\ Outdated(c)
  /\ Begin(Rest("status"), calls \ {c}, Queued("status"), {"status"}, active,
           Suspended, floor)
  /\ UNCHANGED <<world, op, page, active, shown, errs, recovering, floor,
                 confirmed>>

(* Which service the UI sees after an answer; one that cannot be read is   *)
(* taken for stopped, but not while the core may still be restarting.      *)
Known(a) == a.st = "ok" \/ a.svc # "unknown"
Seen(a) == IF Known(a) THEN a.svc \in {"running", "unreachable"} ELSE active /\ Suppressed

StatusMsg(c) ==
  LET a == c.answer
      now == Seen(a)
      reset == ~now /\ (Known(a) \/ ~Suppressed)    \* resetInactiveRuntime
      gone == IF reset THEN RuntimePages ELSE {}
      also == IF Known(a) /\ now THEN {page} \cap RuntimePages ELSE {}
  IN /\ c.kind = "status" /\ a.st # "asked" /\ Accepts(c) /\ ~Outdated(c)
     /\ active' = now
     /\ shown' = [k \in Kinds |-> IF k \in gone THEN 0
                                  ELSE IF k = "status" /\ a.st = "ok" THEN a.v
                                  ELSE shown[k]]
     /\ errs' = ErrorsShown("status", c) \ gone
     /\ recovering' = (recovering /\ a.st # "ok")
     /\ \E due \in SUBSET also :
          Begin(Cancelled(Rest("status"), gone), Stale(calls \ {c}, gone),
                Queued("status") \cup (IF active THEN due ELSE also),
                {"status"} \cup (IF active THEN {} ELSE also), now, Suspended,
                floor)
     /\ UNCHANGED <<world, op, page, floor, confirmed>>

(* overviewTelemetryMsg, groupsMsg, profilesMsg, connectionsMsg,           *)
(* scheduleMsg.                                                            *)
PageMsg(c) ==
  /\ c.kind \in Pages /\ c.answer.st # "asked" /\ Accepts(c)
  /\ shown' = IF c.answer.st = "ok" THEN [shown EXCEPT ![c.kind] = c.answer.v]
              ELSE shown
  /\ errs' = ErrorsShown(c.kind, c)
  /\ Begin(Rest(c.kind), calls \ {c}, Queued(c.kind) \cap {page}, {page},
           active, Suspended, floor)
  /\ UNCHANGED <<world, op, page, active, recovering, floor, confirmed>>

-----------------------------------------------------------------------------
(* Operations.  One that restarts the core suspends the observers.         *)
SuspendsNone(runtime) == {}                                       \* mutant
Suspends(runtime) == IF runtime THEN Runtime ELSE {}

BeginOperation(runtime) ==
  /\ op.st = "none" /\ op.count < MaxOps
  /\ op' = [st |-> "running", runtime |-> runtime, v |-> 0, count |-> op.count + 1]
  /\ req' = Cancelled(req, Suspends(runtime))
  /\ calls' = Stale(calls, Suspends(runtime))
  /\ errs' = errs \ Suspends(runtime)
  /\ UNCHANGED <<world, page, active, shown, recovering, floor, confirmed>>

(* The operation takes effect or not; what it leaves is the new version.   *)
OperationEnds ==
  /\ op.st = "running"
  /\ \E st \in {"ok", "error"} :
       /\ \/ /\ world.v < MaxWorld
             /\ \E svc \in Services : world' = [v |-> world.v + 1, svc |-> svc]
          \/ st = "error" /\ UNCHANGED world
       /\ op' = [op EXCEPT !.st = st, !.v = world'.v]
  /\ UNCHANGED <<page, req, calls, active, shown, errs, recovering, floor,
                 confirmed>>

InvalidatesNone(p) == {}                                          \* mutant
Invalidates(p) == {p}

OperationMsg ==
  /\ op.st \in {"ok", "error"}
  /\ op' = [op EXCEPT !.st = "none", !.runtime = FALSE, !.v = 0]
  /\ recovering' = (recovering \/ op.runtime)
  /\ IF op.st = "ok"
     THEN /\ floor' = op.count /\ confirmed' = op.v
          /\ Begin(Cancelled(req, Invalidates(page)), Stale(calls, Invalidates(page)),
                   {"status", page}, {"status", page}, active, FALSE, floor')
     ELSE UNCHANGED <<floor, confirmed, req, calls>>
  /\ UNCHANGED <<world, page, active, shown, errs>>

GraceNeverEnds == recovering /\ UNCHANGED vars                    \* mutant
GraceEnds ==
  /\ recovering /\ recovering' = FALSE
  /\ UNCHANGED <<world, op, page, req, calls, active, shown, errs, floor,
                 confirmed>>

-----------------------------------------------------------------------------
Message(c) == Drop(c) \/ DropOutdated(c) \/ StatusMsg(c) \/ PageMsg(c)

Steps ==
  \/ \E due \in SUBSET {"status", page} : Tick(due)
  \/ RefreshKey \/ \E p \in Pages : SwitchPage(p)
  \/ \E c \in calls : Read(c) \/ TimeOut(c) \/ Message(c)
  \/ \E runtime \in BOOLEAN : BeginOperation(runtime)
  \/ OperationEnds \/ OperationMsg \/ GraceEnds \/ Change

Next == Steps /\ FewCalls

(* Timers fire, intervals pass, calls return within their timeout, and the *)
(* event loop handles every message.                                       *)
Fairness ==
  /\ WF_vars(Tick({"status", page}))
  /\ \A k \in Kinds :
       WF_vars(\E c \in calls : c.kind = k /\ (Read(c) \/ Message(c)))
  /\ WF_vars(OperationEnds \/ OperationMsg) /\ WF_vars(GraceEnds)

Spec == Init /\ [][Next]_vars /\ Fairness
-----------------------------------------------------------------------------
(* Types; and only a request in flight has another one queued behind it.   *)
TypeOK ==
  /\ world \in World
  /\ op \in Operation
  /\ page \in Pages
  /\ req \in [Kinds -> Request]
  /\ \A k \in Kinds : req[k].queued => req[k].inFlight
  /\ calls \subseteq Call
  /\ shown \in [Kinds -> 0 .. MaxWorld]
  /\ errs \subseteq Kinds
  /\ {active, recovering} \subseteq BOOLEAN
  /\ floor \in 0 .. MaxOps /\ confirmed \in 0 .. MaxWorld

(* Nothing of a core that does not run is shown, asked for or complained   *)
(* about, whatever answers are still under way (model.go:1948); and while  *)
(* an operation restarts the core no observer asks it or reports the       *)
(* failures to be expected (model.go:963).                                 *)
Quiet ==
  /\ ~active => \A k \in RuntimePages :
                  ~req[k].inFlight /\ shown[k] = 0 /\ k \notin errs
  /\ Suspended => \A k \in Runtime : ~req[k].inFlight /\ k \notin errs

(* What is shown is never replaced by something older (model.go:464), nor, *)
(* after an operation was reported successful, by anything read before it  *)
(* took effect (model.go:1341).                                            *)
NeverOlder ==
  [][\A k \in Kinds : shown'[k] \in {shown[k], 0}
                       \/ (shown'[k] >= shown[k] /\ shown'[k] >= confirmed)]_shown

(* When the world and the user have come to rest the status and the page   *)
(* show what there is.                                                     *)
AtRest == <>[](world.svc = "running") /\ <>[][UNCHANGED page]_page
Converges ==
  AtRest => <>[](active /\ shown["status"] = world.v /\ shown[page] = world.v)

(* A core that stays away is reported, however often errors were held back *)
(* in favour of a restart (privilege_test.go:342).                         *)
Surfaces == <>[](world.svc \in {"unreachable", "unknown"}) => <>[]("status" \in errs)
=============================================================================
