----------------------------- MODULE Operations -----------------------------
(***************************************************************************)
(* The foreground operations of the terminal UI: one event loop (Bubble    *)
(* Tea) that handles keys and messages one at a time, the goroutine every  *)
(* command runs in, and operationTracker, which Run uses to wait for       *)
(* started operations when the loop has ended.  Operations are of four     *)
(* kinds: "api" asks the core, "test" is a delay test, and "meta" and      *)
(* "admin" need root.  When sudo wants a password such an attempt is       *)
(* answered "auth" and repeated on the terminal, with the event loop       *)
(* waiting for it.  An "admin" operation changes the runtime and also      *)
(* suspends its observers; "meta" (the profiles, the autostart and the     *)
(* update timer) leaves them alone.                                        *)
(***************************************************************************)
EXTENDS Integers

CONSTANTS
  MaxAttempts, \* bound: attempts at operations, in the order of their tickets
  Elevates,    \* the process is not root: "meta" and "admin" use sudo
  MaxLanguage  \* bound: how often the user changes the language

ASSUME BoundsAssumption == MaxAttempts \in Nat \ {0} /\ MaxLanguage \in Nat

Attempts == 1 .. MaxAttempts

VARIABLES
  loop,     \* where the program is: its event loop or the end of Run
  ui,       \* the Model's flags about operations
  gen,      \* mutationGeneration
  attempt,  \* the goroutine, or terminal command, of each attempt
  tasks,    \* operationTracker.tasks: absent, false or true
  closed,   \* operationTracker.closed
  lang      \* the language save: its goroutine and how many there were

vars == <<loop, ui, gen, attempt, tasks, closed, lang>>

Kinds   == {"api", "test", "meta", "admin"}
Results == {"ok", "error", "auth"}
Attempt == [st : {"none", "ready", "running", "answered", "handled"},
            kind : Kinds, retry : BOOLEAN, gen : 0 .. MaxAttempts,
            result : Results]
Flags == {"loading", "privileged", "authorizing", "suspended", "saving",
          "quit", "cancelled", "killed"}

Unused == [st |-> "none", kind |-> "api", retry |-> FALSE, gen |-> 0,
           result |-> "ok"]

Init ==
  /\ loop = "ui"
  /\ ui = [f \in Flags |-> FALSE]
  /\ gen = 0
  /\ attempt = [i \in Attempts |-> Unused]
  /\ tasks = [i \in Attempts |-> "absent"]
  /\ closed = FALSE
  /\ lang = [st |-> "idle", saves |-> 0]

-----------------------------------------------------------------------------
(* operationTracker.                                                       *)
Fresh(i) == /\ attempt[i].st = "none"
            /\ \A j \in Attempts : j < i => attempt[j].st # "none"

Reserve(i) == tasks' = [tasks EXCEPT ![i] = IF closed THEN @ ELSE "reserved"]

Accepted(i) == ~closed /\ tasks[i] = "reserved"

ForgetNothing(i) == UNCHANGED tasks                               \* mutant
Forget(i) == tasks' = [tasks EXCEPT ![i] = "absent"]

Settle(i, r) ==
  attempt' = [attempt EXCEPT ![i].st = "answered", ![i].result = r]

-----------------------------------------------------------------------------
(* Keys.  languageSaving and privilegedOperation shut out all but quitting.*)
KeysOpenInPrivilege == loop = "ui" /\ ~ui.saving                    \* mutant
KeysOpen == loop = "ui" /\ ~ui.saving /\ ~ui.privileged

NeedsRoot(k) == k \in {"meta", "admin"}

(* beginOperationAttempt, beginGroupTest: nothing while one is loading.    *)
MayBegin == ~ui.loading

(* A bound: the last attempt is kept for a password.                       *)
Room(i, k) == NeedsRoot(k) => i + 1 \in Attempts

Begin(i, k) ==
  /\ KeysOpen /\ MayBegin /\ Fresh(i) /\ Room(i, k)
  /\ ui' = IF k = "test" THEN [ui EXCEPT !.loading = TRUE]
           ELSE [ui EXCEPT !.loading = TRUE, !.authorizing = FALSE,
                           !.privileged = NeedsRoot(k) /\ Elevates,
                           !.suspended = k = "admin"]
  /\ gen' = gen + 1
  /\ attempt' = [attempt EXCEPT ![i] =
       [Unused EXCEPT !.st = "ready", !.kind = k, !.gen = gen']]
  /\ Reserve(i)
  /\ UNCHANGED <<loop, closed, lang>>

(* The language picker, which does not ask whether something is loading.   *)
ChangeLanguage ==
  /\ KeysOpen /\ lang.saves < MaxLanguage
  /\ ui' = [ui EXCEPT !.loading = TRUE, !.saving = TRUE]
  /\ lang' = [st |-> "saving", saves |-> lang.saves + 1]
  /\ UNCHANGED <<gen, loop, attempt, tasks, closed>>

(* requestQuit, on q or ctrl+c; the latter is never shut out.              *)
QuitAtOnce == FALSE                                               \* mutant
QuitWaitsForResult == ui.loading

RequestQuit ==
  /\ loop = "ui"
  /\ ui' = [ui EXCEPT !.cancelled = TRUE, !.quit = @ \/ QuitWaitsForResult]
  /\ loop' = IF QuitWaitsForResult THEN "ui" ELSE "ended"
  /\ UNCHANGED <<gen, attempt, tasks, closed, lang>>

(* SIGTERM or SIGHUP: the program's context ends, the event loop returns.  *)
Terminate ==
  /\ loop = "ui"
  /\ ui' = [ui EXCEPT !.cancelled = TRUE, !.killed = TRUE]
  /\ loop' = "ended"
  /\ UNCHANGED <<gen, attempt, tasks, closed, lang>>

-----------------------------------------------------------------------------
(* The goroutine of a first attempt.                                       *)
StartAttempt(i) ==
  /\ attempt[i].st = "ready" /\ ~attempt[i].retry
  /\ \/ /\ Accepted(i)
        /\ tasks' = [tasks EXCEPT ![i] = "running"]
        /\ attempt' = [attempt EXCEPT ![i].st = "running"]
     \/ /\ ~Accepted(i)
        /\ Forget(i)
        /\ Settle(i, "error")
  /\ UNCHANGED <<gen, loop, ui, closed, lang>>

(* The operation returns, its ticket is finished, then the message is sent.*)
FinishAttempt(i) ==
  /\ attempt[i].st = "running" /\ ~attempt[i].retry
  /\ \E r \in Results :
       /\ r = "auth" => NeedsRoot(attempt[i].kind) /\ Elevates
       /\ Settle(i, r)
  /\ Forget(i)
  /\ UNCHANGED <<gen, loop, ui, closed, lang>>

(* tea.Exec: the event loop gives the terminal away and runs the command   *)
(* itself, or cannot and answers with an error: the ticket stays reserved. *)
Exec(i) ==
  /\ loop = "ui" /\ attempt[i].st = "ready" /\ attempt[i].retry
  /\ \/ /\ Accepted(i) /\ loop' = "terminal"
        /\ tasks' = [tasks EXCEPT ![i] = "running"]
        /\ attempt' = [attempt EXCEPT ![i].st = "running"]
     \/ /\ ~Accepted(i) /\ Settle(i, "error")
        /\ Forget(i) /\ UNCHANGED loop
     \/ Settle(i, "error") /\ UNCHANGED <<loop, tasks>>
  /\ UNCHANGED <<gen, ui, closed, lang>>

ExecEnds(i) ==
  /\ loop = "terminal" /\ attempt[i].st = "running" /\ attempt[i].retry
  /\ \E r \in {"ok", "error"} : Settle(i, r)
  /\ Forget(i)
  /\ loop' = "ui"
  /\ UNCHANGED <<gen, ui, closed, lang>>

SaveEnds ==
  /\ lang.st = "saving" /\ lang' = [lang EXCEPT !.st = "answered"]
  /\ UNCHANGED <<gen, loop, ui, attempt, tasks, closed>>

-----------------------------------------------------------------------------
(* Messages.                                                               *)
Handled(i) == attempt' = [attempt EXCEPT ![i].st = "handled"]

(* operationMsg, groupTestMsg of an operation that was overtaken.          *)
IgnoreStale(i) ==
  /\ loop = "ui" /\ attempt[i].st = "answered" /\ attempt[i].gen # gen
  /\ Handled(i)
  /\ UNCHANGED <<gen, loop, ui, tasks, closed, lang>>

WantsPassword(i) ==
  attempt[i].result = "auth" /\ ~attempt[i].retry /\ ~ui.quit

(* sudo wants a password: retryPrivilegedOperation, once.                  *)
AskPassword(i, j) ==
  /\ loop = "ui" /\ attempt[i].st = "answered" /\ attempt[i].gen = gen
  /\ WantsPassword(i) /\ ~ui.authorizing /\ Fresh(j)
  /\ ui' = [ui EXCEPT !.authorizing = TRUE]
  /\ attempt' = [attempt EXCEPT
       ![i].st = "handled",
       ![j] = [Unused EXCEPT !.st = "ready", !.kind = attempt[i].kind,
                             !.retry = TRUE, !.gen = gen]]
  /\ Reserve(j)
  /\ UNCHANGED <<gen, loop, closed, lang>>

(* The operation is over, for good or for bad.                             *)
StillLoading(u) == u                                              \* mutant
Over(u) ==
  [u EXCEPT !.loading = FALSE, !.privileged = FALSE, !.authorizing = FALSE,
            !.suspended = FALSE]
HandleResult(i) ==
  /\ loop = "ui" /\ attempt[i].st = "answered" /\ attempt[i].gen = gen
  /\ ~WantsPassword(i)
  /\ ui' = IF attempt[i].kind = "test" THEN [ui EXCEPT !.loading = FALSE]
           ELSE Over(ui)
  /\ Handled(i)
  /\ loop' = IF ui.quit THEN "ended" ELSE "ui"
  /\ UNCHANGED <<gen, tasks, closed, lang>>

HandleLanguage ==
  /\ loop = "ui" /\ lang.st = "answered"
  /\ ui' = [ui EXCEPT !.loading = FALSE, !.saving = FALSE]
  /\ lang' = [lang EXCEPT !.st = "idle"]
  /\ loop' = IF ui.quit THEN "ended" ELSE "ui"
  /\ UNCHANGED <<gen, attempt, tasks, closed>>

-----------------------------------------------------------------------------
(* Run after the event loop: stopAndWait.                                  *)
Kept(i) == IF tasks[i] = "running" THEN "running" ELSE "absent"

Stop ==
  /\ loop = "ended" /\ loop' = "waiting"
  /\ closed' = TRUE
  /\ tasks' = [i \in Attempts |-> Kept(i)]
  /\ ui' = [ui EXCEPT !.cancelled = TRUE]
  /\ UNCHANGED <<gen, attempt, lang>>

Exit ==
  /\ loop = "waiting" /\ \A i \in Attempts : tasks[i] = "absent"
  /\ loop' = "exited"
  /\ UNCHANGED <<gen, ui, attempt, tasks, closed, lang>>

Goroutine(i) == StartAttempt(i) \/ FinishAttempt(i)
Message(i) == IgnoreStale(i) \/ (\E j \in Attempts : AskPassword(i, j))
                \/ HandleResult(i)
Terminal(i) == Exec(i) \/ ExecEnds(i)

Next ==
  \/ \E i \in Attempts :
       \/ \E k \in Kinds : Begin(i, k)
       \/ Goroutine(i) \/ Message(i) \/ Terminal(i)
  \/ ChangeLanguage \/ SaveEnds \/ HandleLanguage
  \/ RequestQuit \/ Terminate \/ Stop \/ Exit

(* Goroutines run, operations return (each has a deadline, and the quit    *)
(* cancels its context), the loop handles its messages, Run goes on.  Only *)
(* one of the actions named together can be enabled, the next one of an    *)
(* attempt, of a save, of Run.                                             *)
Advance(i) == Goroutine(i) \/ Message(i) \/ Terminal(i)
Fairness ==
  /\ \A i \in Attempts : WF_vars(Advance(i))
  /\ WF_vars(SaveEnds \/ HandleLanguage) /\ WF_vars(Stop \/ Exit)

Spec == Init /\ [][Next]_vars /\ Fairness

-----------------------------------------------------------------------------
(* Types; and the tracker knows exactly the operations at work.            *)
TypeOK ==
  /\ loop \in {"ui", "terminal", "ended", "waiting", "exited"}
  /\ ui \in [Flags -> BOOLEAN]
  /\ gen \in 0 .. MaxAttempts
  /\ attempt \in [Attempts -> Attempt]
  /\ tasks \in [Attempts -> {"absent", "reserved", "running"}]
  /\ \A i \in Attempts : tasks[i] = "running" <=> attempt[i].st = "running"
  /\ closed \in BOOLEAN
  /\ lang \in [st : {"idle", "saving", "answered"}, saves : 0 .. MaxLanguage]

(* A quit by the user takes effect when the running operation has been     *)
(* handled, not before (optimization_test.go:100).                         *)
QuitAlwaysWaits ==
  (loop = "ended" /\ ~ui.killed)
    => \A i \in Attempts : attempt[i].st \in {"none", "handled"}

(* The code keeps this as long as the language picker was not used: the    *)
(* end of its save clears `loading` and obeys the quit whatever else is at *)
(* work (model.go:1040).                                                   *)
QuitWaits == lang.saves = 0 => QuitAlwaysWaits

(* The observers of the runtime are suspended only for an operation that   *)
(* is still to end: nothing else starts them again (privilege.go:101).     *)
(* With sudo the keys are shut meanwhile, so that this holds whatever the  *)
(* language picker does.  For root it does not: a delay test can begin     *)
(* beside the operation that suspended them, whose end is then stale.      *)
ObserversResume ==
  (ui.suspended /\ loop \in {"ui", "terminal"} /\ (Elevates \/ lang.saves = 0))
    => \E i \in Attempts : /\ attempt[i].kind = "admin" /\ attempt[i].gen = gen
                           /\ attempt[i].st \in {"ready", "running", "answered"}

(* Every quit ends the process: a result, a password prompt, a refused or  *)
(* forgotten ticket never makes Run wait for ever.                         *)
QuitEnds == (ui.quit \/ loop = "ended") ~> loop = "exited"

(* A result the user waits for arrives.                                    *)
Settles == ui.loading ~> ~ui.loading \/ loop = "exited"
=============================================================================
