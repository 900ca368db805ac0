-------------------------- MODULE Operations_proofs -------------------------
(***************************************************************************)
(* The foreground operations of the terminal UI, for any number of them.   *)
(* The argument is about one attempt: the one that was begun or repeated   *)
(* last and whose message has not been handled.  As long as the language   *)
(* picker was not used there is at most one, of the current generation,    *)
(* and `loading` says whether there is.  Whatever the picker does there is *)
(* at most one of the current generation, and with sudo no key begins      *)
(* another one while the observers are suspended for it.                   *)
(***************************************************************************)
EXTENDS Operations, TLAPS

(* The goroutine, the terminal command or the message of i is under way.   *)
AtWork(i) == attempt[i].st \in {"ready", "running", "answered"}

(* Attempts are begun in the order of their tickets, each with a           *)
(* generation of its own or with that of the attempt it repeats.           *)
Ordered == \A i \in Attempts : attempt[i].st = "none" => gen < i

(* The attempts at work belong to the operation the UI waits for.          *)
Single ==
  /\ \A i \in Attempts : AtWork(i) => attempt[i].gen = gen
  /\ \A i, j \in Attempts : AtWork(i) /\ AtWork(j) => i = j

(* What the flags say of the attempt at work, while the loop goes on.      *)
Flagged ==
  loop \in {"ui", "terminal"}
    => /\ ui.loading <=> \E i \in Attempts : AtWork(i)
       /\ ui.suspended => \E i \in Attempts : AtWork(i) /\ attempt[i].kind = "admin"

(* With or without language changes.                                       *)
Current ==
  /\ \A i \in Attempts : attempt[i].gen <= gen
  /\ \A i, j \in Attempts :
       AtWork(i) /\ AtWork(j) /\ attempt[i].gen = gen /\ attempt[j].gen = gen => i = j
Suspending(i) == AtWork(i) /\ attempt[i].gen = gen /\ attempt[i].kind = "admin"
Shut ==
  Elevates /\ ui.suspended
    => /\ ui.privileged
       /\ loop \in {"ui", "terminal"} => \E i \in Attempts : Suspending(i)

OperationsInv ==
  /\ TypeOK /\ Ordered /\ Current /\ Shut
  /\ lang.saves = 0 => lang.st = "idle" /\ Single /\ Flagged
  /\ QuitWaits

-----------------------------------------------------------------------------
LEMMA UnusedAttempt == Unused \in Attempt /\ Unused.st = "none"
BY BoundsAssumption DEF Unused, Attempt, Kinds, Results

(* The attempt that a key begins, and the one that asks for a password.    *)
Begun(k, g) == [Unused EXCEPT !.st = "ready", !.kind = k, !.gen = g]
Repeated(k, g) ==
  [Unused EXCEPT !.st = "ready", !.kind = k, !.retry = TRUE, !.gen = g]

LEMMA NewAttempts ==
  ASSUME NEW k \in Kinds, NEW g \in 0 .. MaxAttempts
  PROVE  /\ {Begun(k, g), Repeated(k, g)} \subseteq Attempt
         /\ Begun(k, g).st = "ready" /\ Begun(k, g).kind = k /\ Begun(k, g).gen = g
         /\ Repeated(k, g).st = "ready" /\ Repeated(k, g).kind = k /\ Repeated(k, g).gen = g
BY UnusedAttempt DEF Begun, Repeated, Attempt, Kinds

LEMMA InitialOperations == Init => OperationsInv
<1> SUFFICES ASSUME Init PROVE OperationsInv
  OBVIOUS
<1>1. Unused \in Attempt /\ Unused.st = "none"
  BY UnusedAttempt
<1>2. attempt \in [Attempts -> Attempt] /\ \A i \in Attempts : attempt[i].st = "none"
  BY <1>1 DEF Init
<1>3. ui \in [Flags -> BOOLEAN] /\ ~ui["loading"] /\ ~ui["suspended"]
  BY DEF Init, Flags
<1>4. TypeOK /\ Ordered
  <2>1. lang \in [st : {"idle", "saving", "answered"}, saves : 0 .. MaxLanguage]
    BY BoundsAssumption DEF Init
  <2>2. tasks \in [Attempts -> {"absent", "reserved", "running"}]
          /\ \A i \in Attempts : tasks[i] = "running" <=> attempt[i].st = "running"
    BY <1>2 DEF Init
  <2>3. gen \in 0 .. MaxAttempts /\ \A i \in Attempts : gen < i
    BY BoundsAssumption DEF Init, Attempts
  <2> QED  BY <1>2, <1>3, <2>1, <2>2, <2>3 DEF Init, TypeOK, Ordered
<1>5. Current /\ Shut
  <2>1. gen = 0 /\ \A i \in Attempts : attempt[i].gen = 0
    BY DEF Init, Unused
  <2> QED  BY <1>2, <1>3, <2>1 DEF Current, Shut, AtWork
<1> QED  BY <1>2, <1>3, <1>4, <1>5
         DEF Init, OperationsInv, Single, Flagged, AtWork, QuitWaits, QuitAlwaysWaits

(* What the goroutine or the terminal command of an attempt does to it.    *)
LEMMA AttemptMoves ==
  ASSUME TypeOK, NEW i \in Attempts, Goroutine(i) \/ Terminal(i)
  PROVE  /\ AtWork(i) /\ UNCHANGED <<ui, gen, closed, lang>>
         /\ loop' = loop \/ {loop, loop'} \subseteq {"ui", "terminal"}
         /\ \E a \in Attempt :
              /\ attempt' = [attempt EXCEPT ![i] = a]
              /\ a.st \in {"running", "answered"}
              /\ a.kind = attempt[i].kind /\ a.gen = attempt[i].gen
              /\ \E t \in {"absent", "reserved", "running"} :
                   tasks' = [tasks EXCEPT ![i] = t] /\ (t = "running" <=> a.st = "running")
<1>1. attempt[i] \in Attempt /\ tasks[i] \in {"absent", "reserved", "running"}
        /\ (tasks[i] = "running" <=> attempt[i].st = "running")
        /\ tasks = [tasks EXCEPT ![i] = tasks[i]]
  BY DEF TypeOK
<1>2. AtWork(i) /\ UNCHANGED <<ui, gen, closed, lang>>
        /\ (loop' = loop \/ {loop, loop'} \subseteq {"ui", "terminal"})
  BY DEF Goroutine, Terminal, StartAttempt, FinishAttempt, Exec, ExecEnds, AtWork
<1>3. PICK r \in Results, t \in {"absent", "reserved", "running"}, st \in {"running", "answered"} :
        /\ \/ st = "running" /\ attempt' = [attempt EXCEPT ![i].st = "running"]
           \/ st = "answered" /\ Settle(i, r)
        /\ tasks' = [tasks EXCEPT ![i] = t] /\ (t = "running" <=> st = "running")
  <2>1. CASE StartAttempt(i)
    BY <2>1 DEF StartAttempt, Forget, Results
  <2>2. CASE FinishAttempt(i)
    BY <2>2 DEF FinishAttempt, Forget
  <2>3. CASE Exec(i)
    BY <1>1, <2>3 DEF Exec, Forget, Results
  <2>4. CASE ExecEnds(i)
    BY <2>4 DEF ExecEnds, Forget, Results
  <2> QED  BY <2>1, <2>2, <2>3, <2>4 DEF Goroutine, Terminal
<1> DEFINE a == [attempt[i] EXCEPT !.st = st, !.result = IF st = "running" THEN @ ELSE r]
<1>4. a \in Attempt /\ a.st = st /\ a.kind = attempt[i].kind /\ a.gen = attempt[i].gen
  BY <1>1 DEF Attempt
<1>5. attempt' = [attempt EXCEPT ![i] = a]
  <2>1. CASE st = "running"
    <3>1. attempt' = [attempt EXCEPT ![i] = [attempt[i] EXCEPT !.st = "running"]]
      BY <1>3, <2>1
    <3>2. a = [attempt[i] EXCEPT !.st = "running"]
      BY <1>1, <2>1 DEF Attempt
    <3> QED  BY <3>1, <3>2
  <2>2. CASE st = "answered"
    <3>1. attempt' = [attempt EXCEPT ![i] = [attempt[i] EXCEPT !.st = "answered", !.result = r]]
      BY <1>3, <2>2 DEF Settle
    <3> QED  BY <3>1, <2>2
  <2> QED  BY <2>1, <2>2
<1> HIDE DEF a
<1> QED  BY <1>2, <1>3, <1>4, <1>5

(* The types, and the order of the tickets.                                *)
LEMMA OperationsTyped == TypeOK /\ Ordered /\ [Next]_vars => TypeOK' /\ Ordered'
<1> SUFFICES ASSUME TypeOK, Ordered, [Next]_vars PROVE TypeOK' /\ Ordered'
  OBVIOUS
<1> USE BoundsAssumption
<1>1. ASSUME NEW i \in Attempts, NEW k \in Kinds, Begin(i, k) PROVE TypeOK' /\ Ordered'
  <2>1. gen < i /\ gen' = gen + 1 /\ gen' \in 0 .. MaxAttempts
    BY <1>1 DEF Begin, Fresh, TypeOK, Ordered, Attempts
  <2>2. PICK g \in 0 .. MaxAttempts, a \in Attempt :
          g = gen' /\ a = Begun(k, g) /\ a.st = "ready" /\ a.kind = k /\ a.gen = g
    BY <2>1, NewAttempts
  <2>3. attempt' = [attempt EXCEPT ![i] = a]
    BY <1>1, <2>2 DEF Begin, Begun
  <2>4. attempt' \in [Attempts -> Attempt]
    BY <2>2, <2>3 DEF TypeOK
  <2>5. ui' \in [Flags -> BOOLEAN]
    BY <1>1 DEF Begin, TypeOK, Flags
  <2>6. tasks[i] # "running"
    BY <1>1 DEF Begin, Fresh, TypeOK
  <2>7. tasks' \in [Attempts -> {"absent", "reserved", "running"}]
          /\ \A j \in Attempts : tasks'[j] = "running" <=> attempt'[j].st = "running"
    BY <1>1, <2>2, <2>3, <2>6 DEF Begin, Reserve, TypeOK
  <2>8. Ordered'
    BY <1>1, <2>1, <2>2, <2>3 DEF Begin, Fresh, Ordered, TypeOK, Attempts
  <2> QED  BY <1>1, <2>1, <2>4, <2>5, <2>7, <2>8 DEF Begin, TypeOK
<1>2. ASSUME NEW i \in Attempts, Goroutine(i) \/ Terminal(i) PROVE TypeOK' /\ Ordered'
  <2>1. PICK a \in Attempt, t \in {"absent", "reserved", "running"} :
          /\ attempt' = [attempt EXCEPT ![i] = a] /\ a.st \in {"running", "answered"}
          /\ tasks' = [tasks EXCEPT ![i] = t] /\ (t = "running" <=> a.st = "running")
    BY <1>2, AttemptMoves
  <2>2. UNCHANGED <<ui, gen, closed, lang>>
          /\ (loop' = loop \/ {loop, loop'} \subseteq {"ui", "terminal"})
    BY <1>2, AttemptMoves
  <2> QED  BY <2>1, <2>2 DEF TypeOK, Ordered
<1>3. ASSUME NEW i \in Attempts, Message(i) PROVE TypeOK' /\ Ordered'
  <2>1. ASSUME NEW j \in Attempts, AskPassword(i, j) PROVE TypeOK' /\ Ordered'
    <3>1. tasks[j] # "running" /\ attempt[j].st = "none" /\ i # j
      BY <2>1 DEF AskPassword, Fresh, TypeOK
    <3>2. PICK a \in Attempt : a = Repeated(attempt[i].kind, gen) /\ a.st = "ready"
      <4>1. attempt[i].kind \in Kinds
        BY DEF TypeOK, Attempt
      <4> QED  BY <4>1, NewAttempts DEF TypeOK
    <3>3. attempt' = [attempt EXCEPT ![i].st = "handled", ![j] = a]
      BY <2>1, <3>2 DEF AskPassword, Repeated
    <3>4. attempt' \in [Attempts -> Attempt]
      BY <3>1, <3>2, <3>3 DEF TypeOK, Attempt
    <3>5. tasks' \in [Attempts -> {"absent", "reserved", "running"}]
            /\ \A k \in Attempts : tasks'[k] = "running" <=> attempt'[k].st = "running"
      <4>1. PICK t \in {"absent", "reserved"} : tasks' = [tasks EXCEPT ![j] = t]
        BY <2>1, <3>1 DEF AskPassword, Reserve, TypeOK
      <4>2. attempt'[j].st = "ready" /\ attempt'[i].st = "handled" /\ tasks[i] # "running"
              /\ \A k \in Attempts \ {i, j} : attempt'[k] = attempt[k]
        BY <2>1, <3>1, <3>2, <3>3 DEF AskPassword, TypeOK, Attempt
      <4> QED  BY <3>1, <4>1, <4>2 DEF TypeOK
    <3>6. Ordered'
      <4>1. gen' = gen /\ \A k \in Attempts : attempt'[k].st = "none" => attempt[k].st = "none"
        BY <2>1, <3>1, <3>2, <3>3 DEF AskPassword, TypeOK, Attempt
      <4> QED  BY <4>1 DEF Ordered
    <3>7. ui' \in [Flags -> BOOLEAN] /\ UNCHANGED <<gen, loop, closed, lang>>
      BY <2>1 DEF AskPassword, TypeOK, Flags
    <3> QED  BY <3>4, <3>5, <3>6, <3>7 DEF TypeOK
  <2>2. CASE IgnoreStale(i)
    <3>1. attempt' \in [Attempts -> Attempt] /\ attempt[i].st = "answered"
            /\ UNCHANGED <<gen, loop, ui, tasks, closed, lang>>
      BY <2>2 DEF IgnoreStale, Handled, TypeOK, Attempt
    <3>2. attempt'[i].st = "handled" /\ \A k \in Attempts \ {i} : attempt'[k] = attempt[k]
      BY <2>2 DEF IgnoreStale, Handled, TypeOK, Attempt
    <3> QED  BY <3>1, <3>2 DEF TypeOK, Ordered
  <2>3. CASE HandleResult(i)
    <3>1. attempt' \in [Attempts -> Attempt] /\ attempt[i].st = "answered"
            /\ UNCHANGED <<gen, tasks, closed, lang>> /\ loop' \in {"ui", "ended"}
      BY <2>3 DEF HandleResult, Handled, TypeOK, Attempt
    <3>2. attempt'[i].st = "handled" /\ \A k \in Attempts \ {i} : attempt'[k] = attempt[k]
      BY <2>3 DEF HandleResult, Handled, TypeOK, Attempt
    <3>3. ui' \in [Flags -> BOOLEAN]
      BY <2>3 DEF HandleResult, Over, TypeOK
    <3> QED  BY <3>1, <3>2, <3>3 DEF TypeOK, Ordered
  <2> QED  BY <1>3, <2>1, <2>2, <2>3 DEF Message
<1>4. CASE ChangeLanguage \/ SaveEnds \/ HandleLanguage
  <2>1. lang' \in [st : {"idle", "saving", "answered"}, saves : 0 .. MaxLanguage]
    BY <1>4 DEF ChangeLanguage, SaveEnds, HandleLanguage, TypeOK
  <2>2. ui' \in [Flags -> BOOLEAN]
    BY <1>4 DEF ChangeLanguage, SaveEnds, HandleLanguage, TypeOK
  <2>3. UNCHANGED <<gen, attempt, tasks, closed>> /\ (loop' = loop \/ loop' \in {"ui", "ended"})
    BY <1>4 DEF ChangeLanguage, SaveEnds, HandleLanguage
  <2> QED  BY <2>1, <2>2, <2>3 DEF TypeOK, Ordered
<1>5. CASE RequestQuit \/ Terminate \/ Stop \/ Exit
  <2>1. ui' \in [Flags -> BOOLEAN]
    <3>1. "loading" \in Flags /\ "quit" \in Flags
      BY DEF Flags
    <3>2. ui.loading \in BOOLEAN /\ ui.quit \in BOOLEAN
      BY <3>1 DEF TypeOK
    <3>3. CASE RequestQuit
      BY <3>2, <3>3 DEF RequestQuit, QuitWaitsForResult, TypeOK
    <3> QED  BY <1>5, <3>3 DEF Terminate, Stop, Exit, TypeOK
  <2>2. tasks' \in [Attempts -> {"absent", "reserved", "running"}]
          /\ \A i \in Attempts : tasks'[i] = "running" <=> tasks[i] = "running"
    BY <1>5 DEF RequestQuit, Terminate, Stop, Exit, Kept, TypeOK
  <2>3. UNCHANGED <<gen, attempt, lang>> /\ closed' \in BOOLEAN
          /\ loop' \in {"ui", "terminal", "ended", "waiting", "exited"}
    BY <1>5 DEF RequestQuit, Terminate, Stop, Exit, TypeOK
  <2> QED  BY <2>1, <2>2, <2>3 DEF TypeOK, Ordered
<1>6. CASE UNCHANGED vars
  BY <1>6 DEF vars, TypeOK, Ordered
<1> QED  BY <1>1, <1>2, <1>3, <1>4, <1>5, <1>6 DEF Next

-----------------------------------------------------------------------------
(* One attempt of the current generation, and the keys are shut to others  *)
(* while it suspends the observers.                                        *)
LEMMA CurrentStep ==
  TypeOK /\ Ordered /\ Current /\ Shut /\ [Next]_vars => Current' /\ Shut'
<1> SUFFICES ASSUME TypeOK, Ordered, Current, Shut, [Next]_vars PROVE Current' /\ Shut'
  OBVIOUS
<1>0. gen \in Nat /\ \A i \in Attempts : attempt[i].gen \in Nat
  BY BoundsAssumption DEF TypeOK, Attempt
<1>1. ASSUME NEW i \in Attempts, NEW k \in Kinds, Begin(i, k) PROVE Current' /\ Shut'
  <2>1. gen' = gen + 1 /\ gen' \in 0 .. MaxAttempts /\ ~ui.privileged /\ loop' = "ui"
    BY <1>1, BoundsAssumption DEF Begin, Fresh, KeysOpen, Ordered, TypeOK, Attempts
  <2>2. PICK g \in 0 .. MaxAttempts, a \in Attempt :
          g = gen' /\ a = Begun(k, g) /\ a.st = "ready" /\ a.kind = k /\ a.gen = g
    BY <2>1, NewAttempts
  <2>3. attempt' = [attempt EXCEPT ![i] = a]
    BY <1>1, <2>2 DEF Begin, Begun
  <2>4. attempt'[i] = a /\ \A j \in Attempts \ {i} : attempt'[j] = attempt[j]
    BY <2>3 DEF TypeOK
  <2>5. \A j \in Attempts \ {i} : attempt'[j].gen < gen'
    BY <1>0, <2>1, <2>4 DEF Current
  <2>6. Current'
    BY <1>0, <2>1, <2>2, <2>4, <2>5 DEF Current
  <2>7. Shut'
    <3> SUFFICES ASSUME Elevates, ui'.suspended PROVE ui'.privileged /\ k = "admin"
      BY <2>2, <2>4 DEF Shut, Suspending, AtWork
    <3>1. ~ui.suspended
      BY <2>1 DEF Shut
    <3>2. k = "admin"
      BY <1>1, <3>1 DEF Begin, TypeOK, Flags
    <3> QED  BY <1>1, <3>2 DEF Begin, NeedsRoot, TypeOK, Flags
  <2> QED  BY <2>6, <2>7
<1>2. ASSUME NEW i \in Attempts, Goroutine(i) \/ Terminal(i) PROVE Current' /\ Shut'
  <2>1. PICK a \in Attempt :
          /\ attempt' = [attempt EXCEPT ![i] = a] /\ a.st \in {"running", "answered"}
          /\ a.kind = attempt[i].kind /\ a.gen = attempt[i].gen
    BY <1>2, AttemptMoves
  <2>2. AtWork(i) /\ UNCHANGED <<ui, gen>>
          /\ (loop' = loop \/ {loop, loop'} \subseteq {"ui", "terminal"})
    BY <1>2, AttemptMoves
  <2>3. \A j \in Attempts : /\ AtWork(j)' <=> AtWork(j)
                            /\ attempt'[j].gen = attempt[j].gen
                            /\ attempt'[j].kind = attempt[j].kind
    BY <2>1, <2>2 DEF AtWork, TypeOK, Attempt
  <2> QED  BY <2>2, <2>3 DEF Current, Shut, Suspending
<1>3. ASSUME NEW i \in Attempts, Message(i) PROVE Current' /\ Shut'
  <2>1. ASSUME NEW j \in Attempts, AskPassword(i, j) PROVE Current' /\ Shut'
    <3>1. AtWork(i) /\ attempt[i].gen = gen /\ attempt[j].st = "none" /\ i # j
            /\ loop = "ui" /\ loop' = "ui" /\ gen' = gen
      BY <2>1 DEF AskPassword, Fresh, AtWork
    <3>2. PICK a \in Attempt :
            /\ a = Repeated(attempt[i].kind, gen) /\ a.st = "ready"
            /\ a.kind = attempt[i].kind /\ a.gen = gen
      <4>1. attempt[i].kind \in Kinds
        BY DEF TypeOK, Attempt
      <4> QED  BY <4>1, NewAttempts DEF TypeOK
    <3>3. attempt' = [attempt EXCEPT ![i].st = "handled", ![j] = a]
      BY <2>1, <3>2 DEF AskPassword, Repeated
    <3>4. ui'.privileged = ui.privileged /\ ui'.suspended = ui.suspended
      BY <2>1 DEF AskPassword, TypeOK, Flags
    <3>5. attempt'[j] = a /\ attempt'[i].st = "handled" /\ attempt'[i].gen = gen
            /\ \A k \in Attempts \ {i, j} : attempt'[k] = attempt[k]
      BY <3>1, <3>3 DEF TypeOK, Attempt
    <3>6. \A k \in Attempts : attempt'[k].gen <= gen'
      BY <1>0, <3>1, <3>2, <3>5 DEF Current
    <3>7. \A k \in Attempts : AtWork(k) /\ attempt[k].gen = gen => k = i
      BY <3>1 DEF Current
    <3>8. \A k \in Attempts : AtWork(k)' /\ attempt'[k].gen = gen' => k = j
      BY <3>1, <3>5, <3>7 DEF AtWork
    <3>9. Suspending(i) => Suspending(j)'
      BY <3>1, <3>2, <3>5 DEF Suspending, AtWork
    <3>10. Shut'
      BY <3>1, <3>4, <3>7, <3>9 DEF Shut, Suspending
    <3> QED  BY <3>6, <3>8, <3>10 DEF Current
  <2>2. ASSUME IgnoreStale(i) \/ HandleResult(i)
        PROVE  /\ Current' /\ gen' = gen
               /\ \A k \in Attempts \ {i} : Suspending(k) => Suspending(k)'
    <3>1. attempt' = [attempt EXCEPT ![i].st = "handled"] /\ gen' = gen
      BY <2>2 DEF IgnoreStale, HandleResult, Handled
    <3>2. /\ attempt'[i].st = "handled" /\ attempt'[i].gen = attempt[i].gen
          /\ \A k \in Attempts \ {i} : attempt'[k] = attempt[k]
      BY <3>1 DEF TypeOK, Attempt
    <3> QED  BY <3>1, <3>2 DEF Current, Suspending, AtWork
  <2>3. CASE IgnoreStale(i)
    <3>1. ~Suspending(i) /\ loop = "ui" /\ loop' = "ui" /\ ui' = ui
      BY <2>3 DEF IgnoreStale, Suspending
    <3> QED  BY <2>2, <2>3, <3>1 DEF Shut
  <2>4. CASE HandleResult(i)
    <3>1. AtWork(i) /\ attempt[i].gen = gen /\ loop = "ui"
      BY <2>4 DEF HandleResult, AtWork
    <3>2. ui'.suspended => ui.suspended /\ attempt[i].kind = "test"
      BY <2>4 DEF HandleResult, Over, TypeOK, Flags
    <3>3. attempt[i].kind = "test" => \A k \in Attempts : ~Suspending(k)
      BY <3>1 DEF Current, Suspending
    <3>4. Shut'
      BY <3>1, <3>2, <3>3 DEF Shut
    <3> QED  BY <2>2, <2>4, <3>4
  <2> QED  BY <1>3, <2>1, <2>2, <2>3, <2>4 DEF Message
<1>4. CASE \/ ChangeLanguage \/ SaveEnds \/ HandleLanguage
           \/ RequestQuit \/ Terminate \/ Stop \/ Exit
  <2>1. /\ UNCHANGED <<attempt, gen>>
        /\ ui'.suspended = ui.suspended /\ ui'.privileged = ui.privileged
        /\ loop' \in {"ui", "terminal"} => loop \in {"ui", "terminal"}
    BY <1>4 DEF ChangeLanguage, SaveEnds, HandleLanguage, RequestQuit, Terminate,
                Stop, Exit, TypeOK, Flags
  <2> QED  BY <2>1 DEF Current, Shut, Suspending, AtWork
<1>5. CASE UNCHANGED vars
  BY <1>5 DEF vars, Current, Shut, Suspending, AtWork
<1> QED  BY <1>1, <1>2, <1>3, <1>4, <1>5 DEF Next

-----------------------------------------------------------------------------
LEMMA OperationsStep == OperationsInv /\ [Next]_vars => OperationsInv'
<1> SUFFICES ASSUME OperationsInv, [Next]_vars PROVE OperationsInv'
  OBVIOUS
<1>0. TypeOK /\ Ordered /\ TypeOK' /\ Ordered' /\ Current' /\ Shut'
  BY OperationsTyped, CurrentStep DEF OperationsInv
<1> DEFINE Rest == /\ lang.saves = 0 => lang.st = "idle" /\ Single /\ Flagged
                   /\ QuitWaits
<1>1. ASSUME NEW i \in Attempts, NEW k \in Kinds, Begin(i, k) PROVE Rest'
  <2>1. loop = "ui" /\ loop' = "ui" /\ ~ui.loading /\ lang' = lang
          /\ gen' \in 0 .. MaxAttempts
    BY <1>0, <1>1 DEF Begin, KeysOpen, MayBegin, TypeOK
  <2>2. PICK g \in 0 .. MaxAttempts, a \in Attempt :
          g = gen' /\ a = Begun(k, g) /\ a.st = "ready" /\ a.kind = k /\ a.gen = g
    BY <2>1, NewAttempts
  <2>3. attempt' = [attempt EXCEPT ![i] = a]
    BY <1>1, <2>2 DEF Begin, Begun
  <2>4. ui'.loading /\ (ui'.suspended => ui.suspended \/ k = "admin")
    BY <1>0, <1>1 DEF Begin, TypeOK, Flags
  <2> SUFFICES ASSUME lang.saves = 0 PROVE Single' /\ Flagged'
    BY <2>1 DEF OperationsInv, QuitWaits, QuitAlwaysWaits
  <2>5. \A j \in Attempts : ~AtWork(j)
    BY <2>1 DEF OperationsInv, Flagged
  <2>6. \A j \in Attempts : AtWork(j)' <=> j = i
    BY <1>0, <2>2, <2>3, <2>5 DEF AtWork, TypeOK
  <2>7. attempt'[i].kind = k /\ attempt'[i].gen = gen'
    BY <1>0, <2>2, <2>3 DEF TypeOK
  <2> QED  BY <2>1, <2>4, <2>5, <2>6, <2>7 DEF Single, Flagged, OperationsInv
<1>2. ASSUME NEW i \in Attempts, Goroutine(i) \/ Terminal(i) PROVE Rest'
  <2>1. PICK a \in Attempt :
          /\ attempt' = [attempt EXCEPT ![i] = a] /\ a.st \in {"running", "answered"}
          /\ a.kind = attempt[i].kind /\ a.gen = attempt[i].gen
    BY <1>0, <1>2, AttemptMoves
  <2>2. AtWork(i) /\ UNCHANGED <<ui, gen, lang>>
          /\ (loop' = loop \/ {loop, loop'} \subseteq {"ui", "terminal"})
    BY <1>0, <1>2, AttemptMoves
  <2>3. \A j \in Attempts : /\ AtWork(j)' <=> AtWork(j)
                            /\ attempt'[j].gen = attempt[j].gen
                            /\ attempt'[j].kind = attempt[j].kind
    BY <1>0, <2>1, <2>2 DEF AtWork, TypeOK, Attempt
  <2> QED  BY <2>2, <2>3 DEF OperationsInv, Single, Flagged, QuitWaits, QuitAlwaysWaits, AtWork
<1>3. ASSUME NEW i \in Attempts, Message(i) PROVE Rest'
  <2>1. ASSUME NEW j \in Attempts, AskPassword(i, j) PROVE Rest'
    <3>1. attempt[i].st = "answered" /\ attempt[j].st = "none" /\ i # j /\ attempt[i].gen = gen
            /\ loop = "ui" /\ loop' = "ui" /\ lang' = lang /\ gen' = gen
      BY <2>1 DEF AskPassword, Fresh
    <3>2. PICK a \in Attempt :
            /\ a = Repeated(attempt[i].kind, gen) /\ a.st = "ready"
            /\ a.kind = attempt[i].kind /\ a.gen = gen
      <4>1. attempt[i].kind \in Kinds
        BY <1>0 DEF TypeOK, Attempt
      <4> QED  BY <1>0, <4>1, NewAttempts DEF TypeOK
    <3>3. attempt' = [attempt EXCEPT ![i].st = "handled", ![j] = a]
      BY <2>1, <3>2 DEF AskPassword, Repeated
    <3>4. ui'.loading = ui.loading /\ ui'.suspended = ui.suspended
      BY <1>0, <2>1 DEF AskPassword, TypeOK, Flags
    <3>5. attempt'[j].st = "ready" /\ attempt'[j].kind = attempt[i].kind /\ attempt'[j].gen = gen
            /\ attempt'[i].st = "handled"
            /\ \A k \in Attempts \ {i, j} : attempt'[k] = attempt[k]
      BY <1>0, <3>1, <3>2, <3>3 DEF TypeOK, Attempt
    <3> SUFFICES ASSUME lang.saves = 0 PROVE Single' /\ Flagged'
      BY <3>1 DEF OperationsInv, QuitWaits, QuitAlwaysWaits
    <3>6. \A k \in Attempts : AtWork(k) <=> k = i
      BY <3>1 DEF OperationsInv, Single, AtWork
    <3>7. \A k \in Attempts : AtWork(k)' <=> k = j
      BY <3>5, <3>6 DEF AtWork
    <3> QED  BY <3>1, <3>4, <3>5, <3>6, <3>7 DEF Single, Flagged, OperationsInv
  <2>2. CASE IgnoreStale(i)
    <3>1. AtWork(i) /\ attempt[i].gen # gen /\ loop = "ui" /\ loop' = "ui" /\ lang' = lang
      BY <2>2 DEF IgnoreStale, AtWork
    <3> QED  BY <3>1 DEF OperationsInv, Single, QuitWaits, QuitAlwaysWaits
  <2>3. CASE HandleResult(i)
    <3>1. attempt' = [attempt EXCEPT ![i].st = "handled"] /\ lang' = lang /\ gen' = gen
            /\ AtWork(i) /\ loop = "ui"
      BY <2>3 DEF HandleResult, Handled, AtWork
    <3>2. ~ui'.loading /\ (ui'.suspended => ui.suspended /\ attempt[i].kind = "test")
      BY <1>0, <2>3 DEF HandleResult, Over, TypeOK, Flags
    <3> SUFFICES ASSUME lang.saves = 0 PROVE Single' /\ Flagged' /\ QuitWaits'
      BY <1>0, <3>1 DEF OperationsInv, QuitWaits, QuitAlwaysWaits
    <3>3. \A k \in Attempts : AtWork(k) <=> k = i
      BY <3>1 DEF OperationsInv, Single
    <3>4. \A k \in Attempts : ~AtWork(k)'
      BY <1>0, <3>1, <3>3 DEF AtWork, TypeOK, Attempt
    <3>5. ~ui.suspended \/ attempt[i].kind = "admin"
      BY <3>1, <3>3 DEF OperationsInv, Flagged
    <3> QED  BY <1>0, <3>1, <3>2, <3>4, <3>5
             DEF Single, Flagged, QuitWaits, QuitAlwaysWaits, AtWork, TypeOK, Attempt
  <2> QED  BY <1>3, <2>1, <2>2, <2>3 DEF Message
<1>4. CASE ChangeLanguage \/ SaveEnds \/ HandleLanguage
  <2>1. lang'.saves # 0
    <3>1. lang.saves \in Nat /\ (lang.saves = 0 => lang.st = "idle")
      BY <1>0 DEF TypeOK, OperationsInv
    <3>2. CASE ChangeLanguage
      BY <3>1, <3>2 DEF ChangeLanguage
    <3>3. CASE SaveEnds
      BY <1>0, <3>1, <3>3 DEF SaveEnds, TypeOK
    <3>4. CASE HandleLanguage
      BY <3>1, <3>4 DEF HandleLanguage
    <3> QED  BY <1>4, <3>2, <3>3, <3>4
  <2>2. QuitWaits'
    BY <2>1 DEF QuitWaits, QuitAlwaysWaits
  <2> QED  BY <1>0, <2>1, <2>2 DEF OperationsInv
<1>5. CASE RequestQuit \/ Terminate \/ Stop \/ Exit
  <2>1. /\ attempt' = attempt /\ gen' = gen /\ lang' = lang
        /\ ui'.loading = ui.loading /\ ui'.suspended = ui.suspended
        /\ loop' \in {"ui", "terminal"} => loop \in {"ui", "terminal"}
    BY <1>0, <1>5 DEF RequestQuit, Terminate, Stop, Exit, TypeOK, Flags
  <2>2. loop' = "ended" => ui'.killed \/ (~ui.loading /\ loop = "ui")
    BY <1>0, <1>5 DEF RequestQuit, Terminate, Stop, Exit, QuitWaitsForResult, TypeOK, Flags
  <2> QED  BY <1>0, <2>1, <2>2
           DEF OperationsInv, Single, Flagged, QuitWaits, QuitAlwaysWaits, AtWork, TypeOK, Attempt
<1>6. CASE UNCHANGED vars
  <2>1. \A i \in Attempts : AtWork(i)' <=> AtWork(i)
    BY <1>6 DEF vars, AtWork
  <2> QED  BY <1>0, <1>6, <2>1
           DEF vars, OperationsInv, Single, Flagged, QuitWaits, QuitAlwaysWaits
<1> QED  BY <1>0, <1>1, <1>2, <1>3, <1>4, <1>5, <1>6 DEF Next, OperationsInv

LEMMA OperationsAlways == Spec => []OperationsInv
BY InitialOperations, OperationsStep, PTL DEF Spec

-----------------------------------------------------------------------------
(* When the loop has ended without a signal there is no goroutine, no      *)
(* terminal command and no message of an operation left, for any number of *)
(* operations (optimization_test.go:100).                                  *)
THEOREM QuitsWait == Spec => []QuitWaits
<1>1. OperationsInv => QuitWaits
  BY DEF OperationsInv
<1> QED  BY <1>1, OperationsAlways, PTL

(* Observers are suspended only while an attempt at a privileged operation *)
(* of the current generation is at work, whose message resumes them        *)
(* (privilege.go:101): with sudo always, for root while the language       *)
(* picker was not used.                                                    *)
THEOREM ObserversAreResumed == Spec => []ObserversResume
<1>1. OperationsInv => ObserversResume
  <2> SUFFICES ASSUME OperationsInv, ui.suspended, loop \in {"ui", "terminal"},
                      Elevates \/ lang.saves = 0
               PROVE  \E i \in Attempts : Suspending(i)
    BY DEF ObserversResume, Suspending, AtWork
  <2>1. CASE Elevates
    BY <2>1 DEF OperationsInv, Shut
  <2>2. CASE lang.saves = 0
    BY <2>2 DEF OperationsInv, Single, Flagged, Suspending
  <2> QED  BY <2>1, <2>2
<1> QED  BY <1>1, OperationsAlways, PTL

=============================================================================
