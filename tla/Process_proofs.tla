---------------------------- MODULE Process_proofs --------------------------
(***************************************************************************)
(* The safety properties of the three protocols of MCProcess: of Watch for *)
(* every timeout and channel capacity, of a guarded and of an unguarded    *)
(* stream; of Elevation for every number of passwords sudo takes; of       *)
(* Status for every number of operations and disturbances.                 *)
(***************************************************************************)
EXTENDS MCProcess, SequenceTheorems, TLAPS
Judged == {"check", "tell", "closeErrors", "closeData", "end"}
Reported == {"closeErrors", "closeData", "end"}

(* Where the items are: one is in hand between its decoding and its place  *)
(* in the channel, or was given up with the stream.                        *)
InHand ==
  /\ pc \in {"start", "read"} => sent = got + data
  /\ pc \in {"note", "send"} => sent = got + data + 1

WatchTyped == TypeOK /\ got \in Nat /\ InHand

(* What the watchdog knows of the silence: its timer and the ticks since   *)
(* the last callback make up the timeout, unless a sign of life is on its  *)
(* way.                                                                    *)
Timing ==
  /\ dog = "wait" => Guarded
  /\ pc = "start" => dog = "off" /\ timer = Timeout
  /\ timer = 0 \/ silence = Timeout => gap
  /\ dog = "wait" /\ pc # "note" /\ ~activity
       => gap \/ timer + silence >= Timeout

(* Whatever says that the stream was silent.                               *)
Silent ==
  /\ expired => gap
  /\ result = "silent" => gap
  /\ errorsCh.items = "silent" => gap

(* Until the verdict a cancelled stream has a caller who cancelled or a    *)
(* watchdog that expired; after it only the caller is left.                *)
Causes ==
  /\ pc \notin Judged /\ (stream \/ dog = "kill") => ctx \/ expired
  /\ result = "cancelled" => stream
  /\ pc \in Judged /\ result = "cancelled" => ctx
  /\ result = "broken" => core = "broken"
  /\ pc \in {"done", "judge"} \cup Judged /\ result = "none" => core = "eof"

(* What is to be told was judged before the caller cancelled.              *)
Told ==
  /\ pc = "tell" => result \notin {"none", "cancelled"}
  /\ pc \notin Reported => errorsCh.items = "none"
  /\ pc \in Reported => ctx \/ errorsCh.items = result
  /\ errorsCh.items \in {"none", result} \ {"cancelled"}

WatchInv == WatchTyped /\ Timing /\ Silent /\ Causes /\ Told
-----------------------------------------------------------------------------
LEMMA WatchInitInv == Init => WatchInv
<1> SUFFICES ASSUME Init PROVE WatchInv
  OBVIOUS
<1>1. errorsCh \in [items : Failures \cup {"none"}, closed : BOOLEAN]
  BY DEF Init, Failures
<1>2. WatchTyped
  <2>1. {ctx, stream, activity, expired, reading, gap} \subseteq BOOLEAN
    BY Zenon DEF Init
  <2>2. timer \in 0..Timeout /\ silence \in 0..Timeout /\ data \in 0..Capacity
        /\ sent \in 0..MaxItems /\ got \in Nat
        /\ got + data <= sent /\ sent - got - data <= 1 /\ sent = got + data
    BY WatchAssumption DEF Init
  <2> QED  BY <1>1, <2>1, <2>2 DEF Init, WatchTyped, TypeOK, InHand, Failures
<1>3. Timing /\ Silent /\ Causes /\ Told
  BY WatchAssumption DEF Init, Timing, Silent, Causes, Told, Judged, Reported
<1> QED  BY <1>2, <1>3 DEF WatchInv

USE DEF goroutine, watchdog, reader, clock

(* WatchTyped: the goroutine's own steps, the watchdog's and the rest.          *)
LEMMA WatchTypesStep == WatchTyped /\ [Next]_vars => WatchTyped'
<1> SUFFICES ASSUME WatchTyped, [Next]_vars PROVE WatchTyped'
  OBVIOUS
<1> USE WatchAssumption DEF WatchTyped, TypeOK, InHand, Failures
<1>1. CASE Start
  <2>1. errorsCh' \in [items : Failures \cup {"none"}, closed : BOOLEAN]
    <3>1. CASE core = "absent"
      <4>1. errorsCh' = [items |-> "refused", closed |-> TRUE]
        BY <1>1, <3>1, Zenon DEF Start
      <4> QED  BY <4>1
    <3>2. CASE core # "absent"
      BY <1>1, <3>2 DEF Start
    <3> QED  BY <3>1, <3>2
  <2> QED  BY <1>1, <2>1 DEF Start
<1>2. CASE ReadEnds
  BY <1>2 DEF ReadEnds
<1>3. CASE Signal
  BY <1>3 DEF Signal
<1>4. CASE Send
  BY <1>4 DEF Send, Queued, GivesUp
<1>5. CASE Finish
  BY <1>5 DEF Finish
<1>6. CASE Judge
  BY <1>6 DEF Judge, Verdict
<1>7. CASE Check \/ Tell
  <2>1. errorsCh' \in [items : Failures \cup {"none"}, closed : BOOLEAN]
    BY <1>7 DEF Check, Tell
  <2>2. CASE Check
    BY <2>1, <2>2 DEF Check
  <2>3. CASE Tell
    BY <2>1, <2>3 DEF Tell
  <2> QED  BY <1>7, <2>2, <2>3
<1>8. CASE CloseErrors
  <2>1. errorsCh' \in [items : Failures \cup {"none"}, closed : BOOLEAN]
    BY <1>8 DEF CloseErrors
  <2> QED  BY <1>8, <2>1 DEF CloseErrors
<1>9. CASE CloseData
  BY <1>9 DEF CloseData
<1>10. CASE Alive \/ Expire \/ Kill \/ DogEnds
  <2>1. CASE Alive
    <3>1. {ctx', stream', activity', expired', reading', gap'} \subseteq BOOLEAN
      BY <2>1, Zenon DEF Alive
    <3> QED  BY <2>1, <3>1 DEF Alive, Rearmed
  <2>2. CASE Expire
    BY <2>2 DEF Expire
  <2>3. CASE Kill
    BY <2>3 DEF Kill
  <2>4. CASE DogEnds
    BY <2>4 DEF DogEnds
  <2> QED  BY <1>10, <2>1, <2>2, <2>3, <2>4
<1>11. CASE ReadItem
  BY <1>11 DEF ReadItem
<1>12. CASE CoreEnds
  BY <1>12 DEF CoreEnds
<1>13. CASE Receive
  BY <1>13 DEF Receive
<1>14. CASE StopReading \/ Cancel
  <2>1. CASE StopReading
    <3>1. {ctx', stream', activity', expired', reading', gap'} \subseteq BOOLEAN
      BY <2>1, Zenon DEF StopReading
    <3> QED  BY <2>1, <3>1 DEF StopReading
  <2>2. CASE Cancel
    BY <2>2 DEF Cancel
  <2> QED  BY <1>14, <2>1, <2>2
<1>15. CASE Tick
  BY <1>15 DEF Tick, Busy
<1>16. CASE UNCHANGED vars
  BY <1>16 DEF vars
<1> QED
  BY <1>1, <1>2, <1>3, <1>4, <1>5, <1>6, <1>7, <1>8, <1>9, <1>10, <1>11, <1>12,
     <1>13, <1>14, <1>15, <1>16 DEF Next, Streaming, Watching

(* Timing: time passes only while no sign of life is on its way.           *)
LEMMA TimingStep == WatchTyped /\ Timing /\ [Next]_vars => Timing'
<1> SUFFICES ASSUME WatchTyped, Timing, [Next]_vars PROVE Timing'
  OBVIOUS
<1>0. /\ timer \in 0..Timeout /\ silence \in 0..Timeout /\ Timeout \in Nat \ {0}
      /\ gap \in BOOLEAN /\ activity \in BOOLEAN /\ Guarded \in BOOLEAN
  BY WatchAssumption DEF WatchTyped, TypeOK
<1> USE <1>0 DEF Timing
<1>1. CASE Start
  BY <1>1 DEF Start
<1>2. CASE ReadItem
  BY <1>2 DEF ReadItem
<1>3. CASE Signal
  BY <1>3 DEF Signal
<1>4. CASE ReadEnds \/ Send \/ Finish \/ Judge \/ Check \/ Tell \/ CloseErrors \/ CloseData
  BY <1>4 DEF ReadEnds, Send, Finish, Judge, Check, Tell, CloseErrors, CloseData
<1>5. CASE Alive
  BY <1>5 DEF Alive, Rearmed
<1>6. CASE Expire \/ Kill \/ DogEnds
  BY <1>6 DEF Expire, Kill, DogEnds
<1>7. CASE CoreEnds \/ Receive \/ StopReading \/ Cancel
  BY <1>7 DEF CoreEnds, Receive, StopReading, Cancel
<1>8. CASE Tick
  <2>1. /\ dog = "wait" /\ pc # "note" /\ pc # "start" /\ ~activity /\ timer # 0
        /\ timer' = timer - 1
        /\ silence' = IF silence < Timeout THEN silence + 1 ELSE silence
        /\ gap' = (gap \/ silence' = Timeout)
        /\ dog' = dog /\ pc' = pc /\ activity' = activity
    BY <1>8 DEF Tick, Busy
  <2>2. gap \/ timer + silence >= Timeout
    BY <2>1
  <2>a. timer' = 0 => gap \/ silence' = Timeout
    BY <2>1, <2>2, SMT
  <2>b. gap \/ timer' + silence' >= Timeout
    BY <2>1, <2>2, SMT
  <2>3. timer' = 0 \/ silence' = Timeout => gap'
    BY <2>1, <2>a, Zenon
  <2>4. gap' \/ timer' + silence' >= Timeout
    BY <2>1, <2>b, Zenon
  <2> QED  BY <2>1, <2>3, <2>4
<1>9. CASE UNCHANGED vars
  BY <1>9 DEF vars
<1> QED
  BY <1>1, <1>2, <1>3, <1>4, <1>5, <1>6, <1>7, <1>8, <1>9
     DEF Next, Streaming, Watching

(* Silent: the verdict comes from a timer that ran down.                   *)
LEMMA SilentStep == WatchTyped /\ Timing /\ Silent /\ [Next]_vars => Silent'
<1> SUFFICES ASSUME WatchTyped, Timing, Silent, [Next]_vars PROVE Silent'
  OBVIOUS
<1>0. /\ errorsCh \in [items : Failures \cup {"none"}, closed : BOOLEAN]
      /\ gap \in BOOLEAN /\ expired \in BOOLEAN
  BY DEF WatchTyped, TypeOK
<1> USE <1>0 DEF Silent
<1>1. CASE Start \/ Check \/ Tell \/ CloseErrors
  BY <1>1 DEF Start, Check, Tell, CloseErrors
<1>2. CASE Judge
  BY <1>2 DEF Judge, Verdict
<1>3. CASE ReadEnds \/ Signal \/ Send \/ Finish \/ CloseData \/ ReadItem
  BY <1>3 DEF ReadEnds, Signal, Send, Finish, CloseData, ReadItem
<1>4. CASE Expire
  BY <1>4 DEF Expire, Timing
<1>5. CASE Alive \/ Kill \/ DogEnds
  BY <1>5 DEF Alive, Kill, DogEnds
<1>6. CASE CoreEnds \/ Receive \/ StopReading \/ Cancel \/ Tick
  BY <1>6 DEF CoreEnds, Receive, StopReading, Cancel, Tick
<1>7. CASE UNCHANGED vars
  BY <1>7 DEF vars
<1> QED
  BY <1>1, <1>2, <1>3, <1>4, <1>5, <1>6, <1>7 DEF Next, Streaming, Watching

(* Causes: who cancelled, and why the stream ended.                        *)
LEMMA CausesStep == WatchTyped /\ Causes /\ [Next]_vars => Causes'
<1> SUFFICES ASSUME WatchTyped, Causes, [Next]_vars PROVE Causes'
  OBVIOUS
<1>0. {ctx, stream, expired} \subseteq BOOLEAN
  BY DEF WatchTyped, TypeOK
<1> USE <1>0 DEF Causes, Judged
<1>1. CASE Start
  BY <1>1 DEF Start
<1>2. CASE ReadEnds \/ Send
  BY <1>2 DEF ReadEnds, Send, GivesUp
<1>3. CASE Judge
  BY <1>3 DEF Judge, Verdict
<1>4. CASE Signal \/ Finish \/ Check \/ Tell \/ CloseErrors \/ CloseData \/ ReadItem
  BY <1>4 DEF Signal, Finish, Check, Tell, CloseErrors, CloseData, ReadItem
<1>5. CASE Alive \/ Expire \/ Kill \/ DogEnds
  BY <1>5 DEF Alive, Expire, Kill, DogEnds
<1>6. CASE CoreEnds
  BY <1>6 DEF CoreEnds
<1>7. CASE Receive \/ StopReading \/ Cancel \/ Tick
  BY <1>7 DEF Receive, StopReading, Cancel, Tick
<1>8. CASE UNCHANGED vars
  BY <1>8 DEF vars
<1> QED
  BY <1>1, <1>2, <1>3, <1>4, <1>5, <1>6, <1>7, <1>8 DEF Next, Streaming, Watching

(* Told: the error channel carries the result, once it is reported.        *)
LEMMA ToldStep == WatchTyped /\ Causes /\ Told /\ [Next]_vars => Told'
<1> SUFFICES ASSUME WatchTyped, Causes, Told, [Next]_vars PROVE Told'
  OBVIOUS
<1>0. errorsCh \in [items : Failures \cup {"none"}, closed : BOOLEAN]
  BY DEF WatchTyped, TypeOK
<1> USE <1>0 DEF Told, Reported
<1>1. CASE Start \/ Check \/ Tell \/ CloseErrors
  BY <1>1 DEF Start, Check, Wanted, Tell, CloseErrors, Causes, Judged
<1>2. CASE ReadEnds \/ Signal \/ Send \/ Finish \/ Judge \/ CloseData \/ ReadItem
  BY <1>2 DEF ReadEnds, Signal, Send, Finish, Judge, CloseData, ReadItem
<1>3. CASE Alive \/ Expire \/ Kill \/ DogEnds
  BY <1>3 DEF Alive, Expire, Kill, DogEnds
<1>4. CASE CoreEnds \/ Receive \/ StopReading \/ Cancel \/ Tick
  BY <1>4 DEF CoreEnds, Receive, StopReading, Cancel, Tick
<1>5. CASE UNCHANGED vars
  BY <1>5 DEF vars
<1> QED
  BY <1>1, <1>2, <1>3, <1>4, <1>5 DEF Next, Streaming, Watching
-----------------------------------------------------------------------------
LEMMA WatchInvHolds == Spec => []WatchInv
<1>1. WatchInv /\ [Next]_vars => WatchInv'
  BY WatchTypesStep, TimingStep, SilentStep, CausesStep, ToldStep DEF WatchInv
<1> QED  BY WatchInitInv, <1>1, PTL DEF Spec

(* The types, and that every item the core sent was taken, waits or is the *)
(* one in hand (runtime.go:464).                                           *)
THEOREM WatchTypes == Spec => []TypeOK
<1>1. WatchInv => TypeOK
  BY DEF WatchInv, WatchTyped
<1> QED  BY <1>1, WatchInvHolds, PTL

(* No stream is called silent before its time passed without a sample,     *)
(* whatever the timeout, the channel and the reader (runtime.go:472).      *)
THEOREM SilenceIsReal == Spec => []NoFalseAlarm
<1>1. WatchInv => NoFalseAlarm
  BY DEF WatchInv, Silent, NoFalseAlarm
<1> QED  BY <1>1, WatchInvHolds, PTL

(* The reader is told the true reason (runtime.go:477).                    *)
THEOREM ReasonIsRight == Spec => []RightError
<1>1. WatchInv => RightError
  <2> SUFFICES ASSUME WatchInv PROVE RightError
    OBVIOUS
  <2>1. errorsCh.items = "cancelled" => FALSE
    BY DEF WatchInv, Told
  <2>2. errorsCh.items = "broken" => core = "broken"
    BY DEF WatchInv, Causes, Told
  <2>3. Closed /\ errorsCh.items = "none" => ctx \/ core = "eof"
    BY DEF WatchInv, Causes, Told, Judged, Reported, Closed
  <2> QED  BY <2>1, <2>2, <2>3 DEF RightError
<1> QED  BY <1>1, WatchInvHolds, PTL

(* A reader that cancels before the goroutine looks hears nothing of the   *)
(* connection, however it ends (runtime.go:477); after that look only the  *)
(* error already judged is sent (runtime.go:479).                          *)
THEOREM CancelIsQuiet == Spec => CancelSilences
<1> DEFINE Silenced == ctx /\ Undecided
<1>1. WatchInv /\ Silenced /\ [Next]_vars => Silenced'
  <2> SUFFICES ASSUME WatchInv, Silenced, [Next]_vars PROVE Silenced'
    OBVIOUS
  <2> USE DEF Undecided
  <2>1. errorsCh \in [items : Failures \cup {"none"}, closed : BOOLEAN]
    BY DEF WatchInv, WatchTyped, TypeOK
  <2>2. CASE Start \/ Check \/ Tell \/ CloseErrors
    BY <2>1, <2>2 DEF Start, Check, Wanted, Tell, CloseErrors
  <2>3. CASE ReadEnds \/ Signal \/ Send \/ Finish \/ Judge \/ CloseData \/ ReadItem
    BY <2>3 DEF ReadEnds, Signal, Send, Finish, Judge, CloseData, ReadItem
  <2>4. CASE Alive \/ Expire \/ Kill \/ DogEnds
    BY <2>4 DEF Alive, Expire, Kill, DogEnds
  <2>5. CASE CoreEnds \/ Receive \/ StopReading \/ Cancel \/ Tick
    BY <2>5 DEF CoreEnds, Receive, StopReading, Cancel, Tick
  <2>6. CASE UNCHANGED vars
    BY <2>6 DEF vars
  <2> QED  BY <2>2, <2>3, <2>4, <2>5, <2>6 DEF Next, Streaming, Watching
<1>2. Silenced => errorsCh.items = "none"
  BY DEF Undecided
<1> HIDE DEF Silenced
<1>3. Spec => [](Silenced => [](errorsCh.items = "none"))
  BY <1>1, <1>2, WatchInvHolds, PTL DEF Spec
<1> QED  BY <1>3 DEF CancelSilences, Silenced
-----------------------------------------------------------------------------
RequestTypes == lines \in Seq(Line) /\ starts \in Nat

(* Until the command was begun the request is somewhere before its answer. *)
Where ==
  /\ sudo \in {"none", "asking", "prompting", "running", "exited", "killed"}
  /\ sudo \in {"asking", "prompting"} => phase = "wait"
  /\ phase \in {"ask", "spawn"} => sudo = "none"
  /\ sudo \in {"none", "asking", "prompting"} => starts = 0
  /\ sudo = "running" => starts # 0
  /\ starts = 0 => child = "none"
  /\ sudo = "exited" /\ starts # 0 => child \in Outcomes
  /\ starts <= 1

Cause ==
  /\ told => context
  /\ phase = "judge" => sudo = "exited" \/ context

(* A begun command has sudo's word for wrong passwords before it and at    *)
(* most its own line behind it; without one, sudo said why.                *)
OnlyWrong == \A i \in DOMAIN lines : lines[i].word = "wrong"

Text ==
  /\ sudo \in {"none", "asking", "prompting", "running"} => OnlyWrong
  /\ starts # 0 => OnlyWrong \/ ChildSpoke
  /\ starts = 0 => \A i \in DOMAIN lines : lines[i].by = "sudo"
  /\ sudo = "exited" /\ starts = 0 => context \/ lines # <<>>

RequestInv == RequestTypes /\ Where /\ Cause /\ Text /\ Honest

USE DEF caller
-----------------------------------------------------------------------------
LEMMA AppendLine ==
  ASSUME NEW s \in Seq(Line), NEW l \in Line
  PROVE  /\ Append(s, l) \in Seq(Line) /\ Append(s, l) # <<>>
         /\ DOMAIN Append(s, l) = 1..Len(s) + 1
         /\ Append(s, l)[Len(Append(s, l))] = l
         /\ \A i \in DOMAIN s : Append(s, l)[i] = s[i]
         /\ \A i \in DOMAIN Append(s, l) : Append(s, l)[i] = l \/ i \in DOMAIN s
  BY AppendProperties

LEMMA RequestInitInv == RequestInit => RequestInv
  BY DEF RequestInit, RequestInv, RequestTypes, Where, Cause, Text, OnlyWrong, Honest

(* What a line of sudo adds, and a line of the command.                    *)
LEMMA ExitsLine ==
  ASSUME RequestTypes, NEW word \in Words, Exits(word)
  PROVE  /\ lines' \in Seq(Line) /\ lines' # <<>>
         /\ (\A i \in DOMAIN lines : lines[i].by = "sudo")
              => \A i \in DOMAIN lines' : lines'[i].by = "sudo"
<1> DEFINE l == [by |-> "sudo", word |-> word]
<1>1. l \in Line /\ l.by = "sudo" /\ lines' = Append(lines, l)
  BY DEF Exits, Line
<1> HIDE DEF l
<1> QED  BY <1>1, AppendLine DEF RequestTypes

LEMMA RequestTypesStep == RequestTypes /\ [RequestNext]_request => RequestTypes'
<1> SUFFICES ASSUME RequestTypes, [RequestNext]_request PROVE RequestTypes'
  OBVIOUS
<1> USE DEF RequestTypes
<1>1. CASE Refuses
  BY <1>1, ExitsLine DEF Refuses, Exits, Words
<1>2. CASE Mistypes
  <2>1. CASE Exits("wrong")
    BY <2>1, ExitsLine DEF Exits, Words
  <2>2. CASE ~Exits("wrong")
    <3>1. [by |-> "sudo", word |-> "wrong"] \in Line
      BY DEF Line, Words
    <3> QED  BY <1>2, <2>2, <3>1, AppendLine DEF Mistypes
  <2> QED  BY <2>1, <2>2
<1>3. CASE LeavesPrompt
  BY <1>3, ExitsLine DEF LeavesPrompt, Exits, Words
<1>4. CASE ChildEnds
  <2>1. \A word \in Words : [by |-> "child", word |-> word] \in Line
    BY DEF Line
  <2> QED  BY <1>4, <2>1, AppendLine DEF ChildEnds
<1>5. CASE Retry \/ Runs
  <2>1. CASE Retry
    BY <2>1, EmptySeq DEF Retry
  <2>2. CASE Runs
    BY <2>2 DEF Runs
  <2> QED  BY <1>5, <2>1, <2>2
<1>6. CASE Preflight \/ Spawn \/ Interrupt \/ KillSudo \/ Wait \/ JudgeEnd \/ CancelRequest \/ Prompts
  BY <1>6 DEF Preflight, Spawn, Interrupt, KillSudo, Wait, JudgeEnd, CancelRequest, Prompts
<1>7. CASE UNCHANGED request
  BY <1>7 DEF request
<1> QED  BY <1>1, <1>2, <1>3, <1>4, <1>5, <1>6, <1>7 DEF RequestNext

LEMMA WhereStep == RequestInv /\ [RequestNext]_request => Where'
<1> SUFFICES ASSUME RequestInv, [RequestNext]_request PROVE Where'
  OBVIOUS
<1>0. RequestTypes /\ Where /\ Cause /\ Honest
  BY DEF RequestInv
<1> USE <1>0 DEF Where, RequestTypes
<1>1. CASE Preflight \/ Spawn \/ Wait \/ JudgeEnd \/ CancelRequest
  BY <1>1 DEF Preflight, Spawn, Wait, JudgeEnd, CancelRequest
<1>2. CASE Interrupt
  BY <1>2 DEF Interrupt
<1>3. CASE KillSudo
  BY <1>3 DEF KillSudo, Killed
<1>4. CASE Retry
  BY <1>4 DEF Retry, Honest
<1>5. CASE Refuses \/ Prompts \/ Mistypes \/ LeavesPrompt
  BY <1>5 DEF Refuses, Prompts, Mistypes, LeavesPrompt, Exits
<1>6. CASE Runs
  BY <1>6 DEF Runs
<1>7. CASE ChildEnds
  BY <1>7 DEF ChildEnds, Outcomes
<1>8. CASE UNCHANGED request
  BY <1>8 DEF request
<1> QED  BY <1>1, <1>2, <1>3, <1>4, <1>5, <1>6, <1>7, <1>8 DEF RequestNext

LEMMA CauseStep == RequestInv /\ [RequestNext]_request => Cause'
<1> SUFFICES ASSUME RequestInv, [RequestNext]_request PROVE Cause'
  OBVIOUS
<1>0. Where /\ Cause
  BY DEF RequestInv
<1> USE <1>0 DEF Cause
<1>1. CASE Preflight \/ Spawn \/ Interrupt \/ Wait \/ JudgeEnd \/ CancelRequest
  BY <1>1 DEF Preflight, Spawn, Interrupt, Wait, JudgeEnd, CancelRequest
<1>2. CASE KillSudo
  BY <1>2 DEF KillSudo
<1>3. CASE Retry
  BY <1>3 DEF Retry
<1>4. CASE Refuses \/ Prompts \/ Mistypes \/ LeavesPrompt \/ Runs \/ ChildEnds
  <2>1. phase' = phase /\ told' = told /\ context' = context
    BY <1>4 DEF Refuses, Prompts, Mistypes, LeavesPrompt, Exits, Runs, ChildEnds
  <2>2. phase = "judge" /\ sudo = "exited" => sudo' = "exited"
    BY <1>4 DEF Where, Refuses, Prompts, Mistypes, LeavesPrompt, Exits, Runs, ChildEnds
  <2> QED  BY <2>1, <2>2
<1>5. CASE UNCHANGED request
  BY <1>5 DEF request
<1> QED  BY <1>1, <1>2, <1>3, <1>4, <1>5 DEF RequestNext

LEMMA TextStep == RequestInv /\ [RequestNext]_request => Text'
<1> SUFFICES ASSUME RequestInv, [RequestNext]_request PROVE Text'
  OBVIOUS
<1>0. RequestTypes /\ Where /\ Text /\ Cause
  BY DEF RequestInv
<1> USE DEF Text, OnlyWrong
<1>1. CASE Preflight \/ Spawn \/ Interrupt \/ KillSudo \/ Wait \/ JudgeEnd \/ CancelRequest \/ Prompts
  BY <1>0, <1>1 DEF Where, Preflight, Spawn, Interrupt, KillSudo, Killed, Wait, JudgeEnd,
     CancelRequest, Prompts, ChildSpoke
<1>2. CASE Retry
  BY <1>2 DEF Retry
<1>3. ASSUME NEW word \in Words, Exits(word), sudo \in {"asking", "prompting"}
      PROVE  Text'
  BY <1>0, <1>3, ExitsLine DEF Where, Exits
<1>4. CASE Refuses
  BY <1>3, <1>4 DEF Refuses, Words
<1>5. CASE Mistypes
  <2>1. CASE Exits("wrong")
    BY <1>3, <1>5, <2>1 DEF Mistypes, Words
  <2>2. CASE ~Exits("wrong")
    <3> DEFINE l == [by |-> "sudo", word |-> "wrong"]
    <3>1. l \in Line /\ l.by = "sudo" /\ l.word = "wrong"
      BY DEF Line, Words
    <3>2. lines' = Append(lines, l) /\ sudo' = sudo /\ starts' = starts /\ starts = 0
          /\ sudo = "prompting"
      BY <1>0, <1>5, <2>2 DEF Mistypes, Where
    <3> HIDE DEF l
    <3> QED  BY <1>0, <3>1, <3>2, AppendLine DEF RequestTypes
  <2> QED  BY <2>1, <2>2
<1>6. CASE LeavesPrompt
  BY <1>3, <1>6 DEF LeavesPrompt, Words
<1>7. CASE Runs
  BY <1>0, <1>7 DEF Where, Runs, RequestTypes
<1>8. CASE ChildEnds
  <2>1. starts # 0 /\ starts' = starts
    BY <1>0, <1>8 DEF Where, ChildEnds
  <2>2. CASE lines' = lines
    BY <1>0, <1>8, <2>1, <2>2 DEF Where, ChildEnds, ChildSpoke
  <2>3. CASE lines' # lines
    <3>1. PICK word \in Words : lines' = Append(lines, [by |-> "child", word |-> word])
      BY <1>8, <2>3 DEF ChildEnds
    <3> DEFINE l == [by |-> "child", word |-> word]
    <3>2. l \in Line /\ l.by = "child" /\ lines' = Append(lines, l)
      BY <3>1 DEF Line
    <3>3. sudo' = "exited"
      BY <1>8, <2>3 DEF ChildEnds
    <3> HIDE DEF l
    <3>4. ChildSpoke'
      BY <1>0, <3>2, AppendLine DEF RequestTypes, ChildSpoke
    <3> QED  BY <2>1, <3>3, <3>4
  <2> QED  BY <2>2, <2>3
<1>9. CASE UNCHANGED request
  BY <1>0, <1>9 DEF request, ChildSpoke
<1> QED
  BY <1>1, <1>2, <1>4, <1>5, <1>6, <1>7, <1>8, <1>9 DEF RequestNext

(* The verdict: what the text and the exit status can mean.                *)
LEMMA JudgeHonest == RequestInv /\ JudgeEnd => Honest'
<1> SUFFICES ASSUME RequestInv, JudgeEnd PROVE Honest'
  OBVIOUS
<1>0. RequestTypes /\ Where /\ Cause /\ Text
  BY DEF RequestInv
<1>1. /\ answer' = Answer /\ child' = child /\ starts' = starts /\ phase = "judge"
  BY DEF JudgeEnd
<1>2. SudoFailure \in {"denied", "terminal", "auth", "authFailed", "unknown"}
  BY DEF SudoFailure
<1>3. CASE Succeeded
  BY <1>1, <1>3 DEF Answer, Success, Succeeded, Honest, Refused
<1>4. CASE ~Succeeded /\ context
  BY <1>1, <1>4 DEF Answer, Honest, Refused
<1>5. CASE ~Succeeded /\ ~context /\ ~ChildSpoke /\ SudoSpoke
  <2>1. starts # 0 => SudoFailure \in {"authFailed", "unknown"}
    BY <1>0, <1>5 DEF Text, OnlyWrong, SudoFailure, Says
  <2> QED  BY <1>1, <1>2, <1>5, <2>1 DEF Answer, Honest, Refused
<1>6. CASE ~Succeeded /\ ~context /\ ~(~ChildSpoke /\ SudoSpoke)
  <2>1. sudo = "exited" /\ ~told
    BY <1>0, <1>1, <1>6 DEF Cause
  <2>2. starts # 0
    <3>1. SUFFICES ASSUME starts = 0 PROVE FALSE
      OBVIOUS
    <3>2. lines \in Seq(Line) /\ lines # <<>>
      BY <1>0, <1>6, <2>1, <3>1 DEF Text, RequestTypes
    <3>3. 1 \in DOMAIN lines /\ Len(lines) \in DOMAIN lines
      BY <3>2
    <3>4. lines[1].by = "sudo" /\ lines[Len(lines)].by = "sudo"
      BY <1>0, <3>1, <3>3 DEF Text
    <3> QED  BY <1>6, <3>2, <3>4 DEF ChildSpoke, SudoSpoke
  <2>3. starts = 1 /\ child \in {"failed", "died"}
    BY <1>0, <1>6, <2>1, <2>2 DEF Where, RequestTypes, Outcomes, Succeeded
  <2> QED  BY <1>1, <1>6, <2>3 DEF Answer, Honest, Refused
<1> QED  BY <1>3, <1>4, <1>5, <1>6

LEMMA HonestStep == RequestInv /\ [RequestNext]_request => Honest'
<1> SUFFICES ASSUME RequestInv, [RequestNext]_request PROVE Honest'
  OBVIOUS
<1>0. Where /\ Honest
  BY DEF RequestInv
<1>1. CASE JudgeEnd
  BY <1>1, JudgeHonest
<1>2. CASE Preflight \/ Spawn
  BY <1>0, <1>2 DEF Where, Honest, Preflight, Spawn, Refused
<1>3. CASE Interrupt \/ KillSudo \/ Wait \/ Retry
  BY <1>3 DEF Honest, Interrupt, KillSudo, Wait, Retry
<1>4. CASE CancelRequest \/ Refuses \/ Prompts \/ Mistypes \/ LeavesPrompt
  BY <1>0, <1>4 DEF Honest, CancelRequest, Refuses, Prompts, Mistypes, LeavesPrompt, Exits
<1>5. CASE Runs
  BY <1>0, <1>5 DEF Where, Honest, Runs
<1>6. CASE ChildEnds
  BY <1>0, <1>6 DEF Where, Honest, ChildEnds
<1>7. CASE UNCHANGED request
  BY <1>0, <1>7 DEF Honest, request
<1> QED  BY <1>1, <1>2, <1>3, <1>4, <1>5, <1>6, <1>7 DEF RequestNext
-----------------------------------------------------------------------------
LEMMA RequestInvHolds == RequestSpec => []RequestInv
<1>1. RequestInv /\ [RequestNext]_request => RequestInv'
  BY RequestTypesStep, WhereStep, CauseStep, TextStep, HonestStep DEF RequestInv
<1> QED  BY RequestInitInv, <1>1, PTL DEF RequestSpec

(* A request is begun at most once, whatever the elevated command writes   *)
(* and whenever it is cancelled (privilege.go:79).                         *)
THEOREM BegunOnce == RequestSpec => []PerformedOnce
<1>1. RequestInv => PerformedOnce
  BY DEF RequestInv, Where, PerformedOnce
<1> QED  BY <1>1, RequestInvHolds, PTL

(* The answer is what happened (privilege.go:282).                         *)
THEOREM AnswersAreTrue == RequestSpec => []Honest
<1>1. RequestInv => Honest
  BY DEF RequestInv
<1> QED  BY <1>1, RequestInvHolds, PTL

(* After the answer nothing is begun (privilege.go:113).                   *)
THEOREM AnswerIsLast == RequestSpec => NothingLater
<1>1. RequestInv /\ [RequestNext]_request => [phase = "answered" => starts' = starts]_request
  BY DEF RequestInv, Where, RequestNext, request, Preflight, Spawn, Interrupt, KillSudo, Wait, JudgeEnd,
     Retry, CancelRequest, Refuses, Prompts, Mistypes, LeavesPrompt, Exits, Runs, ChildEnds
<1> QED  BY <1>1, RequestInvHolds, PTL DEF RequestSpec, NothingLater

-----------------------------------------------------------------------------
(* Status.  What its variables hold.                                       *)
Stored == [settings : CoreStatus!Bit, active : CoreStatus!Profiles,
           doc : [CoreStatus!Profiles -> CoreStatus!Bit],
           controller : CoreStatus!Controllers, file : CoreStatus!Config]
Versions == [controller : CoreStatus!Controllers \cup {CoreStatus!None}, build : CoreStatus!Bit]
Settings == [m : Int, d : Int]
Reading == {"idle", "public", "memory", "store", "stored", "api", "fetch", "cache", "done"}
Asking == [pc : Reading, calm : BOOLEAN, up : BOOLEAN, avail : BOOLEAN,
           settings : CoreStatus!Bit,
           active : CoreStatus!Profiles \cup {CoreStatus!None},
           config : Settings, expected : Settings, api : Nat,
           controller : CoreStatus!Controllers \cup {CoreStatus!None},
           cached : Versions, version : Versions, live : Settings,
           asked : SUBSET {"version", "config"}, drift : BOOLEAN]

StatusTypes ==
  /\ disk \in Stored
  /\ public \in [config : CoreStatus!Config, active : CoreStatus!Profiles]
  /\ running \in [up : BOOLEAN, config : CoreStatus!Config, build : CoreStatus!Bit,
                  controller : CoreStatus!Controllers]
  /\ \/ op = [kind |-> CoreStatus!None]
     \/ op \in [kind : CoreStatus!Kinds, mine : BOOLEAN, goal : Stored,
                todo : SUBSET {"apply", "write"}]
  /\ mem \in [settings : CoreStatus!Bit, controller : CoreStatus!Controllers, api : Nat,
              version : Versions]
  /\ req \in Asking /\ root \in BOOLEAN /\ killed \in BOOLEAN

LEMMA Nothings ==
  /\ CoreStatus!NoVersion \in Versions /\ CoreStatus!NoConfig \in Settings
  /\ CoreStatus!Config \subseteq Settings /\ CoreStatus!Blank \in Asking
<1>1. CoreStatus!NoVersion \in Versions
  BY DEF CoreStatus!NoVersion, CoreStatus!None, CoreStatus!Bit, Versions
<1>2. CoreStatus!NoConfig \in Settings
  BY DEF CoreStatus!NoConfig, Settings
<1>3. CoreStatus!Config \subseteq Settings
  BY DEF CoreStatus!Config, CoreStatus!Bit, Settings
<1>4. CoreStatus!Blank \in Asking
  BY <1>1, <1>2 DEF CoreStatus!Blank, CoreStatus!None, CoreStatus!Bit, Asking, Reading
<1>5. QED
  BY <1>1, <1>2, <1>3, <1>4

LEMMA Goals ==
  ASSUME disk \in Stored, NEW kind \in CoreStatus!Kinds
  PROVE  CoreStatus!Goal(kind) \in Stored
<1>1. /\ CoreStatus!Other(disk.active, CoreStatus!Profiles) \in CoreStatus!Profiles
      /\ CoreStatus!Other(disk.controller, CoreStatus!Controllers) \in CoreStatus!Controllers
  <2>1. (\E y \in {"a", "b"} : y # disk.active) /\ (\E y \in {"c", "d"} : y # disk.controller)
    BY "a" # "b", "c" # "d"
  <2>2. QED
    BY <2>1 DEF CoreStatus!Other, CoreStatus!Profiles, CoreStatus!Controllers
<1>2. 1 - disk.settings \in CoreStatus!Bit
  BY DEF Stored, CoreStatus!Bit
<1>3. disk.doc \in [CoreStatus!Profiles -> CoreStatus!Bit] /\ disk.active \in CoreStatus!Profiles
  BY DEF Stored
<1>4. 1 - disk.doc[disk.active] \in CoreStatus!Bit
  BY <1>3 DEF CoreStatus!Bit
<1>5. [disk.doc EXCEPT ![disk.active] = 1 - @] \in [CoreStatus!Profiles -> CoreStatus!Bit]
  BY <1>3, <1>4
<1>6. CASE kind = "set"
  BY <1>2, <1>6 DEF CoreStatus!Goal, Stored
<1>7. CASE kind = "use"
  BY <1>1, <1>7 DEF CoreStatus!Goal, Stored
<1>8. CASE kind = "update"
  BY <1>5, <1>8 DEF CoreStatus!Goal, Stored
<1>9. CASE kind = "init"
  BY <1>1, <1>9 DEF CoreStatus!Goal, Stored
<1>10. QED
  BY <1>6, <1>7, <1>8, <1>9 DEF CoreStatus!Kinds

Operations == \/ \E kind \in CoreStatus!Kinds, mine \in BOOLEAN : CoreStatus!BeginOp(kind, mine)
              \/ CoreStatus!Apply \/ CoreStatus!Write \/ CoreStatus!Publish \/ CoreStatus!Kill
              \/ CoreStatus!Restart \/ CoreStatus!Patch

(* A configuration made of one profile's document.                         *)
LEMMA EffectiveType ==
  ASSUME NEW d \in Stored
  PROVE  CoreStatus!Effective(d) \in CoreStatus!Config
<1>1. d.doc[d.active] \in CoreStatus!Bit
  BY DEF Stored
<1>2. QED
  BY <1>1 DEF Stored, CoreStatus!Effective, CoreStatus!Config

(* A rebuilt client has settings and an address of what it was built from. *)
LEMMA Rebuilds ==
  ASSUME StatusTypes, NEW d \in Stored
  PROVE  /\ CoreStatus!Rebuilt(d) \in [settings : CoreStatus!Bit,
              controller : CoreStatus!Controllers, api : Nat, version : Versions]
         /\ CoreStatus!Rebuilt(d).api = mem.api + 1
         /\ CoreStatus!Rebuilt(d).version = CoreStatus!NoVersion
<1>1. /\ d.settings \in CoreStatus!Bit /\ d.controller \in CoreStatus!Controllers
      /\ mem \in [settings : CoreStatus!Bit, controller : CoreStatus!Controllers,
                  api : Nat, version : Versions]
  BY DEF Stored, StatusTypes
<1>2. CoreStatus!NoVersion \in Versions
  BY Nothings
<1>3. CoreStatus!Rebuilt(d) =
        [mem EXCEPT !.settings = d.settings, !.controller = d.controller, !.api = @ + 1,
                    !.version = CoreStatus!NoVersion]
  BY DEF CoreStatus!Rebuilt
<1>4. CoreStatus!Rebuilt(d).api = mem.api + 1
  BY <1>1, <1>3
<1>5. mem.api + 1 \in Nat
  BY <1>1
<1>6. CoreStatus!Rebuilt(d).version = CoreStatus!NoVersion
  BY <1>1, <1>3
<1>7. CoreStatus!Rebuilt(d) \in [settings : CoreStatus!Bit,
        controller : CoreStatus!Controllers, api : Nat, version : Versions]
  BY <1>1, <1>2, <1>3, <1>5
<1>8. QED
  BY <1>4, <1>6, <1>7

LEMMA OperationTypes ==
  ASSUME StatusTypes, Operations
  PROVE  StatusTypes'
<1> USE DEF CoreStatus!Disturb
<1>1. /\ req' = [req EXCEPT !.calm = FALSE] /\ root' = root
  BY DEF Operations, CoreStatus!BeginOp, CoreStatus!Apply, CoreStatus!Write, CoreStatus!Publish,
         CoreStatus!Kill, CoreStatus!Restart, CoreStatus!Patch
<1>2. req' \in Asking
  BY <1>1 DEF StatusTypes, Asking
<1>3. \A d \in Stored : CoreStatus!Rebuilt(d)
        \in [settings : CoreStatus!Bit, controller : CoreStatus!Controllers, api : Nat,
             version : Versions]
  BY Rebuilds DEF StatusTypes
<1>4. CASE \E kind \in CoreStatus!Kinds, mine \in BOOLEAN : CoreStatus!BeginOp(kind, mine)
  <2>1. PICK kind \in CoreStatus!Kinds, mine \in BOOLEAN : CoreStatus!BeginOp(kind, mine)
    BY <1>4
  <2>2. op' \in [kind : CoreStatus!Kinds, mine : BOOLEAN, goal : Stored,
                 todo : SUBSET {"apply", "write"}]
    BY <2>1, Goals DEF StatusTypes, CoreStatus!BeginOp
  <2>3. QED
    BY <1>1, <1>2, <1>3, <2>1, <2>2 DEF StatusTypes, CoreStatus!BeginOp
<1>5. CASE CoreStatus!Apply
  <2>1. /\ op \in [kind : CoreStatus!Kinds, mine : BOOLEAN, goal : Stored,
                   todo : SUBSET {"apply", "write"}]
    BY <1>5 DEF StatusTypes, CoreStatus!Apply
  <2>2. /\ CoreStatus!Effective(op.goal) \in CoreStatus!Config
        /\ op.goal.controller \in CoreStatus!Controllers
    BY <2>1, EffectiveType DEF Stored
  <2>3. disk' \in Stored
    BY <1>5, <2>2 DEF StatusTypes, Stored, CoreStatus!Apply
  <2>4. running' \in [up : BOOLEAN, config : CoreStatus!Config, build : CoreStatus!Bit,
                      controller : CoreStatus!Controllers]
    BY <1>5, <2>2 DEF StatusTypes, CoreStatus!Apply
  <2>5. op' \in [kind : CoreStatus!Kinds, mine : BOOLEAN, goal : Stored,
                 todo : SUBSET {"apply", "write"}]
    BY <1>5, <2>1 DEF CoreStatus!Apply
  <2>6. QED
    BY <1>1, <1>2, <1>5, <2>3, <2>4, <2>5 DEF StatusTypes, CoreStatus!Apply
<1>6. CASE CoreStatus!Write
  <2>1. /\ op \in [kind : CoreStatus!Kinds, mine : BOOLEAN, goal : Stored,
                   todo : SUBSET {"apply", "write"}]
    BY <1>6 DEF StatusTypes, CoreStatus!Write
  <2>2. disk' \in Stored
    BY <1>6, <2>1 DEF StatusTypes, Stored, CoreStatus!Write
  <2>3. op' \in [kind : CoreStatus!Kinds, mine : BOOLEAN, goal : Stored,
                 todo : SUBSET {"apply", "write"}]
    BY <1>6, <2>1 DEF CoreStatus!Write
  <2>4. mem' \in [settings : CoreStatus!Bit, controller : CoreStatus!Controllers, api : Nat,
                  version : Versions]
    <3>1. mem' = mem \/ mem' = CoreStatus!Rebuilt(disk')
      BY <1>6 DEF CoreStatus!Write
    <3>2. QED
      BY <1>3, <2>2, <3>1 DEF StatusTypes
  <2>5. QED
    BY <1>1, <1>2, <1>6, <2>2, <2>3, <2>4 DEF StatusTypes, CoreStatus!Write
<1>7. CASE CoreStatus!Publish \/ CoreStatus!Kill
  <2>1. /\ op' = [kind |-> CoreStatus!None] /\ killed' \in BOOLEAN
        /\ disk' = disk /\ running' = running /\ mem' = mem
        /\ public' = public \/ public' = [config |-> disk.file, active |-> disk.active]
    BY <1>7 DEF StatusTypes, CoreStatus!Publish, CoreStatus!Published, CoreStatus!Kill
  <2>2. public' \in [config : CoreStatus!Config, active : CoreStatus!Profiles]
    BY <2>1 DEF StatusTypes, Stored
  <2>3. QED
    BY <1>1, <1>2, <2>1, <2>2 DEF StatusTypes
<1>8. CASE CoreStatus!Restart \/ CoreStatus!Patch
  <2>1. running' \in [up : BOOLEAN, config : CoreStatus!Config, build : CoreStatus!Bit,
                      controller : CoreStatus!Controllers]
    <3>1. CASE CoreStatus!Restart
      BY <3>1 DEF StatusTypes, Stored, CoreStatus!Restart
    <3>2. CASE CoreStatus!Patch
      <4>1. 1 - running.config.m \in CoreStatus!Bit
        BY DEF StatusTypes, CoreStatus!Config, CoreStatus!Bit
      <4>2. [running.config EXCEPT !.m = 1 - @] \in CoreStatus!Config
        BY <4>1 DEF StatusTypes, CoreStatus!Config
      <4>3. QED
        BY <3>2, <4>2 DEF StatusTypes, CoreStatus!Patch
    <3>3. QED
      BY <1>8, <3>1, <3>2
  <2>2. QED
    BY <1>1, <1>2, <1>8, <2>1 DEF StatusTypes, CoreStatus!Restart, CoreStatus!Patch
<1>9. QED
  BY <1>4, <1>5, <1>6, <1>7, <1>8 DEF Operations

(* What the reads of one status do to it; nothing else changes but the     *)
(* version that is kept.                                                   *)
LEMMA ReadTypes ==
  ASSUME StatusTypes, CoreStatus!CoreStatus
  PROVE  StatusTypes'
<1> USE DEF CoreStatus!Step, CoreStatus!At, CoreStatus!None
<1>1. /\ disk' = disk /\ public' = public /\ running' = running /\ op' = op
      /\ root' = root /\ killed' = killed
  BY DEF CoreStatus!CoreStatus, CoreStatus!ReadService, CoreStatus!ReadPublic,
         CoreStatus!ReadMemory, CoreStatus!ReadStore, CoreStatus!ReadConfig, CoreStatus!Fail,
         CoreStatus!ReadClient, CoreStatus!Version, CoreStatus!Configs, CoreStatus!Merge,
         CoreStatus!Cache, CoreStatus!Return
<1>2. CASE CoreStatus!ReadService
  <2>1. PICK c \in BOOLEAN : c = (op.kind = CoreStatus!None)
    OBVIOUS
  <2>2. req' = [CoreStatus!Blank EXCEPT !.pc = "public", !.up = running.up, !.calm = c]
        /\ mem' = mem
    BY <1>2, <2>1 DEF CoreStatus!ReadService
  <2>3. req' \in Asking
    BY <2>2, Nothings DEF Asking, Reading, StatusTypes
  <2>4. QED
    BY <1>1, <2>2, <2>3 DEF StatusTypes
<1>3. CASE CoreStatus!ReadPublic
  <2>1. public.active \in CoreStatus!Profiles /\ public.config \in Settings
    BY Nothings DEF StatusTypes
  <2>2. req' \in Asking
    <3>1. CASE req' = [req EXCEPT !.pc = "memory", !.avail = TRUE,
                         !.active = public.active, !.config = public.config]
      BY <2>1, <3>1 DEF Asking, Reading, StatusTypes
    <3>2. CASE req' = [req EXCEPT !.pc = "memory"]
      BY <3>2 DEF Asking, Reading, StatusTypes
    <3>3. QED
      BY <1>3, <3>1, <3>2 DEF CoreStatus!ReadPublic
  <2>3. QED
    BY <1>1, <1>3, <2>2 DEF StatusTypes, CoreStatus!ReadPublic
<1>4. CASE CoreStatus!ReadMemory
  <2>1. req' \in Asking
    BY <1>4 DEF CoreStatus!ReadMemory, Asking, Reading, StatusTypes
  <2>2. QED
    BY <1>1, <1>4, <2>1 DEF StatusTypes, CoreStatus!ReadMemory
<1>5. CASE CoreStatus!ReadStore
  <2>1. /\ req \in Asking /\ disk.active \in CoreStatus!Profiles
        /\ req.settings \in Int
    BY DEF StatusTypes, Stored, Asking, CoreStatus!Bit
  <2>2. /\ [req.config EXCEPT !.m = req.settings] \in Settings
        /\ [req.expected EXCEPT !.m = req.settings] \in Settings
    BY <2>1 DEF Asking, Settings
  <2>3. req' \in Asking
    BY <1>5, <2>1, <2>2 DEF CoreStatus!ReadStore, CoreStatus!StoredActive, Asking, Reading
  <2>4. QED
    BY <1>1, <1>5, <2>3 DEF StatusTypes, CoreStatus!ReadStore
<1>6. CASE CoreStatus!ReadConfig
  <2> DEFINE c == [m |-> req.settings, d |-> disk.doc[disk.active]]
  <2>1. c \in Settings
    BY DEF StatusTypes, Stored, Asking, CoreStatus!Bit, Settings
  <2>2. req' = [req EXCEPT !.pc = "api", !.avail = TRUE, !.config = c, !.expected = c]
        /\ mem' = mem
    BY <1>6 DEF CoreStatus!ReadConfig
  <2> HIDE DEF c
  <2>3. req' \in Asking
    BY <2>1, <2>2 DEF Asking, Reading, StatusTypes
  <2>4. QED
    BY <1>1, <2>2, <2>3 DEF StatusTypes
<1>7. CASE CoreStatus!Fail
  <2>1. req' = [CoreStatus!Blank EXCEPT !.pc = "done"] /\ mem' = mem
    BY <1>7 DEF CoreStatus!Fail
  <2>2. req' \in Asking
    BY <2>1, Nothings DEF Asking, Reading
  <2>3. QED
    BY <1>1, <2>1, <2>2 DEF StatusTypes
<1>8. CASE CoreStatus!ReadClient
  <2>1. PICK cached \in {mem.version, CoreStatus!NoVersion} :
          req' = [req EXCEPT !.pc = IF req.up THEN "fetch" ELSE "done",
                    !.api = mem.api, !.controller = mem.controller,
                    !.cached = cached, !.version = cached,
                    !.asked = IF cached = CoreStatus!NoVersion THEN {"version", "config"} ELSE {"config"}]
    BY <1>8 DEF CoreStatus!ReadClient
  <2>2. cached \in Versions /\ mem' = mem
    BY <1>8, Nothings DEF StatusTypes, CoreStatus!ReadClient
  <2>3. req' \in Asking
    BY <2>1, <2>2 DEF Asking, Reading, StatusTypes
  <2>4. QED
    BY <1>1, <2>2, <2>3 DEF StatusTypes
<1>9. CASE CoreStatus!Version
  <2>1. [controller |-> running.controller, build |-> running.build] \in Versions
    BY DEF StatusTypes, Versions
  <2>2. req' \in Asking
    <3> DEFINE v == [controller |-> running.controller, build |-> running.build]
    <3>1. \/ req' = [req EXCEPT !.asked = @ \ {"version"}, !.version = v]
          \/ req' = [req EXCEPT !.asked = @ \ {"version"}]
      BY <1>9 DEF CoreStatus!Version
    <3>2. v \in Versions
      BY <2>1
    <3> HIDE DEF v
    <3>3. req.asked \ {"version"} \in SUBSET {"version", "config"}
      BY DEF StatusTypes, Asking
    <3>4. CASE req' = [req EXCEPT !.asked = @ \ {"version"}, !.version = v]
      BY <3>2, <3>3, <3>4 DEF Asking, StatusTypes
    <3>5. CASE req' = [req EXCEPT !.asked = @ \ {"version"}]
      BY <3>3, <3>5 DEF Asking, StatusTypes
    <3>6. QED
      BY <3>1, <3>4, <3>5
  <2>3. QED
    BY <1>1, <1>9, <2>2 DEF StatusTypes, CoreStatus!Version
<1>10. CASE CoreStatus!Configs
  <2>1. running.config \in Settings
    BY Nothings DEF StatusTypes
  <2>2. \/ req' = [req EXCEPT !.asked = @ \ {"config"}, !.live = running.config]
        \/ req' = [req EXCEPT !.asked = @ \ {"config"}]
    BY <1>10 DEF CoreStatus!Configs
  <2>3. req.asked \ {"config"} \in SUBSET {"version", "config"}
    BY DEF StatusTypes, Asking
  <2>4. req' \in Asking
    <3>1. CASE req' = [req EXCEPT !.asked = @ \ {"config"}, !.live = running.config]
      BY <2>1, <2>3, <3>1 DEF Asking, StatusTypes
    <3>2. CASE req' = [req EXCEPT !.asked = @ \ {"config"}]
      BY <2>3, <3>2 DEF Asking, StatusTypes
    <3>3. QED
      BY <2>2, <3>1, <3>2
  <2>5. QED
    BY <1>1, <1>10, <2>4 DEF StatusTypes, CoreStatus!Configs
<1>11. CASE CoreStatus!Merge
  <2>1. PICK d \in BOOLEAN :
          d = (req.avail /\ req.live # CoreStatus!NoConfig /\ req.live # req.expected)
    OBVIOUS
  <2>2. /\ req' = [req EXCEPT !.pc = "cache", !.drift = d,
                     !.config = IF req.live # CoreStatus!NoConfig THEN req.live ELSE @]
        /\ mem' = mem
    BY <1>11, <2>1 DEF CoreStatus!Merge
  <2>3. req' \in Asking
    BY <2>2 DEF Asking, Reading, StatusTypes
  <2>4. QED
    BY <1>1, <2>2, <2>3 DEF StatusTypes
<1>12. CASE CoreStatus!Cache
  <2>1. req' \in Asking
    BY <1>12, Nothings DEF CoreStatus!Cache, Asking, Reading, StatusTypes
  <2>2. mem' \in [settings : CoreStatus!Bit, controller : CoreStatus!Controllers, api : Nat,
                  version : Versions]
    BY <1>12 DEF CoreStatus!Cache, Asking, StatusTypes
  <2>3. QED
    BY <1>1, <2>1, <2>2 DEF StatusTypes
<1>13. CASE CoreStatus!Return
  BY <1>1, <1>13, Nothings DEF StatusTypes, CoreStatus!Return
<1>14. QED
  BY <1>2, <1>3, <1>4, <1>5, <1>6, <1>7, <1>8, <1>9, <1>10, <1>11, <1>12, <1>13
  DEF CoreStatus!CoreStatus

LEMMA NewTypes ==
  ASSUME StatusTypes, CoreStatus!NewProcess
  PROVE  StatusTypes'
<1>1. mem' \in [settings : CoreStatus!Bit, controller : CoreStatus!Controllers, api : Nat,
                version : Versions]
  BY Rebuilds DEF StatusTypes, CoreStatus!NewProcess
<1>2. QED
  BY <1>1, Nothings DEF StatusTypes, CoreStatus!NewProcess

LEMMA StatusTypesStep == StatusTypes /\ [CoreStatus!Next]_status => StatusTypes'
<1>1. CoreStatus!Next => CoreStatus!CoreStatus \/ Operations \/ CoreStatus!NewProcess
  BY DEF CoreStatus!Next, CoreStatus!Operation, Operations
<1>2. StatusTypes /\ UNCHANGED status => StatusTypes'
  BY DEF StatusTypes, status
<1>3. QED
  BY <1>1, <1>2, OperationTypes, ReadTypes, NewTypes

-----------------------------------------------------------------------------
(* The version that is kept is of the client's controller, and a status    *)
(* that asks has the client of now or an older one, which Cache refuses.   *)
Owner ==
  /\ mem.version # CoreStatus!NoVersion => mem.version.controller = mem.controller
  /\ req.pc \in {"fetch", "cache", "done"} /\ req.version # CoreStatus!NoVersion
       => req.version.controller = req.controller
  /\ req.pc \in {"fetch", "cache"} =>
       req.api <= mem.api /\ (req.api = mem.api => req.controller = mem.controller)

(* Operations and disturbances touch a status in one way only.             *)
LEMMA Disturbs ==
  ASSUME StatusTypes, Operations
  PROVE  /\ root' = root /\ req'.calm = FALSE
         /\ req'.pc = req.pc /\ req'.api = req.api /\ req'.controller = req.controller
         /\ req'.version = req.version /\ req'.live = req.live /\ req'.drift = req.drift
         /\ req'.avail = req.avail /\ req'.expected = req.expected
         /\ mem' = mem \/ \E d \in Stored : mem' = CoreStatus!Rebuilt(d)
<1>1. /\ req' = [req EXCEPT !.calm = FALSE] /\ root' = root
  BY DEF Operations, CoreStatus!BeginOp, CoreStatus!Apply, CoreStatus!Write, CoreStatus!Publish,
         CoreStatus!Kill, CoreStatus!Restart, CoreStatus!Patch, CoreStatus!Disturb
<1>2. disk \in Stored /\ disk' \in Stored
  BY OperationTypes DEF StatusTypes
<1>3. mem' = mem \/ mem' = CoreStatus!Rebuilt(disk) \/ mem' = CoreStatus!Rebuilt(disk')
  BY DEF Operations, CoreStatus!BeginOp, CoreStatus!Apply, CoreStatus!Write, CoreStatus!Publish,
         CoreStatus!Kill, CoreStatus!Restart, CoreStatus!Patch
<1>4. QED
  BY <1>1, <1>2, <1>3 DEF StatusTypes, Asking

(* What each read notes, field by field.                                   *)
LEMMA First ==
  ASSUME StatusTypes, CoreStatus!ReadService
  PROVE  req'.pc = "public" /\ req'.calm = (op.kind = CoreStatus!None)
         /\ req'.live = CoreStatus!NoConfig /\ req'.avail = FALSE
<1>1. req' = [CoreStatus!Blank EXCEPT !.pc = "public", !.up = running.up,
                !.calm = op.kind = CoreStatus!None]
  BY DEF CoreStatus!ReadService
<1>2. PICK c \in BOOLEAN : c = (op.kind = CoreStatus!None)
  OBVIOUS
<1>3. req' = [CoreStatus!Blank EXCEPT !.pc = "public", !.up = running.up, !.calm = c]
  BY <1>1, <1>2
<1>4. req'.calm = c /\ req'.pc = "public" /\ req'.live = CoreStatus!NoConfig
      /\ req'.avail = FALSE
  BY <1>3 DEF CoreStatus!Blank
<1>5. QED
  BY <1>2, <1>4

LEMMA Second ==
  ASSUME StatusTypes, CoreStatus!ReadPublic
  PROVE  /\ req.pc = "public" /\ req'.pc = "memory" /\ req'.calm = req.calm
         /\ req'.live = req.live
         /\ \/ req'.avail = req.avail
            \/ req'.avail /\ req'.active = public.active /\ req'.config = public.config
<1>1. CASE req' = [req EXCEPT !.pc = "memory", !.avail = TRUE,
                     !.active = public.active, !.config = public.config]
  BY <1>1 DEF CoreStatus!ReadPublic, CoreStatus!At, StatusTypes, Asking
<1>2. CASE req' = [req EXCEPT !.pc = "memory"]
  BY <1>2 DEF CoreStatus!ReadPublic, CoreStatus!At, StatusTypes, Asking
<1>3. QED
  BY <1>1, <1>2 DEF CoreStatus!ReadPublic

LEMMA Third ==
  ASSUME StatusTypes, CoreStatus!ReadMemory
  PROVE  /\ req.pc = "memory" /\ req'.pc = IF root THEN "store" ELSE "api"
         /\ req'.calm = req.calm /\ req'.live = req.live /\ req'.avail = req.avail
         /\ req'.active = req.active /\ req'.config = req.config
         /\ req'.settings = mem.settings /\ req'.expected = req.config
BY DEF CoreStatus!ReadMemory, CoreStatus!At, StatusTypes, Asking

LEMMA Fourth ==
  ASSUME StatusTypes, CoreStatus!ReadStore
  PROVE  /\ req.pc = "store" /\ req'.calm = req.calm /\ req'.live = req.live
         /\ req'.avail = req.avail /\ req'.settings = req.settings
         /\ req'.active = disk.active
         /\ \/ req'.pc = "api" /\ req.avail
                 /\ req'.expected = [m |-> req.settings, d |-> req.expected.d]
            \/ req'.pc = "stored"
<1>1. req \in Asking /\ req.pc = "store"
  BY DEF CoreStatus!ReadStore, CoreStatus!At, StatusTypes
<1>2. [req.expected EXCEPT !.m = req.settings] = [m |-> req.settings, d |-> req.expected.d]
  BY <1>1 DEF Asking, Settings
<1>3. CASE req.avail /\ disk.active = req.active
  <2>1. req' = [req EXCEPT !.pc = "api", !.active = disk.active,
                  !.config.m = req.settings, !.expected.m = req.settings]
    BY <1>3 DEF CoreStatus!ReadStore, CoreStatus!StoredActive
  <2>2. QED
    BY <1>1, <1>2, <1>3, <2>1 DEF Asking
<1>4. CASE ~(req.avail /\ disk.active = req.active)
  <2>1. req' = [req EXCEPT !.pc = "stored", !.active = disk.active]
    BY <1>4 DEF CoreStatus!ReadStore, CoreStatus!StoredActive
  <2>2. QED
    BY <1>1, <2>1 DEF Asking
<1>5. QED
  BY <1>3, <1>4

LEMMA Fifth ==
  ASSUME StatusTypes, CoreStatus!ReadConfig
  PROVE  /\ req.pc = "stored" /\ req'.pc = "api" /\ req'.calm = req.calm
         /\ req'.live = req.live /\ req'.settings = req.settings
         /\ req'.active = req.active
         /\ req'.expected = [m |-> req.settings, d |-> disk.doc[disk.active]]
BY DEF CoreStatus!ReadConfig, CoreStatus!At, StatusTypes, Asking

LEMMA Sixth ==
  ASSUME StatusTypes, CoreStatus!ReadClient
  PROVE  /\ req.pc = "api" /\ req'.pc \in {"fetch", "done"} /\ req'.calm = req.calm
         /\ req'.live = req.live /\ req'.settings = req.settings
         /\ req'.active = req.active /\ req'.avail = req.avail
         /\ req'.expected = req.expected
         /\ req'.api = mem.api /\ req'.controller = mem.controller
         /\ req'.version \in {mem.version, CoreStatus!NoVersion}
<1>1. PICK cached \in {mem.version, CoreStatus!NoVersion} :
        req' = [req EXCEPT !.pc = IF req.up THEN "fetch" ELSE "done",
                  !.api = mem.api, !.controller = mem.controller,
                  !.cached = cached, !.version = cached,
                  !.asked = IF cached = CoreStatus!NoVersion THEN {"version", "config"} ELSE {"config"}]
  BY DEF CoreStatus!ReadClient
<1>2. QED
  BY <1>1 DEF CoreStatus!ReadClient, CoreStatus!At, StatusTypes, Asking

LEMMA Requested ==
  ASSUME StatusTypes, CoreStatus!Version \/ CoreStatus!Configs
  PROVE  /\ req.pc = "fetch" /\ req'.pc = "fetch" /\ req'.calm = req.calm
         /\ req'.settings = req.settings /\ req'.active = req.active
         /\ req'.avail = req.avail /\ req'.expected = req.expected
         /\ req'.api = req.api /\ req'.controller = req.controller
         /\ req'.live \in {req.live, running.config}
         /\ \/ req'.version = req.version
            \/ req'.version = [controller |-> running.controller, build |-> running.build]
                 /\ running.controller = req.controller
<1>1. req.pc = "fetch" /\ req \in Asking
  BY DEF CoreStatus!Version, CoreStatus!Configs, CoreStatus!At, StatusTypes
<1>2. CASE CoreStatus!Answers
             /\ req' = [req EXCEPT !.asked = @ \ {"version"},
                   !.version = [controller |-> running.controller, build |-> running.build]]
  BY <1>1, <1>2 DEF CoreStatus!Answers, Asking
<1>3. CASE req' = [req EXCEPT !.asked = @ \ {"version"}]
  BY <1>1, <1>3 DEF Asking
<1>4. CASE req' = [req EXCEPT !.asked = @ \ {"config"}, !.live = running.config]
  BY <1>1, <1>4 DEF Asking
<1>5. CASE req' = [req EXCEPT !.asked = @ \ {"config"}]
  BY <1>1, <1>5 DEF Asking
<1>6. QED
  BY <1>2, <1>3, <1>4, <1>5 DEF CoreStatus!Version, CoreStatus!Configs

LEMMA Merged ==
  ASSUME StatusTypes, CoreStatus!Merge
  PROVE  /\ req.pc = "fetch" /\ req'.pc = "cache" /\ req'.calm = req.calm
         /\ req'.settings = req.settings /\ req'.active = req.active
         /\ req'.avail = req.avail /\ req'.expected = req.expected
         /\ req'.api = req.api /\ req'.controller = req.controller
         /\ req'.live = req.live /\ req'.version = req.version
         /\ req.avail /\ req.live # CoreStatus!NoConfig
              => (req'.drift <=> req.live # req.expected)
<1>1. PICK d \in BOOLEAN :
        d = (req.avail /\ req.live # CoreStatus!NoConfig /\ req.live # req.expected)
  OBVIOUS
<1>2. req' = [req EXCEPT !.pc = "cache", !.drift = d,
                !.config = IF req.live # CoreStatus!NoConfig THEN req.live ELSE @]
      /\ req.pc = "fetch"
  BY <1>1 DEF CoreStatus!Merge, CoreStatus!At
<1>3. /\ req'.pc = "cache" /\ req'.calm = req.calm
      /\ req'.settings = req.settings /\ req'.active = req.active
      /\ req'.avail = req.avail /\ req'.expected = req.expected
      /\ req'.api = req.api /\ req'.controller = req.controller
      /\ req'.live = req.live /\ req'.version = req.version /\ req'.drift = d
  BY <1>2 DEF StatusTypes, Asking
<1>4. req.avail /\ req.live # CoreStatus!NoConfig => (d <=> req.live # req.expected)
  BY <1>1
<1>5. QED
  BY <1>2, <1>3, <1>4

LEMMA Kept ==
  ASSUME StatusTypes, CoreStatus!Cache
  PROVE  /\ req.pc = "cache" /\ req'.pc = "done" /\ req'.calm = req.calm
         /\ req'.settings = req.settings /\ req'.active = req.active
         /\ req'.avail = req.avail /\ req'.expected = req.expected
         /\ req'.controller = req.controller /\ req'.live = req.live
         /\ req'.version \in {req.version, CoreStatus!NoVersion}
         /\ req'.drift = req.drift
         /\ mem'.settings = mem.settings
         /\ \/ mem' = mem
            \/ /\ mem.api = req.api /\ req.version # CoreStatus!NoVersion
               /\ mem'.version = req.version /\ mem'.controller = mem.controller
<1>1. /\ req.pc = "cache" /\ req'.pc = "done" /\ req'.calm = req.calm
      /\ req'.settings = req.settings /\ req'.active = req.active
      /\ req'.avail = req.avail /\ req'.expected = req.expected
      /\ req'.controller = req.controller /\ req'.live = req.live
      /\ req'.version \in {req.version, CoreStatus!NoVersion} /\ req'.drift = req.drift
  BY DEF CoreStatus!Cache, CoreStatus!At, StatusTypes, Asking
<1>2. CASE mem' = mem
  BY <1>1, <1>2
<1>3. CASE mem' = [mem EXCEPT !.version = req.version] /\ mem.api = req.api
             /\ req.version # CoreStatus!NoVersion
  BY <1>1, <1>3 DEF StatusTypes
<1>4. QED
  BY <1>2, <1>3 DEF CoreStatus!Cache, CoreStatus!SameClient

LEMMA OwnerStep ==
  ASSUME StatusTypes, Owner, [CoreStatus!Next]_status
  PROVE  Owner'
<1> USE DEF CoreStatus!Step, CoreStatus!At
<1>1. /\ req.api \in Nat /\ mem.api \in Nat /\ CoreStatus!NoVersion' = CoreStatus!NoVersion
  BY DEF StatusTypes, Asking, CoreStatus!NoVersion
<1>2. CASE Operations
  <2>1. CASE mem' = mem
    BY <1>1, <1>2, <2>1, Disturbs DEF Owner
  <2>2. ASSUME NEW d \in Stored, mem' = CoreStatus!Rebuilt(d)
        PROVE  Owner'
    <3>1. mem'.version = CoreStatus!NoVersion /\ mem'.api = mem.api + 1
      BY <2>2, Rebuilds
    <3>2. req.pc \in {"fetch", "cache"} => req.api < mem'.api
      BY <1>1, <3>1 DEF Owner
    <3>3. req.pc \in {"fetch", "cache"} => req.api <= mem'.api /\ req.api # mem'.api
      BY <1>1, <3>1, <3>2
    <3>4. QED
      BY <1>1, <1>2, <3>1, <3>3, Disturbs DEF Owner
  <2>3. QED
    BY <1>2, <2>1, <2>2, Disturbs
<1>3. CASE CoreStatus!NewProcess
  <2>1. mem' = CoreStatus!Rebuilt(disk) /\ req' = CoreStatus!Blank
    BY <1>3 DEF CoreStatus!NewProcess
  <2>2. mem'.version = CoreStatus!NoVersion /\ req'.pc = "idle"
    BY <2>1, Rebuilds DEF StatusTypes, CoreStatus!Blank
  <2>3. QED
    BY <1>1, <2>2 DEF Owner
<1>4. CASE CoreStatus!ReadService \/ CoreStatus!ReadPublic \/ CoreStatus!ReadMemory
             \/ CoreStatus!ReadStore \/ CoreStatus!ReadConfig \/ CoreStatus!Fail \/ CoreStatus!Return
  <2>1. mem' = mem
    BY <1>4 DEF CoreStatus!ReadService, CoreStatus!ReadPublic, CoreStatus!ReadMemory,
                CoreStatus!ReadStore, CoreStatus!ReadConfig, CoreStatus!Fail, CoreStatus!Return
  <2>2. CoreStatus!Fail => req'.version = CoreStatus!NoVersion
    BY DEF CoreStatus!Fail, CoreStatus!Blank
  <2>3. CoreStatus!Return => req'.pc = "idle"
    BY DEF CoreStatus!Return, CoreStatus!Blank
  <2>4. CoreStatus!Fail => req'.pc = "done"
    BY DEF CoreStatus!Fail, CoreStatus!Blank
  <2>5. ~CoreStatus!Fail => req'.pc \notin {"fetch", "cache", "done"}
    BY <1>4, <2>3, First, Second, Third, Fourth, Fifth
  <2>6. QED
    BY <1>1, <2>1, <2>2, <2>4, <2>5 DEF Owner
<1>5. CASE CoreStatus!ReadClient
  <2>1. mem' = mem
    BY <1>5 DEF CoreStatus!ReadClient
  <2>2. QED
    BY <1>1, <1>5, <2>1, Sixth DEF Owner
<1>6. CASE CoreStatus!Version \/ CoreStatus!Configs
  <2>1. mem' = mem
    BY <1>6 DEF CoreStatus!Version, CoreStatus!Configs
  <2>2. QED
    BY <1>1, <1>6, <2>1, Requested DEF Owner
<1>7. CASE CoreStatus!Merge
  <2>1. mem' = mem
    BY <1>7 DEF CoreStatus!Merge
  <2>2. QED
    BY <1>1, <1>7, <2>1, Merged DEF Owner
<1>8. CASE CoreStatus!Cache
  BY <1>1, <1>8, Kept DEF Owner
<1>9. CASE UNCHANGED status
  BY <1>1, <1>9 DEF status, Owner
<1>10. CoreStatus!Next => CoreStatus!CoreStatus \/ Operations \/ CoreStatus!NewProcess
  BY DEF CoreStatus!Next, CoreStatus!Operation, Operations
<1>11. QED
  BY <1>2, <1>3, <1>4, <1>5, <1>6, <1>7, <1>8, <1>9, <1>10 DEF CoreStatus!CoreStatus

-----------------------------------------------------------------------------
(* Between operations Mihomo's file and what is published are what the     *)
(* settings and the active document give, unless one was killed; while one *)
(* runs, its goal says what is already written.                            *)
Steady ==
  /\ op.kind = CoreStatus!None /\ ~killed =>
       disk.file = CoreStatus!Effective(disk)
         /\ public.config = disk.file /\ public.active = disk.active
  /\ op.kind # CoreStatus!None =>
       /\ "apply" \notin op.todo => disk.file = CoreStatus!Effective(op.goal)
       /\ "write" \notin op.todo => disk.settings = op.goal.settings
                                      /\ disk.active = op.goal.active /\ disk.doc = op.goal.doc

(* What an undisturbed status has read by the step where it stands.        *)
Calm ==
  /\ op.kind = CoreStatus!None
  /\ req.pc = "memory" /\ req.avail =>
       req.active = public.active /\ req.config = public.config
  /\ req.pc = "store" /\ req.avail => req.expected = public.config
  /\ req.pc \in {"store", "stored", "api", "fetch", "cache", "done"} =>
       req.settings = mem.settings
  /\ root /\ req.pc \in {"stored", "api", "fetch", "cache", "done"} =>
       req.active = disk.active
  /\ req.pc \in {"api", "fetch", "cache", "done"} /\ req.avail =>
       /\ root /\ ~killed => req.expected = [m |-> req.settings, d |-> disk.doc[disk.active]]
       /\ ~root => req.expected = public.config
  /\ req.live # CoreStatus!NoConfig => req.live = running.config

Seen ==
  /\ req.calm => Calm
  /\ req.pc \in {"store", "stored"} => root
  /\ req.pc = "public" => ~req.avail
  /\ req.pc \notin {"fetch", "cache", "done"} => req.live = CoreStatus!NoConfig
  /\ req.pc \in {"cache", "done"} /\ req.avail /\ req.live # CoreStatus!NoConfig
       => (req.drift <=> req.live # req.expected)

LEMMA SteadyStep ==
  ASSUME StatusTypes, Steady, [CoreStatus!Next]_status
  PROVE  Steady'
<1>1. CASE \E kind \in CoreStatus!Kinds, mine \in BOOLEAN : CoreStatus!BeginOp(kind, mine)
  <2>1. PICK kind \in CoreStatus!Kinds, mine \in BOOLEAN : CoreStatus!BeginOp(kind, mine)
    BY <1>1
  <2>2. op' = [kind |-> kind, mine |-> mine, goal |-> CoreStatus!Goal(kind),
               todo |-> {"apply", "write"}]
    BY <2>1 DEF CoreStatus!BeginOp
  <2>3. op'.kind = kind /\ op'.todo = {"apply", "write"} /\ kind # CoreStatus!None
    BY <2>2 DEF CoreStatus!Kinds, CoreStatus!None
  <2>4. QED
    BY <2>3 DEF Steady, CoreStatus!None
<1>2. CASE CoreStatus!Apply
  <2>1. /\ op \in [kind : CoreStatus!Kinds, mine : BOOLEAN, goal : Stored,
                   todo : SUBSET {"apply", "write"}]
        /\ op.kind # CoreStatus!None /\ disk \in Stored
    BY <1>2 DEF StatusTypes, CoreStatus!Apply
  <2>2. /\ op'.kind = op.kind /\ op'.goal = op.goal /\ op'.todo = op.todo \ {"apply"}
    BY <1>2, <2>1 DEF CoreStatus!Apply
  <2>3. /\ disk'.file = CoreStatus!Effective(op.goal) /\ disk'.settings = disk.settings
        /\ disk'.active = disk.active /\ disk'.doc = disk.doc
    BY <1>2, <2>1 DEF CoreStatus!Apply, Stored
  <2>4. QED
    BY <2>1, <2>2, <2>3 DEF Steady, CoreStatus!None, CoreStatus!Effective
<1>3. CASE CoreStatus!Write
  <2>1. /\ op \in [kind : CoreStatus!Kinds, mine : BOOLEAN, goal : Stored,
                   todo : SUBSET {"apply", "write"}]
        /\ op.kind # CoreStatus!None
    BY <1>3 DEF StatusTypes, CoreStatus!Write
  <2>2. /\ op'.kind = op.kind /\ op'.goal = op.goal /\ op'.todo = op.todo \ {"write"}
    BY <1>3, <2>1 DEF CoreStatus!Write
  <2>3. /\ disk'.file = disk.file /\ disk'.settings = op.goal.settings
        /\ disk'.active = op.goal.active /\ disk'.doc = op.goal.doc
    BY <1>3, <2>1 DEF CoreStatus!Write, Stored
  <2>4. QED
    BY <2>1, <2>2, <2>3 DEF Steady, CoreStatus!None, CoreStatus!Effective
<1>4. CASE CoreStatus!Publish
  <2>1. /\ op.kind # CoreStatus!None /\ op.todo = {} /\ disk' = disk
        /\ op' = [kind |-> CoreStatus!None]
        /\ public' = [config |-> disk.file, active |-> disk.active]
    BY <1>4 DEF CoreStatus!Publish, CoreStatus!Published
  <2>2. disk.file = CoreStatus!Effective(disk)
    BY <2>1 DEF Steady, CoreStatus!Effective
  <2>3. op'.kind = CoreStatus!None /\ public'.config = disk.file /\ public'.active = disk.active
    BY <2>1
  <2>4. QED
    BY <2>1, <2>2, <2>3 DEF Steady, CoreStatus!None, CoreStatus!Effective
<1>5. CASE CoreStatus!Kill
  <2>1. killed' /\ op'.kind = CoreStatus!None
    BY <1>5 DEF CoreStatus!Kill
  <2>2. QED
    BY <2>1 DEF Steady, CoreStatus!None
<1>6. CASE CoreStatus!Restart \/ CoreStatus!Patch \/ CoreStatus!NewProcess
             \/ CoreStatus!CoreStatus \/ UNCHANGED status
  <2>1. disk' = disk /\ public' = public /\ op' = op /\ killed' = killed
    BY <1>6 DEF CoreStatus!Restart, CoreStatus!Patch, CoreStatus!NewProcess,
         CoreStatus!Step, status,
         CoreStatus!CoreStatus, CoreStatus!ReadService, CoreStatus!ReadPublic,
         CoreStatus!ReadMemory, CoreStatus!ReadStore, CoreStatus!ReadConfig, CoreStatus!Fail,
         CoreStatus!ReadClient, CoreStatus!Version, CoreStatus!Configs, CoreStatus!Merge,
         CoreStatus!Cache, CoreStatus!Return
  <2>2. QED
    BY <2>1 DEF Steady, CoreStatus!None, CoreStatus!Effective
<1>7. QED
  BY <1>1, <1>2, <1>3, <1>4, <1>5, <1>6 DEF CoreStatus!Next, CoreStatus!Operation

LEMMA SeenStep ==
  ASSUME StatusTypes, Steady, Seen, [CoreStatus!Next]_status
  PROVE  Seen'
<1> USE DEF CoreStatus!None, CoreStatus!NoConfig
<1>1. CASE Operations
  <2>1. req' \in Asking
    BY <1>1, OperationTypes DEF StatusTypes
  <2>2. ~req'.calm
    BY <1>1, Disturbs
  <2>3. QED
    BY <1>1, <2>2, Disturbs DEF Seen
<1>2. CASE CoreStatus!NewProcess
  <2>1. req'.pc = "idle" /\ ~req'.calm /\ req'.live = CoreStatus!NoConfig
    BY <1>2 DEF CoreStatus!NewProcess, CoreStatus!Blank
  <2>2. QED
    BY <2>1 DEF Seen
<1>3. CASE CoreStatus!Fail \/ CoreStatus!Return
  <2>1. req'.pc \in {"idle", "done"} /\ ~req'.calm /\ req'.live = CoreStatus!NoConfig
    BY <1>3 DEF CoreStatus!Fail, CoreStatus!Return, CoreStatus!Blank
  <2>2. QED
    BY <2>1 DEF Seen
<1> DEFINE Same == /\ disk' = disk /\ public' = public /\ running' = running /\ op' = op
                   /\ root' = root /\ killed' = killed /\ mem'.settings = mem.settings
<1>4. CoreStatus!CoreStatus => Same
  <2>1. CoreStatus!Cache => mem'.settings = mem.settings
    BY Kept
  <2>2. QED
    BY <2>1 DEF CoreStatus!Step,
         CoreStatus!CoreStatus, CoreStatus!ReadService, CoreStatus!ReadPublic,
         CoreStatus!ReadMemory, CoreStatus!ReadStore, CoreStatus!ReadConfig, CoreStatus!Fail,
         CoreStatus!ReadClient, CoreStatus!Version, CoreStatus!Configs, CoreStatus!Merge,
         CoreStatus!Cache, CoreStatus!Return
<1>5. CASE Same /\ CoreStatus!ReadService
  BY <1>5, First DEF Seen, Calm
<1>6. CASE Same /\ CoreStatus!ReadPublic
  BY <1>6, Second DEF Seen, Calm
<1>7. CASE Same /\ CoreStatus!ReadMemory
  BY <1>7, Third DEF Seen, Calm
<1>8. CASE Same /\ CoreStatus!ReadStore
  <2>1. req.calm /\ req.avail /\ ~killed => req.expected.d = disk.doc[disk.active]
    BY <1>8, Fourth DEF Seen, Calm, Steady, CoreStatus!Effective
  <2>2. QED
    BY <1>8, <2>1, Fourth DEF Seen, Calm
<1>9. CASE Same /\ CoreStatus!ReadConfig
  BY <1>9, Fifth DEF Seen, Calm
<1>10. CASE Same /\ CoreStatus!ReadClient
  BY <1>10, Sixth DEF Seen, Calm
<1>11. CASE Same /\ (CoreStatus!Version \/ CoreStatus!Configs)
  BY <1>11, Requested DEF Seen, Calm
<1>12. CASE Same /\ CoreStatus!Merge
  BY <1>12, Merged DEF Seen, Calm
<1>13. CASE Same /\ CoreStatus!Cache
  BY <1>13, Kept DEF Seen, Calm
<1>14. CASE UNCHANGED status
  BY <1>14 DEF Seen, Calm, status
<1> HIDE DEF Same
<1>15. CoreStatus!Next => CoreStatus!CoreStatus \/ Operations \/ CoreStatus!NewProcess
  BY DEF CoreStatus!Next, CoreStatus!Operation, Operations
<1>16. QED
  BY <1>1, <1>2, <1>3, <1>4, <1>5, <1>6, <1>7, <1>8, <1>9, <1>10, <1>11, <1>12, <1>13,
     <1>14, <1>15 DEF CoreStatus!CoreStatus

StatusInv == StatusTypes /\ Owner /\ Steady /\ Seen

LEMMA StatusInit == CoreStatus!Init => StatusInv
<1> SUFFICES ASSUME CoreStatus!Init PROVE StatusInv
  OBVIOUS
<1> USE DEF CoreStatus!Bit, CoreStatus!None
<1>1. [p \in CoreStatus!Profiles |-> 0] \in [CoreStatus!Profiles -> CoreStatus!Bit]
  OBVIOUS
<1>2. /\ disk = [settings |-> 0, active |-> "a", doc |-> [p \in CoreStatus!Profiles |-> 0],
                 controller |-> "c", file |-> [m |-> 0, d |-> 0]]
      /\ public = [config |-> [m |-> 0, d |-> 0], active |-> "a"]
      /\ running = [up |-> TRUE, config |-> [m |-> 0, d |-> 0], build |-> 0, controller |-> "c"]
      /\ op = [kind |-> "none"] /\ req = CoreStatus!Blank
      /\ mem = [settings |-> 0, controller |-> "c", api |-> 0, version |-> CoreStatus!NoVersion]
      /\ root \in BOOLEAN /\ killed = FALSE
  BY DEF CoreStatus!Init
<1>3. disk \in Stored
  BY <1>1, <1>2 DEF Stored, CoreStatus!Profiles, CoreStatus!Controllers, CoreStatus!Config
<1>4. StatusTypes
  BY <1>2, <1>3, Nothings
  DEF StatusTypes, CoreStatus!Profiles, CoreStatus!Controllers, CoreStatus!Config
<1>5. Owner /\ Seen
  BY <1>2 DEF Owner, Seen, CoreStatus!Blank
<1>6. "a" \in CoreStatus!Profiles
  BY DEF CoreStatus!Profiles
<1>7. CoreStatus!Effective(disk) = [m |-> 0, d |-> 0]
  BY <1>2, <1>6 DEF CoreStatus!Effective
<1>8. Steady
  BY <1>2, <1>7 DEF Steady
<1>9. QED
  BY <1>4, <1>5, <1>8 DEF StatusInv

LEMMA StatusHolds == ProcessSpec => []StatusInv
<1>1. ProcessInit => StatusInv
  BY StatusInit DEF ProcessInit
<1>2. [ProcessNext]_<<part, vars, request, status>> => [CoreStatus!Next]_status
  BY DEF ProcessNext
<1>3. StatusInv /\ [CoreStatus!Next]_status => StatusInv'
  BY StatusTypesStep, OwnerStep, SteadyStep, SeenStep DEF StatusInv
<1>4. QED
  BY <1>1, <1>2, <1>3, PTL DEF ProcessSpec

(* An undisturbed status reports a drift exactly if the core runs another  *)
(* configuration than settings and active document give, and to root the   *)
(* profile that is really active, for every number of operations, restarts *)
(* and changes before it and between its reads (runtime.go:126, :109).     *)
THEOREM StatusesAreTrue == ProcessSpec => []StatusTrue
<1>1. StatusInv => StatusTrue
  <2> SUFFICES ASSUME StatusInv, CoreStatus!Undisturbed PROVE StatusTrue
    BY DEF StatusTrue, CoreStatus!DriftTrue, CoreStatus!ActiveTrue
  <2>1. /\ req.pc = "done" /\ req.calm /\ req.avail
        /\ root => mem.settings = disk.settings
    BY DEF CoreStatus!Undisturbed, CoreStatus!At
  <2>2. Calm /\ Steady
    BY <2>1 DEF StatusInv, Seen
  <2>3. CoreStatus!ActiveTrue
    BY <2>1, <2>2 DEF Calm, CoreStatus!ActiveTrue
  <2>4. CoreStatus!DriftTrue
    <3> SUFFICES ASSUME ~killed, req.live # CoreStatus!NoConfig
                 PROVE  req.drift <=> running.config # CoreStatus!Effective(disk)
      BY DEF CoreStatus!DriftTrue
    <3>1. req.live = running.config /\ req.settings = mem.settings
      BY <2>1, <2>2 DEF Calm
    <3>2. public.config = CoreStatus!Effective(disk)
      BY <2>2 DEF Calm, Steady
    <3>3. req.expected = CoreStatus!Effective(disk)
      BY <2>1, <2>2, <3>1, <3>2 DEF Calm, CoreStatus!Effective
    <3>4. req.drift <=> req.live # req.expected
      BY <2>1 DEF StatusInv, Seen
    <3>5. QED
      BY <3>1, <3>3, <3>4
  <2>5. QED
    BY <2>3, <2>4 DEF StatusTrue
<1>2. QED
  BY <1>1, StatusHolds, PTL

(* The version that is kept and the one that is shown are of the core at   *)
(* the address the process uses, though the client may be replaced between *)
(* the request and the answer (runtime.go:177).                            *)
THEOREM VersionsAreOwned == ProcessSpec => []VersionOwned
<1>1. StatusInv => VersionOwned
  BY DEF StatusInv, Owner, VersionOwned, CoreStatus!VersionOwned, CoreStatus!At
<1>2. QED
  BY <1>1, StatusHolds, PTL
=============================================================================
