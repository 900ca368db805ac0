-------------------------------- MODULE Watch -------------------------------
(***************************************************************************)
(* App.WatchTraffic and App.WatchLogs: the goroutine that streams from the *)
(* core, the watchdog that gives a silent traffic stream up, and a reader  *)
(* that may be slow, stop reading or cancel.  Goroutines run at once       *)
(* compared with the seconds the watchdog counts: Tick waits for them.     *)
(***************************************************************************)
EXTENDS Integers, Sequences

CONSTANTS
  Guarded,   \* WatchTraffic (TRUE) or WatchLogs, which has no watchdog
  Timeout,   \* trafficNoSampleTimeout, in ticks
  Capacity,  \* room of the data channel
  MaxItems   \* bound: how much the core sends

ASSUME WatchAssumption ==
  /\ Guarded \in BOOLEAN
  /\ Timeout \in Nat \ {0} /\ Capacity \in Nat /\ MaxItems \in Nat

VARIABLES
  core,      \* the other end of the connection: "up", "eof", "broken", "absent"
  sent,      \* items the core sent
  ctx,       \* the caller cancelled
  stream,    \* streamCtx is cancelled
  pc,        \* of the streaming goroutine
  result,    \* what it will report
  dog,       \* of the watchdog
  timer,     \* ticks left; 0: timer.C is ready
  activity, expired, \* its channels, of capacity one
  data,      \* number of items in the data channel
  errorsCh,  \* [items, closed]
  got,       \* items the reader took
  reading,   \* the reader still reads
  silence,   \* ticks since the callback was last entered
  gap        \* ghost: Timeout ticks once passed without it

vars == <<core, sent, ctx, stream, pc, result, dog, timer, activity, expired,
          data, errorsCh, got, reading, silence, gap>>

Failures == {"refused", "broken", "cancelled", "silent"}

(* Types; all that was sent was taken or waits, but for the item in hand.  *)
TypeOK ==
  /\ core \in {"up", "eof", "broken", "absent"} /\ sent \in 0..MaxItems
  /\ {ctx, stream, activity, expired, reading, gap} \subseteq BOOLEAN
  /\ pc \in {"start", "read", "note", "send", "done", "judge", "check", "tell",
             "closeErrors", "closeData", "end"}
  /\ result \in Failures \cup {"none"}
  /\ dog \in {"off", "wait", "kill"}
  /\ timer \in 0..Timeout /\ silence \in 0..Timeout
  /\ data \in 0..Capacity
  /\ errorsCh \in [items : Failures \cup {"none"}, closed : BOOLEAN]
  /\ got + data <= sent /\ sent - got - data <= 1

Init ==
  /\ core \in {"up", "broken", "absent"} /\ sent = 0
  /\ ctx = FALSE /\ stream = FALSE
  /\ pc = "start" /\ result = "none" /\ dog = "off" /\ timer = Timeout
  /\ activity = FALSE /\ expired = FALSE
  /\ data = 0 /\ errorsCh = [items |-> "none", closed |-> FALSE]
  /\ got = 0 /\ reading = TRUE /\ silence = 0 /\ gap = FALSE

goroutine == <<pc, result>>
watchdog == <<dog, timer>>
reader == <<ctx, got, reading>>
clock == <<silence, gap>>
-----------------------------------------------------------------------------
(* checkAPI fails: an error, and both channels are closed at once.         *)
Start ==
  /\ pc = "start"
  /\ IF core = "absent"
     THEN /\ pc' = "end" /\ result' = "refused"
          /\ errorsCh' = [items |-> "refused", closed |-> TRUE]
          /\ UNCHANGED dog
     ELSE /\ pc' = "read" /\ dog' = IF Guarded THEN "wait" ELSE "off"
          /\ UNCHANGED <<result, errorsCh>>
  /\ UNCHANGED <<core, sent, stream, timer, activity, expired, data, reader, clock>>

(* decodeStream: the next item, the end, a failure, or a cancelled request *)
(* (which a decoded item may still win).                                   *)
ReadItem ==
  /\ pc = "read" /\ core = "up" /\ sent < MaxItems
  /\ sent' = sent + 1 /\ pc' = "note" /\ silence' = 0
  /\ UNCHANGED <<core, stream, result, watchdog, activity, expired, data,
                 errorsCh, reader, gap>>

ReadEnds ==
  /\ pc = "read" /\ pc' = "done"
  /\ \/ stream /\ result' = "cancelled"
     \/ ~stream /\ core = "eof" /\ result' = "none"
     \/ ~stream /\ core = "broken" /\ result' = "broken"
  /\ UNCHANGED <<core, sent, stream, watchdog, activity, expired, data,
                 errorsCh, reader, clock>>

(* The callback: a sign of life that never blocks, then the item.          *)
Signal ==
  /\ pc = "note" /\ pc' = "send" /\ activity' = Guarded
  /\ UNCHANGED <<core, sent, stream, result, watchdog, expired, data, errorsCh,
                 reader, clock>>

(* An unread item is given up when the stream is cancelled.                *)
GivesUpNever == FALSE                                             \* mutant
GivesUp == stream
Queued == data + 1
Send ==
  /\ pc = "send"
  /\ \/ data < Capacity /\ data' = Queued /\ pc' = "read" /\ UNCHANGED result
     \/ GivesUp /\ pc' = "done" /\ result' = "cancelled" /\ UNCHANGED data
  /\ UNCHANGED <<core, sent, stream, watchdog, activity, expired, errorsCh,
                 reader, clock>>

(* close(streamDone): the watchdog may take it, or its timer.              *)
Finish ==
  /\ pc = "done" /\ pc' = "judge"
  /\ UNCHANGED <<core, sent, stream, result, watchdog, activity, expired, data,
                 errorsCh, reader, clock>>

VerdictIgnored == result                                          \* mutant
Verdict == IF expired THEN "silent" ELSE result
Judge ==
  /\ pc = "judge" /\ pc' = "check"
  /\ result' = Verdict /\ expired' = FALSE
  /\ UNCHANGED <<core, sent, stream, watchdog, activity, data, errorsCh, reader,
                 clock>>

(* The caller's cancellation is looked at once; the error is sent later.   *)
Wanted == ~ctx
Check ==
  /\ pc = "check"
  /\ pc' = IF result # "none" /\ Wanted THEN "tell" ELSE "closeErrors"
  /\ UNCHANGED <<core, sent, stream, result, watchdog, activity, expired, data,
                 errorsCh, reader, clock>>
Tell ==
  /\ pc = "tell" /\ pc' = "closeErrors"
  /\ errorsCh' = [errorsCh EXCEPT !.items = result]
  /\ UNCHANGED <<core, sent, stream, result, watchdog, activity, expired, data,
                 reader, clock>>

(* The deferred calls: cancel, close(errorsCh), close(data).               *)
CloseErrors ==
  /\ pc = "closeErrors" /\ pc' = "closeData"
  /\ stream' = TRUE
  /\ errorsCh' = [errorsCh EXCEPT !.closed = TRUE]
  /\ UNCHANGED <<core, sent, result, watchdog, activity, expired, data, reader,
                 clock>>
CloseData ==
  /\ pc = "closeData" /\ pc' = "end"
  /\ UNCHANGED <<core, sent, stream, result, watchdog, activity, expired, data,
                 errorsCh, reader, clock>>

-----------------------------------------------------------------------------
(* The watchdog's select takes any case that is ready.                     *)
RearmedNot == timer                                               \* mutant
Rearmed == Timeout
Alive ==
  /\ dog = "wait" /\ activity
  /\ activity' = FALSE /\ timer' = Rearmed
  /\ UNCHANGED <<core, sent, stream, goroutine, dog, expired, data, errorsCh,
                 reader, clock>>
Expire ==
  /\ dog = "wait" /\ timer = 0
  /\ expired' = TRUE /\ dog' = "kill"
  /\ UNCHANGED <<core, sent, stream, goroutine, timer, activity, data, errorsCh,
                 reader, clock>>
Kill ==
  /\ dog = "kill" /\ dog' = "off" /\ stream' = TRUE
  /\ UNCHANGED <<core, sent, goroutine, timer, activity, expired, data, errorsCh,
                 reader, clock>>
DogEnds ==
  /\ dog = "wait" /\ dog' = "off"
  /\ ctx \/ pc \in {"judge", "check", "tell", "closeErrors", "closeData", "end"}
  /\ UNCHANGED <<core, sent, stream, goroutine, timer, activity, expired, data,
                 errorsCh, reader, clock>>

-----------------------------------------------------------------------------
(* The core, the reader and the time.                                      *)
CoreEnds ==
  /\ core = "up" /\ core' \in {"eof", "broken"}
  /\ UNCHANGED <<sent, stream, goroutine, watchdog, activity, expired, data,
                 errorsCh, reader, clock>>
Receive ==
  /\ reading /\ data > 0
  /\ data' = data - 1 /\ got' = got + 1
  /\ UNCHANGED <<core, sent, ctx, stream, goroutine, watchdog, activity, expired,
                 errorsCh, reading, clock>>
StopReading ==
  /\ reading /\ reading' = FALSE
  /\ UNCHANGED <<core, sent, ctx, stream, goroutine, watchdog, activity, expired,
                 data, errorsCh, got, clock>>
Cancel ==
  /\ ~ctx /\ ctx' = TRUE /\ stream' = TRUE
  /\ UNCHANGED <<core, sent, goroutine, watchdog, activity, expired, data,
                 errorsCh, got, reading, clock>>

Streaming == Start \/ ReadEnds \/ Signal \/ Send \/ Finish \/ Judge \/ Check
               \/ Tell \/ CloseErrors \/ CloseData
Watching == Alive \/ Expire \/ Kill \/ DogEnds
Busy ==
  \/ pc \in {"start", "note", "done", "judge", "check", "tell", "closeErrors",
            "closeData"}
  \/ pc = "read" /\ (stream \/ core \in {"eof", "broken"})
  \/ pc = "send" /\ (stream \/ data < Capacity)
  \/ dog = "kill"
  \/ dog = "wait" /\ (activity \/ timer = 0 \/ ctx \/ pc = "end")
  \/ reading /\ data > 0

Tick ==
  /\ ~Busy /\ dog = "wait"
  /\ timer' = timer - 1
  /\ silence' = IF silence < Timeout THEN silence + 1 ELSE silence
  /\ gap' = (gap \/ silence' = Timeout)
  /\ UNCHANGED <<core, sent, stream, goroutine, dog, activity, expired, data,
                 errorsCh, reader>>

Next == Streaming \/ Watching \/ ReadItem \/ CoreEnds \/ Receive \/ StopReading
          \/ Cancel \/ Tick

(* The goroutines run, a reader that reads takes what is there, and time   *)
(* passes; nobody has to send, to end or to cancel.                        *)
Spec == Init /\ [][Next]_vars
          /\ WF_vars(Streaming) /\ WF_vars(Watching) /\ WF_vars(Receive) /\ WF_vars(Tick)
-----------------------------------------------------------------------------
Closed == pc = "end" /\ errorsCh.closed

(* A stream that carries data is not called silent: before the watchdog    *)
(* speaks, its time once passed with no sample (runtime.go:472).           *)
NoFalseAlarm == expired \/ errorsCh.items = "silent" => gap

(* The reader is told the right reason: of a stream that was given up its  *)
(* silence, never the cancellation that follows from it; nothing only when *)
(* the core ended the stream or the reader cancelled it (runtime.go:477).  *)
RightError ==
  /\ errorsCh.items # "cancelled"
  /\ errorsCh.items = "broken" => core = "broken"
  /\ Closed /\ errorsCh.items = "none" => ctx \/ core = "eof"

(* A reader that cancels a connection hears nothing of it any more, unless *)
(* the goroutine was past its look at the cancellation (runtime.go:477)    *)
(* and before the end of its report (runtime.go:479).                      *)
Undecided == core # "absent" /\ pc # "tell" /\ errorsCh.items = "none"
CancelSilences == [](ctx /\ Undecided => [](errorsCh.items = "none"))

(* Both channels are closed in the end: of a cancelled stream even if      *)
(* nobody reads it, of a failed one that is read, and a traffic stream     *)
(* whose core fell silent or whose reader went away (runtime.go:447).      *)
Released == ctx \/ Guarded \/ (core # "up" /\ []reading) ~> Closed
=============================================================================
