------------------------------- MODULE Streams ------------------------------
(***************************************************************************)
(* A stream of the terminal UI, of traffic samples or of log entries: the  *)
(* Model's fields about it, the goroutines that wait for its channels, the *)
(* reconnection timers, and the backend goroutine behind each connection   *)
(* (App.WatchTraffic, App.WatchLogs).  The traffic stream is wanted while  *)
(* the service is active, the log stream only on its page.                 *)
(***************************************************************************)
EXTENDS Integers, FiniteSets

CONSTANTS
  MaxFails,  \* bound: how often the core drops a connection
  MaxForced, \* bound: forced restarts (r, a changed log level)
  MaxStops   \* bound: operations that restart the core

Kinds == {"traffic", "logs"}

VARIABLES
  kind,      \* which stream this is
  service,   \* the service runs
  active,    \* status.Service.Active
  onPage,    \* the page of the stream is shown
  suspended, \* runtimeMutation
  closed,    \* the UI's context is cancelled
  s,         \* trafficConnecting ... trafficReconnectPending
  err,       \* errorTraffic, errorLogs
  conns,     \* connections: backend goroutine, waiting goroutines
  timers,    \* reconnection timers, by whether their generation is current
  used       \* bounds used up

moving == <<service, active, onPage, suspended, closed, s, err, conns, timers,
            used>>
vars == <<kind, moving>>

Stream == [connecting : BOOLEAN, ch : BOOLEAN, errCh : BOOLEAN,
           pending : BOOLEAN]

(* fresh: its generation is current; held: its cancel function is kept.    *)
Connection ==
  [fresh : BOOLEAN, held : BOOLEAN, cancelled : BOOLEAN,
   cmd : {"asked", "answered", "handled"},      \* the command that connects
   open : BOOLEAN, item : BOOLEAN, error : BOOLEAN,   \* its two channels
   data : {"none", "wait", "item", "last", "end"},    \* waitTraffic, waitLogBatch
   fail : {"none", "wait", "error", "end"}]           \* waitTrafficError

Down == [connecting |-> FALSE, ch |-> FALSE, errCh |-> FALSE, pending |-> FALSE]

Init ==
  /\ kind \in Kinds
  /\ service \in BOOLEAN /\ onPage = (kind = "traffic")
  /\ active = FALSE /\ suspended = FALSE /\ closed = FALSE /\ err = FALSE
  /\ s = Down /\ conns = {} /\ timers = {}
  /\ used = [fails |-> 0, forced |-> 0, stops |-> 0]

Wanted(act, page) == act /\ page
-----------------------------------------------------------------------------
(* A new generation, and the call of the kept cancel function.             *)
Bump(cs) == {[c EXCEPT !.fresh = FALSE] : c \in cs}
CancelNone(cs) == {[c EXCEPT !.held = FALSE] : c \in cs}          \* mutant
Cancel(cs) ==
  {[c EXCEPT !.held = FALSE, !.cancelled = @ \/ c.held] : c \in cs}
Aged(ts) == IF ts = {} THEN {} ELSE {FALSE}

New == [fresh |-> TRUE, held |-> TRUE, cancelled |-> FALSE, cmd |-> "asked",
        open |-> FALSE, item |-> FALSE, error |-> FALSE, data |-> "none",
        fail |-> "none"]

(* beginTraffic(false), beginLogs(false) on the state x, cs, ts.           *)
MayConnect(x) == x = Down
Begin(x, cs, ts, act, page, susp) ==
  IF ~susp /\ Wanted(act, page) /\ ~closed /\ MayConnect(x)
  THEN /\ s' = [x EXCEPT !.connecting = TRUE]
       /\ conns' = {[c EXCEPT !.held = FALSE] : c \in Bump(cs)} \cup {New}
       /\ timers' = Aged(ts)
  ELSE s' = x /\ conns' = cs /\ timers' = ts

(* stopTraffic, stopLogs; then perhaps begun again.                        *)
StopThenBegin(act, page, susp) ==
  Begin(Down, Bump(Cancel(conns)), Aged(timers), act, page, susp)
Stop == s' = Down /\ conns' = Bump(Cancel(conns)) /\ timers' = Aged(timers)

(* trafficStreamPresent, logStreamPresent.                                 *)
Present == s # Down \/ \E c \in conns : c.held

(* setSourceError: suppressed for a while after an operation.              *)
Shown == {TRUE, FALSE}

(* disconnectTraffic, disconnectLogs of the current generation, after the  *)
(* messages cs were taken, with an error or at the end of the channels.    *)
Disconnect(x, cs, failure) ==
  LET again == Wanted(active, onPage) /\ ~x.pending /\ ~closed
  IN /\ s' = [Down EXCEPT !.pending = x.pending \/ again]
     /\ conns' = Bump(Cancel(cs))
     /\ timers' = Aged(timers) \cup (IF again THEN {TRUE} ELSE {})
     /\ err' \in IF failure /\ active /\ ~closed THEN Shown ELSE {err}

-----------------------------------------------------------------------------
(* What the rest of the UI does to the stream.                             *)
ServiceChanges ==
  /\ service' \in BOOLEAN \ {service}
  /\ UNCHANGED <<active, onPage, suspended, closed, s, err, conns, timers, used>>

(* statusMsg: `service' as seen, a service that cannot be seen counts as   *)
(* stopped; a changed log level restarts the log stream.                   *)
StatusMsg(forced) ==
  /\ ~suspended
  /\ forced => kind = "logs" /\ onPage /\ service /\ used.forced < MaxForced
  /\ active' = service
  /\ err' = (err /\ service /\ ~forced)
  /\ IF forced THEN StopThenBegin(service, onPage, FALSE)
     ELSE IF ~service THEN IF Present THEN Stop ELSE UNCHANGED <<s, conns, timers>>
     ELSE Begin(s, conns, timers, service, onPage, FALSE)
  /\ used' = [used EXCEPT !.forced = IF forced THEN @ + 1 ELSE @]
  /\ UNCHANGED <<service, onPage, suspended, closed>>

(* tickMsg, r on the log page: beginPageRefresh.                           *)
PageRefresh(forced) ==
  /\ kind = "logs" /\ onPage
  /\ forced => used.forced < MaxForced
  /\ IF forced THEN StopThenBegin(active, onPage, suspended)
     ELSE Begin(s, conns, timers, active, onPage, suspended)
  /\ err' = (err /\ ~forced)
  /\ used' = [used EXCEPT !.forced = IF forced THEN @ + 1 ELSE @]
  /\ UNCHANGED <<service, active, onPage, suspended, closed>>

(* switchPage to or from the page of the log stream.                       *)
SwitchPage ==
  /\ kind = "logs"
  /\ onPage' = ~onPage /\ err' = FALSE
  /\ StopThenBegin(active, onPage', suspended)
  /\ UNCHANGED <<service, active, suspended, closed, used>>

(* suspendRuntimeObservers.                                                *)
Suspend ==
  /\ ~suspended /\ used.stops < MaxStops /\ used' = [used EXCEPT !.stops = @ + 1]
  /\ suspended' = TRUE /\ err' = FALSE
  /\ Stop
  /\ UNCHANGED <<service, active, onPage, closed>>

(* operationMsg: a success refreshes the page, a failure nothing.          *)
Resume ==
  /\ suspended /\ suspended' = FALSE
  /\ \/ UNCHANGED <<s, conns, timers, err>>
     \/ /\ kind = "logs" /\ onPage /\ err' = FALSE
        /\ StopThenBegin(active, onPage, FALSE)
  /\ UNCHANGED <<service, active, onPage, closed, used>>

(* requestQuit while an operation runs: every context is cancelled.        *)
Quit ==
  /\ ~closed /\ closed' = TRUE
  /\ conns' = {[c EXCEPT !.cancelled = TRUE] : c \in conns}
  /\ UNCHANGED <<service, active, onPage, suspended, s, err, timers, used>>

-----------------------------------------------------------------------------
(* The backend: WatchTraffic or WatchLogs returns its channels at once.    *)
Becomes(c, d) ==
  /\ conns' = (conns \ {c}) \cup {d}
  /\ UNCHANGED <<service, active, onPage, suspended, closed, s, err, timers>>

Connect(c) ==
  /\ c.cmd = "asked"
  /\ Becomes(c, [c EXCEPT !.cmd = "answered", !.open = TRUE])
  /\ UNCHANGED used

Send(c) ==
  /\ c.open /\ ~c.item /\ ~c.cancelled
  /\ Becomes(c, [c EXCEPT !.item = TRUE]) /\ UNCHANGED used

(* The core drops the connection, or refuses it: an error, then both       *)
(* channels are closed.  A cancelled stream ends without an error.         *)
Drop(c) ==
  /\ c.open /\ ~c.cancelled /\ used.fails < MaxFails
  /\ used' = [used EXCEPT !.fails = @ + 1]
  /\ \E e \in BOOLEAN : Becomes(c, [c EXCEPT !.open = FALSE, !.error = e])

End(c) ==
  /\ c.open /\ c.cancelled
  /\ Becomes(c, [c EXCEPT !.open = FALSE]) /\ UNCHANGED used

-----------------------------------------------------------------------------
(* The goroutines that wait for a channel or for the end of the context.   *)
WaitData(c) ==
  /\ c.data = "wait"
  /\ \/ /\ c.item
        /\ \E d \in {"item"} \cup (IF kind = "logs" /\ (~c.open \/ c.cancelled)
                                   THEN {"last"} ELSE {}) :
             Becomes(c, [c EXCEPT !.data = d, !.item = FALSE])
     \/ ((~c.open /\ ~c.item) \/ c.cancelled) /\ Becomes(c, [c EXCEPT !.data = "end"])
  /\ UNCHANGED used

WaitError(c) ==
  /\ c.fail = "wait"
  /\ \/ c.error /\ Becomes(c, [c EXCEPT !.fail = "error", !.error = FALSE])
     \/ ((~c.open /\ ~c.error) \/ c.cancelled) /\ Becomes(c, [c EXCEPT !.fail = "end"])
  /\ UNCHANGED used

-----------------------------------------------------------------------------
(* Messages to the event loop, dropped when their generation is old.       *)
Without(c) == conns \ {c}
Current(c) == c.fresh

ChannelsMsg(c) ==
  /\ c.cmd = "answered"
  /\ IF Current(c)
     THEN /\ s' = [s EXCEPT !.connecting = FALSE, !.ch = TRUE, !.errCh = TRUE]
          /\ conns' = Without(c) \cup
               {[c EXCEPT !.cmd = "handled", !.data = "wait", !.fail = "wait"]}
          /\ err' = (err /\ kind = "traffic")
     ELSE /\ conns' = Without(c) \cup {[c EXCEPT !.cmd = "handled"]}
          /\ UNCHANGED <<s, err>>
  /\ UNCHANGED <<service, active, onPage, suspended, closed, timers, used>>

DataMsg(c) ==
  /\ c.data \in {"item", "last", "end"}
  /\ LET d == [c EXCEPT !.data = IF Current(c) /\ c.data = "item" /\ s.ch
                                 THEN "wait" ELSE "none"]
         x == [s EXCEPT !.ch = FALSE]
         cs == Without(c) \cup {d}
     IN IF ~Current(c) THEN conns' = cs /\ UNCHANGED <<s, err, timers>>
        ELSE IF c.data = "item"
        THEN conns' = cs /\ err' = FALSE /\ UNCHANGED <<s, timers>>
        ELSE IF s.errCh
        THEN /\ s' = x /\ conns' = cs /\ err' = (err /\ c.data = "end")
             /\ UNCHANGED timers
        ELSE Disconnect(x, cs, FALSE)
  /\ UNCHANGED <<service, active, onPage, suspended, closed, used>>

ErrorMsg(c) ==
  /\ c.fail \in {"error", "end"}
  /\ LET x == [s EXCEPT !.errCh = FALSE]
         cs == Without(c) \cup {[c EXCEPT !.fail = "none"]}
     IN IF ~Current(c) THEN conns' = cs /\ UNCHANGED <<s, err, timers>>
        ELSE IF c.fail = "error" THEN Disconnect(s, cs, TRUE)
        ELSE IF s.ch THEN s' = x /\ conns' = cs /\ UNCHANGED <<err, timers>>
        ELSE Disconnect(x, cs, FALSE)
  /\ UNCHANGED <<service, active, onPage, suspended, closed, used>>

(* trafficReconnectMsg, logReconnectMsg.                                   *)
ReconnectKept == s                                                \* mutant
Reconnected == [s EXCEPT !.pending = FALSE]
Reconnect(fresh) ==
  /\ fresh \in timers
  /\ IF fresh /\ s.pending /\ Wanted(active, onPage)
     THEN Begin(Reconnected, conns, timers \ {fresh}, active, onPage, suspended)
     ELSE /\ timers' = timers \ {fresh} /\ UNCHANGED conns
          /\ s' = IF fresh /\ s.pending /\ kind = "traffic" THEN Reconnected ELSE s
  /\ UNCHANGED <<service, active, onPage, suspended, closed, err, used>>

(* All goroutines of a connection have returned.                           *)
Over(c) == c.cmd = "handled" /\ ~c.open /\ c.data = "none" /\ c.fail = "none"
Forget(c) ==
  /\ Over(c) /\ ~c.held
  /\ conns' = Without(c)
  /\ UNCHANGED <<service, active, onPage, suspended, closed, s, err, timers, used>>

-----------------------------------------------------------------------------
Backend(c) == Connect(c) \/ End(c) \/ WaitData(c) \/ WaitError(c) \/ Forget(c)
Message(c) == ChannelsMsg(c) \/ DataMsg(c) \/ ErrorMsg(c)

Steps ==
  \/ ServiceChanges \/ SwitchPage \/ Suspend \/ Resume \/ Quit
  \/ \E forced \in BOOLEAN : StatusMsg(forced) \/ PageRefresh(forced)
  \/ \E c \in conns : Backend(c) \/ Send(c) \/ Drop(c) \/ Message(c)
  \/ \E fresh \in BOOLEAN : Reconnect(fresh)

(* A bound: one abandoned connection at a time.                            *)
FewConnections == Cardinality({c \in conns' : ~c.fresh}) <= 1

Next == Steps /\ UNCHANGED kind /\ FewConnections

(* Statuses are asked every few seconds, operations end, goroutines run,   *)
(* the loop handles its messages, timers fire.                             *)
Fairness ==
  /\ WF_moving(StatusMsg(FALSE)) /\ WF_moving(Resume)
  /\ \A fresh \in BOOLEAN :
       /\ WF_moving(Reconnect(fresh))
       /\ WF_moving(\E c \in conns : c.fresh = fresh /\ (Backend(c) \/ Message(c)))

Spec == Init /\ [][Next]_vars /\ Fairness
-----------------------------------------------------------------------------
(* Types; a generation has at most one connection.                         *)
TypeOK ==
  /\ kind \in Kinds
  /\ {service, active, onPage, suspended, closed, err} \subseteq BOOLEAN
  /\ s \in Stream
  /\ conns \subseteq Connection /\ Cardinality({c \in conns : c.fresh}) <= 1
  /\ timers \subseteq BOOLEAN

(* No stream outlives its use: a connection that was not cancelled is the  *)
(* only one, the current one, and its cancel function is kept              *)
(* (model.go:799); and there is none, waiting or pending, to a core that   *)
(* is stopped or being restarted, nor for a page that is not shown         *)
(* (model.go:1948, :963).                                                  *)
NoStray ==
  /\ \A c, d \in conns :
       /\ ~c.cancelled => c.fresh /\ c.held
       /\ ~c.cancelled /\ ~d.cancelled => c = d
  /\ (~active \/ suspended \/ ~onPage)
       => s = Down /\ ~err /\ (\A c \in conns : c.cancelled) /\ TRUE \notin timers

(* A wanted stream comes back, however it was lost or stopped.             *)
Reconnects ==
  <>[](service /\ onPage /\ ~closed) => <>[](s.ch /\ s.errCh)
=============================================================================
