---------------------------- MODULE Streams_proofs --------------------------
(***************************************************************************)
(* A stream of the terminal UI never outlives its use, for any number of   *)
(* failures, forced restarts and operations.  What the Model's fields, the *)
(* connections and the timers always have to do with each other is Sound;  *)
(* what is left of them when the stream is not wanted is Dark.  Feed is    *)
(* the instance of Streams in MCEventLoop.                                 *)
(***************************************************************************)
EXTENDS MCEventLoop, TLAPS

(* A connection that was not cancelled is the current one and is seen in   *)
(* the fields: it connects, or one of its channels is waited for; a timer  *)
(* of the current generation is seen there too.                            *)
Sound(x, cs, ts) ==
  /\ x \in Feed!Stream /\ cs \subseteq Feed!Connection /\ ts \subseteq BOOLEAN
  /\ \A c \in cs : c.fresh => c.held
  /\ \A c, d \in cs : c.fresh /\ d.fresh => c = d
  /\ \A c \in cs : ~c.cancelled => c.fresh
  /\ \A c \in cs : ~c.cancelled /\ c.cmd # "handled" => x.connecting
  /\ \A c \in cs : ~c.cancelled /\ c.cmd = "handled" => x.ch \/ x.errCh
  /\ \A c \in cs : c.data # "none" \/ c.fail # "none" => c.cmd = "handled"
  /\ TRUE \in ts => x.pending

Dark(x, cs, ts) ==
  x = Feed!Down /\ (\A c \in cs : ~c.fresh /\ c.cancelled) /\ TRUE \notin ts

Off == ~active \/ suspended \/ ~onPage

StreamsInv ==
  /\ {service, active, onPage, suspended, err} \subseteq BOOLEAN
  /\ Sound(s, conns, timers)
  /\ Off => Dark(s, conns, timers) /\ ~err

-----------------------------------------------------------------------------
LEMMA DownTyped ==
  /\ Feed!Down \in Feed!Stream /\ ~Feed!Down.connecting /\ ~Feed!Down.ch
  /\ ~Feed!Down.errCh /\ ~Feed!Down.pending
BY DEF Feed!Down, Feed!Stream

LEMMA NewTyped ==
  /\ Feed!New \in Feed!Connection /\ Feed!New.fresh /\ Feed!New.held /\ ~Feed!New.cancelled
  /\ Feed!New.cmd = "asked" /\ Feed!New.data = "none" /\ Feed!New.fail = "none"
BY DEF Feed!New, Feed!Connection

LEMMA AgedTimers == ASSUME NEW ts \in SUBSET BOOLEAN
                    PROVE  Feed!Aged(ts) \subseteq BOOLEAN /\ TRUE \notin Feed!Aged(ts)
BY DEF Feed!Aged

(* What stays the same of a connection whose generation is over, and of    *)
(* one that is cancelled if its cancel function is kept.                   *)
LEMMA BumpedOne ==
  ASSUME NEW c \in Feed!Connection
  PROVE  LET d == [c EXCEPT !.fresh = FALSE]
         IN /\ d \in Feed!Connection /\ ~d.fresh /\ d.held = c.held /\ d.cancelled = c.cancelled
            /\ d.cmd = c.cmd /\ d.data = c.data /\ d.fail = c.fail
BY DEF Feed!Connection

LEMMA UnheldOne ==
  ASSUME NEW c \in Feed!Connection
  PROVE  LET d == [c EXCEPT !.held = FALSE]
         IN /\ d \in Feed!Connection /\ d.fresh = c.fresh /\ d.cancelled = c.cancelled
            /\ d.cmd = c.cmd /\ d.data = c.data /\ d.fail = c.fail
BY DEF Feed!Connection

LEMMA CancelledOne ==
  ASSUME NEW c \in Feed!Connection
  PROVE  LET d == [c EXCEPT !.held = FALSE, !.cancelled = @ \/ c.held]
         IN /\ d \in Feed!Connection /\ d.fresh = c.fresh
            /\ d.cancelled <=> c.cancelled \/ c.held
            /\ d.cmd = c.cmd /\ d.data = c.data /\ d.fail = c.fail
BY DEF Feed!Connection

LEMMA QuitOne ==
  ASSUME NEW c \in Feed!Connection
  PROVE  LET d == [c EXCEPT !.cancelled = TRUE]
         IN /\ d \in Feed!Connection /\ d.fresh = c.fresh /\ d.held = c.held /\ d.cancelled
            /\ d.cmd = c.cmd /\ d.data = c.data /\ d.fail = c.fail
BY DEF Feed!Connection

-----------------------------------------------------------------------------
(* stopTraffic, stopLogs: the connections of a sound state are over.       *)
LEMMA Stopped ==
  ASSUME NEW x, NEW cs, NEW ts, Sound(x, cs, ts)
  PROVE  /\ Sound(Feed!Down, Feed!Bump(Feed!Cancel(cs)), Feed!Aged(ts))
         /\ Dark(Feed!Down, Feed!Bump(Feed!Cancel(cs)), Feed!Aged(ts))
<1>1. cs \subseteq Feed!Connection /\ ts \in SUBSET BOOLEAN
  BY DEF Sound
<1>2. ASSUME NEW e \in Feed!Bump(Feed!Cancel(cs))
      PROVE  /\ e \in Feed!Connection /\ ~e.fresh /\ e.cancelled
             /\ e.data # "none" \/ e.fail # "none" => e.cmd = "handled"
  <2>1. PICK d \in Feed!Cancel(cs) : e = [d EXCEPT !.fresh = FALSE]
    BY DEF Feed!Bump
  <2>2. PICK c \in cs : d = [c EXCEPT !.held = FALSE, !.cancelled = c.cancelled \/ c.held]
    BY DEF Feed!Cancel
  <2>3. d \in Feed!Connection /\ (d.cancelled <=> c.cancelled \/ c.held)
          /\ d.cmd = c.cmd /\ d.data = c.data /\ d.fail = c.fail
    BY <1>1, <2>2, CancelledOne
  <2>4. e \in Feed!Connection /\ ~e.fresh /\ e.cancelled = d.cancelled
          /\ e.cmd = d.cmd /\ e.data = d.data /\ e.fail = d.fail
    BY <2>1, <2>3, BumpedOne
  <2>5. c.cancelled \/ c.held
    BY DEF Sound
  <2> QED  BY <2>3, <2>4, <2>5 DEF Sound
<1>3. Feed!Aged(ts) \subseteq BOOLEAN /\ TRUE \notin Feed!Aged(ts)
  BY <1>1, AgedTimers
<1> QED  BY <1>2, <1>3, DownTyped DEF Sound, Dark

(* beginTraffic, beginLogs from a sound state lead to one, and do nothing  *)
(* where the stream is not wanted.                                         *)
LEMMA Begins ==
  ASSUME NEW x, NEW cs, NEW ts, NEW act \in BOOLEAN, NEW page \in BOOLEAN,
         NEW susp \in BOOLEAN, Sound(x, cs, ts),
         Feed!Begin(x, cs, ts, act, page, susp)
  PROVE  /\ Sound(s', conns', timers')
         /\ ~act \/ susp \/ ~page => s' = x /\ conns' = cs /\ timers' = ts
<1>1. CASE ~(~susp /\ Feed!Wanted(act, page) /\ ~cancelled /\ Feed!MayConnect(x))
  <2>1. s' = x /\ conns' = cs /\ timers' = ts
    BY <1>1 DEF Feed!Begin
  <2> QED  BY <2>1
<1>2. CASE ~susp /\ Feed!Wanted(act, page) /\ ~cancelled /\ Feed!MayConnect(x)
  <2>1. /\ x = Feed!Down /\ s' = [x EXCEPT !.connecting = TRUE]
        /\ conns' = {[c EXCEPT !.held = FALSE] : c \in Feed!Bump(cs)} \cup {Feed!New}
        /\ timers' = Feed!Aged(ts) /\ ~(~act \/ susp \/ ~page)
    BY <1>2 DEF Feed!Begin, Feed!MayConnect, Feed!Wanted
  <2>2. s' \in Feed!Stream /\ s'.connecting
    BY <2>1, DownTyped DEF Feed!Stream
  <2>3. cs \subseteq Feed!Connection /\ ts \in SUBSET BOOLEAN /\ \A c \in cs : c.cancelled
    BY <2>1, DownTyped DEF Sound
  <2>4. ASSUME NEW e \in conns', e # Feed!New
        PROVE  /\ e \in Feed!Connection /\ ~e.fresh /\ e.cancelled
               /\ e.data # "none" \/ e.fail # "none" => e.cmd = "handled"
    <3>1. PICK d \in Feed!Bump(cs) : e = [d EXCEPT !.held = FALSE]
      BY <2>1, <2>4
    <3>2. PICK c \in cs : d = [c EXCEPT !.fresh = FALSE]
      BY DEF Feed!Bump
    <3>3. d \in Feed!Connection /\ ~d.fresh /\ d.cancelled = c.cancelled
            /\ d.cmd = c.cmd /\ d.data = c.data /\ d.fail = c.fail
      BY <2>3, <3>2, BumpedOne
    <3>4. e \in Feed!Connection /\ e.fresh = d.fresh /\ e.cancelled = d.cancelled
            /\ e.cmd = d.cmd /\ e.data = d.data /\ e.fail = d.fail
      BY <3>1, <3>3, UnheldOne
    <3> QED  BY <2>3, <3>3, <3>4 DEF Sound
  <2>5. Feed!New \in conns'
    BY <2>1
  <2>6. timers' \subseteq BOOLEAN /\ TRUE \notin timers'
    BY <2>1, <2>3, AgedTimers
  <2> QED  BY <2>1, <2>2, <2>4, <2>5, <2>6, NewTyped DEF Sound
<1> QED  BY <1>1, <1>2

LEMMA StopsThenBegins ==
  ASSUME NEW act \in BOOLEAN, NEW page \in BOOLEAN, NEW susp \in BOOLEAN, Sound(s, conns, timers),
         Feed!StopThenBegin(act, page, susp)
  PROVE  /\ Sound(s', conns', timers')
         /\ ~act \/ susp \/ ~page => Dark(s', conns', timers')
<1>1. /\ Sound(Feed!Down, Feed!Bump(Feed!Cancel(conns)), Feed!Aged(timers))
      /\ Dark(Feed!Down, Feed!Bump(Feed!Cancel(conns)), Feed!Aged(timers))
  BY Stopped
<1>2. Feed!Begin(Feed!Down, Feed!Bump(Feed!Cancel(conns)), Feed!Aged(timers), act, page, susp)
  BY DEF Feed!StopThenBegin
<1> QED  BY <1>1, <1>2, Begins

(* A connection that is one of a sound state goes on, as the fields say.   *)
Goes(x, y, c, d) ==
  /\ d \in Feed!Connection /\ d.fresh = c.fresh /\ d.held = c.held /\ d.cancelled = c.cancelled
  /\ y \in Feed!Stream /\ y.pending = x.pending
  /\ d.cmd # "handled" => c.cmd # "handled" /\ y.connecting = x.connecting
  /\ d.cmd = "handled" /\ d.fresh /\ ~d.cancelled => y.ch \/ y.errCh
  /\ d.data # "none" \/ d.fail # "none" => d.cmd = "handled"
  /\ ~d.fresh => y = x

LEMMA GoesOn ==
  ASSUME NEW x, NEW y, NEW cs, NEW ts, NEW c \in cs, NEW d,
         Sound(x, cs, ts), Goes(x, y, c, d)
  PROVE  Sound(y, (cs \ {c}) \cup {d}, ts)
<1> DEFINE new == (cs \ {c}) \cup {d}
<1>1. new \subseteq Feed!Connection /\ \A e \in new : e.fresh => e.held
  BY DEF Sound, Goes
<1>2. \A e, f \in new : e.fresh /\ f.fresh => e = f
  BY DEF Sound, Goes
<1>3. \A e \in new : e = d \/ e.cancelled \/ y = x
  BY DEF Sound, Goes
<1>4. \A e \in new : e = d \/ e \in cs
  OBVIOUS
<1> HIDE DEF new
<1>5. \A e \in new : /\ ~e.cancelled => e.fresh
                     /\ e.data # "none" \/ e.fail # "none" => e.cmd = "handled"
  BY <1>4 DEF Sound, Goes
<1>6. \A e \in new : ~e.cancelled /\ e.cmd # "handled" => y.connecting
  BY <1>3, <1>4 DEF Sound, Goes
<1>7. \A e \in new : ~e.cancelled /\ e.cmd = "handled" => y.ch \/ y.errCh
  BY <1>3, <1>4, <1>5 DEF Sound, Goes
<1> QED  BY <1>1, <1>2, <1>5, <1>6, <1>7 DEF new, Sound, Goes

(* disconnectTraffic, disconnectLogs.                                      *)
LEMMA Disconnects ==
  ASSUME NEW x, NEW c \in conns, NEW d, Sound(s, conns, timers), err \in BOOLEAN,
         x \in Feed!Stream, x.pending = s.pending, NEW failure,
         d \in Feed!Connection, d.held = c.held, d.cancelled = c.cancelled,
         d.data # "none" \/ d.fail # "none" => d.cmd = "handled",
         Feed!Disconnect(x, (conns \ {c}) \cup {d}, failure)
  PROVE  Sound(s', conns', timers') /\ err' \in BOOLEAN
<1> DEFINE cs == (conns \ {c}) \cup {d}
           again == Feed!Wanted(active, onPage) /\ ~x.pending /\ ~cancelled
<1>1. /\ s' = [Feed!Down EXCEPT !.pending = x.pending \/ again]
      /\ conns' = Feed!Bump(Feed!Cancel(cs))
      /\ timers' = Feed!Aged(timers) \cup (IF again THEN {TRUE} ELSE {})
      /\ err' \in BOOLEAN
  BY DEF Feed!Disconnect, Feed!Shown
<1>2. s' \in Feed!Stream /\ (s'.pending <=> x.pending \/ again)
  BY <1>1, DownTyped DEF Feed!Stream
<1>3. timers' \subseteq BOOLEAN /\ (TRUE \in timers' => again)
  BY <1>1, AgedTimers DEF Sound
<1>4. cs \subseteq Feed!Connection
        /\ \A e \in cs : /\ ~e.cancelled => e.held
                         /\ e.data # "none" \/ e.fail # "none" => e.cmd = "handled"
  BY DEF Sound
<1> HIDE DEF cs, again
<1>5. ASSUME NEW e \in Feed!Bump(Feed!Cancel(cs))
      PROVE  /\ e \in Feed!Connection /\ ~e.fresh /\ e.cancelled
             /\ e.data # "none" \/ e.fail # "none" => e.cmd = "handled"
  <2>1. PICK g \in Feed!Cancel(cs) : e = [g EXCEPT !.fresh = FALSE]
    BY DEF Feed!Bump
  <2>2. PICK f \in cs : g = [f EXCEPT !.held = FALSE, !.cancelled = f.cancelled \/ f.held]
    BY DEF Feed!Cancel
  <2>3. g \in Feed!Connection /\ (g.cancelled <=> f.cancelled \/ f.held)
          /\ g.cmd = f.cmd /\ g.data = f.data /\ g.fail = f.fail
    BY <1>4, <2>2, CancelledOne
  <2>4. e \in Feed!Connection /\ ~e.fresh /\ e.cancelled = g.cancelled
          /\ e.cmd = g.cmd /\ e.data = g.data /\ e.fail = g.fail
    BY <2>1, <2>3, BumpedOne
  <2> QED  BY <1>4, <2>3, <2>4
<1> QED  BY <1>1, <1>2, <1>3, <1>5 DEF Sound

(* A connection of which nothing changes that the fields tell.             *)
SameGoing(c, d) ==
  /\ d \in Feed!Connection /\ d.fresh = c.fresh /\ d.held = c.held
  /\ d.cancelled = c.cancelled /\ d.cmd = c.cmd
  /\ d.data # "none" => c.data # "none"
  /\ d.fail # "none" => c.fail # "none"

LEMMA SameGoes ==
  ASSUME Sound(s, conns, timers), NEW c \in conns, NEW d, SameGoing(c, d)
  PROVE  Goes(s, s, c, d)
BY DEF Sound, SameGoing, Goes

(* A message of an old generation, or a step of the backend, changes       *)
(* nothing that the fields tell.                                           *)
LEMMA BackendStep ==
  ASSUME StreamsInv, NEW c \in conns, Feed!Backend(c) \/ Feed!Send(c) \/ Feed!Drop(c)
  PROVE  StreamsInv'
<1>1. Sound(s, conns, timers) /\ c \in Feed!Connection
  BY DEF StreamsInv, Sound
<1>2. UNCHANGED <<service, active, onPage, suspended, err, s, timers>>
  BY DEF Feed!Backend, Feed!Send, Feed!Drop, Feed!Connect, Feed!End, Feed!WaitData, Feed!WaitError,
     Feed!Forget, Feed!Becomes
<1>3. CASE Feed!Forget(c)
  <2>1. conns' = conns \ {c}
    BY <1>3 DEF Feed!Forget, Feed!Without
  <2>2. Sound(s, conns', timers)
    BY <1>1, <2>1 DEF Sound
  <2>3. Off => Dark(s, conns', timers)
    BY <2>1 DEF StreamsInv, Dark
  <2> QED  BY <1>2, <2>2, <2>3 DEF StreamsInv, Off
<1>4. CASE ~Feed!Forget(c)
  <2>1. PICK d : conns' = (conns \ {c}) \cup {d} /\ Goes(s, s, c, d)
    <3>1. CASE Feed!Connect(c)
      <4> DEFINE d == [c EXCEPT !.cmd = "answered", !.open = TRUE]
      <4>1. conns' = (conns \ {c}) \cup {d} /\ c.cmd = "asked"
        BY <3>1 DEF Feed!Connect, Feed!Becomes
      <4>2. /\ d \in Feed!Connection /\ d.fresh = c.fresh /\ d.held = c.held
            /\ d.cancelled = c.cancelled /\ d.data = c.data /\ d.fail = c.fail /\ d.cmd = "answered"
        BY <1>1 DEF Feed!Connection
      <4> HIDE DEF d
      <4> QED  BY <1>1, <4>1, <4>2 DEF Goes, Sound
    <3>2. CASE Feed!WaitData(c)
      <4>1. PICK data \in {"item", "last", "end"} :
              \/ conns' = (conns \ {c}) \cup {[c EXCEPT !.data = data, !.item = FALSE]}
              \/ conns' = (conns \ {c}) \cup {[c EXCEPT !.data = data]}
        BY <3>2 DEF Feed!WaitData, Feed!Becomes
      <4>2. SameGoing(c, [c EXCEPT !.data = data, !.item = FALSE])
              /\ SameGoing(c, [c EXCEPT !.data = data])
        BY <1>1, <3>2 DEF SameGoing, Feed!Connection, Feed!WaitData
      <4> QED  BY <1>1, <4>1, <4>2, SameGoes
    <3>3. CASE Feed!WaitError(c)
      <4>1. \/ conns' = (conns \ {c}) \cup {[c EXCEPT !.fail = "error", !.error = FALSE]}
            \/ conns' = (conns \ {c}) \cup {[c EXCEPT !.fail = "end"]}
        BY <3>3 DEF Feed!WaitError, Feed!Becomes
      <4>2. SameGoing(c, [c EXCEPT !.fail = "error", !.error = FALSE])
              /\ SameGoing(c, [c EXCEPT !.fail = "end"])
        BY <1>1, <3>3 DEF SameGoing, Feed!Connection, Feed!WaitError
      <4> QED  BY <1>1, <4>1, <4>2, SameGoes
    <3>4. CASE Feed!Send(c)
      <4>1. SameGoing(c, [c EXCEPT !.item = TRUE])
        BY <1>1 DEF SameGoing, Feed!Connection
      <4> QED  BY <1>1, <3>4, <4>1, SameGoes DEF Feed!Send, Feed!Becomes
    <3>5. CASE Feed!Drop(c)
      <4>1. PICK e \in BOOLEAN :
              conns' = (conns \ {c}) \cup {[c EXCEPT !.open = FALSE, !.error = e]}
        BY <3>5 DEF Feed!Drop, Feed!Becomes
      <4>2. SameGoing(c, [c EXCEPT !.open = FALSE, !.error = e])
        BY <1>1 DEF SameGoing, Feed!Connection
      <4> QED  BY <1>1, <4>1, <4>2, SameGoes
    <3>6. CASE Feed!End(c)
      <4>1. SameGoing(c, [c EXCEPT !.open = FALSE])
        BY <1>1 DEF SameGoing, Feed!Connection
      <4> QED  BY <1>1, <3>6, <4>1, SameGoes DEF Feed!End, Feed!Becomes
    <3> QED  BY <1>4, <3>1, <3>2, <3>3, <3>4, <3>5, <3>6 DEF Feed!Backend
  <2>2. Sound(s, conns', timers)
    BY <1>1, <2>1, GoesOn
  <2>3. Off => Dark(s, conns', timers)
    BY <2>1 DEF StreamsInv, Dark, Goes
  <2> QED  BY <1>2, <2>2, <2>3 DEF StreamsInv, Off
<1> QED  BY <1>3, <1>4

(* A message of a current connection comes while the stream is wanted;     *)
(* what the others change is not seen.                                     *)
LEMMA MessageStep ==
  ASSUME StreamsInv, NEW c \in conns, Feed!Message(c)
  PROVE  StreamsInv'
<1>1. Sound(s, conns, timers) /\ c \in Feed!Connection /\ err \in BOOLEAN /\ s \in Feed!Stream
        /\ (c.data # "none" \/ c.fail # "none" => c.cmd = "handled")
  BY DEF StreamsInv, Sound
<1>2. UNCHANGED <<service, active, onPage, suspended>>
  BY DEF Feed!Message, Feed!ChannelsMsg, Feed!DataMsg, Feed!ErrorMsg
<1>3. c.fresh => ~Off
  BY DEF StreamsInv, Dark
<1>4. ASSUME ~c.fresh, UNCHANGED <<s, err, timers>>,
             NEW d, conns' = (conns \ {c}) \cup {d}, Goes(s, s, c, d)
      PROVE  StreamsInv'
  <2>1. Sound(s, conns', timers)
    BY <1>1, <1>4, GoesOn
  <2>2. Off => Dark(s, conns', timers)
    BY <1>4 DEF StreamsInv, Dark, Goes
  <2> QED  BY <1>2, <1>4, <2>1, <2>2 DEF StreamsInv, Off
<1>5. ASSUME c.fresh, Sound(s', conns', timers'), err' \in BOOLEAN
      PROVE  StreamsInv'
  BY <1>2, <1>3, <1>5 DEF StreamsInv, Off
<1>6. CASE Feed!ChannelsMsg(c)
  <2>1. CASE c.fresh
    <3> DEFINE d == [c EXCEPT !.cmd = "handled", !.data = "wait", !.fail = "wait"]
               y == [s EXCEPT !.connecting = FALSE, !.ch = TRUE, !.errCh = TRUE]
    <3>1. /\ s' = y /\ conns' = (conns \ {c}) \cup {d} /\ timers' = timers
          /\ err' = (err /\ kind = "traffic")
      BY <1>6, <2>1 DEF Feed!ChannelsMsg, Feed!Current, Feed!Without
    <3>2. d \in Feed!Connection /\ d.fresh = c.fresh /\ d.held = c.held /\ d.cancelled = c.cancelled
            /\ d.cmd = "handled"
      BY <1>1 DEF Feed!Connection
    <3>3. y \in Feed!Stream /\ y.ch /\ y.pending = s.pending
      BY <1>1 DEF Feed!Stream
    <3> HIDE DEF d, y
    <3>4. Goes(s, y, c, d)
      BY <2>1, <3>2, <3>3 DEF Goes
    <3>5. Sound(y, conns', timers)
      BY <1>1, <3>1, <3>4, GoesOn
    <3> QED  BY <1>5, <2>1, <3>1, <3>5
  <2>2. CASE ~c.fresh
    <3> DEFINE d == [c EXCEPT !.cmd = "handled"]
    <3>1. conns' = (conns \ {c}) \cup {d} /\ UNCHANGED <<s, err, timers>>
      BY <1>6, <2>2 DEF Feed!ChannelsMsg, Feed!Current, Feed!Without
    <3>2. d \in Feed!Connection /\ d.fresh = c.fresh /\ d.held = c.held /\ d.cancelled = c.cancelled
            /\ d.cmd = "handled"
      BY <1>1 DEF Feed!Connection
    <3> HIDE DEF d
    <3>3. Goes(s, s, c, d)
      BY <1>1, <2>2, <3>2 DEF Goes
    <3> QED  BY <1>4, <2>2, <3>1, <3>3
  <2> QED  BY <2>1, <2>2
<1>7. CASE Feed!DataMsg(c)
  <2>1. PICK data \in {"wait", "none"} :
          data = IF Feed!Current(c) /\ c.data = "item" /\ s.ch THEN "wait" ELSE "none"
    OBVIOUS
  <2> DEFINE d == [c EXCEPT !.data = data]
             x == [s EXCEPT !.ch = FALSE]
             cs == (conns \ {c}) \cup {d}
  <2>2. c.data # "none" /\ c.cmd = "handled"
    BY <1>1, <1>7 DEF Feed!DataMsg
  <2>3. SameGoing(c, d)
    BY <1>1, <2>2 DEF SameGoing, Feed!Connection
  <2>4. x \in Feed!Stream /\ x.pending = s.pending /\ x.errCh = s.errCh
    BY <1>1 DEF Feed!Stream
  <2>5. \/ ~c.fresh /\ conns' = cs /\ UNCHANGED <<s, err, timers>>
        \/ c.fresh /\ conns' = cs /\ err' = FALSE /\ UNCHANGED <<s, timers>>
        \/ /\ c.fresh /\ s.errCh /\ s' = x /\ conns' = cs /\ timers' = timers
           /\ err' = (err /\ c.data = "end")
        \/ c.fresh /\ Feed!Disconnect(x, cs, FALSE)
    BY <1>7, <2>1 DEF Feed!DataMsg, Feed!Current, Feed!Without
  <2>6. Goes(s, s, c, d)
    BY <1>1, <2>3, SameGoes
  <2> HIDE DEF d, x
  <2>7. CASE ~c.fresh
    BY <1>4, <2>5, <2>6, <2>7
  <2>8. CASE c.fresh /\ conns' = cs /\ err' = FALSE /\ UNCHANGED <<s, timers>>
    <3>1. Sound(s, cs, timers)
      BY <1>1, <2>6, GoesOn
    <3> QED  BY <1>5, <2>8, <3>1
  <2>9. CASE /\ c.fresh /\ s.errCh /\ s' = x /\ conns' = cs /\ timers' = timers
             /\ err' = (err /\ c.data = "end")
    <3>1. Goes(s, x, c, d)
      BY <2>2, <2>3, <2>4, <2>9 DEF SameGoing, Goes
    <3>2. Sound(x, cs, timers)
      BY <1>1, <3>1, GoesOn
    <3> QED  BY <1>5, <2>9, <3>2
  <2>10. CASE c.fresh /\ Feed!Disconnect(x, cs, FALSE)
    <3>1. Sound(s', conns', timers') /\ err' \in BOOLEAN
      BY <1>1, <2>2, <2>3, <2>4, <2>10, Disconnects DEF SameGoing
    <3> QED  BY <1>5, <2>10, <3>1
  <2> QED  BY <2>5, <2>7, <2>8, <2>9, <2>10
<1>8. CASE Feed!ErrorMsg(c)
  <2> DEFINE d == [c EXCEPT !.fail = "none"]
             x == [s EXCEPT !.errCh = FALSE]
             cs == (conns \ {c}) \cup {d}
  <2>1. c.fail # "none" /\ c.cmd = "handled"
    BY <1>1, <1>8 DEF Feed!ErrorMsg
  <2>2. SameGoing(c, d)
    BY <1>1, <2>1 DEF SameGoing, Feed!Connection
  <2>3. x \in Feed!Stream /\ x.pending = s.pending /\ x.ch = s.ch
    BY <1>1 DEF Feed!Stream
  <2>4. \/ ~c.fresh /\ conns' = cs /\ UNCHANGED <<s, err, timers>>
        \/ c.fresh /\ Feed!Disconnect(s, cs, TRUE)
        \/ c.fresh /\ s.ch /\ s' = x /\ conns' = cs /\ UNCHANGED <<err, timers>>
        \/ c.fresh /\ Feed!Disconnect(x, cs, FALSE)
    BY <1>8 DEF Feed!ErrorMsg, Feed!Current, Feed!Without
  <2>5. Goes(s, s, c, d)
    BY <1>1, <2>2, SameGoes
  <2> HIDE DEF d, x
  <2>6. CASE ~c.fresh
    BY <1>4, <2>4, <2>5, <2>6
  <2>7. CASE c.fresh /\ Feed!Disconnect(s, cs, TRUE)
    <3>1. Sound(s', conns', timers') /\ err' \in BOOLEAN
      BY <1>1, <2>1, <2>2, <2>7, Disconnects DEF SameGoing
    <3> QED  BY <1>5, <2>7, <3>1
  <2>8. CASE c.fresh /\ s.ch /\ s' = x /\ conns' = cs /\ UNCHANGED <<err, timers>>
    <3>1. Goes(s, x, c, d)
      BY <2>1, <2>2, <2>3, <2>8 DEF SameGoing, Goes
    <3>2. Sound(x, cs, timers)
      BY <1>1, <3>1, GoesOn
    <3> QED  BY <1>1, <1>5, <2>8, <3>2
  <2>9. CASE c.fresh /\ Feed!Disconnect(x, cs, FALSE)
    <3>1. Sound(s', conns', timers') /\ err' \in BOOLEAN
      BY <1>1, <2>1, <2>2, <2>3, <2>9, Disconnects DEF SameGoing
    <3> QED  BY <1>5, <2>9, <3>1
  <2> QED  BY <2>4, <2>6, <2>7, <2>8, <2>9
<1> QED  BY <1>6, <1>7, <1>8 DEF Feed!Message

-----------------------------------------------------------------------------
(* What the rest of the UI does to the stream.                             *)
LEMMA StopStep ==
  ASSUME Sound(s, conns, timers), Feed!Stop
  PROVE  Sound(s', conns', timers') /\ Dark(s', conns', timers')
BY Stopped DEF Feed!Stop

LEMMA StatusStep ==
  ASSUME StreamsInv, NEW forced \in BOOLEAN, Feed!StatusMsg(forced)
  PROVE  StreamsInv'
<1>1. /\ Sound(s, conns, timers) /\ ~suspended /\ err \in BOOLEAN /\ service \in BOOLEAN
      /\ active' = service /\ UNCHANGED <<service, onPage, suspended>>
      /\ onPage \in BOOLEAN /\ suspended \in BOOLEAN
      /\ err' = (err /\ service /\ ~forced) /\ err' \in BOOLEAN
  BY DEF Feed!StatusMsg, StreamsInv
<1>2. CASE forced
  <2>1. Feed!StopThenBegin(service, onPage, FALSE) /\ ~err'
    BY <1>1, <1>2 DEF Feed!StatusMsg
  <2>2. Sound(s', conns', timers') /\ (~service \/ ~onPage => Dark(s', conns', timers'))
    BY <1>1, <2>1, StopsThenBegins
  <2> QED  BY <1>1, <2>1, <2>2 DEF StreamsInv, Off
<1>3. CASE ~forced /\ ~service
  <2>1. CASE Feed!Present
    <3>1. Feed!Stop
      BY <1>3, <2>1 DEF Feed!StatusMsg
    <3> QED  BY <1>1, <1>3, <3>1, StopStep DEF StreamsInv, Off
  <2>2. CASE ~Feed!Present
    <3>1. UNCHANGED <<s, conns, timers>>
      BY <1>3, <2>2 DEF Feed!StatusMsg
    <3>2. s = Feed!Down /\ \A c \in conns : ~c.held
      BY <2>2 DEF Feed!Present
    <3>3. Dark(s, conns, timers)
      BY <1>1, <3>2, DownTyped DEF Sound, Dark
    <3> QED  BY <1>1, <1>3, <3>1, <3>3 DEF StreamsInv
  <2> QED  BY <2>1, <2>2
<1>4. CASE ~forced /\ service
  <2>1. Feed!Begin(s, conns, timers, service, onPage, FALSE)
    BY <1>4 DEF Feed!StatusMsg
  <2>2. Sound(s', conns', timers') /\ (~onPage => s' = s /\ conns' = conns /\ timers' = timers)
    BY <1>1, <2>1, Begins
  <2>3. ~onPage => Dark(s, conns, timers) /\ ~err
    BY DEF StreamsInv, Off
  <2> QED  BY <1>1, <1>4, <2>2, <2>3 DEF StreamsInv, Off
<1> QED  BY <1>2, <1>3, <1>4

LEMMA RefreshStep ==
  ASSUME StreamsInv, NEW forced \in BOOLEAN, Feed!PageRefresh(forced)
  PROVE  StreamsInv'
<1>1. /\ Sound(s, conns, timers) /\ onPage /\ err \in BOOLEAN
      /\ {active, onPage, suspended} \subseteq BOOLEAN
      /\ UNCHANGED <<service, active, onPage, suspended>>
      /\ err' = (err /\ ~forced) /\ err' \in BOOLEAN
  BY DEF Feed!PageRefresh, StreamsInv
<1>2. CASE forced
  <2>1. Feed!StopThenBegin(active, onPage, suspended) /\ ~err'
    BY <1>1, <1>2 DEF Feed!PageRefresh
  <2>2. Sound(s', conns', timers')
          /\ (~active \/ suspended \/ ~onPage => Dark(s', conns', timers'))
    BY <1>1, <2>1, StopsThenBegins
  <2> QED  BY <1>1, <2>1, <2>2 DEF StreamsInv, Off
<1>3. CASE ~forced
  <2>1. Feed!Begin(s, conns, timers, active, onPage, suspended)
    BY <1>3 DEF Feed!PageRefresh
  <2>2. Sound(s', conns', timers')
          /\ (~active \/ suspended \/ ~onPage
                => s' = s /\ conns' = conns /\ timers' = timers)
    BY <1>1, <2>1, Begins
  <2> QED  BY <1>1, <2>2 DEF StreamsInv, Off
<1> QED  BY <1>2, <1>3

LEMMA ReconnectStep ==
  ASSUME StreamsInv, NEW fresh \in BOOLEAN, Feed!Reconnect(fresh)
  PROVE  StreamsInv'
<1>1. /\ Sound(s, conns, timers) /\ s \in Feed!Stream /\ fresh \in timers
      /\ {active, onPage, suspended} \subseteq BOOLEAN
      /\ UNCHANGED <<service, active, onPage, suspended, err>>
  BY DEF Feed!Reconnect, StreamsInv, Sound
<1>2. Feed!Reconnected \in Feed!Stream /\ ~Feed!Reconnected.pending
        /\ Feed!Reconnected.connecting = s.connecting
        /\ Feed!Reconnected.ch = s.ch /\ Feed!Reconnected.errCh = s.errCh
  BY <1>1 DEF Feed!Reconnected, Feed!Stream
<1>3. /\ Sound(s, conns, timers \ {fresh})
      /\ fresh => Sound(Feed!Reconnected, conns, timers \ {fresh})
  BY <1>1, <1>2 DEF Sound
<1>4. CASE fresh /\ s.pending /\ Feed!Wanted(active, onPage)
  <2>1. Feed!Begin(Feed!Reconnected, conns, timers \ {fresh}, active, onPage, suspended)
    BY <1>4 DEF Feed!Reconnect
  <2>2. Sound(s', conns', timers')
    BY <1>1, <1>3, <1>4, <2>1, Begins
  <2>3. ~Off
    BY <1>1, <1>4 DEF StreamsInv, Dark
  <2> QED  BY <1>1, <2>2, <2>3 DEF StreamsInv, Off
<1>5. CASE ~(fresh /\ s.pending /\ Feed!Wanted(active, onPage))
  <2>1. /\ timers' = timers \ {fresh} /\ conns' = conns
        /\ s' = s \/ (fresh /\ s' = Feed!Reconnected)
    BY <1>5 DEF Feed!Reconnect
  <2>2. Sound(s', conns', timers')
    BY <1>3, <2>1
  <2>3. Off => s' = s /\ Dark(s, conns, timers')
    BY <1>1, <2>1 DEF StreamsInv, Dark
  <2> QED  BY <1>1, <2>1, <2>2, <2>3 DEF StreamsInv, Off
<1> QED  BY <1>4, <1>5

LEMMA SwitchStep == ASSUME StreamsInv, Feed!SwitchPage PROVE StreamsInv'
<1>1. /\ Sound(s, conns, timers) /\ UNCHANGED <<service, active, suspended>>
      /\ {service, active, onPage, suspended, ~onPage} \subseteq BOOLEAN
      /\ onPage' = ~onPage /\ err' = FALSE /\ Feed!StopThenBegin(active, ~onPage, suspended)
  BY DEF Feed!SwitchPage, StreamsInv
<1>2. Sound(s', conns', timers')
        /\ (~active \/ suspended \/ onPage => Dark(s', conns', timers'))
  BY <1>1, StopsThenBegins
<1> QED  BY <1>1, <1>2 DEF StreamsInv, Off

LEMMA SuspendStep == ASSUME StreamsInv, Feed!Suspend \/ Feed!Resume PROVE StreamsInv'
<1>1. /\ Sound(s, conns, timers) /\ UNCHANGED <<service, active, onPage>>
      /\ {service, active, onPage} \subseteq BOOLEAN
  BY DEF Feed!Suspend, Feed!Resume, StreamsInv
<1>2. CASE Feed!Suspend
  <2>1. suspended' = TRUE /\ err' = FALSE /\ Feed!Stop
    BY <1>2 DEF Feed!Suspend
  <2> QED  BY <1>1, <2>1, StopStep DEF StreamsInv
<1>3. CASE Feed!Resume
  <2>1. suspended /\ suspended' = FALSE /\ Dark(s, conns, timers) /\ ~err
    BY <1>3 DEF Feed!Resume, StreamsInv, Off
  <2>2. CASE UNCHANGED <<s, conns, timers, err>>
    BY <1>1, <2>1, <2>2 DEF StreamsInv, Off
  <2>3. CASE err' = FALSE /\ Feed!StopThenBegin(active, onPage, FALSE)
    <3>1. Sound(s', conns', timers') /\ (~active \/ ~onPage => Dark(s', conns', timers'))
      BY <1>1, <2>3, StopsThenBegins
    <3> QED  BY <1>1, <2>1, <2>3, <3>1 DEF StreamsInv, Off
  <2> QED  BY <1>3, <2>2, <2>3 DEF Feed!Resume
<1> QED  BY <1>2, <1>3

LEMMA QuitStep == ASSUME StreamsInv, Feed!Quit PROVE StreamsInv'
<1>1. /\ Sound(s, conns, timers) /\ conns \subseteq Feed!Connection
      /\ conns' = {[c EXCEPT !.cancelled = TRUE] : c \in conns}
      /\ UNCHANGED <<service, active, onPage, suspended, s, err, timers>>
  BY DEF Feed!Quit, StreamsInv, Sound
<1>2. ASSUME NEW e \in conns'
      PROVE  \E c \in conns :
               /\ e = [c EXCEPT !.cancelled = TRUE]
               /\ e \in Feed!Connection /\ e.fresh = c.fresh /\ e.held = c.held /\ e.cancelled
               /\ e.cmd = c.cmd /\ e.data = c.data /\ e.fail = c.fail
  <2>1. PICK c \in conns : e = [c EXCEPT !.cancelled = TRUE]
    BY <1>1
  <2> QED  BY <1>1, <2>1, QuitOne
<1>3. Sound(s, conns', timers)
  <2>1. conns' \subseteq Feed!Connection /\ \A e \in conns' : e.cancelled
    BY <1>2
  <2>2. \A e \in conns' : /\ e.fresh => e.held
                          /\ e.data # "none" \/ e.fail # "none" => e.cmd = "handled"
    BY <1>1, <1>2 DEF Sound
  <2>3. ASSUME NEW e \in conns', NEW f \in conns', e.fresh, f.fresh PROVE e = f
    <3>1. PICK c \in conns : e = [c EXCEPT !.cancelled = TRUE] /\ c.fresh
      BY <1>2, <2>3
    <3>2. PICK d \in conns : f = [d EXCEPT !.cancelled = TRUE] /\ d.fresh
      BY <1>2, <2>3
    <3> QED  BY <1>1, <3>1, <3>2 DEF Sound
  <2> QED  BY <1>1, <2>1, <2>2, <2>3 DEF Sound
<1>4. Off => Dark(s, conns', timers)
  BY <1>2 DEF StreamsInv, Dark
<1> QED  BY <1>1, <1>3, <1>4 DEF StreamsInv, Off

-----------------------------------------------------------------------------
LEMMA StreamsAlways == LoopSpec => []StreamsInv
<1>1. LoopInit => StreamsInv
  BY DownTyped DEF LoopInit, Feed!Init, StreamsInv, Sound, Dark
<1>2. StreamsInv /\ [LoopNext]_<<part, vars, stream>> => StreamsInv'
  <2> SUFFICES ASSUME StreamsInv, [LoopNext]_<<part, vars, stream>> PROVE StreamsInv'
    OBVIOUS
  <2>1. CASE Feed!ServiceChanges
    BY <2>1 DEF Feed!ServiceChanges, StreamsInv, Off
  <2>2. CASE UNCHANGED stream
    BY <2>2 DEF stream, moving, StreamsInv, Off
  <2>3. CASE Feed!Steps
    BY <2>1, <2>3, StatusStep, RefreshStep, ReconnectStep, SwitchStep, SuspendStep, QuitStep,
       MessageStep, BackendStep DEF Feed!Steps
  <2> QED  BY <2>2, <2>3 DEF LoopNext, Feed!Next
<1> QED  BY <1>1, <1>2, PTL DEF LoopSpec

(* Whatever fails, is restarted or arrives late: a connection that was not *)
(* cancelled is the only one, its cancel function is kept, and none is     *)
(* left when the stream is not wanted (model.go:799, :963, :1948).         *)
THEOREM NothingStrays == LoopSpec => []NoStray
<1>1. StreamsInv => NoStray
  BY DEF StreamsInv, Sound, Dark, Off, NoStray, Feed!NoStray
<1> QED  BY <1>1, StreamsAlways, PTL
=============================================================================
