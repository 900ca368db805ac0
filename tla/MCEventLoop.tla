----------------------------- MODULE MCEventLoop ----------------------------
(***************************************************************************)
(* What the event loop of the terminal UI has to bring to an end, for TLC: *)
(* operations and quits (Operations), and a stream (Streams).  They share  *)
(* no state here; a behaviour is one of them, the variables of the other   *)
(* keep an initial value.                                                  *)
(***************************************************************************)
EXTENDS Operations, FiniteSets

CONSTANTS
  MaxFails, MaxForced, MaxStops                              \* of Streams

VARIABLES
  part,                                                      \* which of them
  kind, service, active, onPage, suspended, cancelled, s, err, conns, timers,
  used                                                       \* of Streams

Feed == INSTANCE Streams WITH closed <- cancelled

moving == <<service, active, onPage, suspended, cancelled, s, err, conns,
            timers, used>>
stream == <<kind, moving>>

LoopInit ==
  /\ part \in {"operations", "stream"}
  /\ Init /\ Feed!Init
  /\ part # "stream" => kind = "logs" /\ ~service

LoopNext ==
  \/ part = "operations" /\ Next /\ UNCHANGED <<part, stream>>
  \/ part = "stream" /\ Feed!Next /\ UNCHANGED <<part, vars>>

(* The fairness of each, as long as it is the one that runs.               *)
OperationsFair ==
  /\ \A i \in Attempts : WF_vars(part = "operations" /\ Advance(i))
  /\ WF_vars(part = "operations" /\ (SaveEnds \/ HandleLanguage))
  /\ WF_vars(part = "operations" /\ (Stop \/ Exit))

StreamFair ==
  /\ WF_moving(part = "stream" /\ Feed!StatusMsg(FALSE))
  /\ WF_moving(part = "stream" /\ Feed!Resume)
  /\ \A fresh \in BOOLEAN :
       /\ WF_moving(part = "stream" /\ Feed!Reconnect(fresh))
       /\ WF_moving(/\ part = "stream"
                    /\ \E c \in conns : /\ c.fresh = fresh
                                        /\ Feed!Backend(c) \/ Feed!Message(c))

LoopSpec ==
  /\ LoopInit /\ [][LoopNext]_<<part, vars, stream>>
  /\ OperationsFair /\ StreamFair
-----------------------------------------------------------------------------
(* No connection of a stream outlives its use (model.go:799).              *)
NoStray == Feed!NoStray

(* A wanted stream comes back, however it was lost or stopped              *)
(* (model.go:1403).                                                        *)
Reconnects == [](part = "stream") => Feed!Reconnects
=============================================================================
