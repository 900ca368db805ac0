------------------------------ MODULE MCProcess -----------------------------
(***************************************************************************)
(* Three protocols that one mihomoctl process takes part in beside its     *)
(* operations, for TLC: watching the traffic (Watch), having a privileged  *)
(* command run (Elevation) and answering a status (Status).  They share no *)
(* state; a behaviour is one of the first, the second or the third, the    *)
(* variables of the other two keep one of their initial values.            *)
(***************************************************************************)
EXTENDS Watch, Elevation

CONSTANT MaxChanges  \* bound of Status

VARIABLES
  part,  \* which of the three
  disk, public, running, op, mem, req, root, killed, changes  \* of Status

status == <<disk, public, running, op, mem, req, root, killed, changes>>

CoreStatus == INSTANCE Status WITH core <- running

ProcessInit ==
  /\ Init /\ RequestInit /\ CoreStatus!Init
  /\ part \in {"watch", "request", "status"}
  /\ part # "watch" => core = "up"
  /\ part # "request" => mode = "quiet"
  /\ part # "status" => ~root

ProcessNext ==
  \/ part = "watch" /\ Next /\ UNCHANGED <<part, request, status>>
  \/ part = "request" /\ RequestNext /\ UNCHANGED <<part, vars, status>>
  \/ part = "status" /\ CoreStatus!Next /\ UNCHANGED <<part, vars, request>>

(* The fairness of Watch.                                                  *)
ProcessSpec ==
  /\ ProcessInit /\ [][ProcessNext]_<<part, vars, request, status>>
  /\ WF_vars(part = "watch" /\ Streaming) /\ WF_vars(part = "watch" /\ Watching)
  /\ WF_vars(part = "watch" /\ Receive) /\ WF_vars(part = "watch" /\ Tick)

(* A cancelled stream ends and its channels are closed even if nobody      *)
(* reads it, and so does one whose core fell silent or whose reader went   *)
(* away (runtime.go:447).                                                  *)
Releases == [](part = "watch") => Released

(* A drift is reported exactly if the core runs another configuration than *)
(* settings and active document give (runtime.go:166), unless an operation *)
(* was killed before it published; root sees the store's active profile    *)
(* even then (runtime.go:109).                                             *)
StatusTrue == CoreStatus!DriftTrue /\ CoreStatus!ActiveTrue

(* The version kept and the one shown are of the core the process talks to *)
(* (runtime.go:177).                                                       *)
VersionOwned == CoreStatus!VersionOwned
=============================================================================
