------------------------------ MODULE MCRequests -----------------------------
(***************************************************************************)
(* Requests for TLC.  What a page that is not of the runtime shows does    *)
(* not depend on the core, so one that does not answer is met only on a    *)
(* page of the runtime: a bound, and one that stops no fair action.        *)
(***************************************************************************)
EXTENDS Requests

Met(svc, p) == svc = "unreachable" => p \in RuntimePages

ScreenSpec ==
  /\ Init /\ Met(world.svc, page)
  /\ [][Next /\ Met(world'.svc, page')]_vars
  /\ Fairness
=============================================================================
