--------------------------- MODULE Requests_proofs --------------------------
(***************************************************************************)
(* How the terminal UI keeps what it shows current, for every number of    *)
(* pages, operations and versions of the world.  The calls of a current    *)
(* generation are Timely: there is one of a kind, of the status or of the  *)
(* page shown, and what it answers is not older than what is shown, nor,   *)
(* unless its answer is to be dropped, than what was confirmed.            *)
(***************************************************************************)
EXTENDS Requests, TLAPS

Timely(cs, w, sh, co, fl, pg) ==
  /\ cs \subseteq Call
  /\ \A c \in cs : c.answer.v <= w /\ c.at <= fl
  /\ \A c \in cs : c.fresh => c.kind \in {"status", pg}
  /\ \A c, d \in cs : c.fresh /\ d.fresh /\ c.kind = d.kind => c = d
  /\ \A c \in cs : c.fresh /\ c.answer.st = "ok" => c.answer.v >= sh[c.kind]
  /\ \A c \in cs : /\ c.fresh /\ c.answer.st = "ok"
                   /\ c.kind # "status" \/ c.at >= fl
                   => c.answer.v >= co

(* The requestStates, and those that were begun from r.                    *)
Proper(r) == r \in [Kinds -> Request] /\ \A k \in Kinds : r[k].queued => r[k].inFlight
Granted(q, r, act, susp) ==
  \A k \in Kinds : q[k].inFlight => r[k].inFlight \/ Allowed(k, act, susp)

(* No version is shown, confirmed or left by an operation that the world   *)
(* has not reached; and a floor belongs to an operation that has ended.    *)
Reached ==
  /\ \A k \in Kinds : shown[k] <= world.v
  /\ confirmed <= world.v /\ op.v <= world.v
  /\ floor <= op.count /\ (op.st # "none" => floor < op.count)

RequestsInv ==
  /\ TypeOK /\ Quiet /\ Reached
  /\ Timely(calls, world.v, shown, confirmed, floor, page)

-----------------------------------------------------------------------------
LEMMA KindsApart ==
  /\ Runtime \subseteq Kinds /\ RuntimePages \subseteq Pages /\ Pages \subseteq Kinds
  /\ "status" \in Runtime /\ "status" \notin Pages /\ "status" \notin RuntimePages
  /\ \A k \in Kinds : k \in Pages \/ k = "status"
  /\ \A k \in Runtime : k \in RuntimePages \/ k = "status"
BY PagesAssumption, StatusAssumption DEF Kinds, Runtime

LEMMA IdleRequest == Idle \in Request /\ ~Idle.inFlight /\ ~Idle.queued
BY DEF Idle, Request

LEMMA NoAnswer == /\ Asked \in Answer /\ Asked.st = "asked" /\ Asked.v = 0
                  /\ Failure \in Answer /\ Failure.st = "error" /\ Failure.v = 0
<1>1. Asked \in Answer /\ Asked.st = "asked" /\ Asked.v = 0
  BY BoundsAssumption DEF Asked, Answer
<1> QED  BY <1>1 DEF Failure, Answer

LEMMA QueuedRequest ==
  ASSUME NEW r \in Request, r.queued => r.inFlight, NEW k, NEW ks
  PROVE  Queue(r, k \in ks) \in Request /\ Queue(r, k \in ks).inFlight
<1>1. CASE r.inFlight
  BY <1>1 DEF Queue, Request
<1>2. CASE ~r.inFlight
  BY <1>2, IdleRequest DEF Queue, Request
<1> QED  BY <1>1, <1>2

(* cancelRequest.                                                          *)
LEMMA Cancels ==
  ASSUME NEW r, NEW ks, Proper(r)
  PROVE  /\ Proper(Cancelled(r, ks))
         /\ \A k \in Kinds : Cancelled(r, ks)[k].inFlight <=> k \notin ks /\ r[k].inFlight
BY IdleRequest DEF Cancelled, Proper

(* What becomes of calls that are cancelled.                               *)
LEMMA StaleCalls ==
  ASSUME NEW cs \in SUBSET Call, NEW ks, NEW x \in Stale(cs, ks)
  PROVE  /\ x \in Call
         /\ x.fresh => x \in cs /\ x.kind \notin ks
         /\ \E c \in cs : x.at = c.at /\ x.kind = c.kind /\ (x.answer.v = c.answer.v \/ x.answer.v = 0)
<1>1. PICK c \in cs : x = IF c.kind \notin ks \/ ~c.fresh THEN c
                          ELSE [c EXCEPT !.fresh = FALSE,
                                         !.answer = IF c.answer.st = "asked" THEN Failure ELSE c.answer]
  BY DEF Stale
<1>2. CASE c.kind \notin ks \/ ~c.fresh
  BY <1>1, <1>2
<1>3. CASE ~(c.kind \notin ks \/ ~c.fresh)
  <2>1. PICK a \in Answer : /\ a = IF c.answer.st = "asked" THEN Failure ELSE c.answer
                            /\ a.v = c.answer.v \/ a.v = 0
    BY NoAnswer DEF Call
  <2>2. x = [c EXCEPT !.fresh = FALSE, !.answer = a]
    BY <1>1, <1>3, <2>1
  <2>3. x \in Call /\ ~x.fresh /\ x.at = c.at /\ x.kind = c.kind /\ x.answer = a
    BY <2>1, <2>2 DEF Call
  <2> QED  BY <2>1, <2>3
<1> QED  BY <1>2, <1>3

-----------------------------------------------------------------------------
(* The bounds Timely is about.                                             *)
Bounds(w, sh, co, fl) ==
  w \in 0 .. MaxWorld /\ sh \in [Kinds -> 0 .. MaxWorld] /\ co \in 0 .. MaxWorld /\ fl \in 0 .. MaxOps

LEMMA StalesTimely ==
  ASSUME NEW cs, NEW w, NEW sh, NEW co, NEW fl, NEW pg, NEW ks,
         Bounds(w, sh, co, fl), Timely(cs, w, sh, co, fl, pg)
  PROVE  /\ Timely(Stale(cs, ks), w, sh, co, fl, pg)
         /\ \A c \in Stale(cs, ks) : c.fresh => c.kind \notin ks
<1> DEFINE new == Stale(cs, ks)
<1>1. cs \in SUBSET Call
  BY DEF Timely
<1>2. \A x \in new :
        /\ x \in Call
        /\ x.fresh => x \in cs /\ x.kind \notin ks
        /\ \E c \in cs : x.at = c.at /\ x.kind = c.kind /\ (x.answer.v = c.answer.v \/ x.answer.v = 0)
  BY <1>1, StaleCalls
<1> HIDE DEF new
<1>3. \A x \in new : x.answer.v <= w /\ x.at <= fl
  BY <1>2 DEF Timely, Bounds
<1>4. new \subseteq Call /\ \A x \in new : x.fresh => x \in cs
  BY <1>2
<1> QED  BY <1>2, <1>3, <1>4 DEF Timely, new

(* A set of calls from which some are taken is timely.                     *)
LEMMA FewerTimely ==
  ASSUME NEW cs, NEW w, NEW sh, NEW co, NEW fl, NEW pg, NEW few \in SUBSET cs,
         Timely(cs, w, sh, co, fl, pg)
  PROVE  Timely(few, w, sh, co, fl, pg)
BY DEF Timely

(* The begin...Refresh functions.                                          *)
LEMMA Begins ==
  ASSUME NEW r, Proper(r), NEW cs, NEW ks, NEW forced, NEW act, NEW susp,
         NEW w, NEW sh, NEW co, NEW fl, NEW pg, Bounds(w, sh, co, fl),
         Timely(cs, w, sh, co, fl, pg), ks \subseteq Kinds, ks \subseteq {"status", pg},
         Begin(r, cs, ks, forced, act, susp, fl)
  PROVE  Proper(req') /\ Granted(req', r, act, susp) /\ Timely(calls', w, sh, co, fl, pg)
<1> DEFINE asked == {k \in ks : Allowed(k, act, susp)}
           begun == {k \in asked : ~r[k].inFlight}
           old   == Stale(cs, begun)
           fresh == {[kind |-> k, fresh |-> TRUE, at |-> IF k = "status" THEN fl ELSE 0,
                      answer |-> Asked] : k \in begun}
<1>1. /\ req' = [k \in Kinds |-> IF k \in asked THEN Queue(r[k], k \in forced) ELSE r[k]]
      /\ calls' = old \cup fresh
  BY DEF Begin
<1>2. \A k \in Kinds : Queue(r[k], k \in forced) \in Request /\ Queue(r[k], k \in forced).inFlight
  BY QueuedRequest DEF Proper
<1>3. Proper(req')
  BY <1>1, <1>2 DEF Proper
<1>4. Granted(req', r, act, susp)
  BY <1>1 DEF Granted
<1>5. Timely(old, w, sh, co, fl, pg) /\ \A c \in old : c.fresh => c.kind \notin begun
  BY StalesTimely
<1>6. ASSUME NEW x \in fresh
      PROVE  /\ x \in Call /\ x.answer.v = 0 /\ x.answer.st = "asked" /\ x.at <= fl
             /\ x.kind \in begun /\ x.fresh
             /\ \A y \in fresh : y.kind = x.kind => y = x
  <2>1. PICK k \in begun : x = [kind |-> k, fresh |-> TRUE, at |-> IF k = "status" THEN fl ELSE 0,
                                answer |-> Asked]
    OBVIOUS
  <2>2. (IF k = "status" THEN fl ELSE 0) \in 0 .. MaxOps /\ (IF k = "status" THEN fl ELSE 0) <= fl
    BY BoundsAssumption DEF Bounds
  <2>3. x \in Call /\ x.kind = k /\ x.answer = Asked /\ x.fresh /\ x.at <= fl
    BY <2>1, <2>2, NoAnswer DEF Call
  <2>4. \A y \in fresh : y.kind = x.kind => y = x
    BY <2>1, <2>3
  <2> QED  BY <2>3, <2>4, NoAnswer
<1>7. begun \subseteq {"status", pg}
  OBVIOUS
<1> HIDE DEF begun, asked, old, fresh
<1>8. Timely(calls', w, sh, co, fl, pg)
  <2>1. \A c \in calls' : c \in old \/ c \in fresh
    BY <1>1
  <2>2. calls' \subseteq Call /\ \A c \in calls' : c.answer.v <= w /\ c.at <= fl
    BY <1>5, <1>6, <2>1 DEF Timely, Bounds
  <2>3. \A c \in calls' : c.fresh => c.kind \in {"status", pg}
    BY <1>5, <1>6, <1>7, <2>1 DEF Timely
  <2>4. \A c, d \in calls' : c.fresh /\ d.fresh /\ c.kind = d.kind => c = d
    BY <1>5, <1>6, <2>1 DEF Timely
  <2>5. \A c \in calls' : c.fresh /\ c.answer.st = "ok" => c \in old
    BY <1>6, <2>1
  <2> QED  BY <1>5, <2>2, <2>3, <2>4, <2>5 DEF Timely
<1> QED  BY <1>3, <1>4, <1>8

-----------------------------------------------------------------------------
(* What the lemmas above need of a state.                                  *)
LEMMA StateBounds ==
  ASSUME RequestsInv
  PROVE  /\ Bounds(world.v, shown, confirmed, floor)
         /\ Timely(calls, world.v, shown, confirmed, floor, page)
         /\ Proper(req)
         /\ active \in BOOLEAN /\ Suspended \in BOOLEAN /\ page \in Kinds /\ page \in Pages
         /\ page # "status" /\ {"status", page} \subseteq Kinds
BY KindsApart DEF RequestsInv, TypeOK, World, Bounds, Suspended, Proper

(* Ticks, the refresh key and a page switch ask for the status and the     *)
(* page.                                                                   *)
LEMMA AskStep ==
  ASSUME RequestsInv, NEW ks \in SUBSET {"status", page}, NEW forced,
         Begin(req, calls, ks, forced, active, Suspended, floor),
         UNCHANGED <<world, op, page, active, shown, errs, recovering, floor, confirmed>>
  PROVE  RequestsInv'
<1>1. Proper(req') /\ Granted(req', req, active, Suspended)
        /\ Timely(calls', world.v, shown, confirmed, floor, page)
  <2>1. ks \subseteq Kinds
    BY StateBounds
  <2> QED  BY <2>1, StateBounds, Begins
<1>2. TypeOK'
  BY <1>1 DEF RequestsInv, TypeOK, Timely, Proper
<1>3. Quiet'
  BY <1>1, KindsApart DEF RequestsInv, Quiet, Granted, Allowed, Suspended, Runtime
<1> QED  BY <1>1, <1>2, <1>3 DEF RequestsInv, Reached

LEMMA SwitchStep ==
  ASSUME RequestsInv, NEW p \in Pages, SwitchPage(p)
  PROVE  RequestsInv'
<1> DEFINE r == Cancelled(req, {page})
           cs == Stale(calls, {page})
<1>1. /\ page' = p /\ errs' = errs \ {page} /\ Begin(r, cs, {p}, {p}, active, Suspended, floor)
      /\ UNCHANGED <<world, op, active, shown, recovering, floor, confirmed>>
  BY DEF SwitchPage
<1>2. Proper(r) /\ \A k \in Kinds : r[k].inFlight => req[k].inFlight
  BY StateBounds, Cancels
<1>3. /\ Timely(cs, world.v, shown, confirmed, floor, page)
      /\ \A c \in cs : c.fresh => c.kind \notin {page}
  BY StateBounds, StalesTimely
<1> HIDE DEF r, cs
<1>4. Timely(cs, world.v, shown, confirmed, floor, p)
  BY <1>3 DEF Timely
<1>5. {p} \subseteq Kinds /\ {p} \subseteq {"status", p}
  BY KindsApart
<1>6. Proper(req') /\ Granted(req', r, active, Suspended)
        /\ Timely(calls', world.v, shown, confirmed, floor, p)
  BY <1>1, <1>2, <1>4, <1>5, StateBounds, Begins
<1>7. TypeOK'
  BY <1>1, <1>6 DEF RequestsInv, TypeOK, Timely, Proper
<1>8. Quiet'
  BY <1>1, <1>2, <1>6, KindsApart DEF RequestsInv, Quiet, Granted, Allowed, Suspended, Runtime
<1> QED  BY <1>1, <1>6, <1>7, <1>8 DEF RequestsInv, Reached

(* The world changes; goroutines read it; a message is dropped.            *)
LEMMA ChangeStep == ASSUME RequestsInv, Change PROVE RequestsInv'
<1>1. /\ world' \in World /\ world'.v > world.v
      /\ UNCHANGED <<op, page, req, calls, active, shown, errs, recovering, floor, confirmed>>
  <2>1. PICK svc \in Services : world' = [v |-> world.v + 1, svc |-> svc]
    BY DEF Change
  <2>2. world.v \in 1 .. MaxWorld /\ world.v < MaxWorld
    BY DEF Change, RequestsInv, TypeOK, World
  <2> QED  BY <2>1, <2>2, BoundsAssumption DEF Change, World
<1>2. world.v \in Nat /\ world'.v \in Nat /\ confirmed \in Nat /\ op.v \in Nat
        /\ \A k \in Kinds : shown[k] \in Nat
  BY <1>1 DEF RequestsInv, TypeOK, World, Operation
<1>3. Timely(calls, world'.v, shown, confirmed, floor, page)
  BY <1>1, <1>2 DEF RequestsInv, Timely, Call, Answer
<1>4. Reached'
  BY <1>1, <1>2 DEF RequestsInv, Reached
<1>5. TypeOK' /\ Quiet'
  BY <1>1 DEF RequestsInv, TypeOK, Quiet, Suspended
<1> QED  BY <1>1, <1>3, <1>4, <1>5 DEF RequestsInv

LEMMA AnswerStep ==
  ASSUME RequestsInv, NEW c \in calls, Read(c) \/ TimeOut(c)
  PROVE  RequestsInv'
<1>1. PICK a \in Answer : /\ calls' = (calls \ {c}) \cup {[c EXCEPT !.answer = a]}
                          /\ a.v = 0 \/ a.v = world.v
                          /\ a.st = "ok" => a.v = world.v
  <2>1. CASE Read(c)
    <3>1. Answers(c) \in Answer /\ (Answers(c).v = 0 \/ Answers(c).v = world.v)
            /\ (Answers(c).st = "ok" => Answers(c).v = world.v)
      BY BoundsAssumption DEF Answers, Answer, RequestsInv, TypeOK, World
    <3> QED  BY <2>1, <3>1 DEF Read
  <2>2. CASE TimeOut(c)
    BY <2>2, NoAnswer DEF TimeOut
  <2> QED  BY <2>1, <2>2
<1>2. UNCHANGED <<world, op, page, req, active, shown, errs, recovering, floor, confirmed>>
  BY DEF Read, TimeOut
<1> DEFINE d == [c EXCEPT !.answer = a]
<1>3. c \in Call /\ d \in Call /\ d.kind = c.kind /\ d.fresh = c.fresh /\ d.at = c.at /\ d.answer = a
  BY DEF RequestsInv, TypeOK, Call
<1>4. calls' = (calls \ {c}) \cup {d}
  BY <1>1
<1> HIDE DEF d
<1>5. a.v <= world.v
        /\ (a.st = "ok" => a.v >= shown[c.kind] /\ a.v >= confirmed)
  BY <1>1, <1>3 DEF RequestsInv, Reached, TypeOK, World, Call, Answer
<1>6. Timely(calls', world.v, shown, confirmed, floor, page)
  BY <1>3, <1>4, <1>5 DEF RequestsInv, Timely
<1>7. TypeOK' /\ Quiet' /\ Reached'
  BY <1>2, <1>6 DEF RequestsInv, TypeOK, Timely, Quiet, Suspended, Reached
<1> QED  BY <1>2, <1>6, <1>7 DEF RequestsInv

LEMMA DropStep == ASSUME RequestsInv, NEW c \in calls, Drop(c) PROVE RequestsInv'
<1>1. /\ calls' = calls \ {c}
      /\ UNCHANGED <<world, op, page, req, active, shown, errs, recovering, floor, confirmed>>
  BY DEF Drop
<1>2. Timely(calls \ {c}, world.v, shown, confirmed, floor, page)
  BY FewerTimely DEF RequestsInv
<1>3. TypeOK' /\ Quiet' /\ Reached'
  BY <1>1 DEF RequestsInv, TypeOK, Quiet, Suspended, Reached
<1> QED  BY <1>1, <1>2, <1>3 DEF RequestsInv

-----------------------------------------------------------------------------
(* Messages with answers that are accepted.                                *)
LEMMA Rests ==
  ASSUME NEW k \in Kinds, Proper(req)
  PROVE  /\ Proper(Rest(k))
         /\ \A j \in Kinds : Rest(k)[j].inFlight <=> j # k /\ req[j].inFlight
BY IdleRequest DEF Rest, Proper

LEMMA OutdatedStep ==
  ASSUME RequestsInv, NEW c \in calls, DropOutdated(c)
  PROVE  RequestsInv'
<1>1. /\ Begin(Rest("status"), calls \ {c}, Queued("status"), {"status"}, active, Suspended, floor)
      /\ UNCHANGED <<world, op, page, active, shown, errs, recovering, floor, confirmed>>
  BY DEF DropOutdated
<1>2. Proper(Rest("status")) /\ \A k \in Kinds : Rest("status")[k].inFlight => req[k].inFlight
  BY StateBounds, KindsApart, Rests DEF Runtime
<1>3. Timely(calls \ {c}, world.v, shown, confirmed, floor, page)
  BY FewerTimely, StateBounds
<1>4. Queued("status") \subseteq Kinds /\ Queued("status") \subseteq {"status", page}
  BY StateBounds DEF Queued
<1>5. Proper(req') /\ Granted(req', Rest("status"), active, Suspended)
        /\ Timely(calls', world.v, shown, confirmed, floor, page)
  BY <1>1, <1>2, <1>3, <1>4, StateBounds, Begins
<1>6. TypeOK'
  BY <1>1, <1>5 DEF RequestsInv, TypeOK, Timely, Proper
<1>7. Quiet'
  BY <1>1, <1>2, <1>5, KindsApart DEF RequestsInv, Quiet, Granted, Allowed, Suspended, Runtime
<1> QED  BY <1>1, <1>5, <1>6, <1>7 DEF RequestsInv, Reached

(* What is shown after an answer of the kind k with the version v: that    *)
(* version, nothing, or what was shown.                                    *)
LEMMA ShowsTimely ==
  ASSUME NEW cs, NEW w, NEW sh, NEW new, NEW co, NEW fl, NEW pg, NEW c \in cs, c.fresh,
         Bounds(w, sh, co, fl), new \in [Kinds -> 0 .. MaxWorld],
         Timely(cs, w, sh, co, fl, pg),
         \A k \in Kinds \ {c.kind} : new[k] \in {sh[k], 0}
  PROVE  Timely(cs \ {c}, w, new, co, fl, pg)
<1>1. \A d \in cs \ {c} : d.fresh => d.kind \in Kinds \ {c.kind}
  BY DEF Timely, Call
<1>2. \A d \in cs \ {c} : d.fresh => new[d.kind] \in {sh[d.kind], 0}
  BY <1>1
<1>3. \A d \in cs : d.answer.v \in 0 .. MaxWorld
  BY DEF Timely, Call, Answer
<1> QED  BY <1>2, <1>3 DEF Timely

LEMMA PageStep == ASSUME RequestsInv, NEW c \in calls, PageMsg(c) PROVE RequestsInv'
<1> DEFINE ks == Queued(c.kind) \cap {page}
<1>1. /\ c.kind \in Pages /\ req[c.kind].inFlight /\ c.fresh
      /\ shown' = IF c.answer.st = "ok" THEN [shown EXCEPT ![c.kind] = c.answer.v] ELSE shown
      /\ errs' = ErrorsShown(c.kind, c)
      /\ Begin(Rest(c.kind), calls \ {c}, ks, {page}, active, Suspended, floor)
      /\ UNCHANGED <<world, op, page, active, recovering, floor, confirmed>>
  BY DEF PageMsg, Accepts
<1>2. c \in Call /\ c.kind \in Kinds /\ c.answer.v \in 0 .. MaxWorld /\ c.answer.v <= world.v
  BY KindsApart DEF RequestsInv, Timely, Call, Answer
<1>3. Proper(Rest(c.kind)) /\ \A k \in Kinds : Rest(c.kind)[k].inFlight => req[k].inFlight
  BY <1>2, StateBounds, Rests
<1>4. shown' \in [Kinds -> 0 .. MaxWorld] /\ \A k \in Kinds : shown'[k] <= world.v
        /\ (k # c.kind => shown'[k] = shown[k])
  BY <1>1, <1>2 DEF RequestsInv, TypeOK, Reached
<1>5. Bounds(world.v, shown', confirmed, floor)
  BY <1>4, StateBounds DEF Bounds
<1>6. Timely(calls \ {c}, world.v, shown', confirmed, floor, page)
  BY <1>1, <1>4, StateBounds, ShowsTimely
<1>7. ks \subseteq Kinds /\ ks \subseteq {"status", page}
  BY StateBounds
<1> HIDE DEF ks
<1>8. Proper(req') /\ Granted(req', Rest(c.kind), active, Suspended)
        /\ Timely(calls', world.v, shown', confirmed, floor, page)
  BY <1>1, <1>3, <1>5, <1>6, <1>7, StateBounds, Begins
<1>9. errs' \subseteq Kinds /\ \A k \in errs' : k \in errs \/ k = c.kind
  BY <1>1, <1>2 DEF ErrorsShown, RequestsInv, TypeOK
<1>10. TypeOK'
  BY <1>1, <1>4, <1>8, <1>9 DEF RequestsInv, TypeOK, Timely, Proper
<1>11. c.kind \notin Runtime \/ ~Suspended
  BY <1>1 DEF RequestsInv, Quiet
<1>12. c.kind \notin RuntimePages \/ active
  BY <1>1 DEF RequestsInv, Quiet
<1>13. Suspended' = Suspended
  BY <1>1 DEF Suspended
<1>14. ~active => \A k \in RuntimePages : ~req'[k].inFlight /\ shown'[k] = 0 /\ k \notin errs'
  <2> SUFFICES ASSUME ~active, NEW k \in RuntimePages
               PROVE  ~req'[k].inFlight /\ shown'[k] = 0 /\ k \notin errs'
    OBVIOUS
  <2>1. k \in Kinds /\ ~req[k].inFlight /\ shown[k] = 0 /\ k \notin errs /\ k # c.kind
    BY <1>12, KindsApart DEF RequestsInv, Quiet
  <2> QED  BY <1>3, <1>4, <1>8, <1>9, <2>1 DEF Granted, Allowed
<1>15. Suspended => \A k \in Runtime : ~req'[k].inFlight /\ k \notin errs'
  <2> SUFFICES ASSUME Suspended, NEW k \in Runtime
               PROVE  ~req'[k].inFlight /\ k \notin errs'
    OBVIOUS
  <2>1. k \in Kinds /\ ~req[k].inFlight /\ k \notin errs /\ k # c.kind
    BY <1>11, KindsApart DEF RequestsInv, Quiet
  <2> QED  BY <1>3, <1>8, <1>9, <2>1 DEF Granted, Allowed
<1>16. Quiet'
  BY <1>1, <1>13, <1>14, <1>15 DEF Quiet
<1>17. Reached'
  BY <1>1, <1>4 DEF RequestsInv, Reached
<1> QED  BY <1>1, <1>8, <1>10, <1>16, <1>17 DEF RequestsInv

(* A status that shows the service stopped takes what the core's pages     *)
(* show, ask for and complain about with it; one that shows nothing, while *)
(* the core may be restarting, leaves the service as it was seen.          *)
LEMMA StatusStep == ASSUME RequestsInv, NEW c \in calls, StatusMsg(c) PROVE RequestsInv'
<1> DEFINE a == c.answer
           now == Seen(a)
           reset == ~now /\ (Known(a) \/ ~Suppressed)
           gone == IF reset THEN RuntimePages ELSE {}
           also == IF Known(a) /\ now THEN {page} \cap RuntimePages ELSE {}
           r == Cancelled(Rest("status"), gone)
           cs == Stale(calls \ {c}, gone)
<1>1. /\ c.kind = "status" /\ req["status"].inFlight /\ c.fresh
      /\ active' = now
      /\ shown' = [k \in Kinds |-> IF k \in gone THEN 0
                                   ELSE IF k = "status" /\ a.st = "ok" THEN a.v
                                   ELSE shown[k]]
      /\ errs' = ErrorsShown("status", c) \ gone
      /\ recovering' = (recovering /\ a.st # "ok")
      /\ UNCHANGED <<world, op, page, floor, confirmed>>
  BY DEF StatusMsg, Accepts
<1>2. PICK ks, forced : /\ ks \subseteq {"status", page}
                        /\ Begin(r, cs, ks, forced, now, Suspended, floor)
  <2>1. PICK due \in SUBSET also :
          Begin(r, cs, Queued("status") \cup (IF active THEN due ELSE also),
                {"status"} \cup (IF active THEN {} ELSE also), now, Suspended, floor)
    BY DEF StatusMsg
  <2>2. Queued("status") \cup (IF active THEN due ELSE also) \subseteq {"status", page}
    BY DEF Queued
  <2> QED  BY <2>1, <2>2
<1>3. now \in BOOLEAN /\ (~now => reset \/ ~active)
  <2>1. active \in BOOLEAN
    BY StateBounds
  <2>2. now \in BOOLEAN
    <3>1. CASE Known(a)
      <4>1. now = (a.svc \in {"running", "unreachable"})
        BY <3>1 DEF Seen
      <4> QED  BY <4>1
    <3>2. CASE ~Known(a)
      <4>1. now = (active /\ Suppressed)
        BY <3>2 DEF Seen
      <4> QED  BY <4>1
    <3> QED  BY <3>1, <3>2
  <2>3. ~Known(a) => now = (active /\ Suppressed)
    BY DEF Seen
  <2> QED  BY <2>1, <2>2, <2>3
<1>4. gone \subseteq RuntimePages /\ (reset => gone = RuntimePages)
  OBVIOUS
<1> HIDE DEF now, reset, gone, also
<1>5. c \in Call /\ a.v \in 0 .. MaxWorld /\ a.v <= world.v /\ "status" \in Kinds /\ ~Suspended
  <2>1. c \in Call /\ a.v <= world.v
    BY DEF RequestsInv, Timely
  <2>2. "status" \in Kinds /\ "status" \in Runtime
    BY KindsApart
  <2>3. ~Suspended
    BY <1>1, <2>2 DEF RequestsInv, Quiet
  <2> QED  BY <2>1, <2>2, <2>3 DEF Call, Answer
<1>6. Proper(r) /\ \A k \in Kinds : r[k].inFlight => req[k].inFlight /\ k \notin gone
  <2>1. Proper(Rest("status")) /\ \A k \in Kinds : Rest("status")[k].inFlight => req[k].inFlight
    BY <1>5, StateBounds, Rests
  <2> QED  BY <2>1, Cancels
<1>7. /\ shown' \in [Kinds -> 0 .. MaxWorld]
      /\ \A k \in Kinds : /\ shown'[k] <= world.v
                          /\ k # "status" => shown'[k] \in {shown[k], 0}
                          /\ k \in gone => shown'[k] = 0
  BY <1>1, <1>5, BoundsAssumption DEF RequestsInv, TypeOK, Reached, World
<1>8. Bounds(world.v, shown', confirmed, floor)
  BY <1>7, StateBounds DEF Bounds
<1>9. Timely(calls \ {c}, world.v, shown', confirmed, floor, page)
  BY <1>1, <1>7, StateBounds, ShowsTimely
<1>10. Timely(cs, world.v, shown', confirmed, floor, page)
  BY <1>8, <1>9, StalesTimely
<1>11. ks \subseteq Kinds
  BY <1>2, StateBounds
<1> HIDE DEF r, cs
<1>12. Proper(req') /\ Granted(req', r, now, Suspended)
         /\ Timely(calls', world.v, shown', confirmed, floor, page)
  BY <1>2, <1>6, <1>8, <1>10, <1>11, Begins
<1>13. errs' \subseteq Kinds /\ \A k \in errs' : (k \in errs \/ k = "status") /\ k \notin gone
  BY <1>1, <1>5 DEF ErrorsShown, RequestsInv, TypeOK
<1>14. TypeOK'
  <2>1. recovering' \in BOOLEAN /\ active' \in BOOLEAN
    BY <1>1, <1>3
  <2> QED  BY <1>1, <1>7, <1>12, <1>13, <2>1 DEF RequestsInv, TypeOK, Timely, Proper
<1>15. ~active' => \A k \in RuntimePages : ~req'[k].inFlight /\ shown'[k] = 0 /\ k \notin errs'
  <2> SUFFICES ASSUME ~now, NEW k \in RuntimePages
               PROVE  ~req'[k].inFlight /\ shown'[k] = 0 /\ k \notin errs'
    BY <1>1
  <2>1. k \in Kinds /\ k # "status"
    BY KindsApart
  <2>2. k \in gone \/ (~req[k].inFlight /\ shown[k] = 0 /\ k \notin errs)
    BY <1>3, <1>4 DEF RequestsInv, Quiet
  <2>3. ~r[k].inFlight /\ shown'[k] = 0 /\ k \notin errs'
    BY <1>6, <1>7, <1>13, <2>1, <2>2
  <2> QED  BY <1>12, <2>1, <2>3 DEF Granted, Allowed
<1>16. Quiet'
  <2>1. ~Suspended'
    BY <1>1, <1>5 DEF Suspended
  <2> QED  BY <1>15, <2>1 DEF Quiet
<1>17. Reached'
  BY <1>1, <1>7 DEF RequestsInv, Reached
<1> QED  BY <1>1, <1>12, <1>14, <1>16, <1>17 DEF RequestsInv

-----------------------------------------------------------------------------
(* Operations.                                                             *)
LEMMA BeginStep ==
  ASSUME RequestsInv, NEW runtime \in BOOLEAN, BeginOperation(runtime)
  PROVE  RequestsInv'
<1>1. /\ op.st = "none" /\ op.count < MaxOps
      /\ op' = [st |-> "running", runtime |-> runtime, v |-> 0, count |-> op.count + 1]
      /\ req' = Cancelled(req, Suspends(runtime))
      /\ calls' = Stale(calls, Suspends(runtime))
      /\ errs' = errs \ Suspends(runtime)
      /\ UNCHANGED <<world, page, active, shown, recovering, floor, confirmed>>
  BY DEF BeginOperation
<1>2. Proper(req') /\ \A k \in Kinds : req'[k].inFlight => k \notin Suspends(runtime) /\ req[k].inFlight
  BY <1>1, StateBounds, Cancels
<1>3. Timely(calls', world.v, shown, confirmed, floor, page)
  BY <1>1, StateBounds, StalesTimely
<1>4. op' \in Operation /\ op'.v = 0 /\ op'.count = op.count + 1 /\ op'.runtime = runtime
        /\ op'.st = "running" /\ op.count \in Nat /\ world.v \in Nat /\ floor \in Nat
  BY <1>1, BoundsAssumption DEF RequestsInv, TypeOK, Operation, World
<1>5. TypeOK'
  BY <1>1, <1>2, <1>3, <1>4 DEF RequestsInv, TypeOK, Timely, Proper
<1>6. Quiet'
  <2>1. \A k \in RuntimePages : k \in Kinds
    BY KindsApart
  <2>2. \A k \in Runtime : k \in Kinds
    BY KindsApart
  <2>3. runtime => Suspends(runtime) = Runtime
    BY DEF Suspends
  <2> QED  BY <1>1, <1>2, <1>4, <2>1, <2>2, <2>3 DEF RequestsInv, Quiet, Suspended
<1>7. Reached'
  BY <1>1, <1>4 DEF RequestsInv, Reached
<1> QED  BY <1>1, <1>3, <1>5, <1>6, <1>7 DEF RequestsInv

LEMMA EndStep == ASSUME RequestsInv, OperationEnds PROVE RequestsInv'
<1>1. /\ op.st = "running" /\ world' \in World /\ world'.v >= world.v
      /\ UNCHANGED <<page, req, calls, active, shown, errs, recovering, floor, confirmed>>
  <2>1. world \in World /\ world.v \in Nat
    BY DEF RequestsInv, TypeOK, World
  <2>2. CASE UNCHANGED world
    BY <2>1, <2>2 DEF OperationEnds
  <2>3. CASE /\ world.v < MaxWorld
             /\ \E svc \in Services : world' = [v |-> world.v + 1, svc |-> svc]
    BY <2>1, <2>3, BoundsAssumption DEF OperationEnds, World
  <2> QED  BY <2>2, <2>3 DEF OperationEnds
<1>2. PICK st \in {"ok", "error"}, v \in 1 .. MaxWorld :
        v = world'.v /\ op' = [op EXCEPT !.st = st, !.v = v]
  BY <1>1 DEF OperationEnds, World
<1>3. op' \in Operation /\ op'.v = world'.v /\ op'.count = op.count /\ op'.runtime = op.runtime
        /\ op'.st # "none"
  <2>1. op \in Operation /\ v \in 0 .. MaxWorld
    BY DEF RequestsInv, TypeOK
  <2> QED  BY <1>2, <2>1 DEF Operation
<1>4. world.v \in Nat /\ world'.v \in Nat /\ confirmed \in Nat /\ \A k \in Kinds : shown[k] \in Nat
  BY <1>1 DEF RequestsInv, TypeOK, World
<1>5. Timely(calls, world'.v, shown, confirmed, floor, page)
  BY <1>1, <1>4 DEF RequestsInv, Timely, Call, Answer
<1>6. Reached'
  BY <1>1, <1>3, <1>4 DEF RequestsInv, Reached
<1>7. TypeOK' /\ Quiet'
  BY <1>1, <1>3 DEF RequestsInv, TypeOK, Quiet, Suspended
<1> QED  BY <1>1, <1>5, <1>6, <1>7 DEF RequestsInv

(* A success raises the floor: a call for the status that is under way is  *)
(* from before it, and those for the page are begun anew.                  *)
LEMMA OperationStep == ASSUME RequestsInv, OperationMsg PROVE RequestsInv'
<1>1. /\ op.st \in {"ok", "error"}
      /\ op' = [op EXCEPT !.st = "none", !.runtime = FALSE, !.v = 0]
      /\ recovering' = (recovering \/ op.runtime)
      /\ UNCHANGED <<world, page, active, shown, errs>>
  BY DEF OperationMsg
<1>2. /\ op \in Operation /\ op' \in Operation /\ op'.st = "none" /\ op'.v = 0 /\ op'.count = op.count
      /\ world.v \in Nat /\ recovering' \in BOOLEAN
  <2>1. op \in Operation /\ op.runtime \in BOOLEAN /\ recovering \in BOOLEAN /\ world.v \in Nat
    BY DEF RequestsInv, TypeOK, Operation, World
  <2>2. recovering' \in BOOLEAN
    BY <1>1, <2>1
  <2>3. 0 \in 0 .. MaxWorld
    BY BoundsAssumption
  <2> QED  BY <1>1, <2>1, <2>2, <2>3 DEF Operation
<1>3. ~Suspended'
  BY <1>2 DEF Suspended
<1>4. CASE op.st = "ok"
  <2> DEFINE r == Cancelled(req, {page})
             cs == Stale(calls, {page})
  <2>1. /\ floor' = op.count /\ confirmed' = op.v
        /\ Begin(r, cs, {"status", page}, {"status", page}, active, FALSE, op.count)
    BY <1>4 DEF OperationMsg, Invalidates
  <2>2. Proper(r) /\ \A k \in Kinds : r[k].inFlight => req[k].inFlight
    BY StateBounds, Cancels
  <2>3. Timely(cs, world.v, shown, confirmed, floor, page) /\ \A c \in cs : c.fresh => c.kind # page
    <3>1. Timely(cs, world.v, shown, confirmed, floor, page) /\ \A c \in cs : c.fresh => c.kind \notin {page}
      BY StateBounds, StalesTimely
    <3> QED  BY <3>1
  <2> HIDE DEF r, cs
  <2>4. op.v \in 0 .. MaxWorld /\ op.count \in 0 .. MaxOps /\ floor \in Nat /\ floor < op.count
    BY <1>1, <1>2 DEF Operation, RequestsInv, TypeOK, Reached
  <2>5. \A c \in cs : c.at \in Nat /\ c.at <= floor /\ (c.fresh => c.kind = "status")
    BY <2>3 DEF Timely, Call
  <2>6. \A c \in cs : c.at <= op.count /\ (c.fresh => c.kind = "status" /\ ~(c.at >= op.count))
    BY <2>4, <2>5
  <2>7. Timely(cs, world.v, shown, op.v, op.count, page)
    BY <2>3, <2>6 DEF Timely
  <2>8. Bounds(world.v, shown, op.v, op.count)
    BY <2>4, StateBounds DEF Bounds
  <2>9. Proper(req') /\ Granted(req', r, active, FALSE)
          /\ Timely(calls', world.v, shown, op.v, op.count, page)
    BY <2>1, <2>2, <2>7, <2>8, StateBounds, Begins
  <2>10. TypeOK'
    BY <1>1, <1>2, <2>1, <2>4, <2>9 DEF RequestsInv, TypeOK, Timely, Proper
  <2>11. Quiet'
    BY <1>1, <1>3, <2>2, <2>9, KindsApart DEF RequestsInv, Quiet, Granted, Allowed
  <2>12. Reached'
    BY <1>1, <1>2, <2>1, <2>4 DEF RequestsInv, Reached
  <2> QED  BY <1>1, <2>1, <2>9, <2>10, <2>11, <2>12 DEF RequestsInv
<1>5. CASE op.st # "ok"
  <2>1. UNCHANGED <<floor, confirmed, req, calls>>
    BY <1>5 DEF OperationMsg
  <2>2. TypeOK' /\ Quiet'
    BY <1>1, <1>2, <1>3, <2>1 DEF RequestsInv, TypeOK, Quiet
  <2>3. Reached'
    BY <1>1, <1>2, <2>1 DEF RequestsInv, Reached, TypeOK, World
  <2> QED  BY <1>1, <2>1, <2>2, <2>3 DEF RequestsInv
<1> QED  BY <1>4, <1>5

-----------------------------------------------------------------------------
LEMMA InitialRequests == Init => RequestsInv
<1> SUFFICES ASSUME Init PROVE RequestsInv
  OBVIOUS
<1>1. world \in World /\ world.v = 1 /\ page \in Pages
  BY BoundsAssumption DEF Init, World
<1>2. op.st = "none" /\ op.v = 0 /\ op.count = 0 /\ op \in Operation
  BY BoundsAssumption DEF Init, Operation
<1>3. req \in [Kinds -> Request] /\ \A k \in Kinds : ~req[k].queued /\ ~req[k].inFlight
  BY IdleRequest DEF Init
<1>4. shown \in [Kinds -> 0 .. MaxWorld] /\ \A k \in Kinds : shown[k] = 0
  BY BoundsAssumption DEF Init
<1>5. /\ calls = {} /\ errs = {} /\ active = FALSE /\ recovering = FALSE
      /\ floor = 0 /\ confirmed = 0 /\ 0 \in 0 .. MaxOps /\ 0 \in 0 .. MaxWorld
  BY BoundsAssumption DEF Init
<1>6. TypeOK
  BY <1>1, <1>2, <1>3, <1>4, <1>5 DEF TypeOK
<1>7. Reached
  BY <1>1, <1>2, <1>4, <1>5 DEF Reached
<1>8. Quiet
  BY <1>2, <1>3, <1>4, <1>5, KindsApart DEF Quiet, Suspended
<1>9. Timely(calls, world.v, shown, confirmed, floor, page)
  BY <1>5 DEF Timely
<1> QED  BY <1>6, <1>7, <1>8, <1>9 DEF RequestsInv

LEMMA RequestsAlways == Spec => []RequestsInv
<1>1. RequestsInv /\ [Next]_vars => RequestsInv'
  <2> SUFFICES ASSUME RequestsInv, [Next]_vars PROVE RequestsInv'
    OBVIOUS
  <2>1. CASE UNCHANGED vars
    BY <2>1 DEF vars, RequestsInv, TypeOK, Quiet, Suspended, Reached
  <2>2. CASE GraceEnds
    BY <2>2 DEF GraceEnds, RequestsInv, TypeOK, Quiet, Suspended, Reached
  <2>3. ASSUME NEW due \in SUBSET {"status", page}, Tick(due) PROVE RequestsInv'
    BY <2>3, AskStep DEF Tick
  <2>4. CASE RefreshKey
    BY <2>4, AskStep DEF RefreshKey
  <2>5. ASSUME NEW c \in calls, Message(c) PROVE RequestsInv'
    BY <2>5, DropStep, OutdatedStep, StatusStep, PageStep DEF Message
  <2>6. CASE Steps
    BY <2>2, <2>3, <2>4, <2>5, <2>6, SwitchStep, AnswerStep, BeginStep, EndStep, OperationStep,
       ChangeStep DEF Steps
  <2> QED  BY <2>1, <2>6 DEF Next
<1> QED  BY <1>1, InitialRequests, PTL DEF Spec

-----------------------------------------------------------------------------
(* While the service does not run, nothing of its core is shown, asked for *)
(* or complained about, and while an operation restarts it nothing is      *)
(* asked or complained about, however late answers are (model.go:1948,     *)
(* :963).                                                                  *)
THEOREM StaysQuiet == Spec => []Quiet
<1>1. RequestsInv => Quiet
  BY DEF RequestsInv
<1> QED  BY <1>1, RequestsAlways, PTL

(* What is shown is never replaced by something older, nor by something    *)
(* read before an operation that was reported successful took effect       *)
(* (model.go:464, :1341).                                                  *)
THEOREM NothingOlder == Spec => NeverOlder
<1> DEFINE Newer == \A k \in Kinds : shown'[k] \in {shown[k], 0}
                       \/ (shown'[k] >= shown[k] /\ shown'[k] >= confirmed)
<1>1. ASSUME RequestsInv, NEW c \in calls, c.fresh, c.answer.st = "ok",
             c.kind # "status" \/ ~Outdated(c)
      PROVE  c.answer.v >= shown[c.kind] /\ c.answer.v >= confirmed
  BY <1>1 DEF RequestsInv, TypeOK, Timely, Outdated, Call
<1>2. ASSUME RequestsInv, [Next]_vars PROVE [Newer]_shown
  <2> SUFFICES ASSUME shown' # shown PROVE Newer
    OBVIOUS
  <2>1. PICK c \in calls : StatusMsg(c) \/ PageMsg(c)
    BY <1>2 DEF Next, Steps, vars, Tick, RefreshKey, SwitchPage, Read, TimeOut, Message, Drop, DropOutdated,
       BeginOperation, OperationEnds, OperationMsg, GraceEnds, Change
  <2>2. CASE StatusMsg(c)
    <3>1. c.fresh /\ c.kind = "status" /\ ~Outdated(c)
      BY <2>2 DEF StatusMsg, Accepts
    <3>2. \A k \in Kinds : shown'[k] \in {shown[k], 0}
            \/ (k = "status" /\ c.answer.st = "ok" /\ shown'[k] = c.answer.v)
      BY <2>2 DEF StatusMsg
    <3> QED  BY <1>1, <1>2, <3>1, <3>2
  <2>3. CASE PageMsg(c)
    <3>1. c.fresh /\ c.kind \in Pages
      BY <2>3 DEF PageMsg, Accepts
    <3>2. \A k \in Kinds : shown'[k] = shown[k]
            \/ (k = c.kind /\ c.answer.st = "ok" /\ shown'[k] = c.answer.v)
      BY <1>2, <2>3 DEF PageMsg, RequestsInv, TypeOK
    <3> QED  BY <1>1, <1>2, <3>1, <3>2, KindsApart
  <2> QED  BY <2>1, <2>2, <2>3
<1>3. RequestsInv /\ [Next]_vars => [Newer]_shown
  BY <1>2
<1> QED  BY <1>3, RequestsAlways, PTL DEF Spec, NeverOlder
=============================================================================
