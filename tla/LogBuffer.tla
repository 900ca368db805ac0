------------------------------ MODULE LogBuffer -----------------------------
(***************************************************************************)
(* The log page of the terminal UI: the ring buffer of entries, the cache  *)
(* of their search texts, the cached list of the entries that match the    *)
(* filter, and the window on it that can be paused and scrolled.  Indices  *)
(* count from 0 as in the code; logs and logSearch are sequences.          *)
(***************************************************************************)
EXTENDS Ordered, Sequences

CONSTANTS
  Maximum,    \* logBufferMaximum
  BatchMax,   \* logBatchMaximum
  Texts,      \* what entries say; a filter matches one of them
  Heights,    \* values of logCapacity()
  MaxEntries  \* bound: entries received

VARIABLES
  logs, logStart, \* the ring
  logSearch,      \* search texts, of all entries or of none
  view,           \* logFilteredIndices and what it was computed for
  filter,
  logPaused, logOffset, logUnread,
  capacity,       \* logCapacity(), rows of the window
  onPage,         \* page = pageLogs
  received        \* number of entries received

ring == <<logs, logStart, logSearch, received>>
window == <<logPaused, logOffset, logUnread>>
vars == <<ring, view, filter, window, capacity, onPage>>

Init ==
  /\ logs = <<>> /\ logStart = 0 /\ logSearch = <<>> /\ received = 0
  /\ view = [indices |-> <<>>, valid |-> FALSE, filter |-> "", start |-> 0, length |-> 0]
  /\ filter = "" /\ onPage = FALSE
  /\ logPaused = FALSE /\ logOffset = 0 /\ logUnread = 0
  /\ capacity \in Heights

Clamp(n, low, high) == IF n < low THEN low ELSE IF n > high THEN high ELSE n
AtLeast0(n) == IF n < 0 THEN 0 ELSE n
SearchText(e) == e.text
-----------------------------------------------------------------------------
(* One entry into the ring r, its search text too if they are maintained.  *)
ReplacedUnindexed(s, i, text) == s                                \* mutant
ReplacedSearch(s, i, text) == [s EXCEPT ![i] = text]

NextStart(start, n) == (start + 1) % n

Put(r, e, maintain) ==
  IF Len(r.logs) < Maximum
  THEN [r EXCEPT !.logs = Append(@, e),
                 !.search = IF maintain THEN Append(@, SearchText(e)) ELSE @]
  ELSE [logs |-> [r.logs EXCEPT ![r.start + 1] = e],
        start |-> NextStart(r.start, Len(r.logs)),
        search |-> IF maintain THEN ReplacedSearch(r.search, r.start + 1, SearchText(e))
                   ELSE r.search]

PutAllButOne(r, entries, maintain) ==                             \* mutant
  LET put[n \in 0..Len(entries)] ==
        IF n = 0 THEN r ELSE Put(put[n - 1], entries[n], maintain)
  IN  put[Len(entries) - 1]

PutAll(r, entries, maintain) ==
  LET put[n \in 0..Len(entries)] ==
        IF n = 0 THEN r ELSE Put(put[n - 1], entries[n], maintain)
  IN  put[Len(entries)]

(* ensureLogSearch.                                                        *)
WithSearch(s, l) ==
  IF Len(s) = Len(l) THEN s ELSE [i \in 1..Len(l) |-> SearchText(l[i])]

(* logPhysicalIndex.                                                       *)
Physical(l, start, logical) == (start + logical) % Len(l)

(* ensureLogView: the cached list for the ring l, start and the filter f.  *)
FreshByLength(v, l, start, f) == v.filter = f /\ v.length = Len(l)   \* mutant
Fresh(v, l, start, f) ==
  v.valid /\ v.filter = f /\ v.start = start /\ v.length = Len(l)
Indices(l, start, search, f) ==
  IF f = "" THEN <<>>
  ELSE LET hits == InOrder({n \in 1..Len(l) : search[Physical(l, start, n - 1) + 1] = f})
       IN  [k \in DOMAIN hits |-> Physical(l, start, hits[k] - 1)]
Ensured(v, l, start, search, f) ==
  IF Fresh(v, l, start, f) THEN v
  ELSE [indices |-> Indices(l, start, search, f), valid |-> TRUE,
        filter |-> f, start |-> start, length |-> Len(l)]
Invalid(v) == [v EXCEPT !.valid = FALSE]

(* logViewLen, logViewEntry.                                               *)
ViewLen(v, l, f) == IF f = "" THEN Len(l) ELSE Len(v.indices)
Listed(v, l, start, f) ==
  IF f = "" THEN [n \in 1..Len(l) |-> l[Physical(l, start, n - 1) + 1]]
  ELSE [n \in 1..Len(v.indices) |-> l[v.indices[n] + 1]]

-----------------------------------------------------------------------------
(* appendLogBatch.                                                         *)
Unclamped(offset, rows) == offset                                 \* mutant
Bounded(offset, rows) == Clamp(offset, 0, AtLeast0(rows - capacity))
FollowsAlways(added) == 0                                         \* mutant
Shift(added) == IF logPaused \/ logOffset > 0 THEN added ELSE 0

AppendLogBatch(texts) ==
  LET entries == [i \in 1..Len(texts) |-> [id |-> received + i, text |-> texts[i]]]
      maintain == filter # "" \/ Len(logSearch) > 0
      search == IF maintain THEN WithSearch(logSearch, logs) ELSE logSearch
      r == PutAll([logs |-> logs, start |-> logStart, search |-> search], entries, maintain)
      added == Cardinality({i \in 1..Len(texts) : filter = "" \/ texts[i] = filter})
      final == IF filter = "" THEN r.search ELSE WithSearch(r.search, r.logs)
      v == Ensured(Invalid(view), r.logs, r.start, final, filter)
  IN /\ onPage /\ received + Len(texts) <= MaxEntries
     /\ logs' = r.logs /\ logStart' = r.start /\ logSearch' = final
     /\ received' = received + Len(texts)
     /\ view' = v
     /\ logUnread' = IF logPaused THEN logUnread + Len(texts) ELSE logUnread
     /\ logOffset' = Bounded(logOffset + Shift(added), ViewLen(v, r.logs, filter))
     /\ UNCHANGED <<filter, logPaused, capacity, onPage>>

(* up, down, pgup, pgdown.                                                 *)
ScrollLogs(delta) ==
  /\ onPage
  /\ logOffset' = Clamp(logOffset + delta, 0, AtLeast0(ViewLen(view, logs, filter) - capacity))
  /\ logUnread' = IF logOffset' = 0 /\ ~logPaused THEN 0 ELSE logUnread
  /\ UNCHANGED <<ring, view, filter, logPaused, capacity, onPage>>

MoveToBoundary(end) ==
  /\ onPage
  /\ logOffset' = IF end THEN 0 ELSE AtLeast0(ViewLen(view, logs, filter) - capacity)
  /\ logUnread' = IF end THEN 0 ELSE logUnread
  /\ UNCHANGED <<ring, view, filter, logPaused, capacity, onPage>>

TogglePause ==
  /\ onPage
  /\ logPaused' = ~logPaused /\ logUnread' = 0
  /\ logOffset' = IF logPaused THEN 0 ELSE logOffset
  /\ UNCHANGED <<ring, view, filter, capacity, onPage>>

(* applyFilter; on the log page the list is made at once.                  *)
SearchAfter(f) == IF f = "" THEN <<>> ELSE logSearch
ApplyFilter(f) ==
  LET search == IF onPage /\ f # "" THEN WithSearch(SearchAfter(f), logs)
                ELSE SearchAfter(f)
  IN /\ filter' = f /\ logSearch' = search
     /\ IF onPage
        THEN /\ view' = Ensured(Invalid(view), logs, logStart, search, f)
             /\ logOffset' = 0 /\ logUnread' = 0
        ELSE view' = Invalid(view) /\ UNCHANGED <<logOffset, logUnread>>
     /\ UNCHANGED <<logs, logStart, received, logPaused, capacity>>
Filter(f) == ApplyFilter(f) /\ UNCHANGED onPage

(* tab: applyFilter(""), then switchPage.                                  *)
SwitchPage == ApplyFilter("") /\ onPage' = ~onPage

Resize(h) ==
  /\ capacity' = h
  /\ UNCHANGED <<ring, view, filter, window, onPage>>

Next ==
  \/ \E n \in 1..BatchMax : \E texts \in [1..n -> Texts] : AppendLogBatch(texts)
  \/ \E delta \in {1, -1, capacity, -capacity} : ScrollLogs(delta)
  \/ \E end \in BOOLEAN : MoveToBoundary(end)
  \/ TogglePause \/ SwitchPage
  \/ \E f \in Texts \cup {""} : Filter(f)
  \/ \E h \in Heights : Resize(h)

Spec == Init /\ [][Next]_vars
-----------------------------------------------------------------------------
(* renderLogs: the list it computes, and the rows it shows of it.          *)
Shown == LET search == IF filter = "" THEN logSearch ELSE WithSearch(logSearch, logs)
         IN Listed(Ensured(view, logs, logStart, search, filter), logs, logStart, filter)
End(rows) == Clamp(rows - logOffset, 0, rows)
Top == AtLeast0(End(Len(Shown)) - capacity) + 1

(* Types; the search texts are those of the entries.                       *)
TypeOK ==
  /\ logs \in Seq([id : 1..MaxEntries, text : Texts]) /\ Len(logs) <= Maximum
  /\ logStart \in 0..(Maximum - 1) /\ logOffset \in 0..Maximum
  /\ logUnread \in 0..MaxEntries /\ {logPaused, onPage} \subseteq BOOLEAN
  /\ logSearch # <<>> => logSearch = [i \in 1..Len(logs) |-> SearchText(logs[i])]

(* The page lists the latest entries that match, none of those received    *)
(* left out (model.go:2188).                                               *)
Listing == INSTANCE LogTail WITH
  kept <- [n \in 1..Len(logs) |-> logs[Physical(logs, logStart, n - 1) + 1]],
  listed <- Shown
TailSpec == Listing!Spec

(* A paused or scrolled page stands still: what arrives does not move its  *)
(* first row, unless that entry leaves the buffer (model.go:2225).         *)
StandsStill ==
  [][received' # received /\ (logPaused \/ logOffset > 0) /\ Shown # <<>>
       => LET was == Shown[Top].id
              now == Shown'
          IN  \/ Top' = 1 /\ \A i \in 1..Len(now) : was < now[i].id
              \/ was = now[Top'].id]_vars

(* The window never slides off the list (render.go:664).                   *)
NeverBlank == Shown # <<>> => logOffset < Len(Shown)
=============================================================================
