------------------------------ MODULE ListPage ------------------------------
(***************************************************************************)
(* The connections page and the profiles page of the terminal UI: a list   *)
(* that is read anew while a cursor stands on it and while a dialog asks   *)
(* to confirm the closing or removal of one item.  Only connections have a *)
(* filter, and vanish when the service stops; only a profile can be the    *)
(* active one, which is not removed.                                       *)
(***************************************************************************)
EXTENDS Viewport, Ordered, Sequences

CONSTANTS
  Items,  \* connectionKey, profileKey
  Rows    \* heights of the list

ASSUME RowsAssumption == Rows \subseteq Nat \ {0}

NoItem == "none"
ASSUME ItemsAssumption == NoItem \notin Items

VARIABLES
  filtered, \* the connections page (TRUE) or the profiles page
  items,    \* connections, profiles
  active,   \* the active profile among them, or NoItem
  hits,     \* what the filter matches
  view,     \* connectionViews: [valid, rows]
  cursor, offset, rows,
  confirm,  \* confirmTarget: what the dialog asks about
  asked,    \* ghost: the item under the cursor when the dialog was opened
  running   \* the operation: what is being closed or removed

dialog == <<confirm, asked, running>>
vars == <<filtered, items, active, hits, view, cursor, offset, rows, dialog>>

Sequenced(S) ==
  UNION {{s \in [1..n -> S] : \A i, j \in 1..n : i # j => s[i] # s[j]}
         : n \in 0..Cardinality(S)}

Init ==
  /\ filtered \in BOOLEAN
  /\ items = <<>> /\ active = NoItem /\ hits = Items
  /\ view = [valid |-> FALSE, rows |-> <<>>]
  /\ cursor = 0 /\ offset = 0 /\ rows \in Rows
  /\ confirm = NoItem /\ asked = NoItem /\ running = NoItem

-----------------------------------------------------------------------------
(* ensureConnectionViews; profiles are listed as they are.                 *)
Matching(l, h) == InOrder({i \in 1..Len(l) : l[i] \in h})
Viewed(v, l, h) ==
  IF v.valid THEN v ELSE [valid |-> TRUE, rows |-> Matching(l, h)]
StillValid(v) == v                                                \* mutant
Invalidated(v) == [v EXCEPT !.valid = FALSE]

(* selectedConnectionKey, selectedProfileKey: v is Viewed.                 *)
Selected(v, l, c) ==
  IF v.rows = <<>> THEN NoItem
  ELSE l[v.rows[Clamp(c, 0, Len(v.rows) - 1) + 1]]

At(v, l, key) == {i \in 1..Len(v.rows) : l[v.rows[i]] = key}
Last(v) == Greatest(0, Len(v.rows) - 1)

(* clampCursors, syncViewports with the cursor at c.                       *)
PlaceUnsynced(v, c) ==                                            \* mutant
  view' = v /\ cursor' = Clamp(c, 0, Last(v)) /\ offset' = offset
Place(v, c) ==
  /\ view' = v /\ cursor' = Clamp(c, 0, Last(v))
  /\ offset' = ViewportOffset(Len(v.rows), cursor', offset, rows)

(* restoreConnectionSelection, restoreProfileSelection: if the item is     *)
(* gone the cursor stays where it is in the list.                          *)
IndexKept(v, l, key, otherwise) == otherwise                      \* mutant
IndexOf(v, l, key, otherwise) ==
  IF At(v, l, key) = {} THEN otherwise
  ELSE (CHOOSE i \in At(v, l, key) : TRUE) - 1

(* connectionsMsg, profilesMsg                                             *)
Refresh(l, a) ==
  LET was == Selected(Viewed(view, items, hits), items, cursor)
      v == Viewed(Invalidated(view), l, hits)
  IN /\ items' = l /\ active' = a
     /\ a # NoItem => ~filtered /\ \E i \in 1..Len(l) : l[i] = a
     /\ Place(v, IndexOf(v, l, was, cursor))
     /\ UNCHANGED <<filtered, hits, rows, dialog>>

(* resetInactiveRuntime: the cursor and the window stay.                   *)
ServiceStops ==
  /\ filtered
  /\ items' = <<>>
  /\ view' = IF items = <<>> THEN view ELSE Invalidated(view)
  /\ UNCHANGED <<filtered, active, hits, cursor, offset, rows, dialog>>

(* A dialog takes every key but its own.                                   *)
Open == confirm = NoItem

(* applyFilter: if the item is filtered out, to the top.                   *)
ApplyFilter(h) ==
  LET was == Selected(Viewed(view, items, hits), items, cursor)
      v == Viewed(Invalidated(view), items, h)
  IN /\ filtered /\ Open
     /\ hits' = h
     /\ Place(v, IndexOf(v, items, was, 0))
     /\ UNCHANGED <<filtered, items, active, rows, dialog>>

(* up, down, pgup, pgdown, home, end                                       *)
Move(c) ==
  /\ Open
  /\ Place(Viewed(view, items, hits), c)
  /\ UNCHANGED <<filtered, items, active, hits, rows, dialog>>

Resize(r) ==
  /\ rows' = r
  /\ view' = Viewed(view, items, hits) /\ UNCHANGED cursor
  /\ offset' = ViewportOffset(Len(view'.rows), cursor, offset, r)
  /\ UNCHANGED <<filtered, items, active, hits, dialog>>

(* d: the target is taken when the dialog opens.                           *)
Ask ==
  LET v == Viewed(view, items, hits)
      key == Selected(v, items, cursor)
  IN /\ Open /\ v.rows # <<>> /\ key # active
     /\ view' = v /\ confirm' = key /\ asked' = key
     /\ UNCHANGED <<filtered, items, active, hits, cursor, offset, rows, running>>

(* y: runConfirmed, refused while an operation runs.                       *)
TargetUnderCursor ==                                             \* mutant
  Selected(Viewed(view, items, hits), items, cursor)
Target == confirm
Confirm ==
  /\ ~Open /\ confirm' = NoItem
  /\ running' = IF running = NoItem THEN Target ELSE running
  /\ UNCHANGED <<filtered, items, active, hits, view, cursor, offset, rows,
                 asked>>

Dismiss ==
  /\ ~Open /\ confirm' = NoItem
  /\ UNCHANGED <<filtered, items, active, hits, view, cursor, offset, rows, asked,
                 running>>

(* operationMsg closes a dialog that is open.                              *)
OperationMsg ==
  /\ running # NoItem /\ running' = NoItem /\ confirm' = NoItem
  /\ UNCHANGED <<filtered, items, active, hits, view, cursor, offset, rows,
                 asked>>

Next ==
  \/ \E l \in Sequenced(Items), a \in Items \cup {NoItem} : Refresh(l, a)
  \/ \E h \in SUBSET Items : ApplyFilter(h)
  \/ \E c \in {0, Cardinality(Items), cursor - 1, cursor + 1, cursor - rows,
               cursor + rows} : Move(c)
  \/ \E r \in Rows : Resize(r)
  \/ ServiceStops \/ Ask \/ Confirm \/ Dismiss \/ OperationMsg

Spec == Init /\ [][Next]_vars
-----------------------------------------------------------------------------
Now == Viewed(view, items, hits)
Key == Selected(Now, items, cursor)

(* The cached rows are those of the list: every index is in it.            *)
TypeOK ==
  /\ filtered \in BOOLEAN /\ items \in Sequenced(Items)
  /\ active \in Items \cup {NoItem} /\ hits \subseteq Items
  /\ {confirm, asked, running} \subseteq Items \cup {NoItem}
  /\ Now.rows = Matching(items, hits)

(* The item under the cursor is on the screen (model.go:2595).             *)
OnScreen == Now.rows # <<>> => Window(Len(Now.rows), cursor, rows, offset)

(* A new list, in any order, or another filter leaves the cursor on its    *)
(* item as long as that is listed (model.go:2511).                         *)
SelectionKept ==
  [][(items' # items \/ hits' # hits) /\ At(Now', items', Key) # {}
       => Key' = Key]_vars

(* What is closed or removed is what the dialog named and the cursor stood *)
(* on when it was opened, whatever was listed since (model.go:2149).       *)
ConfirmedTarget ==
  [][running' \notin {running, NoItem} => running' = asked /\ running' = confirm]_vars
=============================================================================
