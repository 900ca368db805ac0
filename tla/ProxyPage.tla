------------------------------ MODULE ProxyPage -----------------------------
(***************************************************************************)
(* The proxies page of the terminal UI: groups of proxies that are listed  *)
(* anew every few seconds, the filter, the caches of what matches it, the  *)
(* two cursors with their windows, and the results of delay tests.         *)
(***************************************************************************)
EXTENDS Viewport, Ordered, Sequences

CONSTANTS Groups, Proxies, Columns, Rows
          \* the widths (in groups) and heights (in proxies) of the page

VARIABLES
  m,         \* the Model's fields of the page
  onPage,    \* page = pageProxies
  loading    \* the operation that runs: a delay test or a selection

vars == <<m, onPage, loading>>

Sequenced(S) == UNION {{s \in [1..n -> S] : \A i, j \in 1..n : i # j => s[i] # s[j]}
                       : n \in 0..Cardinality(S)}
Listings == UNION {{[i \in 1..Len(g) |-> [name |-> g[i], proxies |-> p[i]]]
                    : p \in [1..Len(g) -> Sequenced(Proxies)]} : g \in Sequenced(Groups)}
Filters == Groups \cup Proxies \cup {""}
Idle == [do |-> "none", group |-> ""]

Init ==
  /\ m \in [groups : {<<>>}, filter : {""},
            view : {[valid |-> FALSE, current |-> FALSE, filter |-> "", rows |-> <<>>]},
            search : {[valid |-> FALSE, current |-> FALSE, texts |-> <<>>]},
            groupCursor : {0}, proxyCursor : {0}, groupOffset : {0}, proxyOffset : {0},
            tests : {{}}, columns : Columns, rows : Rows]
  /\ onPage = FALSE /\ loading = Idle
-----------------------------------------------------------------------------
(* The caches: ensureGroupSearch, ensureGroupViews, invalidateGroupViews.  *)
Matching(groups, texts, f) ==
  LET hit(i) == f = "" \/ texts[i].name = f
      members(i) == InOrder({k \in 1..Len(groups[i].proxies) :
                               hit(i) \/ texts[i].proxies[k] = f})
      listed == InOrder({i \in 1..Len(groups) : hit(i) \/ members(i) # <<>>})
  IN [n \in DOMAIN listed |-> [group |-> listed[n], proxies |-> members(listed[n])]]

Searched(x) ==
  IF x.search.valid /\ x.search.current /\ Len(x.search.texts) = Len(x.groups) THEN x
  ELSE [x EXCEPT !.search = [valid |-> TRUE, current |-> TRUE, texts |-> x.groups]]

Viewed(x) ==
  IF x.view.valid /\ x.view.current /\ x.view.filter = x.filter THEN x
  ELSE LET y == IF x.filter = "" THEN x ELSE Searched(x)
       IN [y EXCEPT !.view =
             [valid |-> TRUE, current |-> TRUE, filter |-> y.filter,
              rows |-> Matching(y.groups, IF y.filter = "" THEN y.groups ELSE y.search.texts,
                                y.filter)]]

Invalidated(x) ==
  [x EXCEPT !.view.valid = FALSE,
            !.search = IF @.current THEN @
                       ELSE [valid |-> FALSE, current |-> FALSE, texts |-> <<>>]]

(* groupsVersion++ *)
VersionKept(x) == x                                               \* mutant
Versioned(x) == [x EXCEPT !.view.current = FALSE, !.search.current = FALSE]

-----------------------------------------------------------------------------
(* The cursors.  x is always Viewed.                                       *)
ViewedRows(x) == x.view.rows
GroupAt(x) == Clamp(x.groupCursor, 0, Len(ViewedRows(x)) - 1) + 1
Members(x) == IF ViewedRows(x) = <<>> THEN <<>> ELSE ViewedRows(x)[GroupAt(x)].proxies

(* selectedProxyKeys *)
Selected(x) ==
  IF ViewedRows(x) = <<>> THEN [group |-> "", node |-> ""]
  ELSE LET g == x.groups[ViewedRows(x)[GroupAt(x)].group]
       IN [group |-> g.name,
           node |-> IF Members(x) = <<>> THEN ""
                    ELSE g.proxies[Members(x)[Clamp(x.proxyCursor, 0, Len(Members(x)) - 1) + 1]]]

Synced(x) ==
  [x EXCEPT
     !.groupOffset = ViewportOffset(Len(ViewedRows(x)), x.groupCursor, @,
                       Least(Greatest(1, Len(ViewedRows(x))), x.columns)),
     !.proxyOffset = ViewportOffset(Len(Members(x)), x.proxyCursor, @, x.rows)]

(* clampCursors *)
OnlySynced(x) == Synced(x)                                        \* mutant
Clamped(x) ==
  LET y == [x EXCEPT !.groupCursor = Clamp(@, 0, Greatest(0, Len(ViewedRows(x)) - 1))]
  IN Synced([y EXCEPT !.proxyCursor = Clamp(@, 0, Greatest(0, Len(Members(y)) - 1))])

(* restoreProxySelection, and the same search in applyFilter.              *)
NotFound(x, selected) == {}                                       \* mutant
Found(x, selected) ==
  {i \in 1..Len(ViewedRows(x)) : x.groups[ViewedRows(x)[i].group].name = selected.group}
Restored(x, selected) ==
  LET members(i) == ViewedRows(x)[i].proxies
      nodes(i) == {k \in 1..Len(members(i)) :
                     x.groups[ViewedRows(x)[i].group].proxies[members(i)[k]] = selected.node}
      at(S) == IF S = {} THEN 0 ELSE (CHOOSE i \in S : \A j \in S : i <= j) - 1
      i == at(Found(x, selected))
  IN Clamped([x EXCEPT !.groupCursor = i,
                       !.proxyCursor = IF Found(x, selected) = {} THEN 0 ELSE at(nodes(i + 1))])

-----------------------------------------------------------------------------
(* pruneProxyTestStates *)
PrunedTests(tests, groups) ==
  {t \in tests : \E i \in 1..Len(groups) : /\ groups[i].name = t.group
                                           /\ \E k \in 1..Len(groups[i].proxies) :
                                                groups[i].proxies[k] = t.node}

GroupsMsg(groups) ==
  LET x == Viewed(m)
      y == Viewed(Invalidated(Versioned([x EXCEPT !.groups = groups])))
      z == Restored(y, Selected(x))
  IN /\ onPage
     /\ m' = [z EXCEPT !.tests = PrunedTests(@, groups)]
     /\ UNCHANGED <<onPage, loading>>

(* resetInactiveRuntime: the cursors stay where they were.                 *)
ServiceStops ==
  /\ m' = LET x == IF m.groups = <<>> THEN m
                   ELSE Invalidated(Versioned([m EXCEPT !.groups = <<>>]))
          IN [x EXCEPT !.tests = {}]
  /\ UNCHANGED <<onPage, loading>>

(* applyFilter; on other pages the filter is theirs, and clamps ours.      *)
Filtered(x, f) ==
  LET y == Viewed(x)
      z == Viewed(Invalidated([(IF onPage THEN y ELSE x) EXCEPT !.filter = f]))
  IN IF onPage THEN Restored(z, Selected(y)) ELSE Clamped(z)

ApplyFilter(f) == m' = Filtered(m, f) /\ UNCHANGED <<onPage, loading>>

SwitchPage ==
  /\ m' = Synced(Filtered(m, ""))
  /\ onPage' = ~onPage /\ UNCHANGED loading

Resize(c, r) ==
  /\ m' = Synced(Viewed([m EXCEPT !.columns = c, !.rows = r]))
  /\ UNCHANGED <<onPage, loading>>

MoveCursor(delta) ==
  LET x == Viewed(m)
  IN /\ onPage
     /\ m' = Synced(IF ViewedRows(x) = <<>> THEN x
                    ELSE [x EXCEPT !.proxyCursor =
                            Clamp(@ + delta, 0, Greatest(0, Len(Members(x)) - 1))])
     /\ UNCHANGED <<onPage, loading>>

MoveBoundary(end) ==
  LET x == Viewed(m)
  IN /\ onPage
     /\ m' = Synced([x EXCEPT !.proxyCursor =
                       IF end THEN Greatest(0, Len(Members(x)) - 1) ELSE 0])
     /\ UNCHANGED <<onPage, loading>>

MoveGroup(delta) ==
  LET x == Viewed(m)
      n == Len(ViewedRows(x))
  IN /\ onPage
     /\ m' = IF n = 0 THEN x
             ELSE Synced([x EXCEPT !.groupCursor = (@ + delta + n) % n,
                                   !.proxyCursor = 0, !.proxyOffset = 0])
     /\ UNCHANGED <<onPage, loading>>

(* enter and t: activate, beginGroupTest.                                  *)
Begin(do) ==
  LET x == Viewed(m)
      what == IF do = "select" THEN Members(x) ELSE ViewedRows(x)
  IN /\ onPage /\ loading = Idle /\ what # <<>>
     /\ m' = x
     /\ loading' = [do |-> do,
                    group |-> IF do = "test" THEN Selected(x).group ELSE ""]
     /\ UNCHANGED onPage

SelectionEnds ==
  /\ loading.do = "select" /\ loading' = Idle /\ UNCHANGED <<m, onPage>>

(* groupTestMsg: applyGroupDelaysAt gives every member a result, a delay   *)
(* or a timeout; an error leaves the results alone.                        *)
GroupTestMsg ==
  LET of == {i \in 1..Len(m.groups) : m.groups[i].name = loading.group}
      members == UNION {{m.groups[i].proxies[k] : k \in 1..Len(m.groups[i].proxies)} : i \in of}
  IN /\ loading.do = "test" /\ loading' = Idle
     /\ \/ UNCHANGED m
        \/ m' = [m EXCEPT !.tests =
                   IF of = {} THEN @
                   ELSE {t \in @ : t.group # loading.group}
                        \cup {[group |-> loading.group, node |-> p] : p \in members}]
     /\ UNCHANGED onPage

Next ==
  \/ \E groups \in Listings : GroupsMsg(groups)
  \/ \E f \in Filters : ApplyFilter(f)
  \/ \E c \in Columns, r \in Rows : Resize(c, r)
  \/ \E delta \in {1, -1} \cup {m.rows, -m.rows} : MoveCursor(delta)
  \/ \E end \in BOOLEAN : MoveBoundary(end)
  \/ \E delta \in {1, -1} : MoveGroup(delta)
  \/ \E do \in {"select", "test"} : Begin(do)
  \/ GroupTestMsg \/ ServiceStops \/ SwitchPage \/ SelectionEnds

Spec == Init /\ [][Next]_vars
-----------------------------------------------------------------------------
Now == Viewed(m)

(* What the page lists is what matches the filter in the last listing:     *)
(* the cached views and search texts are never those of another            *)
(* (model.go:2796).                                                        *)
ViewTrue == ViewedRows(Now) = Matching(m.groups, m.groups, m.filter)

(* The highlighted group and proxy are on the screen, and they are the     *)
(* ones the keys act on (model.go:2595, render.go:446).                    *)
OnScreen ==
  ViewedRows(Now) # <<>> =>
    /\ Window(Len(ViewedRows(Now)), m.groupCursor,
              Least(Len(ViewedRows(Now)), m.columns), m.groupOffset)
    /\ Members(Now) # <<>> =>
         Window(Len(Members(Now)), m.proxyCursor, m.rows, m.proxyOffset)

(* A new listing, in any order, or a changed filter leaves the cursor on   *)
(* the proxy it was on, or at least on its group, as long as that is       *)
(* listed (model.go:2443).                                                 *)
SelectionKept ==
  [][onPage /\ onPage' /\ (m'.groups # m.groups \/ m'.filter # m.filter)
       => LET after == Matching(m'.groups, m'.groups, m'.filter)
              was == Selected(Now)
              at == {i \in 1..Len(after) : m'.groups[after[i].group].name = was.group}
          IN at # {} =>
               /\ Selected(Now)'.group = was.group
               /\ \A i \in at :
                    (\E k \in 1..Len(after[i].proxies) :
                       m'.groups[after[i].group].proxies[after[i].proxies[k]] = was.node)
                    => Selected(Now)'.node = was.node]_vars

(* Types; the results of delay tests are of listed proxies.                *)
TypeOK ==
  /\ m.groups \in Listings /\ m.filter \in Filters
  /\ loading.do \in {"none", "select", "test"} /\ onPage \in BOOLEAN
  /\ \A t \in m.tests :
       \E i \in 1..Len(m.groups) :
         /\ m.groups[i].name = t.group
         /\ \E k \in 1..Len(m.groups[i].proxies) : m.groups[i].proxies[k] = t.node
=============================================================================
