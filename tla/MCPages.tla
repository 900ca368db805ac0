------------------------------- MODULE MCPages ------------------------------
(***************************************************************************)
(* The pages of the terminal UI that keep a cursor or a window on data     *)
(* that change under it, for TLC: a behaviour stays on the connections or  *)
(* profiles page (ListPage), the proxies page (ProxyPage) or the log page  *)
(* (LogBuffer).  The pages share no state; the variables of those that are *)
(* not shown keep their initial values.                                    *)
(***************************************************************************)
EXTENDS ListPage, TLC

CONSTANTS
  Groups, Proxies, Columns, ProxyRows,             \* of ProxyPage
  Maximum, BatchMax, Texts, Heights, MaxEntries    \* of LogBuffer

(* What there is to list is finite; pages have rows and columns, and the   *)
(* ring has room (logBufferMaximum, logCapacity).                          *)
ASSUME FiniteAssumption ==
  IsFiniteSet(Items) /\ IsFiniteSet(Groups) /\ IsFiniteSet(Proxies)
ASSUME PagesAssumption ==
  /\ Columns \cup ProxyRows \cup Heights \subseteq Nat \ {0}
  /\ Maximum \in Nat \ {0} /\ {BatchMax, MaxEntries} \subseteq Nat

VARIABLES
  page,                                            \* which of them
  m, proxiesShown, loading,                        \* of ProxyPage
  logs, logStart, logSearch, logView, filter, logPaused, logOffset, logUnread,
  capacity, logsShown, received                    \* of LogBuffer

proxyVars == <<m, proxiesShown, loading>>
logVars == <<logs, logStart, logSearch, logView, filter, logPaused, logOffset,
             logUnread, capacity, logsShown, received>>

Proxy == INSTANCE ProxyPage WITH onPage <- proxiesShown, Rows <- ProxyRows
Log   == INSTANCE LogBuffer WITH onPage <- logsShown, view <- logView

PagesInit ==
  /\ page \in {"list", "proxies", "logs"}
  /\ Init /\ Proxy!Init /\ Log!Init
  /\ page # "list" => filtered /\ rows = CHOOSE r \in Rows : TRUE
  /\ page # "proxies" => m.columns = CHOOSE c \in Columns : TRUE
  /\ page # "logs" => capacity = CHOOSE h \in Heights : TRUE

PagesNext ==
  \/ page = "list" /\ Next /\ UNCHANGED <<page, proxyVars, logVars>>
  \/ page = "proxies" /\ Proxy!Next /\ UNCHANGED <<page, vars, logVars>>
  \/ page = "logs" /\ Log!Next /\ UNCHANGED <<page, vars, proxyVars>>

PagesSpec == PagesInit /\ [][PagesNext]_<<page, vars, proxyVars, logVars>>

(* Nothing orders or names them.                                           *)
Symmetry == Permutations(Items) \cup Permutations(Groups) \cup Permutations(Proxies)

-----------------------------------------------------------------------------
(* The rows of a page are those of the last listing that match the filter, *)
(* never those of caches of another one (model.go:2796), and the one under *)
(* the cursor is on the screen; a log page never scrolls off its end       *)
(* (model.go:2595, render.go:664).                                         *)
InView ==
  /\ OnScreen /\ Now.rows = Matching(items, hits)
  /\ Proxy!OnScreen /\ Proxy!ViewTrue
  /\ Log!NeverBlank

(* What the user looks at stays when data arrive in any order: the cursor  *)
(* on its connection, profile or proxy, as long as that is listed, and the *)
(* first row of a paused or scrolled log page, as long as it is kept       *)
(* (model.go:2443, :2511, :2225).                                          *)
Kept == SelectionKept /\ Proxy!SelectionKept /\ Log!StandsStill

(* The log page lists the latest entries that match the filter             *)
(* (model.go:2188).                                                        *)
TailSpec == Log!TailSpec
=============================================================================
