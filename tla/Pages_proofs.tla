---------------------------- MODULE Pages_proofs ----------------------------
(***************************************************************************)
(* The pages of the terminal UI, for lists, groups and logs of any length. *)
(***************************************************************************)
EXTENDS MCPages, SequenceTheorems, FiniteSetTheorems, WellFoundedInduction, TLAPS

-----------------------------------------------------------------------------
(* The indices that a filter leaves.                                       *)

LEMMA IndicesFinite ==
  ASSUME NEW n \in Nat, NEW S \in SUBSET (1..n)
  PROVE  IsFiniteSet(S) /\ Cardinality(S) \in 0..n /\ (S = {} <=> Cardinality(S) = 0)
<1>1. IsFiniteSet(1..n) /\ Cardinality(1..n) = n
  BY FS_Interval
<1>2. IsFiniteSet(S) /\ Cardinality(S) <= n
  BY <1>1, FS_Subset
<1>3. Cardinality(S) \in Nat
  BY <1>2, FS_CardinalityType
<1>4. S = {} <=> Cardinality(S) = 0
  BY <1>2, FS_EmptySet
<1> QED  BY <1>2, <1>3, <1>4

LEMMA BeforeGrows ==
  ASSUME NEW n \in Nat, NEW S \in SUBSET (1..n), NEW i \in S
  PROVE  /\ Before(S, i) \in 0..Cardinality(S) - 1
         /\ \A j \in S : i < j => Before(S, i) < Before(S, j)
<1>1. IsFiniteSet(S) /\ Cardinality(S) \in Nat
  BY IndicesFinite
<1>2. ASSUME NEW T \in SUBSET S, i \in T, \A k \in S : k < i => k \in T
      PROVE  Cardinality(T) \in Nat /\ Before(S, i) \in 0..Cardinality(T) - 1
  <2> DEFINE B == {k \in S : k < i}
  <2>1. IsFiniteSet(T) /\ Cardinality(T) \in Nat
    BY <1>1, FS_Subset, FS_CardinalityType
  <2>2. B \in SUBSET T /\ i \notin B
    <3>1. i \in Int
      OBVIOUS
    <3>2. ~(i < i)
      BY <3>1
    <3> QED  BY <1>2, <3>2
  <2> HIDE DEF B
  <2>3. IsFiniteSet(B) /\ Cardinality(B) \in Nat /\ Cardinality(B) <= Cardinality(T)
          /\ Cardinality(B) # Cardinality(T)
    BY <1>2, <2>1, <2>2, FS_Subset, FS_CardinalityType
  <2> QED  BY <2>1, <2>3 DEF Before, B
<1>3. ASSUME NEW j \in S, i < j PROVE Before(S, i) < Before(S, j)
  <2> DEFINE T == {k \in S : k < j}
  <2>1. T \in SUBSET S /\ i \in T /\ \A k \in S : k < i => k \in T
    BY <1>3
  <2> HIDE DEF T
  <2>2. Cardinality(T) \in Nat /\ Before(S, i) \in 0..Cardinality(T) - 1
    BY <1>2, <2>1
  <2> QED  BY <2>2 DEF Before, T
<1> QED  BY <1>2, <1>3

(* InOrder lists the elements of S in ascending order: the k-th of them    *)
(* has k - 1 before it.                                                    *)
LEMMA InOrderLists ==
  ASSUME NEW n \in Nat, NEW S \in SUBSET (1..n)
  PROVE  /\ InOrder(S) \in Seq(S) /\ Len(InOrder(S)) = Cardinality(S)
         /\ \A k \in 1..Cardinality(S) :
              InOrder(S)[k] \in S /\ Before(S, InOrder(S)[k]) = k - 1
         /\ \A i \in S : InOrder(S)[Before(S, i) + 1] = i
<1> DEFINE N == Cardinality(S)
           f == [i \in S |-> Before(S, i) + 1]
<1>1. IsFiniteSet(S) /\ N \in Nat
  BY IndicesFinite
<1>2. /\ \A i \in S : Before(S, i) \in 0..N - 1
      /\ \A i, j \in S : i < j => Before(S, i) < Before(S, j)
  BY BeforeGrows
<1>3. \A i, j \in S : Before(S, i) = Before(S, j) => i = j
  <2>1. ASSUME NEW i \in S, NEW j \in S, i # j PROVE Before(S, i) # Before(S, j)
    <3>1. i \in Int /\ j \in Int /\ Before(S, i) \in Int /\ Before(S, j) \in Int
      BY <1>1, <1>2
    <3>2. i < j \/ j < i
      BY <2>1, <3>1
    <3> QED  BY <1>2, <3>1, <3>2
  <2> QED  BY <2>1
<1>4. IsFiniteSet(1..N) /\ Cardinality(1..N) = N
  BY <1>1, FS_Interval
<1>5. f \in Injection(S, 1..N)
  <2> HIDE DEF N
  <2>1. f \in [S -> 1..N]
    BY <1>1, <1>2
  <2>2. \A i, j \in S : f[i] = f[j] => i = j
    <3>1. ASSUME NEW i \in S, NEW j \in S, f[i] = f[j] PROVE i = j
      <4>1. Before(S, i) \in Int /\ Before(S, j) \in Int
        BY <1>1, <1>2
      <4> QED  BY <1>3, <3>1, <4>1
    <3> QED  BY <3>1
  <2> HIDE DEF f
  <2> QED  BY <2>1, <2>2 DEF Injection, IsInjective
<1>6. f \in Surjection(S, 1..N)
  BY <1>4, <1>5, FS_Injection DEF N
<1>7. \A k \in 1..N : \E i \in S : Before(S, i) = k - 1
  <2> SUFFICES ASSUME NEW k \in 1..N PROVE \E i \in S : Before(S, i) = k - 1
    OBVIOUS
  <2>1. \E i \in S : f[i] = k
    <3> HIDE DEF f, N
    <3> QED  BY <1>6 DEF Surjection
  <2>2. PICK i \in S : f[i] = k
    BY <2>1
  <2> QED  BY <1>1, <1>2, <2>2
<1>8. \A k \in 1..N : InOrder(S)[k] \in S /\ Before(S, InOrder(S)[k]) = k - 1
  BY <1>7 DEF InOrder
<1>9. InOrder(S) \in Seq(S) /\ Len(InOrder(S)) = N
  <2>1. DOMAIN InOrder(S) = 1..N /\ InOrder(S) = [k \in 1..N |-> InOrder(S)[k]]
    BY DEF InOrder
  <2>2. InOrder(S) \in [1..N -> S]
    BY <1>8, <2>1
  <2> HIDE DEF N
  <2> QED  BY <1>1, <2>2
<1>10. \A i \in S : InOrder(S)[Before(S, i) + 1] = i
  <2> SUFFICES ASSUME NEW i \in S PROVE InOrder(S)[Before(S, i) + 1] = i
    OBVIOUS
  <2>1. PICK k : k = Before(S, i) + 1 /\ k \in 1..N
    BY <1>1, <1>2
  <2>2. InOrder(S)[k] \in S /\ Before(S, InOrder(S)[k]) = Before(S, i)
    BY <1>1, <1>2, <1>8, <2>1
  <2> QED  BY <1>3, <2>1, <2>2
<1> QED  BY <1>8, <1>9, <1>10

(* So it is strictly ascending, and lists every element once.              *)
LEMMA InOrderAscends ==
  ASSUME NEW n \in Nat, NEW S \in SUBSET (1..n),
         NEW j \in 1..Cardinality(S), NEW k \in 1..Cardinality(S)
  PROVE  j < k <=> InOrder(S)[j] < InOrder(S)[k]
<1>1. Cardinality(S) \in Nat
  BY IndicesFinite
<1>2. PICK a \in S, b \in S : a = InOrder(S)[j] /\ b = InOrder(S)[k]
        /\ Before(S, a) = j - 1 /\ Before(S, b) = k - 1
  <2>1. \A i \in 1..Cardinality(S) :
          InOrder(S)[i] \in S /\ Before(S, InOrder(S)[i]) = i - 1
    BY InOrderLists
  <2> QED  BY <2>1
<1>3. (a < b => j - 1 < k - 1) /\ (b < a => k - 1 < j - 1) /\ (a = b => j - 1 = k - 1)
  BY <1>2, BeforeGrows
<1>4. a \in Int /\ b \in Int /\ j \in Int /\ k \in Int
  BY <1>1
<1> QED  BY <1>2, <1>3, <1>4
-----------------------------------------------------------------------------
(* The window.                                                             *)

(* The offset is a row of the list, from which a whole window fits unless  *)
(* the list is shorter than one (model.go:2630).                           *)
LEMMA OffsetInList ==
  ASSUME NEW t \in Nat, NEW c \in Int, NEW o \in Int, NEW k \in Nat \ {0}
  PROVE  /\ ViewportOffset(t, c, o, k) \in Nat
         /\ ViewportOffset(t, c, o, k) <= Greatest(0, t - k)
  BY DEF ViewportOffset, Greatest, Clamp

(* The cursor is in the window (model.go:2623).                            *)
LEMMA OffsetShowsCursor ==
  ASSUME NEW t \in Nat \ {0}, NEW c \in 0..t - 1, NEW o \in Int,
         NEW k \in Nat \ {0}
  PROVE  Window(t, c, k, ViewportOffset(t, c, o, k))
<1> DEFINE w == ViewportOffset(t, c, o, k)
<1>1. c \in Int /\ t \in Int /\ k \in Int /\ t > 0 /\ 0 <= c /\ c < t /\ k >= 1
  OBVIOUS
<1>2. w \in Nat /\ w <= Greatest(0, t - k)
  BY <1>1, OffsetInList
<1>3. w = 0 \/ w + k <= t
  BY <1>1, <1>2 DEF Greatest
<1>4. w <= c /\ c < w + k
  <2>1. CASE t <= k
    BY <1>1, <1>2, <2>1 DEF Greatest
  <2>2. CASE t > k
    <3> DEFINE from == Clamp(o, 0, t - k)
               to == IF c < from THEN c
                     ELSE IF c >= from + k THEN c - k + 1 ELSE from
    <3>1. Greatest(1, k) = k /\ Greatest(0, t - k) = t - k
          /\ Clamp(c, 0, t - 1) = c
      BY <1>1, <2>2 DEF Greatest, Clamp
    <3>2. w = Clamp(to, 0, t - k)
      BY <1>1, <3>1 DEF ViewportOffset
    <3>3. from \in Int /\ 0 <= from /\ from <= t - k
      BY <1>1, <2>2 DEF Clamp
    <3> HIDE DEF w, from
    <3> QED  BY <1>1, <2>2, <3>2, <3>3 DEF Clamp
  <2> QED  BY <1>1, <2>1, <2>2
<1> QED  BY <1>2, <1>3, <1>4 DEF Window

(* No window that shows the cursor is nearer to the old one                *)
(* (model.go:2616).                                                        *)
LEMMA OffsetIsNearest ==
  ASSUME NEW t \in Nat \ {0}, NEW c \in 0..t - 1, NEW o \in Int,
         NEW k \in Nat \ {0}, NEW v \in Nat, Window(t, c, k, v)
  PROVE  Distance(o, ViewportOffset(t, c, o, k)) <= Distance(o, v)
<1>1. c \in Int /\ t \in Int /\ k \in Int /\ t > 0 /\ 0 <= c /\ c < t /\ k >= 1
  OBVIOUS
<1> QED  BY <1>1 DEF ViewportOffset, Greatest, Clamp, Window, Distance

(* What viewportOffset is for, of every list, cursor, old window and       *)
(* height of the page (model.go:2616).                                     *)
THEOREM WindowMovesLeast ==
  ASSUME NEW t \in Nat \ {0}, NEW c \in 0..t - 1, NEW o \in Int,
         NEW k \in Nat \ {0}
  PROVE  LeastMove(t, c, o, k)
<1>1. \A v \in 0..t : Window(t, c, k, v)
        => Distance(o, ViewportOffset(t, c, o, k)) <= Distance(o, v)
  <2> SUFFICES ASSUME NEW v \in 0..t, Window(t, c, k, v)
               PROVE  Distance(o, ViewportOffset(t, c, o, k)) <= Distance(o, v)
    OBVIOUS
  <2>1. v \in Nat
    OBVIOUS
  <2> QED  BY <2>1, OffsetIsNearest
<1> QED  BY <1>1, OffsetShowsCursor DEF LeastMove

(* A page that places its cursor puts it on the list and in the window.    *)
Shows(n, c, o, k) ==
  /\ c \in Int /\ o \in Int /\ k \in Nat \ {0}
  /\ n > 0 => c \in 0..n - 1 /\ Window(n, c, k, o)

LEMMA PlacedShows ==
  ASSUME NEW n \in Nat, NEW c \in Int, NEW o \in Int, NEW k \in Nat \ {0}
  PROVE  LET at == Clamp(c, 0, Greatest(0, n - 1))
         IN  Shows(n, at, ViewportOffset(n, at, o, k), k)
<1> DEFINE at == Clamp(c, 0, Greatest(0, n - 1))
           w == ViewportOffset(n, at, o, k)
<1>1. at \in Nat /\ (n > 0 => at \in 0..n - 1)
  BY DEF Clamp, Greatest
<1> HIDE DEF at
<1>2. w \in Nat
  BY <1>1, OffsetInList
<1>3. ASSUME n > 0 PROVE Window(n, at, k, w)
  <2>1. n \in Nat \ {0} /\ at \in 0..n - 1
    BY <1>1, <1>3
  <2> QED  BY <2>1, OffsetShowsCursor
<1> HIDE DEF w
<1> QED  BY <1>1, <1>2, <1>3 DEF Shows, at, w

-----------------------------------------------------------------------------
(* The connections page and the profiles page.                             *)

(* Distinct items of a finite set make a sequence.                         *)
LEMMA SequencedIsSeq ==
  ASSUME NEW S, IsFiniteSet(S), NEW s \in Sequenced(S)
  PROVE  s \in Seq(S) /\ \A i, j \in 1..Len(s) : i # j => s[i] # s[j]
<1>1. Cardinality(S) \in Nat
  BY FS_CardinalityType
<1>2. PICK n \in 0..Cardinality(S) :
        s \in {t \in [1..n -> S] : \A i, j \in 1..n : i # j => t[i] # t[j]}
  BY DEF Sequenced
<1>3. n \in Nat
  BY <1>1
<1>4. s \in Seq(S) /\ Len(s) = n
  BY <1>2, <1>3
<1> QED  BY <1>2, <1>4

(* The rows that match are indices of the list.                            *)
LEMMA RowsMatch ==
  ASSUME NEW l \in Seq(Items), NEW h
  PROVE  /\ Matching(l, h) \in Seq(1..Len(l))
         /\ l = <<>> => Matching(l, h) = <<>>
<1> DEFINE S == {i \in 1..Len(l) : l[i] \in h}
<1>1. Len(l) \in Nat /\ S \in SUBSET (1..Len(l))
  OBVIOUS
<1> HIDE DEF S
<1>2. InOrder(S) \in Seq(S) /\ Len(InOrder(S)) = Cardinality(S)
  BY <1>1, InOrderLists
<1>3. InOrder(S) \in Seq(1..Len(l))
  BY <1>1, <1>2, SeqMonotonic
<1>4. ASSUME l = <<>> PROVE InOrder(S) = <<>>
  <2>1. S = {}
    BY <1>4 DEF S
  <2>2. Cardinality(S) = 0
    BY <2>1, FS_EmptySet
  <2> QED  BY <1>2, <2>2
<1> QED  BY <1>3, <1>4 DEF Matching, S

(* The cached rows, if they are valid, are those of the list and of the    *)
(* filter; the cursor is on one of them, and in the window.                *)
ListInv ==
  /\ items \in Seq(Items) /\ rows \in Rows
  /\ view \in [valid : BOOLEAN, rows : Seq(Nat)]
  /\ view.valid => view.rows = Matching(items, hits)
  /\ Shows(Len(Matching(items, hits)), cursor, offset, rows)

LEMMA ViewIsMade ==
  ASSUME NEW v \in [valid : BOOLEAN, rows : Seq(Nat)], NEW l \in Seq(Items), NEW h
  PROVE  /\ Viewed(v, l, h) \in [valid : BOOLEAN, rows : Seq(Nat)]
         /\ Viewed(v, l, h).valid
         /\ v.valid => Viewed(v, l, h).rows = v.rows
         /\ ~v.valid => Viewed(v, l, h).rows = Matching(l, h)
         /\ Invalidated(v) \in [valid : BOOLEAN, rows : Seq(Nat)]
         /\ ~Invalidated(v).valid
<1>1. Matching(l, h) \in Seq(Nat)
  <2>1. 1..Len(l) \subseteq Nat
    OBVIOUS
  <2> QED  BY <2>1, RowsMatch, SeqMonotonic
<1> QED  BY <1>1 DEF Viewed, Invalidated

LEMMA NowIsTrue == ListInv => Now.rows = Matching(items, hits) /\ Now.valid
                              /\ Now \in [valid : BOOLEAN, rows : Seq(Nat)]
BY ViewIsMade DEF ListInv, Now

(* Placing the cursor on new rows.                                         *)
LEMMA PlaceKeeps ==
  ASSUME ListInv, NEW v \in [valid : BOOLEAN, rows : Seq(Nat)], v.valid,
         NEW c \in Int, Place(v, c), items' \in Seq(Items), rows' = rows,
         v.rows = Matching(items, hits)'
  PROVE  ListInv'
<1>1. rows \in Nat \ {0} /\ Len(v.rows) \in Nat /\ offset \in Int
  BY RowsAssumption DEF ListInv, Shows
<1>2. Shows(Len(v.rows), cursor', offset', rows)
  BY <1>1, PlacedShows DEF Place, Last
<1> QED  BY <1>2 DEF ListInv, Place

LEMMA IndexType ==
  ASSUME NEW v \in [valid : BOOLEAN, rows : Seq(Nat)], NEW l, NEW key, NEW c \in Int
  PROVE  /\ IndexOf(v, l, key, c) \in Int
         /\ At(v, l, key) # {} =>
              \E i \in At(v, l, key) : IndexOf(v, l, key, c) = i - 1
<1>1. Len(v.rows) \in Nat /\ At(v, l, key) \subseteq Int
  BY DEF At
<1>2. At(v, l, key) # {} => \E i \in At(v, l, key) : IndexOf(v, l, key, c) = i - 1
  BY DEF IndexOf
<1>3. At(v, l, key) = {} => IndexOf(v, l, key, c) = c
  BY DEF IndexOf
<1> QED  BY <1>1, <1>2, <1>3

(* The cursor placed on the index of an item is on that item.              *)
LEMMA PlacedOnItem ==
  ASSUME NEW v \in [valid : BOOLEAN, rows : Seq(Nat)], NEW l, NEW key, NEW c \in Int,
         At(v, l, key) # {}
  PROVE  Selected(v, l, Clamp(IndexOf(v, l, key, c), 0, Last(v))) = key
<1>1. PICK i \in At(v, l, key) : IndexOf(v, l, key, c) = i - 1
  BY IndexType
<1>2. i \in 1..Len(v.rows) /\ l[v.rows[i]] = key /\ Len(v.rows) \in Nat
  BY DEF At
<1>3. Clamp(i - 1, 0, Last(v)) = i - 1 /\ Clamp(i - 1, 0, Len(v.rows) - 1) = i - 1
  BY <1>2 DEF Clamp, Last, Greatest
<1>4. v.rows # <<>>
  BY <1>2
<1>5. Selected(v, l, i - 1) = l[v.rows[(i - 1) + 1]]
  BY <1>3, <1>4 DEF Selected
<1>6. (i - 1) + 1 = i
  BY <1>2
<1> QED  BY <1>1, <1>2, <1>3, <1>5, <1>6

LEMMA InitialList == Init => ListInv
<1> SUFFICES ASSUME Init PROVE ListInv
  OBVIOUS
<1>1. items = <<>> /\ items \in Seq(Items) /\ rows \in Rows
  BY DEF Init
<1>2. Matching(items, hits) = <<>> /\ Len(<<>>) = 0
  BY <1>1, RowsMatch
<1>3. Shows(0, cursor, offset, rows)
  BY RowsAssumption DEF Init, Shows
<1>4. view \in [valid : BOOLEAN, rows : Seq(Nat)] /\ ~view.valid
  BY DEF Init
<1> QED  BY <1>1, <1>2, <1>3, <1>4 DEF ListInv

LEMMA RefreshKeeps ==
  ASSUME ListInv, NEW l \in Seq(Items), NEW a, Refresh(l, a)
  PROVE  ListInv' /\ (At(Now', items', Key) # {} => Key' = Key)
<1> DEFINE v == Viewed(Invalidated(view), l, hits)
           c == IndexOf(v, l, Key, cursor)
<1>1. /\ v \in [valid : BOOLEAN, rows : Seq(Nat)] /\ v.valid
      /\ v.rows = Matching(l, hits)
  BY ViewIsMade DEF ListInv
<1>2. items' = l /\ hits' = hits /\ rows' = rows /\ Place(v, c)
  BY DEF Refresh, Key, Now
<1> HIDE DEF v
<1>3. c \in Int
  BY <1>1, IndexType DEF ListInv, Shows
<1>4. ListInv'
  <2> HIDE DEF c
  <2> QED  BY <1>1, <1>2, <1>3, PlaceKeeps
<1>5. ASSUME At(Now', items', Key) # {} PROVE Key' = Key
  <2>1. view' = v /\ Now' = v /\ cursor' = Clamp(c, 0, Last(v))
    BY <1>1, <1>2 DEF Place, Now, Viewed
  <2>2. Selected(v, l, Clamp(c, 0, Last(v))) = Key
    BY <1>1, <1>2, <1>5, <2>1, PlacedOnItem DEF ListInv, Shows
  <2>3. Key' = Selected(v, l, cursor')
    BY <1>2, <2>1 DEF Key
  <2> QED  BY <2>1, <2>2, <2>3
<1> QED  BY <1>4, <1>5

LEMMA ApplyFilterKeeps ==
  ASSUME ListInv, NEW h, ApplyFilter(h)
  PROVE  ListInv' /\ (At(Now', items', Key) # {} => Key' = Key)
<1> DEFINE v == Viewed(Invalidated(view), items, h)
           c == IndexOf(v, items, Key, 0)
<1>1. /\ v \in [valid : BOOLEAN, rows : Seq(Nat)] /\ v.valid
      /\ v.rows = Matching(items, h)
  BY ViewIsMade DEF ListInv
<1>2. items' = items /\ hits' = h /\ rows' = rows /\ Place(v, c)
  BY DEF ApplyFilter, Key, Now
<1> HIDE DEF v
<1>3. c \in Int
  BY <1>1, IndexType
<1>4. ListInv'
  <2> HIDE DEF c
  <2> QED  BY <1>1, <1>2, <1>3, PlaceKeeps DEF ListInv
<1>5. ASSUME At(Now', items', Key) # {} PROVE Key' = Key
  <2>1. view' = v /\ Now' = v /\ cursor' = Clamp(c, 0, Last(v))
    BY <1>1, <1>2 DEF Place, Now, Viewed
  <2>2. Selected(v, items, Clamp(c, 0, Last(v))) = Key
    BY <1>1, <1>2, <1>5, <2>1, PlacedOnItem
  <2>3. Key' = Selected(v, items, cursor')
    BY <1>2, <2>1 DEF Key
  <2> QED  BY <2>1, <2>2, <2>3
<1> QED  BY <1>4, <1>5

(* The service has stopped: no row is left, wherever the cursor stands.    *)
LEMMA ServiceStopsKeeps ==
  ASSUME ListInv, ServiceStops
  PROVE  ListInv' /\ At(Now', items', Key) = {}
<1>1. items' = <<>> /\ items' \in Seq(Items) /\ UNCHANGED <<hits, cursor, offset, rows>>
  BY DEF ServiceStops
<1>2. Matching(items', hits') = <<>> /\ Len(<<>>) = 0
  BY <1>1, RowsMatch
<1>3. Shows(0, cursor, offset, rows)
  BY DEF ListInv, Shows
<1>4. /\ view' \in [valid : BOOLEAN, rows : Seq(Nat)]
      /\ view'.valid => view'.rows = Matching(items', hits')
  BY <1>1, ViewIsMade DEF ServiceStops, ListInv
<1>5. ListInv'
  BY <1>1, <1>2, <1>3, <1>4 DEF ListInv
<1>6. Now'.rows = <<>>
  <2>1. Now' = Viewed(view', items', hits')
    BY DEF Now
  <2>2. CASE view'.valid
    <3>1. Viewed(view', items', hits') = view'
      BY <2>2 DEF Viewed
    <3>2. view'.rows = <<>>
      BY <1>2, <1>4, <2>2
    <3> QED  BY <2>1, <3>1, <3>2
  <2>3. CASE ~view'.valid
    <3>1. Viewed(view', items', hits').rows = Matching(items', hits')
      BY <2>3 DEF Viewed
    <3> QED  BY <1>2, <2>1, <3>1
  <2> QED  BY <2>2, <2>3
<1> QED  BY <1>2, <1>5, <1>6 DEF At

LEMMA ListStep ==
  ListInv /\ [Next]_vars
    => /\ ListInv'
       /\ (items' # items \/ hits' # hits) /\ At(Now', items', Key) # {} => Key' = Key
<1> SUFFICES ASSUME ListInv, [Next]_vars
             PROVE  /\ ListInv'
                    /\ (items' # items \/ hits' # hits) /\ At(Now', items', Key) # {}
                         => Key' = Key
  OBVIOUS
<1>1. ASSUME NEW l \in Sequenced(Items), NEW a \in Items \cup {NoItem}, Refresh(l, a)
      PROVE  ListInv' /\ (At(Now', items', Key) # {} => Key' = Key)
  <2>1. l \in Seq(Items)
    BY FiniteAssumption, SequencedIsSeq
  <2> QED  BY <1>1, <2>1, RefreshKeeps
<1>2. ASSUME NEW h, ApplyFilter(h)
      PROVE  ListInv' /\ (At(Now', items', Key) # {} => Key' = Key)
  BY <1>2, ApplyFilterKeeps
<1>3. ASSUME NEW c \in {0, Cardinality(Items), cursor - 1, cursor + 1, cursor - rows,
                        cursor + rows}, Move(c)
      PROVE  ListInv' /\ items' = items /\ hits' = hits
  <2>1. c \in Int
    BY FiniteAssumption, FS_CardinalityType, RowsAssumption DEF ListInv, Shows
  <2>2. Place(Now, c) /\ UNCHANGED <<items, hits, rows>>
    BY <1>3 DEF Move, Now
  <2>3. Now.rows = Matching(items, hits)' /\ items' \in Seq(Items)
    BY <2>2, NowIsTrue DEF ListInv
  <2> QED  BY <2>1, <2>2, <2>3, NowIsTrue, PlaceKeeps
<1>4. ASSUME NEW r \in Rows, Resize(r) PROVE ListInv' /\ items' = items /\ hits' = hits
  <2> DEFINE n == Len(Now.rows)
  <2>1. n \in Nat /\ n = Len(Matching(items, hits)) /\ r \in Nat \ {0}
    BY NowIsTrue, RowsAssumption
  <2>2. offset' = ViewportOffset(n, cursor, offset, r) /\ cursor' = cursor /\ rows' = r
          /\ view' = Now /\ items' = items /\ hits' = hits
    BY <1>4 DEF Resize, Now
  <2>3. Shows(n, cursor, offset, rows)
    BY <2>1 DEF ListInv
  <2> HIDE DEF n
  <2>4. offset' \in Int /\ cursor \in Int
    <3>1. cursor \in Int /\ offset \in Int
      BY <2>3 DEF Shows
    <3>2. ViewportOffset(n, cursor, offset, r) \in Nat
      BY <2>1, <3>1, OffsetInList
    <3> QED  BY <2>2, <3>1, <3>2
  <2>5. ASSUME n > 0 PROVE cursor \in 0..n - 1 /\ Window(n, cursor, r, offset')
    <3>1. n \in Nat \ {0} /\ cursor \in 0..n - 1
      BY <2>1, <2>3, <2>5 DEF Shows
    <3> QED  BY <2>1, <2>2, <2>3, <3>1, OffsetShowsCursor DEF Shows
  <2>6. Shows(n, cursor', offset', rows')
    BY <2>1, <2>2, <2>4, <2>5 DEF Shows
  <2> QED  BY <2>1, <2>2, <2>6, NowIsTrue DEF ListInv
<1>5. CASE Ask
  <2>1. view' = Now /\ UNCHANGED <<items, hits, rows, cursor, offset>>
    BY <1>5 DEF Ask, Now
  <2> QED  BY <2>1, NowIsTrue DEF ListInv
<1>6. CASE ServiceStops
  BY <1>6, ServiceStopsKeeps
<1>7. CASE Confirm \/ Dismiss \/ OperationMsg \/ UNCHANGED vars
  <2>1. UNCHANGED <<items, hits, view, cursor, offset, rows>>
    BY <1>7 DEF Confirm, Dismiss, OperationMsg, vars
  <2> QED  BY <2>1 DEF ListInv
<1> QED  BY <1>1, <1>2, <1>3, <1>4, <1>5, <1>6, <1>7 DEF Next

-----------------------------------------------------------------------------
(* While a dialog is open it names the item it was opened for: no list, no *)
(* filter and no stop of the service touches it.                           *)
Named == confirm # NoItem => confirm = asked

LEMMA NamedStep ==
  Named /\ [Next]_vars
    => /\ Named'
       /\ running' \notin {running, NoItem} => running' = asked /\ running' = confirm
<1> SUFFICES ASSUME Named, [Next]_vars
             PROVE  /\ Named'
                    /\ running' \notin {running, NoItem}
                         => running' = asked /\ running' = confirm
  OBVIOUS
<1>1. CASE Ask
  BY <1>1 DEF Ask, Named
<1>2. CASE Confirm
  BY <1>2 DEF Confirm, Target, Open, Named
<1>3. CASE Dismiss \/ OperationMsg
  BY <1>3 DEF Dismiss, OperationMsg, Named
<1>4. ASSUME UNCHANGED dialog
      PROVE  Named' /\ running' = running
  BY <1>4 DEF dialog, Named
<1> QED
  BY <1>1, <1>2, <1>3, <1>4
  DEF Next, vars, Refresh, ApplyFilter, Move, Resize, ServiceStops

-----------------------------------------------------------------------------
(* The proxies page.                                                       *)

LEMMA SameOperators ==
  /\ \A S : Proxy!InOrder(S) = InOrder(S)
  /\ \A S : Proxy!Sequenced(S) = Sequenced(S)
  /\ \A a, b : Proxy!Least(a, b) = Least(a, b) /\ Proxy!Greatest(a, b) = Greatest(a, b)
  /\ \A a, b, c : Proxy!Clamp(a, b, c) = Clamp(a, b, c)
  /\ \A t, c, o, k : Proxy!ViewportOffset(t, c, o, k) = ViewportOffset(t, c, o, k)
  /\ \A t, c, o, k : Proxy!Window(t, c, k, o) = Window(t, c, k, o)
<1>0. ASSUME NEW S PROVE Proxy!Cardinality(S) = Cardinality(S)
  BY Zenon DEF Proxy!Cardinality, Cardinality
<1>1. ASSUME NEW S PROVE Proxy!InOrder(S) = InOrder(S)
  BY Zenon
     DEF Proxy!InOrder, InOrder, Proxy!Before, Before, Proxy!Cardinality, Cardinality
<1>2. ASSUME NEW S PROVE Proxy!Sequenced(S) = Sequenced(S)
  BY <1>0, Zenon DEF Proxy!Sequenced, Sequenced
<1>3. \A a, b : Proxy!Least(a, b) = Least(a, b) /\ Proxy!Greatest(a, b) = Greatest(a, b)
  BY DEF Proxy!Least, Least, Proxy!Greatest, Greatest
<1>4. \A a, b, c : Proxy!Clamp(a, b, c) = Clamp(a, b, c)
  BY DEF Proxy!Clamp, Clamp
<1>5. \A t, c, o, k : Proxy!ViewportOffset(t, c, o, k) = ViewportOffset(t, c, o, k)
  BY <1>3, <1>4 DEF Proxy!ViewportOffset, ViewportOffset
<1>6. \A t, c, o, k : Proxy!Window(t, c, k, o) = Window(t, c, k, o)
  BY DEF Proxy!Window, Window
<1> QED  BY <1>1, <1>2, <1>3, <1>4, <1>5, <1>6

(* Types: a group, a row of what matches, and the model.                   *)
Group == [name : Groups, proxies : Seq(Proxies)]
Row == [group : Nat, proxies : Seq(Nat)]
ViewType == [valid : BOOLEAN, current : BOOLEAN, filter : Proxy!Filters, rows : Seq(Row)]
SearchType == [valid : BOOLEAN, current : BOOLEAN, texts : Seq(Group)]
IsModel(x) ==
  x \in [groups : Seq(Group), filter : Proxy!Filters, view : ViewType,
         search : SearchType, groupCursor : Int, proxyCursor : Int,
         groupOffset : Int, proxyOffset : Int, tests : {x.tests},
         columns : Nat \ {0}, rows : Nat \ {0}]

Distinct(groups) ==
  \A i, j \in 1..Len(groups) : i # j => groups[i].name # groups[j].name

LEMMA ListingsAreGroups ==
  ASSUME NEW groups \in Proxy!Listings
  PROVE  groups \in Seq(Group) /\ Distinct(groups)
<1>1. PICK g \in Sequenced(Groups) :
        \E p \in [1..Len(g) -> Sequenced(Proxies)] :
          groups = [i \in 1..Len(g) |-> [name |-> g[i], proxies |-> p[i]]]
  BY SameOperators DEF Proxy!Listings
<1>2. g \in Seq(Groups) /\ \A i, j \in 1..Len(g) : i # j => g[i] # g[j]
  BY FiniteAssumption, SequencedIsSeq
<1>3. PICK p \in [1..Len(g) -> Sequenced(Proxies)] :
        groups = [i \in 1..Len(g) |-> [name |-> g[i], proxies |-> p[i]]]
  BY <1>1
<1>4. Len(g) \in Nat /\ \A i \in 1..Len(g) : [name |-> g[i], proxies |-> p[i]] \in Group
  <2>1. Len(g) \in Nat
    BY <1>2
  <2> SUFFICES ASSUME NEW i \in 1..Len(g) PROVE [name |-> g[i], proxies |-> p[i]] \in Group
    BY <2>1
  <2>2. p[i] \in Seq(Proxies)
    BY FiniteAssumption, SequencedIsSeq
  <2>3. g[i] \in Groups
    BY <1>2, ElementOfSeq
  <2> QED  BY <2>2, <2>3 DEF Group
<1>5. groups \in Seq(Group) /\ Len(groups) = Len(g)
  BY <1>3, <1>4
<1> QED  BY <1>2, <1>3, <1>5 DEF Distinct

(* What matches a filter in a listing: rows of the listing, each once.     *)
RowsOf(groups, rs) ==
  /\ rs \in Seq(Row)
  /\ \A n \in 1..Len(rs) : rs[n].group \in 1..Len(groups)
  /\ \A j, k \in 1..Len(rs) : rs[j].group = rs[k].group => j = k

LEMMA GroupsMatch ==
  ASSUME NEW groups \in Seq(Group), NEW f
  PROVE  /\ RowsOf(groups, Proxy!Matching(groups, groups, f))
         /\ groups = <<>> => Proxy!Matching(groups, groups, f) = <<>>
<1> DEFINE hit(i) == f = "" \/ groups[i].name = f
           K(i) == {k \in 1..Len(groups[i].proxies) :
                      hit(i) \/ groups[i].proxies[k] = f}
           members(i) == InOrder(K(i))
           S == {i \in 1..Len(groups) : hit(i) \/ members(i) # <<>>}
           listed == InOrder(S)
           rs == [n \in DOMAIN listed |-> [group |-> listed[n], proxies |-> members(listed[n])]]
<1>1. Proxy!Matching(groups, groups, f) = rs
  BY SameOperators DEF Proxy!Matching
<1>2. \A i \in 1..Len(groups) : members(i) \in Seq(Nat)
  <2> SUFFICES ASSUME NEW i \in 1..Len(groups) PROVE members(i) \in Seq(Nat)
    OBVIOUS
  <2>1. groups[i] \in Group
    BY ElementOfSeq
  <2>2. PICK n \in Nat : n = Len(groups[i].proxies)
    BY <2>1 DEF Group
  <2>3. K(i) \in SUBSET (1..n)
    BY <2>2
  <2>4. 1..n \subseteq Nat
    OBVIOUS
  <2> HIDE DEF K
  <2>5. InOrder(K(i)) \in Seq(K(i))
    BY <2>2, <2>3, InOrderLists
  <2> QED  BY <2>3, <2>4, <2>5, SeqMonotonic
<1> HIDE DEF members
<1>3. Len(groups) \in Nat /\ S \in SUBSET (1..Len(groups)) /\ 1..Len(groups) \subseteq Nat
  <2>1. S \in SUBSET (1..Len(groups))
    <3> HIDE DEF hit
    <3> QED  OBVIOUS
  <2>2. Len(groups) \in Nat /\ 1..Len(groups) \subseteq Nat
    OBVIOUS
  <2> QED  BY <2>1, <2>2
<1>4. ASSUME groups = <<>> PROVE S = {}
  BY <1>4
<1> HIDE DEF S
<1>5. /\ listed \in Seq(S) /\ Len(listed) = Cardinality(S) /\ Cardinality(S) \in Nat
      /\ \A j, k \in 1..Cardinality(S) : listed[j] = listed[k] => j = k
  <2>1. listed \in Seq(S) /\ Len(listed) = Cardinality(S) /\ Cardinality(S) \in Nat
    <3>1. Cardinality(S) \in Nat
      BY <1>3, IndicesFinite
    <3> QED  BY <1>3, <3>1, InOrderLists
  <2>2. ASSUME NEW j \in 1..Cardinality(S), NEW k \in 1..Cardinality(S), listed[j] = listed[k]
        PROVE  j = k
    <3>1. Before(S, listed[j]) = j - 1 /\ Before(S, listed[k]) = k - 1
      BY <1>3, InOrderLists
    <3> QED  BY <2>1, <2>2, <3>1
  <2> QED  BY <2>1, <2>2
<1> HIDE DEF listed
<1>6. rs \in Seq(Row) /\ Len(rs) = Len(listed)
        /\ \A n \in 1..Len(rs) : rs[n].group = listed[n] /\ listed[n] \in S
  <2>1. DOMAIN listed = 1..Len(listed) /\ Len(listed) \in Nat
          /\ \A n \in 1..Len(listed) : listed[n] \in S
    BY <1>5, LenProperties, ElementOfSeq
  <2>2. \A n \in 1..Len(listed) :
          [group |-> listed[n], proxies |-> members(listed[n])] \in Row
    <3> SUFFICES ASSUME NEW n \in 1..Len(listed)
                 PROVE  [group |-> listed[n], proxies |-> members(listed[n])] \in Row
      OBVIOUS
    <3>1. listed[n] \in 1..Len(groups) /\ listed[n] \in Nat
      BY <1>3, <2>1
    <3> QED  BY <1>2, <3>1 DEF Row
  <2> QED  BY <2>1, <2>2
<1>7. ASSUME groups = <<>> PROVE rs = <<>>
  <2>1. Len(rs) = 0
    BY <1>4, <1>5, <1>6, <1>7, FS_EmptySet
  <2> HIDE DEF rs
  <2> QED  BY <1>6, <2>1, EmptySeq
<1>8. ASSUME NEW j \in 1..Len(rs), NEW k \in 1..Len(rs), rs[j].group = rs[k].group
      PROVE  j = k
  BY <1>5, <1>6, <1>8
<1>9. \A n \in 1..Len(rs) : rs[n].group \in 1..Len(groups)
  BY <1>3, <1>6
<1> HIDE DEF rs
<1> QED  BY <1>1, <1>6, <1>7, <1>8, <1>9 DEF RowsOf

(* What the caches promise of the listing, and what operations leave.      *)
Cached(x) ==
  /\ x.view.valid /\ x.view.current
       => x.view.rows = Proxy!Matching(x.groups, x.groups, x.view.filter)
  /\ x.search.valid /\ x.search.current /\ Len(x.search.texts) = Len(x.groups)
       => x.search.texts = x.groups

SameCursors(y, x) ==
  /\ y.groupCursor = x.groupCursor /\ y.proxyCursor = x.proxyCursor
  /\ y.groupOffset = x.groupOffset /\ y.proxyOffset = x.proxyOffset
  /\ y.columns = x.columns /\ y.rows = x.rows
SameListing(y, x) == y.groups = x.groups /\ y.filter = x.filter

LEMMA SearchedIs ==
  ASSUME NEW x, IsModel(x), Cached(x)
  PROVE  LET y == Proxy!Searched(x)
         IN  /\ IsModel(y) /\ Cached(y) /\ SameCursors(y, x) /\ SameListing(y, x)
             /\ y.search.texts = x.groups /\ y.view = x.view
<1> DEFINE s == [valid |-> TRUE, current |-> TRUE, texts |-> x.groups]
           y == [x EXCEPT !.search = s]
<1>1. s \in SearchType /\ s.texts = x.groups
  BY DEF IsModel, SearchType
<1> HIDE DEF s
<1>2. IsModel(y) /\ SameCursors(y, x) /\ SameListing(y, x) /\ y.view = x.view /\ y.search = s
  BY <1>1 DEF IsModel, SameCursors, SameListing
<1> HIDE DEF y
<1>3. Cached(y)
  BY <1>1, <1>2 DEF Cached, SameListing
<1>4. CASE x.search.valid /\ x.search.current /\ Len(x.search.texts) = Len(x.groups)
  <2>1. Proxy!Searched(x) = x
    BY <1>4 DEF Proxy!Searched
  <2> QED  BY <1>4, <2>1 DEF Cached, SameCursors, SameListing
<1>5. CASE ~(x.search.valid /\ x.search.current /\ Len(x.search.texts) = Len(x.groups))
  <2>1. Proxy!Searched(x) = y
    BY <1>5 DEF Proxy!Searched, y, s
  <2> QED  BY <1>1, <1>2, <1>3, <2>1
<1> QED  BY <1>4, <1>5

(* The view is made of the listing and the filter, from whatever cache.    *)
Made(x) == x.view.valid /\ x.view.current /\ x.view.filter = x.filter

LEMMA MadeIs ==
  ASSUME NEW x, Cached(x), Made(x)
  PROVE  /\ Proxy!Viewed(x) = x
         /\ x.view.rows = Proxy!Matching(x.groups, x.groups, x.filter)
BY DEF Made, Cached, Proxy!Viewed

LEMMA ViewedIs ==
  ASSUME NEW x, IsModel(x), Cached(x)
  PROVE  LET y == Proxy!Viewed(x)
         IN  /\ IsModel(y) /\ Cached(y) /\ SameCursors(y, x) /\ SameListing(y, x)
             /\ y.view.rows = Proxy!Matching(x.groups, x.groups, x.filter)
             /\ Made(y)
<1>1. CASE x.view.valid /\ x.view.current /\ x.view.filter = x.filter
  <2>1. Proxy!Viewed(x) = x
    BY <1>1 DEF Proxy!Viewed
  <2> QED  BY <1>1, <2>1 DEF Cached, SameCursors, SameListing, Made
<1>2. CASE ~(x.view.valid /\ x.view.current /\ x.view.filter = x.filter)
  <2> DEFINE z == IF x.filter = "" THEN x ELSE Proxy!Searched(x)
             texts == IF z.filter = "" THEN z.groups ELSE z.search.texts
             v == [valid |-> TRUE, current |-> TRUE, filter |-> z.filter,
                   rows |-> Proxy!Matching(z.groups, texts, z.filter)]
             y == [z EXCEPT !.view = v]
  <2>1. Proxy!Viewed(x) = y
    BY <1>2 DEF Proxy!Viewed
  <2>2. /\ IsModel(z) /\ Cached(z) /\ SameCursors(z, x) /\ SameListing(z, x)
        /\ texts = z.groups
    <3>1. CASE x.filter = ""
      BY <3>1 DEF SameCursors, SameListing
    <3>2. CASE x.filter # ""
      <4>1. z = Proxy!Searched(x)
        BY <3>2
      <4> HIDE DEF z
      <4> QED  BY <3>2, <4>1, SearchedIs DEF SameListing
    <3> QED  BY <3>1, <3>2
  <2> HIDE DEF z, texts
  <2>3. z.groups \in Seq(Group) /\ z.filter \in Proxy!Filters
    BY <2>2 DEF IsModel
  <2>4. /\ v \in ViewType /\ v.valid /\ v.current /\ v.filter = z.filter
        /\ v.rows = Proxy!Matching(z.groups, z.groups, z.filter)
    BY <2>2, <2>3, GroupsMatch DEF ViewType, RowsOf
  <2> HIDE DEF v
  <2>5. /\ IsModel(y) /\ SameCursors(y, z) /\ SameListing(y, z) /\ y.view = v
        /\ y.search = z.search
    BY <2>2, <2>4 DEF IsModel, SameCursors, SameListing
  <2> HIDE DEF y
  <2>6. Cached(y)
    BY <2>2, <2>4, <2>5 DEF Cached, SameListing
  <2>7. Made(y)
    BY <2>4, <2>5 DEF Made, SameListing
  <2> QED  BY <2>1, <2>2, <2>4, <2>5, <2>6, <2>7 DEF SameCursors, SameListing
<1> QED  BY <1>1, <1>2

(* Another listing, or another filter, and no view of the old one is left. *)
LEMMA ChangedIs ==
  ASSUME NEW x, IsModel(x), NEW groups \in Seq(Group)
  PROVE  LET y == Proxy!Invalidated(Proxy!Versioned([x EXCEPT !.groups = groups]))
         IN  /\ IsModel(y) /\ Cached(y) /\ SameCursors(y, x)
             /\ y.groups = groups /\ y.filter = x.filter
<1> DEFINE a == [x EXCEPT !.groups = groups]
           b == Proxy!Versioned(a)
           y == Proxy!Invalidated(b)
           none == [valid |-> FALSE, current |-> FALSE, texts |-> <<>>]
<1>1. IsModel(a) /\ SameCursors(a, x) /\ a.groups = groups /\ a.filter = x.filter
  BY DEF IsModel, SameCursors
<1> HIDE DEF a
<1>2. /\ IsModel(b) /\ SameCursors(b, a) /\ SameListing(b, a)
      /\ ~b.view.current /\ ~b.search.current
  BY <1>1 DEF IsModel, ViewType, SearchType, Proxy!Versioned, SameCursors, SameListing
<1> HIDE DEF b
<1>3. none \in SearchType
  BY DEF SearchType
<1>4. /\ IsModel(y) /\ SameCursors(y, b) /\ SameListing(y, b)
      /\ ~y.view.valid /\ ~y.search.valid
  BY <1>2, <1>3 DEF IsModel, ViewType, SearchType, Proxy!Invalidated, SameCursors, SameListing
<1> HIDE DEF y
<1>5. Cached(y)
  BY <1>4 DEF Cached
<1> QED  BY <1>1, <1>2, <1>4, <1>5 DEF SameCursors, SameListing, y, b, a

LEMMA RefilteredIs ==
  ASSUME NEW x, IsModel(x), Cached(x), NEW f \in Proxy!Filters
  PROVE  LET y == Proxy!Invalidated([x EXCEPT !.filter = f])
         IN  /\ IsModel(y) /\ Cached(y) /\ SameCursors(y, x)
             /\ y.groups = x.groups /\ y.filter = f
<1> DEFINE a == [x EXCEPT !.filter = f]
           y == Proxy!Invalidated(a)
           none == [valid |-> FALSE, current |-> FALSE, texts |-> <<>>]
<1>1. /\ IsModel(a) /\ SameCursors(a, x) /\ a.groups = x.groups /\ a.filter = f
      /\ a.search = x.search /\ a.view = x.view
  BY DEF IsModel, SameCursors
<1> HIDE DEF a
<1>2. /\ IsModel(y) /\ SameCursors(y, a) /\ SameListing(y, a) /\ ~y.view.valid
      /\ y.search = IF a.search.current THEN a.search ELSE none
  <2>1. none \in SearchType
    BY DEF SearchType
  <2> DEFINE s == IF a.search.current THEN a.search ELSE none
             b == [a EXCEPT !.view.valid = FALSE]
  <2>2. s \in SearchType
    BY <1>1, <2>1 DEF IsModel
  <2>3. y = [b EXCEPT !.search = s]
    BY <1>1 DEF IsModel, Proxy!Invalidated
  <2> HIDE DEF s
  <2>4. IsModel(b) /\ SameCursors(b, a) /\ SameListing(b, a) /\ ~b.view.valid
    BY <1>1 DEF IsModel, ViewType, SameCursors, SameListing
  <2> HIDE DEF b, y
  <2>5. /\ IsModel(y) /\ SameCursors(y, b) /\ SameListing(y, b) /\ y.view = b.view
        /\ y.search = s
    BY <2>2, <2>3, <2>4 DEF IsModel, SameCursors, SameListing
  <2> QED  BY <2>4, <2>5 DEF SameCursors, SameListing, s
<1> HIDE DEF y
<1>3. Cached(y)
  BY <1>1, <1>2 DEF Cached, SameListing
<1> QED  BY <1>1, <1>2, <1>3 DEF SameCursors, SameListing, y, a

(* The cursors of a model whose view is made: they are on the rows and in  *)
(* the windows.                                                            *)
InRange(x) ==
  x.view.rows # <<>> =>
    /\ x.groupCursor \in 0..Len(x.view.rows) - 1
    /\ Proxy!Members(x) # <<>> => x.proxyCursor \in 0..Len(Proxy!Members(x)) - 1
Seen(x) ==
  x.view.rows # <<>> =>
    /\ Shows(Len(x.view.rows), x.groupCursor, x.groupOffset,
             Least(Len(x.view.rows), x.columns))
    /\ Proxy!Members(x) # <<>> =>
         Shows(Len(Proxy!Members(x)), x.proxyCursor, x.proxyOffset, x.rows)

SameCaches(y, x) ==
  y.view = x.view /\ y.search = x.search /\ SameListing(y, x)

LEMMA MembersIs ==
  ASSUME NEW x, IsModel(x)
  PROVE  /\ Proxy!Members(x) \in Seq(Nat)
         /\ x.view.rows # <<>> =>
              /\ Proxy!GroupAt(x) \in 1..Len(x.view.rows)
              /\ Proxy!Members(x) = x.view.rows[Proxy!GroupAt(x)].proxies
         /\ \A c \in 0..Len(x.view.rows) - 1 : x.groupCursor = c => Proxy!GroupAt(x) = c + 1
<1> DEFINE R == x.view.rows
<1>1. R \in Seq(Row) /\ x.groupCursor \in Int
  BY DEF IsModel, ViewType
<1>2. PICK n \in Nat : n = Len(R)
  BY <1>1
<1>3. Proxy!GroupAt(x) = Clamp(x.groupCursor, 0, n - 1) + 1
  BY <1>2, SameOperators DEF Proxy!GroupAt, Proxy!ViewedRows
<1>4. Proxy!Members(x) = IF R = <<>> THEN <<>> ELSE R[Proxy!GroupAt(x)].proxies
  BY DEF Proxy!Members, Proxy!ViewedRows
<1> HIDE DEF R
<1>5. ASSUME R # <<>> PROVE Proxy!GroupAt(x) \in 1..n
  <2>1. n > 0
    BY <1>1, <1>2, <1>5, EmptySeq
  <2> QED  BY <1>1, <1>2, <1>3, <2>1 DEF Clamp
<1>6. ASSUME R # <<>> PROVE R[Proxy!GroupAt(x)].proxies \in Seq(Nat)
  <2>1. R[Proxy!GroupAt(x)] \in Row
    BY <1>1, <1>2, <1>5, <1>6, ElementOfSeq
  <2> QED  BY <2>1 DEF Row
<1>7. \A c \in 0..n - 1 : x.groupCursor = c => Proxy!GroupAt(x) = c + 1
  BY <1>2, <1>3 DEF Clamp
<1> QED  BY <1>2, <1>4, <1>5, <1>6, <1>7 DEF R

LEMMA SameMembers ==
  ASSUME NEW x, NEW y, y.view.rows = x.view.rows, y.groupCursor = x.groupCursor
  PROVE  Proxy!Members(y) = Proxy!Members(x)
BY DEF Proxy!Members, Proxy!ViewedRows, Proxy!GroupAt

LEMMA SeenInRange ==
  ASSUME NEW x, IsModel(x), Seen(x)
  PROVE  InRange(x)
<1>1. /\ x.view.rows \in Seq(Row) /\ Proxy!Members(x) \in Seq(Nat)
      /\ x.view.rows # <<>> => Len(x.view.rows) > 0
      /\ Proxy!Members(x) # <<>> => Len(Proxy!Members(x)) > 0
  <2>1. x.view.rows \in Seq(Row) /\ Proxy!Members(x) \in Seq(Nat)
    BY MembersIs DEF IsModel, ViewType
  <2> QED  BY <2>1, EmptySeq
<1> QED  BY <1>1 DEF Seen, InRange, Shows

(* Setting a cursor leaves the rest.                                       *)
LEMMA CursorSet ==
  ASSUME NEW x, IsModel(x), NEW c \in Int
  PROVE  /\ LET y == [x EXCEPT !.groupCursor = c]
            IN  /\ IsModel(y) /\ SameCaches(y, x) /\ y.groupCursor = c
                /\ y.proxyCursor = x.proxyCursor
         /\ LET y == [x EXCEPT !.proxyCursor = c]
            IN  /\ IsModel(y) /\ SameCaches(y, x) /\ y.proxyCursor = c
                /\ y.groupCursor = x.groupCursor
BY DEF IsModel, SameCaches, SameListing

LEMMA SyncedIs ==
  ASSUME NEW x, IsModel(x), InRange(x)
  PROVE  LET y == Proxy!Synced(x)
         IN  /\ IsModel(y) /\ SameCaches(y, x) /\ Seen(y)
             /\ y.groupCursor = x.groupCursor /\ y.proxyCursor = x.proxyCursor
             /\ Proxy!Members(y) = Proxy!Members(x)
<1> DEFINE R == x.view.rows
           M == Proxy!Members(x)
           k == Least(Greatest(1, Len(R)), x.columns)
           g == ViewportOffset(Len(R), x.groupCursor, x.groupOffset, k)
           p == ViewportOffset(Len(M), x.proxyCursor, x.proxyOffset, x.rows)
           y == [x EXCEPT !.groupOffset = g, !.proxyOffset = p]
<1>1. Proxy!Synced(x) = y
  BY SameOperators DEF Proxy!Synced, Proxy!ViewedRows, IsModel
<1>2. /\ R \in Seq(Row) /\ M \in Seq(Nat)
      /\ {x.groupCursor, x.proxyCursor, x.groupOffset, x.proxyOffset} \subseteq Int
      /\ {x.columns, x.rows} \subseteq Nat \ {0}
  BY MembersIs DEF IsModel, ViewType
<1>3. /\ Len(R) \in Nat /\ Len(M) \in Nat
      /\ (R # <<>> => Len(R) > 0) /\ (M # <<>> => Len(M) > 0)
  BY <1>2, EmptySeq
<1>4. k \in Nat \ {0} /\ (Len(R) > 0 => k = Least(Len(R), x.columns))
  BY <1>2, <1>3 DEF Least, Greatest
<1> HIDE DEF R, M, k
<1>5. g \in Int /\ p \in Int
  <2>1. g \in Nat /\ p \in Nat
    BY <1>2, <1>3, <1>4, OffsetInList
  <2> HIDE DEF g, p
  <2> QED  BY <2>1
<1>6. ASSUME R # <<>>
      PROVE  /\ Shows(Len(R), x.groupCursor, g, Least(Len(R), x.columns))
             /\ M # <<>> => Shows(Len(M), x.proxyCursor, p, x.rows)
  <2>1. Len(R) \in Nat \ {0} /\ x.groupCursor \in 0..Len(R) - 1
    BY <1>3, <1>6 DEF InRange, R
  <2>2. Window(Len(R), x.groupCursor, k, g)
    BY <1>2, <1>4, <2>1, OffsetShowsCursor
  <2>3. ASSUME M # <<>> PROVE Shows(Len(M), x.proxyCursor, p, x.rows)
    <3>1. Len(M) \in Nat \ {0} /\ x.proxyCursor \in 0..Len(M) - 1
      BY <1>3, <1>6, <2>3 DEF InRange, R, M
    <3>2. Window(Len(M), x.proxyCursor, x.rows, p)
      BY <1>2, <3>1, OffsetShowsCursor
    <3> HIDE DEF p
    <3> QED  BY <1>2, <1>5, <3>1, <3>2 DEF Shows
  <2> HIDE DEF g, p
  <2> QED  BY <1>2, <1>4, <1>5, <2>1, <2>2, <2>3 DEF Shows
<1> HIDE DEF g, p
<1>y. y = [x EXCEPT !.groupOffset = g, !.proxyOffset = p]
  OBVIOUS
<1> HIDE DEF y
<1>7. /\ IsModel(y) /\ SameCaches(y, x) /\ y.groupOffset = g /\ y.proxyOffset = p
      /\ y.groupCursor = x.groupCursor /\ y.proxyCursor = x.proxyCursor
      /\ y.columns = x.columns /\ y.rows = x.rows
  BY <1>5, <1>y DEF IsModel, SameCaches, SameListing
<1>8. Proxy!Members(y) = M
  BY <1>7, SameMembers DEF SameCaches, M
<1>9. Seen(y)
  BY <1>6, <1>7, <1>8 DEF Seen, SameCaches, R
<1> QED  BY <1>1, <1>7, <1>8, <1>9 DEF M, y

LEMMA ClampedIs ==
  ASSUME NEW x, IsModel(x)
  PROVE  LET y == Proxy!Clamped(x)
         IN  /\ IsModel(y) /\ SameCaches(y, x) /\ Seen(y)
             /\ x.groupCursor \in 0..Len(x.view.rows) - 1 =>
                  /\ y.groupCursor = x.groupCursor
                  /\ x.proxyCursor \in 0..Len(Proxy!Members(x)) - 1
                       => y.proxyCursor = x.proxyCursor
<1> DEFINE R == x.view.rows
           c == Clamp(x.groupCursor, 0, Greatest(0, Len(R) - 1))
           a == [x EXCEPT !.groupCursor = c]
           d == Clamp(x.proxyCursor, 0, Greatest(0, Len(Proxy!Members(a)) - 1))
           b == [a EXCEPT !.proxyCursor = d]
<1>1. R \in Seq(Row) /\ {x.groupCursor, x.proxyCursor} \subseteq Int
  BY DEF IsModel, ViewType
<1>2. Len(R) \in Nat /\ (R # <<>> => Len(R) > 0)
  BY <1>1, EmptySeq
<1>3. /\ c \in Int /\ (Len(R) > 0 => c \in 0..Len(R) - 1)
      /\ x.groupCursor \in 0..Len(R) - 1 => c = x.groupCursor
  BY <1>1, <1>2 DEF Clamp, Greatest
<1> HIDE DEF c, R
<1>4. /\ IsModel(a) /\ SameCaches(a, x) /\ a.groupCursor = c
      /\ a.proxyCursor = x.proxyCursor
  BY <1>3, CursorSet
<1>5. Proxy!Clamped(x) = Proxy!Synced(b)
  BY <1>4, SameOperators DEF Proxy!Clamped, Proxy!ViewedRows, R, c
<1> HIDE DEF a
<1>6. Proxy!Members(a) \in Seq(Nat)
  BY <1>4, MembersIs
<1>7. PICK n \in Nat : n = Len(Proxy!Members(a)) /\ (Proxy!Members(a) # <<>> => n > 0)
  BY <1>6, EmptySeq
<1>8. /\ d \in Int /\ (n > 0 => d \in 0..n - 1)
      /\ x.proxyCursor \in 0..n - 1 => d = x.proxyCursor
  BY <1>1, <1>7 DEF Clamp, Greatest
<1> HIDE DEF d
<1>9. /\ IsModel(b) /\ SameCaches(b, a) /\ b.groupCursor = c /\ b.proxyCursor = d
  BY <1>4, <1>8, CursorSet
<1> HIDE DEF b
<1>10. Proxy!Members(b) = Proxy!Members(a)
  BY <1>4, <1>9, SameMembers DEF SameCaches
<1>11. InRange(b)
  BY <1>2, <1>3, <1>4, <1>7, <1>8, <1>9, <1>10 DEF InRange, SameCaches, R
<1>12. /\ IsModel(Proxy!Synced(b)) /\ SameCaches(Proxy!Synced(b), b) /\ Seen(Proxy!Synced(b))
       /\ Proxy!Synced(b).groupCursor = c /\ Proxy!Synced(b).proxyCursor = d
  BY <1>9, <1>11, SyncedIs
<1>13. ASSUME x.groupCursor \in 0..Len(R) - 1
       PROVE  c = x.groupCursor /\ Proxy!Members(a) = Proxy!Members(x)
  BY <1>3, <1>4, <1>13, SameMembers DEF SameCaches
<1>14. SameCaches(Proxy!Synced(b), x)
  BY <1>4, <1>9, <1>12 DEF SameCaches, SameListing
<1> QED  BY <1>5, <1>7, <1>8, <1>12, <1>13, <1>14 DEF R

(* The search for a group or a proxy finds the first one.                  *)
LEMMA LeastExists ==
  ASSUME NEW S, S \subseteq Nat, S # {}
  PROVE  \E i \in S : \A j \in S : i <= j
<1>1. PICK n \in S : \A k \in S : ~ (<<k, n>> \in OpToRel(<, Nat))
  BY NatLessThanWellFounded, WFMin
<1>2. OpToRel(<, Nat) = {ss \in Nat \X Nat : ss[1] < ss[2]}
  BY DEF OpToRel
<1>3. ASSUME NEW k \in S PROVE n <= k
  <2>1. k \in Nat /\ n \in Nat
    OBVIOUS
  <2>2. ~ (<<k, n>> \in {ss \in Nat \X Nat : ss[1] < ss[2]})
    BY <1>1, <1>2
  <2> QED  BY <2>1, <2>2
<1> QED  BY <1>3

First(S) == CHOOSE i \in S : \A j \in S : i <= j
FirstIndex(S) == IF S = {} THEN 0 ELSE First(S) - 1

LEMMA FirstIndexIs ==
  ASSUME NEW n \in Nat, NEW S \in SUBSET (1..n)
  PROVE  FirstIndex(S) \in Int /\ (S # {} => FirstIndex(S) + 1 \in S)
<1>1. ASSUME S # {} PROVE FirstIndex(S) \in Int /\ FirstIndex(S) + 1 \in S
  <2>1. S \subseteq Nat
    OBVIOUS
  <2>2. First(S) \in S
    BY <1>1, <2>1, LeastExists DEF First
  <2>3. FirstIndex(S) = First(S) - 1
    BY <1>1 DEF FirstIndex
  <2>4. First(S) \in Nat
    BY <2>1, <2>2
  <2> QED  BY <2>2, <2>3, <2>4
<1>2. ASSUME S = {} PROVE FirstIndex(S) \in Int
  BY <1>2 DEF FirstIndex
<1> QED  BY <1>1, <1>2

(* The cursors restored after a change are on the group and the proxy they *)
(* were on, if these are listed.                                           *)
NodesAt(x, i, node) ==
  {k \in 1..Len(x.view.rows[i].proxies) :
     x.groups[x.view.rows[i].group].proxies[x.view.rows[i].proxies[k]] = node}

LEMMA RestoredIs ==
  ASSUME NEW x, IsModel(x), RowsOf(x.groups, x.view.rows), Distinct(x.groups), NEW s
  PROVE  LET y == Proxy!Restored(x, s)
         IN  /\ IsModel(y) /\ SameCaches(y, x) /\ Seen(y)
             /\ \A i \in Proxy!Found(x, s) :
                  /\ Proxy!Selected(y).group = s.group
                  /\ NodesAt(x, i, s.node) # {} => Proxy!Selected(y).node = s.node
<1> DEFINE R == x.view.rows
           F == Proxy!Found(x, s)
           gc == FirstIndex(F)
           pc == IF F = {} THEN 0 ELSE FirstIndex(NodesAt(x, gc + 1, s.node))
           a == [x EXCEPT !.groupCursor = gc, !.proxyCursor = pc]
           y == Proxy!Clamped(a)
<1>1. Proxy!Restored(x, s) = y
  BY DEF Proxy!Restored, Proxy!ViewedRows, First, FirstIndex, NodesAt
<1>2. R \in Seq(Row) /\ Len(R) \in Nat /\ F \in SUBSET (1..Len(R))
  BY DEF IsModel, ViewType, Proxy!Found, Proxy!ViewedRows
<1>3. \A i \in 1..Len(R) : R[i].proxies \in Seq(Nat) /\ R[i].group \in 1..Len(x.groups)
  <2>1. \A i \in 1..Len(R) : R[i] \in Row
    BY <1>2, ElementOfSeq
  <2> QED  BY <2>1 DEF Row, RowsOf
<1>11. \A i \in 1..Len(R) : Len(R[i].proxies) \in Nat
  <2>1. \A l \in Seq(Nat) : Len(l) \in Nat
    OBVIOUS
  <2> QED  BY <1>3, <2>1, Zenon
<1>4. gc \in Int /\ (F # {} => gc + 1 \in F)
  BY <1>2, FirstIndexIs
<1>5. \A i \in F : i = gc + 1
  <2> SUFFICES ASSUME NEW i \in F PROVE i = gc + 1
    OBVIOUS
  <2>1. PICK j \in F : j = gc + 1
    BY <1>4
  <2>2. x.groups[R[i].group].name = x.groups[R[j].group].name
    BY DEF Proxy!Found, Proxy!ViewedRows
  <2>3. R[i].group = R[j].group
    BY <1>2, <1>3, <2>2 DEF Distinct
  <2> QED  BY <1>2, <2>1, <2>3 DEF RowsOf
<1> HIDE DEF F, gc
<1>6. /\ pc \in Int
      /\ \A i \in F : /\ pc = FirstIndex(NodesAt(x, i, s.node))
                      /\ NodesAt(x, i, s.node) # {} => pc + 1 \in NodesAt(x, i, s.node)
  <2>1. ASSUME NEW i \in F
        PROVE  /\ pc \in Int /\ pc = FirstIndex(NodesAt(x, i, s.node))
               /\ NodesAt(x, i, s.node) # {} => pc + 1 \in NodesAt(x, i, s.node)
    <3>1. pc = FirstIndex(NodesAt(x, i, s.node))
      BY <1>5
    <3>2. Len(R[i].proxies) \in Nat
      BY <1>2, <1>11, Zenon
    <3>3. NodesAt(x, i, s.node) \in SUBSET (1..Len(R[i].proxies))
      BY DEF NodesAt
    <3> QED  BY <3>1, <3>2, <3>3, FirstIndexIs
  <2>2. ASSUME F = {} PROVE pc \in Int
    BY <2>2
  <2> QED  BY <2>1, <2>2
<1> HIDE DEF pc
<1>7. IsModel(a) /\ SameCaches(a, x) /\ a.groupCursor = gc /\ a.proxyCursor = pc
  BY <1>4, <1>6 DEF IsModel, SameCaches, SameListing
<1> HIDE DEF a
<1>8. /\ IsModel(y) /\ SameCaches(y, a) /\ Seen(y)
      /\ a.groupCursor \in 0..Len(a.view.rows) - 1 =>
           /\ y.groupCursor = a.groupCursor
           /\ a.proxyCursor \in 0..Len(Proxy!Members(a)) - 1 => y.proxyCursor = a.proxyCursor
  BY <1>7, ClampedIs
<1> HIDE DEF y
<1>9. SameCaches(y, x)
  BY <1>7, <1>8 DEF SameCaches, SameListing
<1>10. ASSUME NEW i \in F
       PROVE  /\ Proxy!Selected(y).group = s.group
              /\ NodesAt(x, i, s.node) # {} => Proxy!Selected(y).node = s.node
  <2>1. i \in 1..Len(R) /\ gc = i - 1 /\ gc \in 0..Len(R) - 1
    BY <1>2, <1>4, <1>5
  <2>2. y.groupCursor = gc /\ y.view.rows = R /\ y.groups = x.groups /\ a.view.rows = R
          /\ y.view = x.view /\ a.view = x.view
    BY <1>7, <1>8, <1>9, <2>1 DEF SameCaches, SameListing
  <2>3. Proxy!GroupAt(y) = i /\ Proxy!GroupAt(a) = i
    BY <1>7, <1>8, <2>1, <2>2, MembersIs
  <2>4. R # <<>>
    BY <1>2, <2>1
  <2>5. Proxy!Members(y) = R[i].proxies /\ Proxy!Members(a) = R[i].proxies
    BY <1>7, <1>8, <2>2, <2>3, <2>4, MembersIs
  <2>6. /\ Proxy!Selected(y).group = x.groups[R[i].group].name
        /\ R[i].proxies # <<>> =>
             Proxy!Selected(y).node =
               x.groups[R[i].group].proxies[
                 R[i].proxies[Clamp(y.proxyCursor, 0, Len(R[i].proxies) - 1) + 1]]
    BY <2>2, <2>3, <2>4, <2>5, SameOperators DEF Proxy!Selected, Proxy!ViewedRows
  <2>7. x.groups[R[i].group].name = s.group
    BY DEF F, Proxy!Found, Proxy!ViewedRows
  <2>8. ASSUME NodesAt(x, i, s.node) # {} PROVE Proxy!Selected(y).node = s.node
    <3> DEFINE n == Len(R[i].proxies)
    <3>1. n \in Nat
      BY <1>11, <2>1, Zenon
    <3>2. pc + 1 \in 1..n /\ pc \in 0..n - 1
            /\ x.groups[R[i].group].proxies[R[i].proxies[pc + 1]] = s.node
      <4>1. NodesAt(x, i, s.node) # {} => pc + 1 \in NodesAt(x, i, s.node)
        BY <1>6, <1>10, Zenon
      <4>2. pc + 1 \in NodesAt(x, i, s.node)
        BY <2>8, <4>1, Zenon
      <4>3. pc + 1 \in 1..n
        BY <4>2 DEF NodesAt
      <4>4. x.groups[R[i].group].proxies[R[i].proxies[pc + 1]] = s.node
        BY <4>2 DEF NodesAt
      <4>5. pc \in Int
        BY <1>6
      <4>6. pc \in 0..n - 1
        <5> HIDE DEF n
        <5> QED  BY <3>1, <4>3, <4>5
      <4> QED  BY <4>3, <4>4, <4>6
    <3>3. y.proxyCursor = pc
      BY <1>7, <1>8, <2>1, <2>2, <2>5, <3>2
    <3>4. Clamp(y.proxyCursor, 0, n - 1) = pc
      <4>1. Clamp(pc, 0, n - 1) = pc
        <5>1. pc \in 0..n - 1
          BY <3>2, Zenon
        <5> HIDE DEF n
        <5> QED  BY <3>1, <5>1 DEF Clamp
      <4> QED  BY <3>3, <4>1, Zenon
    <3>5. R[i].proxies # <<>>
      <4>1. pc \in 0..n - 1
        BY <3>2, Zenon
      <4>2. n # 0
        <5> HIDE DEF n
        <5> QED  BY <3>1, <4>1
      <4>3. R[i].proxies = <<>> => n = 0
        OBVIOUS
      <4> QED  BY <4>2, <4>3, Zenon
    <3> HIDE DEF n
    <3> QED  BY <2>6, <3>2, <3>4, <3>5 DEF n
  <2> QED  BY <2>6, <2>7, <2>8
<1> QED  BY <1>1, <1>8, <1>9, <1>10 DEF F

(* The invariant of the page, of a model x.                                *)
Good(x) ==
  IsModel(x) /\ Cached(x) /\ Distinct(x.groups) /\ Seen(Proxy!Viewed(x))

LEMMA SameSeen ==
  ASSUME NEW x, NEW y, y.view.rows = x.view.rows, SameCursors(y, x)
  PROVE  (Seen(x) => Seen(y)) /\ (InRange(x) => InRange(y))
<1>1. Proxy!Members(y) = Proxy!Members(x)
  BY SameMembers DEF SameCursors
<1> QED  BY <1>1 DEF Seen, InRange, SameCursors

LEMMA SameMade ==
  ASSUME NEW x, NEW y, SameCaches(y, x)
  PROVE  /\ Cached(x) => Cached(y)
         /\ Made(x) => Made(y)
         /\ Distinct(x.groups) => Distinct(y.groups)
BY DEF SameCaches, SameListing, Cached, Made

(* What the handlers start from.                                           *)
LEMMA GoodViewed ==
  ASSUME NEW x, Good(x)
  PROVE  LET y == Proxy!Viewed(x)
         IN  /\ IsModel(y) /\ Cached(y) /\ Made(y) /\ Distinct(y.groups) /\ Seen(y)
             /\ InRange(y) /\ SameCursors(y, x) /\ SameListing(y, x)
<1> DEFINE y == Proxy!Viewed(x)
<1>1. /\ IsModel(y) /\ Cached(y) /\ Made(y) /\ SameCursors(y, x) /\ SameListing(y, x)
      /\ Distinct(x.groups) /\ Seen(y)
  BY ViewedIs DEF Good
<1> HIDE DEF y
<1>2. InRange(y)
  BY <1>1, SeenInRange
<1>3. Distinct(y.groups)
  BY <1>1 DEF SameListing
<1> QED  BY <1>1, <1>2, <1>3 DEF y

LEMMA MadeGood ==
  ASSUME NEW x, IsModel(x), Cached(x), Made(x), Distinct(x.groups), Seen(x)
  PROVE  Good(x)
BY MadeIs DEF Good

(* Most of them end by moving the windows to the cursors.                  *)
LEMMA SyncedGood ==
  ASSUME NEW x, IsModel(x), Cached(x), Made(x), Distinct(x.groups), InRange(x)
  PROVE  Good(Proxy!Synced(x)) /\ SameListing(Proxy!Synced(x), x)
<1> DEFINE y == Proxy!Synced(x)
<1>1. IsModel(y) /\ SameCaches(y, x) /\ Seen(y)
  BY SyncedIs
<1> HIDE DEF y
<1>2. Cached(y) /\ Made(y) /\ Distinct(y.groups)
  BY <1>1, SameMade
<1> QED  BY <1>1, <1>2, MadeGood DEF SameCaches, y

LEMMA TestsSet ==
  ASSUME NEW x, IsModel(x), NEW T
  PROVE  LET y == [x EXCEPT !.tests = T]
         IN  IsModel(y) /\ SameCaches(y, x) /\ SameCursors(y, x)
BY DEF IsModel, SameCaches, SameListing, SameCursors

LEMMA TestsGood ==
  ASSUME NEW x, Good(x), NEW T
  PROVE  LET y == [x EXCEPT !.tests = T]
         IN  Good(y) /\ SameListing(y, x)
<1> DEFINE y == [x EXCEPT !.tests = T]
<1>1. IsModel(y) /\ SameCaches(y, x) /\ SameCursors(y, x)
  BY TestsSet DEF Good
<1> HIDE DEF y
<1>2. Cached(y) /\ Distinct(y.groups)
  BY <1>1, SameMade DEF Good
<1>3. SameListing(y, x)
  BY <1>1 DEF SameCaches
<1>4. Seen(Proxy!Viewed(y))
  <2> DEFINE v == Proxy!Viewed(x)
             w == Proxy!Viewed(y)
  <2>1. SameCursors(v, x) /\ v.view.rows = Proxy!Matching(x.groups, x.groups, x.filter)
    BY ViewedIs DEF Good
  <2>2. SameCursors(w, y) /\ w.view.rows = Proxy!Matching(y.groups, y.groups, y.filter)
    BY <1>1, <1>2, ViewedIs
  <2>3. Seen(v)
    BY DEF Good
  <2> HIDE DEF v, w
  <2>4. SameCursors(w, v) /\ w.view.rows = v.view.rows
    BY <1>1, <1>3, <2>1, <2>2 DEF SameCursors, SameListing
  <2>5. Seen(w)
    BY <2>3, <2>4, SameSeen
  <2> QED  BY <2>5 DEF w
<1> QED  BY <1>1, <1>2, <1>3, <1>4 DEF Good, y

(* What a change of the listing or the filter leaves under the cursors.    *)
ProxyStays ==
  LET after == Proxy!Matching(m'.groups, m'.groups, m'.filter)
      was == Proxy!Selected(Proxy!Now)
      at == {i \in 1..Len(after) : m'.groups[after[i].group].name = was.group}
  IN at # {} =>
       /\ Proxy!Selected(Proxy!Now)'.group = was.group
       /\ \A i \in at :
            (\E k \in 1..Len(after[i].proxies) :
               m'.groups[after[i].group].proxies[after[i].proxies[k]] = was.node)
            => Proxy!Selected(Proxy!Now)'.node = was.node

LEMMA SameSelected ==
  ASSUME NEW x, NEW y, SameCaches(y, x), SameCursors(y, x)
  PROVE  Proxy!Selected(y) = Proxy!Selected(x)
<1>1. Proxy!Members(y) = Proxy!Members(x) /\ y.view.rows = x.view.rows
        /\ y.groups = x.groups /\ y.proxyCursor = x.proxyCursor
        /\ Proxy!GroupAt(y) = Proxy!GroupAt(x)
  BY SameMembers
  DEF SameCaches, SameListing, SameCursors, Proxy!GroupAt, Proxy!ViewedRows
<1> QED  BY <1>1 DEF Proxy!Selected, Proxy!ViewedRows

LEMMA RestoredStep ==
  ASSUME NEW y, IsModel(y), Cached(y), Made(y), Distinct(y.groups),
         NEW z, z = Proxy!Restored(y, Proxy!Selected(Proxy!Now)),
         IsModel(m'), SameCaches(m', z), SameCursors(m', z)
  PROVE  Good(m') /\ ProxyStays
<1> DEFINE was == Proxy!Selected(Proxy!Now)
           F == Proxy!Found(y, was)
<1>1. y.view.rows = Proxy!Matching(y.groups, y.groups, y.filter)
  BY MadeIs
<1>2. RowsOf(y.groups, y.view.rows)
  BY <1>1, GroupsMatch DEF IsModel
<1>3. /\ IsModel(z) /\ SameCaches(z, y) /\ Seen(z)
      /\ \A i \in F : /\ Proxy!Selected(z).group = was.group
                      /\ NodesAt(y, i, was.node) # {} => Proxy!Selected(z).node = was.node
  BY <1>2, RestoredIs
<1>4. SameCaches(m', y)
  BY <1>3 DEF SameCaches, SameListing
<1>5. Cached(m') /\ Made(m') /\ Distinct(m'.groups)
  BY <1>4, SameMade
<1>6. Seen(m')
  BY <1>3, SameSeen DEF SameCaches
<1>7. Good(m')
  BY <1>5, <1>6, MadeGood
<1>8. Proxy!Selected(Proxy!Now)' = Proxy!Selected(z)
  <2>1. Proxy!Now' = m'
    BY <1>5, MadeIs DEF Proxy!Now
  <2>2. Proxy!Selected(m') = Proxy!Selected(z)
    BY SameSelected
  <2> QED  BY <2>1, <2>2
<1> DEFINE after == Proxy!Matching(m'.groups, m'.groups, m'.filter)
           at == {i \in 1..Len(after) : m'.groups[after[i].group].name = was.group}
<1>9. after = y.view.rows /\ m'.groups = y.groups
  BY <1>1, <1>4 DEF SameCaches, SameListing
<1>10. at = F
  BY <1>9 DEF Proxy!Found, Proxy!ViewedRows
<1>11. ASSUME NEW i \in at
       PROVE  /\ Proxy!Selected(z).group = was.group
              /\ (\E k \in 1..Len(after[i].proxies) :
                    m'.groups[after[i].group].proxies[after[i].proxies[k]] = was.node)
                 => Proxy!Selected(z).node = was.node
  <2>1. i \in F
    BY <1>10
  <2>2. (\E k \in 1..Len(after[i].proxies) :
           m'.groups[after[i].group].proxies[after[i].proxies[k]] = was.node)
          => NodesAt(y, i, was.node) # {}
    BY <1>9 DEF NodesAt
  <2> QED  BY <1>3, <2>1, <2>2
<1>12. at # {} =>
         /\ Proxy!Selected(Proxy!Now)'.group = was.group
         /\ \A i \in at :
              (\E k \in 1..Len(after[i].proxies) :
                 m'.groups[after[i].group].proxies[after[i].proxies[k]] = was.node)
              => Proxy!Selected(Proxy!Now)'.node = was.node
  BY <1>8, <1>11
<1> HIDE DEF was, after, at
<1> QED  BY <1>7, <1>12, Zenon DEF ProxyStays, was, after, at

LEMMA GroupsMsgStep ==
  ASSUME Good(m), NEW groups \in Proxy!Listings, Proxy!GroupsMsg(groups)
  PROVE  Good(m') /\ ProxyStays
<1> DEFINE x == Proxy!Viewed(m)
           c == Proxy!Invalidated(Proxy!Versioned([x EXCEPT !.groups = groups]))
           y == Proxy!Viewed(c)
           z == Proxy!Restored(y, Proxy!Selected(x))
           T == Proxy!PrunedTests(z.tests, groups)
<1>1. groups \in Seq(Group) /\ Distinct(groups)
  BY ListingsAreGroups
<1>2. IsModel(x)
  BY GoodViewed
<1>3. m' = [z EXCEPT !.tests = T]
  BY DEF Proxy!GroupsMsg
<1>4. x = Proxy!Now
  BY DEF Proxy!Now
<1> HIDE DEF x
<1>5. IsModel(c) /\ Cached(c) /\ c.groups = groups
  BY <1>1, <1>2, ChangedIs
<1> HIDE DEF c
<1>6. IsModel(y) /\ Cached(y) /\ Made(y) /\ y.groups = groups
  BY <1>5, ViewedIs DEF SameListing
<1> HIDE DEF y
<1>7. RowsOf(y.groups, y.view.rows)
  BY <1>6, GroupsMatch, MadeIs DEF IsModel
<1>8. IsModel(z)
  BY <1>1, <1>6, <1>7, RestoredIs
<1>9. z = Proxy!Restored(y, Proxy!Selected(Proxy!Now))
  BY <1>4
<1> HIDE DEF z, T
<1>10. IsModel(m') /\ SameCaches(m', z) /\ SameCursors(m', z)
  BY <1>3, <1>8, TestsSet
<1> QED  BY <1>1, <1>6, <1>9, <1>10, RestoredStep

LEMMA ProxyServiceStopsStep ==
  ASSUME Good(m), Proxy!ServiceStops
  PROVE  Good(m') /\ ProxyStays
<1> DEFINE c == Proxy!Invalidated(Proxy!Versioned([m EXCEPT !.groups = <<>>]))
           x == IF m.groups = <<>> THEN m ELSE c
<1>1. m' = [x EXCEPT !.tests = {}]
  BY DEF Proxy!ServiceStops
<1>0. <<>> \in Seq(Group)
  OBVIOUS
<1>2. IsModel(c) /\ Cached(c) /\ c.groups = <<>>
  BY <1>0, ChangedIs DEF Good
<1> HIDE DEF c
<1>3. IsModel(x) /\ Cached(x) /\ x.groups = <<>>
  BY <1>2 DEF Good
<1> HIDE DEF x
<1>4. IsModel(m') /\ SameCaches(m', x)
  BY <1>1, <1>3, TestsSet
<1>5. Cached(m') /\ m'.groups = <<>> /\ Distinct(m'.groups)
  BY <1>3, <1>4, SameMade DEF SameCaches, SameListing, Distinct
<1> DEFINE R == Proxy!Matching(m'.groups, m'.groups, m'.filter)
           y == Proxy!Viewed(m')
<1>6. y.view.rows = R
  BY <1>4, <1>5, ViewedIs
<1>7. R = <<>>
  <2>1. m'.groups \in Seq(Group)
    BY <1>0, <1>5
  <2> QED  BY <1>5, <2>1, GroupsMatch
<1> HIDE DEF R, y
<1>8. Seen(y)
  BY <1>6, <1>7 DEF Seen
<1>9. ProxyStays
  <2>1. {i \in 1..Len(R) : m'.groups[R[i].group].name = Proxy!Selected(Proxy!Now).group} = {}
    BY <1>7
  <2> QED  BY <2>1 DEF ProxyStays, R
<1> QED  BY <1>4, <1>5, <1>8, <1>9 DEF Good, y

(* applyFilter, on this page or on another one.                            *)
LEMMA FilteredIs ==
  ASSUME Good(m), NEW f \in Proxy!Filters
  PROVE  LET w == Proxy!Filtered(m, f)
         IN  /\ IsModel(w) /\ Cached(w) /\ Made(w) /\ Distinct(w.groups) /\ Seen(w)
             /\ proxiesShown /\ m' = w => ProxyStays
<1> DEFINE y == Proxy!Viewed(m)
           x == IF proxiesShown THEN y ELSE m
           c == Proxy!Invalidated([x EXCEPT !.filter = f])
           z == Proxy!Viewed(c)
           s == Proxy!Selected(y)
           w == IF proxiesShown THEN Proxy!Restored(z, s) ELSE Proxy!Clamped(z)
<1>1. Proxy!Filtered(m, f) = w
  BY DEF Proxy!Filtered
<1>2. IsModel(x) /\ Cached(x) /\ Distinct(x.groups)
  <2>1. IsModel(y) /\ Cached(y) /\ Distinct(y.groups)
    BY GoodViewed
  <2> HIDE DEF y
  <2> QED  BY <2>1 DEF Good
<1>3. s = Proxy!Selected(Proxy!Now)
  BY DEF Proxy!Now
<1> HIDE DEF x, s
<1>4. IsModel(c) /\ Cached(c) /\ c.groups = x.groups /\ c.filter = f
  BY <1>2, RefilteredIs
<1> HIDE DEF c
<1>5. IsModel(z) /\ Cached(z) /\ Made(z) /\ Distinct(z.groups)
  <2>1. IsModel(z) /\ Cached(z) /\ Made(z) /\ z.groups = c.groups
    BY <1>4, ViewedIs DEF SameListing
  <2> HIDE DEF z
  <2> QED  BY <1>2, <1>4, <2>1
<1> HIDE DEF z
<1>6. RowsOf(z.groups, z.view.rows)
  BY <1>5, MadeIs, GroupsMatch DEF IsModel
<1>7. IsModel(w) /\ SameCaches(w, z) /\ Seen(w)
  <2>1. CASE proxiesShown
    BY <1>5, <1>6, <2>1, RestoredIs
  <2>2. CASE ~proxiesShown
    BY <1>5, <2>2, ClampedIs
  <2> QED  BY <2>1, <2>2
<1>8. Cached(w) /\ Made(w) /\ Distinct(w.groups)
  <2> HIDE DEF w
  <2> QED  BY <1>5, <1>7, SameMade
<1>9. ASSUME proxiesShown, m' = w PROVE ProxyStays
  <2>1. w = Proxy!Restored(z, Proxy!Selected(Proxy!Now))
    BY <1>3, <1>9
  <2>2. SameCaches(m', w) /\ SameCursors(m', w) /\ IsModel(m')
    BY <1>7, <1>9 DEF SameCaches, SameCursors, SameListing
  <2> HIDE DEF w
  <2> QED  BY <1>5, <2>1, <2>2, RestoredStep
<1> HIDE DEF w
<1> QED  BY <1>1, <1>7, <1>8, <1>9

(* The operations that move the cursors or the windows.                    *)
LEMMA MoveStep ==
  ASSUME Good(m),
         \/ \E c \in Columns, r \in ProxyRows : Proxy!Resize(c, r)
         \/ \E delta \in {1, -1} \cup {m.rows, -m.rows} : Proxy!MoveCursor(delta)
         \/ \E end \in BOOLEAN : Proxy!MoveBoundary(end)
         \/ \E delta \in {1, -1} : Proxy!MoveGroup(delta)
  PROVE  Good(m') /\ SameListing(m', m)
<1> DEFINE x == Proxy!Viewed(m)
<1>1. /\ IsModel(x) /\ Cached(x) /\ Made(x) /\ Distinct(x.groups) /\ Seen(x)
      /\ InRange(x) /\ SameCursors(x, m) /\ SameListing(x, m)
  BY GoodViewed
<1>2. ASSUME NEW y, IsModel(y), SameCaches(y, x), InRange(y), m' = Proxy!Synced(y)
      PROVE  Good(m') /\ SameListing(m', m)
  <2> HIDE DEF x
  <2>1. Cached(y) /\ Made(y) /\ Distinct(y.groups)
    BY <1>1, <1>2, SameMade
  <2>2. Good(m') /\ SameListing(m', y)
    BY <1>2, <2>1, SyncedGood
  <2> QED  BY <1>1, <1>2, <2>2 DEF SameListing, SameCaches
<1>3. ASSUME NEW c \in Columns, NEW r \in ProxyRows, Proxy!Resize(c, r)
      PROVE  Good(m') /\ SameListing(m', m)
  <2> DEFINE a == [m EXCEPT !.columns = c, !.rows = r]
             y == Proxy!Viewed(a)
  <2>1. m' = Proxy!Synced(y)
    BY <1>3 DEF Proxy!Resize
  <2>2. /\ IsModel(a) /\ SameCaches(a, m)
        /\ a.groupCursor = m.groupCursor /\ a.proxyCursor = m.proxyCursor
    BY PagesAssumption DEF Good, IsModel, SameCaches, SameListing
  <2> HIDE DEF a
  <2>3. Cached(a) /\ Distinct(a.groups)
    BY <2>2, SameMade DEF Good
  <2>4. /\ IsModel(y) /\ Cached(y) /\ Made(y) /\ SameCursors(y, a) /\ SameListing(y, a)
        /\ y.view.rows = Proxy!Matching(a.groups, a.groups, a.filter)
    BY <2>2, <2>3, ViewedIs
  <2>5. x.view.rows = Proxy!Matching(m.groups, m.groups, m.filter)
    BY ViewedIs DEF Good
  <2> HIDE DEF x, y
  <2>6. /\ y.view.rows = x.view.rows /\ y.groupCursor = x.groupCursor
        /\ y.proxyCursor = x.proxyCursor
    BY <1>1, <2>2, <2>4, <2>5 DEF SameCaches, SameListing, SameCursors
  <2>7. InRange(y)
    BY <1>1, <2>6, SameMembers DEF InRange
  <2>8. Distinct(y.groups) /\ SameListing(y, m)
    BY <2>2, <2>3, <2>4 DEF SameListing, SameCaches
  <2>9. Good(m') /\ SameListing(m', y)
    BY <2>1, <2>4, <2>7, <2>8, SyncedGood
  <2> QED  BY <2>8, <2>9 DEF SameListing
<1>4. ASSUME NEW p \in Int, m' = Proxy!Synced([x EXCEPT !.proxyCursor = p]),
             Proxy!Members(x) # <<>> => p \in 0..Len(Proxy!Members(x)) - 1
      PROVE  Good(m') /\ SameListing(m', m)
  <2> DEFINE y == [x EXCEPT !.proxyCursor = p]
  <2> HIDE DEF x
  <2>1. /\ IsModel(y) /\ SameCaches(y, x) /\ y.proxyCursor = p
        /\ y.groupCursor = x.groupCursor
    BY <1>1, CursorSet
  <2> HIDE DEF y
  <2>2. Proxy!Members(y) = Proxy!Members(x) /\ y.view.rows = x.view.rows
    BY <2>1, SameMembers DEF SameCaches
  <2>3. InRange(y)
    BY <1>1, <1>4, <2>1, <2>2 DEF InRange
  <2>4. m' = Proxy!Synced(y)
    BY <1>4 DEF y
  <2> QED  BY <1>2, <2>1, <2>3, <2>4
<1>5. PICK n \in Nat : n = Len(Proxy!Members(x)) /\ (Proxy!Members(x) # <<>> => n > 0)
  <2>1. Proxy!Members(x) \in Seq(Nat)
    BY <1>1, MembersIs
  <2> QED  BY <2>1, EmptySeq
<1>6. ASSUME NEW delta \in {1, -1} \cup {m.rows, -m.rows}, Proxy!MoveCursor(delta)
      PROVE  Good(m') /\ SameListing(m', m)
  <2> DEFINE p == Clamp(x.proxyCursor + delta, 0, Greatest(0, n - 1))
  <2>1. delta \in Int /\ x.proxyCursor \in Int
    <3>1. m.rows \in Int
      BY DEF Good, IsModel
    <3>2. x.proxyCursor \in Int
      BY <1>1 DEF IsModel
    <3> HIDE DEF x
    <3> QED  BY <3>1, <3>2
  <2>2. m' = Proxy!Synced(IF x.view.rows = <<>> THEN x ELSE [x EXCEPT !.proxyCursor = p])
    BY <1>5, <1>6, SameOperators DEF Proxy!MoveCursor, Proxy!ViewedRows
  <2>3. p \in Int /\ (Proxy!Members(x) # <<>> => p \in 0..n - 1)
    BY <1>5, <2>1 DEF Clamp, Greatest
  <2> HIDE DEF p
  <2>4. CASE x.view.rows = <<>>
    <3>1. m' = Proxy!Synced(x) /\ SameCaches(x, x)
      BY <2>2, <2>4 DEF SameCaches, SameListing
    <3> QED  BY <1>1, <1>2, <3>1
  <2>5. CASE x.view.rows # <<>>
    <3>1. m' = Proxy!Synced([x EXCEPT !.proxyCursor = p])
      BY <2>2, <2>5
    <3> HIDE DEF x
    <3> QED  BY <1>4, <1>5, <2>3, <3>1
  <2> QED  BY <2>4, <2>5
<1>7. ASSUME NEW end \in BOOLEAN, Proxy!MoveBoundary(end)
      PROVE  Good(m') /\ SameListing(m', m)
  <2> DEFINE p == IF end THEN Greatest(0, n - 1) ELSE 0
  <2>1. m' = Proxy!Synced([x EXCEPT !.proxyCursor = p])
    BY <1>5, <1>7, SameOperators DEF Proxy!MoveBoundary
  <2>2. p \in Int /\ (Proxy!Members(x) # <<>> => p \in 0..n - 1)
    BY <1>5 DEF Greatest
  <2> HIDE DEF p, x
  <2> QED  BY <1>4, <1>5, <2>1, <2>2
<1>8. ASSUME NEW delta \in {1, -1}, Proxy!MoveGroup(delta)
      PROVE  Good(m') /\ SameListing(m', m)
  <2>1. x.view.rows \in Seq(Row) /\ x.groupCursor \in Int
    BY <1>1 DEF IsModel, ViewType
  <2>0. PICK l \in Nat : l = Len(x.view.rows)
    BY <2>1
  <2> DEFINE g == (x.groupCursor + delta + l) % l
             y == [x EXCEPT !.groupCursor = g, !.proxyCursor = 0, !.proxyOffset = 0]
  <2>2. m' = IF l = 0 THEN x ELSE Proxy!Synced(y)
    BY <1>8, <2>0 DEF Proxy!MoveGroup, Proxy!ViewedRows
  <2> HIDE DEF x
  <2>3. CASE l = 0
    BY <1>1, <2>2, <2>3, MadeGood
  <2>4. CASE l # 0
    <3>1. g \in 0..l - 1
      <4>1. \A a \in Int, k \in Nat \ {0} : a % k \in 0..k - 1
        OBVIOUS
      <4>2. x.groupCursor + delta + l \in Int
        BY <2>1
      <4> QED  BY <2>4, <4>1, <4>2
    <3> HIDE DEF g
    <3> DEFINE u == [x EXCEPT !.groupCursor = g]
               v == [u EXCEPT !.proxyCursor = 0]
    <3>2. g \in Int /\ 0 \in Int
      BY <3>1
    <3>3. IsModel(u) /\ SameCaches(u, x) /\ u.groupCursor = g
      BY <1>1, <3>2, CursorSet
    <3>4. y = [v EXCEPT !.proxyOffset = 0]
      BY <1>1 DEF IsModel
    <3> HIDE DEF u
    <3>5. IsModel(v) /\ SameCaches(v, u) /\ v.groupCursor = g /\ v.proxyCursor = 0
      BY <3>2, <3>3, CursorSet
    <3> HIDE DEF v, y
    <3>6. IsModel(y) /\ SameCaches(y, v) /\ y.groupCursor = g /\ y.proxyCursor = 0
      BY <3>4, <3>5 DEF IsModel, SameCaches, SameListing
    <3>7. SameCaches(y, x)
      BY <3>3, <3>5, <3>6 DEF SameCaches, SameListing
    <3>8. Proxy!Members(y) \in Seq(Nat)
      BY <3>6, MembersIs
    <3>9. Proxy!Members(y) # <<>> => 0 \in 0..Len(Proxy!Members(y)) - 1
      BY <3>8, EmptySeq
    <3>10. InRange(y)
      BY <2>0, <3>1, <3>6, <3>7, <3>9 DEF InRange, SameCaches
    <3> QED  BY <1>2, <2>2, <2>4, <3>6, <3>7, <3>10
  <2> QED  BY <2>3, <2>4
<1> QED  BY <1>3, <1>6, <1>7, <1>8

(* What no row is made of: a listing of no group.                          *)
LEMMA InitialProxies ==
  ASSUME Proxy!Init
  PROVE  Good(m)
<1> DEFINE noView == [valid |-> FALSE, current |-> FALSE, filter |-> "", rows |-> <<>>]
           noSearch == [valid |-> FALSE, current |-> FALSE, texts |-> <<>>]
<1>0. noView \in ViewType /\ noSearch \in SearchType /\ ~noView.valid /\ ~noSearch.valid
        /\ <<>> \in Seq(Group)
  BY DEF ViewType, SearchType, Proxy!Filters
<1>1. m \in [groups : {<<>>}, filter : {""}, view : {noView}, search : {noSearch},
            groupCursor : {0}, proxyCursor : {0}, groupOffset : {0}, proxyOffset : {0},
            tests : {{}}, columns : Columns, rows : ProxyRows]
  BY DEF Proxy!Init
<1> HIDE DEF noView, noSearch
<1>2. /\ m.groups = <<>> /\ m.view = noView /\ m.search = noSearch
      /\ m.view \in ViewType /\ m.search \in SearchType /\ m.groups \in Seq(Group)
      /\ m.filter \in Proxy!Filters /\ ~m.view.valid /\ ~m.search.valid
  BY <1>0, <1>1 DEF Proxy!Filters
<1>3. IsModel(m)
  <2>1. m.columns \in Nat \ {0} /\ m.rows \in Nat \ {0}
    BY <1>1, PagesAssumption
  <2>2. /\ m.groupCursor \in Int /\ m.proxyCursor \in Int
        /\ m.groupOffset \in Int /\ m.proxyOffset \in Int
    <3>1. /\ m.groupCursor = 0 /\ m.proxyCursor = 0
          /\ m.groupOffset = 0 /\ m.proxyOffset = 0
      BY <1>1
    <3> QED  BY <3>1
  <2>3. m = [groups |-> m.groups, filter |-> m.filter, view |-> m.view, search |-> m.search,
             groupCursor |-> m.groupCursor, proxyCursor |-> m.proxyCursor,
             groupOffset |-> m.groupOffset, proxyOffset |-> m.proxyOffset,
             tests |-> m.tests, columns |-> m.columns, rows |-> m.rows]
    BY <1>1
  <2> QED  BY <1>2, <2>1, <2>2, <2>3 DEF IsModel
<1>4. Cached(m) /\ Distinct(m.groups)
  <2>1. Cached(m)
    BY <1>2 DEF Cached
  <2>2. 1..Len(<<>>) = {}
    OBVIOUS
  <2> QED  BY <1>2, <2>1, <2>2 DEF Distinct
<1> DEFINE y == Proxy!Viewed(m)
<1>5. y.view.rows = Proxy!Matching(m.groups, m.groups, m.filter)
  BY <1>3, <1>4, ViewedIs
<1>6. y.view.rows = <<>>
  BY <1>2, <1>5, GroupsMatch
<1> HIDE DEF y
<1>7. Seen(y)
  BY <1>6 DEF Seen
<1> QED  BY <1>3, <1>4, <1>7 DEF Good, y

(* Every step of the page.                                                 *)
LEMMA ProxyStep ==
  ASSUME Good(m), [Proxy!Next]_(Proxy!vars)
  PROVE  /\ Good(m')
         /\ proxiesShown /\ proxiesShown' /\ (m'.groups # m.groups \/ m'.filter # m.filter)
              => ProxyStays
<1> DEFINE Changed == m'.groups # m.groups \/ m'.filter # m.filter
<1>1. ASSUME NEW groups \in Proxy!Listings, Proxy!GroupsMsg(groups)
      PROVE  Good(m') /\ ProxyStays
  BY <1>1, GroupsMsgStep
<1>2. ASSUME NEW w, IsModel(w), Cached(w), Made(w), Distinct(w.groups), Seen(w), m' = w
      PROVE  Good(m')
  BY <1>2, MadeGood
<1>3. ASSUME NEW f \in Proxy!Filters, Proxy!ApplyFilter(f)
      PROVE  Good(m') /\ (proxiesShown => ProxyStays)
  <2> DEFINE w == Proxy!Filtered(m, f)
  <2>1. /\ IsModel(w) /\ Cached(w) /\ Made(w) /\ Distinct(w.groups) /\ Seen(w)
        /\ proxiesShown /\ m' = w => ProxyStays
    BY FilteredIs
  <2>2. m' = w
    BY <1>3 DEF Proxy!ApplyFilter
  <2> HIDE DEF w
  <2> QED  BY <1>2, <2>1, <2>2
<1>4. CASE Proxy!SwitchPage
  <2> DEFINE w == Proxy!Filtered(m, "")
  <2>1. "" \in Proxy!Filters
    BY DEF Proxy!Filters
  <2>2. IsModel(w) /\ Cached(w) /\ Made(w) /\ Distinct(w.groups) /\ Seen(w)
    BY <2>1, FilteredIs
  <2>3. m' = Proxy!Synced(w) /\ proxiesShown' = ~proxiesShown
    BY <1>4 DEF Proxy!SwitchPage
  <2> HIDE DEF w
  <2>4. InRange(w)
    BY <2>2, SeenInRange
  <2>5. Good(Proxy!Synced(w))
    BY <2>2, <2>4, SyncedGood
  <2>6. Good(m')
    BY <2>3, <2>5
  <2> QED  BY <2>3, <2>6
<1>5. ASSUME \/ \E c \in Columns, r \in ProxyRows : Proxy!Resize(c, r)
             \/ \E delta \in {1, -1} \cup {m.rows, -m.rows} : Proxy!MoveCursor(delta)
             \/ \E end \in BOOLEAN : Proxy!MoveBoundary(end)
             \/ \E delta \in {1, -1} : Proxy!MoveGroup(delta)
      PROVE  Good(m') /\ ~Changed
  <2>1. Good(m') /\ SameListing(m', m)
    BY <1>5, MoveStep
  <2> QED  BY <2>1 DEF SameListing
<1>6. ASSUME NEW do \in {"select", "test"}, Proxy!Begin(do) PROVE Good(m') /\ ~Changed
  <2> DEFINE y == Proxy!Viewed(m)
  <2>1. m' = y
    BY <1>6 DEF Proxy!Begin
  <2>2. IsModel(y) /\ Cached(y) /\ Made(y) /\ Distinct(y.groups) /\ Seen(y)
        /\ SameListing(y, m)
    BY GoodViewed
  <2> HIDE DEF y
  <2> QED  BY <1>2, <2>1, <2>2 DEF SameListing
<1>7. CASE Proxy!GroupTestMsg
  <2>1. m' = m \/ \E T : m' = [m EXCEPT !.tests = T]
    BY <1>7 DEF Proxy!GroupTestMsg
  <2>2. CASE m' = m
    BY <2>2 DEF Good
  <2>3. ASSUME NEW T, m' = [m EXCEPT !.tests = T] PROVE Good(m') /\ ~Changed
    <3> DEFINE y == [m EXCEPT !.tests = T]
    <3>1. Good(y) /\ SameListing(y, m)
      BY TestsGood
    <3>2. m' = y
      BY <2>3
    <3> HIDE DEF y
    <3> QED  BY <3>1, <3>2 DEF SameListing
  <2> QED  BY <2>1, <2>2, <2>3
<1>8. CASE Proxy!ServiceStops
  BY <1>8, ProxyServiceStopsStep
<1>9. CASE Proxy!SelectionEnds \/ UNCHANGED Proxy!vars
  BY <1>9 DEF Proxy!SelectionEnds, Proxy!vars
<1> HIDE DEF Changed
<1>10. Good(m') /\ (proxiesShown /\ proxiesShown' /\ Changed => ProxyStays)
  <2>1. CASE UNCHANGED Proxy!vars
    BY <1>9, <2>1 DEF Changed
  <2>2. CASE Proxy!Next
    BY <1>1, <1>3, <1>4, <1>5, <1>6, <1>7, <1>8, <1>9, <2>2 DEF Proxy!Next, Changed
  <2> QED  BY <2>1, <2>2
<1> QED  BY <1>10 DEF Changed

(* What the page shows.                                                    *)
LEMMA GoodShows ==
  ASSUME Good(m)
  PROVE  Proxy!OnScreen /\ Proxy!ViewTrue
<1> DEFINE y == Proxy!Viewed(m)
<1>1. /\ IsModel(y) /\ Cached(y) /\ Made(y) /\ Seen(y) /\ SameCursors(y, m)
      /\ SameListing(y, m)
  BY GoodViewed
<1>2. y = Proxy!Now
  BY DEF Proxy!Now
<1> HIDE DEF y
<1>3. Proxy!ViewTrue
  BY <1>1, <1>2, MadeIs DEF Proxy!ViewTrue, Proxy!ViewedRows, SameListing
<1>4. y.view.rows \in Seq(Row) /\ Proxy!Members(y) \in Seq(Nat)
  BY <1>1, MembersIs DEF IsModel, ViewType
<1>5. /\ y.view.rows # <<>> => Len(y.view.rows) > 0
      /\ Proxy!Members(y) # <<>> => Len(Proxy!Members(y)) > 0
  BY <1>4, EmptySeq
<1>6. Proxy!OnScreen
  BY <1>1, <1>2, <1>5, SameOperators
  DEF Proxy!OnScreen, Proxy!ViewedRows, Seen, Shows, SameCursors
<1> QED  BY <1>3, <1>6

-----------------------------------------------------------------------------
(* The log page: how many of the indices M lie in a part of the log.       *)

LEMMA LogOperators ==
  ASSUME NEW S
  PROVE  /\ Log!InOrder(S) = InOrder(S) /\ Log!Listing!InOrder(S) = InOrder(S)
         /\ Log!Cardinality(S) = Cardinality(S)
<1>1. Log!Cardinality(S) = Cardinality(S)
  BY Zenon DEF Log!Cardinality, Cardinality
<1>2. Log!InOrder(S) = InOrder(S)
  BY Zenon DEF Log!InOrder, InOrder, Log!Before, Before, Log!Cardinality, Cardinality
<1>3. Log!Listing!InOrder(S) = InOrder(S)
  BY Zenon
  DEF Log!Listing!InOrder, InOrder, Log!Listing!Before, Before,
      Log!Listing!Cardinality, Cardinality
<1> QED  BY <1>1, <1>2, <1>3

LEMMA BeforeCounts ==
  ASSUME NEW n \in Nat, NEW M \in SUBSET (1..n), NEW x \in Nat
  PROVE  /\ Before(M, x) \in 0..Cardinality(M)
         /\ x <= 1 => Before(M, x) = 0
         /\ x > n => Before(M, x) = Cardinality(M)
         /\ \A y \in Nat : x <= y => Before(M, x) <= Before(M, y)
<1> DEFINE B(y) == {j \in M : j < y}
<1>1. IsFiniteSet(M) /\ Cardinality(M) \in Nat
  BY IndicesFinite
<1>2. \A y \in Nat : B(y) \in SUBSET M /\ IsFiniteSet(B(y)) /\ Cardinality(B(y)) \in Nat
                       /\ Cardinality(B(y)) <= Cardinality(M)
  <2> SUFFICES ASSUME NEW y \in Nat
               PROVE  B(y) \in SUBSET M /\ IsFiniteSet(B(y)) /\ Cardinality(B(y)) \in Nat
                        /\ Cardinality(B(y)) <= Cardinality(M)
    OBVIOUS
  <2>1. B(y) \in SUBSET M
    OBVIOUS
  <2> HIDE DEF B
  <2> QED  BY <1>1, <2>1, FS_Subset, FS_CardinalityType
<1>3. \A y : Before(M, y) = Cardinality(B(y))
  BY DEF Before
<1>4. ASSUME x <= 1 PROVE Before(M, x) = 0
  <2>1. \A j \in M : ~(j < x)
    BY <1>4
  <2>2. B(x) = {}
    BY <2>1
  <2> QED  BY <1>3, <2>2, FS_EmptySet
<1>5. ASSUME x > n PROVE Before(M, x) = Cardinality(M)
  <2>1. \A j \in M : j < x
    BY <1>5
  <2>2. B(x) = M
    BY <2>1
  <2> QED  BY <1>3, <2>2
<1>6. ASSUME NEW y \in Nat, x <= y PROVE Before(M, x) <= Before(M, y)
  <2>0. \A j \in M : j < x => j < y
    BY <1>6
  <2>1. B(x) \in SUBSET B(y)
    BY <2>0
  <2> HIDE DEF B
  <2> QED  BY <1>2, <1>3, <2>1, FS_Subset
<1> HIDE DEF B
<1> QED  BY <1>1, <1>2, <1>3, <1>4, <1>5, <1>6

Part(M, d, k) == {j \in 1..k : j + d \in M}

LEMMA PartCounts ==
  ASSUME NEW n \in Nat, NEW M \in SUBSET (1..n), NEW d \in Nat, NEW k \in Nat
  PROVE  /\ \A x \in 1..k + 1 : Before(Part(M, d, k), x) = Before(M, x + d) - Before(M, d + 1)
         /\ Cardinality(Part(M, d, k)) = Before(M, d + k + 1) - Before(M, d + 1)
<1>1. ASSUME NEW x \in 1..k + 1
      PROVE  Before(Part(M, d, k), x) = Before(M, x + d) - Before(M, d + 1)
  <2> DEFINE P == {j \in Part(M, d, k) : j < x}
             Low == {i \in M : i < d + 1}
             Mid == {i \in M : d < i /\ i < x + d}
             All == {i \in M : i < x + d}
             f == [j \in P |-> j + d]
  <2>1. IsFiniteSet(M)
    BY IndicesFinite
  <2>2. P \in SUBSET (1..k) /\ IsFiniteSet(P)
    <3>1. P \in SUBSET (1..k)
      BY DEF Part
    <3> HIDE DEF P
    <3> QED  BY <3>1, IndicesFinite
  <2>3. All = Low \cup Mid /\ Low \cap Mid = {}
    <3>1. \A i \in M : /\ i < x + d <=> i < d + 1 \/ (d < i /\ i < x + d)
                      /\ ~(i < d + 1 /\ d < i)
      OBVIOUS
    <3> QED  BY <3>1
  <2>4. Low \in SUBSET M /\ Mid \in SUBSET M
    OBVIOUS
  <2>5. IsFiniteSet(Low) /\ IsFiniteSet(Mid) /\ Cardinality(Low) \in Nat
          /\ Cardinality(Mid) \in Nat
    <3> HIDE DEF Low, Mid
    <3> QED  BY <2>1, <2>4, FS_Subset, FS_CardinalityType
  <2>6. Cardinality(All) = Cardinality(Low) + Cardinality(Mid)
    <3> HIDE DEF Low, Mid, All
    <3>1. Cardinality(Low \cap Mid) = 0
      BY <2>3, FS_EmptySet
    <3>2. Cardinality(Low \cup Mid) =
            Cardinality(Low) + Cardinality(Mid) - Cardinality(Low \cap Mid)
      BY <2>5, FS_Union
    <3> QED  BY <2>3, <2>5, <3>1, <3>2
  <2>7. f \in Bijection(P, Mid)
    <3>1. \A j \in P : j \in Nat /\ j + d \in Mid
      BY DEF Part
    <3>2. \A i \in Mid : i - d \in P /\ i = (i - d) + d
      <4> SUFFICES ASSUME NEW i \in Mid PROVE i - d \in P /\ i = (i - d) + d
        OBVIOUS
      <4>1. i \in 1..n /\ i \in M /\ d < i /\ i < x + d
        OBVIOUS
      <4>2. i - d \in 1..k /\ i - d < x /\ (i - d) + d = i
        BY <4>1
      <4> QED  BY <4>1, <4>2 DEF Part
    <3> HIDE DEF P, Mid
    <3>3. f \in [P -> Mid] /\ \A j \in P : f[j] = j + d
      BY <3>1
    <3>4. \A i, j \in P : f[i] = f[j] => i = j
      BY <3>1, <3>3
    <3>5. \A i \in Mid : \E j \in P : f[j] = i
      BY <3>2, <3>3
    <3> HIDE DEF f
    <3> QED  BY <3>3, <3>4, <3>5 DEF Bijection, Injection, Surjection, IsInjective
  <2>8. Cardinality(P) = Cardinality(Mid)
    <3> HIDE DEF P, Mid, f
    <3>1. ExistsBijection(P, Mid)
      BY <2>7 DEF ExistsBijection
    <3> QED  BY <2>2, <3>1, FS_Bijection
  <2>9. Before(Part(M, d, k), x) = Cardinality(P) /\ Before(M, x + d) = Cardinality(All)
          /\ Before(M, d + 1) = Cardinality(Low)
    BY DEF Before
  <2> HIDE DEF P, Low, Mid, All
  <2> QED  BY <2>5, <2>6, <2>8, <2>9
<1>2. Cardinality(Part(M, d, k)) = Before(Part(M, d, k), k + 1)
  <2>1. Part(M, d, k) \in SUBSET (1..k)
    BY DEF Part
  <2>2. k + 1 \in Nat /\ k + 1 > k
    OBVIOUS
  <2> QED  BY <2>1, <2>2, BeforeCounts
<1>3. k + 1 \in 1..k + 1 /\ k + 1 + d = d + k + 1
  OBVIOUS
<1> QED  BY <1>1, <1>2, <1>3

(* The first part of the log starts at its first line.                     *)
LEMMA FirstPartCounts ==
  ASSUME NEW n \in Nat, NEW M \in SUBSET (1..n), NEW k \in Nat
  PROVE  /\ \A x \in 1..k + 1 : Before(Part(M, 0, k), x) = Before(M, x)
         /\ Cardinality(Part(M, 0, k)) = Before(M, k + 1)
<1> DEFINE z == 0
<1>1. z = 0
  OBVIOUS
<1>10. z \in Nat
  OBVIOUS
<1> HIDE DEF z
<1>2. /\ \A x \in 1..k + 1 : Before(Part(M, z, k), x) = Before(M, x + z) - Before(M, z + 1)
      /\ Cardinality(Part(M, z, k)) = Before(M, z + k + 1) - Before(M, z + 1)
  BY <1>10, PartCounts
<1>3. \A x \in Nat : Before(M, x) \in Nat /\ (x <= 1 => Before(M, x) = 0)
  <2> SUFFICES ASSUME NEW x \in Nat PROVE Before(M, x) \in Nat /\ (x <= 1 => Before(M, x) = 0)
    OBVIOUS
  <2>1. Before(M, x) \in 0..Cardinality(M) /\ (x <= 1 => Before(M, x) = 0)
    BY BeforeCounts, Zenon
  <2>2. Cardinality(M) \in Nat
    BY IndicesFinite
  <2> QED  BY <2>1, <2>2
<1>4. z + 1 = 1 /\ z + k + 1 = k + 1 /\ k + 1 \in Nat /\ Before(M, 1) = 0
  BY <1>1, <1>3
<1>5. \A x \in 1..k + 1 : x \in Nat /\ x + z = x
  BY <1>1
<1>6. \A x \in 1..k + 1 : Before(Part(M, z, k), x) = Before(M, x) - 0
  BY <1>2, <1>4, <1>5, Zenon
<1>7. Cardinality(Part(M, z, k)) = Before(M, k + 1) - 0
  BY <1>2, <1>4, Zenon
<1>8. \A x \in 1..k + 1 : Before(M, x) - 0 = Before(M, x)
  BY <1>3, <1>5
<1>9. Before(M, k + 1) - 0 = Before(M, k + 1)
  BY <1>3, <1>4
<1> QED  BY <1>1, <1>6, <1>7, <1>8, <1>9, Zenon

-----------------------------------------------------------------------------
(* The ring: its entries in the order in which they arrived.               *)
Entry == [id : Nat, text : Texts]
TextsOf(l) == [i \in 1..Len(l) |-> l[i].text]
IsRing(l, s) ==
  /\ l \in Seq(Entry) /\ Len(l) <= Maximum
  /\ s \in 0..Maximum - 1 /\ (Len(l) < Maximum => s = 0)
Order(l, s) == [n \in 1..Len(l) |-> l[Log!Physical(l, s, n - 1) + 1]]

LEMMA PhysicalIs ==
  ASSUME NEW l, NEW s, IsRing(l, s), NEW n \in 1..Len(l)
  PROVE  /\ Log!Physical(l, s, n - 1) =
              (IF s + n - 1 < Len(l) THEN s + n - 1 ELSE s + n - 1 - Len(l))
         /\ Log!Physical(l, s, n - 1) \in 0..Len(l) - 1
<1>1. PICK k \in Nat : k = Len(l)
  BY DEF IsRing
<1>2. s \in Nat /\ s <= k /\ n \in 1..k
  BY <1>1, PagesAssumption DEF IsRing
<1>3. \A x \in 0..2 * k - 1 : x % k = IF x < k THEN x ELSE x - k
  BY <1>2
<1>4. s + n - 1 \in 0..2 * k - 1 /\ s + (n - 1) = s + n - 1
  <2>1. s <= k - 1 \/ s = 0
    BY <1>1, <1>2, PagesAssumption DEF IsRing
  <2> QED  BY <1>2, <2>1
<1>5. Log!Physical(l, s, n - 1) = (s + n - 1) % k
  BY <1>1, <1>4 DEF Log!Physical
<1>6. CASE s + n - 1 < k
  <2>1. (s + n - 1) % k = s + n - 1
    BY <1>3, <1>4, <1>6
  <2> QED  BY <1>1, <1>2, <1>5, <1>6, <2>1
<1>7. CASE ~(s + n - 1 < k)
  <2>0. PICK x \in 0..2 * k - 1 : x = s + n - 1 /\ ~(x < k)
    BY <1>4, <1>7
  <2>1. x % k = x - k
    BY <1>3, <2>0
  <2>2. Log!Physical(l, s, n - 1) = x - k
    BY <1>5, <2>0, <2>1
  <2> QED  BY <1>1, <1>2, <2>0, <2>2
<1> QED  BY <1>6, <1>7

LEMMA OrderIs ==
  ASSUME NEW l, NEW s, IsRing(l, s)
  PROVE  /\ Order(l, s) \in Seq(Entry) /\ Len(Order(l, s)) = Len(l) /\ Len(l) \in Nat
         /\ \A n \in 1..Len(l) : Order(l, s)[n] = l[Log!Physical(l, s, n - 1) + 1]
<1>1. l \in Seq(Entry) /\ Len(l) \in Nat
  BY DEF IsRing
<1>2. \A n \in 1..Len(l) : l[Log!Physical(l, s, n - 1) + 1] \in Entry
  <2> SUFFICES ASSUME NEW n \in 1..Len(l) PROVE l[Log!Physical(l, s, n - 1) + 1] \in Entry
    OBVIOUS
  <2>1. Log!Physical(l, s, n - 1) + 1 \in 1..Len(l)
    BY <1>1, PhysicalIs
  <2> QED  BY <1>1, <2>1, ElementOfSeq
<1> QED  BY <1>1, <1>2 DEF Order

LEMMA TextsAre ==
  ASSUME NEW l \in Seq(Entry)
  PROVE  /\ TextsOf(l) \in Seq(Texts) /\ Len(TextsOf(l)) = Len(l)
         /\ \A i \in 1..Len(l) : TextsOf(l)[i] = l[i].text
         /\ l = <<>> => TextsOf(l) = <<>>
<1>1. Len(l) \in Nat /\ \A i \in 1..Len(l) : l[i].text \in Texts
  <2>1. \A i \in 1..Len(l) : l[i] \in Entry
    BY ElementOfSeq
  <2> QED  BY <2>1 DEF Entry
<1>2. TextsOf(l) \in Seq(Texts) /\ Len(TextsOf(l)) = Len(l)
  BY <1>1 DEF TextsOf
<1>3. ASSUME l = <<>> PROVE TextsOf(l) = <<>>
  <2>1. Len(TextsOf(l)) = 0
    BY <1>2, <1>3
  <2> QED  BY <1>2, <2>1, EmptySeq
<1> QED  BY <1>1, <1>2, <1>3 DEF TextsOf

(* The search texts, if they are maintained.                               *)
SearchOf(l, maintain) == IF maintain THEN TextsOf(l) ELSE <<>>

(* One entry: behind those that are there, or in the place of the oldest.  *)
IsState(r, maintain) ==
  /\ r = [logs |-> r.logs, start |-> r.start, search |-> SearchOf(r.logs, maintain)]
  /\ IsRing(r.logs, r.start)

Has(q, r, e) ==
  LET d == Len(r.logs) + 1 - Len(q.logs)
  IN  /\ Len(q.logs) = IF Len(r.logs) < Maximum THEN Len(r.logs) + 1 ELSE Maximum
      /\ \A n \in 1..Len(q.logs) :
           Order(q.logs, q.start)[n] =
             IF n + d <= Len(r.logs) THEN Order(r.logs, r.start)[n + d] ELSE e

LEMMA PutIs ==
  ASSUME NEW maintain \in BOOLEAN, NEW r, IsState(r, maintain), NEW e \in Entry
  PROVE  /\ IsState(Log!Put(r, e, maintain), maintain)
         /\ Has(Log!Put(r, e, maintain), r, e)
<1> DEFINE l == r.logs
           s == r.start
           q == Log!Put(r, e, maintain)
<1>0. /\ r.logs = l /\ r.start = s /\ r.search = SearchOf(l, maintain) /\ IsRing(l, s)
      /\ r = [logs |-> l, start |-> s, search |-> r.search]
  BY DEF IsState
<1> HIDE DEF l, s
<1>1. PICK k \in Nat : k = Len(l) /\ l \in Seq(Entry) /\ k <= Maximum
        /\ s \in 0..Maximum - 1 /\ (k < Maximum => s = 0)
  BY <1>0 DEF IsRing
<1>2. Maximum \in Nat /\ Maximum > 0
  BY PagesAssumption
<1>3. e.text \in Texts
  BY DEF Entry
<1>4. CASE k < Maximum
  <2> DEFINE a == Append(l, e)
             t == IF maintain THEN Append(r.search, e.text) ELSE r.search
  <2>1. q = [logs |-> a, start |-> s, search |-> t]
    BY <1>0, <1>1, <1>4 DEF Log!Put, Log!SearchText
  <2>2. /\ a \in Seq(Entry) /\ Len(a) = k + 1 /\ a[k + 1] = e
        /\ \A i \in 1..k : a[i] = l[i]
    BY <1>1
  <2>3. t = SearchOf(a, maintain)
    <3>1. CASE maintain
      <4>1. t = Append(TextsOf(l), e.text) /\ SearchOf(a, maintain) = TextsOf(a)
        BY <1>0, <3>1 DEF SearchOf
      <4>2. /\ Append(TextsOf(l), e.text) \in Seq(Texts) /\ TextsOf(a) \in Seq(Texts)
            /\ Len(Append(TextsOf(l), e.text)) = k + 1 /\ Len(TextsOf(a)) = k + 1
        <5>1. TextsOf(l) \in Seq(Texts) /\ Len(TextsOf(l)) = k
          BY <1>1, TextsAre
        <5>2. TextsOf(a) \in Seq(Texts) /\ Len(TextsOf(a)) = k + 1
          <6> HIDE DEF a
          <6> QED  BY <2>2, TextsAre
        <5> QED  BY <1>3, <5>1, <5>2, AppendProperties
      <4>3. \A i \in 1..k + 1 : Append(TextsOf(l), e.text)[i] = TextsOf(a)[i]
        <5> HIDE DEF a
        <5>1. \A i \in 1..k + 1 : TextsOf(a)[i] = a[i].text
          BY <2>2, TextsAre
        <5>2. /\ TextsOf(l) \in Seq(Texts) /\ Len(TextsOf(l)) = k
              /\ \A i \in 1..k : TextsOf(l)[i] = l[i].text
          BY <1>1, TextsAre
        <5> QED  BY <1>1, <1>3, <2>2, <5>1, <5>2
      <4> HIDE DEF t, a
      <4> QED  BY <4>1, <4>2, <4>3, SeqEqual
    <3>2. CASE ~maintain
      BY <1>0, <3>2 DEF SearchOf
    <3> QED  BY <3>1, <3>2
  <2> HIDE DEF a, t
  <2>4. IsRing(a, s)
    BY <1>1, <1>2, <1>4, <2>2 DEF IsRing
  <2>5. \A n \in 1..k + 1 : Order(a, s)[n] = IF n <= k THEN Order(l, s)[n] ELSE e
    <3> SUFFICES ASSUME NEW n \in 1..k + 1
                 PROVE  Order(a, s)[n] = IF n <= k THEN Order(l, s)[n] ELSE e
      OBVIOUS
    <3>1. Log!Physical(a, s, n - 1) = n - 1 /\ (n <= k => Log!Physical(l, s, n - 1) = n - 1)
      BY <1>0, <1>1, <1>4, <2>2, <2>4, PhysicalIs
    <3>2. Order(a, s)[n] = a[n] /\ (n <= k => Order(l, s)[n] = l[n])
      BY <1>0, <1>1, <2>2, <2>4, <3>1, OrderIs
    <3> QED  BY <1>1, <2>2, <3>2
  <2>6. q.logs = a /\ q.start = s /\ q.search = t /\ Len(q.logs) = k + 1
    BY <2>1, <2>2
  <2>7. IsState(q, maintain)
    <3>1. q = [logs |-> q.logs, start |-> q.start, search |-> SearchOf(q.logs, maintain)]
      BY <2>1, <2>3, <2>6
    <3> HIDE DEF q
    <3> QED  BY <2>4, <2>6, <3>1 DEF IsState
  <2> HIDE DEF q
  <2>8. \A n \in 1..Len(q.logs) :
          Order(q.logs, q.start)[n] = IF n + (k + 1 - Len(q.logs)) <= k
                                      THEN Order(l, s)[n + (k + 1 - Len(q.logs))] ELSE e
    <3> SUFFICES ASSUME NEW n \in 1..k + 1
                 PROVE  Order(a, s)[n] = IF n + (k + 1 - (k + 1)) <= k
                                         THEN Order(l, s)[n + (k + 1 - (k + 1))] ELSE e
      BY <2>6
    <3>1. n + (k + 1 - (k + 1)) = n
      BY <1>1
    <3> QED  BY <2>5, <3>1
  <2> QED  BY <1>1, <1>4, <2>6, <2>7, <2>8 DEF q, l, s, Has
<1>5. CASE ~(k < Maximum)
  <2> DEFINE a == [l EXCEPT ![s + 1] = e]
             z == Log!NextStart(s, k)
             t == IF maintain THEN [r.search EXCEPT ![s + 1] = e.text] ELSE r.search
  <2>1. q = [logs |-> a, start |-> z, search |-> t]
    BY <1>0, <1>1, <1>5 DEF Log!Put, Log!SearchText, Log!ReplacedSearch
  <2>2. k = Maximum /\ s \in 0..k - 1
    BY <1>1, <1>2, <1>5
  <2>3. /\ a \in Seq(Entry) /\ Len(a) = k
        /\ \A i \in 1..k : a[i] = IF i = s + 1 THEN e ELSE l[i]
    <3>1. s + 1 \in 1..Len(l)
      BY <1>1, <2>2
    <3> QED  BY <1>1, <3>1, ExceptSeq
  <2>4. z = IF s + 1 < k THEN s + 1 ELSE 0
    <3>1. \A x \in 0..2 * k - 1 : x % k = IF x < k THEN x ELSE x - k
      BY <1>2, <2>2
    <3> QED  BY <1>1, <1>2, <2>2, <3>1 DEF Log!NextStart
  <2>5. t = SearchOf(a, maintain)
    <3>1. CASE maintain
      <4> DEFINE u == [TextsOf(l) EXCEPT ![s + 1] = e.text]
      <4>1. t = u /\ SearchOf(a, maintain) = TextsOf(a)
        BY <1>0, <3>1 DEF SearchOf
      <4>2. /\ TextsOf(l) \in Seq(Texts) /\ Len(TextsOf(l)) = k
            /\ \A i \in 1..k : TextsOf(l)[i] = l[i].text
        BY <1>1, TextsAre
      <4>3. /\ u \in Seq(Texts) /\ Len(u) = k
            /\ \A i \in 1..k : u[i] = IF i = s + 1 THEN e.text ELSE TextsOf(l)[i]
        BY <1>1, <1>3, <2>2, <4>2, ExceptSeq
      <4> HIDE DEF a, u, t
      <4>4. /\ TextsOf(a) \in Seq(Texts) /\ Len(TextsOf(a)) = k
            /\ \A i \in 1..k : TextsOf(a)[i] = a[i].text
        BY <2>3, TextsAre
      <4>5. \A i \in 1..k : u[i] = TextsOf(a)[i]
        BY <2>3, <4>2, <4>3, <4>4
      <4> QED  BY <4>1, <4>3, <4>4, <4>5, SeqEqual
    <3>2. CASE ~maintain
      BY <1>0, <3>2 DEF SearchOf
    <3> QED  BY <3>1, <3>2
  <2> HIDE DEF a, t, z
  <2>6. IsRing(a, z)
    BY <1>1, <1>2, <2>2, <2>3, <2>4 DEF IsRing
  <2>7. \A n \in 1..k : Order(a, z)[n] = IF n + 1 <= k THEN Order(l, s)[n + 1] ELSE e
    <3> SUFFICES ASSUME NEW n \in 1..k
                 PROVE  Order(a, z)[n] = IF n + 1 <= k THEN Order(l, s)[n + 1] ELSE e
      OBVIOUS
    <3> DEFINE p == Log!Physical(a, z, n - 1)
    <3>1. p = IF z + n - 1 < k THEN z + n - 1 ELSE z + n - 1 - k
      BY <2>3, <2>6, PhysicalIs
    <3>2. Order(a, z)[n] = a[p + 1]
      BY <2>3, <2>6, OrderIs
    <3> HIDE DEF p
    <3>3. CASE n = k
      <4>1. p = s
        BY <2>2, <2>4, <3>1, <3>3
      <4> QED  BY <1>1, <2>2, <2>3, <3>2, <3>3, <4>1
    <3>4. CASE n # k
      <4>0. n + 1 \in 1..k /\ (n + 1) - 1 = n
        BY <1>1, <3>4
      <4>1. Log!Physical(l, s, n) = IF s + n < k THEN s + n ELSE s + n - k
        <5>1. Log!Physical(l, s, (n + 1) - 1) =
                IF s + (n + 1) - 1 < k THEN s + (n + 1) - 1 ELSE s + (n + 1) - 1 - k
          BY <1>0, <1>1, <4>0, PhysicalIs
        <5> QED  BY <1>1, <4>0, <5>1
      <4>2. Order(l, s)[n + 1] = l[Log!Physical(l, s, n) + 1]
        <5>1. Order(l, s)[n + 1] = l[Log!Physical(l, s, (n + 1) - 1) + 1]
          BY <1>0, <1>1, <4>0, OrderIs
        <5> QED  BY <4>0, <5>1
      <4>3. p = Log!Physical(l, s, n) /\ p \in 0..k - 1 /\ p # s
        BY <1>1, <2>2, <2>4, <3>1, <4>0, <4>1
      <4> QED  BY <1>1, <2>2, <2>3, <3>2, <4>0, <4>2, <4>3
    <3> QED  BY <3>3, <3>4
  <2>8. q.logs = a /\ q.start = z /\ q.search = t /\ Len(q.logs) = k
    BY <2>1, <2>3
  <2>9. IsState(q, maintain)
    <3>1. q = [logs |-> q.logs, start |-> q.start, search |-> SearchOf(q.logs, maintain)]
      BY <2>1, <2>5, <2>8
    <3> HIDE DEF q
    <3> QED  BY <2>6, <2>8, <3>1 DEF IsState
  <2> HIDE DEF q
  <2>10. \A n \in 1..Len(q.logs) :
          Order(q.logs, q.start)[n] = IF n + (k + 1 - Len(q.logs)) <= k
                                      THEN Order(l, s)[n + (k + 1 - Len(q.logs))] ELSE e
    <3>1. k + 1 - k = 1
      BY <1>1
    <3> QED  BY <2>7, <2>8, <3>1
  <2> QED  BY <1>1, <1>5, <2>2, <2>8, <2>9, <2>10 DEF q, l, s, Has
<1> QED  BY <1>4, <1>5

(* A batch: the function that PutAll is the last value of exists, and each *)
(* of its values is the ring after so many entries.                        *)
Puts(put, r, entries, maintain, k) ==
  put = [n \in 0..k |-> IF n = 0 THEN r ELSE Log!Put(put[n - 1], entries[n], maintain)]

LEMMA PutsExist ==
  ASSUME NEW r, NEW entries, NEW maintain, NEW N \in Nat
  PROVE  \E put : Puts(put, r, entries, maintain, N)
<1> DEFINE Is(put, k) == put = [n \in 0..k |-> IF n = 0 THEN r
                                 ELSE Log!Put(put[n - 1], entries[n], maintain)]
           S == {k \in Nat : ~ \E put : Is(put, k)}
<1>1. SUFFICES ASSUME S # {} PROVE FALSE
  BY DEF Puts
<1>2. PICK k \in S : \A j \in S : k <= j
  <2>1. S \subseteq Nat
    OBVIOUS
  <2> HIDE DEF S
  <2> QED  BY <1>1, <2>1, LeastExists
<1>3. CASE k = 0
  <2> DEFINE put == [n \in 0..0 |-> r]
  <2>1. Is(put, 0)
    <3>1. \A n \in 0..0 : n = 0
      OBVIOUS
    <3> QED  BY <3>1
  <2> HIDE DEF put, Is
  <2> QED  BY <1>2, <1>3, <2>1
<1>4. CASE k # 0
  <2>1. k - 1 \in Nat /\ k \in Nat /\ ~(k <= k - 1)
    BY <1>2, <1>4
  <2>2. \E put : Is(put, k - 1)
    <3> HIDE DEF Is
    <3> QED  BY <1>2, <2>1
  <2>3. PICK put : Is(put, k - 1)
    BY <2>2
  <2>4. \A n \in 0..k - 1 : put[n] = IF n = 0 THEN r
                                     ELSE Log!Put(put[n - 1], entries[n], maintain)
    BY <2>3
  <2> DEFINE new == [n \in 0..k |-> IF n = k THEN Log!Put(put[k - 1], entries[k], maintain)
                                    ELSE put[n]]
  <2>5. \A n \in 0..k : new[n] = IF n = 0 THEN r
                                 ELSE Log!Put(new[n - 1], entries[n], maintain)
    <3> SUFFICES ASSUME NEW n \in 0..k
                 PROVE  new[n] = IF n = 0 THEN r
                                 ELSE Log!Put(new[n - 1], entries[n], maintain)
      OBVIOUS
    <3>1. CASE n = 0
      BY <1>4, <2>1, <2>4, <3>1
    <3>2. CASE n # 0 /\ n # k
      <4>1. n \in 0..k - 1 /\ n - 1 \in 0..k /\ n - 1 # k
        BY <2>1, <3>2
      <4> QED  BY <2>4, <3>2, <4>1
    <3>3. CASE n = k
      <4>1. k - 1 \in 0..k /\ k - 1 # k
        BY <2>1
      <4> QED  BY <1>4, <3>3, <4>1
    <3> QED  BY <3>1, <3>2, <3>3
  <2>6. new = [n \in 0..k |-> new[n]]
    OBVIOUS
  <2> HIDE DEF new
  <2>7. new = [n \in 0..k |-> IF n = 0 THEN r
                              ELSE Log!Put(new[n - 1], entries[n], maintain)]
    BY <2>5, <2>6
  <2> QED  BY <1>2, <2>7
<1> QED  BY <1>3, <1>4

After(q, l, s, maintain, entries, n) ==
  /\ IsState(q, maintain)
  /\ Len(q.logs) = IF Len(l) + n < Maximum THEN Len(l) + n ELSE Maximum
  /\ \A i \in 1..Len(q.logs) :
       Order(q.logs, q.start)[i] =
         (Order(l, s) \o entries)[i + (Len(l) + n - Len(q.logs))]

LEMMA PutAfter ==
  ASSUME NEW l, NEW s, IsRing(l, s), NEW maintain \in BOOLEAN, NEW entries \in Seq(Entry),
         NEW q, NEW n \in Nat, n + 1 \in 1..Len(entries),
         After(q, l, s, maintain, entries, n)
  PROVE  After(Log!Put(q, entries[n + 1], maintain), l, s, maintain, entries, n + 1)
<1> DEFINE C == Order(l, s) \o entries
           e == entries[n + 1]
           p == Log!Put(q, e, maintain)
<1>1. /\ IsState(q, maintain) /\ IsRing(q.logs, q.start)
      /\ Len(q.logs) = IF Len(l) + n < Maximum THEN Len(l) + n ELSE Maximum
      /\ \A i \in 1..Len(q.logs) :
           Order(q.logs, q.start)[i] = C[i + (Len(l) + n - Len(q.logs))]
  BY DEF After, IsState
<1>2. PICK L \in Nat, K \in Nat : L = Len(l) /\ K = Len(q.logs)
  BY <1>1 DEF IsRing
<1>3. e \in Entry /\ Maximum \in Nat /\ Len(entries) \in Nat
  BY PagesAssumption, ElementOfSeq
<1>4. C[L + n + 1] = e
  <2>1. Order(l, s) \in Seq(Entry) /\ Len(Order(l, s)) = L
    BY <1>2, OrderIs
  <2>2. \A i \in 1..L + Len(entries) :
          C[i] = IF i <= L THEN Order(l, s)[i] ELSE entries[i - L]
    BY <2>1, ConcatProperties
  <2>3. L + n + 1 \in 1..L + Len(entries) /\ ~(L + n + 1 <= L) /\ (L + n + 1) - L = n + 1
    BY <1>2, <1>3
  <2> HIDE DEF C
  <2> QED  BY <2>2, <2>3
<1> HIDE DEF C, e
<1>5. IsState(p, maintain) /\ Has(p, q, e)
  BY <1>1, <1>3, PutIs, Zenon
<1> HIDE DEF p
<1>6. PICK P \in Nat : P = Len(p.logs)
  <2>1. IsRing(p.logs, p.start)
    BY <1>5, Zenon DEF IsState
  <2> QED  BY <2>1 DEF IsRing
<1>7. /\ K = (IF L + n < Maximum THEN L + n ELSE Maximum)
      /\ P = (IF K < Maximum THEN K + 1 ELSE Maximum)
  BY <1>1, <1>2, <1>5, <1>6 DEF Has
<1>8. P = (IF L + (n + 1) < Maximum THEN L + (n + 1) ELSE Maximum)
  BY <1>2, <1>3, <1>6, <1>7
<1>9. \A i \in 1..P : Order(p.logs, p.start)[i] = C[i + (L + (n + 1) - P)]
  <2> SUFFICES ASSUME NEW i \in 1..P
               PROVE  Order(p.logs, p.start)[i] = C[i + (L + (n + 1) - P)]
    OBVIOUS
  <2>0. K + 1 - P \in Nat /\ i \in Nat
    BY <1>2, <1>3, <1>6, <1>7
  <2>1. PICK j \in Nat : j = i + (K + 1 - P)
    BY <2>0
  <2>2. Order(p.logs, p.start)[i] = IF j <= K THEN Order(q.logs, q.start)[j] ELSE e
    BY <1>2, <1>5, <1>6, <2>1 DEF Has
  <2>3. j + (L + n - K) = i + (L + (n + 1) - P)
    BY <2>1
  <2>4. CASE j <= K
    <3>1. j \in 1..K
      <4>1. j >= 1
        BY <2>0, <2>1
      <4> QED  BY <2>4, <4>1
    <3>2. Order(q.logs, q.start)[j] = C[j + (L + n - K)]
      BY <1>1, <1>2, <3>1
    <3> QED  BY <2>2, <2>3, <2>4, <3>2
  <2>5. CASE ~(j <= K)
    <3>1. i = P /\ i + (L + (n + 1) - P) = L + n + 1
      BY <2>1, <2>5
    <3> QED  BY <1>4, <2>2, <2>5, <3>1
  <2> QED  BY <2>4, <2>5
<1>10. After(p, l, s, maintain, entries, n + 1)
  BY <1>2, <1>5, <1>6, <1>8, <1>9 DEF After, C
<1> QED  BY <1>10 DEF p, e

LEMMA PutAllIs ==
  ASSUME NEW maintain \in BOOLEAN, NEW r, IsState(r, maintain), NEW entries \in Seq(Entry)
  PROVE  After(Log!PutAll(r, entries, maintain), r.logs, r.start, maintain, entries,
               Len(entries))
<1> DEFINE l == r.logs
           s == r.start
           Is(f) == f = [n \in 0..Len(entries) |->
                           IF n = 0 THEN r ELSE Log!Put(f[n - 1], entries[n], maintain)]
           put == CHOOSE f : Is(f)
           At_(n) == After(put[n], l, s, maintain, entries, n)
           S == {n \in 0..Len(entries) : ~At_(n)}
<1>1. Log!PutAll(r, entries, maintain) = put[Len(entries)]
  BY DEF Log!PutAll
<1>2. PICK N \in Nat : N = Len(entries)
  OBVIOUS
<1>3. Is(put)
  <2>1. Len(entries) \in Nat
    OBVIOUS
  <2>2. \E f : Puts(f, r, entries, maintain, Len(entries))
    BY <2>1, PutsExist, Zenon
  <2>3. \E f : Is(f)
    BY <2>2, Zenon DEF Puts
  <2> HIDE DEF Is
  <2> QED  BY <2>3
<1> HIDE DEF put
<1>4. put[0] = r /\ \A n \in 1..N : put[n] = Log!Put(put[n - 1], entries[n], maintain)
  BY <1>2, <1>3
<1> HIDE DEF Is
<1>5. At_(0)
  <2>1. r.logs = l /\ r.start = s /\ IsRing(l, s)
    BY DEF IsState
  <2> HIDE DEF l, s
  <2>2. PICK L \in Nat : L = Len(l) /\ L <= Maximum
    BY <2>1 DEF IsRing
  <2>3. Len(l) = IF Len(l) + 0 < Maximum THEN Len(l) + 0 ELSE Maximum
    BY <2>2, PagesAssumption
  <2>4. \A i \in 1..Len(l) :
          Order(l, s)[i] = (Order(l, s) \o entries)[i + (Len(l) + 0 - Len(l))]
    <3> SUFFICES ASSUME NEW i \in 1..L
                 PROVE  Order(l, s)[i] = (Order(l, s) \o entries)[i + (L + 0 - L)]
      BY <2>2
    <3>1. i + (L + 0 - L) = i /\ i \in 1..L + N /\ i <= L
      BY <2>2
    <3>2. Order(l, s) \in Seq(Entry) /\ Len(Order(l, s)) = L
      BY <2>1, <2>2, OrderIs
    <3> QED  BY <1>2, <3>1, <3>2, ConcatProperties
  <2>5. After(r, l, s, maintain, entries, 0)
    BY <2>1, <2>3, <2>4 DEF After
  <2> QED  BY <1>4, <2>5
<1>6. \A n \in Nat : n + 1 \in 1..N /\ At_(n) => At_(n + 1)
  <2> SUFFICES ASSUME NEW n \in Nat, n + 1 \in 1..N, At_(n) PROVE At_(n + 1)
    OBVIOUS
  <2>1. put[n + 1] = Log!Put(put[n], entries[n + 1], maintain)
    <3>1. (n + 1) - 1 = n
      OBVIOUS
    <3> QED  BY <1>4, <3>1
  <2>2. IsRing(l, s)
    BY DEF IsState
  <2> QED  BY <1>2, <2>1, <2>2, PutAfter
<1> HIDE DEF At_
<1>7. S = {}
  <2>1. SUFFICES ASSUME S # {} PROVE FALSE
    OBVIOUS
  <2>2. S \subseteq Nat
    BY <1>2
  <2>3. PICK k \in S : \A j \in S : k <= j
    <3> HIDE DEF S
    <3> QED  BY <2>1, <2>2, LeastExists
  <2>4. k # 0 /\ k \in 0..N /\ ~At_(k)
    BY <1>2, <1>5, <2>3
  <2>5. k - 1 \in Nat /\ (k - 1) + 1 \in 1..N /\ (k - 1) + 1 = k /\ k - 1 \in 0..N
          /\ ~(k <= k - 1)
    BY <1>2, <2>4
  <2>6. At_(k - 1)
    BY <1>2, <2>3, <2>5
  <2> HIDE DEF S
  <2> QED  BY <1>6, <2>4, <2>5, <2>6
<1>8. At_(N)
  BY <1>2, <1>7
<1> QED  BY <1>1, <1>2, <1>8 DEF At_

-----------------------------------------------------------------------------
(* What matches a filter, of the entries o in the order they arrived, and  *)
(* the list that the page has cached of it.                                *)
NoFilter == ""
Hits(o, f) == {n \in 1..Len(o) : f = NoFilter \/ o[n].text = f}
Matches(o, f) == Log!Listing!Matching(o, f)

LEMMA MatchesAre ==
  ASSUME NEW o \in Seq(Entry), NEW f
  PROVE  /\ Hits(o, f) \in SUBSET (1..Len(o)) /\ Len(o) \in Nat
         /\ Matches(o, f) \in Seq(Entry) /\ Len(Matches(o, f)) = Cardinality(Hits(o, f))
         /\ Cardinality(Hits(o, f)) \in 0..Len(o)
         /\ \A k \in 1..Cardinality(Hits(o, f)) :
              Matches(o, f)[k] = o[InOrder(Hits(o, f))[k]]
<1> DEFINE S == Hits(o, f)
           I == InOrder(S)
<1>0. Len(o) \in Nat
  OBVIOUS
<1>1. Len(o) \in Nat /\ S \in SUBSET (1..Len(o))
  BY <1>0, Zenon DEF Hits
<1>2. Matches(o, f) = [k \in DOMAIN I |-> o[I[k]]]
  <2>1. Log!Listing!InOrder(S) = I
    BY LogOperators
  <2> QED  BY <2>1, Zenon DEF Matches, Log!Listing!Matching, Hits, NoFilter
<1> HIDE DEF S, I
<1>3. Cardinality(S) \in 0..Len(o)
  BY <1>1, IndicesFinite
<1>4. I \in Seq(S) /\ Len(I) = Cardinality(S)
  BY <1>1, InOrderLists DEF I
<1>5. DOMAIN I = 1..Cardinality(S) /\ \A k \in 1..Cardinality(S) : I[k] \in S
  BY <1>4, LenProperties, ElementOfSeq
<1>6. \A k \in 1..Cardinality(S) : o[I[k]] \in Entry
  BY <1>1, <1>5, ElementOfSeq
<1>7. Matches(o, f) \in Seq(Entry) /\ Len(Matches(o, f)) = Cardinality(S)
  BY <1>2, <1>3, <1>5, <1>6
<1>8. \A k \in 1..Cardinality(S) : Matches(o, f)[k] = o[I[k]]
  BY <1>2, <1>5
<1> QED  BY <1>1, <1>3, <1>7, <1>8 DEF S, I

(* Without a filter that is all of them.                                   *)
LEMMA AllMatch ==
  ASSUME NEW o \in Seq(Entry)
  PROVE  Matches(o, NoFilter) = o
<1> DEFINE S == Hits(o, NoFilter)
<1>1. PICK n \in Nat : n = Len(o)
  OBVIOUS
<1>2. S = 1..n
  BY <1>1 DEF Hits
<1>3. Cardinality(1..n) = n /\ 1..n \in SUBSET (1..n)
  <2>1. Cardinality(1..n) = IF 1 > n THEN 0 ELSE n - 1 + 1
    BY FS_Interval
  <2> QED  BY <2>1
<1>4. \A i \in 1..n : Before(1..n, i) = i - 1
  <2> SUFFICES ASSUME NEW i \in 1..n PROVE Before(1..n, i) = i - 1
    OBVIOUS
  <2>1. \A j \in Int : j \in 1..n /\ j < i <=> j \in 1..i - 1
    OBVIOUS
  <2>2. {j \in 1..n : j < i} = 1..i - 1
    BY <2>1
  <2>3. Cardinality(1..i - 1) = i - 1
    BY FS_Interval
  <2> QED  BY <2>2, <2>3 DEF Before
<1>5. \A k \in 1..n : InOrder(1..n)[k] = k
  <2> SUFFICES ASSUME NEW k \in 1..n PROVE InOrder(1..n)[k] = k
    OBVIOUS
  <2>1. InOrder(1..n)[k] \in 1..n /\ Before(1..n, InOrder(1..n)[k]) = k - 1
    <3>1. k \in 1..Cardinality(1..n)
      BY <1>3
    <3>2. \A j \in 1..Cardinality(1..n) :
            InOrder(1..n)[j] \in 1..n /\ Before(1..n, InOrder(1..n)[j]) = j - 1
      BY <1>3, InOrderLists, Zenon
    <3> QED  BY <3>1, <3>2, Zenon
  <2>2. PICK i \in 1..n : i = InOrder(1..n)[k]
    BY <2>1
  <2>3. i - 1 = k - 1
    BY <1>4, <2>1, <2>2
  <2> QED  BY <2>2, <2>3
<1>6. /\ Matches(o, NoFilter) \in Seq(Entry) /\ Len(Matches(o, NoFilter)) = n
      /\ \A k \in 1..n : Matches(o, NoFilter)[k] = o[k]
  <2>1. S = Hits(o, NoFilter)
    OBVIOUS
  <2> HIDE DEF S
  <2>2. /\ Matches(o, NoFilter) \in Seq(Entry) /\ Len(Matches(o, NoFilter)) = Cardinality(S)
        /\ \A k \in 1..Cardinality(S) : Matches(o, NoFilter)[k] = o[InOrder(S)[k]]
    BY <2>1, MatchesAre
  <2> QED  BY <1>2, <1>3, <1>5, <2>2
<1> QED  BY <1>1, <1>6, SeqEqual

EntriesAt(l, indices) == [n \in 1..Len(indices) |-> l[indices[n] + 1]]

LEMMA IndicesAre ==
  ASSUME NEW l, NEW s, IsRing(l, s), NEW f, f # NoFilter
  PROVE  LET I == Log!Indices(l, s, TextsOf(l), f)
         IN  /\ I \in Seq(Nat) /\ Len(I) = Len(Matches(Order(l, s), f))
             /\ EntriesAt(l, I) = Matches(Order(l, s), f)
<1> DEFINE o == Order(l, s)
           S == Hits(o, f)
           H == InOrder(S)
           J == [k \in DOMAIN H |-> Log!Physical(l, s, H[k] - 1)]
<1>1. /\ l \in Seq(Entry) /\ o \in Seq(Entry) /\ Len(o) = Len(l)
      /\ \A n \in 1..Len(l) : /\ o[n] = l[Log!Physical(l, s, n - 1) + 1]
                              /\ Log!Physical(l, s, n - 1) + 1 \in 1..Len(l)
                              /\ Log!Physical(l, s, n - 1) \in Nat
  <2>1. l \in Seq(Entry)
    BY DEF IsRing
  <2>2. Len(l) \in Nat
    BY <2>1
  <2>3. \A n \in 1..Len(l) : Log!Physical(l, s, n - 1) \in 0..Len(l) - 1
    BY PhysicalIs
  <2>4. \A n \in 1..Len(l) : /\ Log!Physical(l, s, n - 1) + 1 \in 1..Len(l)
                            /\ Log!Physical(l, s, n - 1) \in Nat
    BY <2>2, <2>3
  <2>5. /\ o \in Seq(Entry) /\ Len(o) = Len(l)
        /\ \A n \in 1..Len(l) : o[n] = l[Log!Physical(l, s, n - 1) + 1]
    BY OrderIs, Zenon
  <2> QED  BY <2>1, <2>4, <2>5
<1> HIDE DEF o
<1>2. S = {n \in 1..Len(l) : TextsOf(l)[Log!Physical(l, s, n - 1) + 1] = f}
  <2>1. \A n \in 1..Len(l) : TextsOf(l)[Log!Physical(l, s, n - 1) + 1] = o[n].text
    <3>1. \A i \in 1..Len(l) : TextsOf(l)[i] = l[i].text
      BY <1>1, TextsAre, Zenon
    <3> QED  BY <1>1, <3>1
  <2> QED  BY <1>1, <2>1 DEF Hits
<1>3. Log!Indices(l, s, TextsOf(l), f) = J
  <2>1. Log!InOrder(S) = H
    BY LogOperators
  <2> QED  BY <1>2, <2>1, Zenon DEF Log!Indices, NoFilter
<1>4. /\ S \in SUBSET (1..Len(l)) /\ Len(l) \in Nat
      /\ Matches(o, f) \in Seq(Entry) /\ Len(Matches(o, f)) = Cardinality(S)
      /\ Cardinality(S) \in Nat
      /\ \A k \in 1..Cardinality(S) : Matches(o, f)[k] = o[H[k]]
  <2>1. S \in SUBSET (1..Len(o)) /\ Cardinality(S) \in 0..Len(o) /\ Len(o) \in Nat
    BY <1>1, MatchesAre
  <2>2. Matches(o, f) \in Seq(Entry) /\ Len(Matches(o, f)) = Cardinality(S)
    BY <1>1, MatchesAre
  <2>3. \A k \in 1..Cardinality(S) : Matches(o, f)[k] = o[H[k]]
    BY <1>1, MatchesAre
  <2>4. Cardinality(S) \in Nat
    <3> HIDE DEF S
    <3> QED  BY <2>1
  <2> HIDE DEF S, H
  <2> QED  BY <1>1, <2>1, <2>2, <2>3, <2>4
<1> HIDE DEF S, H
<1>5. /\ DOMAIN H = 1..Cardinality(S)
      /\ \A k \in 1..Cardinality(S) : H[k] \in 1..Len(l)
  <2>1. H \in Seq(S) /\ Len(H) = Cardinality(S)
    BY <1>4, InOrderLists DEF H
  <2> QED  BY <1>4, <2>1, LenProperties, ElementOfSeq
<1>6. /\ J \in Seq(Nat) /\ Len(J) = Cardinality(S)
      /\ \A k \in 1..Cardinality(S) : l[J[k] + 1] = o[H[k]]
  <2>1. \A k \in 1..Cardinality(S) : J[k] \in Nat /\ l[J[k] + 1] = o[H[k]]
    BY <1>1, <1>5
  <2>2. PICK N \in Nat : N = Cardinality(S)
    BY <1>4
  <2>3. J = [k \in 1..N |-> J[k]] /\ \A k \in 1..N : J[k] \in Nat
    BY <1>5, <2>1, <2>2
  <2> HIDE DEF J
  <2>4. J \in Seq(Nat) /\ Len(J) = Cardinality(S)
    BY <2>2, <2>3
  <2> QED  BY <2>1, <2>4
<1> HIDE DEF J
<1> DEFINE L == EntriesAt(l, J)
<1>7. L = Matches(o, f)
  <2>1. \A k \in 1..Cardinality(S) : L[k] = Matches(o, f)[k] /\ L[k] \in Entry
    <3>1. \A k \in 1..Cardinality(S) : Matches(o, f)[k] \in Entry
      BY <1>4, ElementOfSeq
    <3> QED  BY <1>4, <1>6, <3>1 DEF EntriesAt
  <2>3. PICK N \in Nat : N = Cardinality(S)
    BY <1>4
  <2>4. L = [k \in 1..N |-> L[k]] /\ \A k \in 1..N : L[k] \in Entry
    BY <1>6, <2>1, <2>3 DEF EntriesAt
  <2> HIDE DEF L
  <2>2. L \in Seq(Entry) /\ Len(L) = Cardinality(S)
    BY <2>3, <2>4
  <2> HIDE DEF L
  <2> QED  BY <1>4, <2>1, <2>2, SeqEqual
<1> QED  BY <1>3, <1>4, <1>6, <1>7 DEF o

IsView(v) ==
  v \in [indices : Seq(Nat), valid : BOOLEAN, filter : {v.filter}, start : {v.start},
         length : {v.length}]
CachedView(v, l, s) ==
  \A f : f # NoFilter /\ Log!Fresh(v, l, s, f) => v.indices = Log!Indices(l, s, TextsOf(l), f)

(* The list, whether it was cached or is made anew.                        *)
LEMMA ListedIs ==
  ASSUME NEW l, NEW s, IsRing(l, s), NEW v, CachedView(v, l, s), NEW f,
         f = NoFilter \/ Log!Fresh(v, l, s, f)
  PROVE  /\ Log!Listed(v, l, s, f) = Matches(Order(l, s), f)
         /\ Log!ViewLen(v, l, f) = Len(Matches(Order(l, s), f))
<1>1. CASE f = NoFilter
  <2>1. Order(l, s) \in Seq(Entry) /\ Len(Order(l, s)) = Len(l)
    BY OrderIs
  <2>2. Matches(Order(l, s), f) = Order(l, s)
    BY <1>1, <2>1, AllMatch
  <2>3. Log!Listed(v, l, s, f) = Order(l, s) /\ Log!ViewLen(v, l, f) = Len(l)
    BY <1>1, Zenon DEF Log!Listed, Log!ViewLen, Order, NoFilter
  <2> QED  BY <2>1, <2>2, <2>3
<1>2. CASE f # NoFilter
  <2> DEFINE I == Log!Indices(l, s, TextsOf(l), f)
  <2>1. v.indices = I
    BY <1>2 DEF CachedView
  <2>2. Len(I) = Len(Matches(Order(l, s), f))
          /\ EntriesAt(l, I) = Matches(Order(l, s), f)
    BY <1>2, IndicesAre, Zenon
  <2> HIDE DEF I
  <2>3. Log!Listed(v, l, s, f) = EntriesAt(l, I) /\ Log!ViewLen(v, l, f) = Len(I)
    BY <1>2, <2>1, Zenon DEF Log!Listed, Log!ViewLen, EntriesAt, NoFilter
  <2> QED  BY <2>2, <2>3
<1> QED  BY <1>1, <1>2

LEMMA EnsuredIs ==
  ASSUME NEW l, NEW s, IsRing(l, s), NEW v, IsView(v), CachedView(v, l, s), NEW f,
         NEW search, f # NoFilter => search = TextsOf(l)
  PROVE  LET w == Log!Ensured(v, l, s, search, f)
         IN  IsView(w) /\ CachedView(w, l, s) /\ Log!Fresh(w, l, s, f)
<1>1. CASE Log!Fresh(v, l, s, f)
  BY <1>1 DEF Log!Ensured
<1>2. CASE ~Log!Fresh(v, l, s, f)
  <2> DEFINE I == Log!Indices(l, s, search, f)
             w == [indices |-> I, valid |-> TRUE, filter |-> f, start |-> s,
                   length |-> Len(l)]
  <2>1. Log!Ensured(v, l, s, search, f) = w
    BY <1>2 DEF Log!Ensured
  <2>2. I \in Seq(Nat)
    <3>1. CASE f = NoFilter
      <4>1. I = <<>>
        BY <3>1, Zenon DEF Log!Indices, NoFilter
      <4> HIDE DEF I
      <4> QED  BY <4>1
    <3>2. CASE f # NoFilter
      BY <3>2, IndicesAre
    <3> QED  BY <3>1, <3>2
  <2>3. f # NoFilter => I = Log!Indices(l, s, TextsOf(l), f)
    OBVIOUS
  <2> HIDE DEF I
  <2>4. IsView(w)
    BY <2>2 DEF IsView
  <2>5. CachedView(w, l, s) /\ Log!Fresh(w, l, s, f)
    BY <2>3 DEF CachedView, Log!Fresh
  <2> HIDE DEF w
  <2> QED  BY <2>1, <2>4, <2>5
<1> QED  BY <1>1, <1>2

LEMMA InvalidIs ==
  ASSUME NEW v, IsView(v)
  PROVE  /\ IsView(Log!Invalid(v))
         /\ \A l, s, f : ~Log!Fresh(Log!Invalid(v), l, s, f)
         /\ \A l, s : CachedView(Log!Invalid(v), l, s)
<1>1. IsView(Log!Invalid(v)) /\ ~Log!Invalid(v).valid
  BY DEF IsView, Log!Invalid
<1>2. \A l, s, f : ~Log!Fresh(Log!Invalid(v), l, s, f)
  BY <1>1 DEF Log!Fresh
<1> QED  BY <1>1, <1>2 DEF CachedView

-----------------------------------------------------------------------------
(* The invariant of the log page: the search texts and the list, if they   *)
(* are valid, are those of the ring; the window ends on the list; entries  *)
(* are numbered as they arrived.                                           *)
List == Matches(Order(logs, logStart), filter)
OnList(o, list) == o \in Nat /\ (o = 0 \/ o < Len(list))

LogInv ==
  /\ IsRing(logs, logStart) /\ logSearch \in {<<>>, TextsOf(logs)}
  /\ IsView(logView) /\ CachedView(logView, logs, logStart)
  /\ filter \in Texts \cup {NoFilter} /\ logsShown \in BOOLEAN /\ capacity \in Heights
  /\ logsShown => filter = NoFilter \/ Log!Fresh(logView, logs, logStart, filter)
  /\ ~logsShown => logOffset = 0
  /\ OnList(logOffset, List)
  /\ received \in Nat
  /\ \A n \in 1..Len(logs) : Order(logs, logStart)[n].id = received - Len(logs) + n

LEMMA WithSearchIs ==
  ASSUME NEW l \in Seq(Entry), NEW search \in {<<>>, TextsOf(l)}
  PROVE  Log!WithSearch(search, l) = TextsOf(l)
<1>1. [i \in 1..Len(l) |-> Log!SearchText(l[i])] = TextsOf(l)
  BY Zenon DEF TextsOf, Log!SearchText
<1>2. CASE Len(search) = Len(l)
  <2>1. Log!WithSearch(search, l) = search
    BY <1>2, Zenon DEF Log!WithSearch
  <2>2. CASE search = <<>>
    <3>1. l = <<>>
      <4>1. Len(l) = 0
        BY <1>2, <2>2
      <4> QED  BY <4>1, EmptySeq
    <3> QED  BY <2>1, <2>2, <3>1, TextsAre
  <2> QED  BY <2>1, <2>2
<1>3. CASE Len(search) # Len(l)
  BY <1>1, <1>3, Zenon DEF Log!WithSearch
<1> QED  BY <1>2, <1>3

LEMMA ShownOf ==
  ASSUME NEW l, NEW s, IsRing(l, s), NEW search \in {<<>>, TextsOf(l)},
         NEW v, IsView(v), CachedView(v, l, s), NEW f
  PROVE  LET t == IF f = NoFilter THEN search ELSE Log!WithSearch(search, l)
         IN  Log!Listed(Log!Ensured(v, l, s, t, f), l, s, f) = Matches(Order(l, s), f)
<1> DEFINE t == IF f = NoFilter THEN search ELSE Log!WithSearch(search, l)
           w == Log!Ensured(v, l, s, t, f)
<1>1. l \in Seq(Entry)
  BY DEF IsRing
<1>2. f # NoFilter => t = TextsOf(l)
  BY <1>1, WithSearchIs
<1> HIDE DEF t
<1>3. CachedView(w, l, s) /\ Log!Fresh(w, l, s, f)
  BY <1>2, EnsuredIs
<1> HIDE DEF w
<1>4. Log!Listed(w, l, s, f) = Matches(Order(l, s), f)
  BY <1>3, ListedIs
<1> QED  BY <1>4 DEF w, t

LEMMA ShownIs ==
  /\ LogInv => Log!Shown = List
  /\ LogInv' => Log!Shown' = List'
<1>1. ASSUME LogInv PROVE Log!Shown = List
  <2> DEFINE t == IF filter = NoFilter THEN logSearch ELSE Log!WithSearch(logSearch, logs)
  <2>1. IsRing(logs, logStart) /\ logSearch \in {<<>>, TextsOf(logs)}
          /\ IsView(logView) /\ CachedView(logView, logs, logStart)
    BY <1>1 DEF LogInv
  <2>2. Log!Listed(Log!Ensured(logView, logs, logStart, t, filter), logs, logStart, filter)
          = List
    BY <2>1, ShownOf DEF List
  <2> QED  BY <2>2, Zenon DEF Log!Shown, NoFilter
<1>2. ASSUME LogInv' PROVE Log!Shown' = List'
  <2> DEFINE t == IF filter' = NoFilter THEN logSearch'
                  ELSE Log!WithSearch(logSearch', logs')
  <2>1. IsRing(logs', logStart') /\ logSearch' \in {<<>>, TextsOf(logs')}
          /\ IsView(logView') /\ CachedView(logView', logs', logStart')
    BY <1>2 DEF LogInv
  <2>2. Log!Listed(Log!Ensured(logView', logs', logStart', t, filter'),
                   logs', logStart', filter') = List'
    BY <2>1, ShownOf DEF List
  <2> QED  BY <2>2, Zenon DEF Log!Shown, NoFilter
<1> QED  BY <1>1, <1>2

LEMMA InitialLogs == ASSUME Log!Init PROVE LogInv /\ logs = <<>> /\ filter = NoFilter
<1>1. /\ logs = <<>> /\ logStart = 0 /\ logSearch = <<>> /\ received = 0 /\ logOffset = 0
      /\ logsShown = FALSE /\ capacity \in Heights
  BY DEF Log!Init
<1>2. filter = NoFilter
  BY Zenon DEF Log!Init, NoFilter
<1>3. IsView(logView) /\ ~logView.valid
  <2>1. logView = [indices |-> <<>>, valid |-> FALSE, filter |-> NoFilter, start |-> 0,
                   length |-> 0]
    BY Zenon DEF Log!Init, NoFilter
  <2> QED  BY <2>1 DEF IsView
<1>4. logs \in Seq(Entry) /\ Len(logs) = 0 /\ IsRing(logs, logStart)
  <2>1. logs \in Seq(Entry) /\ Len(logs) = 0
    BY <1>1
  <2> QED  BY <1>1, <2>1, PagesAssumption DEF IsRing
<1>5. CachedView(logView, logs, logStart)
  BY <1>3 DEF CachedView, Log!Fresh
<1>6. \A n \in 1..Len(logs) : Order(logs, logStart)[n].id = received - Len(logs) + n
  BY <1>4
<1>7. OnList(logOffset, List)
  BY <1>1 DEF OnList
<1> QED  BY <1>1, <1>2, <1>3, <1>4, <1>5, <1>6, <1>7 DEF LogInv

(* The window on the list after an operation.                              *)
LEMMA ClampedOnList ==
  ASSUME NEW o \in Int, NEW list \in Seq(Entry), NEW h \in Nat \ {0}
  PROVE  OnList(Log!Clamp(o, 0, Log!AtLeast0(Len(list) - h)), list)
<1>1. PICK n \in Nat : n = Len(list)
  OBVIOUS
<1> QED  BY <1>1 DEF OnList, Log!Clamp, Log!AtLeast0

LEMMA ListType ==
  ASSUME LogInv
  PROVE  List \in Seq(Entry) /\ capacity \in Nat \ {0} /\ logOffset \in Nat /\ received \in Nat
         /\ logs \in Seq(Entry)
<1>1. Order(logs, logStart) \in Seq(Entry)
  BY OrderIs DEF LogInv
<1>2. List \in Seq(Entry)
  BY <1>1, MatchesAre DEF List
<1> QED  BY <1>2, PagesAssumption DEF LogInv, OnList, IsRing

(* A batch of entries.                                                     *)
Batch(entries) ==
  /\ entries \in Seq(Entry) /\ Len(entries) > 0
  /\ \A i \in 1..Len(entries) : entries[i].id = received + i
  /\ Len(logs)' = IF Len(logs) + Len(entries) < Maximum THEN Len(logs) + Len(entries)
                  ELSE Maximum
  /\ \A i \in 1..Len(logs)' :
       Order(logs, logStart)'[i] =
         (Order(logs, logStart) \o entries)[i + (Len(logs) + Len(entries) - Len(logs)')]
  /\ received' = received + Len(entries) /\ UNCHANGED <<filter, capacity, logPaused>>
  /\ logOffset' =
       Log!Clamp(logOffset + (IF logPaused \/ logOffset > 0
                              THEN Cardinality(Hits(entries, filter)) ELSE 0),
                 0, Log!AtLeast0(Len(List)' - capacity))

LEMMA BatchStep ==
  ASSUME LogInv, NEW n \in 1..BatchMax, NEW texts \in [1..n -> Texts],
         Log!AppendLogBatch(texts)
  PROVE  LogInv' /\ \E entries : Batch(entries)
<1> DEFINE entries == [i \in 1..Len(texts) |-> [id |-> received + i, text |-> texts[i]]]
           maintain == filter # NoFilter \/ Len(logSearch) > 0
           search == IF maintain THEN Log!WithSearch(logSearch, logs) ELSE logSearch
           r0 == [logs |-> logs, start |-> logStart, search |-> search]
           r == Log!PutAll(r0, entries, maintain)
           added == Cardinality({i \in 1..Len(texts) : filter = NoFilter \/ texts[i] = filter})
           final == IF filter = NoFilter THEN r.search ELSE Log!WithSearch(r.search, r.logs)
           v == Log!Ensured(Log!Invalid(logView), r.logs, r.start, final, filter)
<1>1. /\ logsShown
      /\ logs' = r.logs /\ logStart' = r.start /\ logSearch' = final /\ logView' = v
      /\ received' = received + Len(texts)
      /\ logOffset' = Log!Bounded(logOffset + Log!Shift(added),
                                  Log!ViewLen(v, r.logs, filter))
      /\ UNCHANGED <<filter, logPaused, capacity, logsShown>>
  <2>1. Log!Cardinality({i \in 1..Len(texts) : filter = NoFilter \/ texts[i] = filter})
          = added
    BY LogOperators
  <2> QED  BY <2>1, Zenon DEF Log!AppendLogBatch, NoFilter
<1>2. Len(texts) = n /\ n \in Nat /\ n > 0
  <2>1. n \in Nat /\ n > 0
    BY PagesAssumption
  <2>2. texts \in Seq(Texts) /\ Len(texts) = n
    BY <2>1
  <2> QED  BY <2>1, <2>2
<1>3. /\ IsRing(logs, logStart) /\ logs \in Seq(Entry) /\ logSearch \in {<<>>, TextsOf(logs)}
      /\ received \in Nat /\ logOffset \in Nat /\ capacity \in Nat \ {0}
      /\ IsView(logView) /\ filter \in Texts \cup {NoFilter} /\ capacity \in Heights
      /\ \A i \in 1..Len(logs) : Order(logs, logStart)[i].id = received - Len(logs) + i
  BY ListType DEF LogInv
<1>4. /\ entries \in Seq(Entry) /\ Len(entries) = n
      /\ \A i \in 1..n : entries[i].id = received + i /\ entries[i].text = texts[i]
  <2>1. \A i \in 1..n : [id |-> received + i, text |-> texts[i]] \in Entry
    BY <1>2, <1>3 DEF Entry
  <2> QED  BY <1>2, <2>1
<1>5. maintain \in BOOLEAN /\ search = SearchOf(logs, maintain)
  <2>1. CASE maintain
    <3>1. search = TextsOf(logs)
      BY <1>3, <2>1, WithSearchIs
    <3> HIDE DEF search
    <3> QED  BY <2>1, <3>1 DEF SearchOf
  <2>2. CASE ~maintain
    <3>1. ~(Len(logSearch) > 0)
      BY <2>2
    <3>2. logSearch = <<>>
      <4>1. ASSUME logSearch = TextsOf(logs) PROVE logSearch = <<>>
        <5>1. TextsOf(logs) \in Seq(Texts)
          BY <1>3, TextsAre
        <5>2. Len(TextsOf(logs)) = 0
          BY <3>1, <4>1, <5>1
        <5> QED  BY <4>1, <5>1, <5>2, EmptySeq
      <4> QED  BY <1>3, <4>1
    <3> QED  BY <2>2, <3>2 DEF SearchOf
  <2> QED  BY <2>1, <2>2
<1>6. IsState(r0, maintain)
  <2> HIDE DEF search, maintain
  <2>1. r0.logs = logs /\ r0.start = logStart
          /\ r0 = [logs |-> r0.logs, start |-> r0.start, search |-> SearchOf(logs, maintain)]
    BY <1>5
  <2> QED  BY <1>3, <2>1 DEF IsState
<1>7. r0.logs = logs /\ r0.start = logStart
  OBVIOUS
<1> HIDE DEF entries, maintain, r0
<1>8. After(r, logs, logStart, maintain, entries, n)
  BY <1>4, <1>5, <1>6, <1>7, PutAllIs
<1> HIDE DEF r, search
<1>9. IsRing(r.logs, r.start) /\ r.search = SearchOf(r.logs, maintain)
  <2>1. IsState(r, maintain)
    BY <1>8 DEF After
  <2>2. r = [logs |-> r.logs, start |-> r.start, search |-> SearchOf(r.logs, maintain)]
          /\ IsRing(r.logs, r.start)
    BY <2>1, Zenon DEF IsState
  <2> QED  BY <2>2
<1>10. /\ final \in {<<>>, TextsOf(r.logs)}
       /\ filter # NoFilter => final = TextsOf(r.logs)
  <2>1. r.logs \in Seq(Entry)
    BY <1>9 DEF IsRing
  <2>2. r.search \in {<<>>, TextsOf(r.logs)}
    BY <1>9 DEF SearchOf
  <2>3. Log!WithSearch(r.search, r.logs) = TextsOf(r.logs)
    BY <2>1, <2>2, WithSearchIs
  <2> QED  BY <2>2, <2>3
<1> HIDE DEF final
<1>11. IsView(v) /\ CachedView(v, r.logs, r.start) /\ Log!Fresh(v, r.logs, r.start, filter)
  <2>1. IsView(Log!Invalid(logView)) /\ CachedView(Log!Invalid(logView), r.logs, r.start)
    BY <1>3, InvalidIs
  <2> QED  BY <1>9, <1>10, <2>1, EnsuredIs
<1> HIDE DEF v
<1>12. Log!ViewLen(v, r.logs, filter) = Len(List)'
  <2>1. Log!ViewLen(v, r.logs, filter) = Len(Matches(Order(r.logs, r.start), filter))
    BY <1>9, <1>11, ListedIs
  <2> QED  BY <1>1, <2>1 DEF List
<1>13. added = Cardinality(Hits(entries, filter))
  <2>1. {i \in 1..Len(texts) : filter = NoFilter \/ texts[i] = filter} = Hits(entries, filter)
    BY <1>2, <1>4 DEF Hits
  <2> QED  BY <2>1
<1> HIDE DEF added
<1>14. Batch(entries)
  <2>1. logOffset' = Log!Clamp(logOffset + (IF logPaused \/ logOffset > 0
                                 THEN Cardinality(Hits(entries, filter)) ELSE 0),
                               0, Log!AtLeast0(Len(List)' - capacity))
    BY <1>1, <1>12, <1>13, Zenon DEF Log!Bounded, Log!Shift
  <2>2. /\ Len(r.logs) = IF Len(logs) + n < Maximum THEN Len(logs) + n ELSE Maximum
        /\ \A i \in 1..Len(r.logs) :
             Order(r.logs, r.start)[i] =
               (Order(logs, logStart) \o entries)[i + (Len(logs) + n - Len(r.logs))]
    BY <1>8 DEF After
  <2>3. Order(logs, logStart)' = Order(r.logs, r.start) /\ Len(logs)' = Len(r.logs)
    BY <1>1
  <2> QED  BY <1>1, <1>2, <1>4, <2>1, <2>2, <2>3 DEF Batch
<1>15. \A i \in 1..Len(logs)' :
         Order(logs, logStart)'[i].id = received' - Len(logs)' + i
  <2>1. PICK L \in Nat, K \in Nat : L = Len(logs) /\ K = Len(logs)'
    BY <1>1, <1>3, <1>9 DEF IsRing
  <2>2. /\ Order(logs, logStart) \in Seq(Entry) /\ Len(Order(logs, logStart)) = L
        /\ K = IF L + n < Maximum THEN L + n ELSE Maximum
        /\ \A i \in 1..K : Order(logs, logStart)'[i] =
             (Order(logs, logStart) \o entries)[i + (L + n - K)]
    BY <1>3, <1>4, <1>14, <2>1, OrderIs DEF Batch
  <2>3. \A j \in 1..L + n :
          (Order(logs, logStart) \o entries)[j].id = received - L + j
    <3>1. \A j \in 1..L + n : (Order(logs, logStart) \o entries)[j] =
            IF j <= L THEN Order(logs, logStart)[j] ELSE entries[j - L]
      BY <1>4, <2>1, <2>2, ConcatProperties
    <3> SUFFICES ASSUME NEW j \in 1..L + n
                 PROVE  (Order(logs, logStart) \o entries)[j].id = received - L + j
      OBVIOUS
    <3>2. CASE j <= L
      <4>1. Order(logs, logStart)[j].id = received - L + j
        BY <1>3, <2>1, <3>2
      <4> QED  BY <3>1, <3>2, <4>1
    <3>3. CASE ~(j <= L)
      <4>1. j - L \in 1..n
        BY <1>2, <2>1, <3>3
      <4>2. entries[j - L].id = received + (j - L) /\ received + (j - L) = received - L + j
        BY <1>3, <1>4, <2>1, <4>1
      <4> QED  BY <3>1, <3>3, <4>2
    <3> QED  BY <3>2, <3>3
  <2> SUFFICES ASSUME NEW i \in 1..K
               PROVE  Order(logs, logStart)'[i].id = received' - K + i
    BY <2>1
  <2>4. Maximum \in Nat /\ L <= Maximum /\ K <= L + n
    BY <1>2, <1>3, <2>1, <2>2, PagesAssumption DEF IsRing
  <2>5. PICK j \in 1..L + n : j = i + (L + n - K)
    <3>1. PICK d \in Nat : d = L + n - K
      BY <1>2, <2>1, <2>4
    <3>2. i + d \in 1..L + n
      BY <1>2, <2>1, <3>1
    <3> QED  BY <3>1, <3>2
  <2>6. Order(logs, logStart)'[i].id = received - L + j
    BY <2>2, <2>3, <2>5
  <2> QED  BY <1>1, <1>2, <1>3, <2>5, <2>6
<1>16. OnList(logOffset, List)'
  <2>1. List' \in Seq(Entry)
    <3>1. Order(r.logs, r.start) \in Seq(Entry)
      BY <1>9, OrderIs
    <3>2. Matches(Order(r.logs, r.start), filter) \in Seq(Entry)
      BY <3>1, MatchesAre
    <3> QED  BY <1>1, <3>2 DEF List
  <2>2. PICK o \in Int : o = logOffset + (IF logPaused \/ logOffset > 0
                                          THEN Cardinality(Hits(entries, filter)) ELSE 0)
    <3>1. Cardinality(Hits(entries, filter)) \in 0..Len(entries)
      BY <1>4, MatchesAre
    <3> QED  BY <1>2, <1>3, <1>4, <3>1
  <2>3. logOffset' = Log!Clamp(o, 0, Log!AtLeast0(Len(List') - capacity))
    BY <1>14, <2>2 DEF Batch
  <2>4. OnList(logOffset', List')
    BY <1>3, <2>1, <2>3, ClampedOnList
  <2> QED  BY <2>4
<1>17. LogInv'
  <2>1. /\ IsRing(logs, logStart)' /\ logSearch' \in {<<>>, TextsOf(logs')}
        /\ IsView(logView') /\ CachedView(logView', logs', logStart')
        /\ Log!Fresh(logView, logs, logStart, filter)'
    BY <1>1, <1>9, <1>10, <1>11
  <2>2. /\ filter' \in Texts \cup {NoFilter} /\ logsShown' \in BOOLEAN
        /\ capacity' \in Heights /\ logsShown' /\ received' \in Nat
    BY <1>1, <1>2, <1>3
  <2> QED  BY <1>15, <1>16, <2>1, <2>2 DEF LogInv
<1> QED  BY <1>14, <1>17

(* Another filter, on the page or on the way to or from it.                *)
LEMMA LogFilterStep ==
  ASSUME LogInv, NEW f \in Texts \cup {NoFilter}, Log!ApplyFilter(f),
         logsShown' = logsShown \/ (f = NoFilter /\ logsShown' = ~logsShown)
  PROVE  LogInv' /\ UNCHANGED <<logs, logStart, received>>
<1> DEFINE after == IF f = NoFilter THEN <<>> ELSE logSearch
           search == IF logsShown /\ f # NoFilter THEN Log!WithSearch(after, logs) ELSE after
           v == Log!Ensured(Log!Invalid(logView), logs, logStart, search, f)
<1>1. /\ filter' = f /\ logSearch' = search
      /\ IF logsShown THEN logView' = v /\ logOffset' = 0
         ELSE logView' = Log!Invalid(logView) /\ UNCHANGED logOffset
      /\ UNCHANGED <<logs, logStart, received, capacity>>
  BY Zenon DEF Log!ApplyFilter, Log!SearchAfter, NoFilter
<1>2. /\ IsRing(logs, logStart) /\ logs \in Seq(Entry) /\ logSearch \in {<<>>, TextsOf(logs)}
      /\ IsView(logView) /\ capacity \in Heights /\ received \in Nat /\ logsShown \in BOOLEAN
      /\ \A n \in 1..Len(logs) : Order(logs, logStart)[n].id = received - Len(logs) + n
      /\ ~logsShown => logOffset = 0
  BY ListType DEF LogInv
<1>3. search \in {<<>>, TextsOf(logs)} /\ (logsShown /\ f # NoFilter => search = TextsOf(logs))
  <2>1. after \in {<<>>, TextsOf(logs)}
    BY <1>2
  <2> HIDE DEF after
  <2> QED  BY <1>2, <2>1, WithSearchIs
<1> HIDE DEF search
<1>4. /\ IsView(Log!Invalid(logView)) /\ CachedView(Log!Invalid(logView), logs, logStart)
      /\ logsShown => IsView(v) /\ CachedView(v, logs, logStart)
                      /\ Log!Fresh(v, logs, logStart, f)
  <2>1. IsView(Log!Invalid(logView)) /\ CachedView(Log!Invalid(logView), logs, logStart)
    BY <1>2, InvalidIs
  <2> QED  BY <1>2, <1>3, <2>1, EnsuredIs
<1> HIDE DEF v
<1>5. logOffset' = 0
  BY <1>1, <1>2
<1>6. OnList(logOffset, List)'
  BY <1>5 DEF OnList
<1>7. IsView(logView)' /\ CachedView(logView, logs, logStart)'
        /\ (logsShown => Log!Fresh(logView, logs, logStart, filter)')
  <2>1. CASE logsShown
    BY <1>1, <1>4, <2>1
  <2>2. CASE ~logsShown
    BY <1>1, <1>4, <2>2
  <2> QED  BY <2>1, <2>2
<1>8. logsShown' \in BOOLEAN
        /\ (logsShown' => filter' = NoFilter \/ Log!Fresh(logView, logs, logStart, filter)')
  <2>1. CASE logsShown' = logsShown
    BY <1>2, <1>7, <2>1
  <2>2. CASE f = NoFilter /\ logsShown' = ~logsShown
    BY <1>1, <2>2
  <2> QED  BY <2>1, <2>2
<1> QED  BY <1>1, <1>2, <1>3, <1>5, <1>6, <1>7, <1>8 DEF LogInv

(* Scrolling and pausing.                                                  *)
LEMMA LogWindowStep ==
  ASSUME LogInv,
         UNCHANGED <<logs, logStart, logSearch, received, logView, filter, logsShown>>,
         capacity' \in Heights, logOffset' = 0 \/ OnList(logOffset', List),
         logsShown \/ logOffset' = logOffset
  PROVE  LogInv'
<1>1. List' = List
  BY DEF List
<1>2. OnList(logOffset, List)'
  BY <1>1 DEF OnList
<1> QED  BY <1>2 DEF LogInv

LEMMA LogStep ==
  ASSUME LogInv, [Log!Next]_(Log!vars)
  PROVE  /\ LogInv'
         /\ \/ \E entries : Batch(entries)
            \/ UNCHANGED <<logs, logStart, received>>
<1>0. /\ capacity \in Heights /\ List \in Seq(Entry) /\ capacity \in Nat \ {0}
      /\ logOffset \in Nat /\ OnList(logOffset, List) /\ logsShown \in BOOLEAN
  BY ListType DEF LogInv
<1>1. ASSUME NEW n \in 1..BatchMax, NEW texts \in [1..n -> Texts], Log!AppendLogBatch(texts)
      PROVE  LogInv' /\ \E entries : Batch(entries)
  BY <1>1, BatchStep
<1>2. ASSUME logsShown PROVE Log!ViewLen(logView, logs, filter) = Len(List)
  BY <1>2, ListedIs DEF LogInv, List
<1>3. ASSUME NEW delta \in {1, -1, capacity, -capacity}, Log!ScrollLogs(delta)
      PROVE  LogInv' /\ UNCHANGED <<logs, logStart, received>>
  <2>1. /\ logsShown /\ UNCHANGED <<logs, logStart, logSearch, received, logView, filter,
                                    logsShown, capacity>>
        /\ logOffset' = Log!Clamp(logOffset + delta, 0,
                                  Log!AtLeast0(Log!ViewLen(logView, logs, filter) - capacity))
    BY <1>3, Zenon DEF Log!ScrollLogs, Log!ring
  <2>2. PICK o \in Int : o = logOffset + delta
    BY <1>0
  <2>3. OnList(logOffset', List)
    BY <1>0, <1>2, <2>1, <2>2, ClampedOnList
  <2> QED  BY <1>0, <2>1, <2>3, LogWindowStep
<1>4. ASSUME NEW end \in BOOLEAN, Log!MoveToBoundary(end)
      PROVE  LogInv' /\ UNCHANGED <<logs, logStart, received>>
  <2>1. /\ logsShown /\ UNCHANGED <<logs, logStart, logSearch, received, logView, filter,
                                    logsShown, capacity>>
        /\ logOffset' = IF end THEN 0
                        ELSE Log!AtLeast0(Log!ViewLen(logView, logs, filter) - capacity)
    BY <1>4, Zenon DEF Log!MoveToBoundary, Log!ring
  <2>2. OnList(Log!AtLeast0(Len(List) - capacity), List)
    <3>1. PICK n \in Nat : n = Len(List)
      BY <1>0
    <3> QED  BY <1>0, <3>1 DEF OnList, Log!AtLeast0
  <2>3. logOffset' = 0 \/ OnList(logOffset', List)
    BY <1>2, <2>1, <2>2
  <2> QED  BY <1>0, <2>1, <2>3, LogWindowStep
<1>5. ASSUME Log!TogglePause
      PROVE  LogInv' /\ UNCHANGED <<logs, logStart, received>>
  <2>1. /\ logsShown /\ UNCHANGED <<logs, logStart, logSearch, received, logView, filter,
                                    logsShown, capacity>>
        /\ logOffset' = 0 \/ logOffset' = logOffset
    BY <1>5, Zenon DEF Log!TogglePause, Log!ring
  <2> QED  BY <1>0, <2>1, LogWindowStep
<1>6. ASSUME NEW h \in Heights, Log!Resize(h)
      PROVE  LogInv' /\ UNCHANGED <<logs, logStart, received>>
  <2>1. /\ UNCHANGED <<logs, logStart, logSearch, received, logView, filter, logsShown>>
        /\ capacity' = h /\ logOffset' = logOffset
    BY <1>6, Zenon DEF Log!Resize, Log!ring, Log!window
  <2> QED  BY <1>0, <2>1, LogWindowStep
<1>7. ASSUME NEW f \in Texts \cup {NoFilter}, Log!Filter(f)
      PROVE  LogInv' /\ UNCHANGED <<logs, logStart, received>>
  <2>1. Log!ApplyFilter(f) /\ logsShown' = logsShown
    BY <1>7 DEF Log!Filter
  <2> QED  BY <2>1, LogFilterStep
<1>8. ASSUME Log!SwitchPage PROVE LogInv' /\ UNCHANGED <<logs, logStart, received>>
  <2>1. Log!ApplyFilter(NoFilter) /\ logsShown' = ~logsShown
    BY <1>8, Zenon DEF Log!SwitchPage, NoFilter
  <2> QED  BY <2>1, LogFilterStep
<1>9. ASSUME UNCHANGED Log!vars PROVE LogInv' /\ UNCHANGED <<logs, logStart, received>>
  <2>1. /\ UNCHANGED <<logs, logStart, logSearch, received, logView, filter, logsShown>>
        /\ capacity' = capacity /\ logOffset' = logOffset
    BY <1>9, Zenon DEF Log!vars, Log!ring, Log!window
  <2> QED  BY <1>0, <2>1, LogWindowStep
<1>10. ASSUME Log!Next
       PROVE  LogInv' /\ (\/ \E entries : Batch(entries)
                          \/ UNCHANGED <<logs, logStart, received>>)
  <2>1. \/ \E n \in 1..BatchMax : \E texts \in [1..n -> Texts] : Log!AppendLogBatch(texts)
        \/ \E delta \in {1, -1, capacity, -capacity} : Log!ScrollLogs(delta)
        \/ \E end \in BOOLEAN : Log!MoveToBoundary(end)
        \/ Log!TogglePause \/ Log!SwitchPage
        \/ \E f \in Texts \cup {NoFilter} : Log!Filter(f)
        \/ \E h \in Heights : Log!Resize(h)
    BY <1>10, Zenon DEF Log!Next, NoFilter
  <2> QED  BY <1>1, <1>3, <1>4, <1>5, <1>6, <1>7, <1>8, <2>1
<1> QED  BY <1>9, <1>10

(* What the page shows.                                                    *)
LEMMA LogShows == LogInv => Log!NeverBlank
<1> SUFFICES ASSUME LogInv PROVE Log!NeverBlank
  OBVIOUS
<1>1. List \in Seq(Entry) /\ logOffset \in Nat /\ OnList(logOffset, List)
  BY ListType DEF LogInv
<1>2. List # <<>> => Len(List) > 0
  BY <1>1, EmptySeq
<1>3. List # <<>> => logOffset < Len(List)
  BY <1>1, <1>2 DEF OnList
<1> QED  BY <1>3, ShownIs DEF Log!NeverBlank

-----------------------------------------------------------------------------
(* The ring keeps the latest entries: after a batch it holds b, the last   *)
(* ones of those it held, a, and of the batch.                             *)
LEMMA LatestIs ==
  ASSUME NEW a \in Seq(Entry), NEW entries \in Seq(Entry), NEW b \in Seq(Entry),
         Len(a) <= Maximum, Len(entries) > 0,
         Len(b) = IF Len(a) + Len(entries) < Maximum THEN Len(a) + Len(entries) ELSE Maximum,
         \A i \in 1..Len(b) : b[i] = (a \o entries)[i + (Len(a) + Len(entries) - Len(b))]
  PROVE  b = Log!Listing!Latest(a \o entries)
<1>1. PICK L \in Nat, n \in Nat, K \in Nat : L = Len(a) /\ n = Len(entries) /\ K = Len(b)
  OBVIOUS
<1>2. PICK M \in Nat : M = Maximum /\ M > 0
  BY PagesAssumption
<1>3. PICK N \in Nat : N = L + n
  OBVIOUS
<1>4. L <= M /\ n > 0 /\ K = IF N < M THEN N ELSE M
  BY <1>1, <1>2, <1>3
<1> DEFINE q == a \o entries
           from == IF N > M THEN N - M + 1 ELSE 1
           r == SubSeq(q, from, N)
<1>5. \A i \in 1..K : b[i] = q[i + (N - K)]
  <2>1. \A i \in 1..K : b[i] = q[i + (Len(a) + Len(entries) - Len(b))]
    BY <1>1
  <2>2. Len(a) + Len(entries) - Len(b) = N - K
    BY <1>1, <1>3
  <2> HIDE DEF q
  <2> QED  BY <2>1, <2>2, Zenon
<1>6. q \in Seq(Entry) /\ Len(q) = N
  BY <1>1, <1>3, ConcatProperties
<1>7. from \in 1..N /\ from = N - K + 1 /\ N - from + 1 = K
  BY <1>2, <1>3, <1>4
<1> HIDE DEF q
<1>8. Log!Listing!Latest(q) = r
  <2>1. Len(q) = N /\ Maximum = M
    BY <1>2, <1>6
  <2> HIDE DEF from
  <2>2. from = IF Len(q) > Maximum THEN Len(q) - Maximum + 1 ELSE 1
    BY <2>1 DEF from
  <2> QED  BY <2>1, <2>2, Zenon DEF Log!Listing!Latest
<1> HIDE DEF from
<1>9. /\ r \in Seq(Entry) /\ Len(r) = K
      /\ \A i \in 1..K : r[i] = q[from + i - 1]
  <2>1. \A i \in from..N : q[i] \in Entry
    BY <1>6, <1>7, ElementOfSeq
  <2>2. /\ r \in Seq(Entry) /\ Len(r) = (IF from <= N THEN N - from + 1 ELSE 0)
        /\ \A i \in 1..N - from + 1 : r[i] = q[from + i - 1]
    BY <1>7, <2>1, SubSeqProperties
  <2> HIDE DEF r
  <2> QED  BY <1>7, <2>2
<1> HIDE DEF r
<1>10. \A i \in 1..K : b[i] = r[i]
  <2> SUFFICES ASSUME NEW i \in 1..K PROVE b[i] = r[i]
    OBVIOUS
  <2>1. from + i - 1 = i + (N - K)
    BY <1>7
  <2> QED  BY <1>5, <1>9, <2>1
<1>11. b = r
  BY <1>1, <1>9, <1>10, SeqEqual
<1> QED  BY <1>8, <1>11 DEF q

LEMMA EntryTexts ==
  ASSUME NEW l \in Seq(Entry), NEW i \in 1..Len(l)
  PROVE  l[i].text \in Texts
<1>1. l[i] \in Entry
  BY ElementOfSeq
<1> QED  BY <1>1 DEF Entry

(* The entries of a batch are its texts, numbered as they arrive.          *)
LEMMA EntriesAre ==
  ASSUME NEW entries \in Seq(Entry),
         \A i \in 1..Len(entries) : entries[i].id = received + i
  PROVE  entries = Log!Listing!Entries([i \in 1..Len(entries) |-> entries[i].text])
<1>1. PICK n \in Nat : n = Len(entries)
  OBVIOUS
<1> DEFINE new == Log!Listing!Entries([i \in 1..Len(entries) |-> entries[i].text])
<1>2. new = [i \in 1..n |-> [id |-> received + i, text |-> entries[i].text]]
  BY <1>1 DEF Log!Listing!Entries
<1>3. \A i \in 1..n : entries[i] = [id |-> received + i, text |-> entries[i].text]
  <2> SUFFICES ASSUME NEW i \in 1..n
               PROVE  entries[i] = [id |-> received + i, text |-> entries[i].text]
    OBVIOUS
  <2>1. entries[i] \in Entry /\ entries[i].id = received + i
    BY <1>1, ElementOfSeq
  <2> HIDE DEF new
  <2>2. PICK e \in Entry : e = entries[i]
    BY <2>1
  <2>3. e = [id |-> e.id, text |-> e.text]
    BY DEF Entry
  <2> QED  BY <2>1, <2>2, <2>3
<1>4. entries = [i \in 1..n |-> entries[i]]
  BY <1>1
<1> QED  BY <1>2, <1>3, <1>4

(* Every step of the page is one of the promise, or leaves it as it is.    *)
LEMMA TailStep ==
  ASSUME LogInv, LogInv',
         (\E entries : Batch(entries)) \/ UNCHANGED <<logs, logStart, received>>
  PROVE  [Log!Listing!Next]_<<received, Order(logs, logStart), filter, Log!Shown>>
<1> DEFINE a == Order(logs, logStart)
           b == Order(logs, logStart)'
<1>1. Log!Shown = Matches(a, filter) /\ Log!Shown' = Matches(b, filter')
  <2>1. Log!Shown = List
    BY ShownIs
  <2>2. Log!Shown' = List'
    BY ShownIs
  <2> QED  BY <2>1, <2>2 DEF List
<1>2. filter' \in Texts \cup {NoFilter}
  BY DEF LogInv
<1>3. CASE UNCHANGED <<logs, logStart, received>>
  <2>1. Log!Listing!Filter
    BY <1>2, <1>3, Zenon DEF Log!Listing!Filter, NoFilter, Order
  <2>2. Log!Shown' = Log!Listing!Matching(b, filter')
    BY <1>1 DEF Matches
  <2>3. Log!Listing!Next
    BY <2>1, <2>2, Zenon DEF Log!Listing!Next, Order
  <2> QED  BY <2>3
<1>4. ASSUME NEW entries, Batch(entries) PROVE Log!Listing!Next
  <2>1. IsRing(logs, logStart) /\ IsRing(logs', logStart') /\ received \in Nat
    BY DEF LogInv
  <2>2. /\ a \in Seq(Entry) /\ Len(a) = Len(logs) /\ Len(a) <= Maximum
        /\ b \in Seq(Entry) /\ Len(b) = Len(logs')
    BY <2>1, OrderIs DEF IsRing
  <2>3. b = Log!Listing!Latest(a \o entries)
    <3> HIDE DEF a, b
    <3>1. /\ entries \in Seq(Entry) /\ Len(entries) > 0
          /\ Len(b) = IF Len(a) + Len(entries) < Maximum THEN Len(a) + Len(entries)
                      ELSE Maximum
          /\ \A i \in 1..Len(b) : b[i] = (a \o entries)[i + (Len(a) + Len(entries) - Len(b))]
      BY <1>4, <2>2 DEF Batch, a, b
    <3> QED  BY <2>2, <3>1, LatestIs
  <2> DEFINE texts == [i \in 1..Len(entries) |-> entries[i].text]
  <2>4. received' > received /\ texts \in [1..received' - received -> Texts]
    <3>1. PICK n \in Nat : n = Len(entries) /\ n > 0
      BY <1>4 DEF Batch
    <3>2. received' - received = n /\ received' > received
      BY <1>4, <2>1, <3>1 DEF Batch
    <3>3. \A i \in 1..n : entries[i].text \in Texts
      <4>1. entries \in Seq(Entry)
        BY <1>4 DEF Batch
      <4> QED  BY <3>1, <4>1, EntryTexts
    <3> QED  BY <3>1, <3>2, <3>3
  <2>5. entries = Log!Listing!Entries(texts)
    BY <1>4, EntriesAre DEF Batch
  <2>6. Log!Listing!Receive
    <3> HIDE DEF texts
    <3>1. filter' = filter
      BY <1>4 DEF Batch
    <3> QED  BY <2>3, <2>4, <2>5, <3>1, Zenon DEF Log!Listing!Receive, Order
  <2>7. Log!Shown' = Log!Listing!Matching(b, filter')
    BY <1>1 DEF Matches
  <2> QED  BY <2>6, <2>7, Zenon DEF Log!Listing!Next, Order
<1> QED  BY <1>3, <1>4

(* Where a match of the entries held, a, is found after a batch: as many   *)
(* places to the front as matches have left the ring.                      *)
Slides(a, b, f, added, drop) ==
  /\ drop \in Nat
  /\ Len(Matches(b, f)) = Len(Matches(a, f)) + added - drop
  /\ \A k \in 1..Len(Matches(a, f)) :
       /\ k > drop => /\ k - drop \in 1..Len(Matches(b, f))
                      /\ Matches(b, f)[k - drop].id = Matches(a, f)[k].id
       /\ k <= drop => \A i \in 1..Len(Matches(b, f)) :
                         Matches(a, f)[k].id < Matches(b, f)[i].id

(* b is what is left of a and the entries of a batch: C[i] is the entry    *)
(* c + i that arrived.                                                     *)
Leaves(a, entries, b, L, n, K, d, N, c) ==
  /\ L = Len(a) /\ n = Len(entries) /\ K = Len(b) /\ L + n = N /\ d + K = N
  /\ \A i \in 1..K : b[i] = (a \o entries)[i + d]
  /\ \A i \in 1..L : a[i].id = c + i
  /\ \A i \in 1..n : entries[i].id = c + L + i

LEMMA BatchSlides ==
  ASSUME NEW a \in Seq(Entry), NEW entries \in Seq(Entry), NEW b \in Seq(Entry), NEW f,
         NEW L \in Nat, NEW n \in Nat, NEW K \in Nat, NEW d \in Nat, NEW N \in Nat,
         NEW c \in Int, Leaves(a, entries, b, L, n, K, d, N, c)
  PROVE  \E drop : Slides(a, b, f, Cardinality(Hits(entries, f)), drop)
<1> DEFINE C == a \o entries
           H == Hits(C, f)
           A == Matches(a, f)
           Z == Matches(b, f)
<1>0. /\ L = Len(a) /\ n = Len(entries) /\ K = Len(b) /\ L + n = N /\ d + K = N
      /\ \A i \in 1..K : b[i] = C[i + d]
      /\ \A i \in 1..L : a[i].id = c + i
      /\ \A i \in 1..n : entries[i].id = c + L + i
  BY DEF Leaves
<1>1. /\ C \in Seq(Entry) /\ Len(C) = N
      /\ \A i \in 1..L : C[i] = a[i]
      /\ \A i \in 1..n : C[L + i] = entries[i]
  <2>1. /\ C \in Seq(Entry) /\ Len(C) = N
        /\ \A i \in 1..N : C[i] = IF i <= L THEN a[i] ELSE entries[i - L]
    BY <1>0, ConcatProperties
  <2> HIDE DEF C
  <2>2. \A i \in 1..L : i \in 1..N /\ i <= L
    BY <1>0
  <2>3. \A i \in 1..n : L + i \in 1..N /\ ~(L + i <= L) /\ L + i - L = i
    BY <1>0
  <2>5. \A i \in 1..n : C[L + i] = entries[i]
    <3> SUFFICES ASSUME NEW i \in 1..n PROVE C[L + i] = entries[i]
      OBVIOUS
    <3>1. PICK x \in 1..N : x = L + i
      BY <2>3
    <3>2. C[x] = entries[x - L] /\ x - L = i
      BY <2>1, <3>1
    <3> QED  BY <3>1, <3>2
  <2> QED  BY <2>1, <2>2, <2>5
<1>2. \A i \in 1..K : b[i] = C[i + d]
  BY <1>0
<1> HIDE DEF C
<1>3. \A i \in 1..N : C[i].id = c + i
  <2> SUFFICES ASSUME NEW i \in 1..N PROVE C[i].id = c + i
    OBVIOUS
  <2>1. CASE i <= L
    <3>1. i \in 1..L
      BY <2>1
    <3> QED  BY <1>0, <1>1, <3>1
  <2>2. CASE ~(i <= L)
    <3>1. PICK x \in 1..n : i = L + x
      <4>1. i - L \in 1..n /\ i = L + (i - L)
        BY <1>0, <2>2
      <4> QED  BY <4>1
    <3>2. C[i] = entries[x]
      BY <1>1, <3>1
    <3>3. entries[x].id = c + L + x
      BY <1>0
    <3> QED  BY <3>1, <3>2, <3>3
  <2> QED  BY <2>1, <2>2
<1>4. H \in SUBSET (1..N)
  BY <1>1, Zenon DEF Hits
<1>5. \A i \in 1..N : i \in H <=> f = NoFilter \/ C[i].text = f
  BY <1>1 DEF Hits
<1> HIDE DEF H
<1>6. Hits(a, f) = Part(H, 0, L)
  <2>1. \A j \in 1..L : j + 0 = j /\ j \in 1..N
    BY <1>0
  <2>2. \A j \in 1..L : j + 0 \in H <=> f = NoFilter \/ a[j].text = f
    BY <1>1, <1>5, <2>1
  <2> QED  BY <1>0, <2>2 DEF Hits, Part
<1>7. Hits(entries, f) = Part(H, L, n)
  <2>1. \A j \in 1..n : j + L = L + j /\ j + L \in 1..N
    BY <1>0
  <2>2. \A j \in 1..n : j + L \in H <=> f = NoFilter \/ entries[j].text = f
    BY <1>1, <1>5, <2>1
  <2> QED  BY <1>0, <2>2 DEF Hits, Part
<1>8. Hits(b, f) = Part(H, d, K)
  <2>1. \A j \in 1..K : j + d \in 1..N
    BY <1>0
  <2>2. \A j \in 1..K : j + d \in H <=> f = NoFilter \/ b[j].text = f
    BY <1>2, <1>5, <2>1
  <2> QED  BY <1>0, <2>2 DEF Hits, Part
<1>9. \A x \in Nat : Before(H, x) \in Nat /\ (x <= 1 => Before(H, x) = 0)
                       /\ \A y \in Nat : x <= y => Before(H, x) <= Before(H, y)
  <2> SUFFICES ASSUME NEW x \in Nat
               PROVE  Before(H, x) \in Nat /\ (x <= 1 => Before(H, x) = 0)
                        /\ \A y \in Nat : x <= y => Before(H, x) <= Before(H, y)
    OBVIOUS
  <2>1. /\ Before(H, x) \in 0..Cardinality(H) /\ (x <= 1 => Before(H, x) = 0)
        /\ \A y \in Nat : x <= y => Before(H, x) <= Before(H, y)
    BY <1>4, BeforeCounts
  <2>2. Cardinality(H) \in Nat
    BY <1>4, IndicesFinite
  <2> QED  BY <2>1, <2>2
<1>10. /\ \A x \in 1..L + 1 : Before(Hits(a, f), x) = Before(H, x)
       /\ Cardinality(Hits(a, f)) = Before(H, L + 1)
  <2>1. /\ \A x \in 1..L + 1 : Before(Part(H, 0, L), x) = Before(H, x)
        /\ Cardinality(Part(H, 0, L)) = Before(H, L + 1)
    BY <1>4, FirstPartCounts, Zenon
  <2> QED  BY <1>6, <2>1, Zenon
<1>11. Cardinality(Hits(entries, f)) = Before(H, N + 1) - Before(H, L + 1)
  <2>1. Cardinality(Part(H, L, n)) = Before(H, L + n + 1) - Before(H, L + 1)
    BY <1>4, PartCounts, Zenon
  <2> QED  BY <1>0, <1>7, <2>1
<1>12. /\ \A x \in 1..K + 1 : Before(Hits(b, f), x) = Before(H, x + d) - Before(H, d + 1)
       /\ Cardinality(Hits(b, f)) = Before(H, N + 1) - Before(H, d + 1)
  <2>1. /\ \A x \in 1..K + 1 : Before(Part(H, d, K), x) = Before(H, x + d) - Before(H, d + 1)
        /\ Cardinality(Part(H, d, K)) = Before(H, d + K + 1) - Before(H, d + 1)
    BY <1>4, PartCounts
  <2> QED  BY <1>0, <1>8, <2>1
<1>13. PICK drop \in Nat, all \in Nat, held \in Nat :
         drop = Before(H, d + 1) /\ all = Before(H, N + 1) /\ held = Before(H, L + 1) /\ held <= all
  <2>1. d + 1 \in Nat /\ N + 1 \in Nat /\ L + 1 \in Nat /\ L + 1 <= N + 1
    BY <1>0
  <2>2. /\ Before(H, d + 1) \in Nat /\ Before(H, N + 1) \in Nat
        /\ Before(H, L + 1) \in Nat /\ Before(H, L + 1) <= Before(H, N + 1)
    BY <1>9, <2>1, Zenon
  <2> QED  BY <2>2
<1>14. PICK rest \in Nat : rest = all - drop /\ rest = Cardinality(Hits(b, f))
  <2>1. d + 1 \in Nat /\ N + 1 \in Nat /\ d + 1 <= N + 1
    BY <1>0
  <2>2. Before(H, d + 1) <= Before(H, N + 1)
    BY <1>9, <2>1, Zenon
  <2>3. all - drop \in Nat
    <3>1. drop <= all
      BY <1>13, <2>2, Zenon
    <3> QED  BY <3>1
  <2>4. Cardinality(Hits(b, f)) = all - drop
    BY <1>12, <1>13
  <2> QED  BY <2>3, <2>4
<1>15. Cardinality(Hits(b, f)) = rest
  BY <1>14, Zenon
<1>16. rest = all - drop /\ held <= all
  BY <1>13, <1>14, Zenon
<1>17. Cardinality(Hits(entries, f)) = all - held
  BY <1>11, <1>13, Zenon
<1>18. /\ Len(A) = held /\ Hits(a, f) \in SUBSET (1..L)
       /\ \A k \in 1..held : A[k] = a[InOrder(Hits(a, f))[k]]
  <2>1. /\ Hits(a, f) \in SUBSET (1..Len(a)) /\ Len(A) = Cardinality(Hits(a, f))
        /\ \A k \in 1..Cardinality(Hits(a, f)) : A[k] = a[InOrder(Hits(a, f))[k]]
    BY MatchesAre
  <2>2. Cardinality(Hits(a, f)) = held /\ Len(a) = L
    BY <1>0, <1>10, <1>13
  <2> HIDE DEF A
  <2> QED  BY <2>1, <2>2
<1>19. /\ Len(Z) = rest /\ Hits(b, f) \in SUBSET (1..K)
       /\ \A k \in 1..rest : Z[k] = b[InOrder(Hits(b, f))[k]]
  <2>1. /\ Hits(b, f) \in SUBSET (1..Len(b)) /\ Len(Z) = Cardinality(Hits(b, f))
        /\ \A k \in 1..Cardinality(Hits(b, f)) : Z[k] = b[InOrder(Hits(b, f))[k]]
    BY MatchesAre
  <2>2. Cardinality(Hits(b, f)) = rest /\ Len(b) = K
    BY <1>0, <1>14
  <2> HIDE DEF Z
  <2> QED  BY <2>1, <2>2
<1> HIDE DEF A, Z
<1>20. ASSUME NEW k \in 1..held
       PROVE  \E p \in 1..L : p \in H /\ Before(H, p) = k - 1 /\ A[k].id = c + p
  <2>1. PICK p \in Hits(a, f) : p = InOrder(Hits(a, f))[k] /\ Before(Hits(a, f), p) = k - 1
    <3>1. k \in 1..Cardinality(Hits(a, f)) /\ Hits(a, f) \in SUBSET (1..L)
      BY <1>10, <1>13, <1>18, Zenon
    <3>2. /\ InOrder(Hits(a, f))[k] \in Hits(a, f)
          /\ Before(Hits(a, f), InOrder(Hits(a, f))[k]) = k - 1
      BY <3>1, InOrderLists, Zenon
    <3> QED  BY <3>2, Zenon
  <2>2. p \in 1..L /\ p \in 1..L + 1 /\ p \in 1..N
    <3>1. p \in 1..L
      BY <1>18
    <3> QED  BY <1>0, <3>1
  <2>3. p \in H
    BY <1>6, <2>1, <2>2 DEF Part
  <2>4. A[k].id = c + p
    <3>1. A[k] = a[p]
      BY <1>18, <2>1, Zenon
    <3>2. C[p] = a[p]
      BY <1>1, <2>2, Zenon
    <3>3. C[p].id = c + p
      BY <1>3, <2>2, Zenon
    <3> QED  BY <3>1, <3>2, <3>3
  <2> QED  BY <1>10, <2>1, <2>2, <2>3, <2>4
<1>21. ASSUME NEW k \in 1..rest
       PROVE  \E p \in H : p > d /\ Before(H, p) = k - 1 + drop /\ Z[k].id = c + p
  <2>1. PICK q \in Hits(b, f) : q = InOrder(Hits(b, f))[k] /\ Before(Hits(b, f), q) = k - 1
    <3>1. k \in 1..Cardinality(Hits(b, f)) /\ Hits(b, f) \in SUBSET (1..K)
      BY <1>15, <1>19
    <3>2. /\ InOrder(Hits(b, f))[k] \in Hits(b, f)
          /\ Before(Hits(b, f), InOrder(Hits(b, f))[k]) = k - 1
      BY <3>1, InOrderLists, Zenon
    <3> QED  BY <3>2
  <2>2. q \in 1..K /\ q \in 1..K + 1 /\ q + d \in 1..N /\ q + d > d
    <3>1. q \in 1..K
      BY <1>19
    <3> QED  BY <1>0, <3>1
  <2>3. q + d \in H
    BY <1>8, <2>1, <2>2 DEF Part
  <2>4. Z[k].id = c + (q + d)
    BY <1>2, <1>3, <1>19, <2>1, <2>2
  <2>5. Before(H, q + d) = k - 1 + drop
    <3>1. q + d \in Nat
      BY <2>2
    <3>3. Before(H, q + d) \in Nat
      BY <1>9, <3>1, Zenon
    <3>4. PICK w \in Nat : w = Before(H, q + d)
      BY <3>3
    <3>2. Before(Hits(b, f), q) = Before(H, q + d) - Before(H, d + 1)
      BY <1>12, <2>2, Zenon
    <3>5. k - 1 = w - drop
      BY <1>13, <2>1, <3>2, <3>4, Zenon
    <3>6. w = k - 1 + drop
      BY <3>5
    <3> QED  BY <3>4, <3>6
  <2> QED  BY <2>2, <2>3, <2>4, <2>5
<1>22. ASSUME NEW k \in 1..held, k > drop
       PROVE  k - drop \in 1..rest /\ Z[k - drop].id = A[k].id
  <2>1. k - drop \in 1..rest /\ k - drop - 1 + drop = k - 1
    BY <1>22, <1>16
  <2>2. PICK p \in 1..L : p \in H /\ Before(H, p) = k - 1 /\ A[k].id = c + p
    BY <1>20
  <2>3. PICK q \in H : Before(H, q) = k - 1 /\ Z[k - drop].id = c + q
    BY <1>21, <2>1
  <2>4. p = q
    <3>1. \A i, j \in H : i < j => Before(H, i) < Before(H, j)
      BY <1>4, BeforeGrows
    <3>2. q \in 1..N
      BY <1>4
    <3>3. ~(p < q) /\ ~(q < p)
      <4>1. p < q => Before(H, p) < Before(H, q)
        BY <2>2, <2>3, <3>1, Zenon
      <4>2. q < p => Before(H, q) < Before(H, p)
        BY <2>2, <2>3, <3>1, Zenon
      <4>3. ~(k - 1 < k - 1)
        OBVIOUS
      <4> QED  BY <2>2, <2>3, <4>1, <4>2, <4>3, Zenon
    <3> QED  BY <3>2, <3>3
  <2> QED  BY <2>1, <2>2, <2>3, <2>4
<1>23. ASSUME NEW k \in 1..held, k <= drop, NEW i \in 1..rest
       PROVE  A[k].id < Z[i].id
  <2>2. PICK p \in 1..L : p \in H /\ Before(H, p) = k - 1 /\ A[k].id = c + p
    BY <1>20
  <2>3. PICK q \in H : q > d /\ Z[i].id = c + q
    BY <1>21
  <2>4. p <= d
    <3>1. p \in Nat /\ d + 1 \in Nat
      OBVIOUS
    <3>2. d + 1 <= p => drop <= k - 1
      <4>1. d + 1 <= p => Before(H, d + 1) <= Before(H, p)
        BY <1>9, <3>1, Zenon
      <4> QED  BY <1>13, <2>2, <4>1, Zenon
    <3>3. ~(drop <= k - 1)
      BY <1>23
    <3> QED  BY <3>1, <3>2, <3>3
  <2>5. q \in 1..N
    BY <1>4
  <2>6. c + p < c + q
    BY <2>3, <2>4, <2>5
  <2> QED  BY <2>2, <2>3, <2>6, Zenon
<1>24. Len(Z) = Len(A) + Cardinality(Hits(entries, f)) - drop
  BY <1>18, <1>19, <1>16, <1>17
<1>25. Slides(a, b, f, Cardinality(Hits(entries, f)), drop)
  BY <1>18, <1>19, <1>22, <1>23, <1>24 DEF Slides, A, Z
<1> QED  BY <1>25

(* The first row of the window that ends o rows before the end of a list:  *)
(* a batch moves it to the front by the matches that left the ring.        *)
FirstRow(len, o, h) == Log!AtLeast0(Log!Clamp(len - o, 0, len) - h) + 1
Moves(A, Z, added, drop, o, h) ==
  /\ FirstRow(A, o, h) \in 1..A
  /\ FirstRow(Z, Log!Clamp(o + added, 0, Log!AtLeast0(Z - h)), h) =
       IF FirstRow(A, o, h) > drop THEN FirstRow(A, o, h) - drop ELSE 1

LEMMA FirstRowSlides ==
  ASSUME NEW A \in Nat, NEW Z \in Nat, NEW added \in Nat, NEW drop \in Nat,
         NEW o \in Nat, NEW h \in Nat \ {0}, Z = A + added - drop, o < A
  PROVE  Moves(A, Z, added, drop, o, h)
<1>1. /\ FirstRow(A, o, h) = (IF A - o - h < 0 THEN 0 ELSE A - o - h) + 1
      /\ FirstRow(A, o, h) \in 1..A
  BY DEF FirstRow, Log!Clamp, Log!AtLeast0
<1>2. CASE Z - h < 0
  <2>1. FirstRow(Z, Log!Clamp(o + added, 0, Log!AtLeast0(Z - h)), h) = 1
    BY <1>2 DEF FirstRow, Log!Clamp, Log!AtLeast0
  <2> QED  BY <1>1, <1>2, <2>1 DEF Moves
<1>3. CASE ~(Z - h < 0) /\ o + added <= Z - h
  <2>1. Log!Clamp(o + added, 0, Log!AtLeast0(Z - h)) = o + added
    BY <1>3 DEF Log!Clamp, Log!AtLeast0
  <2>2. FirstRow(Z, o + added, h) = Z - o - added - h + 1
    BY <1>3 DEF FirstRow, Log!Clamp, Log!AtLeast0
  <2> QED  BY <1>1, <1>3, <2>1, <2>2 DEF Moves
<1>4. CASE ~(Z - h < 0) /\ o + added > Z - h
  <2>1. Log!Clamp(o + added, 0, Log!AtLeast0(Z - h)) = Z - h
    BY <1>4 DEF Log!Clamp, Log!AtLeast0
  <2>2. FirstRow(Z, Z - h, h) = 1
    BY <1>4 DEF FirstRow, Log!Clamp, Log!AtLeast0
  <2> QED  BY <1>1, <1>4, <2>1, <2>2 DEF Moves
<1> QED  BY <1>2, <1>3, <1>4

(* A paused or scrolled page stands still.                                 *)
LEMMA StandsStep ==
  ASSUME LogInv, LogInv',
         (\E entries : Batch(entries)) \/ UNCHANGED <<logs, logStart, received>>,
         received' # received, logPaused \/ logOffset > 0, Log!Shown # <<>>
  PROVE  \/ Log!Top' = 1
            /\ \A i \in 1..Len(Log!Shown') : Log!Shown[Log!Top].id < Log!Shown'[i].id
         \/ Log!Shown[Log!Top].id = Log!Shown'[Log!Top'].id
<1> DEFINE a == Order(logs, logStart)
           b == Order(logs, logStart)'
           A == Matches(a, filter)
           Z == Matches(b, filter)
<1>1. PICK entries : Batch(entries)
  OBVIOUS
<1>2. /\ entries \in Seq(Entry) /\ Len(entries) > 0 /\ UNCHANGED <<filter, capacity>>
      /\ \A i \in 1..Len(entries) : entries[i].id = received + i
      /\ logOffset' = Log!Clamp(logOffset + Cardinality(Hits(entries, filter)), 0,
                                Log!AtLeast0(Len(List)' - capacity))
  BY <1>1 DEF Batch
<1>3. Log!Shown = A /\ Log!Shown' = Z /\ List' = Z
  <2>1. Log!Shown = List
    BY ShownIs
  <2>2. Log!Shown' = List'
    BY ShownIs
  <2> QED  BY <1>2, <2>1, <2>2 DEF List
<1>4. /\ a \in Seq(Entry) /\ Len(a) = Len(logs)
      /\ b \in Seq(Entry) /\ Len(b) = Len(logs')
      /\ Len(logs) \in Nat /\ Len(logs') \in Nat /\ Len(logs) <= Maximum
  <2>1. IsRing(logs, logStart) /\ IsRing(logs', logStart')
    BY DEF LogInv
  <2> QED  BY <2>1, OrderIs DEF IsRing
<1>5. PICK L \in Nat, n \in Nat, K \in Nat : L = Len(a) /\ n = Len(entries) /\ K = Len(b)
  BY <1>2, <1>4
<1>6. PICK N \in Nat : N = L + n
  OBVIOUS
<1>7. PICK d \in Nat : d + K = N
  <2>1. K = IF L + n < Maximum THEN L + n ELSE Maximum
    BY <1>1, <1>4, <1>5 DEF Batch
  <2>2. PICK M \in Nat : M = Maximum
    BY PagesAssumption
  <2>3. N - K \in Nat /\ N - K + K = N
    BY <1>6, <2>1, <2>2
  <2> QED  BY <2>3
<1>8. PICK c \in Int : c = received - L
  BY ListType
<1>9. Leaves(a, entries, b, L, n, K, d, N, c)
  <2>1. \A i \in 1..K : b[i] = (a \o entries)[i + d]
    <3>1. \A i \in 1..Len(logs)' :
            b[i] = (a \o entries)[i + (Len(logs) + Len(entries) - Len(logs)')]
      BY <1>1 DEF Batch
    <3> HIDE DEF a, b
    <3>2. Len(logs)' = K /\ Len(logs) = L
      BY <1>4, <1>5
    <3>3. L + n - K = d
      BY <1>6, <1>7
    <3>4. Len(logs) + Len(entries) - Len(logs)' = d
      BY <1>5, <3>2, <3>3
    <3> QED  BY <3>1, <3>2, <3>4
  <2>2. \A i \in 1..L : a[i].id = c + i
    BY <1>4, <1>5, <1>8 DEF LogInv
  <2>3. \A i \in 1..n : entries[i].id = c + L + i
    BY <1>2, <1>5, <1>8, ListType
  <2> QED  BY <1>5, <1>6, <1>7, <2>1, <2>2, <2>3 DEF Leaves
<1> HIDE DEF a, b
<1>10. PICK drop : Slides(a, b, filter, Cardinality(Hits(entries, filter)), drop)
  BY <1>2, <1>4, <1>9, BatchSlides
<1>11. /\ A \in Seq(Entry) /\ Z \in Seq(Entry) /\ Cardinality(Hits(entries, filter)) \in Nat
  BY <1>2, <1>4, MatchesAre
<1>12. /\ drop \in Nat /\ Len(Z) = Len(A) + Cardinality(Hits(entries, filter)) - drop
       /\ \A k \in 1..Len(A) :
            /\ k > drop => Z[k - drop].id = A[k].id
            /\ k <= drop => \A i \in 1..Len(Z) : A[k].id < Z[i].id
  BY <1>10 DEF Slides
<1> HIDE DEF A, Z
<1>13. Len(A) \in Nat /\ Len(Z) \in Nat /\ Len(A) > 0
  BY <1>3, <1>11, EmptySeq
<1>14. PICK top \in 1..Len(A) :
         /\ Log!Top = top
         /\ Log!Top' = IF top > drop THEN top - drop ELSE 1
  <2>1. capacity \in Nat \ {0} /\ logOffset \in Nat /\ logOffset < Len(A)
    <3>1. OnList(logOffset, A)
      BY <1>3, ShownIs DEF LogInv
    <3> QED  BY <1>13, <3>1, ListType DEF OnList
  <2>2. Log!Top = FirstRow(Len(A), logOffset, capacity)
    BY <1>3, Zenon DEF Log!Top, Log!End, FirstRow
  <2>3. Log!Top' = FirstRow(Len(Z), logOffset', capacity)
    BY <1>2, <1>3, Zenon DEF Log!Top, Log!End, FirstRow
  <2>4. logOffset' = Log!Clamp(logOffset + Cardinality(Hits(entries, filter)), 0,
                               Log!AtLeast0(Len(Z) - capacity))
    BY <1>2, <1>3
  <2>5. PICK x \in Nat, z \in Nat, added \in Nat :
          x = Len(A) /\ z = Len(Z) /\ added = Cardinality(Hits(entries, filter))
    BY <1>11, <1>13
  <2>6. drop \in Nat /\ z = x + added - drop /\ logOffset < x
    BY <1>12, <2>1, <2>5
  <2>7. /\ FirstRow(x, logOffset, capacity) \in 1..x
        /\ FirstRow(z, Log!Clamp(logOffset + added, 0, Log!AtLeast0(z - capacity)), capacity) =
             IF FirstRow(x, logOffset, capacity) > drop
             THEN FirstRow(x, logOffset, capacity) - drop ELSE 1
    <3>1. Moves(x, z, added, drop, logOffset, capacity)
      BY <2>1, <2>6, FirstRowSlides, Zenon
    <3> QED  BY <3>1 DEF Moves
  <2>8. Log!Top = FirstRow(x, logOffset, capacity) /\ Log!Top \in 1..Len(A)
    BY <2>2, <2>5, <2>7
  <2>9. Log!Top' = FirstRow(z, Log!Clamp(logOffset + added, 0, Log!AtLeast0(z - capacity)),
                            capacity)
    BY <2>3, <2>4, <2>5
  <2>10. Log!Top' = IF Log!Top > drop THEN Log!Top - drop ELSE 1
    BY <2>7, <2>8, <2>9
  <2> QED  BY <2>8, <2>10
<1>15. CASE top > drop
  BY <1>3, <1>12, <1>14, <1>15
<1>16. CASE ~(top > drop)
  <2>1. top <= drop
    BY <1>12, <1>13, <1>16
  <2> QED  BY <1>3, <1>12, <1>14, <1>16, <2>1
<1> QED  BY <1>15, <1>16

-----------------------------------------------------------------------------
(* The pages together: each has an invariant of its own, and a step of one *)
(* leaves the others as they are.                                          *)
PagesInv == ListInv /\ Named /\ Good(m) /\ LogInv
pagesVars == <<page, vars, proxyVars, logVars>>

LEMMA OnePageSteps ==
  [PagesNext]_pagesVars => [Next]_vars /\ [Proxy!Next]_(Proxy!vars) /\ [Log!Next]_(Log!vars)
<1>1. UNCHANGED proxyVars => UNCHANGED Proxy!vars
  BY DEF proxyVars, Proxy!vars
<1>2. UNCHANGED logVars => UNCHANGED Log!vars
  BY DEF logVars, Log!vars, Log!ring, Log!window
<1> QED  BY <1>1, <1>2 DEF PagesNext, pagesVars

LEMMA PagesInitially == PagesInit => PagesInv
<1>1. ASSUME confirm = NoItem PROVE Named
  BY <1>1 DEF Named
<1>2. Init => confirm = NoItem
  BY DEF Init
<1> QED  BY <1>1, <1>2, InitialList, InitialProxies, InitialLogs DEF PagesInit, PagesInv

LEMMA PagesStep ==
  ASSUME PagesInv, [PagesNext]_pagesVars
  PROVE  PagesInv'
<1>1. ListInv' /\ Named'
  BY OnePageSteps, ListStep, NamedStep DEF PagesInv
<1>2. Good(m')
  BY OnePageSteps, ProxyStep DEF PagesInv
<1>3. LogInv'
  BY OnePageSteps, LogStep DEF PagesInv
<1> QED  BY <1>1, <1>2, <1>3 DEF PagesInv

LEMMA PagesInvariant == PagesSpec => []PagesInv
<1>1. PagesInv /\ [PagesNext]_pagesVars => PagesInv'
  BY PagesStep
<1> QED  BY <1>1, PagesInitially, PTL DEF PagesSpec, pagesVars

(* The cursor of a page is on the screen and its rows are those of the     *)
(* last listing, whatever arrived before the page was drawn                *)
(* (model.go:2796, :2595); a log page never scrolls off the end of its     *)
(* list (render.go:664).                                                   *)
THEOREM PagesInView == PagesSpec => []InView
<1>1. PagesInv => InView
  <2> SUFFICES ASSUME PagesInv PROVE InView
    OBVIOUS
  <2>1. OnScreen /\ Now.rows = Matching(items, hits)
    BY NowIsTrue DEF PagesInv, ListInv, OnScreen, Shows
  <2>2. Proxy!OnScreen /\ Proxy!ViewTrue
    BY GoodShows DEF PagesInv
  <2>3. Log!NeverBlank
    BY LogShows DEF PagesInv
  <2> QED  BY <2>1, <2>2, <2>3 DEF InView
<1> QED  BY <1>1, PagesInvariant, PTL

(* What is closed or removed is what the dialog named when it was opened   *)
(* (model.go:2149).                                                        *)
THEOREM TargetIsNamed == PagesSpec => ConfirmedTarget
<1>1. PagesInv /\ [PagesNext]_pagesVars
        => [running' \notin {running, NoItem} => running' = asked /\ running' = confirm]_vars
  BY OnePageSteps, NamedStep DEF PagesInv
<1> QED  BY <1>1, PagesInvariant, PTL DEF PagesSpec, pagesVars, ConfirmedTarget

(* The cursor of a list and of the proxies page stays on its item when a   *)
(* listing arrives or the filter changes, as long as the item is listed;   *)
(* a paused or scrolled log page stands still when entries arrive          *)
(* (model.go:2443, :2511, :2225).                                          *)
THEOREM SelectionsAreKept == PagesSpec => Kept
<1>1. PagesInv /\ [PagesNext]_pagesVars
        => [(items' # items \/ hits' # hits) /\ At(Now', items', Key) # {} => Key' = Key]_vars
  BY OnePageSteps, ListStep DEF PagesInv
<1>2. PagesInv /\ [PagesNext]_pagesVars
        => [proxiesShown /\ proxiesShown' /\ (m'.groups # m.groups \/ m'.filter # m.filter)
              => ProxyStays]_(Proxy!vars)
  BY OnePageSteps, ProxyStep DEF PagesInv
<1>3. PagesInv /\ [PagesNext]_pagesVars
        => [received' # received /\ (logPaused \/ logOffset > 0) /\ Log!Shown # <<>>
              => LET was == Log!Shown[Log!Top].id
                     now == Log!Shown'
                 IN  \/ Log!Top' = 1 /\ \A i \in 1..Len(now) : was < now[i].id
                     \/ was = now[Log!Top'].id]_(Log!vars)
  BY OnePageSteps, LogStep, StandsStep DEF PagesInv
<1>4. PagesSpec => SelectionKept
  BY <1>1, PagesInvariant, PTL DEF PagesSpec, pagesVars, SelectionKept
<1>5. PagesSpec => Proxy!SelectionKept
  BY <1>2, PagesInvariant, PTL DEF PagesSpec, pagesVars, Proxy!SelectionKept, ProxyStays
<1>6. PagesSpec => Log!StandsStill
  BY <1>3, PagesInvariant, PTL DEF PagesSpec, pagesVars, Log!StandsStill
<1> QED  BY <1>4, <1>5, <1>6 DEF Kept

(* The log page implements its promise: at any time it lists the latest    *)
(* entries of all that arrived, in order, that match the filter            *)
(* (model.go:2188).                                                        *)
THEOREM LogsAreTheLatest == PagesSpec => TailSpec
<1>1. PagesInit => Log!Listing!Init
  <2> SUFFICES ASSUME PagesInit PROVE Log!Listing!Init
    OBVIOUS
  <2>1. LogInv /\ logs = <<>> /\ filter = NoFilter
    BY InitialLogs DEF PagesInit
  <2>2. Order(logs, logStart) \in Seq(Entry) /\ Order(logs, logStart) = <<>>
    <3>1. Order(logs, logStart) \in Seq(Entry) /\ Len(Order(logs, logStart)) = Len(logs)
      BY <2>1, OrderIs DEF LogInv
    <3> QED  BY <2>1, <3>1, EmptySeq
  <2>3. Log!Shown = <<>>
    <3>1. Log!Shown = Matches(Order(logs, logStart), NoFilter)
      BY <2>1, ShownIs DEF List
    <3> QED  BY <2>2, <3>1, AllMatch
  <2>4. received = 0
    BY DEF PagesInit, Log!Init
  <2> QED  BY <2>1, <2>2, <2>3, <2>4, Zenon DEF Log!Listing!Init, NoFilter, Order
<1>2. PagesInv /\ PagesInv' /\ [PagesNext]_pagesVars
        => [Log!Listing!Next]_<<received, Order(logs, logStart), filter, Log!Shown>>
  BY OnePageSteps, LogStep, TailStep DEF PagesInv
<1> QED
  BY <1>1, <1>2, PagesInvariant, PTL
  DEF PagesSpec, pagesVars, TailSpec, Log!TailSpec, Log!Listing!Spec, Order
=============================================================================
