--------------------------- MODULE IncidentPagesProofs ---------------------------
(***************************************************************************)
(* Proofs about IncidentPages: reading the list page by page shows no      *)
(* incident twice (PostgreSQL) and misses none (either database), for any  *)
(* set of rows, any limit and any writers.                                 *)
(*                                                                         *)
(* The query is its ORDER BY and LIMIT.  A row's rank, the number of rows  *)
(* ahead of it, stands for both: ranks grow along the order and leave no   *)
(* gap, so a page is the rows of the ranks below the limit, its cursor the *)
(* row of the last of these ranks, and the rest comes after the cursor.    *)
(***************************************************************************)
EXTENDS IncidentPages, FiniteSetTheorems, WellFoundedInduction, TLAPS

Stored == {r \in Row : Exists(r)}

RowsSound ==
  /\ clock \in Nat \ {0}
  /\ created \in [Row -> Nat]
  /\ IsFiniteSet(Stored)

AheadOf(r) == {q \in Selected : Ahead(q, r)}

Rank(r) == Cardinality(AheadOf(r))

--------------------------------------------------------------------------------
(* The order of the list *)

\* The list's order is a strict total order of the stored rows: ids differ where
\* times agree.
LEMMA ListOrder ==
  ASSUME RowsSound
  PROVE  /\ \A a \in Row : ~Ahead(a, a)
         /\ \A a, b \in Row : a = b \/ Ahead(a, b) \/ Ahead(b, a)
         /\ \A a, b, c \in Row : Ahead(a, b) /\ Ahead(b, c) => Ahead(a, c)
BY RowAssumption DEF RowsSound, Ahead

\* A set of natural numbers has a least one.
LEMMA LeastNatural ==
  ASSUME NEW S \in SUBSET Nat, S # {}
  PROVE  \E n \in S : \A m \in S : n <= m
<1>1. PICK n \in S : \A m \in S : ~(<<m, n>> \in OpToRel(<, Nat))
  BY NatLessThanWellFounded, WFMin
<1>2. \A m \in S : ~(m < n)
  BY <1>1, ZenonT(30) DEF OpToRel
<1> QED BY <1>2

\* Ranks are numbers, and grow along the list.
LEMMA RanksGrow ==
  ASSUME RowsSound
  PROVE  /\ \A r \in Selected : IsFiniteSet(AheadOf(r)) /\ Rank(r) \in Nat
         /\ \A a, b \in Selected : Ahead(a, b) => Rank(a) < Rank(b)
<1>1. ASSUME NEW r \in Selected PROVE IsFiniteSet(AheadOf(r)) /\ Rank(r) \in Nat
  <2>1. AheadOf(r) \in SUBSET Stored
    BY DEF AheadOf, Selected, Stored
  <2> QED BY <2>1, FS_Subset, FS_CardinalityType DEF RowsSound, Rank
<1>2. ASSUME NEW a \in Selected, NEW b \in Selected, Ahead(a, b) PROVE Rank(a) < Rank(b)
  <2>1. AheadOf(a) \in SUBSET AheadOf(b) /\ a \in AheadOf(b) /\ a \notin AheadOf(a)
    BY <1>2, ListOrder DEF AheadOf, Selected
  <2>2. Rank(a) <= Rank(b) /\ Rank(a) # Rank(b)
    BY <1>1, <2>1, FS_Subset DEF Rank
  <2> QED BY <1>1, <2>2
<1> QED BY <1>1, <1>2

\* No rank is left out below one that is taken.
LEMMA RanksDense ==
  ASSUME RowsSound, NEW n \in Nat, NEW r \in Selected, n <= Rank(r)
  PROVE  \E s \in Selected : Rank(s) = n
<1> DEFINE Late == {s \in Selected : n <= Rank(s)}
           Ranks == {Rank(s) : s \in Late}
<1>1. Ranks \in SUBSET Nat /\ Ranks # {}
  BY RanksGrow
<1>2. PICK s \in Late : \A q \in Late : Rank(s) <= Rank(q)
  <2>1. PICK m \in Ranks : \A k \in Ranks : m <= k
    BY <1>1, LeastNatural
  <2> QED BY <2>1
<1>3. \A q \in AheadOf(s) : q \in Selected /\ Rank(q) \in 0..(n - 1)
  <2> SUFFICES ASSUME NEW q \in AheadOf(s) PROVE q \in Selected /\ Rank(q) \in 0..(n - 1)
    OBVIOUS
  <2>1. q \in Selected /\ Rank(q) \in Nat /\ Rank(s) \in Nat /\ Rank(q) < Rank(s)
    BY RanksGrow DEF AheadOf
  <2>2. ~(n <= Rank(q))
    BY <1>2, <2>1
  <2> QED BY <2>1, <2>2
<1>4. \A p, q \in AheadOf(s) : Rank(p) = Rank(q) => p = q
  <2>1. \A p, q \in AheadOf(s) : p \in Row /\ q \in Row /\ p \in Selected /\ q \in Selected
    BY DEF AheadOf, Selected
  <2> QED BY <2>1, RanksGrow, ListOrder
<1> DEFINE f == [q \in AheadOf(s) |-> Rank(q)]
<1>5. f \in Injection(AheadOf(s), 0..(n - 1))
  BY <1>3, <1>4 DEF Injection, IsInjective
<1>6. IsFiniteSet(0..(n - 1)) /\ Cardinality(0..(n - 1)) = n
  BY FS_Interval
<1>7. Rank(s) <= n
  BY <1>5, <1>6, FS_Injection DEF Rank
<1> QED BY <1>2, <1>7, RanksGrow

--------------------------------------------------------------------------------
(* One page *)

\* When more is to come, the cursor is the last row of the page, and whatever
\* was selected and is not on the page comes after it.
LEMMA CursorDivides ==
  ASSUME RowsSound, More
  PROVE  /\ CursorOf \in Items
         /\ \A q \in Items : q = CursorOf \/ Ahead(q, CursorOf)
         /\ \A r \in Selected \ Items : Ahead(CursorOf, r)
<1>0. Items \subseteq Selected /\ Selected \subseteq Row
  BY DEF Items, FirstRows, Selected
<1>1. \A r \in Selected : r \in Items <=> Rank(r) < Limit
  BY DEF Items, FirstRows, Rank, AheadOf
<1>2. PICK r \in Selected : Limit <= Rank(r)
  <2>1. PICK r : r \in Selected /\ (r \in FirstRows(Limit + 1) <=> r \notin Items)
    BY DEF More, Items, FirstRows
  <2>2. r \in Items => r \in FirstRows(Limit + 1)
    BY <2>1, RanksGrow, LimitAssumption DEF Items, FirstRows, Rank, AheadOf
  <2> QED BY <1>1, <2>1, <2>2, RanksGrow, LimitAssumption
<1>3. PICK s \in Selected : Rank(s) = Limit - 1
  BY <1>2, RanksDense, RanksGrow, LimitAssumption
<1>4. s \in Items /\ \A q \in Items : q = s \/ Ahead(q, s)
  BY <1>0, <1>1, <1>3, RanksGrow, ListOrder, LimitAssumption
<1>5. CursorOf \in Items /\ \A q \in Items : q = CursorOf \/ Ahead(q, CursorOf)
  BY <1>4 DEF CursorOf, LastOf
<1>6. ASSUME NEW q \in Selected \ Items PROVE Ahead(CursorOf, q)
  <2>1. ~(Rank(q) < Rank(CursorOf))
    BY <1>0, <1>1, <1>5, RanksGrow, LimitAssumption
  <2> QED BY <1>0, <1>5, <1>6, <2>1, RanksGrow, ListOrder
<1> QED BY <1>5, <1>6

\* The last page shows all that is selected.
LEMMA LastPageComplete ==
  ASSUME RowsSound, ~More
  PROVE  Items = Selected
<1> SUFFICES ASSUME NEW r \in Selected, r \notin Items PROVE FALSE
  BY DEF Items, FirstRows
<1>1. \A q \in Selected : q \in Items <=> Rank(q) < Limit
  BY DEF Items, FirstRows, Rank, AheadOf
<1>2. Limit <= Rank(r)
  BY <1>1, RanksGrow, LimitAssumption
<1>3. PICK s \in Selected : Rank(s) = Limit
  BY <1>2, RanksDense, LimitAssumption
<1>4. s \in FirstRows(Limit + 1) /\ s \notin Items
  BY <1>1, <1>3, LimitAssumption DEF FirstRows, Rank, AheadOf
<1> QED BY <1>4 DEF More

--------------------------------------------------------------------------------
(* Reading on *)

\* The cursor names a stored row.
CursorSound ==
  /\ cursor.id \in Row /\ Exists(cursor.id)
  /\ cursor = [created |-> created[cursor.id], id |-> cursor.id]

\* Where a reading stands: what was shown lies at the cursor or ahead of it,
\* what has yet to be shown lies behind it.
ReadingSound ==
  /\ RowsSound
  /\ request \in {"first", "next", "done"}
  /\ shown \in [Row -> 0..2]
  /\ steady \subseteq Row /\ \A r \in steady : Exists(r) /\ r \in matching
  /\ request = "first" => \A r \in Row : shown[r] = 0
  /\ request = "next" =>
       /\ CursorSound
       /\ \A r \in steady : shown[r] >= 1 \/ Before(r, cursor)
  /\ request = "done" => \A r \in steady : shown[r] >= 1

\* On PostgreSQL the cursor never goes back.
CursorGoesOn ==
  Backend = "postgresql" =>
    /\ \A r \in Row : shown[r] <= 1
    /\ request = "next" =>
         \A r \in Row : shown[r] >= 1 => Exists(r) /\ (r = cursor.id \/ Ahead(r, cursor.id))

\* A row is behind the cursor's row exactly if it is selected by the cursor; on
\* SQLite at least if.
LEMMA BeforeIsBehind ==
  ASSUME RowsSound, NEW c \in Row, NEW r \in Row
  PROVE  /\ Ahead(c, r) => Before(r, [created |-> created[c], id |-> c])
         /\ Backend = "postgresql" =>
              (Before(r, [created |-> created[c], id |-> c]) => Ahead(c, r))
BY RowAssumption, BackendAssumption DEF RowsSound, Ahead, Before, Earlier, SameTime

\* A writer neither moves a stored row nor brings one back into the reading.
LEMMA WritersHarmless ==
  ASSUME ReadingSound, CursorGoesOn,
         NEW r \in Row, Insert(r) \/ ChangeState(r)
  PROVE  ReadingSound' /\ CursorGoesOn'
<1>1. RowsSound'
  <2>1. CASE Insert(r)
    <3>1. created' \in [Row -> Nat]
      BY <2>1 DEF Insert, Stamps, ReadingSound, RowsSound
    <3>2. Stored' = Stored \cup {r}
      BY <2>1 DEF Insert, Stamps, ReadingSound, RowsSound, Stored, Exists
    <3> QED BY <2>1, <3>1, <3>2, FS_AddElement DEF Insert, ReadingSound, RowsSound
  <2>2. CASE ChangeState(r)
    BY <2>2 DEF ChangeState, ReadingSound, RowsSound, Stored, Exists
  <2> QED BY <2>1, <2>2
<1>2. /\ UNCHANGED <<request, cursor, shown>>
      /\ steady' \subseteq steady
      /\ \A q \in Row : Exists(q) => created'[q] = created[q]
      /\ \A q \in steady' : q \in matching'
  BY DEF Insert, ChangeState, ReadingSound, RowsSound, Exists
<1>3. ReadingSound'
  <2>1. \A q \in steady' : Exists(q)'
    BY <1>2 DEF ReadingSound, Exists
  <2>2. request = "next" => CursorSound'
    BY <1>2 DEF ReadingSound, CursorSound, Exists
  <2>3. request = "next" => \A q \in steady' : Before(q, cursor) => Before(q, cursor)'
    BY <1>2 DEF ReadingSound, Before, Earlier, SameTime
  <2> QED BY <1>1, <1>2, <2>1, <2>2, <2>3 DEF ReadingSound
<1>4. CursorGoesOn'
  BY <1>2 DEF CursorGoesOn, ReadingSound, CursorSound, Ahead, Exists
<1> QED BY <1>3, <1>4

\* On PostgreSQL no row is selected once it was shown.
LEMMA FirstShown ==
  ASSUME ReadingSound, CursorGoesOn, list_incidents, Backend = "postgresql"
  PROVE  \A r \in Selected : shown[r] = 0
<1> SUFFICES ASSUME NEW r \in Selected, shown[r] # 0 PROVE FALSE
  OBVIOUS
<1>1. r \in Row /\ shown[r] >= 1 /\ request = "next" /\ RowsSound
  BY DEF ReadingSound, Selected, list_incidents
<1>2. Before(r, cursor) /\ CursorSound /\ (r = cursor.id \/ Ahead(r, cursor.id))
  BY <1>1 DEF Selected, ReadingSound, CursorGoesOn
<1>3. cursor.id \in Row /\ Ahead(cursor.id, r)
  BY <1>1, <1>2, BeforeIsBehind DEF CursorSound
<1> QED BY <1>1, <1>2, <1>3, ListOrder

\* A page shows what lies behind the cursor before it and takes the cursor on.
LEMMA PageGoesOn ==
  ASSUME ReadingSound, CursorGoesOn, list_incidents
  PROVE  ReadingSound' /\ CursorGoesOn'
<1>0. RowsSound /\ Items \subseteq Selected /\ Selected \subseteq Row
  BY DEF ReadingSound, Items, FirstRows, Selected
<1>1. RowsSound' /\ UNCHANGED <<created, matching>>
  BY DEF list_incidents, ReadingSound, RowsSound, Stored, Exists
<1>2. /\ shown' \in [Row -> 0..2]
      /\ \A r \in Row : shown'[r] >= shown[r]
      /\ \A r \in Items : shown'[r] >= 1
      /\ \A r \in Row : r \notin Items => shown'[r] = shown[r]
      /\ \A r \in Items : shown[r] = 0 => shown'[r] = 1
  BY <1>0 DEF list_incidents, ReadingSound
<1>3. /\ steady' \subseteq Row /\ \A r \in steady' : Exists(r) /\ r \in matching
      /\ \A r \in steady' : shown[r] >= 1 \/ r \in Selected
  BY DEF list_incidents, ReadingSound, Selected
<1>4. CASE More
  <2>1. /\ request' = "next" /\ cursor' = [created |-> created[CursorOf], id |-> CursorOf]
        /\ CursorOf \in Row /\ Exists(CursorOf)
    BY <1>0, <1>4, CursorDivides DEF list_incidents, Selected
  <2>2. CursorSound'
    BY <1>1, <2>1 DEF CursorSound, Exists
  <2>3. \A r \in steady' : shown'[r] >= 1 \/ Before(r, cursor')
    <3>1. \A r \in Selected \ Items : Before(r, cursor')
      BY <1>0, <1>4, <2>1, CursorDivides, BeforeIsBehind
    <3> QED BY <1>2, <1>3, <3>1 DEF ReadingSound
  <2>4. ReadingSound'
    BY <1>1, <1>2, <1>3, <2>1, <2>2, <2>3 DEF ReadingSound, Exists, Before
  <2>5. CursorGoesOn'
    <3> SUFFICES ASSUME Backend = "postgresql" PROVE CursorGoesOn'
      BY DEF CursorGoesOn
    <3>1. \A r \in Items : shown[r] = 0
      BY <1>0, FirstShown
    <3>2. \A r \in Items : r = cursor'.id \/ Ahead(r, cursor'.id)
      <4>1. cursor'.id = CursorOf
        BY <2>1
      <4> QED BY <1>0, <1>4, <4>1, CursorDivides
    <3>3. ASSUME NEW r \in Row, shown[r] >= 1
          PROVE  Exists(r) /\ (r = cursor'.id \/ Ahead(r, cursor'.id))
      <4>1. /\ request = "next" /\ cursor.id \in Row
            /\ Exists(r) /\ (r = cursor.id \/ Ahead(r, cursor.id))
        BY <3>3 DEF ReadingSound, CursorSound, CursorGoesOn, list_incidents
      <4>2. Ahead(cursor.id, cursor'.id)
        BY <1>0, <1>4, <2>1, <4>1, CursorDivides, BeforeIsBehind
           DEF Selected, ReadingSound, CursorSound
      <4> QED BY <1>0, <2>1, <4>1, <4>2, ListOrder
    <3>4. \A r \in Row : shown'[r] <= 1
      BY <1>2, <3>1 DEF CursorGoesOn
    <3>5. \A r \in Items : Exists(r)
      BY <1>0 DEF Selected
    <3> QED
      BY <1>1, <1>2, <3>2, <3>3, <3>4, <3>5 DEF CursorGoesOn, Exists, Ahead
  <2> QED BY <2>4, <2>5
<1>5. CASE ~More
  <2>1. request' = "done" /\ \A r \in steady' : shown'[r] >= 1
    BY <1>0, <1>2, <1>3, <1>5, LastPageComplete DEF list_incidents, ReadingSound
  <2>2. ReadingSound'
    BY <1>1, <1>2, <1>3, <2>1 DEF ReadingSound, Exists
  <2>3. CursorGoesOn'
    BY <1>0, <1>2, <2>1, FirstShown DEF CursorGoesOn
  <2> QED BY <2>2, <2>3
<1> QED BY <1>4, <1>5

--------------------------------------------------------------------------------
(* The theorems *)

\* A reading is sound in every reachable state, on either database.
THEOREM ReadingInvariant == Spec => [](ReadingSound /\ CursorGoesOn)
<1>1. Init => ReadingSound /\ CursorGoesOn
  <2> SUFFICES ASSUME Init PROVE ReadingSound /\ CursorGoesOn
    OBVIOUS
  <2>1. RowsSound
    <3>1. Stored = {}
      BY DEF Init, Stored, Exists
    <3> QED BY <3>1, FS_EmptySet DEF Init, RowsSound
  <2> QED BY <2>1 DEF Init, ReadingSound, CursorGoesOn
<1>2. ReadingSound /\ CursorGoesOn /\ [Next]_vars => (ReadingSound /\ CursorGoesOn)'
  <2> SUFFICES ASSUME ReadingSound, CursorGoesOn, [Next]_vars
               PROVE  ReadingSound' /\ CursorGoesOn'
    OBVIOUS
  <2>1. CASE Tick \/ StartOver \/ UNCHANGED vars
    <3>1. /\ UNCHANGED <<created, matching, cursor>> /\ clock' \in Nat \ {0}
          /\ steady' \subseteq steady
      BY <2>1 DEF Tick, StartOver, vars, ReadingSound, RowsSound
    <3>2. RowsSound'
      BY <3>1 DEF ReadingSound, RowsSound, Stored, Exists
    <3>3. ReadingSound'
      BY <2>1, <3>1, <3>2
         DEF Tick, StartOver, vars, ReadingSound, CursorSound, Exists, Before
    <3>4. CursorGoesOn'
      BY <2>1, <3>1 DEF Tick, StartOver, vars, CursorGoesOn, Exists, Ahead
    <3> QED BY <3>3, <3>4
  <2> QED BY <2>1, WritersHarmless, PageGoesOn DEF Next
<1> QED BY <1>1, <1>2, PTL DEF Spec

\* A reading that reached its last page missed no incident that stayed selected.
THEOREM NothingEverMissed == Spec => []NothingMissed
<1>1. ReadingSound => NothingMissed
  BY DEF ReadingSound, NothingMissed
<1> QED BY <1>1, ReadingInvariant, PTL

\* On PostgreSQL no incident is shown on two pages of one reading.
THEOREM AlwaysShownOnce ==
  ASSUME Backend = "postgresql"
  PROVE  Spec => []ShownOnce
<1>1. CursorGoesOn => ShownOnce
  BY DEF CursorGoesOn, ShownOnce
<1> QED BY <1>1, ReadingInvariant, PTL
================================================================================
