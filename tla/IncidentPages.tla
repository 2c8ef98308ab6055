----------------------------- MODULE IncidentPages -----------------------------
(***************************************************************************)
(* Reading the incident list page by page (list_incidents, aeh/service.py) *)
(* while incidents are received and change state.  Each request is one     *)
(* database read; only the cursor links a page to the next one.            *)
(*                                                                         *)
(* What a comparison of created_at does depends on the database.  The      *)
(* server default of PostgreSQL is a timestamp and compares exactly.       *)
(* SQLite's CURRENT_TIMESTAMP is text that ends at the second, and the     *)
(* cursor is bound as text with six fraction digits behind it: within one  *)
(* second the stored text is a proper prefix of the bound one, so it is    *)
(* always smaller and never equal.                                         *)
(*                                                                         *)
(* Row ids are numbers: only their order matters.  The cursor's HMAC and   *)
(* base64 are left out; isoformat and fromisoformat lose no digit, so the  *)
(* decoded cursor is the pair that was encoded.                            *)
(***************************************************************************)
EXTENDS Naturals, FiniteSets

CONSTANTS
  Row,       \* ids of incidents
  MaxTime,   \* how far the database clock runs
  Limit,     \* the request's limit
  Backend    \* "sqlite" or "postgresql"

ASSUME RowAssumption == Row \subseteq Nat
ASSUME LimitAssumption == Limit \in 1..100
ASSUME TimeAssumption == MaxTime \in Nat \ {0}
ASSUME BackendAssumption == Backend \in {"sqlite", "postgresql"}

VARIABLES
  clock,      \* the database's clock
  created,    \* incidents.created_at of each row; 0 when there is no row
  matching,   \* the rows the request's filters select
  request,    \* "first", "next" or "done": what the client sends next
  cursor,     \* the decoded cursor the client holds
  shown,      \* how often each row was shown since the first page; 2 is "again"
  steady      \* rows selected at the first page and ever since

vars == <<clock, created, matching, request, cursor, shown, steady>>

NoCursor == [created |-> 0, id |-> 0]

Exists(r) == created[r] # 0

Init ==
  /\ clock = 1
  /\ created = [r \in Row |-> 0]
  /\ matching = {}
  /\ request = "first"
  /\ cursor = NoCursor
  /\ shown = [r \in Row |-> 0]
  /\ steady = {}

--------------------------------------------------------------------------------
(* The writers *)

Tick ==
  /\ clock < MaxTime
  /\ clock' = clock + 1
  /\ UNCHANGED <<created, matching, request, cursor, shown, steady>>

\* The created_at an incident committed now may carry: the database's time when
\* its transaction (on SQLite, its INSERT) started.
Stamps == 1..clock

\* An incident is committed, matching the filters or not.
Insert(r) ==
  /\ ~Exists(r)
  /\ \E c \in Stamps : created' = [created EXCEPT ![r] = c]
  /\ matching' \in {matching, matching \cup {r}}
  /\ UNCHANGED <<clock, request, cursor, shown, steady>>

\* The incident's state changes into or out of the requested one.
ChangeState(r) ==
  /\ Exists(r)
  /\ matching' = IF r \in matching THEN matching \ {r} ELSE matching \cup {r}
  /\ steady' = steady \ {r}
  /\ UNCHANGED <<clock, created, request, cursor, shown>>

--------------------------------------------------------------------------------
(* list_rows *)

FaultyEarlier(a, b) == a <= b
Earlier(a, b) == IF Backend = "sqlite" THEN a <= b ELSE a < b
SameTime(a, b) == Backend # "sqlite" /\ a = b

FaultyBefore(r, c) == created[r] < c.created
FaultyAtOrBefore(r, c) == created[r] < c.created \/ (created[r] = c.created /\ r <= c.id)

\* The row condition a cursor adds.
Before(r, c) ==
  \/ Earlier(created[r], c.created)
  \/ SameTime(created[r], c.created) /\ r < c.id

\* ORDER BY created_at DESC, id DESC: a is listed ahead of b.
Ahead(a, b) ==
  \/ created[a] > created[b]
  \/ created[a] = created[b] /\ a > b

Selected ==
  {r \in Row : Exists(r) /\ r \in matching /\ (request = "next" => Before(r, cursor))}

\* The first n rows of the query's result.
FirstRows(n) == {r \in Selected : Cardinality({q \in Selected : Ahead(q, r)}) < n}

Items == FirstRows(Limit)
More == FirstRows(Limit + 1) # Items

LastOf(rows) == CHOOSE r \in rows : \A q \in rows : q = r \/ Ahead(q, r)

CursorOf == LastOf(Items)

\* One request of the client and its answer.
list_incidents ==
  /\ request \in {"first", "next"}
  /\ shown' = [r \in Row |-> IF r \in Items /\ shown[r] < 2 THEN shown[r] + 1 ELSE shown[r]]
  /\ steady' = IF request = "first" THEN Selected ELSE steady
  /\ request' = IF More THEN "next" ELSE "done"
  /\ cursor' = IF More THEN [created |-> created[CursorOf], id |-> CursorOf] ELSE NoCursor
  /\ UNCHANGED <<clock, created, matching>>

\* After the last page the client may start over.
StartOver ==
  /\ request = "done"
  /\ request' = "first"
  /\ shown' = [r \in Row |-> 0]
  /\ steady' = {}
  /\ UNCHANGED <<clock, created, matching, cursor>>

--------------------------------------------------------------------------------
Next ==
  \/ Tick
  \/ \E r \in Row : Insert(r) \/ ChangeState(r)
  \/ list_incidents
  \/ StartOver

Spec == Init /\ [][Next]_vars

\* A client that wants the whole list keeps asking for the next page.
FairSpec == Spec /\ WF_vars(list_incidents)

--------------------------------------------------------------------------------
(* Properties *)

\* No incident is shown on two pages of one reading, whatever the other
\* sessions insert or change meanwhile: the list is ordered by (created_at, id)
\* and never by the time alone (docs/implementation-contracts.md:24).
ShownOnce == \A r \in Row : shown[r] <= 1

\* A reading that reached its last page has shown every incident that was
\* selected when it began and stayed selected, also when many share one time.
NothingMissed == request = "done" => \A r \in steady : shown[r] >= 1

\* A client that keeps following nextCursor reaches the last page, even while
\* incidents are inserted and change state behind its cursor.
ReadingEnds == (request = "next") ~> (request # "next")
================================================================================
