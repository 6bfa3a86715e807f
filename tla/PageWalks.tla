----------------------------- MODULE PageWalks -----------------------------
(***************************************************************************)
(* The state of Pages: a table's rows and the walk of a client through its *)
(* pages, with what the two listings promise to the client.                *)
(***************************************************************************)
EXTENDS Integers, FiniteSets

CONSTANTS MaxRows,   \* bound: INSERTs of a behaviour
          Limit      \* rows on a page; the route clamps it to 1 .. 100

ASSUME PagesAssumption == MaxRows \in Nat /\ Limit \in 1 .. 100

\* A row's key is what its listing is ordered by: messages.id, which the
\* identity sequence counts up, or the rank of users.registered_at.  Both are
\* taken when the INSERT begins.  NoCursor stands for no beforeId.
Key == 1 .. MaxRows
NoCursor == 0
State == {"unused", "open", "visible", "gone"}

VARIABLES
  listing,   \* which of the two is walked
  rows,      \* the table
  pages,     \* of the walk: the pages received,
  shown,     \*   the rows on them,
  repeats,   \*   how often they showed a row that had been shown,
  cursor,    \*   the oldest message, or NoCursor,
  more,      \*   whether the client asks for another page,
  known,     \*   the rows there were at its beginning,
  added, removed   \* and how many came and went since then

walk == <<pages, shown, repeats, cursor, more, known, added, removed>>

Visible == {k \in Key : rows[k] = "visible"}

\* The place of a row in ORDER BY key DESC.
Rank(S, k) == Cardinality({j \in S : j > k})

-----------------------------------------------------------------------------
(* What the listings promise *)

Ended == pages > 0 /\ ~more

\* A walk of the messages that has ended has shown every message there was
\* when it began, and it shows none twice, although messages are stored between
\* its pages, not in the order of their ids, and hasMore may be out of date
\* when the next page is read.
HistoryComplete ==
  listing = "messages" => (Ended => known \subseteq shown) /\ repeats = 0

\* The users the pages so far have passed without showing them, of those that
\* were there from the beginning until now.
Missed == {k \in (known \cap Visible) \ shown :
             ~more \/ Rank(Visible, k) < pages * Limit}

\* An offset does not stay where it was when rows come and go before it, but it
\* drifts by one for each: a walk misses no more users than were deleted since
\* it began, and shows no more of them again than registered since.
DriftBounded ==
  listing = "users" => Cardinality(Missed) <= removed /\ repeats <= added
=============================================================================
