------------------------------- MODULE Pages -------------------------------
(***************************************************************************)
(* A client that walks a listing page by page, newest row first, while     *)
(* others add and remove rows: DBManager::getMessages pages by a cursor,   *)
(* DBManager::listUsers by an offset.  Each page is one SELECT.  The state *)
(* and the promises are in PageWalks.                                      *)
(***************************************************************************)
EXTENDS PageWalks

vars == <<listing, rows, walk>>

NoWalk == /\ pages = 0 /\ shown = {} /\ repeats = 0 /\ cursor = NoCursor
          /\ more = FALSE /\ known = {} /\ added = 0 /\ removed = 0

Init == /\ listing \in {"messages", "users"}
        /\ rows = [k \in Key |-> "unused"]
        /\ NoWalk

-----------------------------------------------------------------------------
(* The writers *)

\* An INSERT gets its key ...
Insert(k) == /\ rows[k] = "unused" /\ \A j \in 1 .. k - 1 : rows[j] # "unused"
             /\ rows' = [rows EXCEPT ![k] = "open"]
             /\ UNCHANGED <<listing, walk>>

\* ... and commits, before or after the ones with later keys, or fails.
Commit(k) == /\ rows[k] = "open"
             /\ \/ rows' = [rows EXCEPT ![k] = "visible"] /\ added' = added + 1
                \/ rows' = [rows EXCEPT ![k] = "gone"] /\ UNCHANGED added
             /\ UNCHANGED <<listing, pages, shown, repeats, cursor, more, known, removed>>

\* deleteUser; no method deletes a message.
Delete(k) == /\ listing = "users" /\ rows[k] = "visible"
             /\ rows' = [rows EXCEPT ![k] = "gone"]
             /\ removed' = removed + 1
             /\ UNCHANGED <<listing, pages, shown, repeats, cursor, more, known, added>>

-----------------------------------------------------------------------------
(* The SELECTs *)

\* ORDER BY key DESC LIMIT limit OFFSET offset
Window(S, offset, limit) == {k \in S : Rank(S, k) >= offset /\ Rank(S, k) < offset + limit}

Before(beforeId) == {k \in Visible : beforeId = NoCursor \/ k < beforeId}

\* Mutant: the LIMIT is that of the page, so that rows > limit never holds.
getMessages_NoExtra(limit, beforeId) ==
  [messages |-> Window(Before(beforeId), 0, limit), hasMore |-> FALSE]

\* LIMIT limit + 1 returns more than limit rows if there are as many.
getMessages(limit, beforeId) ==
  [messages |-> Window(Before(beforeId), 0, limit),
   hasMore  |-> Cardinality(Before(beforeId)) > limit]

\* Mutant: pages are counted from 0.
listUsers_FromZero(page, limit) == Window(Visible, page * limit, limit)

listUsers(page, limit) == Window(Visible, (page - 1) * limit, limit)

-----------------------------------------------------------------------------
(* The client; a page that fails it asks for again *)

\* The walk begins; one that has ended may begin again.
Begin == /\ ~more
         /\ pages' = 0 /\ shown' = {} /\ repeats' = 0 /\ cursor' = NoCursor /\ more' = TRUE
         /\ known' = Visible /\ added' = 0 /\ removed' = 0
         /\ UNCHANGED <<listing, rows>>

Receive(page) == /\ pages' = pages + 1
                 /\ shown' = shown \cup page
                 /\ repeats' = repeats + Cardinality(shown \cap page)
                 /\ UNCHANGED <<listing, rows, known, added, removed>>

\* The cursor of the next page is the last message of this one.
NextMessages ==
  /\ listing = "messages" /\ more
  /\ LET answer == getMessages(Limit, cursor)
     IN  /\ Receive(answer.messages)
         /\ more' = answer.hasMore
         /\ \/ answer.messages = {} /\ UNCHANGED cursor
            \/ \E c \in answer.messages : cursor' = c /\ \A k \in answer.messages : c <= k

\* A page that is not full is the last one.
NextUsers ==
  /\ listing = "users" /\ more
  /\ LET page == listUsers(pages + 1, Limit)
     IN  Receive(page) /\ more' = (Cardinality(page) = Limit)
  /\ UNCHANGED cursor

Next == \/ \E k \in Key : Insert(k) \/ Commit(k) \/ Delete(k)
        \/ Begin \/ NextMessages \/ NextUsers

Spec == Init /\ [][Next]_vars

-----------------------------------------------------------------------------
TypeOK == /\ listing \in {"messages", "users"}
          /\ rows \in [Key -> State]
          /\ pages \in Nat /\ repeats \in Nat /\ added \in Nat /\ removed \in Nat
          /\ shown \in SUBSET Key /\ known \in SUBSET Key
          /\ cursor \in Key \cup {NoCursor}
          /\ more \in BOOLEAN
=============================================================================
