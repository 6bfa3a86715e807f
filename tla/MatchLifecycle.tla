--------------------------- MODULE MatchLifecycle ---------------------------
(***************************************************************************)
(* One row of `matches` under concurrent DBManager::acceptMatch,           *)
(* declineMatch, getMatch and sendMessage, with the connections these      *)
(* methods take from the pool (ResourcePool is what ConnPool implements).  *)
(* An acquire that finds no free connection waits until one is free or its *)
(* timeout throws.  Every statement is its own transaction.                *)
(***************************************************************************)
EXTENDS Integers, FiniteSets

CONSTANTS Thread, Conn,
          MaxMessages   \* bound: messages sent for the match

ASSUME MatchAssumption == /\ IsFiniteSet(Thread)
                          /\ MaxMessages \in Nat

Side == {"man", "woman"}
Party == Side \cup {"stranger"}   \* methods take any user id
Nobody == "nobody"

VARIABLES
  row,          \* the row, or Absent
  messages,     \* number of rows in messages for this match
  free, owned,  \* the pool: idle connections, those each thread's guards hold
  pc, call,     \* each thread's progress; its method and user id
  seen          \* the status the thread's caller last read with getMatch

pool == <<free, owned>>
vars == <<row, messages, free, owned, pc, call, seen>>

Pool == INSTANCE ResourcePool WITH Resource <- Conn, stocked <- Conn

Absent == [status |-> "absent", accepted |-> {}, declinedBy |-> Nobody]
Op == {"accept", "decline", "get", "send"}
Call == [op : Op, who : Party]
NoCall == [op |-> "none", who |-> Nobody]
PC == {"idle", "acquire", "run", "refetch", "fetch", "return"}
Goto(t, l) == pc' = [pc EXCEPT ![t] = l]

Init == /\ row = Absent
        /\ messages = 0
        /\ free = Conn
        /\ owned = [t \in Thread |-> {}]
        /\ pc = [t \in Thread |-> "idle"]
        /\ call = [t \in Thread |-> NoCall]
        /\ seen = [t \in Thread |-> "unread"]

-----------------------------------------------------------------------------
(* The schema's side of an UPDATE *)

\* Mutant: the trigger is not installed.
sync_match_status_Off(r) == r

\* Trigger trg_matches_auto_accept.
sync_match_status(r) == IF r.accepted = Side THEN [r EXCEPT !.status = "accepted"] ELSE r

\* chk_match_status_coherence
Coherent(r) == \/ r.status = "accepted" /\ r.accepted = Side
               \/ r.status = "declined" /\ r.declinedBy # Nobody
               \/ r.status = "pending"

\* A row the CHECK refuses is not written.
Update(r) == LET new == sync_match_status(r)
             IN  row' = IF Coherent(new) THEN new ELSE row

-----------------------------------------------------------------------------
(* Calls and the pool *)

\* The caller of sendMessage has verified with getMatch that the match is
\* accepted and that the sender is one of its sides.
Begin(t, c) == /\ pc[t] = "idle"
               /\ c.op = "send" => seen[t] = "accepted" /\ c.who \in Side
               /\ Goto(t, "acquire")
               /\ call' = [call EXCEPT ![t] = c]
               /\ UNCHANGED <<row, messages, pool, seen>>

\* The method returns or throws.
Return(t) == /\ Goto(t, "idle")
             /\ call' = [call EXCEPT ![t] = NoCall]

Acquire(t) == /\ pc[t] \in {"acquire", "refetch"}
              /\ \E c \in Conn : Pool!Take(t, c)
              /\ Goto(t, IF pc[t] = "acquire" THEN "run" ELSE "fetch")
              /\ UNCHANGED <<row, messages, call, seen>>

\* Mutant: the nested acquire has no timeout.
TimesOut_OuterOnly(t) == /\ free = {}
                         /\ pc[t] = "acquire" /\ Return(t)
                         /\ UNCHANGED <<row, messages, pool, seen>>

\* The exception unwinds through the guard acceptMatch holds, if any.
TimesOut(t) == /\ free = {}
               /\ \/ pc[t] = "acquire" /\ Return(t)
                  \/ pc[t] = "refetch" /\ Goto(t, "return") /\ UNCHANGED call
               /\ UNCHANGED <<row, messages, pool, seen>>

\* Mutant: getMatch's guard is released, acceptMatch's is forgotten.
Release_One(t) == /\ pc[t] = "return"
                  /\ \E c \in owned[t] : Pool!Give(t, c)
                  /\ Return(t)
                  /\ UNCHANGED <<row, messages, seen>>

\* ~ConnGuard, for each guard of the call.
Release(t) == /\ pc[t] = "return"
              /\ \E c \in owned[t] :
                   /\ Pool!Give(t, c)
                   /\ IF owned[t] = {c} THEN Return(t) ELSE UNCHANGED <<pc, call>>
              /\ UNCHANGED <<row, messages, seen>>

-----------------------------------------------------------------------------
(* The methods, once they have their connection.  No row, or a statement   *)
(* that fails, is reported as NotFound and changes nothing.                *)

Running(t, o) == pc[t] = "run" /\ call[t].op = o

NotFound(t) == /\ pc[t] \in {"run", "fetch"}
               /\ Goto(t, "return")
               /\ UNCHANGED <<row, messages, pool, call, seen>>

\* Mutant: declining withdraws the user's own acceptance as well.
declineMatch_Withdraws(t) ==
  /\ Running(t, "decline") /\ row # Absent
  /\ Update([row EXCEPT !.status = "declined", !.declinedBy = call[t].who, !.accepted = @ \ {call[t].who}])
  /\ Goto(t, "return")
  /\ UNCHANGED <<messages, pool, call, seen>>

declineMatch(t) == /\ Running(t, "decline") /\ row # Absent
                   /\ Update([row EXCEPT !.status = "declined", !.declinedBy = call[t].who])
                   /\ Goto(t, "return")
                   /\ UNCHANGED <<messages, pool, call, seen>>

\* Mutant: the CASEs of the UPDATE have no ELSE that keeps the other flag.
acceptMatch_Overwrites(t) == /\ Running(t, "accept") /\ row # Absent
                             /\ Update([row EXCEPT !.accepted = {call[t].who} \cap Side])
                             /\ Goto(t, "refetch")
                             /\ UNCHANGED <<messages, pool, call, seen>>

\* The UPDATE commits, then getMatch acquires a connection of its own.
acceptMatch(t) == /\ Running(t, "accept") /\ row # Absent
                  /\ Update([row EXCEPT !.accepted = @ \cup ({call[t].who} \cap Side)])
                  /\ Goto(t, "refetch")
                  /\ UNCHANGED <<messages, pool, call, seen>>

\* getMatch's SELECT, called by itself or at the end of acceptMatch.
getMatch(t) == /\ Running(t, "get") \/ pc[t] = "fetch"
               /\ row # Absent
               /\ seen' = [seen EXCEPT ![t] = row.status]
               /\ Goto(t, "return")
               /\ UNCHANGED <<row, messages, pool, call>>

\* sendMessage inserts without a look at the match (its id is a foreign key).
sendMessage(t) == /\ Running(t, "send") /\ row # Absent
                  /\ messages < MaxMessages
                  /\ messages' = messages + 1
                  /\ Goto(t, "return")
                  /\ UNCHANGED <<row, pool, call, seen>>

\* Whoever turns an algorithm's result into matches inserts the row.
InsertMatch == /\ row = Absent
               /\ row' = [Absent EXCEPT !.status = "pending"]
               /\ UNCHANGED <<messages, pool, pc, call, seen>>

-----------------------------------------------------------------------------
Step(t) == \/ Acquire(t) \/ TimesOut(t) \/ Release(t) \/ NotFound(t)
           \/ acceptMatch(t) \/ declineMatch(t) \/ getMatch(t) \/ sendMessage(t)

Next == \/ \E t \in Thread : \/ \E c \in Call : Begin(t, c)
                             \/ Step(t)
        \/ InsertMatch

Spec == Init /\ [][Next]_vars

\* Threads run, and the clock reaches every timeout.
FairSpec == Spec /\ \A t \in Thread : WF_vars(Step(t))

-----------------------------------------------------------------------------
(* Properties *)

TypeOK == /\ row \in [status : {"absent", "pending", "accepted", "declined"},
                      accepted : SUBSET Side, declinedBy : Party \cup {Nobody}]
          /\ messages \in 0 .. MaxMessages
          /\ free \in SUBSET Conn
          /\ owned \in [Thread -> SUBSET Conn]
          /\ pc \in [Thread -> PC]
          /\ call \in [Thread -> Call \cup {NoCall}]
          /\ seen \in [Thread -> {"unread", "pending", "accepted", "declined"}]

\* Identities are revealed when, and only when, both sides have accepted: no
\* interleaving of accepts and declines separates the status from the flags.
AcceptedIffBoth == row.status = "accepted" <=> row.accepted = Side

\* No accept is lost: from its UPDATE until acceptMatch answers, the side that
\* accepted is among those the row shows, whatever the other side's overlapping
\* accept or decline does in between, while the call waits for its second
\* connection.
AcceptancesCount ==
  \A t \in Thread : pc[t] \in {"refetch", "fetch"} /\ call[t].who \in Side =>
    call[t].who \in row.accepted

\* A message is stored only while the match is accepted, although the sender's
\* check and the insert are separate statements on separate connections.
MessagesNeedAcceptance == [][messages' # messages => row.status = "accepted"]_vars

\* A thread outside a call owns no connection, whatever way the call ended.
IdleOwnsNothing == \A t \in Thread : pc[t] = "idle" => owned[t] = {}

\* Every call returns, also when all connections are held by acceptMatch calls
\* that wait for their second one.
CallsReturn == \A t \in Thread : (pc[t] # "idle") ~> (pc[t] = "idle")

\* What db_manager.h says declineMatch does, and what it reports when it
\* succeeds: "UPDATE matches SET status='declined', declined_by=$2".
DeclineTakesEffect == [][\A t \in Thread : declineMatch(t) => row'.status = "declined"]_vars
=============================================================================
