------------------------ MODULE MatchLifecycleProofs ------------------------
(***************************************************************************)
(* MatchLifecycle for any number of threads and connections: the status    *)
(* and the flags of a match agree, no accept is lost, messages are stored  *)
(* only after both, and no call keeps a connection.                        *)
(***************************************************************************)
EXTENDS MatchLifecycle, TLAPS

MatchRow == [status : {"absent", "pending", "accepted", "declined"},
             accepted : SUBSET Side, declinedBy : Party \cup {Nobody}]

\* A row that was inserted satisfies the CHECK, so it has a status.
RowInserted == row = Absent \/ Coherent(row)

\* A thread that has no connection yet, or none any more, owns none.
GuardsReleased == \A t \in Thread : pc[t] \in {"idle", "acquire"} => owned[t] = {}

\* What a caller has read of an accepted match stays true, and whoever sends
\* has read it.
SendersKnow == \A t \in Thread :
                 seen[t] = "accepted" \/ call[t].op = "send" => row.status = "accepted"

Inv == /\ TypeOK /\ AcceptedIffBoth /\ RowInserted /\ GuardsReleased /\ SendersKnow
       /\ AcceptancesCount

-----------------------------------------------------------------------------
(* The UPDATE with its trigger *)

\* The trigger repairs the status of a row with both flags, and only of those.
LEMMA TriggerAgrees ==
  ASSUME NEW r \in MatchRow, r.status = "accepted" => r.accepted = Side
  PROVE  /\ sync_match_status(r) \in MatchRow
         /\ sync_match_status(r).accepted = r.accepted
         /\ sync_match_status(r).status = "accepted" <=> r.accepted = Side
         /\ sync_match_status(r).status = "absent" => r.status = "absent"
BY DEF MatchRow, sync_match_status, Side

\* An UPDATE keeps both flags of a row that has them, so it keeps "accepted".
LEMMA UpdateAgrees ==
  ASSUME row \in MatchRow, AcceptedIffBoth, NEW r \in MatchRow, Update(r),
         r.status = "accepted" => r.accepted = Side,
         row.accepted \subseteq r.accepted,
         row.status # "absent", r.status # "absent"
  PROVE  /\ row' \in MatchRow
         /\ AcceptedIffBoth'
         /\ row'.status # "absent"
         /\ row.status = "accepted" => row'.status = "accepted"
         /\ row.accepted \subseteq row'.accepted
         /\ row' = row \/ Coherent(row')
<1>1. CASE row' = row
  BY <1>1 DEF AcceptedIffBoth
<1>2. CASE row' = sync_match_status(r) /\ Coherent(row')
  <2>1. row.accepted = Side => r.accepted = Side
    BY DEF MatchRow
  <2>2. /\ row' \in MatchRow /\ row'.accepted = r.accepted
        /\ row'.status = "accepted" <=> r.accepted = Side
        /\ row'.status = "absent" => r.status = "absent"
    BY <1>2, TriggerAgrees
  <2> QED BY <1>2, <2>1, <2>2 DEF AcceptedIffBoth
<1> QED BY <1>1, <1>2 DEF Update

\* The row under any step: its type, the agreement, and acceptances stay.
RowKept == /\ row' \in MatchRow
           /\ AcceptedIffBoth'
           /\ RowInserted'
           /\ row.status = "accepted" => row'.status = "accepted"
           /\ row.accepted \subseteq row'.accepted

LEMMA RowUnchanged == Inv /\ UNCHANGED row => RowKept
BY DEF Inv, TypeOK, MatchRow, AcceptedIffBoth, RowInserted, Coherent, RowKept

LEMMA AcceptKeepsRow ==
  ASSUME Inv, NEW t \in Thread, acceptMatch(t)
  PROVE  RowKept
<1> DEFINE r == [row EXCEPT !.accepted = @ \cup ({call[t].who} \cap Side)]
<1>1. row \in MatchRow /\ row.status # "absent"
  BY DEF Inv, TypeOK, MatchRow, RowInserted, Coherent, acceptMatch
<1>2. r \in MatchRow /\ r.status = row.status /\ row.accepted \subseteq r.accepted
      /\ r.accepted \subseteq Side
  BY <1>1 DEF MatchRow
<1>3. row.status = "accepted" => row.accepted = Side
  BY DEF Inv, AcceptedIffBoth
<1>4. Update(r)
  BY DEF acceptMatch
<1> HIDE DEF r
<1> QED BY <1>1, <1>2, <1>3, <1>4, UpdateAgrees DEF Inv, RowKept, RowInserted

LEMMA DeclineKeepsRow ==
  ASSUME Inv, NEW t \in Thread, declineMatch(t)
  PROVE  RowKept
<1> DEFINE r == [row EXCEPT !.status = "declined", !.declinedBy = call[t].who]
<1>1. row \in MatchRow /\ row.status # "absent"
  BY DEF Inv, TypeOK, MatchRow, RowInserted, Coherent, declineMatch
<1>2. call[t].who \in Party \cup {Nobody}
  BY DEF Inv, TypeOK, Call, NoCall
<1>3. r \in MatchRow /\ r.status = "declined" /\ r.accepted = row.accepted
  BY <1>1, <1>2 DEF MatchRow
<1>4. Update(r)
  BY DEF declineMatch
<1> HIDE DEF r
<1> QED BY <1>1, <1>3, <1>4, UpdateAgrees DEF Inv, RowKept, RowInserted

LEMMA InsertKeepsRow == Inv /\ InsertMatch => RowKept
BY DEF Inv, TypeOK, MatchRow, InsertMatch, Absent, AcceptedIffBoth, RowInserted, Coherent,
       RowKept, Side, Nobody

LEMMA RowStep == Inv /\ [Next]_vars => RowKept
<1> SUFFICES ASSUME Inv, [Next]_vars
             PROVE  RowKept
  OBVIOUS
<1>1. CASE InsertMatch
  BY <1>1, InsertKeepsRow
<1>2. ASSUME NEW t \in Thread, acceptMatch(t) \/ declineMatch(t)
      PROVE  RowKept
  BY <1>2, AcceptKeepsRow, DeclineKeepsRow
<1>3. CASE UNCHANGED row
  BY <1>3, RowUnchanged
<1> QED BY <1>1, <1>2, <1>3
        DEF Next, Step, Begin, Acquire, TimesOut, Release, NotFound, getMatch, sendMessage,
            Return, vars, pool

-----------------------------------------------------------------------------
(* The invariant *)

LEMMA Start == Init => Inv
<1> SUFFICES ASSUME Init
             PROVE  Inv
  OBVIOUS
<1>1. TypeOK
  BY MatchAssumption DEF Init, TypeOK, Absent, NoCall, PC
<1>2. AcceptedIffBoth /\ RowInserted
  BY DEF Init, AcceptedIffBoth, RowInserted, Absent, Side
<1>3. GuardsReleased /\ SendersKnow /\ AcceptancesCount
  BY DEF Init, GuardsReleased, SendersKnow, AcceptancesCount, NoCall
<1> QED BY <1>1, <1>2, <1>3 DEF Inv

LEMMA TypesStep ==
  ASSUME Inv, [Next]_vars
  PROVE  TypeOK'
<1> USE DEF TypeOK, Inv
<1>1. row' \in MatchRow
  BY RowStep DEF RowKept
<1>2. ASSUME NEW t \in Thread, NEW c \in Call, Begin(t, c)
      PROVE  TypeOK'
  BY <1>1, <1>2 DEF Begin, Goto, PC, pool, MatchRow
<1>3. ASSUME NEW t \in Thread, Acquire(t)
      PROVE  TypeOK'
  BY <1>1, <1>3 DEF Acquire, Goto, PC, Pool!Take, MatchRow
<1>4. ASSUME NEW t \in Thread, TimesOut(t)
      PROVE  TypeOK'
  BY <1>1, <1>4 DEF TimesOut, Return, Goto, PC, pool, MatchRow
<1>5. ASSUME NEW t \in Thread, Release(t)
      PROVE  TypeOK'
  BY <1>1, <1>5 DEF Release, Return, Goto, PC, Pool!Give, MatchRow
<1>6. ASSUME NEW t \in Thread, NotFound(t) \/ acceptMatch(t) \/ declineMatch(t)
      PROVE  TypeOK'
  BY <1>1, <1>6 DEF NotFound, acceptMatch, declineMatch, Goto, PC, pool, MatchRow
<1>7. ASSUME NEW t \in Thread, getMatch(t)
      PROVE  TypeOK'
  <2>1. row.status \in {"pending", "accepted", "declined"}
    BY <1>7 DEF getMatch, RowInserted, Coherent
  <2> QED BY <1>1, <1>7, <2>1 DEF getMatch, Goto, PC, pool, MatchRow
<1>8. ASSUME NEW t \in Thread, sendMessage(t)
      PROVE  TypeOK'
  BY <1>1, <1>8, MatchAssumption DEF sendMessage, Goto, PC, pool, MatchRow
<1>9. CASE InsertMatch \/ UNCHANGED vars
  BY <1>1, <1>9 DEF InsertMatch, vars, pool, MatchRow
<1> QED BY <1>2, <1>3, <1>4, <1>5, <1>6, <1>7, <1>8, <1>9 DEF Next, Step

LEMMA GuardsStep ==
  ASSUME Inv, [Next]_vars
  PROVE  GuardsReleased'
<1> USE DEF TypeOK, Inv, GuardsReleased
<1>1. ASSUME NEW t \in Thread, NEW c \in Call, Begin(t, c)
      PROVE  GuardsReleased'
  BY <1>1 DEF Begin, Goto, pool
<1>2. ASSUME NEW t \in Thread, Acquire(t)
      PROVE  GuardsReleased'
  BY <1>2 DEF Acquire, Goto, Pool!Take
<1>3. ASSUME NEW t \in Thread, TimesOut(t)
      PROVE  GuardsReleased'
  BY <1>3 DEF TimesOut, Return, Goto, pool
<1>4. ASSUME NEW t \in Thread, Release(t)
      PROVE  GuardsReleased'
  <2>1. PICK c \in owned[t] : /\ Pool!Give(t, c)
                              /\ IF owned[t] = {c} THEN Return(t) ELSE UNCHANGED <<pc, call>>
    BY <1>4 DEF Release
  <2>2. pc[t] = "return"
    BY <1>4 DEF Release
  <2>3. CASE owned[t] = {c}
    BY <2>1, <2>3 DEF Return, Goto, Pool!Give
  <2>4. CASE owned[t] # {c}
    BY <2>1, <2>2, <2>4 DEF Pool!Give
  <2> QED BY <2>3, <2>4
<1>5. ASSUME NEW t \in Thread, \/ NotFound(t) \/ acceptMatch(t) \/ declineMatch(t)
                               \/ getMatch(t) \/ sendMessage(t)
      PROVE  GuardsReleased'
  BY <1>5 DEF NotFound, acceptMatch, declineMatch, getMatch, sendMessage, Goto, pool
<1>6. CASE InsertMatch \/ UNCHANGED vars
  BY <1>6 DEF InsertMatch, vars, pool
<1> QED BY <1>1, <1>2, <1>3, <1>4, <1>5, <1>6 DEF Next, Step

LEMMA SendersStep ==
  ASSUME Inv, [Next]_vars
  PROVE  SendersKnow'
<1> USE DEF TypeOK, Inv, SendersKnow
<1>1. row.status = "accepted" => row'.status = "accepted"
  BY RowStep DEF RowKept
<1>2. ASSUME NEW t \in Thread, NEW c \in Call, Begin(t, c)
      PROVE  SendersKnow'
  BY <1>1, <1>2 DEF Begin
<1>3. ASSUME NEW t \in Thread, TimesOut(t) \/ Release(t)
      PROVE  SendersKnow'
  BY <1>1, <1>3 DEF TimesOut, Release, Return, NoCall
<1>4. ASSUME NEW t \in Thread, \/ Acquire(t) \/ NotFound(t) \/ acceptMatch(t)
                               \/ declineMatch(t) \/ sendMessage(t)
      PROVE  SendersKnow'
  BY <1>1, <1>4 DEF Acquire, NotFound, acceptMatch, declineMatch, sendMessage
<1>5. ASSUME NEW t \in Thread, getMatch(t)
      PROVE  SendersKnow'
  BY <1>1, <1>5 DEF getMatch
<1>6. CASE InsertMatch \/ UNCHANGED vars
  BY <1>1, <1>6 DEF InsertMatch, vars
<1> QED BY <1>2, <1>3, <1>4, <1>5, <1>6 DEF Next, Step

\* The UPDATE of a side's accept passes the CHECK and puts the side in the row.
LEMMA AcceptSetsFlag ==
  ASSUME Inv, NEW t \in Thread, acceptMatch(t), call[t].who \in Side
  PROVE  call[t].who \in row'.accepted
<1> DEFINE r == [row EXCEPT !.accepted = @ \cup ({call[t].who} \cap Side)]
<1>1. row \in MatchRow /\ Update(r)
  BY DEF Inv, TypeOK, MatchRow, acceptMatch
<1>2. r \in MatchRow /\ r.status = row.status /\ call[t].who \in r.accepted
  BY <1>1 DEF MatchRow
<1>3. row # Absent /\ Coherent(row) /\ row.accepted \subseteq r.accepted
      /\ r.declinedBy = row.declinedBy
  BY <1>1 DEF Inv, RowInserted, acceptMatch, MatchRow
<1> HIDE DEF r
<1>4. Coherent(sync_match_status(r)) /\ sync_match_status(r).accepted = r.accepted
  BY <1>1, <1>2, <1>3 DEF Coherent, sync_match_status, MatchRow
<1> QED BY <1>1, <1>2, <1>4 DEF Update

LEMMA AcceptancesStep ==
  ASSUME Inv, [Next]_vars
  PROVE  AcceptancesCount'
<1> USE DEF TypeOK, Inv, AcceptancesCount
<1>1. row.accepted \subseteq row'.accepted
  BY RowStep DEF RowKept
<1>2. ASSUME NEW t \in Thread, NEW c \in Call, Begin(t, c)
      PROVE  AcceptancesCount'
  BY <1>1, <1>2 DEF Begin, Goto
<1>3. ASSUME NEW t \in Thread, Acquire(t)
      PROVE  AcceptancesCount'
  BY <1>1, <1>3 DEF Acquire, Goto
<1>4. ASSUME NEW t \in Thread, TimesOut(t) \/ Release(t)
      PROVE  AcceptancesCount'
  BY <1>1, <1>4 DEF TimesOut, Release, Return, Goto
<1>5. ASSUME NEW t \in Thread, acceptMatch(t)
      PROVE  AcceptancesCount'
  <2>1. call[t].who \in Side => call[t].who \in row'.accepted
    BY <1>5, AcceptSetsFlag
  <2> QED BY <1>1, <1>5, <2>1 DEF acceptMatch, Goto
<1>6. ASSUME NEW t \in Thread, NotFound(t) \/ declineMatch(t) \/ getMatch(t) \/ sendMessage(t)
      PROVE  AcceptancesCount'
  BY <1>1, <1>6 DEF NotFound, declineMatch, getMatch, sendMessage, Goto
<1>7. CASE InsertMatch \/ UNCHANGED vars
  BY <1>1, <1>7 DEF InsertMatch, vars
<1> QED BY <1>2, <1>3, <1>4, <1>5, <1>6, <1>7 DEF Next, Step

LEMMA Inductive == Inv /\ [Next]_vars => Inv'
BY RowStep, TypesStep, GuardsStep, SendersStep, AcceptancesStep DEF Inv, RowKept

LEMMA Invariant == Spec => []Inv
<1> QED BY Start, Inductive, PTL DEF Spec

-----------------------------------------------------------------------------
(* The results *)

\* All variables keep their types: in particular nobody reads a status from a
\* match that does not exist.
THEOREM TypeCorrect == Spec => []TypeOK
<1>1. Inv => TypeOK
  BY DEF Inv
<1> QED BY <1>1, Invariant, PTL

\* No interleaving of accepts and declines separates status and flags.
THEOREM StatusAndFlagsAgree == Spec => []AcceptedIffBoth
<1>1. Inv => AcceptedIffBoth
  BY DEF Inv
<1> QED BY <1>1, Invariant, PTL

\* Whatever way acceptMatch, declineMatch, getMatch and sendMessage end, their
\* guards have given back every connection.
THEOREM NoConnectionLeaks == Spec => []IdleOwnsNothing
<1>1. Inv => IdleOwnsNothing
  BY DEF Inv, GuardsReleased, IdleOwnsNothing
<1> QED BY <1>1, Invariant, PTL

\* From its UPDATE until it answers, acceptMatch can rely on its side's
\* acceptance being in the row, whatever the other side does meanwhile.
THEOREM NoAcceptLost == Spec => []AcceptancesCount
<1>1. Inv => AcceptancesCount
  BY DEF Inv
<1> QED BY <1>1, Invariant, PTL

\* sendMessage stores a message only while the match is accepted, because what
\* its caller has read cannot become false before the INSERT.
THEOREM ChatAfterAcceptance == Spec => MessagesNeedAcceptance
<1>1. ASSUME Inv, Next, messages' # messages
      PROVE  row.status = "accepted"
  <2>1. PICK t \in Thread : sendMessage(t)
    BY <1>1 DEF Next, Step, Begin, Acquire, TimesOut, Release, NotFound, acceptMatch,
                declineMatch, getMatch, InsertMatch
  <2> QED BY <1>1, <2>1 DEF sendMessage, Running, Inv, SendersKnow
<1>2. Inv /\ [Next]_vars => [messages' # messages => row.status = "accepted"]_vars
  BY <1>1
<1> QED BY <1>2, Invariant, PTL DEF Spec, MessagesNeedAcceptance
=============================================================================
