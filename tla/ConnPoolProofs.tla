--------------------------- MODULE ConnPoolProofs ---------------------------
(***************************************************************************)
(* ConnPool for any finite set of threads and any pool size: its type      *)
(* invariant, exclusive ownership, conservation, the absence of lost       *)
(* wakeups, and that it implements ResourcePool.                           *)
(***************************************************************************)
EXTENDS ConnPool, SequenceTheorems, FiniteSetTheorems, TLAPS

(* available_ as a stack. *)

LEMMA Push ==
  ASSUME NEW S, NEW s \in Seq(S), NEW e \in S
  PROVE  /\ Append(s, e) \in Seq(S)
         /\ Len(Append(s, e)) = Len(s) + 1
         /\ Range(Append(s, e)) = Range(s) \cup {e}
         /\ IsInjective(s) /\ e \notin Range(s) => IsInjective(Append(s, e))
<1> DEFINE a == Append(s, e)
<1>1. /\ a \in Seq(S)
      /\ Len(a) = Len(s) + 1
      /\ \A i \in 1 .. Len(s) : a[i] = s[i]
      /\ a[Len(s) + 1] = e
  BY AppendProperties
<1>2. Len(s) \in Nat /\ DOMAIN s = 1 .. Len(s) /\ DOMAIN a = 1 .. (Len(s) + 1)
  BY <1>1, LenProperties
<1>3. Range(a) = Range(s) \cup {e}
  <2> HIDE DEF a
  <2> QED BY <1>1, <1>2 DEF Range
<1>4. IsInjective(s) /\ e \notin Range(s) => IsInjective(a)
  <2> HIDE DEF a
  <2> QED BY <1>1, <1>2 DEF IsInjective, Range
<1> QED BY <1>1, <1>3, <1>4

LEMMA PopBack ==
  ASSUME NEW S, NEW s \in Seq(S), s # <<>>
  PROVE  /\ Front(s) \in Seq(S)
         /\ Last(s) \in S
         /\ Last(s) \in Range(s)
         /\ Len(s) \in Nat /\ Len(s) > 0
         /\ Len(Front(s)) = Len(s) - 1
         /\ IsInjective(s) => /\ IsInjective(Front(s))
                              /\ Range(Front(s)) = Range(s) \ {Last(s)}
<1> DEFINE n == Len(s)
           f == Front(s)
<1>1. n \in Nat /\ n > 0 /\ DOMAIN s = 1 .. n /\ \A i \in 1 .. n : s[i] \in S
  BY EmptySeq, LenProperties, ElementOfSeq
<1>2. f \in Seq(S) /\ Len(f) = n - 1 /\ \A i \in 1 .. n - 1 : f[i] = s[i]
  <2>1. \A i \in 1 .. n - 1 : s[i] \in S
    BY <1>1
  <2>2. 1 \in Int /\ n - 1 \in Int
    BY <1>1
  <2> HIDE DEF n
  <2>3. /\ SubSeq(s, 1, n - 1) \in Seq(S)
        /\ Len(SubSeq(s, 1, n - 1)) = IF 1 <= n - 1 THEN n - 1 - 1 + 1 ELSE 0
        /\ \A i \in 1 .. n - 1 - 1 + 1 : SubSeq(s, 1, n - 1)[i] = s[1 + i - 1]
    BY <2>1, <2>2, SubSeqProperties
  <2>4. f = SubSeq(s, 1, n - 1)
    BY DEF Front, n
  <2> HIDE DEF f
  <2> QED BY <1>1, <2>3, <2>4
<1>3. DOMAIN f = 1 .. n - 1
  BY <1>2, LenProperties
<1>4. Last(s) = s[n]
  BY DEF Last
<1> HIDE DEF n, f
<1>5. Last(s) \in S /\ Last(s) \in Range(s)
  BY <1>1, <1>4 DEF Range
<1>6. ASSUME IsInjective(s) PROVE IsInjective(f)
  BY <1>1, <1>2, <1>3, <1>6 DEF IsInjective
<1>7. ASSUME IsInjective(s) PROVE Range(f) = Range(s) \ {Last(s)}
  <2>1. \A x \in Range(f) : x \in Range(s) /\ x # Last(s)
    BY <1>1, <1>2, <1>3, <1>4, <1>7 DEF IsInjective, Range
  <2>2. ASSUME NEW x \in Range(s), x # Last(s) PROVE x \in Range(f)
    <3>1. PICK i \in 1 .. n : x = s[i]
      BY <1>1 DEF Range
    <3>2. i \in 1 .. n - 1
      BY <1>1, <1>4, <2>2, <3>1
    <3> QED BY <1>2, <1>3, <3>1, <3>2 DEF Range
  <2> QED BY <2>1, <2>2
<1> QED BY <1>1, <1>2, <1>5, <1>6, <1>7 DEF n, f

-----------------------------------------------------------------------------
(* Types *)

\* Popping the stack keeps the types of what it touches.
LEMMA PopType ==
  ASSUME TypeOK, NEW t \in Thread, Pop(t)
  PROVE  /\ available' \in Seq(all)
         /\ conn' \in [Thread -> all \cup {NoConn}]
         /\ pc' \in [Thread -> PC]
         /\ conn' = [conn EXCEPT ![t] = Last(available)]
         /\ pc' = [pc EXCEPT ![t] = "checking"]
         /\ Last(available) # NoConn
<1>1. available \in Seq(all) /\ available # <<>>
  BY DEF TypeOK, Pop
<1>2. Front(available) \in Seq(all) /\ Last(available) \in all
  BY <1>1, PopBack
<1>3. all \subseteq 1 .. opened /\ opened \in 0 .. Size
  BY DEF TypeOK
<1> QED BY <1>1, <1>2, <1>3, ConnPoolAssumption DEF TypeOK, Pop, Goto, PC, NoConn

\* Every state of every behaviour of the pool is well typed; in particular a
\* thread has a connection in transit exactly between the pop and its return.
THEOREM TypeCorrect == Spec => []TypeOK
<1>1. Init => TypeOK
  <2> SUFFICES ASSUME Init PROVE TypeOK
    OBVIOUS
  <2>1. <<>> \in Seq(all)
    BY EmptySeq
  <2> QED BY <2>1, ConnPoolAssumption DEF Init, TypeOK, PC, TransitPC, Conn, NoConn
<1>2. TypeOK /\ [Next]_vars => TypeOK'
  <2> SUFFICES ASSUME TypeOK, [Next]_vars PROVE TypeOK'
    OBVIOUS
  <2>a. /\ opened \in 0 .. Size /\ all \subseteq 1 .. opened /\ Size \in Nat
        /\ available \in Seq(all) /\ all \subseteq Conn
    BY ConnPoolAssumption DEF TypeOK, Conn
  <2>1. CASE OpenConn
    <3>0. opened' = opened + 1 /\ opened < Size /\ (all' = all \/ all' = all \cup {opened + 1})
      BY <2>1 DEF OpenConn
    <3>1. all \subseteq all' /\ all' \subseteq 1 .. opened' /\ opened' \in 0 .. Size
      <4>1. opened \in Int /\ opened >= 0
        BY <2>a
      <4>2. \A i \in 1 .. opened : i \in 1 .. (opened + 1)
        BY <4>1
      <4>3. opened + 1 \in 1 .. (opened + 1)
        BY <4>1
      <4>4. opened + 1 \in 0 .. Size
        BY <2>a, <3>0
      <4> QED BY <2>a, <3>0, <4>2, <4>3, <4>4
    <3>2. available' \in Seq(all')
      <4>1. available \in Seq(all')
        BY <2>a, <3>1, SeqMonotonic
      <4>2. CASE available' = available
        BY <4>1, <4>2
      <4>3. CASE opened + 1 \in all' /\ available' = Append(available, opened + 1)
        BY <4>1, <4>3, Push
      <4> QED BY <2>1, <4>2, <4>3 DEF OpenConn
    <3>3. opened + 1 \in Conn
      BY <2>1, <2>a DEF OpenConn, Conn
    <3> QED BY <2>1, <3>1, <3>2, <3>3 DEF TypeOK, OpenConn
  <2>2. ASSUME NEW t \in Thread, Acquire(t) PROVE TypeOK'
    <3>1. CASE Pop(t)
      BY <2>2, <3>1, PopType DEF TypeOK, Acquire, TransitPC, serverVars
    <3>2. CASE available = <<>> /\ Goto(t, "waiting") /\ UNCHANGED <<conn, available>>
      BY <2>2, <3>2 DEF TypeOK, Acquire, Goto, PC, TransitPC, serverVars
    <3> QED BY <2>2, <3>1, <3>2 DEF Acquire
  <2>3. ASSUME NEW t \in Thread, Expire(t) PROVE TypeOK'
    BY <2>3 DEF TypeOK, Expire, serverVars
  <2>4. ASSUME NEW t \in Thread, WakeUnnotified(t) PROVE TypeOK'
    BY <2>4 DEF TypeOK, WakeUnnotified, Goto, PC, TransitPC, serverVars
  <2>5. ASSUME NEW t \in Thread, Recheck(t) PROVE TypeOK'
    <3>1. CASE Pop(t)
      BY <2>5, <3>1, PopType DEF TypeOK, Recheck, TransitPC, serverVars
    <3>2. CASE /\ available = <<>> /\ UNCHANGED <<conn, available>>
               /\ Goto(t, IF expired[t] THEN "idle" ELSE "waiting")
      BY <2>5, <3>2 DEF TypeOK, Recheck, Goto, PC, TransitPC, serverVars
    <3> QED BY <2>5, <3>1, <3>2 DEF Recheck
  <2>6. ASSUME NEW t \in Thread, HandOver(t), pc[t] \in TransitPC
        PROVE  /\ held' \in [Thread -> SUBSET all]
               /\ conn' \in [Thread -> all \cup {NoConn}]
               /\ pc' \in [Thread -> PC]
               /\ \A u \in Thread : conn'[u] # NoConn <=> pc'[u] \in TransitPC
    <3>1. conn[t] \in all
      BY <2>6 DEF TypeOK
    <3> QED BY <2>6, <3>1 DEF TypeOK, HandOver, Goto, PC, TransitPC
  <2>7. ASSUME NEW t \in Thread, CheckStatus(t) PROVE TypeOK'
    <3>1. CASE HandOver(t)
      BY <2>6, <2>7, <3>1 DEF TypeOK, CheckStatus, TransitPC, serverVars
    <3>2. CASE Goto(t, "resetting") /\ UNCHANGED <<held, conn>>
      BY <2>7, <3>2 DEF TypeOK, CheckStatus, Goto, PC, TransitPC, serverVars
    <3> QED BY <2>7, <3>1, <3>2 DEF CheckStatus
  <2>8. ASSUME NEW t \in Thread, Reset(t) PROVE TypeOK'
    <3>1. CASE /\ HandOver(t)
               /\ link' = [link EXCEPT ![conn[t]] = TRUE]
               /\ status' = [status EXCEPT ![conn[t]] = "OK"]
      BY <2>6, <2>8, <3>1 DEF TypeOK, Reset, TransitPC
    <3>2. CASE Goto(t, "failing") /\ UNCHANGED <<held, conn, link, status>>
      BY <2>8, <3>2 DEF TypeOK, Reset, Goto, PC, TransitPC
    <3> QED BY <2>8, <3>1, <3>2 DEF Reset
  <2>9. ASSUME NEW t \in Thread, ReleaseFailed(t) PROVE TypeOK'
    <3>1. conn[t] \in all
      BY <2>9 DEF TypeOK, ReleaseFailed, TransitPC
    <3>2. available' \in Seq(all)
      BY <2>9, <2>a, <3>1, Push DEF ReleaseFailed, PushBack
    <3> QED BY <2>9, <3>2 DEF TypeOK, ReleaseFailed, PushBack, Goto, PC, TransitPC, serverVars
  <2>10. ASSUME NEW t \in Thread, NEW c \in Conn, ReleaseGuard(t, c) PROVE TypeOK'
    <3>1. c \in all
      BY <2>10 DEF TypeOK, ReleaseGuard
    <3>2. available' \in Seq(all)
      BY <2>10, <2>a, <3>1, Push DEF ReleaseGuard, PushBack
    <3> QED BY <2>10, <3>2 DEF TypeOK, ReleaseGuard, PushBack, Goto, PC, TransitPC, serverVars
  <2>11. ASSUME NEW t \in Thread, Notify(t) PROVE TypeOK'
    BY <2>11 DEF TypeOK, Notify, At, Goto, PC, TransitPC, serverVars
  <2>12. ASSUME NEW t \in Thread, NEW c \in Conn, FailedQuery(t, c) PROVE TypeOK'
    BY <2>12 DEF TypeOK, FailedQuery, poolVars
  <2>13. CASE Environment
    BY <2>13 DEF TypeOK, Environment, ServerStop, ServerStart, DropLink, poolVars
  <2>14. CASE UNCHANGED vars
    BY <2>14 DEF TypeOK, vars
  <2>15. CASE Destroy
    <3>1. <<>> \in Seq({})
      BY EmptySeq
    <3>2. /\ opened' = 0 /\ all' = {} /\ available' = <<>>
          /\ UNCHANGED <<held, conn, pc, expired, serverUp>>
          /\ \A t \in Thread : held[t] = {} /\ conn[t] = NoConn
      BY <2>15 DEF Destroy, TypeOK, TransitPC
    <3>3. held' \in [Thread -> SUBSET all'] /\ conn' \in [Thread -> all' \cup {NoConn}]
      BY <3>2 DEF TypeOK
    <3>4. link' \in [Conn -> BOOLEAN] /\ status' \in [Conn -> {"OK", "BAD"}]
      BY <2>15 DEF Destroy
    <3> QED BY <2>a, <3>1, <3>2, <3>3, <3>4 DEF TypeOK
  <2> QED BY <2>1, <2>2, <2>3, <2>4, <2>5, <2>7, <2>8, <2>9, <2>10, <2>11, <2>12, <2>13, <2>14, <2>15
          DEF Next, PoolStep, Caller
<1> QED BY <1>1, <1>2, PTL DEF Spec

-----------------------------------------------------------------------------
(* Ownership: each step of the pool is a step of ResourcePool or a stutter, *)
(* and ResourcePool's steps keep the owners apart.                          *)

Owned == [t \in Thread |-> held[t] \cup InTransit(t)]

\* A connection is in available_ once, and not both held and in transit.
Single == IsInjective(available) /\ \A t \in Thread : conn[t] \notin held[t]

Own == Exclusive /\ Conserved

OwnAsSets == /\ Single
             /\ \A t, u \in Thread : t # u => Owned[t] \cap Owned[u] = {}
             /\ \A t \in Thread : Owned[t] \cap Range(available) = {}
             /\ \A c : c \in all <=> \/ c \in Range(available)
                                     \/ \E t \in Thread : c \in Owned[t]

LEMMA OwnIsOwnAsSets == Own <=> OwnAsSets
BY DEF Own, Exclusive, Conserved, Single, Owned, OwnAsSets

LEMMA ConnRange == TypeOK => all \subseteq Conn /\ NoConn \notin all
<1> SUFFICES ASSUME TypeOK PROVE all \subseteq Conn /\ NoConn \notin all
  OBVIOUS
<1>1. opened \in 0 .. Size /\ all \subseteq 1 .. opened
  BY DEF TypeOK
<1> QED BY <1>1, ConnPoolAssumption DEF Conn, NoConn

LEMMA TakeStep ==
  ASSUME TypeOK, Own, NEW t \in Thread, Pop(t), conn[t] = NoConn, UNCHANGED <<all, held>>
  PROVE  (\E c \in Conn : Abstract!Take(t, c)) /\ Single'
<1>1. /\ available \in Seq(all) /\ available # <<>> /\ IsInjective(available)
      /\ all \subseteq Conn /\ NoConn \notin all
  BY ConnRange DEF TypeOK, Pop, Own, Conserved
<1>2. PICK c \in Conn : c = Last(available)
  BY <1>1, PopBack
<1>3. /\ c \in all /\ c \in Range(available)
      /\ IsInjective(Front(available)) /\ Range(Front(available)) = Range(available) \ {c}
  BY <1>1, <1>2, PopBack
<1>4. available' = Front(available) /\ conn' = [conn EXCEPT ![t] = c] /\ held' = held /\ all' = all
  BY <1>2 DEF Pop
<1>5. conn \in [Thread -> all \cup {NoConn}] /\ held \in [Thread -> SUBSET all]
  BY DEF TypeOK
<1>6. c \notin held[t]
  BY <1>3 DEF Own, Exclusive
<1>7. Owned' = [Owned EXCEPT ![t] = @ \cup {c}]
  BY <1>1, <1>3, <1>4, <1>5 DEF Owned, InTransit
<1>8. Abstract!Take(t, c)
  BY <1>3, <1>4, <1>7 DEF Abstract!Take, Owned
<1>9. Single'
  BY <1>3, <1>4, <1>5, <1>6 DEF Single, Own, Exclusive
<1> QED BY <1>8, <1>9

\* release, whichever of the two callers it has.
LEMMA GiveStep ==
  ASSUME TypeOK, Own, NEW t \in Thread, NEW c \in all,
         available' = Append(available, c), UNCHANGED all,
         \/ conn[t] = c /\ conn' = [conn EXCEPT ![t] = NoConn] /\ held' = held
         \/ c \in held[t] /\ held' = [held EXCEPT ![t] = @ \ {c}] /\ conn' = conn
  PROVE  Abstract!Give(t, c) /\ Single'
<1>1. /\ available \in Seq(all) /\ NoConn \notin all
      /\ conn \in [Thread -> all \cup {NoConn}] /\ held \in [Thread -> SUBSET all]
  BY ConnPoolAssumption DEF TypeOK, NoConn
<1>2. c \in Owned[t] /\ c \notin Range(available)
  BY <1>1 DEF Owned, InTransit, Own, Exclusive
<1>3. Range(available') = Range(available) \cup {c} /\ IsInjective(available')
  BY <1>1, <1>2, Push DEF Own, Conserved
<1>4. Owned' = [Owned EXCEPT ![t] = @ \ {c}]
  <2>0. \A u \in Thread : conn[u] \notin held[u]
    BY DEF Own, Exclusive
  <2>1. CASE conn[t] = c /\ conn' = [conn EXCEPT ![t] = NoConn] /\ held' = held
    <3>1. InTransit(t) = {c} /\ InTransit(t)' = {}
      BY <1>1, <2>1 DEF InTransit
    <3>2. \A u \in Thread : u # t => InTransit(u)' = InTransit(u)
      BY <1>1, <2>1 DEF InTransit
    <3>3. c \notin held[t] /\ held' = held
      BY <2>0, <2>1
    <3>4. held'[t] \cup InTransit(t)' = (held[t] \cup InTransit(t)) \ {c}
      BY <3>1, <3>3
    <3>5. \A u \in Thread : u # t => held'[u] \cup InTransit(u)' = held[u] \cup InTransit(u)
      BY <3>2, <3>3
    <3>6. Owned[t] = held[t] \cup InTransit(t)
      BY DEF Owned
    <3> QED BY <3>4, <3>5, <3>6 DEF Owned
  <2>2. CASE c \in held[t] /\ held' = [held EXCEPT ![t] = @ \ {c}] /\ conn' = conn
    <3>1. \A u \in Thread : InTransit(u)' = InTransit(u)
      BY <2>2 DEF InTransit
    <3>2. c \notin InTransit(t)
      BY <1>1, <2>0, <2>2 DEF InTransit
    <3>3. held'[t] = held[t] \ {c} /\ \A u \in Thread : u # t => held'[u] = held[u]
      BY <1>1, <2>2
    <3>4. held'[t] \cup InTransit(t)' = (held[t] \cup InTransit(t)) \ {c}
      BY <3>1, <3>2, <3>3
    <3>5. \A u \in Thread : u # t => held'[u] \cup InTransit(u)' = held[u] \cup InTransit(u)
      BY <3>1, <3>3
    <3>6. Owned[t] = held[t] \cup InTransit(t)
      BY DEF Owned
    <3> QED BY <3>4, <3>5, <3>6 DEF Owned
  <2> QED BY <2>1, <2>2
<1>5. Abstract!Give(t, c)
  BY <1>2, <1>3, <1>4 DEF Abstract!Give, Owned
<1>6. Single'
  BY <1>1, <1>3 DEF Single, Own, Exclusive
<1> QED BY <1>5, <1>6

LEMMA StutterStep ==
  ASSUME TypeOK, Own, UNCHANGED <<all, available>>,
         \/ UNCHANGED <<held, conn>>
         \/ \E t \in Thread : HandOver(t) /\ conn[t] # NoConn
  PROVE  UNCHANGED (Abstract!vars) /\ Single'
<1>1. CASE UNCHANGED <<held, conn>>
  BY <1>1 DEF Abstract!vars, Single, Own, Exclusive, Conserved, InTransit
<1>2. CASE \E t \in Thread : HandOver(t) /\ conn[t] # NoConn
  <2>1. PICK t \in Thread : HandOver(t) /\ conn[t] # NoConn
    BY <1>2
  <2>2. /\ NoConn \notin all
        /\ conn \in [Thread -> all \cup {NoConn}] /\ held \in [Thread -> SUBSET all]
    BY ConnPoolAssumption DEF TypeOK, NoConn
  <2>3. /\ held' = [held EXCEPT ![t] = @ \cup {conn[t]}]
        /\ conn' = [conn EXCEPT ![t] = NoConn]
    BY <2>1 DEF HandOver
  <2>4. Owned' = Owned
    BY <2>1, <2>2, <2>3 DEF Owned, InTransit
  <2>5. Single'
    BY <2>1, <2>2, <2>3 DEF Single, Own, Exclusive, Conserved
  <2> QED BY <2>4, <2>5 DEF Abstract!vars, Owned
<1> QED BY <1>1, <1>2
\* Every step of the pool refines a step of ResourcePool.
LEMMA Refinement ==
  ASSUME TypeOK, TypeOK', Own, [Next]_vars
  PROVE  [Abstract!Next]_(Abstract!vars) /\ Single'
<1>0. ASSUME NEW t \in Thread, NEW c \in Conn, Abstract!Take(t, c) \/ Abstract!Give(t, c) PROVE Abstract!Next
  BY <1>0 DEF Abstract!Next
<1>a. all \subseteq Conn /\ \A t \in Thread : conn[t] \in all \cup {NoConn}
  BY ConnRange DEF TypeOK
<1>1. CASE OpenConn
  <2>1. UNCHANGED <<held, conn>> /\ opened < Size /\ opened' = opened + 1
    BY <1>1 DEF OpenConn
  <2>2. CASE UNCHANGED <<all, available>>
    BY <2>1, <2>2, StutterStep
  <2>3. CASE all' = all \cup {opened + 1} /\ available' = Append(available, opened + 1)
    <3>0. opened \in 0 .. Size /\ all \subseteq 1 .. opened /\ available \in Seq(all)
      BY DEF TypeOK
    <3>1. PICK c \in Conn : c = opened + 1 /\ c \notin all
      BY <2>1, <3>0, ConnPoolAssumption DEF Conn
    <3>2. available \in Seq(all') /\ c \in all' /\ c \notin Range(available)
      BY <2>3, <3>0, <3>1, SeqMonotonic, RangeOfSeq
    <3>3. Range(available') = Range(available) \cup {c} /\ IsInjective(available')
      BY <2>3, <3>1, <3>2, Push DEF Own, Conserved
    <3>4. Abstract!Stock(c)
      BY <2>1, <2>3, <3>1, <3>3 DEF Abstract!Stock, InTransit
    <3>5. Single'
      BY <2>1, <3>3 DEF Single, Own, Exclusive
    <3> QED BY <3>4, <3>5 DEF Abstract!Next
  <2> QED BY <1>1, <2>2, <2>3 DEF OpenConn
<1>2. ASSUME NEW t \in Thread, Acquire(t) \/ Recheck(t)
      PROVE  [Abstract!Next]_(Abstract!vars) /\ Single'
  <2>1. UNCHANGED <<all, held>> /\ conn[t] = NoConn
    BY <1>2 DEF Acquire, Recheck, TypeOK, TransitPC
  <2>2. CASE Pop(t)
    BY <1>0, <2>1, <2>2, TakeStep
  <2>3. CASE UNCHANGED <<conn, available>>
    BY <2>1, <2>3, StutterStep
  <2> QED BY <1>2, <2>2, <2>3 DEF Acquire, Recheck
<1>3. ASSUME NEW t \in Thread, CheckStatus(t) \/ Reset(t)
      PROVE  [Abstract!Next]_(Abstract!vars) /\ Single'
  <2>1. UNCHANGED <<all, available>> /\ conn[t] # NoConn
    BY <1>3 DEF CheckStatus, Reset, TypeOK, TransitPC
  <2>2. HandOver(t) \/ UNCHANGED <<held, conn>>
    BY <1>3 DEF CheckStatus, Reset
  <2> QED BY <2>1, <2>2, StutterStep
<1>4. ASSUME NEW t \in Thread, ReleaseFailed(t)
      PROVE  [Abstract!Next]_(Abstract!vars) /\ Single'
  <2>1. PICK c \in all : c = conn[t]
    BY <1>4, <1>a DEF ReleaseFailed, TypeOK, TransitPC
  <2>2. Abstract!Give(t, c) /\ Single'
    BY <1>4, <2>1, GiveStep DEF ReleaseFailed, PushBack
  <2> QED BY <1>0, <1>a, <2>1, <2>2
<1>5. ASSUME NEW t \in Thread, NEW c \in Conn, ReleaseGuard(t, c)
      PROVE  [Abstract!Next]_(Abstract!vars) /\ Single'
  <2>1. c \in all
    BY <1>5 DEF ReleaseGuard, TypeOK
  <2>2. Abstract!Give(t, c) /\ Single'
    BY <1>5, <2>1, GiveStep DEF ReleaseGuard, PushBack
  <2> QED BY <1>0, <2>2
<1>6. ASSUME \/ \E t \in Thread : \/ Expire(t) \/ WakeUnnotified(t) \/ Notify(t)
                                  \/ \E c \in Conn : FailedQuery(t, c)
             \/ Environment
             \/ UNCHANGED vars
      PROVE  [Abstract!Next]_(Abstract!vars) /\ Single'
  <2>1. UNCHANGED <<all, available, held, conn>>
    BY <1>6 DEF Expire, WakeUnnotified, Notify, FailedQuery, Environment, ServerStop,
                ServerStart, DropLink, poolVars, vars
  <2> QED BY <2>1, StutterStep
<1>7. CASE Destroy
  <2>1. /\ all' = {} /\ available' = <<>> /\ UNCHANGED <<held, conn>>
        /\ \A t \in Thread : conn[t] = NoConn /\ held[t] = {}
    BY <1>7 DEF Destroy, TypeOK, TransitPC
  <2>2. Range(available') = {} /\ IsInjective(available')
    BY <2>1 DEF Range, IsInjective
  <2>3. Abstract!Clear
    BY <2>1, <2>2 DEF Abstract!Clear, InTransit
  <2>4. Single'
    BY <2>1, <2>2 DEF Single, Own, Exclusive
  <2> QED BY <2>3, <2>4 DEF Abstract!Next
<1> QED BY <1>1, <1>2, <1>3, <1>4, <1>5, <1>6, <1>7 DEF Next, PoolStep, Caller

\* ResourcePool's steps keep owners apart and lose nothing.
LEMMA OwnershipKept ==
  ASSUME TypeOK, TypeOK', Own, [Abstract!Next]_(Abstract!vars), Single'
  PROVE  OwnAsSets'
<1> DEFINE free == Range(available)
<1>1. OwnAsSets
  BY OwnIsOwnAsSets
<1>2. Owned \in [Thread -> SUBSET all] /\ free \subseteq all
  <2>1. free \subseteq all
    BY RangeOfSeq DEF TypeOK
  <2> QED BY <2>1 DEF TypeOK, Owned, InTransit
<1>3. CASE \E c \in Conn : Abstract!Stock(c)
  <2>1. PICK c \in Conn : c \notin all /\ all' = all \cup {c} /\ free' = free \cup {c} /\ Owned' = Owned
    BY <1>3 DEF Abstract!Stock, Owned
  <2> QED BY <1>1, <1>2, <2>1 DEF OwnAsSets
<1>4. CASE \E c \in Conn, t \in Thread : Abstract!Take(t, c)
  <2>1. PICK c \in Conn, t \in Thread : /\ c \in free /\ all' = all /\ free' = free \ {c}
                                        /\ Owned' = [Owned EXCEPT ![t] = @ \cup {c}]
    BY <1>4 DEF Abstract!Take, Owned
  <2> QED BY <1>1, <1>2, <2>1 DEF OwnAsSets
<1>5. CASE \E c \in Conn, t \in Thread : Abstract!Give(t, c)
  <2>1. PICK c \in Conn, t \in Thread : /\ c \in Owned[t] /\ all' = all /\ free' = free \cup {c}
                                        /\ Owned' = [Owned EXCEPT ![t] = @ \ {c}]
    BY <1>5 DEF Abstract!Give, Owned
  <2> QED BY <1>1, <1>2, <2>1 DEF OwnAsSets
<1>6. CASE UNCHANGED Abstract!vars
  <2>1. all' = all /\ free' = free /\ Owned' = Owned
    BY <1>6 DEF Abstract!vars, Owned
  <2> QED BY <1>1, <2>1 DEF OwnAsSets
<1>7. CASE Abstract!Clear
  <2>1. /\ all' = {} /\ free' = {} /\ Owned' = Owned
        /\ \A t \in Thread : Owned[t] = {}
    BY <1>7 DEF Abstract!Clear, Owned
  <2> QED BY <1>1, <2>1 DEF OwnAsSets
<1> QED BY <1>3, <1>4, <1>5, <1>6, <1>7 DEF Abstract!Next

LEMMA OwnInductive == Spec => []Own
<1>1. Init => Own
  <2> SUFFICES ASSUME Init PROVE OwnAsSets
    BY OwnIsOwnAsSets
  <2>1. /\ all = {} /\ available = <<>>
        /\ \A t \in Thread : held[t] = {} /\ conn[t] = NoConn
    BY DEF Init
  <2>2. Range(available) = {} /\ IsInjective(available)
    BY <2>1 DEF Range, IsInjective
  <2> QED BY <2>1, <2>2 DEF OwnAsSets, Single, Owned, InTransit
<1>2. TypeOK /\ TypeOK' /\ Own /\ [Next]_vars => Own'
  <2> SUFFICES ASSUME TypeOK, TypeOK', Own, [Next]_vars PROVE Own'
    OBVIOUS
  <2>1. [Abstract!Next]_(Abstract!vars) /\ Single'
    BY Refinement
  <2>2. OwnAsSets'
    BY <2>1, OwnershipKept
  <2> QED BY <2>2, OwnIsOwnAsSets, PTL
<1> QED BY <1>1, <1>2, TypeCorrect, PTL DEF Spec

\* No two threads ever use the same PGconn, and no thread uses one that
\* another may pop from available_.
THEOREM ExclusiveUse == Spec => []Exclusive
<1>1. Own => Exclusive
  BY DEF Own
<1> QED BY <1>1, OwnInductive, PTL

\* No connection leaks and none is queued twice.
THEOREM NothingLost == Spec => []Conserved
<1>1. Own => Conserved
  BY DEF Own
<1> QED BY <1>1, OwnInductive, PTL

\* The pool with its mutex, wait set, timeouts and resets implements the
\* abstract pool of exclusive resources.
THEOREM Implementation == Spec => ImplementsResourcePool
<1>1. Init => Abstract!Init
  <2> SUFFICES ASSUME Init PROVE Abstract!Init
    OBVIOUS
  <2>1. Range(available) = {}
    BY DEF Init, Range
  <2> QED BY <2>1 DEF Init, Abstract!Init, InTransit
<1>2. TypeOK /\ TypeOK' /\ Own /\ [Next]_vars => [Abstract!Next]_(Abstract!vars)
  BY Refinement
<1> QED BY <1>1, <1>2, TypeCorrect, OwnInductive, PTL DEF Spec, ImplementsResourcePool, Abstract!Spec
-----------------------------------------------------------------------------
(* Wakeups *)

\* NoLostWakeup with what makes it inductive: nobody waits on a pool that is
\* still being filled.
Filled == (At("waiting") \cup At("woken")) # {} => opened = Size
WakeInv == Filled /\ NoLostWakeup

LEMMA AwakeChange ==
  ASSUME NEW t \in Thread, NEW S \in SUBSET Thread
  PROVE  /\ IsFiniteSet(S) /\ Cardinality(S) \in Nat
         /\ t \in S => Cardinality(S \ {t}) = Cardinality(S) - 1
         /\ t \notin S => Cardinality(S \cup {t}) = Cardinality(S) + 1
<1>1. IsFiniteSet(S)
  BY ConnPoolAssumption, FS_Subset
<1> QED BY <1>1, FS_CardinalityType, FS_AddElement, FS_RemoveElement

\* While a thread sleeps, each idle connection has a thread that is on its way
\* to take it, or a releaser that has still to notify one.
THEOREM WakeupsAreNotLost == Spec => []NoLostWakeup
<1>1. Init => WakeInv
  BY DEF Init, WakeInv, Filled, NoLostWakeup, At
<1>2. TypeOK /\ Filled /\ [Next]_vars => Filled'
  <2> SUFFICES ASSUME TypeOK, Filled, [Next]_vars PROVE Filled'
    OBVIOUS
  <2>1. CASE OpenConn
    BY <2>1, ConnPoolAssumption DEF OpenConn, Filled, At
  <2>2. ASSUME NEW t \in Thread, Acquire(t) PROVE Filled'
    BY <2>2 DEF Acquire, Filled
  <2>3. ASSUME NEW t \in Thread, Notify(t) \/ Recheck(t) \/ WakeUnnotified(t) PROVE Filled'
    <3>1. opened' = opened /\ pc \in [Thread -> PC]
      BY <2>3 DEF Notify, Recheck, WakeUnnotified, TypeOK
    <3>2. CASE \E w \in Thread : pc[w] \in {"waiting", "woken"}
      BY <3>1, <3>2 DEF Filled, At
    <3>3. CASE Notify(t) /\ Goto(t, "idle")
      BY <3>1, <3>3 DEF Filled, At, Goto
    <3> QED BY <2>3, <3>2, <3>3 DEF Notify, Recheck, WakeUnnotified, At
  <2>4. ASSUME NEW t \in Thread, \/ CheckStatus(t) \/ Reset(t) \/ ReleaseFailed(t)
                                 \/ \E c \in Conn : ReleaseGuard(t, c)
        PROVE  Filled'
    BY <2>4 DEF CheckStatus, Reset, HandOver, ReleaseFailed, ReleaseGuard, PushBack, Filled, At, Goto, TypeOK
  <2>5. ASSUME \/ \E t \in Thread : \/ Expire(t) \/ \E c \in Conn : FailedQuery(t, c)
               \/ Environment
               \/ UNCHANGED vars
        PROVE  Filled'
    BY <2>5 DEF Expire, FailedQuery, Environment, ServerStop, ServerStart, DropLink, poolVars, vars, Filled, At
  <2>6. CASE Destroy
    BY <2>6 DEF Destroy, Filled, At
  <2> QED BY <2>1, <2>2, <2>3, <2>4, <2>5, <2>6 DEF Next, PoolStep, Caller
<1>3. TypeOK /\ WakeInv /\ Filled' /\ [Next]_vars => WakeInv'
  <2> SUFFICES ASSUME TypeOK, WakeInv, Filled', [Next]_vars PROVE NoLostWakeup'
    BY DEF WakeInv
  <2>a. /\ Awake \subseteq Thread /\ available \in Seq(all)
        /\ IsFiniteSet(Awake) /\ Cardinality(Awake) \in Nat /\ Len(available) \in Nat
    BY ConnPoolAssumption, FS_Subset, FS_CardinalityType, LenProperties DEF Awake, At, TypeOK
  <2>b. pc \in [Thread -> PC]
    BY DEF TypeOK
  <2>1. CASE OpenConn
    BY <2>1, ConnPoolAssumption DEF OpenConn, WakeInv, Filled, NoLostWakeup, At
  <2>2. ASSUME NEW t \in Thread, Acquire(t) PROVE NoLostWakeup'
    <3>1. CASE Pop(t)
      <4>1. Len(available') = Len(available) - 1
        BY <2>a, <3>1, PopBack DEF Pop
      <4>2. Awake' = Awake /\ At("waiting")' = At("waiting")
        BY <2>2, <2>b, <3>1 DEF Pop, Acquire, Goto, At, Awake
      <4> QED BY <2>a, <4>1, <4>2 DEF WakeInv, NoLostWakeup
    <3>2. CASE available = <<>> /\ available' = available
      <4>1. Awake' \subseteq Thread 
        BY <2>2 DEF Awake, At, Acquire
      <4>2. Cardinality(Awake') \in Nat /\ Len(available') = 0
        BY <3>2, <4>1, AwakeChange, <2>2, EmptySeq
      <4> QED BY <4>1, <4>2 DEF WakeInv, NoLostWakeup
    <3> QED BY <2>2, <3>1, <3>2 DEF Acquire
  <2>3. ASSUME NEW t \in Thread, WakeUnnotified(t) PROVE NoLostWakeup'
    <3>1. Awake' = Awake \cup {t} /\ t \notin Awake
      BY <2>3, <2>b DEF WakeUnnotified, Goto, Awake, At
    <3>2. At("waiting") # {} /\ available' = available
      BY <2>3 DEF WakeUnnotified, At
    <3> QED BY <2>a, <3>1, <3>2, AwakeChange DEF WakeInv, NoLostWakeup
  <2>4. ASSUME NEW t \in Thread, Recheck(t) PROVE NoLostWakeup'
    <3>1. CASE Pop(t)
      <4>1. Len(available') = Len(available) - 1
        BY <2>a, <3>1, PopBack DEF Pop
      <4>2. Awake' = Awake \ {t} /\ t \in Awake
        BY <2>4, <2>b, <3>1 DEF Pop, Recheck, Goto, At, Awake
      <4>3. At("waiting")' = At("waiting")
        BY <2>4, <2>b, <3>1 DEF Pop, Recheck, Goto, At
      <4> QED BY <2>a, <4>1, <4>2, <4>3, AwakeChange DEF WakeInv, NoLostWakeup
    <3>2. CASE available = <<>> /\ available' = available
      <4>1. Awake' \subseteq Thread
        BY <2>4 DEF Awake, At, Recheck
      <4>2. Cardinality(Awake') \in Nat /\ Len(available') = 0
        BY <3>2, <4>1, AwakeChange, <2>4, EmptySeq
      <4> QED BY <4>1, <4>2 DEF WakeInv, NoLostWakeup
    <3> QED BY <2>4, <3>1, <3>2 DEF Recheck
  <2>5. ASSUME NEW t \in Thread, CheckStatus(t) \/ Reset(t) PROVE NoLostWakeup'
    <3>1. Awake' = Awake /\ At("waiting")' = At("waiting")
      BY <2>5, <2>b DEF CheckStatus, Reset, HandOver, Goto, At, Awake
    <3>2. available' = available
      BY <2>5 DEF CheckStatus, Reset
    <3> QED BY <3>1, <3>2 DEF WakeInv, NoLostWakeup
  <2>6. ASSUME NEW t \in Thread, NEW c \in all, PushBack(t, c), pc[t] \in {"idle", "failing"}
        PROVE NoLostWakeup'
    <3>1. Len(available') = Len(available) + 1
      BY <2>a, <2>6, Push DEF PushBack
    <3>2. Awake' = Awake \cup {t} /\ t \notin Awake
      BY <2>6, <2>b DEF PushBack, Goto, At, Awake
    <3>3. At("waiting")' = At("waiting")
      BY <2>6, <2>b DEF PushBack, Goto, At
    <3> QED BY <2>a, <3>1, <3>2, <3>3, AwakeChange DEF WakeInv, NoLostWakeup
  <2>7. ASSUME NEW t \in Thread, ReleaseFailed(t) PROVE NoLostWakeup'
    <3>1. PICK c \in all : c = conn[t]
      BY <2>7 DEF ReleaseFailed, TypeOK, TransitPC
    <3> QED BY <2>6, <2>7, <3>1 DEF ReleaseFailed, PushBack
  <2>8. ASSUME NEW t \in Thread, NEW c \in Conn, ReleaseGuard(t, c) PROVE NoLostWakeup'
    <3>1. c \in all
      BY <2>8 DEF ReleaseGuard, TypeOK
    <3> QED BY <2>6, <2>8, <3>1 DEF ReleaseGuard
  <2>9. ASSUME NEW t \in Thread, Notify(t) PROVE NoLostWakeup'
    <3>1. available' = available
      BY <2>9 DEF Notify
    <3>2. CASE At("waiting") = {} /\ Goto(t, "idle")
      BY <2>b, <3>2 DEF At, Goto, NoLostWakeup
    <3>3. ASSUME NEW w \in At("waiting"), pc' = [pc EXCEPT ![t] = "idle", ![w] = "woken"]
          PROVE NoLostWakeup'
      <4>1. w \in Thread /\ w # t /\ w \notin Awake /\ t \in Awake
        BY <2>9, <3>3 DEF Notify, At, Awake
      <4>2. Awake' = (Awake \ {t}) \cup {w}
        BY <2>9, <2>b, <3>3, <4>1 DEF At, Awake
      <4>3. Cardinality(Awake') = Cardinality(Awake)
        <5>1. Cardinality(Awake \ {t}) = Cardinality(Awake) - 1
          BY <2>a, <4>1, AwakeChange
        <5>2. Cardinality((Awake \ {t}) \cup {w}) = Cardinality(Awake \ {t}) + 1
          BY <2>a, <4>1, AwakeChange
        <5> QED BY <2>a, <4>2, <5>1, <5>2
      <4> QED BY <3>1, <3>3, <4>3 DEF WakeInv, NoLostWakeup
    <3> QED BY <2>9, <3>2, <3>3 DEF Notify
  <2>10. ASSUME \/ \E t \in Thread : \/ Expire(t) \/ \E c \in Conn : FailedQuery(t, c)
                \/ Environment
                \/ UNCHANGED vars
         PROVE  NoLostWakeup'
    <3>1. UNCHANGED <<available, pc>>
      BY <2>10 DEF Expire, FailedQuery, Environment, ServerStop, ServerStart, DropLink, poolVars, vars
    <3> QED BY <3>1 DEF WakeInv, NoLostWakeup, Awake, At
  <2>11. CASE Destroy
    BY <2>11 DEF Destroy, NoLostWakeup, At
  <2> QED BY <2>1, <2>2, <2>3, <2>4, <2>5, <2>7, <2>8, <2>9, <2>10, <2>11 DEF Next, PoolStep, Caller
<1>4. WakeInv => Filled /\ NoLostWakeup
  BY DEF WakeInv
<1> QED BY <1>1, <1>2, <1>3, <1>4, TypeCorrect, PTL DEF Spec

=============================================================================
