---------------------------- MODULE ResourcePool ----------------------------
(***************************************************************************)
(* What a pool of exclusive resources promises its users: a resource is    *)
(* either free or owned by one thread, only its owner gives it back, and   *)
(* the pool never loses or invents one.  ConnPool implements it.           *)
(***************************************************************************)
CONSTANTS Thread, Resource

VARIABLES stocked,  \* the resources the pool was filled with
          free,     \* those nobody owns
          owned     \* owned[t]: those thread t owns

vars == <<stocked, free, owned>>

Init == /\ stocked = {}
        /\ free = {}
        /\ owned = [t \in Thread |-> {}]

Stock(r) == /\ r \notin stocked
            /\ stocked' = stocked \cup {r}
            /\ free' = free \cup {r}
            /\ UNCHANGED owned

Take(t, r) == /\ r \in free
              /\ free' = free \ {r}
              /\ owned' = [owned EXCEPT ![t] = @ \cup {r}]
              /\ stocked' = stocked

Give(t, r) == /\ r \in owned[t]
              /\ owned' = [owned EXCEPT ![t] = @ \ {r}]
              /\ free' = free \cup {r}
              /\ stocked' = stocked

\* The pool is emptied, when nobody owns anything.
Clear == /\ \A t \in Thread : owned[t] = {}
         /\ stocked' = {}
         /\ free' = {}
         /\ UNCHANGED owned

Next == \/ Clear
        \/ \E r \in Resource : \/ Stock(r)
                              \/ \E t \in Thread : Take(t, r) \/ Give(t, r)

Spec == Init /\ [][Next]_vars
=============================================================================
