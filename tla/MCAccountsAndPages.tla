------------------------- MODULE MCAccountsAndPages -------------------------
(***************************************************************************)
(* UserAccounts and Pages in one run.  They share no state, so each is     *)
(* explored while the other one rests in its initial state.                *)
(***************************************************************************)
EXTENDS MCUserAccounts, PageWalks

P == INSTANCE Pages

pageVars == <<listing, rows, walk>>

MCInit == Init /\ P!Init

MCNext == \/ P!Init /\ Next /\ UNCHANGED pageVars
          \/ Init /\ P!Next /\ UNCHANGED vars

MCSpec == MCInit /\ [][MCNext]_<<vars, pageVars>>
=============================================================================
