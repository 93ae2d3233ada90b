----------------------------- MODULE TokenVault -----------------------------
(***************************************************************************)
(* What the token table promises the rest of the system: every user has    *)
(* one slot, a slot holds at most one secret, a secret is put into a slot  *)
(* once and never comes back after it was taken out.                       *)
(***************************************************************************)
CONSTANTS Users, Tokens, NoToken

VARIABLES
    current,    \* current[u]: the secret that authenticates u, or NoToken
    minted      \* secrets that were ever put into a slot

vaultVars == <<current, minted>>

VaultInit ==
    /\ current = [u \in Users |-> NoToken]
    /\ minted = {}

\* A fresh secret enters an empty slot.
Issue(u) ==
    /\ current[u] = NoToken
    /\ \E t \in Tokens \ minted :
        /\ current' = [current EXCEPT ![u] = t]
        /\ minted' = minted \cup {t}

\* The secret of a slot stops working, for good.
Withdraw(u) ==
    /\ current[u] # NoToken
    /\ current' = [current EXCEPT ![u] = NoToken]
    /\ UNCHANGED minted

VaultNext == \E u \in Users : Issue(u) \/ Withdraw(u)

VaultSpec == VaultInit /\ [][VaultNext]_vaultVars
=============================================================================
