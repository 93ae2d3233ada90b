--------------------------- MODULE PresenceBoard ---------------------------
(***************************************************************************)
(* What the presence tracker promises: a board that shows, for every       *)
(* account, the user whose heartbeat put it online, for a fixed time from  *)
(* the last heartbeat and not a tick longer. Looking at the board never    *)
(* changes it and returns exactly what it shows.                           *)
(***************************************************************************)
EXTENDS Naturals

CONSTANTS Accounts, Users, TTL, NoUser

VARIABLES
    board,     \* user shown for the account, NoUser when it is offline
    left,      \* ticks for which the account stays online, 0 when offline
    lastLook   \* accounts that the last look at the board returned

boardVars == <<board, left, lastLook>>

BoardInit ==
    /\ board = [a \in Accounts |-> NoUser]
    /\ left = [a \in Accounts |-> 0]
    /\ lastLook = {}

PutOnline(a, u) ==
    /\ board' = [board EXCEPT ![a] = u]
    /\ left' = [left EXCEPT ![a] = TTL]
    /\ UNCHANGED lastLook

TakeOff(S) ==
    /\ board' = [a \in Accounts |-> IF a \in S THEN NoUser ELSE board[a]]
    /\ left' = [a \in Accounts |-> IF a \in S THEN 0 ELSE left[a]]
    /\ UNCHANGED lastLook

\* An account leaves the board in the very tick in which its time is up.
Pass ==
    /\ left' = [a \in Accounts |-> IF left[a] = 0 THEN 0 ELSE left[a] - 1]
    /\ board' = [a \in Accounts |-> IF left'[a] = 0 THEN NoUser ELSE board[a]]
    /\ UNCHANGED lastLook

Look ==
    /\ lastLook' = {a \in Accounts : board[a] # NoUser}
    /\ UNCHANGED <<board, left>>

BoardNext ==
    \/ \E a \in Accounts, u \in Users : PutOnline(a, u)
    \/ \E S \in SUBSET Accounts : TakeOff(S)
    \/ Pass
    \/ Look

BoardSpec == BoardInit /\ [][BoardNext]_boardVars
=============================================================================
