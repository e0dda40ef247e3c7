-------------------------------- MODULE Mutex --------------------------------
(***************************************************************************)
(* What the lock of kvsrv/lock.go promises to those who work under it: at  *)
(* most one client is inside, and the lock it took stays with it until it  *)
(* has left and given it up itself.                                        *)
(***************************************************************************)
CONSTANTS
  Client,
  Free     \* nobody holds the lock

VARIABLES
  holder,  \* to whom the lock belongs, whether it knows already or not
  inside   \* the clients between the return of Acquire and the call of Release

Init == holder = Free /\ inside = {}

Take(c)  == holder = Free /\ holder' = c /\ UNCHANGED inside
Enter(c) == holder = c /\ inside' = inside \cup {c} /\ UNCHANGED holder
Leave(c) == c \in inside /\ inside' = inside \ {c} /\ UNCHANGED holder
Give(c)  == holder = c /\ c \notin inside /\ holder' = Free /\ UNCHANGED inside

Next == \E c \in Client : Take(c) \/ Enter(c) \/ Leave(c) \/ Give(c)

Spec == Init /\ [][Next]_<<holder, inside>>
==============================================================================
